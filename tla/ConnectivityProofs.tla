------------------------- MODULE ConnectivityProofs -------------------------
(***************************************************************************)
(* Proofs for Connectivity, for any SIMs, modems and VPN connections and   *)
(* without the bounds of TLC's runs: NoEcho, that the client never answers *)
(* an announcement by a choice of its own; AddedIsListed, that a new       *)
(* connection is listed before its path is told; and AtRestMirrored, that  *)
(* a client who has heard everything shows what the manager has.           *)
(*                                                                         *)
(* The client's operators take a client and return one, and so do their    *)
(* lemmas.                                                                 *)
(***************************************************************************)
EXTENDS ConnectivityInvariants, TLAPS, FiniteSetTheorems, SequenceTheorems

-----------------------------------------------------------------------------
\* Maps and sequences

\* Only() leaves values out.
LEMMA OnlyFacts ==
  ASSUME NEW f, NEW S
  PROVE  /\ IsMap(Only(f, S)) /\ DOMAIN Only(f, S) = DOMAIN f \cap S
         /\ \A x \in DOMAIN f : x \in S => Only(f, S)[x] = f[x]
BY DEF IsMap, Only

\* The empty function has no values.
LEMMA EmptyFacts == IsMap(Empty) /\ DOMAIN Empty = {}
BY DEF IsMap, Empty

\* Functions with the same values are the same.
LEMMA SameMap ==
  ASSUME NEW f, NEW g, IsMap(f), IsMap(g), DOMAIN f = DOMAIN g, \A x \in DOMAIN f : f[x] = g[x]
  PROVE  f = g
BY DEF IsMap

\* The names of objects differ, and so do those of modems and SIMs with
\* different numbers.
LEMMA ObjectsDiffer ==
  /\ Private # Status /\ Private # Listed /\ Status # Listed
  /\ \A p, q : /\ ModemObject(p) \notin {Private, Status, Listed}
               /\ SimObject(p) \notin {Private, Status, Listed}
               /\ ModemObject(p) # SimObject(q)
               /\ ModemObject(p) = ModemObject(q) => p = q
               /\ SimObject(p) = SimObject(q) => p = q
BY DEF Private, Status, Listed, ModemObject, SimObject

\* Each object has the properties of its interface.
LEMMA PropertiesOf ==
  /\ Properties(Private) = PrivateProperties /\ Properties(Status) = StatusProperties
  /\ \A p \in Nat : Properties(ModemObject(p)) = {"Sim"}
                    /\ Properties(SimObject(p)) = SimProperties
BY ObjectsDiffer DEF Properties

\* A sequence is a function on its places.
LEMMA SeqFacts ==
  ASSUME NEW s, IsSeq(s)
  PROVE  Len(s) \in Nat /\ DOMAIN s = 1 .. Len(s)
BY DEF IsSeq

\* Places behind the first sequence are those of the second;
LEMMA ConcatFacts ==
  ASSUME NEW s, IsSeq(s), NEW b, IsSeq(b)
  PROVE  Behind(s, b, s \o b)
<1>1. PICK S, T : s \in Seq(S) /\ b \in Seq(T)
  BY DEF IsSeq
<1>2. s \in Seq(S \cup T) /\ b \in Seq(S \cup T)
  BY <1>1
<1>3. s \o b \in Seq(S \cup T) /\ Len(s \o b) = Len(s) + Len(b)
      /\ \A n \in 1 .. Len(s) + Len(b) : (s \o b)[n] = IF n <= Len(s) THEN s[n] ELSE b[n - Len(s)]
  BY <1>2
<1> QED BY <1>3, SeqFacts DEF Behind, IsSeq

\* the same for one element,
LEMMA AppendFacts ==
  ASSUME NEW s, IsSeq(s), NEW e
  PROVE  Behind(s, <<e>>, Append(s, e)) /\ IsSeq(<<e>>) /\ Len(<<e>>) = 1 /\ <<e>>[1] = e
<1>1. PICK S : s \in Seq(S)
  BY DEF IsSeq
<1>2. s \in Seq(S \cup {e}) /\ <<e>> \in Seq({e})
  BY <1>1
<1>3. Append(s, e) \in Seq(S \cup {e}) /\ Len(Append(s, e)) = Len(s) + 1
      /\ Append(s, e)[Len(s) + 1] = e
      /\ \A n \in 1 .. Len(s) : Append(s, e)[n] = s[n]
  BY <1>2
<1> QED BY <1>2, <1>3, SeqFacts DEF Behind, IsSeq

\* and all places move up when the head is taken.
LEMMA TailFacts ==
  ASSUME NEW s, IsSeq(s), s # <<>>
  PROVE  /\ IsSeq(Tail(s)) /\ Len(s) \in Nat \ {0} /\ Len(Tail(s)) = Len(s) - 1
         /\ 1 \in DOMAIN s /\ Head(s) = s[1]
         /\ DOMAIN Tail(s) = 1 .. Len(s) - 1
         /\ \A n \in DOMAIN Tail(s) : n + 1 \in DOMAIN s /\ Tail(s)[n] = s[n + 1]
         /\ \A n \in DOMAIN s : n # 1 => n - 1 \in DOMAIN Tail(s) /\ Tail(s)[n - 1] = s[n]
<1>1. PICK S : s \in Seq(S)
  BY DEF IsSeq
<1>2. Tail(s) \in Seq(S) /\ Len(s) \in Nat \ {0} /\ Len(Tail(s)) = Len(s) - 1
      /\ Head(s) = s[1] /\ DOMAIN s = 1 .. Len(s)
      /\ \A n \in 1 .. Len(s) - 1 : Tail(s)[n] = s[n + 1]
  BY <1>1
<1> QED BY <1>2 DEF IsSeq

-----------------------------------------------------------------------------
\* Announcements

\* The numbered objects of a type in a queue are listed, each once or
\* more, and nothing else is.
LEMMA NumberedFacts ==
  ASSUME NEW q, IsFiniteSet(DOMAIN q), NEW type,
         \A o \in DOMAIN q : o[1] = type => o[2] \in Nat /\ o = <<type, o[2]>>
  PROVE  /\ IsSeq(Numbered(q, type))
         /\ \A k \in DOMAIN Numbered(q, type) : Numbered(q, type)[k] \in DOMAIN q
         /\ \A o \in DOMAIN q : o[1] = type =>
                \E k \in DOMAIN Numbered(q, type) : Numbered(q, type)[k] = o
<1> DEFINE os == {x \in DOMAIN q : x[1] = type}
           ns == {o[2] : o \in os}
           c == Cardinality(ns)
           Upto(n) == {m \in ns : m <= n}
           Place == [n \in ns |-> Cardinality(Upto(n))]
           Kth(k) == CHOOSE n \in ns : Cardinality(Upto(n)) = k
<1>1. IsFiniteSet(os)
  BY FS_Subset
<1>2. IsFiniteSet(ns) /\ ns \subseteq Nat
  <2>1. ns \subseteq Nat
    OBVIOUS
  <2>2. [o \in os |-> o[2]] \in Surjection(os, ns)
    BY DEF Surjection
  <2> QED BY <1>1, <2>1, <2>2, FS_Surjection
<1>3. c \in Nat /\ IsFiniteSet(1 .. c) /\ Cardinality(1 .. c) = c
  BY <1>2, FS_CardinalityType, FS_Interval
<1>4. \A n \in ns : IsFiniteSet(Upto(n)) /\ Cardinality(Upto(n)) \in 1 .. c
  <2> TAKE n \in ns
  <2>1. Upto(n) \in SUBSET ns /\ n \in Upto(n)
    BY <1>2
  <2>2. IsFiniteSet(Upto(n)) /\ Cardinality(Upto(n)) <= c
    BY <1>2, <2>1, FS_Subset
  <2>3. Cardinality(Upto(n)) \in Nat /\ Cardinality(Upto(n)) # 0
    BY <2>1, <2>2, FS_CardinalityType, FS_EmptySet
  <2> HIDE DEF Upto, c
  <2> QED BY <1>3, <2>2, <2>3
<1>5. \A n, m \in ns : n < m => Cardinality(Upto(n)) < Cardinality(Upto(m))
  <2> SUFFICES ASSUME NEW n \in ns, NEW m \in ns, n < m
               PROVE  Cardinality(Upto(n)) < Cardinality(Upto(m))
    OBVIOUS
  <2>1. Upto(n) \in SUBSET Upto(m) /\ m \in Upto(m) /\ m \notin Upto(n)
    BY <1>2
  <2>2. Upto(n) # Upto(m)
    BY <2>1
  <2>3. Cardinality(Upto(n)) <= Cardinality(Upto(m)) /\ Cardinality(Upto(n)) # Cardinality(Upto(m))
    <3> HIDE DEF Upto
    <3> QED BY <1>4, <2>1, <2>2, FS_Subset
  <2> HIDE DEF Upto, c
  <2> QED BY <1>3, <1>4, <2>3
<1>6. Place \in Injection(ns, 1 .. c)
  <2>1. Place \in [ns -> 1 .. c]
    BY <1>4
  <2>2. \A n, m \in ns : Place[n] = Place[m] => n = m
    <3> HIDE DEF Upto, ns
    <3> QED BY <1>2, <1>3, <1>4, <1>5
  <2> QED BY <2>1, <2>2 DEF Injection, IsInjective
<1>7. Place \in Surjection(ns, 1 .. c)
  <2> HIDE DEF Place, ns
  <2> QED BY <1>2, <1>3, <1>6, FS_Injection
<1>8. \A k \in 1 .. c : \E n \in ns : Cardinality(Upto(n)) = k
  <2> HIDE DEF Upto, ns
  <2> QED BY <1>7 DEF Surjection
<1>9. \A k \in 1 .. c : Kth(k) \in ns
  <2> HIDE DEF Upto, ns
  <2> QED BY <1>8
<1>10. \A n \in ns : Kth(Cardinality(Upto(n))) = n
  <2> TAKE n \in ns
  <2>1. \A m \in ns : Cardinality(Upto(m)) = Cardinality(Upto(n)) => m = n
    <3> HIDE DEF Upto, ns
    <3> QED BY <1>2, <1>4, <1>5
  <2> HIDE DEF Upto, ns
  <2> QED BY <2>1
<1>11. Numbered(q, type) = [k \in 1 .. c |-> <<type, Kth(k)>>]
  BY DEF Numbered
<1>12. \A n \in ns : <<type, n>> \in DOMAIN q
  OBVIOUS
<1>13. \A o \in DOMAIN q : o[1] = type => o[2] \in ns /\ o = <<type, o[2]>>
  OBVIOUS
<1> HIDE DEF ns, Kth, c, Upto, Place, os
<1>14. IsSeq(Numbered(q, type))
  <2>1. Numbered(q, type) \in Seq({<<type, n>> : n \in ns})
    BY <1>3, <1>9, <1>11
  <2> QED BY <2>1 DEF IsSeq
<1>15. \A k \in DOMAIN Numbered(q, type) : Numbered(q, type)[k] \in DOMAIN q
  BY <1>9, <1>11, <1>12
<1>16. ASSUME NEW o \in DOMAIN q, o[1] = type
       PROVE  \E k \in DOMAIN Numbered(q, type) : Numbered(q, type)[k] = o
  <2>1. PICK k : k = Cardinality(Upto(o[2]))
    OBVIOUS
  <2>2. o[2] \in ns /\ o = <<type, o[2]>>
    BY <1>13, <1>16
  <2>3. k \in 1 .. c /\ Kth(k) = o[2]
    BY <1>4, <1>10, <2>1, <2>2
  <2>4. k \in DOMAIN Numbered(q, type) /\ Numbered(q, type)[k] = <<type, Kth(k)>>
    BY <1>11, <2>3
  <2> QED BY <2>2, <2>3, <2>4
<1> QED BY <1>14, <1>15, <1>16

\* The type and the number of an object can be read from its name.
LEMMA ObjectShape ==
  /\ Private[1] = "Private" /\ Status[1] = "NetworkingStatus"
  /\ \A p : /\ ModemObject(p)[1] = "modem" /\ ModemObject(p)[2] = p
            /\ ModemObject(p) = <<"modem", ModemObject(p)[2]>>
            /\ SimObject(p)[1] = "sim" /\ SimObject(p)[2] = p
            /\ SimObject(p) = <<"sim", SimObject(p)[2]>>
BY DEF Private, Status, ModemObject, SimObject

\* A concatenation has the messages of both.
LEMMA ConcatElements ==
  ASSUME NEW s, IsSeq(s), NEW t, IsSeq(t)
  PROVE  IsSeq(s \o t) /\ Elements(s \o t) = Elements(s) \cup Elements(t)
<1>1. PICK u : u = s \o t
  OBVIOUS
<1>2. Behind(s, t, u)
  BY <1>1, ConcatFacts
<1>3. /\ Len(s) \in Nat /\ Len(t) \in Nat /\ Len(u) \in Nat
      /\ DOMAIN s = 1 .. Len(s) /\ DOMAIN t = 1 .. Len(t) /\ DOMAIN u = 1 .. Len(u)
  BY <1>2, SeqFacts DEF Behind
<1>4. \A n \in DOMAIN u : u[n] \in Elements(s) \cup Elements(t)
  <2> TAKE n \in DOMAIN u
  <2>1. n <= Len(s) => n \in DOMAIN s /\ u[n] = s[n]
    BY <1>2, <1>3 DEF Behind
  <2>2. ~(n <= Len(s)) => n - Len(s) \in DOMAIN t /\ u[n] = t[n - Len(s)]
    BY <1>2, <1>3 DEF Behind
  <2> QED BY <2>1, <2>2 DEF Elements
<1>5. \A m \in DOMAIN s : m \in DOMAIN u /\ u[m] = s[m]
  BY <1>2, <1>3 DEF Behind
<1>6. \A m \in DOMAIN t : m + Len(s) \in DOMAIN u /\ u[m + Len(s)] = t[m]
  <2> TAKE m \in DOMAIN t
  <2>1. m + Len(s) \in 1 .. Len(u) /\ ~(m + Len(s) <= Len(s)) /\ m + Len(s) - Len(s) = m
    BY <1>2, <1>3 DEF Behind
  <2> QED BY <1>2, <1>3, <2>1 DEF Behind
<1>7. Elements(s) \cup Elements(t) \subseteq Elements(u)
  BY <1>5, <1>6 DEF Elements
<1>8. Elements(u) \subseteq Elements(s) \cup Elements(t)
  BY <1>4 DEF Elements
<1> QED BY <1>1, <1>2, <1>7, <1>8 DEF Behind

\* The order in which flushPropertyChanges() goes through a queue lists
\* all its objects.
LEMMA InOrderFacts ==
  ASSUME NEW q, IsFiniteSet(DOMAIN q), DOMAIN q \subseteq Objects
  PROVE  IsSeq(InOrder(q)) /\ Elements(InOrder(q)) = DOMAIN q
<1> DEFINE One(o) == IF o \in DOMAIN q THEN <<o>> ELSE <<>>
           m == Numbered(q, "modem")
           s == Numbered(q, "sim")
<1>1. \A o : IsSeq(One(o)) /\ Elements(One(o)) = DOMAIN q \cap {o}
  <2> TAKE o
  <2>1. CASE o \in DOMAIN q
    <3>1. PICK t : t = <<o>>
      OBVIOUS
    <3>2. t \in Seq({o}) /\ DOMAIN t = 1 .. 1 /\ t[1] = o
      BY <3>1
    <3>3. IsSeq(t) /\ Elements(t) = {o}
      BY <3>2 DEF IsSeq, Elements
    <3> QED BY <2>1, <3>1, <3>3
  <2>2. CASE o \notin DOMAIN q
    <3>1. <<>> \in Seq({}) /\ DOMAIN <<>> = {}
      OBVIOUS
    <3>2. IsSeq(<<>>) /\ Elements(<<>>) = {}
      BY <3>1 DEF IsSeq, Elements
    <3> QED BY <2>2, <3>2
  <2> QED BY <2>1, <2>2
<1>2. \A o \in Objects :
          /\ o[1] = "modem" => o[2] \in Nat /\ o = <<"modem", o[2]>>
          /\ o[1] = "sim" => o[2] \in Nat /\ o = <<"sim", o[2]>>
          /\ o \in {Private, Status} \/ o[1] = "modem" \/ o[1] = "sim"
  BY ObjectShape DEF Objects
<1>3. /\ IsSeq(m) /\ Elements(m) \subseteq DOMAIN q
      /\ {o \in DOMAIN q : o[1] = "modem"} \subseteq Elements(m)
  <2>1. /\ IsSeq(m) /\ \A k \in DOMAIN m : m[k] \in DOMAIN q
        /\ \A o \in DOMAIN q : o[1] = "modem" => \E k \in DOMAIN m : m[k] = o
    BY <1>2, NumberedFacts
  <2> HIDE DEF m
  <2> QED BY <2>1 DEF Elements
<1>4. /\ IsSeq(s) /\ Elements(s) \subseteq DOMAIN q
      /\ {o \in DOMAIN q : o[1] = "sim"} \subseteq Elements(s)
  <2>1. /\ IsSeq(s) /\ \A k \in DOMAIN s : s[k] \in DOMAIN q
        /\ \A o \in DOMAIN q : o[1] = "sim" => \E k \in DOMAIN s : s[k] = o
    BY <1>2, NumberedFacts
  <2> HIDE DEF s
  <2> QED BY <2>1 DEF Elements
<1>5. InOrder(q) = One(Status) \o One(Private) \o m \o s
  BY DEF InOrder
<1> HIDE DEF One, m, s
<1>6. IsSeq(One(Status) \o One(Private))
      /\ Elements(One(Status) \o One(Private)) = DOMAIN q \cap {Status, Private}
  BY <1>1, ConcatElements
<1>7. IsSeq(One(Status) \o One(Private) \o m)
      /\ Elements(One(Status) \o One(Private) \o m)
             = (DOMAIN q \cap {Status, Private}) \cup Elements(m)
  BY <1>3, <1>6, ConcatElements
<1>8. IsSeq(One(Status) \o One(Private) \o m \o s)
      /\ Elements(One(Status) \o One(Private) \o m \o s)
             = (DOMAIN q \cap {Status, Private}) \cup Elements(m) \cup Elements(s)
  BY <1>4, <1>7, ConcatElements
<1>9. DOMAIN q = (DOMAIN q \cap {Status, Private}) \cup Elements(m) \cup Elements(s)
  BY <1>2, <1>3, <1>4
<1> QED BY <1>5, <1>8, <1>9

\* A flush sends the signals of all objects in the queue, and no other.
LEMMA SignalsFacts ==
  ASSUME NEW q, IsFiniteSet(DOMAIN q), DOMAIN q \subseteq Objects
  PROVE  Announced(Signals(q), q)
<1>1. PICK s : s = InOrder(q)
  OBVIOUS
<1>2. IsSeq(s) /\ (\A n \in DOMAIN s : s[n] \in DOMAIN q)
      /\ \A o \in DOMAIN q : \E n \in DOMAIN s : s[n] = o
  BY <1>1, InOrderFacts DEF Elements
<1>3. Signals(q) = [n \in DOMAIN s |-> Signal(q, s[n])]
  BY <1>1 DEF Signals, Signal
<1>4. PICK b : b = Signals(q)
  OBVIOUS
<1>5. b \in Seq({Signal(q, o) : o \in DOMAIN q})
  <2>1. b \in [1 .. Len(s) -> {Signal(q, o) : o \in DOMAIN q}] /\ Len(s) \in Nat
    BY <1>2, <1>3, <1>4, SeqFacts
  <2> QED BY <2>1
<1>6. \A n \in DOMAIN b : \E o \in DOMAIN q : b[n] = Signal(q, o)
  BY <1>2, <1>3, <1>4
<1>7. \A o \in DOMAIN q : \E n \in DOMAIN b : b[n] = Signal(q, o)
  BY <1>2, <1>3, <1>4
<1> QED BY <1>4, <1>5, <1>6, <1>7 DEF Announced, IsSeq

-----------------------------------------------------------------------------
\* The client's copies

\* The caches and the lists of a client name the same objects.
LEMMA ClientFacts ==
  ASSUME NEW c, NEW n, Client(c, n), n \in Nat
  PROVE  /\ Private \in DOMAIN c.cache /\ Status \in DOMAIN c.cache
         /\ DOMAIN c.cache \subseteq Objects
         /\ c.sims \subseteq 1 .. n /\ NoPath \notin c.sims
         /\ \A p : p \in DOMAIN c.modems <=> ModemObject(p) \in DOMAIN c.cache
         /\ \A p : p \in c.sims <=> SimObject(p) \in DOMAIN c.cache
<1>1. PICK k \in 0 .. n : c.sims = 1 .. k
  BY DEF Client
<1>2. c.sims \subseteq 1 .. n /\ NoPath \notin c.sims /\ c.sims \subseteq Nat
  BY <1>1 DEF NoPath
<1>3. DOMAIN c.cache = ClientObjects(DOMAIN c.modems, c.sims) /\ DOMAIN c.modems \subseteq Nat
  BY DEF Client
<1>4. DOMAIN c.cache \subseteq Objects
  BY <1>2, <1>3 DEF ClientObjects, Objects
<1>5. \A p : p \in DOMAIN c.modems <=> ModemObject(p) \in DOMAIN c.cache
  BY <1>3, ObjectsDiffer DEF ClientObjects
<1>6. \A p : p \in c.sims <=> SimObject(p) \in DOMAIN c.cache
  BY <1>3, ObjectsDiffer DEF ClientObjects
<1> QED BY <1>2, <1>3, <1>4, <1>5, <1>6 DEF ClientObjects

\* updateModemDBusPaths() keeps the caches of the modems that stay and
\* reads those of new ones;
LEMMA ModemCaches ==
  ASSUME NEW c, NEW n, Client(c, n), n \in Nat, NEW ps, ps \subseteq Nat, ReadsTyped(n),
         NEW cs, cs = Caches(c, "modem", DOMAIN c.modems, ps)
  PROVE  ModemsCached(c, n, ps, cs)
<1>1. /\ IsMap(cs)
      /\ DOMAIN cs = (DOMAIN c.cache \ {ModemObject(p) : p \in DOMAIN c.modems \ ps})
                              \cup {ModemObject(p) : p \in ps \ DOMAIN c.modems}
      /\ \A o \in DOMAIN cs : cs[o] = IF o \in DOMAIN c.cache THEN c.cache[o] ELSE Read(o)
  <2>1. cs = [o \in (DOMAIN c.cache \ {<<"modem", p>> : p \in DOMAIN c.modems \ ps})
                     \cup {<<"modem", p>> : p \in ps \ DOMAIN c.modems}
             |-> IF o \in DOMAIN c.cache THEN c.cache[o] ELSE Read(o)]
    BY DEF Caches
  <2>2. /\ IsMap(cs)
        /\ DOMAIN cs = (DOMAIN c.cache \ {<<"modem", p>> : p \in DOMAIN c.modems \ ps})
                            \cup {<<"modem", p>> : p \in ps \ DOMAIN c.modems}
        /\ \A o \in DOMAIN cs : cs[o] = IF o \in DOMAIN c.cache THEN c.cache[o] ELSE Read(o)
    BY <2>1 DEF IsMap
  <2> QED BY <2>2 DEF ModemObject
<1>2. DOMAIN c.cache = ClientObjects(DOMAIN c.modems, c.sims)
  BY DEF Client
<1>3. DOMAIN cs = ClientObjects(ps, c.sims)
  <2>1. DOMAIN cs \subseteq ClientObjects(ps, c.sims)
    BY <1>1, <1>2 DEF ClientObjects
  <2>2. ClientObjects(ps, c.sims) \subseteq DOMAIN cs
    BY <1>1, <1>2, ObjectsDiffer DEF ClientObjects
  <2> QED BY <2>1, <2>2
<1>4. c.sims \subseteq Nat
  BY ClientFacts
<1>5. DOMAIN cs \subseteq Objects
  BY <1>3, <1>4 DEF ClientObjects, Objects
<1>6. ASSUME NEW o \in DOMAIN cs  PROVE Values(o, cs[o], n)
  <2>1. o \in DOMAIN c.cache => Values(o, c.cache[o], n)
    BY DEF Client
  <2>2. Values(o, Read(o), n)
    BY <1>5 DEF ReadsTyped
  <2> QED BY <1>1, <2>1, <2>2
<1> QED BY <1>1, <1>3, <1>6 DEF ModemsCached

\* so does updateSimDBusPaths() for SIMs.
LEMMA SimCaches ==
  ASSUME NEW c, NEW n, Client(c, n), n \in Nat, NEW ps, ps \subseteq Nat, ReadsTyped(n),
         NEW cs, cs = Caches(c, "sim", c.sims, ps)
  PROVE  SimsCached(c, n, ps, cs)
<1>1. /\ IsMap(cs)
      /\ DOMAIN cs = (DOMAIN c.cache \ {SimObject(p) : p \in c.sims \ ps})
                              \cup {SimObject(p) : p \in ps \ c.sims}
      /\ \A o \in DOMAIN cs : cs[o] = IF o \in DOMAIN c.cache THEN c.cache[o] ELSE Read(o)
  <2>1. cs = [o \in (DOMAIN c.cache \ {<<"sim", p>> : p \in c.sims \ ps})
                     \cup {<<"sim", p>> : p \in ps \ c.sims}
             |-> IF o \in DOMAIN c.cache THEN c.cache[o] ELSE Read(o)]
    BY DEF Caches
  <2>2. /\ IsMap(cs)
        /\ DOMAIN cs = (DOMAIN c.cache \ {<<"sim", p>> : p \in c.sims \ ps})
                            \cup {<<"sim", p>> : p \in ps \ c.sims}
        /\ \A o \in DOMAIN cs : cs[o] = IF o \in DOMAIN c.cache THEN c.cache[o] ELSE Read(o)
    BY <2>1 DEF IsMap
  <2> QED BY <2>2 DEF SimObject
<1>2. DOMAIN c.cache = ClientObjects(DOMAIN c.modems, c.sims) /\ DOMAIN c.modems \subseteq Nat
  BY DEF Client
<1>3. DOMAIN cs = ClientObjects(DOMAIN c.modems, ps)
  <2>1. DOMAIN cs \subseteq ClientObjects(DOMAIN c.modems, ps)
    BY <1>1, <1>2 DEF ClientObjects
  <2>2. ClientObjects(DOMAIN c.modems, ps) \subseteq DOMAIN cs
    BY <1>1, <1>2, ObjectsDiffer DEF ClientObjects
  <2> QED BY <2>1, <2>2
<1>4. DOMAIN cs \subseteq Objects
  BY <1>2, <1>3 DEF ClientObjects, Objects
<1>5. ASSUME NEW o \in DOMAIN cs  PROVE Values(o, cs[o], n)
  <2>1. o \in DOMAIN c.cache => Values(o, c.cache[o], n)
    BY DEF Client
  <2>2. Values(o, Read(o), n)
    BY <1>4 DEF ReadsTyped
  <2> QED BY <1>1, <2>1, <2>2
<1> QED BY <1>1, <1>3, <1>5 DEF SimsCached

\* setSimForMobileData() of the client keeps the SIM, and calls the
\* service if its property is another.
LEMMA ChooseFacts ==
  ASSUME NEW c, NEW n, Client(c, n), NEW p, NEW by
  PROVE  Chosen(c, ChooseSim(c, p, by), p, by, c.mine)
<1>1. IsClient(c)
  BY DEF Client
<1>2. PICK e : e = [c EXCEPT !.choice = p]
  OBVIOUS
<1>3. e = [cache |-> c.cache, sims |-> c.sims, modems |-> c.modems, vpns |-> c.vpns,
           choice |-> p, mine |-> c.mine, calls |-> c.calls]
  BY <1>1, <1>2 DEF IsClient
<1>4. PICK call : call = [method |-> "setSimForMobileData", path |-> p, by |-> by]
  OBVIOUS
<1>5. PICK k : k = Cached(c, Private, "SimForMobileData", -1)
  OBVIOUS
<1>6. ChooseSim(c, p, by) = IF c.choice = p THEN c ELSE IF k = p THEN e ELSE Call(e, call)
  BY <1>2, <1>4, <1>5 DEF ChooseSim
<1>7. PICK d : d = ChooseSim(c, p, by)
  OBVIOUS
<1>8. CASE c.choice = p
  <2>1. d = c
    BY <1>6, <1>7, <1>8
  <2> QED BY <1>1, <1>4, <1>5, <1>7, <1>8, <2>1 DEF Chosen, IsClient
<1>9. CASE c.choice # p /\ k = p
  <2>1. d = e
    BY <1>6, <1>7, <1>9
  <2>2. d.calls = c.calls
    BY <1>3, <2>1
  <2> QED BY <1>3, <1>4, <1>5, <1>7, <1>9, <2>1, <2>2 DEF Chosen
<1>10. CASE c.choice # p /\ k # p /\ ~up
  <2>1. d = e
    BY <1>6, <1>7, <1>10 DEF Call
  <2>2. d.calls = c.calls
    BY <1>3, <2>1
  <2> QED BY <1>3, <1>4, <1>5, <1>7, <1>10, <2>1, <2>2 DEF Chosen
<1>11. CASE c.choice # p /\ k # p /\ up
  <2>1. PICK cs : cs = Append(c.calls, call)
    OBVIOUS
  <2>2. e.calls = c.calls
    BY <1>3
  <2>3. d = [e EXCEPT !.calls = cs]
    BY <1>6, <1>7, <1>11, <2>1, <2>2 DEF Call
  <2>4. d = [cache |-> c.cache, sims |-> c.sims, modems |-> c.modems, vpns |-> c.vpns,
             choice |-> p, mine |-> c.mine, calls |-> cs]
    BY <1>3, <2>3
  <2>5. d.calls = cs
    BY <2>4
  <2> QED BY <1>4, <1>5, <1>7, <1>11, <2>1, <2>4, <2>5 DEF Chosen
<1> QED BY <1>8, <1>9, <1>10, <1>11

\* One call more of the types of calls.
LEMMA CallsAppend ==
  ASSUME NEW cs, IsSeq(cs), NEW n, Calls(cs, n), NEW e, Request(e, n)
  PROVE  IsSeq(Append(cs, e)) /\ Calls(Append(cs, e), n)
<1>1. PICK a : a = Append(cs, e)
  OBVIOUS
<1>2. Behind(cs, <<e>>, a) /\ Len(<<e>>) = 1 /\ <<e>>[1] = e
  BY <1>1, AppendFacts
<1>3. Len(cs) \in Nat /\ DOMAIN cs = 1 .. Len(cs) /\ DOMAIN a = 1 .. Len(cs) + 1 /\ IsSeq(a)
  BY <1>2, SeqFacts DEF Behind
<1>4. ASSUME NEW k \in DOMAIN a  PROVE Request(a[k], n)
  <2>1. CASE k <= Len(cs)
    BY <1>2, <1>3, <2>1 DEF Behind, Calls
  <2>2. CASE ~(k <= Len(cs))
    <3>1. k - Len(cs) = 1
      BY <1>3, <2>2
    <3>2. a[k] = e
      BY <1>2, <1>3, <2>2, <3>1 DEF Behind
    <3> QED BY <3>2
  <2> QED BY <2>1, <2>2
<1> QED BY <1>1, <1>3, <1>4 DEF Calls

\* A choice leaves the client's lists and caches alone.
LEMMA ChosenClient ==
  ASSUME NEW c, NEW n, Client(c, n), NEW p \in 0 .. n, NEW by, NEW mine \in BOOLEAN,
         NEW d, Chosen(c, d, p, by, mine)
  PROVE  /\ Client(d, n) /\ (ModemsShown(c) => ModemsShown(d))
         /\ d.cache = c.cache /\ d.sims = c.sims /\ d.modems = c.modems /\ d.vpns = c.vpns
         /\ d.choice = p /\ d.mine = mine /\ Shown(d) = Shown(c)
<1>1. /\ d = [cache |-> c.cache, sims |-> c.sims, modems |-> c.modems, vpns |-> c.vpns,
              choice |-> p, mine |-> mine, calls |-> d.calls]
      /\ \/ d.calls = c.calls
         \/ d.calls = Append(c.calls, [method |-> "setSimForMobileData", path |-> p, by |-> by])
  BY DEF Chosen
<1>2. /\ d.cache = c.cache /\ d.sims = c.sims /\ d.modems = c.modems /\ d.vpns = c.vpns
      /\ d.choice = p /\ d.mine = mine
  BY <1>1
<1>3. IsSeq(d.calls) /\ Calls(d.calls, n)
  <2>1. PICK e : e = [method |-> "setSimForMobileData", path |-> p, by |-> by]
    OBVIOUS
  <2>2. Request(e, n)
    BY <2>1 DEF Request
  <2>3. IsSeq(c.calls) /\ Calls(c.calls, n)
    BY DEF Client
  <2>4. IsSeq(Append(c.calls, e)) /\ Calls(Append(c.calls, e), n)
    BY <2>2, <2>3, CallsAppend
  <2> QED BY <1>1, <2>1, <2>3, <2>4
<1>4. IsClient(d)
  BY <1>1, <1>2 DEF IsClient
<1>5. Client(d, n)
  <2>1. /\ IsMap(c.cache) /\ IsMap(c.modems)
        /\ \E k \in 0 .. n : c.sims = 1 .. k
        /\ DOMAIN c.modems \subseteq Nat
        /\ DOMAIN c.cache = ClientObjects(DOMAIN c.modems, c.sims)
        /\ \A o \in DOMAIN c.cache : Values(o, c.cache[o], n)
    BY DEF Client
  <2> QED BY <1>2, <1>3, <1>4, <2>1 DEF Client
<1>6. ModemsShown(c) => ModemsShown(d)
  BY <1>2 DEF ModemsShown
<1>7. Shown(d) = Shown(c)
  BY <1>2 DEF Shown, Cached
<1> QED BY <1>2, <1>5, <1>6, <1>7

\* The service's choice is taken over by a choice that is not the user's
\* own.
LEMMA FollowFacts ==
  ASSUME NEW c, NEW n, Client(c, n), NEW p
  PROVE  Chosen(c, Follow(c, p), p, "echo", FALSE)
<1>1. PICK e : e = ChooseSim(c, p, "echo")
  OBVIOUS
<1>2. Chosen(c, e, p, "echo", c.mine)
  BY <1>1, ChooseFacts
<1>3. PICK d : d = Follow(c, p)
  OBVIOUS
<1> DEFINE m == FALSE
<1>4. d = [e EXCEPT !.mine = m]
  BY <1>1, <1>3 DEF Follow
<1>5. e = [cache |-> c.cache, sims |-> c.sims, modems |-> c.modems, vpns |-> c.vpns,
           choice |-> p, mine |-> c.mine, calls |-> e.calls]
  BY <1>2 DEF Chosen
<1>6. d = [cache |-> c.cache, sims |-> c.sims, modems |-> c.modems, vpns |-> c.vpns,
           choice |-> p, mine |-> m, calls |-> e.calls]
  <2> HIDE DEF m
  <2> QED BY <1>4, <1>5
<1>7. d.calls = e.calls
  BY <1>6
<1>8. Chosen(c, d, p, "echo", FALSE)
  <2>1. PICK call : call = [method |-> "setSimForMobileData", path |-> p, by |-> "echo"]
    OBVIOUS
  <2>2. PICK k : k = Cached(c, Private, "SimForMobileData", -1)
    OBVIOUS
  <2>3. /\ d.calls = c.calls \/ (up /\ d.calls = Append(c.calls, call))
        /\ (p = c.choice \/ p = k) => d.calls = c.calls
        /\ up /\ p # c.choice /\ p # k => d.calls = Append(c.calls, call)
    BY <1>2, <1>7, <2>1, <2>2 DEF Chosen
  <2>4. d = [cache |-> c.cache, sims |-> c.sims, modems |-> c.modems, vpns |-> c.vpns,
             choice |-> p, mine |-> m, calls |-> d.calls]
    BY <1>6, <1>7
  <2> QED BY <2>1, <2>2, <2>3, <2>4, Zenon DEF Chosen
<1> QED BY <1>3, <1>8, Zenon

\* The slot of the list of modems keeps the types and leaves the choice
\* alone.
LEMMA ModemsSlot ==
  ASSUME NEW c, NEW n, Client(c, n), ModemsShown(c), ReadsTyped(n), NEW ps, ps \subseteq Nat
  PROVE  LET d == updateModemDBusPaths(c, ps)
         IN  /\ Client(d, n) /\ ModemsShown(d) /\ Kept(c, d, Private)
             /\ d.cache[Private] = c.cache[Private]
             /\ DOMAIN d.modems = ps /\ d.sims = c.sims /\ d.vpns = c.vpns
             /\ SameChoice(c, d)
<1> DEFINE cs == Caches(c, "modem", DOMAIN c.modems, ps)
           ms == [p \in ps |-> IF p \in DOMAIN c.modems THEN c.modems[p]
                               ELSE getSimByPath(c.sims, Cached([cache |-> cs], ModemObject(p),
                                                                "Sim", NoPath))]
           d == updateModemDBusPaths(c, ps)
<1>1. n \in Nat
  BY DEF ReadsTyped
<1>2. d = [c EXCEPT !.cache = cs, !.modems = ms]
  BY DEF updateModemDBusPaths
<1>3. /\ IsMap(cs) /\ DOMAIN cs = ClientObjects(ps, c.sims)
      /\ \A o \in DOMAIN cs : Values(o, cs[o], n)
      /\ \A o \in DOMAIN cs : cs[o] = IF o \in DOMAIN c.cache THEN c.cache[o] ELSE Read(o)
  <2>1. PICK x : x = Caches(c, "modem", DOMAIN c.modems, ps)
    OBVIOUS
  <2>2. x = cs
    BY <2>1
  <2> HIDE DEF cs, ms, d
  <2>3. ModemsCached(c, n, ps, x)
    BY <1>1, <2>1, ModemCaches
  <2> QED BY <2>2, <2>3 DEF ModemsCached
<1>4. IsMap(ms) /\ DOMAIN ms = ps
  BY DEF IsMap
<1>5. \A p \in ps : p \in DOMAIN c.modems => ms[p] = c.modems[p]
  OBVIOUS
<1>6. \A p \in ps : p \notin DOMAIN c.modems /\ "Sim" \in DOMAIN cs[ModemObject(p)] =>
          ms[p] = getSimByPath(c.sims, cs[ModemObject(p)]["Sim"])
  <2> SUFFICES ASSUME NEW p \in ps, p \notin DOMAIN c.modems, "Sim" \in DOMAIN cs[ModemObject(p)]
               PROVE  ms[p] = getSimByPath(c.sims, cs[ModemObject(p)]["Sim"])
    OBVIOUS
  <2>1. ms[p] = getSimByPath(c.sims, Cached([cache |-> cs], ModemObject(p), "Sim", NoPath))
    OBVIOUS
  <2>2. ModemObject(p) \in DOMAIN cs
    BY <1>3 DEF ClientObjects
  <2>3. Cached([cache |-> cs], ModemObject(p), "Sim", NoPath) = cs[ModemObject(p)]["Sim"]
    <3> HIDE DEF cs
    <3> QED BY <2>2 DEF Cached
  <2> QED BY <2>1, <2>3
<1> HIDE DEF cs, ms, d
<1>7. /\ d.cache = cs /\ d.modems = ms /\ d.sims = c.sims /\ d.vpns = c.vpns
      /\ d.choice = c.choice /\ d.mine = c.mine /\ d.calls = c.calls
      /\ IsClient(d)
  <2>1. IsClient(c)
    BY DEF Client
  <2>2. d = [cache |-> cs, sims |-> c.sims, modems |-> ms, vpns |-> c.vpns,
             choice |-> c.choice, mine |-> c.mine, calls |-> c.calls]
    BY <1>2, <2>1 DEF IsClient
  <2> QED BY <2>2 DEF IsClient
<1>8. Client(d, n)
  <2>1. /\ IsSeq(c.calls) /\ Calls(c.calls, n) /\ c.choice \in 0 .. n /\ c.mine \in BOOLEAN
        /\ \E k \in 0 .. n : c.sims = 1 .. k
    BY DEF Client
  <2> QED BY <1>3, <1>4, <1>7, <2>1 DEF Client
<1>9. ModemsShown(d)
  <2> SUFFICES ASSUME NEW p \in DOMAIN d.modems, "Sim" \in DOMAIN d.cache[ModemObject(p)]
               PROVE  d.modems[p] = getSimByPath(d.sims, d.cache[ModemObject(p)]["Sim"])
    BY DEF ModemsShown
  <2>1. p \in ps /\ "Sim" \in DOMAIN cs[ModemObject(p)]
    BY <1>4, <1>7
  <2>2. ModemObject(p) \in DOMAIN cs
    BY <1>3, <2>1 DEF ClientObjects
  <2>3. CASE p \in DOMAIN c.modems
    <3>1. ModemObject(p) \in DOMAIN c.cache
      BY <1>1, <2>3, ClientFacts
    <3>2. cs[ModemObject(p)] = c.cache[ModemObject(p)]
      BY <1>3, <2>2, <3>1
    <3>3. c.modems[p] = getSimByPath(c.sims, c.cache[ModemObject(p)]["Sim"])
      BY <2>1, <2>3, <3>2 DEF ModemsShown
    <3> QED BY <1>5, <1>7, <2>1, <2>3, <3>2, <3>3
  <2>4. CASE p \notin DOMAIN c.modems
    BY <1>6, <1>7, <2>1, <2>4
  <2> QED BY <2>3, <2>4
<1>10. Kept(c, d, Private) /\ d.cache[Private] = c.cache[Private]
  <2>1. Private \in DOMAIN c.cache /\ Private \in DOMAIN cs
    BY <1>1, <1>3, ClientFacts DEF ClientObjects
  <2> QED BY <1>3, <1>7, <2>1 DEF Kept
<1> QED BY <1>4, <1>7, <1>8, <1>9, <1>10 DEF d, SameChoice

\* The slot of the list of SIMs settles the choice on the service's, and
\* makes no call if that SIM is in the list.
LEMMA SimsSlot ==
  ASSUME NEW c, NEW n, Client(c, n), ReadsTyped(n), NEW k \in 0 .. n, NEW ps, ps = 1 .. k
  PROVE  LET e == updateSimDBusPaths(c, ps)
         IN  /\ Client(e, n) /\ ModemsShown(e) /\ Kept(c, e, Private)
             /\ e.cache[Private] = c.cache[Private]
             /\ DOMAIN e.modems = DOMAIN c.modems /\ e.sims = ps /\ e.vpns = c.vpns
             /\ e.choice = Shown(e) /\ ~e.mine
             /\ /\ "SimForMobileData" \in DOMAIN c.cache[Private]
                /\ c.cache[Private]["SimForMobileData"] \in ps \cup {NoPath}
                => e.calls = c.calls
<1> DEFINE cs == Caches(c, "sim", c.sims, ps)
           ms == [p \in DOMAIN c.modems |->
                      getSimByPath(ps, Cached(c, ModemObject(p), "Sim", NoPath))]
           d == [c EXCEPT !.sims = ps, !.cache = cs, !.modems = ms]
           q == getSimByPath(ps, Cached(d, Private, "SimForMobileData", NoPath))
           e == updateSimDBusPaths(c, ps)
<1>1. n \in Nat /\ ps \subseteq 0 .. n /\ ps \subseteq Nat
  BY DEF ReadsTyped
<1>2. e = Follow(d, q)
  BY DEF updateSimDBusPaths
<1>3. /\ IsMap(cs) /\ DOMAIN cs = ClientObjects(DOMAIN c.modems, ps)
      /\ \A o \in DOMAIN cs : Values(o, cs[o], n)
      /\ \A o \in DOMAIN cs : cs[o] = IF o \in DOMAIN c.cache THEN c.cache[o] ELSE Read(o)
  <2>1. PICK x : x = Caches(c, "sim", c.sims, ps)
    OBVIOUS
  <2>2. cs = x
    BY <2>1
  <2> HIDE DEF cs, ms, d, q, e
  <2>3. SimsCached(c, n, ps, x)
    BY <1>1, <2>1, SimCaches
  <2> QED BY <2>2, <2>3 DEF SimsCached
<1>4. IsMap(ms) /\ DOMAIN ms = DOMAIN c.modems
  BY DEF IsMap
<1>5. \A p \in DOMAIN c.modems : ms[p] = getSimByPath(ps, Cached(c, ModemObject(p), "Sim", NoPath))
  OBVIOUS
<1> HIDE DEF cs, ms
<1>6. /\ d.cache = cs /\ d.modems = ms /\ d.sims = ps /\ d.vpns = c.vpns
      /\ d.choice = c.choice /\ d.mine = c.mine /\ d.calls = c.calls
      /\ IsClient(d)
  <2>1. PICK f : f = d
    OBVIOUS
  <2>2. f = [c EXCEPT !.sims = ps, !.cache = cs, !.modems = ms]
    BY <2>1
  <2>3. IsClient(c)
    BY DEF Client
  <2>4. f = [cache |-> cs, sims |-> ps, modems |-> ms, vpns |-> c.vpns,
             choice |-> c.choice, mine |-> c.mine, calls |-> c.calls]
    BY <2>2, <2>3 DEF IsClient
  <2>5. /\ f.cache = cs /\ f.modems = ms /\ f.sims = ps /\ f.vpns = c.vpns
        /\ f.choice = c.choice /\ f.mine = c.mine /\ f.calls = c.calls
        /\ IsClient(f)
    BY <2>4 DEF IsClient
  <2> HIDE DEF d
  <2> QED BY <2>1, <2>5
<1> HIDE DEF d
<1>7. Client(d, n)
  <2>1. /\ IsSeq(c.calls) /\ Calls(c.calls, n) /\ c.choice \in 0 .. n /\ c.mine \in BOOLEAN
        /\ DOMAIN c.modems \subseteq Nat
    BY DEF Client
  <2> QED BY <1>3, <1>4, <1>6, <2>1 DEF Client
<1>8. ModemsShown(d)
  <2> SUFFICES ASSUME NEW p \in DOMAIN d.modems, "Sim" \in DOMAIN d.cache[ModemObject(p)]
               PROVE  d.modems[p] = getSimByPath(d.sims, d.cache[ModemObject(p)]["Sim"])
    BY DEF ModemsShown
  <2>1. p \in DOMAIN c.modems /\ ModemObject(p) \in DOMAIN cs
    BY <1>3, <1>4, <1>6 DEF ClientObjects
  <2>2. ModemObject(p) \in DOMAIN c.cache
    BY <1>1, <2>1, ClientFacts
  <2>3. d.cache[ModemObject(p)] = c.cache[ModemObject(p)]
    BY <1>3, <1>6, <2>1, <2>2
  <2>4. Cached(c, ModemObject(p), "Sim", NoPath) = c.cache[ModemObject(p)]["Sim"]
    BY <2>2, <2>3 DEF Cached
  <2> QED BY <1>5, <1>6, <2>1, <2>3, <2>4
<1>9. Private \in DOMAIN c.cache /\ Private \in DOMAIN d.cache /\ d.cache[Private] = c.cache[Private]
  <2>1. Private \in DOMAIN c.cache
    BY <1>1, ClientFacts
  <2>2. Private \in DOMAIN cs
    BY <1>3 DEF ClientObjects
  <2> QED BY <1>3, <1>6, <2>1, <2>2
<1>10. q = Shown(d)
  BY <1>6 DEF Shown
<1>11. q \in 0 .. n
  BY <1>1 DEF getSimByPath, NoPath
<1> HIDE DEF q
<1>12. Chosen(d, e, q, "echo", FALSE)
  BY <1>2, <1>7, FollowFacts
<1> HIDE DEF e
<1>13. /\ Client(e, n) /\ ModemsShown(e)
       /\ e.cache = d.cache /\ e.sims = d.sims /\ e.modems = d.modems /\ e.vpns = d.vpns
       /\ e.choice = q /\ ~e.mine /\ Shown(e) = Shown(d)
  <2>1. PICK m \in BOOLEAN : m = FALSE
    OBVIOUS
  <2>2. Chosen(d, e, q, "echo", m)
    BY <1>12, <2>1
  <2> QED BY <1>7, <1>8, <1>11, <2>1, <2>2, ChosenClient
<1>14. Kept(c, e, Private)
  BY <1>3, <1>6, <1>13 DEF Kept
<1>15. ASSUME "SimForMobileData" \in DOMAIN c.cache[Private],
              c.cache[Private]["SimForMobileData"] \in ps \cup {NoPath}
       PROVE  e.calls = c.calls
  <2>1. Cached(d, Private, "SimForMobileData", NoPath) = c.cache[Private]["SimForMobileData"]
        /\ Cached(d, Private, "SimForMobileData", -1) = c.cache[Private]["SimForMobileData"]
    BY <1>9, <1>15 DEF Cached
  <2>2. q = Cached(d, Private, "SimForMobileData", -1)
    BY <1>15, <2>1 DEF q, getSimByPath
  <2> QED BY <1>6, <1>12, <2>2 DEF Chosen
<1> QED BY <1>4, <1>6, <1>9, <1>10, <1>13, <1>14, <1>15 DEF e

\* Each of the properties with slots has its own.
LEMMA SlotOf ==
  ASSUME NEW c, NEW o, NEW v
  PROVE  /\ PropertyChanged(c, o, "Modems", v) = updateModemDBusPaths(c, v)
         /\ PropertyChanged(c, o, "Sims", v) = updateSimDBusPaths(c, v)
         /\ PropertyChanged(c, o, "SimForMobileData", v) = Follow(c, getSimByPath(c.sims, v))
         /\ PropertyChanged(c, o, "VpnConnections", v) = [c EXCEPT !.vpns = v]
         /\ PropertyChanged(c, o, "Sim", v) = [c EXCEPT !.modems[o[2]] = getSimByPath(c.sims, v)]
<1>1. PropertyChanged(c, o, "Modems", v) = updateModemDBusPaths(c, v)
  BY Zenon DEF PropertyChanged
<1>2. PropertyChanged(c, o, "Sims", v) = updateSimDBusPaths(c, v)
  BY Zenon DEF PropertyChanged
<1>3. PropertyChanged(c, o, "SimForMobileData", v) = Follow(c, getSimByPath(c.sims, v))
  BY Zenon DEF PropertyChanged
<1>4. PropertyChanged(c, o, "VpnConnections", v) = [c EXCEPT !.vpns = v]
  BY Zenon DEF PropertyChanged
<1>5. PropertyChanged(c, o, "Sim", v) = [c EXCEPT !.modems[o[2]] = getSimByPath(c.sims, v)]
  BY Zenon DEF PropertyChanged
<1> QED BY <1>1, <1>2, <1>3, <1>4, <1>5

\* Values that are stored over others, or left out, have the types.
LEMMA ValuesFacts ==
  ASSUME NEW o, NEW n, NEW f, Values(o, f, n), NEW g, Values(o, g, n), NEW S
  PROVE  Values(o, Over(f, g), n) /\ Values(o, Only(f, S), n)
<1>1. PICK h : h = Over(f, g)
  OBVIOUS
<1>2. /\ IsMap(h) /\ DOMAIN h = DOMAIN f \cup DOMAIN g
      /\ \A x \in DOMAIN f : h[x] = f[x]
      /\ \A x \in DOMAIN g : x \notin DOMAIN f => h[x] = g[x]
  BY <1>1 DEF Over, IsMap
<1>3. Values(o, h, n)
  BY <1>2 DEF Values
<1>4. PICK k : k = Only(f, S)
  OBVIOUS
<1>5. /\ IsMap(k) /\ DOMAIN k = DOMAIN f \cap S
      /\ \A x \in DOMAIN f \cap S : k[x] = f[x]
  BY <1>4, OnlyFacts
<1>6. Values(o, k, n)
  BY <1>5 DEF Values
<1> QED BY <1>1, <1>3, <1>4, <1>6

\* Storing in a cache leaves all but that cache alone.
LEMMA CachingFacts ==
  ASSUME NEW c, NEW n, Client(c, n), NEW o \in DOMAIN c.cache, NEW vs, Values(o, vs, n)
  PROVE  Recached(c, Caching(c, o, vs), o, vs, n)
<1>1. PICK d : d = Caching(c, o, vs)
  OBVIOUS
<1>2. PICK cs : cs = [c.cache EXCEPT ![o] = vs]
  OBVIOUS
<1>3. IsClient(c)
  BY DEF Client
<1>4. d = [c EXCEPT !.cache = cs]
  BY <1>1, <1>2 DEF Caching
<1>5. d = [cache |-> cs, sims |-> c.sims, modems |-> c.modems, vpns |-> c.vpns,
           choice |-> c.choice, mine |-> c.mine, calls |-> c.calls]
  BY <1>3, <1>4 DEF IsClient
<1>6. /\ d.cache = cs /\ d.modems = c.modems /\ d.sims = c.sims /\ d.vpns = c.vpns
      /\ d.choice = c.choice /\ d.mine = c.mine /\ d.calls = c.calls
      /\ IsClient(d)
  BY <1>5 DEF IsClient
<1>7. /\ IsMap(cs) /\ DOMAIN cs = DOMAIN c.cache /\ cs[o] = vs
      /\ \A x \in DOMAIN c.cache : x # o => cs[x] = c.cache[x]
  BY <1>2 DEF IsMap
<1>8. \A x \in DOMAIN cs : Values(x, cs[x], n)
  <2>1. \A x \in DOMAIN c.cache : Values(x, c.cache[x], n)
    BY DEF Client
  <2> QED BY <1>7, <2>1
<1>9. Client(d, n)
  <2>1. /\ IsSeq(c.calls) /\ Calls(c.calls, n) /\ c.choice \in 0 .. n /\ c.mine \in BOOLEAN
        /\ DOMAIN c.modems \subseteq Nat /\ IsMap(c.modems)
        /\ DOMAIN c.cache = ClientObjects(DOMAIN c.modems, c.sims)
        /\ \E k \in 0 .. n : c.sims = 1 .. k
    BY DEF Client
  <2> QED BY <1>6, <1>7, <1>8, <2>1 DEF Client
<1>10. ASSUME \A p : o # ModemObject(p), ModemsShown(c)
      PROVE  ModemsShown(d)
  <2>1. \A p \in DOMAIN c.modems : ModemObject(p) \in DOMAIN c.cache
    BY DEF Client, ClientObjects
  <2> QED BY <1>6, <1>7, <1>10, <2>1 DEF ModemsShown
<1> QED BY <1>1, <1>6, <1>7, <1>9, <1>10 DEF SameChoice, Recached

\* OneChanged() stores one property and runs its slot.
LEMMA OneChangedIs ==
  ASSUME NEW c, NEW o, NEW vs, NEW p, NEW always \in BOOLEAN
  PROVE  /\ ~Taken(c, o, vs, p, always) => OneChanged(c, o, vs, p, always) = c
         /\ Taken(c, o, vs, p, always) =>
                OneChanged(c, o, vs, p, always)
                    = PropertyChanged(Caching(c, o, With(c.cache[o], p, vs[p])), o, p, vs[p])
<1>1. [c EXCEPT !.cache[o] = With(@, p, vs[p])] = Caching(c, o, With(c.cache[o], p, vs[p]))
  BY DEF Caching
<1>2. CASE Taken(c, o, vs, p, always)
  BY <1>1, <1>2, Zenon DEF OneChanged, Taken
<1>3. CASE ~Taken(c, o, vs, p, always)
  BY <1>3, Zenon DEF OneChanged, Taken
<1> QED BY <1>2, <1>3

\* One property stored is one property of vs put over the cache;
LEMMA Storing ==
  ASSUME NEW o, NEW n, NEW g, Values(o, g, n), NEW vs, Values(o, vs, n), NEW p \in DOMAIN vs
  PROVE  With(g, p, vs[p]) = Over(Only(vs, {p}), g) /\ Values(o, With(g, p, vs[p]), n)
<1>1. PICK h : h = Over(Only(vs, {p}), g)
  OBVIOUS
<1>2. PICK k : k = Only(vs, {p})
  OBVIOUS
<1>3. DOMAIN k = DOMAIN vs \cap {p} /\ (\A x \in DOMAIN k : k[x] = vs[x])
  <2>1. /\ DOMAIN k = DOMAIN vs \cap {p}
        /\ \A x \in DOMAIN vs : x \in {p} => k[x] = vs[x]
    BY <1>2, OnlyFacts
  <2> QED BY <2>1
<1>4. /\ IsMap(h) /\ DOMAIN h = DOMAIN k \cup DOMAIN g
      /\ \A x \in DOMAIN k : h[x] = k[x]
      /\ \A x \in DOMAIN g : x \notin DOMAIN k => h[x] = g[x]
  BY <1>1, <1>2 DEF Over, IsMap
<1>5. Values(o, k, n)
  BY <1>2, ValuesFacts
<1>6. Values(o, h, n)
  BY <1>1, <1>2, <1>5, ValuesFacts
<1>7. With(g, p, vs[p]) = h
  <2>1. PICK w : w = With(g, p, vs[p])
    OBVIOUS
  <2>2. /\ IsMap(w) /\ DOMAIN w = DOMAIN g \cup {p} /\ w[p] = vs[p]
        /\ \A x \in DOMAIN g : x # p => w[x] = g[x]
    BY <2>1 DEF With, IsMap
  <2>3. w = h
    BY <1>3, <1>4, <2>2, SameMap
  <2> QED BY <2>1, <2>3
<1> QED BY <1>1, <1>6, <1>7

\* and nothing, where it is there already.
LEMMA StoredAlready ==
  ASSUME NEW g, IsMap(g), NEW vs, NEW p,
         p \notin DOMAIN vs \/ (p \in DOMAIN g /\ vs[p] = g[p])
  PROVE  Over(Only(vs, {p}), g) = g
<1>1. PICK h : h = Over(Only(vs, {p}), g)
  OBVIOUS
<1>2. PICK k : k = Only(vs, {p})
  OBVIOUS
<1>3. DOMAIN k = DOMAIN vs \cap {p} /\ (\A x \in DOMAIN k : k[x] = vs[x])
  <2>1. /\ DOMAIN k = DOMAIN vs \cap {p}
        /\ \A x \in DOMAIN vs : x \in {p} => k[x] = vs[x]
    BY <1>2, OnlyFacts
  <2> QED BY <2>1
<1>4. /\ IsMap(h) /\ DOMAIN h = DOMAIN k \cup DOMAIN g
      /\ \A x \in DOMAIN k : h[x] = k[x]
      /\ \A x \in DOMAIN g : x \notin DOMAIN k => h[x] = g[x]
  BY <1>1, <1>2 DEF Over, IsMap
<1>5. h = g
  BY <1>3, <1>4, SameMap
<1> QED BY <1>1, <1>5

\* The first half of OneChanged(): the cache.
LEMMA Stored ==
  ASSUME NEW c, NEW n, Client(c, n), ModemsShown(c), n \in Nat,
         NEW vs, Values(Private, vs, n), NEW p, NEW always \in BOOLEAN
  PROVE  Change(c, n, vs, p, always)
<1>1. Private \in DOMAIN c.cache /\ Values(Private, c.cache[Private], n)
  BY ClientFacts DEF Client
<1>2. ASSUME ~Taken(c, Private, vs, p, always)
      PROVE  Stores(c, c, n, vs, {p}) /\ OneChanged(c, Private, vs, p, always) = c
  <2>1. p \notin DOMAIN vs \/ (p \in DOMAIN c.cache[Private] /\ vs[p] = c.cache[Private][p])
    BY <1>2 DEF Taken
  <2>2. Over(Only(vs, {p}), c.cache[Private]) = c.cache[Private]
    <3>1. PICK g : g = c.cache[Private]
      OBVIOUS
    <3>2. IsMap(g)
      BY <1>1, <3>1 DEF Values
    <3>3. Over(Only(vs, {p}), g) = g
      BY <2>1, <3>1, <3>2, StoredAlready
    <3> QED BY <3>1, <3>3
  <2>3. Kept(c, c, Private)
    BY DEF Kept
  <2>4. OneChanged(c, Private, vs, p, always) = c
    BY <1>2, OneChangedIs, Zenon
  <2> QED BY <2>2, <2>3, <2>4 DEF Stores
<1>3. ASSUME Taken(c, Private, vs, p, always)
      PROVE  \E e :
                  /\ OneChanged(c, Private, vs, p, always) = PropertyChanged(e, Private, p, vs[p])
                  /\ Stores(c, e, n, vs, {p}) /\ e.cache[Private][p] = vs[p]
                  /\ \A x \in DOMAIN c.cache[Private] :
                         x # p => x \in DOMAIN e.cache[Private]
                                  /\ e.cache[Private][x] = c.cache[Private][x]
                  /\ p \in DOMAIN e.cache[Private]
                  /\ e.sims = c.sims /\ e.modems = c.modems /\ e.vpns = c.vpns /\ SameChoice(c, e)
  <2>1. p \in DOMAIN vs
    BY <1>3 DEF Taken
  <2>2. PICK f : f = With(c.cache[Private], p, vs[p])
    OBVIOUS
  <2>3. PICK e : e = Caching(c, Private, f)
    OBVIOUS
  <2>4. f = Over(Only(vs, {p}), c.cache[Private]) /\ Values(Private, f, n)
    BY <1>1, <2>1, <2>2, Storing
  <2>5. Recached(c, e, Private, f, n)
    BY <1>1, <2>3, <2>4, CachingFacts
  <2>6. Kept(c, e, Private) /\ ModemsShown(e)
    BY <2>5, ObjectsDiffer DEF Kept, Recached
  <2>7. /\ DOMAIN f = DOMAIN c.cache[Private] \cup {p} /\ f[p] = vs[p]
        /\ \A x \in DOMAIN c.cache[Private] : x # p => f[x] = c.cache[Private][x]
    BY <2>2 DEF With
  <2>8. OneChanged(c, Private, vs, p, always) = PropertyChanged(e, Private, p, vs[p])
    <3>1. OneChanged(c, Private, vs, p, always)
              = PropertyChanged(Caching(c, Private, With(c.cache[Private], p, vs[p])),
                                Private, p, vs[p])
      BY <1>3, OneChangedIs
    <3> QED BY <2>2, <2>3, <3>1
  <2>9. Stores(c, e, n, vs, {p})
    BY <2>4, <2>5, <2>6 DEF Stores, Recached
  <2>10. /\ e.cache[Private][p] = vs[p] /\ p \in DOMAIN e.cache[Private]
        /\ \A x \in DOMAIN c.cache[Private] :
                         x # p => x \in DOMAIN e.cache[Private]
                                  /\ e.cache[Private][x] = c.cache[Private][x]
    BY <2>5, <2>7 DEF Recached
  <2> QED BY <2>2, <2>3, <2>5, <2>8, <2>9, <2>10 DEF Recached
<1> QED BY <1>2, <1>3 DEF Change

\* Kept composes.
LEMMA KeptTwice ==
  ASSUME NEW c, NEW d, NEW e, NEW o, Kept(c, d, o), Kept(d, e, o)
  PROVE  Kept(c, e, o)
BY DEF Kept

\* OneChanged() for the list of modems: the client lists those modems and
\* keeps its choice.
LEMMA ModemsChanged ==
  ASSUME NEW c, NEW n, Client(c, n), ModemsShown(c), ReadsTyped(n),
         NEW vs, Values(Private, vs, n), NEW always \in BOOLEAN,
         always \/ ("Modems" \in DOMAIN c.cache[Private]
                        => DOMAIN c.modems = c.cache[Private]["Modems"])
  PROVE  LET d == OneChanged(c, Private, vs, "Modems", always)
         IN  /\ Stores(c, d, n, vs, {"Modems"})
             /\ "Modems" \in DOMAIN vs => DOMAIN d.modems = vs["Modems"]
             /\ "Modems" \notin DOMAIN vs => DOMAIN d.modems = DOMAIN c.modems
             /\ d.sims = c.sims /\ d.vpns = c.vpns /\ SameChoice(c, d)
<1> DEFINE d == OneChanged(c, Private, vs, "Modems", always)
<1>1. n \in Nat
  BY DEF ReadsTyped
<1>2. Change(c, n, vs, "Modems", always)
  BY <1>1, Stored
<1>3. CASE ~Taken(c, Private, vs, "Modems", always)
  <2>1. Stores(c, c, n, vs, {"Modems"}) /\ d = c
    BY <1>3, <1>2 DEF Change
  <2>2. /\ "Modems" \in DOMAIN vs => DOMAIN c.modems = vs["Modems"]
    BY <1>3 DEF Taken
  <2> QED BY <2>1, <2>2 DEF SameChoice
<1>4. CASE Taken(c, Private, vs, "Modems", always)
  <2>1. PICK e :
          /\ d = PropertyChanged(e, Private, "Modems", vs["Modems"])
          /\ Stores(c, e, n, vs, {"Modems"})
          /\ e.sims = c.sims /\ e.vpns = c.vpns /\ SameChoice(c, e)
    BY <1>4, <1>2 DEF Change
  <2>2. "Modems" \in DOMAIN vs /\ vs["Modems"] \subseteq Nat
    BY <1>4 DEF Taken, Values
  <2>3. d = updateModemDBusPaths(e, vs["Modems"])
    BY <2>1, SlotOf
  <2> HIDE DEF d
  <2>4. Client(e, n) /\ ModemsShown(e) /\ Kept(c, e, Private)
    BY <2>1 DEF Stores
  <2>5. /\ Client(d, n) /\ ModemsShown(d) /\ Kept(e, d, Private)
        /\ d.cache[Private] = e.cache[Private]
        /\ DOMAIN d.modems = vs["Modems"] /\ d.sims = e.sims /\ d.vpns = e.vpns
        /\ SameChoice(e, d)
    BY <2>2, <2>3, <2>4, ModemsSlot
  <2>6. Stores(c, d, n, vs, {"Modems"})
    BY <2>1, <2>4, <2>5, KeptTwice DEF Stores
  <2> QED BY <2>1, <2>2, <2>5, <2>6 DEF SameChoice, d
<1> QED BY <1>3, <1>4

\* OneChanged() for the list of VPN connections.
LEMMA VpnsChanged ==
  ASSUME NEW c, NEW n, Client(c, n), ModemsShown(c), n \in Nat,
         NEW vs, Values(Private, vs, n), NEW always \in BOOLEAN,
         always \/ ("VpnConnections" \in DOMAIN c.cache[Private]
                        => c.vpns = c.cache[Private]["VpnConnections"])
  PROVE  LET d == OneChanged(c, Private, vs, "VpnConnections", always)
         IN  /\ Stores(c, d, n, vs, {"VpnConnections"})
             /\ "VpnConnections" \in DOMAIN vs => d.vpns = vs["VpnConnections"]
             /\ "VpnConnections" \notin DOMAIN vs => d.vpns = c.vpns
             /\ d.sims = c.sims /\ DOMAIN d.modems = DOMAIN c.modems
             /\ SameChoice(c, d) /\ Shown(d) = Shown(c)
<1> DEFINE d == OneChanged(c, Private, vs, "VpnConnections", always)
<1>1. Change(c, n, vs, "VpnConnections", always)
  BY Stored
<1>2. CASE ~Taken(c, Private, vs, "VpnConnections", always)
  <2>1. Stores(c, c, n, vs, {"VpnConnections"}) /\ d = c
    BY <1>2, <1>1 DEF Change
  <2>2. /\ "VpnConnections" \in DOMAIN vs => c.vpns = vs["VpnConnections"]
    BY <1>2 DEF Taken
  <2> QED BY <2>1, <2>2 DEF SameChoice
<1>3. CASE Taken(c, Private, vs, "VpnConnections", always)
  <2>1. PICK e :
          /\ d = PropertyChanged(e, Private, "VpnConnections", vs["VpnConnections"])
          /\ Stores(c, e, n, vs, {"VpnConnections"})
          /\ e.sims = c.sims /\ e.modems = c.modems /\ SameChoice(c, e)
    BY <1>3, <1>1 DEF Change
  <2>2. "VpnConnections" \in DOMAIN vs
    BY <1>3 DEF Taken
  <2>3. PICK v : v = vs["VpnConnections"]
    OBVIOUS
  <2>4. d = [e EXCEPT !.vpns = v]
    BY <2>1, <2>3, SlotOf
  <2> HIDE DEF d
  <2>5. IsClient(e)
    BY <2>1 DEF Stores, Client
  <2>6. d = [cache |-> e.cache, sims |-> e.sims, modems |-> e.modems, vpns |-> v,
             choice |-> e.choice, mine |-> e.mine, calls |-> e.calls]
    BY <2>4, <2>5 DEF IsClient
  <2>7. /\ d.cache = e.cache /\ d.sims = e.sims /\ d.modems = e.modems /\ d.vpns = v
        /\ d.choice = e.choice /\ d.mine = e.mine /\ d.calls = e.calls
        /\ IsClient(d)
    BY <2>6 DEF IsClient
  <2>8. Client(d, n)
    <3>1. /\ IsMap(e.cache) /\ IsMap(e.modems) /\ IsSeq(e.calls)
          /\ \E k \in 0 .. n : e.sims = 1 .. k
          /\ DOMAIN e.modems \subseteq Nat
          /\ DOMAIN e.cache = ClientObjects(DOMAIN e.modems, e.sims)
          /\ \A o \in DOMAIN e.cache : Values(o, e.cache[o], n)
          /\ e.choice \in 0 .. n /\ e.mine \in BOOLEAN
          /\ Calls(e.calls, n)
      BY <2>1 DEF Stores, Client
    <3> QED BY <2>7, <3>1 DEF Client
  <2>9. ModemsShown(d) /\ Kept(c, d, Private)
    BY <2>1, <2>7 DEF Stores, ModemsShown, Kept
  <2>10. Stores(c, d, n, vs, {"VpnConnections"})
    BY <2>1, <2>7, <2>8, <2>9 DEF Stores
  <2>11. Private \in DOMAIN c.cache /\ Private \in DOMAIN d.cache
    BY <2>8, ClientFacts
  <2>12. Cached(d, Private, "SimForMobileData", NoPath) = Cached(c, Private, "SimForMobileData", NoPath)
    <3>1. PICK k : k = Only(vs, {"VpnConnections"})
      OBVIOUS
    <3>2. DOMAIN k \subseteq {"VpnConnections"}
      BY <3>1, OnlyFacts
    <3>3. PICK g : g = c.cache[Private]
      OBVIOUS
    <3>4. PICK h : h = d.cache[Private]
      OBVIOUS
    <3>5. h = Over(k, g)
      BY <2>10, <3>1, <3>3, <3>4 DEF Stores
    <3>6. /\ "SimForMobileData" \in DOMAIN h <=> "SimForMobileData" \in DOMAIN g
          /\ "SimForMobileData" \in DOMAIN g => h["SimForMobileData"] = g["SimForMobileData"]
      BY <3>2, <3>5 DEF Over
    <3> QED BY <2>11, <3>3, <3>4, <3>6 DEF Cached
  <2>13. Shown(d) = Shown(c)
    BY <2>1, <2>7, <2>12 DEF Shown
  <2> QED BY <2>1, <2>2, <2>3, <2>7, <2>10, <2>13 DEF SameChoice, d
<1> QED BY <1>2, <1>3

\* The cached choice, before and after the cache of Private is stored.
LEMMA CachedIs ==
  ASSUME NEW c, Private \in DOMAIN c.cache, NEW p \in DOMAIN c.cache[Private], NEW none
  PROVE  Cached(c, Private, p, none) = c.cache[Private][p]
BY DEF Cached

\* OneChanged() for the chosen SIM: the client settles on it or had it,
\* and calls the service only if the SIM is not listed.
LEMMA ChoiceChanged ==
  ASSUME NEW c, NEW n, Client(c, n), ModemsShown(c), n \in Nat,
         NEW vs, Values(Private, vs, n), NEW always \in BOOLEAN
  PROVE  LET d == OneChanged(c, Private, vs, "SimForMobileData", always)
         IN  /\ Stores(c, d, n, vs, {"SimForMobileData"})
             /\ d.sims = c.sims /\ DOMAIN d.modems = DOMAIN c.modems /\ d.vpns = c.vpns
             /\ Settled(d) \/ (SameChoice(c, d) /\ Shown(d) = Shown(c))
             /\ always /\ "SimForMobileData" \in DOMAIN vs => Settled(d)
             /\ ("SimForMobileData" \in DOMAIN vs =>
                    getSimByPath(c.sims, vs["SimForMobileData"])
                        \in {c.choice, vs["SimForMobileData"]})
                => d.calls = c.calls
<1> DEFINE p == "SimForMobileData"
           d == OneChanged(c, Private, vs, p, always)
<1>1. Change(c, n, vs, p, always)
  BY Stored
<1>2. CASE ~Taken(c, Private, vs, p, always)
  <2>1. Stores(c, c, n, vs, {p}) /\ d = c
    BY <1>1, <1>2 DEF Change
  <2>2. always => p \notin DOMAIN vs
    BY <1>2 DEF Taken
  <2> QED BY <2>1, <2>2 DEF SameChoice
<1>3. CASE Taken(c, Private, vs, p, always)
  <2>1. PICK e :
          /\ d = PropertyChanged(e, Private, p, vs[p])
          /\ Stores(c, e, n, vs, {p})
          /\ p \in DOMAIN e.cache[Private] /\ e.cache[Private][p] = vs[p]
          /\ e.sims = c.sims /\ e.modems = c.modems /\ e.vpns = c.vpns /\ SameChoice(c, e)
    BY <1>1, <1>3 DEF Change
  <2>2. p \in DOMAIN vs
    BY <1>3 DEF Taken
  <2>3. PICK v : v = vs[p]
    OBVIOUS
  <2>4. PICK q : q = getSimByPath(e.sims, v)
    OBVIOUS
  <2>5. d = Follow(e, q)
    BY <2>1, <2>3, <2>4, SlotOf
  <2> HIDE DEF d
  <2>6. Client(e, n) /\ ModemsShown(e) /\ Kept(c, e, Private)
    BY <2>1 DEF Stores
  <2>7. Private \in DOMAIN e.cache
    BY <2>6, ClientFacts
  <2>8. Cached(e, Private, p, NoPath) = v /\ Cached(e, Private, p, -1) = v
    BY <2>1, <2>3, <2>7, CachedIs
  <2>9. q = Shown(e)
    BY <2>4, <2>8 DEF Shown
  <2>10. q \in 0 .. n
    <3>1. v \in 0 .. n
      BY <2>2, <2>3 DEF Values
    <3> QED BY <2>4, <3>1 DEF getSimByPath, NoPath
  <2>11. Chosen(e, d, q, "echo", FALSE)
    BY <2>5, <2>6, FollowFacts
  <2>12. /\ Client(d, n) /\ ModemsShown(d)
         /\ d.cache = e.cache /\ d.sims = e.sims /\ d.modems = e.modems /\ d.vpns = e.vpns
         /\ d.choice = q /\ ~d.mine /\ Shown(d) = Shown(e)
    <3>1. PICK m \in BOOLEAN : m = FALSE
      OBVIOUS
    <3>2. Chosen(e, d, q, "echo", m)
      BY <2>11, <3>1
    <3> QED BY <2>6, <2>10, <3>1, <3>2, ChosenClient
  <2>13. Stores(c, d, n, vs, {p})
    BY <2>1, <2>12 DEF Stores, Kept
  <2>14. Settled(d)
    BY <2>9, <2>12 DEF Settled
  <2>15. ASSUME q \in {c.choice, v}  PROVE d.calls = c.calls
    BY <2>1, <2>8, <2>11, <2>15 DEF Chosen, SameChoice
  <2> QED BY <2>1, <2>2, <2>3, <2>4, <2>12, <2>13, <2>14, <2>15 DEF d
<1> QED BY <1>2, <1>3

\* OneChanged() for the list of SIMs: the client settles on the cached
\* choice, and calls the service only if that is not listed.
LEMMA SimsChanged ==
  ASSUME NEW c, NEW n, Client(c, n), ModemsShown(c), ReadsTyped(n),
         NEW vs, Values(Private, vs, n), NEW always \in BOOLEAN,
         always \/ ("Sims" \in DOMAIN c.cache[Private] => c.sims = c.cache[Private]["Sims"])
  PROVE  LET d == OneChanged(c, Private, vs, "Sims", always)
             q == c.cache[Private]["SimForMobileData"]
         IN  /\ Stores(c, d, n, vs, {"Sims"})
             /\ "Sims" \in DOMAIN vs => d.sims = vs["Sims"]
             /\ "Sims" \notin DOMAIN vs => d.sims = c.sims
             /\ DOMAIN d.modems = DOMAIN c.modems /\ d.vpns = c.vpns
             /\ Settled(d) \/ (SameChoice(c, d) /\ Shown(d) = Shown(c))
             /\ always /\ "Sims" \in DOMAIN vs => Settled(d)
             /\ ("Sims" \in DOMAIN vs =>
                    /\ "SimForMobileData" \in DOMAIN c.cache[Private]
                    /\ q \in vs["Sims"] \cup {NoPath})
                => d.calls = c.calls
<1> DEFINE d == OneChanged(c, Private, vs, "Sims", always)
           q == c.cache[Private]["SimForMobileData"]
<1>1. n \in Nat
  BY DEF ReadsTyped
<1>2. Change(c, n, vs, "Sims", always)
  BY <1>1, Stored
<1>3. CASE ~Taken(c, Private, vs, "Sims", always)
  <2>1. Stores(c, c, n, vs, {"Sims"}) /\ d = c
    BY <1>2, <1>3 DEF Change
  <2>2. /\ "Sims" \in DOMAIN vs => c.sims = vs["Sims"]
        /\ always => "Sims" \notin DOMAIN vs
    BY <1>3 DEF Taken
  <2> QED BY <2>1, <2>2 DEF SameChoice
<1>4. CASE Taken(c, Private, vs, "Sims", always)
  <2>1. PICK e :
          /\ d = PropertyChanged(e, Private, "Sims", vs["Sims"])
          /\ Stores(c, e, n, vs, {"Sims"})
          /\ \A x \in DOMAIN c.cache[Private] :
                 x # "Sims" => x \in DOMAIN e.cache[Private]
                               /\ e.cache[Private][x] = c.cache[Private][x]
          /\ e.sims = c.sims /\ e.modems = c.modems /\ e.vpns = c.vpns /\ SameChoice(c, e)
    BY <1>2, <1>4 DEF Change
  <2>2. "Sims" \in DOMAIN vs
    BY <1>4 DEF Taken
  <2>3. PICK k \in 0 .. n : vs["Sims"] = 1 .. k
    BY <2>2 DEF Values
  <2>4. PICK ps : ps = vs["Sims"]
    OBVIOUS
  <2>5. d = updateSimDBusPaths(e, ps)
    BY <2>1, <2>4, SlotOf
  <2> HIDE DEF d
  <2>6. Client(e, n) /\ ModemsShown(e) /\ Kept(c, e, Private)
    BY <2>1 DEF Stores
  <2>7. /\ Client(d, n) /\ ModemsShown(d) /\ Kept(e, d, Private)
        /\ d.cache[Private] = e.cache[Private]
        /\ DOMAIN d.modems = DOMAIN e.modems /\ d.sims = ps /\ d.vpns = e.vpns
        /\ d.choice = Shown(d) /\ ~d.mine
        /\ /\ "SimForMobileData" \in DOMAIN e.cache[Private]
           /\ e.cache[Private]["SimForMobileData"] \in ps \cup {NoPath}
           => d.calls = e.calls
    BY <2>3, <2>4, <2>5, <2>6, SimsSlot
  <2>8. Stores(c, d, n, vs, {"Sims"})
    BY <2>1, <2>6, <2>7, KeptTwice DEF Stores
  <2>9. Settled(d)
    BY <2>7 DEF Settled
  <2>10. ASSUME "SimForMobileData" \in DOMAIN c.cache[Private], q \in ps \cup {NoPath}
         PROVE  d.calls = c.calls
    <3>1. /\ "SimForMobileData" \in DOMAIN e.cache[Private]
          /\ e.cache[Private]["SimForMobileData"] = q
      BY <2>1, <2>10
    <3> QED BY <2>1, <2>7, <2>10, <3>1 DEF SameChoice
  <2> QED BY <2>1, <2>2, <2>4, <2>7, <2>8, <2>9, <2>10 DEF d
<1> QED BY <1>3, <1>4

\* After a slot the cache has the values of vs and keeps the others.
LEMMA AfterStores ==
  ASSUME NEW c, NEW d, NEW n, NEW vs, NEW S, Stores(c, d, n, vs, S), NEW x
  PROVE  /\ x \in S /\ x \in DOMAIN vs => x \in DOMAIN d.cache[Private]
                                          /\ d.cache[Private][x] = vs[x]
         /\ x \notin S \/ x \notin DOMAIN vs =>
                /\ x \in DOMAIN d.cache[Private] <=> x \in DOMAIN c.cache[Private]
                /\ x \in DOMAIN c.cache[Private] => d.cache[Private][x] = c.cache[Private][x]
<1>1. PICK g : g = c.cache[Private]
  OBVIOUS
<1>2. PICK h : h = d.cache[Private]
  OBVIOUS
<1>3. PICK k : k = Only(vs, S)
  OBVIOUS
<1>4. DOMAIN k = DOMAIN vs \cap S /\ \A y \in DOMAIN vs : y \in S => k[y] = vs[y]
  BY <1>3, OnlyFacts
<1>5. h = Over(k, g)
  BY <1>1, <1>2, <1>3 DEF Stores
<1>6. /\ DOMAIN h = DOMAIN k \cup DOMAIN g
      /\ \A y \in DOMAIN k : h[y] = k[y]
      /\ \A y \in DOMAIN g : y \notin DOMAIN k => h[y] = g[y]
  BY <1>5 DEF Over
<1> QED BY <1>1, <1>2, <1>4, <1>6

\* Two slots store the values of both.
LEMMA StoresTwice ==
  ASSUME NEW c, NEW d, NEW e, NEW n, NEW vs, NEW S, NEW T,
         Stores(c, d, n, vs, S), Stores(d, e, n, vs, T)
  PROVE  Stores(c, e, n, vs, S \cup T)
<1>1. PICK g : g = c.cache[Private]
  OBVIOUS
<1>2. PICK s : s = Only(vs, S)
  OBVIOUS
<1>3. PICK t : t = Only(vs, T)
  OBVIOUS
<1>4. PICK u : u = Only(vs, S \cup T)
  OBVIOUS
<1>5. PICK f : f = Over(s, g)
  OBVIOUS
<1>6. /\ DOMAIN s = DOMAIN vs \cap S /\ \A x \in DOMAIN s : s[x] = vs[x]
      /\ DOMAIN t = DOMAIN vs \cap T /\ \A x \in DOMAIN t : t[x] = vs[x]
  BY <1>2, <1>3 DEF Only
<1>7. DOMAIN u = DOMAIN vs \cap (S \cup T) /\ \A x \in DOMAIN u : u[x] = vs[x]
  BY <1>4 DEF Only
<1>8. /\ DOMAIN f = DOMAIN s \cup DOMAIN g
      /\ \A x \in DOMAIN s : f[x] = s[x]
      /\ \A x \in DOMAIN g : x \notin DOMAIN s => f[x] = g[x]
  BY <1>5 DEF Over
<1>9. Over(t, f) = Over(u, g)
  <2>1. PICK a : a = Over(t, f)
    OBVIOUS
  <2>2. PICK b : b = Over(u, g)
    OBVIOUS
  <2>3. /\ IsMap(a) /\ DOMAIN a = DOMAIN t \cup DOMAIN f
        /\ \A x \in DOMAIN t : a[x] = t[x]
        /\ \A x \in DOMAIN f : x \notin DOMAIN t => a[x] = f[x]
    BY <2>1 DEF Over, IsMap
  <2>4. /\ IsMap(b) /\ DOMAIN b = DOMAIN u \cup DOMAIN g
        /\ \A x \in DOMAIN u : b[x] = u[x]
        /\ \A x \in DOMAIN g : x \notin DOMAIN u => b[x] = g[x]
    BY <2>2 DEF Over, IsMap
  <2>5. DOMAIN a = DOMAIN b
    BY <1>6, <1>7, <1>8, <2>3, <2>4
  <2>6. \A x \in DOMAIN a : a[x] = b[x]
    BY <1>6, <1>7, <1>8, <2>3, <2>4
  <2>7. a = b
    BY <2>3, <2>4, <2>5, <2>6, SameMap
  <2> QED BY <2>1, <2>2, <2>7
<1>10. d.cache[Private] = f /\ e.cache[Private] = Over(t, d.cache[Private])
  BY <1>1, <1>2, <1>3, <1>5 DEF Stores
<1> QED BY <1>1, <1>4, <1>9, <1>10, KeptTwice DEF Stores

\* All slots of Private in turn: what the lists and the choice are
\* afterwards, and when no call was made.
LEMMA PrivateInTurn ==
  ASSUME NEW c, NEW n, Client(c, n), ModemsShown(c), ReadsTyped(n),
         NEW vs, Values(Private, vs, n), NEW always \in BOOLEAN, always \/ ListsShown(c)
  PROVE  /\ Stores(c, InTurn(c, Private, vs, always), n, vs, Slots)
         /\ TookPrivate(c, InTurn(c, Private, vs, always), vs, always)
<1> DEFINE p == "SimForMobileData"
<1>1. n \in Nat
  BY DEF ReadsTyped
<1>2. PICK c1 : c1 = OneChanged(c, Private, vs, "Modems", always)
  OBVIOUS
<1>3. PICK c2 : c2 = OneChanged(c1, Private, vs, "Sim", always)
  OBVIOUS
<1>4. PICK c3 : c3 = OneChanged(c2, Private, vs, p, always)
  OBVIOUS
<1>5. PICK c4 : c4 = OneChanged(c3, Private, vs, "Sims", always)
  OBVIOUS
<1>6. PICK d : d = OneChanged(c4, Private, vs, "VpnConnections", always)
  OBVIOUS
<1>7. d = InTurn(c, Private, vs, always)
  BY <1>2, <1>3, <1>4, <1>5, <1>6 DEF InTurn
<1>8. /\ Stores(c, c1, n, vs, {"Modems"})
      /\ "Modems" \in DOMAIN vs => DOMAIN c1.modems = vs["Modems"]
      /\ "Modems" \notin DOMAIN vs => DOMAIN c1.modems = DOMAIN c.modems
      /\ c1.sims = c.sims /\ c1.vpns = c.vpns /\ SameChoice(c, c1)
  BY <1>2, ModemsChanged DEF ListsShown
<1>9. c2 = c1
  <2>1. "Sim" \notin DOMAIN vs
    BY PropertiesOf DEF Values, PrivateProperties, PrivateReads
  <2>2. ~Taken(c1, Private, vs, "Sim", always)
    BY <2>1 DEF Taken
  <2> QED BY <1>3, <2>2, OneChangedIs
<1>10. Client(c1, n) /\ ModemsShown(c1)
  BY <1>8 DEF Stores
<1>11. /\ Stores(c1, c3, n, vs, {p})
       /\ c3.sims = c1.sims /\ DOMAIN c3.modems = DOMAIN c1.modems /\ c3.vpns = c1.vpns
       /\ Settled(c3) \/ (SameChoice(c1, c3) /\ Shown(c3) = Shown(c1))
       /\ always /\ p \in DOMAIN vs => Settled(c3)
       /\ (p \in DOMAIN vs => getSimByPath(c1.sims, vs[p]) \in {c1.choice, vs[p]})
           => c3.calls = c1.calls
  BY <1>1, <1>4, <1>9, <1>10, ChoiceChanged
<1>12. Client(c3, n) /\ ModemsShown(c3) /\ Stores(c, c3, n, vs, {"Modems", p})
  <2>1. Stores(c, c3, n, vs, {"Modems"} \cup {p})
    BY <1>8, <1>11, StoresTwice
  <2>2. {"Modems"} \cup {p} = {"Modems", p}
    OBVIOUS
  <2> QED BY <1>11, <2>1, <2>2 DEF Stores
<1>13. /\ Stores(c3, c4, n, vs, {"Sims"})
       /\ "Sims" \in DOMAIN vs => c4.sims = vs["Sims"]
       /\ "Sims" \notin DOMAIN vs => c4.sims = c3.sims
       /\ DOMAIN c4.modems = DOMAIN c3.modems /\ c4.vpns = c3.vpns
       /\ Settled(c4) \/ (SameChoice(c3, c4) /\ Shown(c4) = Shown(c3))
       /\ always /\ "Sims" \in DOMAIN vs => Settled(c4)
       /\ ("Sims" \in DOMAIN vs =>
              p \in DOMAIN c3.cache[Private] /\ c3.cache[Private][p] \in vs["Sims"] \cup {NoPath})
           => c4.calls = c3.calls
  <2>1. always \/ ("Sims" \in DOMAIN c3.cache[Private] => c3.sims = c3.cache[Private]["Sims"])
    <3>1. "Sims" \notin {"Modems", p}
      OBVIOUS
    <3>2. /\ "Sims" \in DOMAIN c3.cache[Private] <=> "Sims" \in DOMAIN c.cache[Private]
          /\ "Sims" \in DOMAIN c.cache[Private] =>
                 c3.cache[Private]["Sims"] = c.cache[Private]["Sims"]
      BY <1>12, <3>1, AfterStores
    <3> QED BY <1>8, <1>11, <3>2 DEF ListsShown
  <2> QED BY <1>5, <1>12, <2>1, SimsChanged
<1>14. Client(c4, n) /\ ModemsShown(c4) /\ Stores(c, c4, n, vs, {"Modems", p, "Sims"})
  <2>1. Stores(c, c4, n, vs, {"Modems", p} \cup {"Sims"})
    BY <1>12, <1>13, StoresTwice
  <2>2. {"Modems", p} \cup {"Sims"} = {"Modems", p, "Sims"}
    OBVIOUS
  <2> QED BY <1>13, <2>1, <2>2 DEF Stores
<1>15. /\ Stores(c4, d, n, vs, {"VpnConnections"})
       /\ "VpnConnections" \in DOMAIN vs => d.vpns = vs["VpnConnections"]
       /\ "VpnConnections" \notin DOMAIN vs => d.vpns = c4.vpns
       /\ d.sims = c4.sims /\ DOMAIN d.modems = DOMAIN c4.modems
       /\ SameChoice(c4, d) /\ Shown(d) = Shown(c4)
  <2>1. always \/ ("VpnConnections" \in DOMAIN c4.cache[Private]
                       => c4.vpns = c4.cache[Private]["VpnConnections"])
    <3>1. "VpnConnections" \notin {"Modems", p, "Sims"}
      OBVIOUS
    <3>2. /\ "VpnConnections" \in DOMAIN c4.cache[Private]
                 <=> "VpnConnections" \in DOMAIN c.cache[Private]
          /\ "VpnConnections" \in DOMAIN c.cache[Private] =>
                 c4.cache[Private]["VpnConnections"] = c.cache[Private]["VpnConnections"]
      BY <1>14, <3>1, AfterStores
    <3> QED BY <1>8, <1>11, <1>13, <3>2 DEF ListsShown
  <2> QED BY <1>1, <1>6, <1>14, <2>1, VpnsChanged
<1>16. Stores(c, d, n, vs, Slots)
  <2>1. Stores(c, d, n, vs, {"Modems", p, "Sims"} \cup {"VpnConnections"})
    BY <1>14, <1>15, StoresTwice
  <2>2. "Sim" \notin DOMAIN vs
    BY PropertiesOf DEF Values, PrivateProperties, PrivateReads
  <2>3. Only(vs, {"Modems", p, "Sims"} \cup {"VpnConnections"}) = Only(vs, Slots)
    <3>1. DOMAIN vs \cap ({"Modems", p, "Sims"} \cup {"VpnConnections"}) = DOMAIN vs \cap Slots
      BY <2>2 DEF Slots
    <3> QED BY <3>1 DEF Only
  <2> QED BY <2>1, <2>3 DEF Stores
<1>17. Settled(c4) => Settled(d)
  BY <1>15 DEF Settled, SameChoice
<1>18. Settled(c3) /\ SameChoice(c3, c4) /\ Shown(c4) = Shown(c3) => Settled(c4)
  BY DEF Settled, SameChoice
<1>19. Shown(c1) = Shown(c)
  <2>1. p \notin {"Modems"}
    OBVIOUS
  <2>2. /\ p \in DOMAIN c1.cache[Private] <=> p \in DOMAIN c.cache[Private]
        /\ p \in DOMAIN c.cache[Private] => c1.cache[Private][p] = c.cache[Private][p]
    BY <1>8, <2>1, AfterStores
  <2>3. Private \in DOMAIN c.cache /\ Private \in DOMAIN c1.cache
    BY <1>1, <1>10, ClientFacts
  <2>4. Cached(c1, Private, p, NoPath) = Cached(c, Private, p, NoPath)
    BY <2>2, <2>3 DEF Cached
  <2> QED BY <1>8, <2>4 DEF Shown
<1>20. Settled(d) \/ (SameChoice(c, d) /\ Shown(d) = Shown(c))
  BY <1>8, <1>11, <1>13, <1>15, <1>17, <1>18, <1>19 DEF SameChoice
<1>21. ASSUME p \in DOMAIN vs => getSimByPath(c.sims, vs[p]) \in {c.choice, vs[p]},
              "Sims" \in DOMAIN vs => /\ p \in DOMAIN d.cache[Private]
                                      /\ d.cache[Private][p] \in vs["Sims"] \cup {NoPath}
       PROVE  d.calls = c.calls
  <2>1. c3.calls = c.calls
    BY <1>8, <1>11, <1>21 DEF SameChoice
  <2>2. /\ p \in DOMAIN d.cache[Private] <=> p \in DOMAIN c3.cache[Private]
        /\ p \in DOMAIN c3.cache[Private] => d.cache[Private][p] = c3.cache[Private][p]
    <3>1. p \notin {"Sims"} /\ p \notin {"VpnConnections"}
      OBVIOUS
    <3>2. /\ p \in DOMAIN c4.cache[Private] <=> p \in DOMAIN c3.cache[Private]
          /\ p \in DOMAIN c3.cache[Private] => c4.cache[Private][p] = c3.cache[Private][p]
      BY <1>13, <3>1, AfterStores
    <3>3. /\ p \in DOMAIN d.cache[Private] <=> p \in DOMAIN c4.cache[Private]
          /\ p \in DOMAIN c4.cache[Private] => d.cache[Private][p] = c4.cache[Private][p]
      BY <1>15, <3>1, AfterStores
    <3> QED BY <3>2, <3>3
  <2>3. c4.calls = c3.calls
    BY <1>13, <1>21, <2>2
  <2> QED BY <1>15, <2>1, <2>3 DEF SameChoice
<1>22. TookPrivate(c, d, vs, always)
  BY <1>8, <1>11, <1>13, <1>15, <1>17, <1>20, <1>21 DEF TookPrivate
<1> QED BY <1>7, <1>16, <1>22

\* Values without slots do nothing more.
LEMMA WithoutSlots ==
  ASSUME NEW c, NEW o, NEW vs, NEW always \in BOOLEAN, DOMAIN vs \cap Slots = {}
  PROVE  InTurn(c, o, vs, always) = c
<1>1. \A p \in Slots : OneChanged(c, o, vs, p, always) = c
  <2> TAKE p \in Slots
  <2>1. ~Taken(c, o, vs, p, always)
    BY DEF Taken
  <2> QED BY <2>1, OneChangedIs
<1> QED BY <1>1 DEF InTurn, Slots

\* The values without slots are stored first, then the others: together
\* all of them.
LEMMA StoredBoth ==
  ASSUME NEW f, NEW vs, IsMap(vs), NEW S
  PROVE  Over(Only(vs, S), Over(Only(vs, DOMAIN vs \ S), f)) = Over(vs, f)
<1>1. PICK a : a = Over(Only(vs, S), Over(Only(vs, DOMAIN vs \ S), f))
  OBVIOUS
<1>2. PICK b : b = Over(vs, f)
  OBVIOUS
<1>3. PICK h : h = Over(Only(vs, DOMAIN vs \ S), f)
  OBVIOUS
<1>4. /\ DOMAIN h = DOMAIN f \cup (DOMAIN vs \ S)
      /\ \A x \in DOMAIN vs : x \notin S => h[x] = vs[x]
      /\ \A x \in DOMAIN f : x \notin DOMAIN vs => h[x] = f[x]
  BY <1>3 DEF Over, Only
<1>5. /\ IsMap(a) /\ DOMAIN a = DOMAIN h \cup (DOMAIN vs \cap S)
      /\ \A x \in DOMAIN vs : x \in S => a[x] = vs[x]
      /\ \A x \in DOMAIN h : x \notin DOMAIN vs \cap S => a[x] = h[x]
  BY <1>1, <1>3 DEF Over, Only, IsMap
<1>6. /\ IsMap(b) /\ DOMAIN b = DOMAIN f \cup DOMAIN vs
      /\ \A x \in DOMAIN vs : b[x] = vs[x]
      /\ \A x \in DOMAIN f : x \notin DOMAIN vs => b[x] = f[x]
  BY <1>2 DEF Over, IsMap
<1>7. a = b
  BY <1>4, <1>5, <1>6, SameMap
<1> QED BY <1>1, <1>2, <1>7

\* propertiesChanged() of Private: the cache has all values of the
\* message, and the lists show it.
LEMMA PrivateMessage ==
  ASSUME NEW c, NEW n, Client(c, n), ModemsShown(c), ReadsTyped(n), ListsShown(c),
         NEW vs, Values(Private, vs, n)
  PROVE  LET d == PropertiesChanged(c, Private, vs)
         IN  /\ Client(d, n) /\ ModemsShown(d) /\ Kept(c, d, Private) /\ ListsShown(d)
             /\ d.cache[Private] = Over(vs, c.cache[Private])
             /\ TookPrivate(c, d, vs, FALSE)
<1>1. n \in Nat
  BY DEF ReadsTyped
<1>2. PICK g : g = c.cache[Private]
  OBVIOUS
<1>3. PICK f : f = Over(Only(vs, DOMAIN vs \ Slots), g)
  OBVIOUS
<1>4. PICK e : e = Caching(c, Private, f)
  OBVIOUS
<1>5. PICK d : d = PropertiesChanged(c, Private, vs)
  OBVIOUS
<1>6. d = InTurn(e, Private, vs, FALSE)
  BY <1>2, <1>3, <1>4, <1>5 DEF PropertiesChanged, Caching
<1>7. Private \in DOMAIN c.cache /\ Values(Private, g, n)
  BY <1>1, <1>2, ClientFacts DEF Client
<1>8. Values(Private, f, n)
  BY <1>3, <1>7, ValuesFacts
<1>9. Recached(c, e, Private, f, n)
  BY <1>4, <1>7, <1>8, CachingFacts
<1>10. Client(e, n) /\ ModemsShown(e) /\ Kept(c, e, Private)
  BY <1>9, ObjectsDiffer DEF Recached, Kept
<1>11. \A x \in Slots : /\ x \in DOMAIN f <=> x \in DOMAIN g
                        /\ x \in DOMAIN g => f[x] = g[x]
  BY <1>3 DEF Over, Only
<1>12. ListsShown(e)
  BY <1>2, <1>9, <1>11 DEF ListsShown, Recached, Slots
<1>13. Shown(e) = Shown(c)
  <2>1. Cached(e, Private, "SimForMobileData", NoPath) = Cached(c, Private, "SimForMobileData", NoPath)
    BY <1>2, <1>7, <1>9, <1>11 DEF Cached, Slots, Recached
  <2> QED BY <1>9, <2>1 DEF Shown, Recached
<1>14. Stores(e, d, n, vs, Slots) /\ TookPrivate(e, d, vs, FALSE)
  BY <1>6, <1>10, <1>12, PrivateInTurn
<1>15. d.cache[Private] = Over(vs, g)
  <2>1. d.cache[Private] = Over(Only(vs, Slots), f)
    BY <1>9, <1>14 DEF Stores, Recached
  <2>2. IsMap(vs)
    BY DEF Values
  <2> QED BY <1>3, <2>1, <2>2, StoredBoth
<1>16. Client(d, n) /\ ModemsShown(d) /\ Kept(c, d, Private)
  BY <1>10, <1>14, KeptTwice DEF Stores
<1>17. TookPrivate(c, d, vs, FALSE)
  BY <1>9, <1>13, <1>14 DEF TookPrivate, Recached, SameChoice
<1>18. ListsShown(d)
  <2>1. PICK h : h = d.cache[Private]
    OBVIOUS
  <2>2. /\ DOMAIN h = DOMAIN vs \cup DOMAIN g
        /\ \A x \in DOMAIN vs : h[x] = vs[x]
        /\ \A x \in DOMAIN g : x \notin DOMAIN vs => h[x] = g[x]
    BY <1>15, <2>1 DEF Over
  <2> QED BY <1>2, <1>17, <2>1, <2>2 DEF ListsShown, TookPrivate
<1> QED BY <1>2, <1>5, <1>15, <1>16, <1>17, <1>18

\* A client that is alike shows the same choice and lists.
LEMMA AlikeFacts ==
  ASSUME NEW c, NEW d, NEW n, Client(c, n), Client(d, n), n \in Nat, Alike(c, d)
  PROVE  Shown(d) = Shown(c) /\ (ListsShown(c) => ListsShown(d))
<1>1. Private \in DOMAIN c.cache /\ Private \in DOMAIN d.cache
  BY ClientFacts
<1>2. Cached(d, Private, "SimForMobileData", NoPath) = Cached(c, Private, "SimForMobileData", NoPath)
  BY <1>1 DEF Cached, Alike
<1> QED BY <1>2 DEF Alike, Shown, ListsShown

\* The slot of a modem's SIM: that modem shows it.
LEMMA ModemSimSlot ==
  ASSUME NEW c, NEW n, Client(c, n), NEW q \in DOMAIN c.modems, n \in Nat, NEW v,
         \A p \in DOMAIN c.modems : p # q /\ "Sim" \in DOMAIN c.cache[ModemObject(p)] =>
             c.modems[p] = getSimByPath(c.sims, c.cache[ModemObject(p)]["Sim"]),
         "Sim" \in DOMAIN c.cache[ModemObject(q)] => c.cache[ModemObject(q)]["Sim"] = v
  PROVE  LET d == PropertyChanged(c, ModemObject(q), "Sim", v)
         IN  Client(d, n) /\ ModemsShown(d) /\ d.cache = c.cache /\ Alike(c, d)
<1>1. PICK d : d = PropertyChanged(c, ModemObject(q), "Sim", v)
  OBVIOUS
<1>2. PICK ms : ms = [c.modems EXCEPT ![q] = getSimByPath(c.sims, v)]
  OBVIOUS
<1>3. d = [c EXCEPT !.modems = ms]
  BY <1>1, <1>2, SlotOf, ObjectShape
<1>4. IsClient(c)
  BY DEF Client
<1>5. d = [cache |-> c.cache, sims |-> c.sims, modems |-> ms, vpns |-> c.vpns,
           choice |-> c.choice, mine |-> c.mine, calls |-> c.calls]
  BY <1>3, <1>4 DEF IsClient
<1>6. /\ d.cache = c.cache /\ d.sims = c.sims /\ d.modems = ms /\ d.vpns = c.vpns
      /\ d.choice = c.choice /\ d.mine = c.mine /\ d.calls = c.calls
      /\ IsClient(d)
  BY <1>5 DEF IsClient
<1>7. /\ IsMap(ms) /\ DOMAIN ms = DOMAIN c.modems /\ ms[q] = getSimByPath(c.sims, v)
      /\ \A p \in DOMAIN c.modems : p # q => ms[p] = c.modems[p]
  BY <1>2 DEF IsMap
<1>8. Client(d, n)
  <2>1. /\ IsMap(c.cache) /\ IsSeq(c.calls)
        /\ \E k \in 0 .. n : c.sims = 1 .. k
        /\ DOMAIN c.modems \subseteq Nat
        /\ DOMAIN c.cache = ClientObjects(DOMAIN c.modems, c.sims)
        /\ \A o \in DOMAIN c.cache : Values(o, c.cache[o], n)
        /\ c.choice \in 0 .. n /\ c.mine \in BOOLEAN
        /\ Calls(c.calls, n)
    BY DEF Client
  <2> QED BY <1>6, <1>7, <2>1 DEF Client
<1>9. ModemsShown(d)
  BY <1>6, <1>7 DEF ModemsShown
<1> QED BY <1>1, <1>6, <1>7, <1>8, <1>9 DEF Alike, SameChoice

\* propertiesChanged() of a modem,
LEMMA ModemMessage ==
  ASSUME NEW c, NEW n, Client(c, n), ModemsShown(c), n \in Nat, NEW q \in DOMAIN c.modems,
         NEW vs, Values(ModemObject(q), vs, n)
  PROVE  LET d == PropertiesChanged(c, ModemObject(q), vs)
         IN  /\ Client(d, n) /\ ModemsShown(d) /\ Kept(c, d, ModemObject(q)) /\ Alike(c, d)
             /\ d.cache[ModemObject(q)] = Over(vs, c.cache[ModemObject(q)])
<1>1. PICK o : o = ModemObject(q)
  OBVIOUS
<1>2. PICK g : g = c.cache[o]
  OBVIOUS
<1>3. PICK f : f = Over(Only(vs, DOMAIN vs \ Slots), g)
  OBVIOUS
<1>4. PICK e : e = Caching(c, o, f)
  OBVIOUS
<1>5. PICK d : d = PropertiesChanged(c, o, vs)
  OBVIOUS
<1>6. d = InTurn(e, o, vs, FALSE)
  BY <1>2, <1>3, <1>4, <1>5 DEF PropertiesChanged, Caching
<1>7. o \in DOMAIN c.cache /\ Values(o, g, n) /\ Values(o, vs, n)
  BY <1>1, <1>2, ClientFacts DEF Client
<1>8. DOMAIN vs \subseteq {"Sim"} /\ q \in Nat
  <2>1. q \in Nat
    BY DEF Client
  <2> QED BY <2>1, PropertiesOf DEF Values
<1>9. Values(o, f, n)
  BY <1>3, <1>7, ValuesFacts
<1>10. Recached(c, e, o, f, n)
  BY <1>4, <1>7, <1>9, CachingFacts
<1>11. f = g
  <2>1. /\ IsMap(f) /\ DOMAIN f = DOMAIN g /\ \A x \in DOMAIN g : f[x] = g[x]
    BY <1>3, <1>8 DEF Over, Only, IsMap, Slots
  <2> QED BY <1>7, <2>1, SameMap DEF Values
<1>12. \A x \in DOMAIN c.cache : e.cache[x] = c.cache[x]
  BY <1>2, <1>10, <1>11 DEF Recached
<1>13. ModemsShown(e) /\ Client(e, n) /\ Alike(c, e) /\ DOMAIN e.cache = DOMAIN c.cache /\ e.modems = c.modems
  <2>1. \A p \in DOMAIN c.modems : ModemObject(p) \in DOMAIN c.cache
    BY ClientFacts
  <2>2. Private \in DOMAIN c.cache
    BY ClientFacts
  <2> QED BY <1>10, <1>12, <2>1, <2>2 DEF ModemsShown, Recached, Alike
<1>14. \A a : \A p \in {"Modems", "SimForMobileData", "Sims", "VpnConnections"} :
           OneChanged(a, o, vs, p, FALSE) = a
  <2> TAKE a
  <2> TAKE p \in {"Modems", "SimForMobileData", "Sims", "VpnConnections"}
  <2>1. ~Taken(a, o, vs, p, FALSE)
    BY <1>8 DEF Taken
  <2> QED BY <2>1, OneChangedIs
<1>15. d = OneChanged(e, o, vs, "Sim", FALSE)
  <2>1. d = OneChanged(OneChanged(OneChanged(OneChanged(e, o, vs, "Sim", FALSE), o, vs,
                "SimForMobileData", FALSE), o, vs, "Sims", FALSE), o, vs, "VpnConnections", FALSE)
    BY <1>6, <1>14, Zenon DEF InTurn
  <2> QED BY <1>14, <2>1, Zenon
<1>16. ASSUME ~Taken(e, o, vs, "Sim", FALSE)
       PROVE  Client(d, n) /\ ModemsShown(d) /\ Kept(c, d, o) /\ Alike(c, d) /\ d.cache[o] = Over(vs, g)
  <2>1. d = e
    BY <1>15, <1>16, OneChangedIs
  <2>2. Over(vs, g) = g
    <3>1. \A x \in DOMAIN vs : x \in DOMAIN g /\ vs[x] = g[x]
      BY <1>2, <1>7, <1>8, <1>12, <1>16 DEF Taken
    <3>2. PICK h : h = Over(vs, g)
      OBVIOUS
    <3>3. IsMap(h) /\ DOMAIN h = DOMAIN g /\ \A x \in DOMAIN g : h[x] = g[x]
      BY <3>1, <3>2 DEF Over, IsMap
    <3> QED BY <1>7, <3>2, <3>3, SameMap DEF Values
  <2> QED BY <1>2, <1>7, <1>12, <1>13, <2>1, <2>2 DEF Kept
<1>17. ASSUME Taken(e, o, vs, "Sim", FALSE)
       PROVE  Client(d, n) /\ ModemsShown(d) /\ Kept(c, d, o) /\ Alike(c, d) /\ d.cache[o] = Over(vs, g)
  <2>1. PICK v : v = vs["Sim"]
    OBVIOUS
  <2>2. PICK h : h = With(g, "Sim", v)
    OBVIOUS
  <2>3. e.cache[o] = g /\ "Sim" \in DOMAIN vs /\ o \in DOMAIN e.cache
    BY <1>2, <1>7, <1>12, <1>13, <1>17 DEF Taken
  <2>4. PICK e2 : e2 = Caching(e, o, h)
    OBVIOUS
  <2>5. d = PropertyChanged(e2, o, "Sim", v)
    <3>1. PICK no \in BOOLEAN : no = FALSE
      OBVIOUS
    <3>2. Taken(e, o, vs, "Sim", no)
      BY <1>17, <3>1
    <3>3. OneChanged(e, o, vs, "Sim", no)
              = PropertyChanged(Caching(e, o, With(e.cache[o], "Sim", vs["Sim"])), o, "Sim", vs["Sim"])
      BY <3>2, OneChangedIs
    <3> QED BY <1>15, <2>1, <2>2, <2>3, <2>4, <3>1, <3>3
  <2>6. h = Over(vs, g) /\ Values(o, h, n)
    <3>1. h = Over(Only(vs, {"Sim"}), g) /\ Values(o, h, n)
      BY <1>7, <2>1, <2>2, <2>3, Storing
    <3>2. Only(vs, {"Sim"}) = vs
      <4>1. PICK k : k = Only(vs, {"Sim"})
        OBVIOUS
      <4>2. IsMap(k) /\ DOMAIN k = DOMAIN vs /\ \A x \in DOMAIN vs : k[x] = vs[x]
        BY <1>8, <4>1 DEF Only, IsMap
      <4>3. IsMap(vs)
        BY DEF Values
      <4> QED BY <4>1, <4>2, <4>3, SameMap
    <3> QED BY <3>1, <3>2
  <2>7. Recached(e, e2, o, h, n)
    BY <1>13, <2>3, <2>4, <2>6, CachingFacts
  <2>8. /\ Client(e2, n) /\ q \in DOMAIN e2.modems
        /\ \A p \in DOMAIN e2.modems : p # q /\ "Sim" \in DOMAIN e2.cache[ModemObject(p)] =>
               e2.modems[p] = getSimByPath(e2.sims, e2.cache[ModemObject(p)]["Sim"])
        /\ "Sim" \in DOMAIN e2.cache[ModemObject(q)] => e2.cache[ModemObject(q)]["Sim"] = v
    <3>1. \A p \in DOMAIN e.modems : ModemObject(p) \in DOMAIN e.cache
      BY <1>13, ClientFacts
    <3>2. \A p \in DOMAIN e.modems : p # q => ModemObject(p) # o
      BY <1>1, ObjectsDiffer
    <3>3. e2.cache[o]["Sim"] = v
      BY <2>2, <2>7 DEF Recached, With
    <3>4. Client(e2, n) /\ q \in DOMAIN e2.modems
      BY <1>13, <2>7 DEF Recached
    <3>5. \A p \in DOMAIN e2.modems : p # q => e2.cache[ModemObject(p)] = e.cache[ModemObject(p)]
      BY <2>7, <3>1, <3>2 DEF Recached
    <3>6. e2.modems = e.modems /\ e2.sims = e.sims
      BY <2>7 DEF Recached
    <3> QED BY <1>1, <1>13, <3>3, <3>4, <3>5, <3>6 DEF ModemsShown
  <2>9. Client(d, n) /\ ModemsShown(d) /\ d.cache = e2.cache /\ Alike(e2, d)
    BY <1>1, <2>5, <2>8, ModemSimSlot
  <2>10. d.cache[o] = Over(vs, g) /\ DOMAIN d.cache = DOMAIN c.cache
         /\ \A x \in DOMAIN c.cache : x # o => d.cache[x] = c.cache[x]
    BY <1>12, <1>13, <2>6, <2>7, <2>9 DEF Recached
  <2>11. Private \in DOMAIN c.cache /\ Private # o
    BY <1>1, ClientFacts, ObjectsDiffer
  <2>12. Alike(c, d)
    BY <1>13, <2>7, <2>9, <2>10, <2>11 DEF Alike, Recached, SameChoice
  <2> QED BY <2>9, <2>10, <2>12 DEF Kept
<1>18. Client(d, n) /\ ModemsShown(d) /\ Kept(c, d, o) /\ Alike(c, d) /\ d.cache[o] = Over(vs, g)
  BY <1>16, <1>17, Zenon
<1> QED BY <1>1, <1>2, <1>5, <1>18, Zenon

\* Messages about the networking status, and about a SIM: no slot answers them.
LEMMA PlainMessage ==
  ASSUME NEW c, NEW n, Client(c, n), ModemsShown(c), n \in Nat,
         NEW o \in DOMAIN c.cache, o # Private, \A q : o # ModemObject(q),
         NEW vs, Values(o, vs, n)
  PROVE  LET d == PropertiesChanged(c, o, vs)
         IN  /\ Client(d, n) /\ ModemsShown(d) /\ Kept(c, d, o) /\ Alike(c, d)
             /\ d.cache[o] = Over(vs, c.cache[o])
<1>1. PICK g : g = c.cache[o]
  OBVIOUS
<1>2. PICK f : f = Over(Only(vs, DOMAIN vs \ Slots), g)
  OBVIOUS
<1>3. PICK e : e = Caching(c, o, f)
  OBVIOUS
<1>4. PICK d : d = PropertiesChanged(c, o, vs)
  OBVIOUS
<1>5. d = InTurn(e, o, vs, FALSE)
  BY <1>1, <1>2, <1>3, <1>4 DEF PropertiesChanged, Caching
<1>6. Values(o, g, n)
  BY <1>1 DEF Client
<1>7. Values(o, f, n)
  BY <1>2, <1>6, ValuesFacts
<1>8. Recached(c, e, o, f, n)
  BY <1>3, <1>7, CachingFacts
<1>9. DOMAIN vs \cap Slots = {}
  <2>1. \A q \in Nat : o # ModemObject(q)
    OBVIOUS
  <2>2. DOMAIN vs \subseteq StatusProperties \cup SimProperties
    BY <2>1 DEF Values, Properties
  <2>3. (StatusProperties \cup SimProperties) \cap Slots = {}
    BY DEF StatusProperties, SimProperties, StatusReads, SwitchProperties, Slots
  <2> QED BY <2>2, <2>3
<1>10. d = e
  BY <1>5, <1>9, WithoutSlots
<1>11. f = Over(vs, g)
  <2>1. Only(vs, DOMAIN vs \ Slots) = vs
    <3>1. PICK k : k = Only(vs, DOMAIN vs \ Slots)
      OBVIOUS
    <3>2. IsMap(k) /\ DOMAIN k = DOMAIN vs /\ \A x \in DOMAIN vs : k[x] = vs[x]
      BY <1>9, <3>1 DEF Only, IsMap
    <3>3. IsMap(vs)
      BY DEF Values
    <3> QED BY <3>1, <3>2, <3>3, SameMap
  <2> QED BY <1>2, <2>1
<1>12. Private \in DOMAIN c.cache
  BY ClientFacts
<1> QED BY <1>1, <1>4, <1>8, <1>10, <1>11, <1>12 DEF Recached, Alike, Kept, SameChoice

\* serviceOwnerChanged() of Private: the cache is what was read, the lists
\* show it, and no call is made if the client knew the chosen SIM or had
\* no other.
LEMMA PrivateRefreshed ==
  ASSUME NEW c, NEW n, Client(c, n), ModemsShown(c), ReadsTyped(n)
  PROVE  LET d == Refreshed(c, Private)
             vs == Read(Private)
         IN  /\ Client(d, n) /\ ModemsShown(d) /\ Kept(c, d, Private)
             /\ d.cache[Private] = Read(Private)
             /\ "Modems" \in DOMAIN vs => DOMAIN d.modems = vs["Modems"]
             /\ "Sims" \in DOMAIN vs => d.sims = vs["Sims"] /\ Settled(d)
             /\ "VpnConnections" \in DOMAIN vs => d.vpns = vs["VpnConnections"]
             /\ vs = Empty => d.sims = c.sims /\ d.vpns = c.vpns /\ SameChoice(c, d)
                              /\ DOMAIN d.modems = DOMAIN c.modems
             /\ /\ "SimForMobileData" \in DOMAIN vs /\ "Sims" \in DOMAIN vs
                /\ getSimByPath(c.sims, vs["SimForMobileData"])
                       \in {c.choice, vs["SimForMobileData"]}
                /\ vs["SimForMobileData"] \in vs["Sims"] \cup {NoPath}
                => d.calls = c.calls
<1>1. n \in Nat
  BY DEF ReadsTyped
<1>2. PICK vs : vs = Read(Private)
  OBVIOUS
<1>3. PICK e : e = Caching(c, Private, vs)
  OBVIOUS
<1>4. PICK d : d = Refreshed(c, Private)
  OBVIOUS
<1>5. d = InTurn(e, Private, vs, TRUE)
  BY <1>2, <1>3, <1>4 DEF Refreshed, Caching
<1>6. Private \in DOMAIN c.cache /\ Values(Private, vs, n)
  BY <1>1, <1>2, ClientFacts DEF ReadsTyped, Objects
<1>7. Recached(c, e, Private, vs, n)
  BY <1>3, <1>6, CachingFacts
<1>8. Client(e, n) /\ ModemsShown(e) /\ Kept(c, e, Private)
  BY <1>7, ObjectsDiffer DEF Recached, Kept
<1>9. Stores(e, d, n, vs, Slots) /\ TookPrivate(e, d, vs, TRUE)
  BY <1>5, <1>6, <1>8, PrivateInTurn
<1>10. d.cache[Private] = vs
  <2>1. d.cache[Private] = Over(Only(vs, Slots), vs)
    BY <1>7, <1>9 DEF Stores, Recached
  <2>2. PICK h : h = Over(Only(vs, Slots), vs)
    OBVIOUS
  <2>3. IsMap(h) /\ DOMAIN h = DOMAIN vs /\ \A x \in DOMAIN vs : h[x] = vs[x]
    BY <2>2 DEF Over, Only, IsMap
  <2> QED BY <1>6, <2>1, <2>2, <2>3, SameMap DEF Values
<1>11. Client(d, n) /\ ModemsShown(d) /\ Kept(c, d, Private)
  BY <1>8, <1>9, KeptTwice DEF Stores
<1>12. ASSUME vs = Empty
       PROVE  d.sims = c.sims /\ d.vpns = c.vpns /\ SameChoice(c, d)
              /\ DOMAIN d.modems = DOMAIN c.modems
  <2>1. DOMAIN vs \cap Slots = {}
    BY <1>12, EmptyFacts
  <2>2. d = e
    BY <1>5, <2>1, WithoutSlots
  <2> QED BY <1>7, <2>2 DEF Recached
<1>13. /\ "Modems" \in DOMAIN vs => DOMAIN d.modems = vs["Modems"]
       /\ "Sims" \in DOMAIN vs => d.sims = vs["Sims"] /\ Settled(d)
       /\ "VpnConnections" \in DOMAIN vs => d.vpns = vs["VpnConnections"]
  BY <1>9 DEF TookPrivate
<1>14. ASSUME "SimForMobileData" \in DOMAIN vs, "Sims" \in DOMAIN vs,
              getSimByPath(c.sims, vs["SimForMobileData"]) \in {c.choice, vs["SimForMobileData"]},
              vs["SimForMobileData"] \in vs["Sims"] \cup {NoPath}
       PROVE  d.calls = c.calls
  BY <1>7, <1>9, <1>10, <1>14 DEF TookPrivate, Recached, SameChoice
<1> QED BY <1>2, <1>4, <1>10, <1>11, <1>12, <1>13, <1>14

\* serviceOwnerChanged() of the networking status,
LEMMA StatusRefreshed ==
  ASSUME NEW c, NEW n, Client(c, n), ModemsShown(c), ReadsTyped(n)
  PROVE  LET d == Refreshed(c, Status)
         IN  /\ Client(d, n) /\ ModemsShown(d) /\ Kept(c, d, Status) /\ Alike(c, d)
             /\ d.cache[Status] = Read(Status)
<1>1. n \in Nat
  BY DEF ReadsTyped
<1>2. PICK vs : vs = Read(Status)
  OBVIOUS
<1>3. PICK e : e = Caching(c, Status, vs)
  OBVIOUS
<1>4. PICK d : d = Refreshed(c, Status)
  OBVIOUS
<1>5. d = InTurn(e, Status, vs, TRUE)
  BY <1>2, <1>3, <1>4 DEF Refreshed, Caching
<1>6. Status \in DOMAIN c.cache /\ Values(Status, vs, n) /\ Private \in DOMAIN c.cache
  BY <1>1, <1>2, ClientFacts DEF ReadsTyped, Objects
<1>7. Recached(c, e, Status, vs, n)
  BY <1>3, <1>6, CachingFacts
<1>8. DOMAIN vs \cap Slots = {}
  <2>1. DOMAIN vs \subseteq StatusProperties
    BY <1>6, PropertiesOf DEF Values
  <2>2. StatusProperties \cap Slots = {}
    BY DEF StatusProperties, StatusReads, SwitchProperties, Slots
  <2> QED BY <2>1, <2>2
<1>9. d = e
  BY <1>5, <1>8, WithoutSlots
<1> QED BY <1>2, <1>4, <1>6, <1>7, <1>9, ObjectsDiffer DEF Recached, Alike, Kept, SameChoice

\* The objects of the SIMs and modems in the lists are read anew.
LEMMA ListedFacts ==
  ASSUME NEW c, NEW n, Client(c, n), ReadsTyped(n)
  PROVE  LET d == ListedRefreshed(c)
         IN  /\ Client(d, n) /\ ModemsShown(d) /\ Alike(c, d)
             /\ DOMAIN d.cache = DOMAIN c.cache
             /\ \A o \in DOMAIN c.cache :
                    d.cache[o] = IF o \in {Private, Status} THEN c.cache[o] ELSE Read(o)
<1> DEFINE cs == [o \in DOMAIN c.cache |->
                      IF o \in {Private, Status} THEN c.cache[o] ELSE Read(o)]
           ms == [p \in DOMAIN c.modems |->
                      IF cs[ModemObject(p)] = Empty THEN c.modems[p]
                      ELSE getSimByPath(c.sims, cs[ModemObject(p)]["Sim"])]
<1>1. n \in Nat
  BY DEF ReadsTyped
<1>2. PICK d : d = ListedRefreshed(c)
  OBVIOUS
<1>3. d = [c EXCEPT !.cache = cs, !.modems = ms]
  BY <1>2 DEF ListedRefreshed
<1>4. /\ IsMap(cs) /\ DOMAIN cs = DOMAIN c.cache
      /\ \A o \in DOMAIN cs : cs[o] = IF o \in {Private, Status} THEN c.cache[o] ELSE Read(o)
  BY DEF IsMap
<1>5. /\ IsMap(ms) /\ DOMAIN ms = DOMAIN c.modems
      /\ \A p \in DOMAIN c.modems : cs[ModemObject(p)] # Empty =>
             ms[p] = getSimByPath(c.sims, cs[ModemObject(p)]["Sim"])
  BY DEF IsMap
<1> HIDE DEF cs, ms
<1>6. IsClient(c)
  BY DEF Client
<1>7. d = [cache |-> cs, sims |-> c.sims, modems |-> ms, vpns |-> c.vpns,
           choice |-> c.choice, mine |-> c.mine, calls |-> c.calls]
  BY <1>3, <1>6 DEF IsClient
<1>8. /\ d.cache = cs /\ d.sims = c.sims /\ d.modems = ms /\ d.vpns = c.vpns
      /\ d.choice = c.choice /\ d.mine = c.mine /\ d.calls = c.calls
      /\ IsClient(d)
  BY <1>7 DEF IsClient
<1>9. DOMAIN c.cache \subseteq Objects /\ Private \in DOMAIN c.cache
  BY <1>1, ClientFacts
<1>10. \A o \in DOMAIN cs : Values(o, cs[o], n)
  <2> TAKE o \in DOMAIN cs
  <2>1. Values(o, c.cache[o], n)
    BY <1>4 DEF Client
  <2>2. Values(o, Read(o), n)
    BY <1>4, <1>9 DEF ReadsTyped
  <2> QED BY <1>4, <2>1, <2>2
<1>11. Client(d, n)
  <2>1. /\ IsSeq(c.calls) /\ Calls(c.calls, n) /\ c.choice \in 0 .. n /\ c.mine \in BOOLEAN
        /\ DOMAIN c.modems \subseteq Nat
        /\ DOMAIN c.cache = ClientObjects(DOMAIN c.modems, c.sims)
        /\ \E k \in 0 .. n : c.sims = 1 .. k
    BY DEF Client
  <2> QED BY <1>4, <1>5, <1>8, <1>10, <2>1 DEF Client
<1>12. ModemsShown(d)
  BY <1>5, <1>8, EmptyFacts DEF ModemsShown
<1> QED BY <1>2, <1>4, <1>5, <1>8, <1>9, <1>11, <1>12 DEF Alike, SameChoice

\* When the service is lost the caches are emptied and all else stays.
LEMMA NoneCachedFacts ==
  ASSUME NEW c, NEW n, Client(c, n), n \in Nat
  PROVE  LET d == NoneCached(c)
         IN  /\ Client(d, n) /\ ModemsShown(d) /\ ListsShown(d)
             /\ DOMAIN d.cache = DOMAIN c.cache /\ \A o \in DOMAIN c.cache : d.cache[o] = Empty
             /\ d.sims = c.sims /\ d.modems = c.modems /\ d.vpns = c.vpns /\ SameChoice(c, d)
<1>1. PICK d : d = NoneCached(c)
  OBVIOUS
<1>2. PICK cs : cs = [o \in DOMAIN c.cache |-> Empty]
  OBVIOUS
<1>3. d = [c EXCEPT !.cache = cs]
  BY <1>1, <1>2 DEF NoneCached
<1>4. IsClient(c)
  BY DEF Client
<1>5. d = [cache |-> cs, sims |-> c.sims, modems |-> c.modems, vpns |-> c.vpns,
           choice |-> c.choice, mine |-> c.mine, calls |-> c.calls]
  BY <1>3, <1>4 DEF IsClient
<1>6. /\ d.cache = cs /\ d.sims = c.sims /\ d.modems = c.modems /\ d.vpns = c.vpns
      /\ d.choice = c.choice /\ d.mine = c.mine /\ d.calls = c.calls
      /\ IsClient(d)
  BY <1>5 DEF IsClient
<1>7. IsMap(cs) /\ DOMAIN cs = DOMAIN c.cache /\ \A o \in DOMAIN cs : cs[o] = Empty
  BY <1>2 DEF IsMap
<1>8. \A o : Values(o, Empty, n)
  BY EmptyFacts DEF Values
<1>9. \A o \in DOMAIN cs : Values(o, cs[o], n)
  BY <1>7, <1>8
<1>10. Client(d, n)
  <2>1. /\ IsMap(c.modems) /\ IsSeq(c.calls) /\ Calls(c.calls, n)
        /\ c.choice \in 0 .. n /\ c.mine \in BOOLEAN
        /\ DOMAIN c.modems \subseteq Nat
        /\ DOMAIN c.cache = ClientObjects(DOMAIN c.modems, c.sims)
        /\ \E k \in 0 .. n : c.sims = 1 .. k
    BY DEF Client
  <2> QED BY <1>6, <1>7, <1>9, <2>1 DEF Client
<1>11. Private \in DOMAIN c.cache /\ \A p \in DOMAIN c.modems : ModemObject(p) \in DOMAIN c.cache
  BY ClientFacts
<1>12. ModemsShown(d) /\ ListsShown(d)
  BY <1>6, <1>7, <1>11, EmptyFacts DEF ModemsShown, ListsShown
<1> QED BY <1>1, <1>6, <1>7, <1>10, <1>12 DEF SameChoice

-----------------------------------------------------------------------------
\* The service's objects

\* SIMs can be counted.
LEMMA SimsFinite ==
  ASSUME NEW S, S \subseteq Iccids
  PROVE  /\ IsFiniteSet(S) /\ Cardinality(S) \in Nat
         /\ \A i \in Iccids : i \notin S => Cardinality(S \cup {i}) = Cardinality(S) + 1
BY SimsAssumption, FS_Subset, FS_CardinalityType, FS_AddElement

\* GetAll() of an object: its case.  The networking status and Private,
LEMMA GetAllIs ==
  ASSUME NEW m, NEW s
  PROVE  /\ GetAll(m, s, Status) = [p \in StatusProperties |-> StatusValue(m, p)]
         /\ GetAll(m, s, Private) = [p \in PrivateProperties |-> PrivateValue(m, s, p)]
<1>1. /\ Status[1] # "modem" /\ Status[1] # "sim" /\ Private[1] # "modem" /\ Private[1] # "sim"
      /\ Status # Private
  BY ObjectShape, ObjectsDiffer
<1>2. GetAll(m, s, Status) = [p \in StatusProperties |-> StatusValue(m, p)]
  BY <1>1, Zenon DEF GetAll
<1>3. GetAll(m, s, Private) = [p \in PrivateProperties |-> PrivateValue(m, s, p)]
  BY <1>1, Zenon DEF GetAll
<1> QED BY <1>2, <1>3

\* a modem,
LEMMA GetAllModem ==
  ASSUME NEW m, NEW s, NEW k, \E x \in DOMAIN s.modems : s.modems[x].path = k
  PROVE  GetAll(m, s, ModemObject(k))
             = [p \in {"Sim"} |->
                   (CHOOSE d \in {s.modems[x] : x \in DOMAIN s.modems} : d.path = k).sim]
<1>1. PICK o : o = ModemObject(k)
  OBVIOUS
<1>2. o[1] = "modem" /\ o[1] # "sim" /\ o[2] = k /\ o # Status /\ o # Private
  BY <1>1, ObjectShape, ObjectsDiffer
<1>3. GetAll(m, s, o)
          = [p \in {"Sim"} |->
                (CHOOSE d \in {s.modems[x] : x \in DOMAIN s.modems} : d.path = o[2]).sim]
  BY <1>2, Zenon DEF GetAll
<1> QED BY <1>1, <1>2, <1>3, ZenonT(60)

\* a modem that is gone,
LEMMA GetAllNoModem ==
  ASSUME NEW m, NEW s, NEW k, \A x \in DOMAIN s.modems : s.modems[x].path # k
  PROVE  GetAll(m, s, ModemObject(k)) = Empty
<1>1. PICK o : o = ModemObject(k)
  OBVIOUS
<1>2. o[1] = "modem" /\ o[1] # "sim" /\ o[2] = k /\ o # Status /\ o # Private
  BY <1>1, ObjectShape, ObjectsDiffer
<1>3. GetAll(m, s, o) = Empty
  BY <1>2, Zenon DEF GetAll
<1> QED BY <1>1, <1>3

\* a SIM,
LEMMA GetAllSim ==
  ASSUME NEW m, NEW s, NEW k, k \in Paths(s.sims),
         NEW j, j = CHOOSE i \in DOMAIN s.sims : s.sims[i] = k
  PROVE  GetAll(m, s, SimObject(k)) = m.bits[j]
<1>1. PICK o : o = SimObject(k)
  OBVIOUS
<1>2. o[1] = "sim" /\ o[1] # "modem" /\ o[2] = k /\ o # Status /\ o # Private
  BY <1>1, ObjectShape, ObjectsDiffer
<1>3. GetAll(m, s, o) = m.bits[CHOOSE i \in DOMAIN s.sims : s.sims[i] = o[2]]
  BY <1>2, Zenon DEF GetAll
<1> QED BY <1>1, <1>2, <1>3, Zenon

\* and a SIM there is none of.
LEMMA GetAllNoSim ==
  ASSUME NEW m, NEW s, NEW k, k \notin Paths(s.sims)
  PROVE  GetAll(m, s, SimObject(k)) = Empty
<1>1. PICK o : o = SimObject(k)
  OBVIOUS
<1>2. o[1] = "sim" /\ o[1] # "modem" /\ o[2] = k /\ o # Status /\ o # Private
  BY <1>1, ObjectShape, ObjectsDiffer
<1>3. GetAll(m, s, o) = Empty
  BY <1>2, Zenon DEF GetAll
<1> QED BY <1>1, <1>3

\* The getter of a flag of Private,
LEMMA FlagValueIs ==
  ASSUME NEW m, NEW s, NEW p \in DOMAIN PrivateReads
  PROVE  PrivateValue(m, s, p) = m.flags[PrivateReads[p]]
<1>1. p # "Modems" /\ p # "Sims" /\ p # "VpnConnections" /\ p # "SimForMobileData"
  BY DEF PrivateReads
<1> QED BY <1>1, Zenon DEF PrivateValue

\* and those of the others, as equations instead of cases.
LEMMA PrivateValueIs ==
  ASSUME NEW m, NEW s
  PROVE  /\ PrivateValue(m, s, "Modems") = {s.modems[x].path : x \in DOMAIN s.modems}
         /\ PrivateValue(m, s, "Sims") = Paths(s.sims)
         /\ PrivateValue(m, s, "VpnConnections") = Paths(s.vpns)
         /\ PrivateValue(m, s, "SimForMobileData") = simForMobileData(m, s)
<1>1. PrivateValue(m, s, "Modems") = {s.modems[x].path : x \in DOMAIN s.modems}
  BY Zenon DEF PrivateValue
<1>2. PrivateValue(m, s, "Sims") = Paths(s.sims)
  BY Zenon DEF PrivateValue
<1>3. PrivateValue(m, s, "VpnConnections") = Paths(s.vpns)
  BY Zenon DEF PrivateValue
<1>4. PrivateValue(m, s, "SimForMobileData") = simForMobileData(m, s)
  BY Zenon DEF PrivateValue
<1> QED BY <1>1, <1>2, <1>3, <1>4

\* What GetAll() answers for a modem of the service
LEMMA ModemValue ==
  ASSUME NEW m, NEW s, Service(m, s), NEW x \in DOMAIN m.modems, NEW k, k = s.modems[x].path,
         NEW vs, vs = GetAll(m, s, ModemObject(k))
  PROVE  IsMap(vs) /\ DOMAIN vs = {"Sim"} /\ vs["Sim"] = PathIn(s, m.modems[x])
<1>2. x \in DOMAIN s.modems /\ \E y \in DOMAIN s.modems : s.modems[y].path = k
  BY DEF Service
<1>3. PICK d : d = CHOOSE e \in {s.modems[y] : y \in DOMAIN s.modems} : e.path = k
  OBVIOUS
<1>4. d \in {s.modems[y] : y \in DOMAIN s.modems} /\ d.path = k
  <2>1. \E e \in {s.modems[y] : y \in DOMAIN s.modems} : e.path = k
    BY <1>2
  <2> QED BY <1>3, <2>1
<1>5. d = s.modems[x]
  BY <1>2, <1>4 DEF Service
<1>6. d.sim = PathIn(s, m.modems[x])
  <2>1. ModemAt(d, PathIn(s, m.modems[x]))
    BY <1>2, <1>5 DEF Service
  <2> QED BY <2>1 DEF ModemAt
<1>7. GetAll(m, s, ModemObject(k)) = [p \in {"Sim"} |-> d.sim]
  BY <1>2, <1>3, GetAllModem
<1>8. vs = [p \in {"Sim"} |-> d.sim]
  BY <1>7
<1> QED BY <1>6, <1>8 DEF IsMap

\* and for a SIM of it.
LEMMA SimValue ==
  ASSUME NEW m, NEW s, Service(m, s), NEW i \in m.sims
  PROVE  GetAll(m, s, SimObject(s.sims[i])) = m.bits[i]
<1>1. PICK k : k = s.sims[i]
  OBVIOUS
<1>2. k \in Paths(s.sims) /\ i \in DOMAIN s.sims
  BY <1>1 DEF Service, Paths
<1>3. PICK j : j = CHOOSE y \in DOMAIN s.sims : s.sims[y] = k
  OBVIOUS
<1>4. j \in DOMAIN s.sims /\ s.sims[j] = k
  BY <1>1, <1>2, <1>3
<1>5. j = i
  BY <1>1, <1>4 DEF Service
<1>6. GetAll(m, s, SimObject(k)) = m.bits[j]
  BY <1>2, <1>3, GetAllSim
<1> QED BY <1>1, <1>5, <1>6

\* The property SimForMobileData is the path of the manager's choice.
LEMMA SimForMobileDataIs ==
  ASSUME NEW m, NEW s, Manager(m), Service(m, s)
  PROVE  simForMobileData(m, s) = PathIn(s, m.choice)
<1>1. NoSim \notin m.sims
  BY SimsAssumption DEF Manager
<1> QED BY <1>1 DEF simForMobileData, Manager, Service, PathIn

\* Paths of SIMs are numbered from 1.
LEMMA PathInTyped ==
  ASSUME NEW m, NEW s, Manager(m), Service(m, s), NEW i \in m.sims \cup {NoSim}
  PROVE  PathIn(s, i) \in 0 .. Cardinality(m.sims) /\ (i # NoSim => PathIn(s, i) \in Paths(s.sims))
<1>1. Cardinality(m.sims) \in Nat
  BY SimsFinite DEF Manager
<1>2. i \in m.sims => s.sims[i] \in Paths(s.sims)
  BY DEF Service, Paths
<1> QED BY <1>1, <1>2 DEF PathIn, Service, NoPath

\* The values GetAll() answers have their types.
LEMMA GetAllTyped ==
  ASSUME NEW m, NEW s, Manager(m), Service(m, s), NEW o \in Objects
  PROVE  Values(o, GetAll(m, s, o), Cardinality(m.sims))
<1> DEFINE n == Cardinality(m.sims)
<1>1. n \in Nat
  BY SimsFinite DEF Manager
<1>2. \A p \in Nat : Values(ModemObject(p), Empty, n) /\ Values(SimObject(p), Empty, n)
  BY EmptyFacts DEF Values
<1>3. Values(Status, GetAll(m, s, Status), n)
  <2>1. PICK vs : vs = GetAll(m, s, Status)
    OBVIOUS
  <2>2. IsMap(vs) /\ DOMAIN vs = StatusProperties
    BY <2>1, GetAllIs DEF IsMap
  <2>3. StatusProperties \cap Slots = {}
    BY DEF StatusProperties, StatusReads, SwitchProperties, Slots
  <2> QED BY <2>1, <2>2, <2>3, PropertiesOf DEF Values, Slots
<1>4. Values(Private, GetAll(m, s, Private), n)
  <2>1. PICK vs : vs = GetAll(m, s, Private)
    OBVIOUS
  <2>2. vs = [p \in PrivateProperties |-> PrivateValue(m, s, p)]
    BY <2>1, GetAllIs
  <2>3. IsMap(vs) /\ DOMAIN vs = PrivateProperties
    BY <2>2 DEF IsMap
  <2>4. {"Modems", "Sims", "SimForMobileData"} \subseteq PrivateProperties
        /\ "Sim" \notin PrivateProperties
    BY DEF PrivateProperties, PrivateReads
  <2>5. /\ vs["Modems"] = {s.modems[x].path : x \in DOMAIN s.modems}
        /\ vs["Sims"] = Paths(s.sims) /\ vs["SimForMobileData"] = simForMobileData(m, s)
    BY <2>2, <2>4, PrivateValueIs
  <2>6. vs["Modems"] \subseteq Nat /\ vs["Sims"] = 1 .. n
    <3>1. \A x \in DOMAIN s.modems : s.modems[x].path \in Nat
      BY DEF Service
    <3> QED BY <2>5, <3>1 DEF Service
  <2>7. vs["SimForMobileData"] \in 0 .. n
    BY <2>5, SimForMobileDataIs, PathInTyped DEF Manager
  <2> HIDE DEF n
  <2> QED BY <1>1, <2>1, <2>3, <2>4, <2>6, <2>7, PropertiesOf DEF Values
<1>5. ASSUME NEW k \in Nat  PROVE Values(ModemObject(k), GetAll(m, s, ModemObject(k)), n)
  <2>1. CASE \E x \in DOMAIN s.modems : s.modems[x].path = k
    <3>1. PICK x \in DOMAIN m.modems : s.modems[x].path = k
      BY <2>1 DEF Service
    <3>2. PICK vs : vs = GetAll(m, s, ModemObject(k))
      OBVIOUS
    <3>4. IsMap(vs) /\ DOMAIN vs = {"Sim"} /\ vs["Sim"] = PathIn(s, m.modems[x])
      BY <3>1, <3>2, ModemValue
    <3>5. PathIn(s, m.modems[x]) \in 0 .. n
      BY PathInTyped DEF Manager
    <3> HIDE DEF n
    <3> QED BY <3>2, <3>4, <3>5, PropertiesOf DEF Values
  <2>2. CASE ~(\E x \in DOMAIN s.modems : s.modems[x].path = k)
    BY <1>2, <2>2, GetAllNoModem
  <2> QED BY <2>1, <2>2
<1>6. ASSUME NEW k \in Nat  PROVE Values(SimObject(k), GetAll(m, s, SimObject(k)), n)
  <2>1. CASE k \in Paths(s.sims)
    <3>1. PICK i \in m.sims : s.sims[i] = k
      BY <2>1 DEF Service, Paths
    <3>2. PICK vs : vs = GetAll(m, s, SimObject(k))
      OBVIOUS
    <3>3. vs = m.bits[i]
      BY <3>1, <3>2, SimValue
    <3>4. IsMap(vs) /\ DOMAIN vs = SimProperties
      BY <3>3 DEF IsMap, Manager
    <3>5. SimProperties \cap Slots = {}
      BY DEF SimProperties, Slots
    <3> HIDE DEF n
    <3> QED BY <3>2, <3>4, <3>5, PropertiesOf DEF Values, Slots
  <2>2. CASE k \notin Paths(s.sims)
    BY <1>2, <2>2, GetAllNoSim
  <2> QED BY <2>1, <2>2
<1> HIDE DEF n
<1>7. Values(o, GetAll(m, s, o), n)
  BY <1>3, <1>4, <1>5, <1>6 DEF Objects
<1> QED BY <1>7 DEF n

-----------------------------------------------------------------------------
\* What is announced, and the messages on their way

\* With more SIMs what had its type still has it: a set of values,
LEMMA ValuesGrow ==
  ASSUME NEW o, NEW vs, NEW n \in Nat, NEW k \in Nat, n <= k, Values(o, vs, n)
  PROVE  Values(o, vs, k)
<1>1. 0 .. n \subseteq 0 .. k
  OBVIOUS
<1> QED BY <1>1 DEF Values

\* a queue, a bus, a client.
LEMMA TypesGrow ==
  ASSUME NEW n \in Nat, NEW k \in Nat, n <= k
  PROVE  /\ ObjectsOf(n) \subseteq ObjectsOf(k) /\ ObjectsOf(n) \subseteq Objects
         /\ \A q : Pending(q, n) => Pending(q, k)
         /\ \A b : Messages(b, n) => Messages(b, k)
         /\ \A c : Client(c, n) => Client(c, k)
<1>1. 1 .. n \subseteq 1 .. k /\ 1 .. n \subseteq Nat /\ 0 .. n \subseteq 0 .. k
  OBVIOUS
<1>2. ObjectsOf(n) \subseteq ObjectsOf(k) /\ ObjectsOf(n) \subseteq Objects
  BY <1>1 DEF ObjectsOf, Objects
<1>3. \A q : Pending(q, n) => Pending(q, k)
  BY <1>2, ValuesGrow DEF Pending
<1>4. \A m : Message(m, n) => Message(m, k)
  BY <1>2, ValuesGrow DEF Message
<1>5. \A b : Messages(b, n) => Messages(b, k)
  BY <1>4 DEF Messages
<1>6. ASSUME NEW c, Client(c, n)  PROVE Client(c, k)
  <2>1. \A o \in DOMAIN c.cache : Values(o, c.cache[o], k)
    BY <1>6, ValuesGrow DEF Client
  <2>2. Calls(c.calls, k)
    BY <1>1, <1>6 DEF Client, Calls, Request
  <2> QED BY <1>1, <1>6, <2>1, <2>2 DEF Client
<1> QED BY <1>2, <1>3, <1>5, <1>6

\* notifyPropertyChanged() queues values that have their types.
LEMMA NotifyTyped ==
  ASSUME NEW m, NEW s, Manager(m), Service(m, s), NEW n, n = Cardinality(m.sims), n \in Nat,
         NEW q, Pending(q, n), NEW o \in ObjectsOf(n), NEW names
  PROVE  Pending(Notify(q, m, s, o, names), n)
<1>1. PICK old : old = IF o \in DOMAIN q THEN q[o] ELSE Empty
  OBVIOUS
<1>2. PICK new : new = Only(GetAll(m, s, o), names)
  OBVIOUS
<1>3. PICK vs : vs = Over(new, old)
  OBVIOUS
<1>4. PICK r : r = Notify(q, m, s, o, names)
  OBVIOUS
<1>5. r = With(q, o, vs)
  BY <1>1, <1>2, <1>3, <1>4 DEF Notify
<1>6. o \in Objects
  BY TypesGrow
<1>7. Values(o, GetAll(m, s, o), n)
  BY <1>6, GetAllTyped
<1>8. Values(o, new, n)
  BY <1>2, <1>7, ValuesFacts
<1>9. Values(o, old, n)
  BY <1>1, EmptyFacts DEF Pending, Values
<1>10. Values(o, vs, n)
  BY <1>3, <1>8, <1>9, ValuesFacts
<1>11. /\ IsMap(r) /\ DOMAIN r = DOMAIN q \cup {o} /\ r[o] = vs
       /\ \A x \in DOMAIN q : x # o => r[x] = q[x]
  BY <1>5 DEF With, IsMap
<1>12. IsFiniteSet(DOMAIN q \cup {o})
  BY FS_AddElement DEF Pending
<1>13. Pending(r, n)
  BY <1>10, <1>11, <1>12 DEF Pending
<1> QED BY <1>4, <1>13

\* The empty queue has them.
LEMMA PendingEmpty == \A n : Pending(Empty, n)
BY EmptyFacts, FS_EmptySet DEF Pending

\* So do the signals of a queue,
LEMMA SignalsTyped ==
  ASSUME NEW n \in Nat, NEW q, Pending(q, n)
  PROVE  Messages(Signals(q), n) /\ Announced(Signals(q), q)
<1>1. PICK b : b = Signals(q)
  OBVIOUS
<1>2. IsFiniteSet(DOMAIN q) /\ DOMAIN q \subseteq Objects
  BY TypesGrow DEF Pending
<1>3. Announced(b, q)
  BY <1>1, <1>2, SignalsFacts
<1>4. ASSUME NEW o \in DOMAIN q  PROVE Message(Signal(q, o), n)
  <2>1. PICK e : e = Signal(q, o)
    OBVIOUS
  <2>2. e.type = "changed" /\ e.object = o /\ e.values = q[o]
    BY <2>1 DEF Signal
  <2>3. o \in ObjectsOf(n) /\ Values(o, q[o], n)
    BY DEF Pending
  <2>4. Message(e, n)
    BY <2>2, <2>3 DEF Message
  <2> QED BY <2>1, <2>4
<1>5. \A e \in Elements(b) : \E o \in DOMAIN q : e = Signal(q, o)
  BY <1>3 DEF Announced, Elements
<1>6. Messages(b, n)
  BY <1>3, <1>4, <1>5 DEF Announced, Messages
<1> QED BY <1>1, <1>3, <1>6

\* two buses one behind the other,
LEMMA MessagesConcat ==
  ASSUME NEW n, NEW b, Messages(b, n), NEW e, Messages(e, n)
  PROVE  Messages(b \o e, n)
<1>1. IsSeq(b) /\ IsSeq(e)
  BY DEF Messages
<1>2. IsSeq(b \o e) /\ Elements(b \o e) = Elements(b) \cup Elements(e)
  BY <1>1, ConcatElements
<1> QED BY <1>2 DEF Messages

\* and replies.
LEMMA AnswersTyped ==
  ASSUME NEW n, NEW e, Answers(e)
  PROVE  Messages(e, n)
BY DEF Answers, Messages, Message

\* One message more, as a concatenation.
LEMMA AppendElements ==
  ASSUME NEW b, IsSeq(b), NEW m
  PROVE  Append(b, m) = b \o <<m>> /\ IsSeq(<<m>>) /\ Elements(<<m>>) = {m}
<1>1. PICK S : b \in Seq(S)
  BY DEF IsSeq
<1>2. b \in Seq(S \cup {m})
  BY <1>1
<1>3. Append(b, m) = b \o <<m>>
  BY <1>2
<1>4. PICK e : e = <<m>>
  OBVIOUS
<1>5. e \in Seq({m}) /\ DOMAIN e = 1 .. 1 /\ e[1] = m
  BY <1>4
<1>6. IsSeq(e) /\ Elements(e) = {m}
  BY <1>5 DEF IsSeq, Elements
<1> QED BY <1>3, <1>4, <1>6

\* The bus without its head, and the head.
LEMMA MessagesTail ==
  ASSUME NEW n, NEW b, Messages(b, n), b # <<>>
  PROVE  Messages(Tail(b), n) /\ Message(Head(b), n)
<1>1. PICK t : t = Tail(b)
  OBVIOUS
<1>2. PICK h : h = Head(b)
  OBVIOUS
<1>3. IsSeq(t) /\ (\A k \in DOMAIN t : k + 1 \in DOMAIN b /\ t[k] = b[k + 1])
      /\ 1 \in DOMAIN b /\ h = b[1]
  BY <1>1, <1>2, TailFacts DEF Messages
<1>4. \A e \in Elements(t) : e \in Elements(b)
  BY <1>3 DEF Elements
<1>5. h \in Elements(b)
  BY <1>3 DEF Elements
<1> QED BY <1>1, <1>2, <1>3, <1>4, <1>5 DEF Messages

\* The replies to a set of requests are a sequence of them.
LEMMA SetToSeqFacts ==
  ASSUME NEW S, IsFiniteSet(S)
  PROVE  IsSeq(SetToSeq(S)) /\ Elements(SetToSeq(S)) \subseteq S
<1>1. Cardinality(S) \in Nat /\ ExistsBijection(1 .. Cardinality(S), S)
  BY FS_CardinalityType
<1>2. PICK g \in [1 .. Cardinality(S) -> S] : \A a, b \in DOMAIN g : g[a] = g[b] => a = b
  BY <1>1 DEF ExistsBijection, Bijection, Injection, IsInjective
<1>3. PICK f : f = SetToSeq(S)
  OBVIOUS
<1>4. f \in [1 .. Cardinality(S) -> S]
  BY <1>2, <1>3 DEF SetToSeq, IsInjective
<1>5. f \in Seq(S)
  BY <1>1, <1>4
<1>6. Elements(f) \subseteq S
  BY <1>4 DEF Elements
<1> QED BY <1>3, <1>5, <1>6 DEF IsSeq

-----------------------------------------------------------------------------
\* The types

\* When it has the types,
LEMMA MgrTyped ==
  ASSUME NEW F \in [Flags -> BOOLEAN], NEW S, S \subseteq Iccids, NEW C \in S \cup {NoSim},
         NEW M, IsMap(M), DOMAIN M \subseteq Serials,
         \A x \in DOMAIN M : M[x] \in S \cup {NoSim},
         NEW B \in [Iccids -> [SimProperties -> BOOLEAN]]
  PROVE  Manager(Mgr(F, S, C, M, B))
<1>1. PICK m : m = Mgr(F, S, C, M, B)
  OBVIOUS
<1>2. /\ m.flags = F /\ m.sims = S /\ m.choice = C /\ m.modems = M /\ m.bits = B
      /\ m = [flags |-> m.flags, sims |-> m.sims, choice |-> m.choice, modems |-> m.modems,
              bits |-> m.bits]
  BY <1>1 DEF Mgr
<1>3. Manager(m)
  BY <1>2 DEF Manager
<1> QED BY <1>1, <1>3

\* and what its fields are.
LEMMA MgrFields ==
  ASSUME NEW F, NEW S, NEW C, NEW M, NEW B
  PROVE  /\ Mgr(F, S, C, M, B).flags = F /\ Mgr(F, S, C, M, B).sims = S
         /\ Mgr(F, S, C, M, B).choice = C /\ Mgr(F, S, C, M, B).modems = M
         /\ Mgr(F, S, C, M, B).bits = B
BY DEF Mgr

\* The parts of Manager, each by its own.
LEMMA ManagerParts ==
  ASSUME NEW m, Manager(m)
  PROVE  /\ m.flags \in [Flags -> BOOLEAN]
         /\ m.sims \subseteq Iccids /\ m.choice \in m.sims \cup {NoSim}
         /\ IsMap(m.modems) /\ DOMAIN m.modems \subseteq Serials
         /\ \A x \in DOMAIN m.modems : m.modems[x] \in m.sims \cup {NoSim}
         /\ m.bits \in [Iccids -> [SimProperties -> BOOLEAN]]
BY DEF Manager

\* A manager with one field changed: a flag,
LEMMA FlagSet ==
  ASSUME NEW m, Manager(m), NEW f, NEW v
  PROVE  [m EXCEPT !.flags[f] = v]
             = Mgr([m.flags EXCEPT ![f] = v], m.sims, m.choice, m.modems, m.bits)
<1>1. PICK F : F = [m.flags EXCEPT ![f] = v]
  OBVIOUS
<1>2. m = [flags |-> m.flags, sims |-> m.sims, choice |-> m.choice, modems |-> m.modems,
           bits |-> m.bits]
  BY DEF Manager
<1>3. [m EXCEPT !.flags = F] = Mgr(F, m.sims, m.choice, m.modems, m.bits)
  BY <1>2 DEF Mgr
<1> QED BY <1>1, <1>3

\* the choice,
LEMMA ChoiceSet ==
  ASSUME NEW m, Manager(m), NEW C
  PROVE  [m EXCEPT !.choice = C] = Mgr(m.flags, m.sims, C, m.modems, m.bits)
<1>1. m = [flags |-> m.flags, sims |-> m.sims, choice |-> m.choice, modems |-> m.modems,
           bits |-> m.bits]
  BY DEF Manager
<1> QED BY <1>1 DEF Mgr

\* the SIMs,
LEMMA SimsSet ==
  ASSUME NEW m, Manager(m), NEW S
  PROVE  [m EXCEPT !.sims = S] = Mgr(m.flags, S, m.choice, m.modems, m.bits)
<1>1. m = [flags |-> m.flags, sims |-> m.sims, choice |-> m.choice, modems |-> m.modems,
           bits |-> m.bits]
  BY DEF Manager
<1> QED BY <1>1 DEF Mgr

\* What its fields are,
LEMMA SvcFields ==
  ASSUME NEW S, NEW M, NEW V, NEW A, NEW x, NEW y
  PROVE  /\ Svc(S, M, V, A, x, y).sims = S /\ Svc(S, M, V, A, x, y).modems = M
         /\ Svc(S, M, V, A, x, y).vpns = V /\ Svc(S, M, V, A, x, y).addQueue = A
         /\ Svc(S, M, V, A, x, y).nextModem = x /\ Svc(S, M, V, A, x, y).nextVpn = y
BY DEF Svc

\* and when it has the types.
LEMMA SvcTyped ==
  ASSUME NEW m, NEW S, IsMap(S), DOMAIN S = m.sims, Paths(S) = 1 .. Cardinality(m.sims),
         \A i, j \in m.sims : S[i] = S[j] => i = j,
         NEW next \in Nat \ {0},
         NEW M, IsMap(M), DOMAIN M = DOMAIN m.modems,
         \A x \in DOMAIN M :
             /\ ModemAt(M[x], IF m.modems[x] = NoSim THEN NoPath ELSE S[m.modems[x]])
             /\ M[x].path \in 1 .. next - 1,
         \A x, y \in DOMAIN M : M[x].path = M[y].path => x = y,
         NEW V, NEW A, NEW z
  PROVE  Service(m, Svc(S, M, V, A, next, z))
<1>1. PICK s : s = Svc(S, M, V, A, next, z)
  OBVIOUS
<1>2. /\ s.sims = S /\ s.modems = M /\ s.nextModem = next
      /\ s = [sims |-> s.sims, modems |-> s.modems, vpns |-> s.vpns, addQueue |-> s.addQueue,
              nextModem |-> s.nextModem, nextVpn |-> s.nextVpn]
  BY <1>1 DEF Svc
<1>3. \A i : PathIn(s, i) = IF i = NoSim THEN NoPath ELSE S[i]
  BY <1>2 DEF PathIn
<1>4. Service(m, s)
  BY <1>2, <1>3 DEF Service
<1> QED BY <1>1, <1>4

\* What the client reads has its types.
LEMMA TypeFacts ==
  ASSUME TypeInv
  PROVE  N \in Nat /\ ReadsTyped(N)
<1>1. N \in Nat
  BY SimsFinite DEF TypeInv, Manager, N
<1>2. \A o \in Objects : Values(o, Read(o), N)
  <2> TAKE o \in Objects
  <2>1. CASE up
    BY <2>1, GetAllTyped DEF Read, TypeInv, N
  <2>2. CASE ~up
    BY <2>2, EmptyFacts DEF Read, Values
  <2> QED BY <2>1, <2>2
<1> QED BY <1>1, <1>2 DEF ReadsTyped

\* An announcement of what the service has keeps the types of the queue
\* and of the bus.
LEMMA AnnounceTyped ==
  ASSUME NEW m, NEW s, Manager(m), Service(m, s), NEW n \in Nat, n = Cardinality(m.sims),
         Pending(pend, n), Messages(bus, n), NEW o \in ObjectsOf(n), NEW names
  PROVE  /\ Announce(m, s, o, names) => Pending(pend', n) /\ Messages(bus', n)
         /\ \A replies : AnnounceNow(m, s, o, names, replies) /\ Answers(replies) =>
                Pending(pend', n) /\ Messages(bus', n)
<1>1. PICK q : q = Notify(pend, m, s, o, names)
  OBVIOUS
<1>2. Pending(q, n)
  BY <1>1, NotifyTyped
<1>3. ASSUME Announce(m, s, o, names)  PROVE Pending(pend', n) /\ Messages(bus', n)
  BY <1>1, <1>2, <1>3 DEF Announce
<1>4. ASSUME NEW replies, AnnounceNow(m, s, o, names, replies), Answers(replies)
      PROVE  Pending(pend', n) /\ Messages(bus', n)
  <2>1. bus' = bus \o Signals(q) \o replies /\ pend' = Empty
    BY <1>1, <1>4 DEF AnnounceNow
  <2>2. Messages(Signals(q), n) /\ Messages(replies, n)
    BY <1>2, <1>4, SignalsTyped, AnswersTyped
  <2>3. Messages(bus \o Signals(q), n)
    BY <2>2, MessagesConcat
  <2>4. Messages(bus \o Signals(q) \o replies, n)
    BY <2>2, <2>3, MessagesConcat
  <2> QED BY <2>1, <2>4, PendingEmpty
<1> QED BY <1>3, <1>4

\* No reply at all is a sequence of replies.
LEMMA NoAnswers == Answers(<<>>)
<1>1. PICK e : e = <<>>
  OBVIOUS
<1>2. e \in Seq({}) /\ DOMAIN e = {}
  BY <1>1
<1> QED BY <1>1, <1>2 DEF Answers, IsSeq, Elements

\* With the same SIMs and modems the service's objects keep their types.
LEMMA SameService ==
  ASSUME NEW m, NEW s, Service(m, s), NEW k, k.sims = m.sims, k.modems = m.modems
  PROVE  Service(k, s)
BY DEF Service

\* A flag that changes keeps the types;
LEMMA FlagTyped ==
  ASSUME TypeInv, up, NEW f \in Flags, NEW v \in BOOLEAN, SetFlag(f, v)
  PROVE  /\ Manager(mgr') /\ Service(mgr', svc') /\ svc' = svc /\ mgr'.sims = mgr.sims
         /\ Pending(pend', N) /\ Messages(bus', N)
<1>1. PICK F : F = [mgr.flags EXCEPT ![f] = v]
  OBVIOUS
<1>2. PICK m : m = mgr'
  OBVIOUS
<1>3. m = Mgr(F, mgr.sims, mgr.choice, mgr.modems, mgr.bits)
  BY <1>1, <1>2, FlagSet DEF SetFlag, TypeInv
<1>4. F \in [Flags -> BOOLEAN]
  BY <1>1 DEF TypeInv, Manager
<1>5. Manager(m)
  <2>1. Manager(mgr)
    BY DEF TypeInv
  <2> QED BY <1>3, <1>4, <2>1, MgrTyped, ManagerParts
<1>6. m.sims = mgr.sims /\ m.modems = mgr.modems
  BY <1>3, MgrFields
<1>7. Service(m, svc) /\ svc' = svc
  BY <1>6, SameService DEF TypeInv, SetFlag
<1>8. AnnouncedOn(f) \in ObjectsOf(N) /\ Status \in ObjectsOf(N)
  BY DEF AnnouncedOn, ObjectsOf
<1>9. \/ AnnounceNow(m, svc, Status, Announces(f), <<>>)
      \/ Announce(m, svc, AnnouncedOn(f), Announces(f))
  BY <1>2, <1>7 DEF SetFlag
<1>10. Pending(pend, N) /\ Messages(bus, N) /\ N \in Nat /\ N = Cardinality(m.sims)
  BY <1>6, TypeFacts DEF TypeInv, N
<1>11. Pending(pend', N) /\ Messages(bus', N)
  BY <1>5, <1>7, <1>8, <1>9, <1>10, AnnounceTyped, NoAnswers
<1> QED BY <1>2, <1>5, <1>6, <1>7, <1>11

\* A step that keeps the SIMs and the types of the parts keeps TypeInv.
LEMMA TypeKept ==
  ASSUME TypeInv, up, up', Manager(mgr'), Service(mgr', svc'), mgr'.sims = mgr.sims,
         IsFiniteSet(svc'.addQueue), Pending(pend', N), Messages(bus', N), Shows(cl', N)
  PROVE  TypeInv'
<1>1. N' = N
  BY DEF N
<1> QED BY <1>1 DEF TypeInv

\* so does a property of a SIM,
LEMMA BitTyped ==
  ASSUME TypeInv, up, NEW i \in mgr.sims, NEW p \in SimProperties, NEW v \in BOOLEAN,
         SetBit(i, p, v)
  PROVE  /\ Manager(mgr') /\ Service(mgr', svc') /\ svc' = svc /\ mgr'.sims = mgr.sims
         /\ Pending(pend', N) /\ Messages(bus', N)
<1>1. PICK B : B = [mgr.bits EXCEPT ![i][p] = v]
  OBVIOUS
<1>2. PICK m : m = mgr'
  OBVIOUS
<1>3. m = Mgr(mgr.flags, mgr.sims, mgr.choice, mgr.modems, B)
  <2>1. m = [mgr EXCEPT !.bits = B]
    BY <1>1, <1>2 DEF SetBit
  <2>2. mgr = [flags |-> mgr.flags, sims |-> mgr.sims, choice |-> mgr.choice,
               modems |-> mgr.modems, bits |-> mgr.bits]
    BY DEF TypeInv, Manager
  <2> QED BY <2>1, <2>2 DEF Mgr
<1>4. B \in [Iccids -> [SimProperties -> BOOLEAN]]
  <2>1. mgr.bits \in [Iccids -> [SimProperties -> BOOLEAN]] /\ i \in Iccids
    BY DEF TypeInv, Manager
  <2>2. PICK b : b = [mgr.bits[i] EXCEPT ![p] = v]
    OBVIOUS
  <2>3. b \in [SimProperties -> BOOLEAN]
    BY <2>1, <2>2
  <2>4. B = [mgr.bits EXCEPT ![i] = b]
    BY <1>1, <2>2
  <2> QED BY <2>1, <2>3, <2>4
<1>5. Manager(m)
  <2>1. Manager(mgr)
    BY DEF TypeInv
  <2> QED BY <1>3, <1>4, <2>1, MgrTyped, ManagerParts
<1>6. m.sims = mgr.sims /\ m.modems = mgr.modems
  BY <1>3, MgrFields
<1>7. Service(m, svc) /\ svc' = svc
  BY <1>6, SameService DEF TypeInv, SetBit
<1>8. SimObject(svc.sims[i]) \in ObjectsOf(N)
  <2>1. svc.sims[i] \in 1 .. N
    BY DEF TypeInv, Service, Paths, N
  <2> QED BY <2>1 DEF ObjectsOf
<1>9. Announce(m, svc, SimObject(svc.sims[i]), {p})
  BY <1>2, <1>7 DEF SetBit
<1>10. Pending(pend, N) /\ Messages(bus, N) /\ N \in Nat /\ N = Cardinality(m.sims)
  BY <1>6, TypeFacts DEF TypeInv, N
<1>11. Pending(pend', N) /\ Messages(bus', N)
  BY <1>5, <1>7, <1>8, <1>9, <1>10, AnnounceTyped
<1> QED BY <1>2, <1>5, <1>6, <1>7, <1>11

\* and the choice.
LEMMA ChoiceTyped ==
  ASSUME TypeInv, up, NEW i \in mgr.sims \cup {NoSim}, SetSimForMobileData(i)
  PROVE  /\ Manager(mgr') /\ Service(mgr', svc) /\ mgr'.sims = mgr.sims
         /\ Pending(pend', N) /\ Messages(bus', N)
<1>1. CASE mgr.choice = i
  BY <1>1 DEF SetSimForMobileData, TypeInv
<1>2. CASE mgr.choice # i
  <2>1. PICK m : m = mgr'
    OBVIOUS
  <2>2. Manager(mgr) /\ Service(mgr, svc)
    BY DEF TypeInv
  <2>3. m = Mgr(mgr.flags, mgr.sims, i, mgr.modems, mgr.bits)
    BY <1>2, <2>1, <2>2, ChoiceSet DEF SetSimForMobileData
  <2>4. Manager(m)
    BY <2>2, <2>3, MgrTyped, ManagerParts
  <2>5. m.sims = mgr.sims /\ m.modems = mgr.modems
    BY <2>3, MgrFields
  <2>6. Service(m, svc)
    BY <2>2, <2>5, SameService
  <2>7. Announce(m, svc, Private, {"SimForMobileData"}) /\ Private \in ObjectsOf(N)
    BY <1>2, <2>1 DEF SetSimForMobileData, ObjectsOf
  <2>8. Pending(pend, N) /\ Messages(bus, N) /\ N \in Nat /\ N = Cardinality(m.sims)
    BY <2>5, TypeFacts DEF TypeInv, N
  <2>9. Pending(pend', N) /\ Messages(bus', N)
    BY <2>4, <2>6, <2>7, <2>8, AnnounceTyped
  <2> QED BY <2>1, <2>4, <2>5, <2>6, <2>9
<1> QED BY <1>1, <1>2

\* The parts of Service, each by its own.
LEMMA ServiceParts ==
  ASSUME NEW m, NEW s, Service(m, s)
  PROVE  /\ s = Svc(s.sims, s.modems, s.vpns, s.addQueue, s.nextModem, s.nextVpn)
         /\ IsMap(s.sims) /\ DOMAIN s.sims = m.sims
         /\ Paths(s.sims) = 1 .. Cardinality(m.sims)
         /\ \A i, j \in m.sims : s.sims[i] = s.sims[j] => i = j
         /\ IsMap(s.modems) /\ DOMAIN s.modems = DOMAIN m.modems
         /\ \A x \in DOMAIN s.modems :
               /\ ModemAt(s.modems[x], PathIn(s, m.modems[x]))
               /\ s.modems[x].path \in 1 .. s.nextModem - 1
         /\ \A x, y \in DOMAIN s.modems : s.modems[x].path = s.modems[y].path => x = y
         /\ s.nextModem \in Nat \ {0}
BY DEF Service, Svc

\* VPN connections and waiting requests are no matter of Service.
LEMMA SameObjects ==
  ASSUME NEW m, NEW s, Service(m, s), NEW V, NEW A, NEW z
  PROVE  Service(m, Svc(s.sims, s.modems, V, A, s.nextModem, z))
<1>1. PICK t : t = Svc(s.sims, s.modems, V, A, s.nextModem, z)
  OBVIOUS
<1>2. /\ t.sims = s.sims /\ t.modems = s.modems /\ t.nextModem = s.nextModem
      /\ t = [sims |-> t.sims, modems |-> t.modems, vpns |-> t.vpns, addQueue |-> t.addQueue,
              nextModem |-> t.nextModem, nextVpn |-> t.nextVpn]
  BY <1>1 DEF Svc
<1>3. \A i : PathIn(t, i) = PathIn(s, i)
  BY <1>2 DEF PathIn
<1>4. Service(m, t)
  BY <1>2, <1>3 DEF Service
<1> QED BY <1>1, <1>4

\* Calls that are taken or made leave the client's lists and caches alone.
LEMMA CallingFacts ==
  ASSUME NEW c, NEW n, Client(c, n), NEW cs, IsSeq(cs), Calls(cs, n)
  PROVE  LET d == Calling(c, cs)
         IN  /\ Client(d, n) /\ (Shows(c, n) => Shows(d, n))
             /\ d.cache = c.cache /\ d.sims = c.sims /\ d.modems = c.modems /\ d.vpns = c.vpns
             /\ d.choice = c.choice /\ d.mine = c.mine /\ d.calls = cs /\ Shown(d) = Shown(c)
<1>1. PICK d : d = Calling(c, cs)
  OBVIOUS
<1>2. IsClient(c)
  BY DEF Client
<1>3. d = [cache |-> c.cache, sims |-> c.sims, modems |-> c.modems, vpns |-> c.vpns,
           choice |-> c.choice, mine |-> c.mine, calls |-> cs]
  BY <1>1, <1>2 DEF Calling, IsClient
<1>4. /\ d.cache = c.cache /\ d.sims = c.sims /\ d.modems = c.modems /\ d.vpns = c.vpns
      /\ d.choice = c.choice /\ d.mine = c.mine /\ d.calls = cs
      /\ IsClient(d)
  BY <1>3 DEF IsClient
<1>5. Client(d, n)
  BY <1>4 DEF Client
<1>6. ModemsShown(c) => ModemsShown(d)
  BY <1>4 DEF ModemsShown
<1>7. ListsShown(c) => ListsShown(d)
  BY <1>4 DEF ListsShown
<1>8. Shown(d) = Shown(c)
  BY <1>4 DEF Shown, Cached
<1> QED BY <1>1, <1>4, <1>5, <1>6, <1>7, <1>8 DEF Shows

\* The calls behind the first have their types.
LEMMA CallsTail ==
  ASSUME NEW cs, IsSeq(cs), NEW n, Calls(cs, n), cs # <<>>
  PROVE  IsSeq(Tail(cs)) /\ Calls(Tail(cs), n) /\ Request(Head(cs), n)
<1>1. PICK t : t = Tail(cs)
  OBVIOUS
<1>2. PICK h : h = Head(cs)
  OBVIOUS
<1>3. /\ IsSeq(t) /\ 1 \in DOMAIN cs /\ h = cs[1]
      /\ \A k \in DOMAIN t : k + 1 \in DOMAIN cs /\ t[k] = cs[k + 1]
  BY <1>1, <1>2, TailFacts
<1> QED BY <1>1, <1>2, <1>3 DEF Calls

\* The service has taken the client's next call.
LEMMA HandlesTyped ==
  ASSUME TypeInv, NEW method, Handles(method)
  PROVE  /\ up /\ up' = up /\ Shows(cl', N) /\ Request(Head(cl.calls), N)
         /\ Head(cl.calls).method = method
         /\ cl' = Calling(cl, Tail(cl.calls))
<1>1. /\ up /\ up' = up /\ cl.calls # <<>> /\ Head(cl.calls).method = method
      /\ cl' = Calling(cl, Tail(cl.calls))
  BY DEF Handles, Calling
<1>2. PICK cs : cs = cl.calls
  OBVIOUS
<1>3. Client(cl, N) /\ Shows(cl, N)
  BY DEF TypeInv, Shows
<1>4. IsSeq(cs) /\ Calls(cs, N)
  BY <1>2, <1>3 DEF Client
<1>5. IsSeq(Tail(cs)) /\ Calls(Tail(cs), N) /\ Request(Head(cs), N)
  BY <1>1, <1>2, <1>4, CallsTail
<1>6. PICK t : t = Tail(cs)
  OBVIOUS
<1>7. Shows(Calling(cl, t), N)
  BY <1>3, <1>5, <1>6, CallingFacts
<1> QED BY <1>1, <1>2, <1>5, <1>6, <1>7

\* The steps keep the types: a flag,
LEMMA ManagerChangesTyped ==
  ASSUME TypeInv, NEW f \in Flags, ManagerChanges(f)
  PROVE  TypeInv'
<1>1. up /\ up' /\ SetFlag(f, ~mgr.flags[f]) /\ cl' = cl
  BY DEF ManagerChanges, Happens
<1>2. mgr.flags[f] \in BOOLEAN
  BY DEF TypeInv, Manager
<1>3. PICK v \in BOOLEAN : v = ~mgr.flags[f]
  BY <1>2
<1>4. SetFlag(f, v)
  BY <1>1, <1>3
<1>5. Shows(cl', N) /\ IsFiniteSet(svc.addQueue)
  BY <1>1 DEF TypeInv
<1> QED BY <1>1, <1>4, <1>5, FlagTyped, TypeKept

\* a property of a SIM,
LEMMA SimChangesTyped ==
  ASSUME TypeInv, NEW i, NEW p \in SimProperties, SimChanges(i, p)
  PROVE  TypeInv'
<1>1. up /\ up' /\ SetBit(i, p, ~mgr.bits[i][p]) /\ cl' = cl /\ i \in mgr.sims
  BY DEF SimChanges, Happens
<1>2. mgr.bits[i][p] \in BOOLEAN
  BY <1>1 DEF TypeInv, Manager
<1>3. PICK v \in BOOLEAN : v = ~mgr.bits[i][p]
  BY <1>2
<1>4. SetBit(i, p, v)
  BY <1>1, <1>3
<1>5. Shows(cl', N) /\ IsFiniteSet(svc.addQueue)
  BY <1>1 DEF TypeInv
<1> QED BY <1>1, <1>4, <1>5, BitTyped, TypeKept

\* the manager's choice,
LEMMA ManagerChoosesTyped ==
  ASSUME TypeInv, NEW i \in mgr.sims \cup {NoSim}, ManagerChooses(i)
  PROVE  TypeInv'
<1>1. up /\ up' /\ SetSimForMobileData(i) /\ cl' = cl /\ svc' = svc
  BY DEF ManagerChooses, Happens
<1>2. Shows(cl', N) /\ IsFiniteSet(svc.addQueue)
  BY <1>1 DEF TypeInv
<1> QED BY <1>1, <1>2, ChoiceTyped, TypeKept

\* and the same on a client's call: a flag,
LEMMA HandleSetTyped ==
  ASSUME TypeInv, NEW taken \in BOOLEAN, HandleSet(taken)
  PROVE  TypeInv'
<1>1. PICK c : c = Head(cl.calls)
  OBVIOUS
<1>2. up /\ up' /\ Shows(cl', N) /\ Request(c, N) /\ c.method = "Set"
  BY <1>1, HandlesTyped DEF HandleSet
<1>3. c.flag \in Flags /\ c.value \in BOOLEAN /\ IsFiniteSet(svc.addQueue)
  BY <1>2 DEF Request, TypeInv
<1>4. CASE SetFlag(c.flag, c.value)
  BY <1>2, <1>3, <1>4, FlagTyped, TypeKept
<1>5. CASE UNCHANGED <<mgr, svc, pend, bus>>
  BY <1>2, <1>3, <1>5, TypeKept DEF TypeInv
<1> QED BY <1>1, <1>4, <1>5 DEF HandleSet

\* data roaming,
LEMMA HandleSetRoamingTyped ==
  ASSUME TypeInv, HandleSetRoaming
  PROVE  TypeInv'
<1>1. PICK c : c = Head(cl.calls)
  OBVIOUS
<1>2. up /\ up' /\ Shows(cl', N) /\ Request(c, N) /\ c.method = "SetRoaming"
  BY <1>1, HandlesTyped DEF HandleSetRoaming
<1>3. c.value \in BOOLEAN /\ IsFiniteSet(svc.addQueue)
  BY <1>2 DEF Request, TypeInv
<1>4. PICK is : is = {i \in DOMAIN svc.sims : svc.sims[i] = c.path}
  OBVIOUS
<1>5. is \subseteq mgr.sims
  BY <1>2, <1>4 DEF TypeInv, Service
<1>6. CASE \E i \in is : mgr.bits[i]["DataRoamingEnabled"] # c.value
  <2>1. PICK i : i = CHOOSE j \in is : TRUE
    OBVIOUS
  <2>2. SetBit(i, "DataRoamingEnabled", c.value)
    BY <1>1, <1>4, <1>6, <2>1 DEF HandleSetRoaming
  <2>3. i \in mgr.sims
    BY <1>5, <1>6, <2>1
  <2>4. "DataRoamingEnabled" \in SimProperties
    BY DEF SimProperties
  <2> QED BY <1>2, <1>3, <2>2, <2>3, <2>4, BitTyped, TypeKept
<1>7. CASE ~\E i \in is : mgr.bits[i]["DataRoamingEnabled"] # c.value
  <2>1. UNCHANGED <<mgr, svc, pend, bus>>
    BY <1>1, <1>4, <1>7 DEF HandleSetRoaming
  <2> QED BY <1>2, <1>3, <2>1, TypeKept DEF TypeInv
<1> QED BY <1>6, <1>7

\* the chosen SIM.
LEMMA HandleSetSimTyped ==
  ASSUME TypeInv, HandleSetSim
  PROVE  TypeInv'
<1>1. PICK p : p = Head(cl.calls).path
  OBVIOUS
<1>2. up /\ up' /\ Shows(cl', N) /\ svc' = svc
  BY HandlesTyped DEF HandleSetSim
<1>3. IsFiniteSet(svc.addQueue) /\ DOMAIN svc.sims = mgr.sims
  BY <1>2 DEF TypeInv, Service
<1>4. ASSUME NEW i \in mgr.sims \cup {NoSim}, SetSimForMobileData(i)  PROVE TypeInv'
  BY <1>2, <1>3, <1>4, ChoiceTyped, TypeKept
<1>5. CASE p = NoPath
  BY <1>1, <1>4, <1>5 DEF HandleSetSim
<1>6. CASE p # NoPath /\ p \in Paths(svc.sims)
  <2>1. PICK i : i = CHOOSE j \in DOMAIN svc.sims : svc.sims[j] = p
    OBVIOUS
  <2>2. i \in mgr.sims
    BY <1>3, <1>6, <2>1 DEF Paths
  <2> QED BY <1>1, <1>4, <1>6, <2>1, <2>2 DEF HandleSetSim
<1>7. CASE p # NoPath /\ p \notin Paths(svc.sims)
  <2>1. UNCHANGED <<mgr, pend, bus>>
    BY <1>1, <1>7 DEF HandleSetSim
  <2> QED BY <1>2, <1>3, <2>1, TypeKept DEF TypeInv
<1> QED BY <1>5, <1>6, <1>7

\* A step of the client, or of NetworkManager alone.
LEMMA SameServiceTyped ==
  ASSUME TypeInv, UNCHANGED <<up, mgr, svc, pend>>, Messages(bus', N), Shows(cl', N)
  PROVE  TypeInv'
<1>1. N' = N
  BY DEF N
<1> QED BY <1>1 DEF TypeInv

\* A reply more.
LEMMA OneAnswer ==
  ASSUME NEW id, NEW p, NEW b, NEW n, Messages(b, n)
  PROVE  Messages(Append(b, Reply(id, p)), n)
<1>1. PICK m : m = Reply(id, p)
  OBVIOUS
<1>2. m.type = "reply"
  BY <1>1 DEF Reply
<1>3. Append(b, m) = b \o <<m>> /\ Answers(<<m>>)
  BY <1>2, AppendElements DEF Messages, Answers
<1> QED BY <1>1, <1>3, AnswersTyped, MessagesConcat

\* AddVpnConnection() that is accepted keeps the types,
LEMMA HandleAddVpnTyped ==
  ASSUME TypeInv, NEW v, HandleAddVpn(v)
  PROVE  TypeInv'
<1>1. up /\ up' /\ Shows(cl', N) /\ UNCHANGED <<mgr, pend, bus>>
  BY HandlesTyped DEF HandleAddVpn
<1>2. Service(mgr, svc) /\ IsFiniteSet(svc.addQueue)
  BY <1>1 DEF TypeInv
<1>3. PICK A : A = svc.addQueue \cup {[id |-> Head(cl.calls).id, vpn |-> v]}
  OBVIOUS
<1>4. IsFiniteSet(A)
  BY <1>2, <1>3, FS_AddElement
<1>5. svc' = [svc EXCEPT !.addQueue = A]
  BY <1>3 DEF HandleAddVpn
<1>6. PICK t : t = Svc(svc.sims, svc.modems, svc.vpns, A, svc.nextModem, svc.nextVpn)
  OBVIOUS
<1>7. svc' = t
  BY <1>2, <1>5, <1>6, ServiceParts DEF Svc
<1>8. Service(mgr, t) /\ t.addQueue = A
  BY <1>2, <1>6, SameObjects, SvcFields
<1> QED BY <1>1, <1>4, <1>7, <1>8, TypeKept DEF TypeInv

\* so does one that is refused,
LEMMA HandleAddVpnRefusedTyped ==
  ASSUME TypeInv, HandleAddVpnRefused
  PROVE  TypeInv'
<1>1. up' = up /\ Shows(cl', N) /\ UNCHANGED <<mgr, pend, svc>>
  BY HandlesTyped DEF HandleAddVpnRefused
<1>2. PICK id : id = Head(cl.calls).id
  OBVIOUS
<1>3. bus' = Append(bus, Reply(id, NoPath))
  BY <1>2 DEF HandleAddVpnRefused
<1>4. Messages(bus', N)
  BY <1>3, OneAnswer DEF TypeInv
<1> QED BY <1>1, <1>4, SameServiceTyped

\* RemoveVpnConnection(),
LEMMA HandleRemoveVpnTyped ==
  ASSUME TypeInv, HandleRemoveVpn
  PROVE  TypeInv'
<1>1. up' = up /\ Shows(cl', N) /\ UNCHANGED <<mgr, pend, svc, bus>>
  BY HandlesTyped DEF HandleRemoveVpn
<1> QED BY <1>1, SameServiceTyped DEF TypeInv

\* connections that NetworkManager makes or deletes,
LEMMA ConnectionsTyped ==
  ASSUME TypeInv, NEW v, ConnectionCreated(v) \/ ConnectionDeleted(v)
  PROVE  TypeInv'
<1>1. UNCHANGED <<up, mgr, pend, svc, bus, cl>>
  BY DEF ConnectionCreated, ConnectionDeleted
<1> QED BY <1>1, SameServiceTyped DEF TypeInv

\* and a flush.
LEMMA FlushTyped ==
  ASSUME TypeInv, FlushPropertyChanges
  PROVE  TypeInv'
<1>1. /\ up /\ up' /\ UNCHANGED <<mgr, svc, cl>> /\ bus' = bus \o Signals(pend) /\ pend' = Empty
  BY DEF FlushPropertyChanges
<1>2. N \in Nat /\ Pending(pend, N) /\ Messages(bus, N)
  BY TypeFacts DEF TypeInv
<1>3. Messages(bus \o Signals(pend), N) /\ Pending(pend', N)
  BY <1>1, <1>2, SignalsTyped, MessagesConcat, PendingEmpty
<1> QED BY <1>1, <1>3, TypeKept DEF TypeInv

\* The service's list of VPN connections, or its queue of requests, has changed.
LEMMA VpnsTyped ==
  ASSUME TypeInv, up, UNCHANGED <<up, mgr, cl>>, NEW V, NEW A, IsFiniteSet(A), NEW z,
         svc' = Svc(svc.sims, svc.modems, V, A, svc.nextModem, z),
         NEW replies, Answers(replies),
         AnnounceNow(mgr, svc', Private, {"VpnConnections"}, replies)
  PROVE  TypeInv'
<1>1. Manager(mgr) /\ Service(mgr, svc) /\ Shows(cl', N) /\ up'
  BY DEF TypeInv
<1>2. PICK t : t = svc'
  OBVIOUS
<1>3. Service(mgr, t) /\ t.addQueue = A
  BY <1>1, <1>2, SameObjects, SvcFields
<1>4. Private \in ObjectsOf(N) /\ AnnounceNow(mgr, t, Private, {"VpnConnections"}, replies)
  BY <1>2 DEF ObjectsOf
<1>5. Pending(pend, N) /\ Messages(bus, N) /\ N \in Nat /\ N = Cardinality(mgr.sims)
  BY TypeFacts DEF TypeInv, N
<1>6. Pending(pend', N) /\ Messages(bus', N)
  BY <1>1, <1>3, <1>4, <1>5, AnnounceTyped
<1> QED BY <1>1, <1>2, <1>3, <1>6, TypeKept

\* What NewConnection does: the list is announced at once, with the
\* replies behind it that tell the new path.
LEMMA NewConnectionIs ==
  ASSUME TypeInv, NEW v, NewConnection(v)
  PROVE  \E A, replies :
             /\ IsFiniteSet(A) /\ Answers(replies)
             /\ svc' = Svc(svc.sims, svc.modems, With(svc.vpns, v, svc.nextVpn), A,
                           svc.nextModem, svc.nextVpn + 1)
             /\ AnnounceNow(mgr, svc', Private, {"VpnConnections"}, replies)
             /\ \A m \in Elements(replies) : m.type = "reply" /\ m.path = svc.nextVpn
<1>1. PICK waiting : waiting = {q \in svc.addQueue : q.vpn = v}
  OBVIOUS
<1>2. PICK A : A = svc.addQueue \ waiting
  OBVIOUS
<1>3. PICK V : V = With(svc.vpns, v, svc.nextVpn)
  OBVIOUS
<1>4. PICK R : R = {Reply(q.id, svc.nextVpn) : q \in waiting}
  OBVIOUS
<1>5. PICK replies : replies = SetToSeq(R)
  OBVIOUS
<1>6. up /\ Service(mgr, svc) /\ IsFiniteSet(svc.addQueue)
  BY DEF TypeInv, NewConnection
<1>7. PICK z : z = svc.nextVpn + 1
  OBVIOUS
<1>8. svc' = Svc(svc.sims, svc.modems, V, A, svc.nextModem, svc.nextVpn + 1)
  <2>1. svc' = [svc EXCEPT !.vpns = V, !.nextVpn = z, !.addQueue = A]
    BY <1>1, <1>2, <1>3, <1>7 DEF NewConnection
  <2>2. svc = [sims |-> svc.sims, modems |-> svc.modems, vpns |-> svc.vpns,
               addQueue |-> svc.addQueue, nextModem |-> svc.nextModem, nextVpn |-> svc.nextVpn]
    BY <1>6 DEF Service
  <2>3. svc' = Svc(svc.sims, svc.modems, V, A, svc.nextModem, z)
    BY <2>1, <2>2 DEF Svc
  <2> QED BY <1>7, <2>3
<1>9. IsFiniteSet(waiting) /\ IsFiniteSet(A)
  BY <1>1, <1>2, <1>6, FS_Subset
<1>10. IsFiniteSet(R)
  <2>1. PICK F : F = [q \in waiting |-> Reply(q.id, svc.nextVpn)]
    OBVIOUS
  <2>2. R = {F[q] : q \in waiting} /\ F \in Surjection(waiting, R)
    BY <1>4, <2>1 DEF Surjection
  <2> QED BY <1>9, <2>2, FS_Surjection
<1>11. IsSeq(replies) /\ Elements(replies) \subseteq R
  BY <1>5, <1>10, SetToSeqFacts
<1>12. \A m \in R : m.type = "reply" /\ m.path = svc.nextVpn
  BY <1>4 DEF Reply
<1>13. Answers(replies)
  BY <1>11, <1>12 DEF Answers
<1>14. AnnounceNow(mgr, svc', Private, {"VpnConnections"}, replies)
  BY <1>1, <1>4, <1>5 DEF NewConnection
<1> QED BY <1>3, <1>8, <1>9, <1>11, <1>12, <1>13, <1>14

\* It keeps the types.
LEMMA NewConnectionTyped ==
  ASSUME TypeInv, NEW v, NewConnection(v)
  PROVE  TypeInv'
<1>1. PICK V : V = With(svc.vpns, v, svc.nextVpn)
  OBVIOUS
<1>2. PICK A, replies :
          /\ IsFiniteSet(A) /\ Answers(replies)
          /\ svc' = Svc(svc.sims, svc.modems, V, A, svc.nextModem, svc.nextVpn + 1)
          /\ AnnounceNow(mgr, svc', Private, {"VpnConnections"}, replies)
  BY <1>1, NewConnectionIs
<1>3. up /\ UNCHANGED <<up, mgr, cl>>
  BY DEF NewConnection
<1> QED BY <1>2, <1>3, VpnsTyped

\* What ConnectionRemoved does.
LEMMA ConnectionRemovedIs ==
  ASSUME TypeInv, NEW v, ConnectionRemoved(v)
  PROVE  /\ up /\ up' = up /\ UNCHANGED <<mgr, cl>>
         /\ svc' = Svc(svc.sims, svc.modems, Only(svc.vpns, Vpns \ {v}), svc.addQueue,
                       svc.nextModem, svc.nextVpn)
         /\ AnnounceNow(mgr, svc', Private, {"VpnConnections"}, <<>>)
<1>1. PICK V : V = Only(svc.vpns, Vpns \ {v})
  OBVIOUS
<1>2. svc' = [svc EXCEPT !.vpns = V] /\ up
  BY <1>1 DEF ConnectionRemoved
<1>3. Service(mgr, svc)
  BY <1>2 DEF TypeInv
<1>4. svc' = Svc(svc.sims, svc.modems, V, svc.addQueue, svc.nextModem, svc.nextVpn)
  BY <1>2, <1>3, ServiceParts DEF Svc
<1> QED BY <1>1, <1>4 DEF ConnectionRemoved

\* It keeps the types.
LEMMA ConnectionRemovedTyped ==
  ASSUME TypeInv, NEW v, ConnectionRemoved(v)
  PROVE  TypeInv'
<1>1. PICK V : V = Only(svc.vpns, Vpns \ {v})
  OBVIOUS
<1>2. /\ up /\ UNCHANGED <<up, mgr, cl>>
      /\ svc' = Svc(svc.sims, svc.modems, V, svc.addQueue, svc.nextModem, svc.nextVpn)
      /\ AnnounceNow(mgr, svc', Private, {"VpnConnections"}, <<>>)
  BY <1>1, ConnectionRemovedIs
<1>3. IsFiniteSet(svc.addQueue)
  BY DEF TypeInv
<1> QED BY <1>2, <1>3, NoAnswers, VpnsTyped

\* The path a modem object shows is that of the SIM the modem holds.
LEMMA SimPathIs ==
  ASSUME Service(mgr, svc), NEW i \in mgr.sims \cup {NoSim}, NEW old
  PROVE  SimPath(i, old) = PathIn(svc, i)
BY DEF SimPath, PathIn, Service

\* It has the types if the modems have.
LEMMA ModemsTyped ==
  ASSUME NEW m, Manager(m), NEW M, IsMap(M), DOMAIN M \subseteq Serials,
         \A x \in DOMAIN M : M[x] \in m.sims \cup {NoSim}
  PROVE  /\ Manager(ModemsOf(m, M)) /\ ModemsOf(m, M).modems = M
         /\ ModemsOf(m, M).sims = m.sims /\ ModemsOf(m, M).choice = m.choice
<1>1. PICK t : t = ModemsOf(m, M)
  OBVIOUS
<1>2. Manager(Mgr(m.flags, m.sims, m.choice, M, m.bits))
  BY ManagerParts, MgrTyped
<1>3. t = Mgr(m.flags, m.sims, m.choice, M, m.bits)
  BY <1>1 DEF ModemsOf
<1>4. Manager(t)
  BY <1>2, <1>3
<1>5. t.modems = M /\ t.sims = m.sims /\ t.choice = m.choice
  BY <1>3 DEF Mgr
<1> QED BY <1>1, <1>4, <1>5

\* The modem objects of a service, when the manager's modems change.
LEMMA ModemsServed ==
  ASSUME NEW m, NEW s, Service(m, s), NEW K, IsMap(K), NEW next \in Nat \ {0},
         NEW M, IsMap(M), DOMAIN M = DOMAIN K,
         \A x \in DOMAIN M : ModemAt(M[x], PathIn(s, K[x])) /\ M[x].path \in 1 .. next - 1,
         \A x, y \in DOMAIN M : M[x].path = M[y].path => x = y
  PROVE  Service(ModemsOf(m, K), ModemsIn(s, M, next))
<1>1. PICK k : k = ModemsOf(m, K)
  OBVIOUS
<1>2. k.sims = m.sims /\ k.modems = K
  BY <1>1 DEF ModemsOf, Mgr
<1>3. \A x \in DOMAIN M :
          ModemAt(M[x], IF k.modems[x] = NoSim THEN NoPath ELSE s.sims[k.modems[x]])
  BY <1>2 DEF PathIn
<1>4. /\ IsMap(s.sims) /\ DOMAIN s.sims = k.sims /\ Paths(s.sims) = 1 .. Cardinality(k.sims)
      /\ \A i, j \in k.sims : s.sims[i] = s.sims[j] => i = j
  BY <1>2, ServiceParts
<1>5. Service(k, Svc(s.sims, M, s.vpns, s.addQueue, next, s.nextVpn))
  BY <1>2, <1>3, <1>4, SvcTyped
<1> QED BY <1>1, <1>5 DEF ModemsIn

\* What ModemReady does: a modem object with a new number that shows the
\* modem's SIM.
LEMMA ModemReadyIs ==
  ASSUME TypeInv, NEW x \in Serials, NEW i \in mgr.sims \cup {NoSim}, ModemReady(x, i)
  PROVE  LET d == [path |-> svc.nextModem, sim |-> PathIn(svc, i)]
         IN  /\ up /\ up' = up /\ cl' = cl /\ x \notin DOMAIN mgr.modems
             /\ mgr' = ModemsOf(mgr, With(mgr.modems, x, i))
             /\ svc' = ModemsIn(svc, With(svc.modems, x, d), svc.nextModem + 1)
             /\ Service(mgr', svc') /\ Manager(mgr')
             /\ AnnounceNow(mgr', svc', Private, {"Modems"}, <<>>)
<1>1. /\ up /\ up' = up /\ cl' = cl /\ x \notin DOMAIN mgr.modems
      /\ AnnounceNow(mgr', svc', Private, {"Modems"}, <<>>)
  BY DEF ModemReady, Happens
<1>2. Manager(mgr) /\ Service(mgr, svc)
  BY <1>1 DEF TypeInv
<1>3. PICK k : k = svc.nextModem
  OBVIOUS
<1>4. PICK d : d = [path |-> k, sim |-> PathIn(svc, i)]
  OBVIOUS
<1>5. PICK M : M = With(svc.modems, x, d)
  OBVIOUS
<1>6. PICK K : K = With(mgr.modems, x, i)
  OBVIOUS
<1>7. PICK z : z = k + 1
  OBVIOUS
<1>8. mgr' = ModemsOf(mgr, K)
  <2>1. mgr' = [mgr EXCEPT !.modems = K]
    BY <1>6 DEF ModemReady
  <2>2. mgr = [flags |-> mgr.flags, sims |-> mgr.sims, choice |-> mgr.choice,
               modems |-> mgr.modems, bits |-> mgr.bits]
    BY <1>2 DEF Manager
  <2> QED BY <2>1, <2>2 DEF ModemsOf, Mgr
<1>9. svc' = ModemsIn(svc, M, z)
  <2>1. SimPath(i, NoPath) = PathIn(svc, i)
    BY <1>2, SimPathIs
  <2>2. svc' = [svc EXCEPT !.modems = M, !.nextModem = z]
    BY <1>3, <1>4, <1>5, <1>7, <2>1 DEF ModemReady
  <2>3. svc = [sims |-> svc.sims, modems |-> svc.modems, vpns |-> svc.vpns,
               addQueue |-> svc.addQueue, nextModem |-> svc.nextModem, nextVpn |-> svc.nextVpn]
    BY <1>2 DEF Service
  <2> QED BY <2>2, <2>3 DEF ModemsIn, Svc
<1>10. /\ IsMap(svc.modems) /\ DOMAIN svc.modems = DOMAIN mgr.modems /\ k \in Nat \ {0}
       /\ \A y \in DOMAIN svc.modems : /\ ModemAt(svc.modems[y], PathIn(svc, mgr.modems[y]))
                                       /\ svc.modems[y].path \in 1 .. k - 1
       /\ \A y, w \in DOMAIN svc.modems : svc.modems[y].path = svc.modems[w].path => y = w
  BY <1>2, <1>3, ServiceParts
<1>11. /\ IsMap(M) /\ DOMAIN M = DOMAIN svc.modems \cup {x} /\ M[x] = d
       /\ \A y \in DOMAIN svc.modems : y # x => M[y] = svc.modems[y]
  BY <1>5 DEF With, IsMap
<1>12. /\ IsMap(K) /\ DOMAIN K = DOMAIN mgr.modems \cup {x} /\ K[x] = i
       /\ \A y \in DOMAIN mgr.modems : y # x => K[y] = mgr.modems[y]
  BY <1>6 DEF With, IsMap
<1>13. Manager(ModemsOf(mgr, K))
  <2>1. DOMAIN K \subseteq Serials /\ \A y \in DOMAIN K : K[y] \in mgr.sims \cup {NoSim}
    BY <1>2, <1>12, ManagerParts
  <2> QED BY <1>2, <1>12, <2>1, ModemsTyped
<1>14. z \in Nat \ {0} /\ 1 .. k - 1 \subseteq 1 .. z - 1 /\ k \in 1 .. z - 1 /\ k \notin 1 .. k - 1
  BY <1>7, <1>10
<1>15. d.path = k /\ ModemAt(d, PathIn(svc, i))
  BY <1>4 DEF ModemAt
<1>16. \A y \in DOMAIN M : ModemAt(M[y], PathIn(svc, K[y])) /\ M[y].path \in 1 .. z - 1
  <2> TAKE y \in DOMAIN M
  <2>1. CASE y = x
    BY <1>11, <1>12, <1>14, <1>15, <2>1
  <2>2. CASE y # x
    BY <1>10, <1>11, <1>12, <1>14, <2>2
  <2> QED BY <2>1, <2>2
<1>17. \A y, w \in DOMAIN M : M[y].path = M[w].path => y = w
  BY <1>10, <1>11, <1>14, <1>15
<1>18. Service(ModemsOf(mgr, K), ModemsIn(svc, M, z))
  BY <1>2, <1>10, <1>11, <1>12, <1>14, <1>16, <1>17, <1>1, ModemsServed
<1> QED BY <1>1, <1>3, <1>4, <1>5, <1>6, <1>7, <1>8, <1>9, <1>13, <1>18

\* The objects have changed while the manager keeps its SIMs.
LEMMA AnnouncedTyped ==
  ASSUME TypeInv, up, up' = up, Shows(cl', N), NEW m, Manager(m), mgr' = m, m.sims = mgr.sims,
         NEW s, svc' = s, Service(m, s), IsFiniteSet(s.addQueue),
         NEW o \in ObjectsOf(N), NEW names,
         Announce(m, s, o, names) \/ AnnounceNow(m, s, o, names, <<>>)
  PROVE  TypeInv'
<1>1. Pending(pend, N) /\ Messages(bus, N) /\ N \in Nat /\ N = Cardinality(m.sims)
  BY TypeFacts DEF TypeInv, N
<1>2. Pending(pend', N) /\ Messages(bus', N)
  BY <1>1, AnnounceTyped, NoAnswers
<1> QED BY <1>2, TypeKept

\* It keeps the types.
LEMMA ModemReadyTyped ==
  ASSUME TypeInv, NEW x \in Serials, NEW i \in mgr.sims \cup {NoSim}, ModemReady(x, i)
  PROVE  TypeInv'
<1>1. PICK d : d = [path |-> svc.nextModem, sim |-> PathIn(svc, i)]
  OBVIOUS
<1>2. PICK z : z = svc.nextModem + 1
  OBVIOUS
<1>3. /\ up /\ up' = up /\ cl' = cl
      /\ mgr' = ModemsOf(mgr, With(mgr.modems, x, i))
      /\ svc' = ModemsIn(svc, With(svc.modems, x, d), z)
      /\ Service(mgr', svc') /\ Manager(mgr')
      /\ AnnounceNow(mgr', svc', Private, {"Modems"}, <<>>)
  BY <1>1, <1>2, ModemReadyIs
<1>4. PICK m : m = mgr'
  OBVIOUS
<1>5. PICK s : s = svc'
  OBVIOUS
<1>6. m.sims = mgr.sims /\ s.addQueue = svc.addQueue
  BY <1>3, <1>4, <1>5, MgrFields, SvcFields DEF ModemsOf, ModemsIn
<1>7. Private \in ObjectsOf(N) /\ Shows(cl', N) /\ IsFiniteSet(svc.addQueue)
  BY <1>3 DEF ObjectsOf, TypeInv
<1> QED BY <1>3, <1>4, <1>5, <1>6, <1>7, AnnouncedTyped

\* What ModemRemoved does.
LEMMA ModemRemovedIs ==
  ASSUME TypeInv, NEW x, ModemRemoved(x)
  PROVE  /\ up /\ up' = up /\ cl' = cl /\ x \in DOMAIN mgr.modems
         /\ mgr' = ModemsOf(mgr, Only(mgr.modems, Serials \ {x}))
         /\ svc' = ModemsIn(svc, Only(svc.modems, Serials \ {x}), svc.nextModem)
         /\ Service(mgr', svc') /\ Manager(mgr')
         /\ AnnounceNow(mgr', svc', Private, {"Modems"}, <<>>)
<1>1. /\ up /\ up' = up /\ cl' = cl /\ x \in DOMAIN mgr.modems
      /\ AnnounceNow(mgr', svc', Private, {"Modems"}, <<>>)
  BY DEF ModemRemoved, Happens
<1>2. Manager(mgr) /\ Service(mgr, svc)
  BY <1>1 DEF TypeInv
<1>3. PICK S : S = Serials \ {x}
  OBVIOUS
<1>4. PICK M : M = Only(svc.modems, S)
  OBVIOUS
<1>5. PICK K : K = Only(mgr.modems, S)
  OBVIOUS
<1>6. PICK z : z = svc.nextModem
  OBVIOUS
<1>7. mgr' = ModemsOf(mgr, K)
  <2>1. mgr' = [mgr EXCEPT !.modems = K]
    BY <1>3, <1>5 DEF ModemRemoved
  <2>2. mgr = [flags |-> mgr.flags, sims |-> mgr.sims, choice |-> mgr.choice,
               modems |-> mgr.modems, bits |-> mgr.bits]
    BY <1>2 DEF Manager
  <2> QED BY <2>1, <2>2 DEF ModemsOf, Mgr
<1>8. svc' = ModemsIn(svc, M, z)
  <2>1. svc' = [svc EXCEPT !.modems = M]
    BY <1>3, <1>4 DEF ModemRemoved
  <2>2. svc = [sims |-> svc.sims, modems |-> svc.modems, vpns |-> svc.vpns,
               addQueue |-> svc.addQueue, nextModem |-> svc.nextModem, nextVpn |-> svc.nextVpn]
    BY <1>2 DEF Service
  <2> QED BY <1>6, <2>1, <2>2 DEF ModemsIn, Svc
<1>9. /\ DOMAIN svc.modems = DOMAIN mgr.modems /\ z \in Nat \ {0}
      /\ \A y \in DOMAIN svc.modems : /\ ModemAt(svc.modems[y], PathIn(svc, mgr.modems[y]))
                                      /\ svc.modems[y].path \in 1 .. z - 1
      /\ \A y, w \in DOMAIN svc.modems : svc.modems[y].path = svc.modems[w].path => y = w
  BY <1>2, <1>6, ServiceParts
<1>10. /\ IsMap(M) /\ DOMAIN M = DOMAIN svc.modems \cap S
       /\ \A y \in DOMAIN M : M[y] = svc.modems[y]
  BY <1>4 DEF Only, IsMap
<1>11. /\ IsMap(K) /\ DOMAIN K = DOMAIN mgr.modems \cap S
       /\ \A y \in DOMAIN K : K[y] = mgr.modems[y]
  BY <1>5 DEF Only, IsMap
<1>12. Manager(ModemsOf(mgr, K))
  <2>1. DOMAIN K \subseteq Serials /\ \A y \in DOMAIN K : K[y] \in mgr.sims \cup {NoSim}
    BY <1>2, <1>11, ManagerParts
  <2> QED BY <1>2, <1>11, <2>1, ModemsTyped
<1>13. Service(ModemsOf(mgr, K), ModemsIn(svc, M, z))
  <2>1. \A y \in DOMAIN M : ModemAt(M[y], PathIn(svc, K[y])) /\ M[y].path \in 1 .. z - 1
    BY <1>9, <1>10, <1>11
  <2>2. \A y, w \in DOMAIN M : M[y].path = M[w].path => y = w
    BY <1>9, <1>10
  <2> QED BY <1>2, <1>9, <1>10, <1>11, <2>1, <2>2, ModemsServed
<1> QED BY <1>1, <1>3, <1>4, <1>5, <1>6, <1>7, <1>8, <1>12, <1>13

\* It keeps the types.
LEMMA ModemRemovedTyped ==
  ASSUME TypeInv, NEW x, ModemRemoved(x)
  PROVE  TypeInv'
<1>1. PICK M : M = Only(svc.modems, Serials \ {x})
  OBVIOUS
<1>2. PICK K : K = Only(mgr.modems, Serials \ {x})
  OBVIOUS
<1>3. /\ up /\ up' = up /\ cl' = cl
      /\ mgr' = ModemsOf(mgr, K) /\ svc' = ModemsIn(svc, M, svc.nextModem)
      /\ Service(mgr', svc') /\ Manager(mgr')
      /\ AnnounceNow(mgr', svc', Private, {"Modems"}, <<>>)
  BY <1>1, <1>2, ModemRemovedIs
<1>4. PICK m : m = mgr'
  OBVIOUS
<1>5. PICK s : s = svc'
  OBVIOUS
<1>6. m.sims = mgr.sims /\ s.addQueue = svc.addQueue
  BY <1>3, <1>4, <1>5, MgrFields, SvcFields DEF ModemsOf, ModemsIn
<1>7. Private \in ObjectsOf(N) /\ Shows(cl', N) /\ IsFiniteSet(svc.addQueue)
  BY <1>3 DEF ObjectsOf, TypeInv
<1> QED BY <1>3, <1>4, <1>5, <1>6, <1>7, AnnouncedTyped

\* What ModemSimUpdated does: the modem's object shows the other SIM, and
\* says so unless it is the same.
LEMMA ModemSimUpdatedIs ==
  ASSUME TypeInv, NEW x, NEW i \in mgr.sims \cup {NoSim}, ModemSimUpdated(x, i)
  PROVE  LET k == svc.modems[x].path
             d == [path |-> k, sim |-> PathIn(svc, i)]
         IN  /\ up /\ up' = up /\ cl' = cl /\ x \in DOMAIN mgr.modems
             /\ mgr' = ModemsOf(mgr, Exchanged(mgr.modems, x, i))
             /\ svc' = ModemsIn(svc, Exchanged(svc.modems, x, d), svc.nextModem)
             /\ Service(mgr', svc') /\ Manager(mgr') /\ k \in Nat
             /\ \/ svc' = svc /\ UNCHANGED <<pend, bus>>
                \/ Announce(mgr', svc', ModemObject(k), {"Sim"})
<1>1. up /\ up' = up /\ cl' = cl /\ x \in DOMAIN mgr.modems
  BY DEF ModemSimUpdated, Happens
<1>2. Manager(mgr) /\ Service(mgr, svc)
  BY <1>1 DEF TypeInv
<1>3. PICK z : z = svc.nextModem
  OBVIOUS
<1>4. /\ IsMap(svc.modems) /\ DOMAIN svc.modems = DOMAIN mgr.modems /\ z \in Nat \ {0}
      /\ \A y \in DOMAIN svc.modems : /\ ModemAt(svc.modems[y], PathIn(svc, mgr.modems[y]))
                                      /\ svc.modems[y].path \in 1 .. z - 1
      /\ \A y, w \in DOMAIN svc.modems : svc.modems[y].path = svc.modems[w].path => y = w
  BY <1>2, <1>3, ServiceParts
<1>5. PICK old : old = svc.modems[x]
  OBVIOUS
<1>6. PICK k : k = old.path
  OBVIOUS
<1>7. PICK p : p = PathIn(svc, i)
  OBVIOUS
<1>8. PICK d : d = [path |-> k, sim |-> p]
  OBVIOUS
<1>9. PICK M : M = Exchanged(svc.modems, x, d)
  OBVIOUS
<1>10. PICK K : K = Exchanged(mgr.modems, x, i)
  OBVIOUS
<1>11. old = [path |-> k, sim |-> old.sim] /\ k \in 1 .. z - 1
  <2>1. ModemAt(old, PathIn(svc, mgr.modems[x])) /\ k \in 1 .. z - 1
    BY <1>1, <1>4, <1>5, <1>6
  <2> QED BY <1>6, <2>1 DEF ModemAt
<1>12. [old EXCEPT !.sim = p] = d
  BY <1>8, <1>11
<1>13. \A o : SimPath(i, o) = p
  BY <1>2, <1>7, SimPathIs
<1>14. mgr' = ModemsOf(mgr, K)
  <2>1. mgr' = [mgr EXCEPT !.modems = K]
    BY <1>10 DEF ModemSimUpdated, Exchanged
  <2>2. mgr = [flags |-> mgr.flags, sims |-> mgr.sims, choice |-> mgr.choice,
               modems |-> mgr.modems, bits |-> mgr.bits]
    BY <1>2 DEF Manager
  <2> QED BY <2>1, <2>2 DEF ModemsOf, Mgr
<1>15. svc' = [svc EXCEPT !.modems = M]
  <2>1. svc' = [svc EXCEPT !.modems[x].sim = p]
    BY <1>13 DEF ModemSimUpdated
  <2>2. svc' = [svc EXCEPT !.modems = [svc.modems EXCEPT ![x] = [svc.modems[x] EXCEPT !.sim = p]]]
    BY <2>1
  <2> QED BY <1>5, <1>9, <1>12, <2>2 DEF Exchanged
<1>16. svc' = ModemsIn(svc, M, z)
  <2>1. svc = [sims |-> svc.sims, modems |-> svc.modems, vpns |-> svc.vpns,
               addQueue |-> svc.addQueue, nextModem |-> svc.nextModem, nextVpn |-> svc.nextVpn]
    BY <1>2 DEF Service
  <2> QED BY <1>3, <1>15, <2>1 DEF ModemsIn, Svc
<1>17. /\ IsMap(M) /\ DOMAIN M = DOMAIN svc.modems /\ M[x] = d
       /\ \A y \in DOMAIN M : y # x => M[y] = svc.modems[y]
  BY <1>1, <1>4, <1>9 DEF Exchanged, IsMap
<1>18. IsMap(K) /\ DOMAIN K = DOMAIN mgr.modems /\ K[x] = i
       /\ \A y \in DOMAIN K : y # x => K[y] = mgr.modems[y]
  <2>1. IsMap(mgr.modems)
    BY <1>2, ManagerParts
  <2> QED BY <1>1, <1>10, <2>1 DEF Exchanged, IsMap
<1>19. Manager(ModemsOf(mgr, K))
  <2>1. DOMAIN K \subseteq Serials /\ \A y \in DOMAIN K : K[y] \in mgr.sims \cup {NoSim}
    BY <1>2, <1>18, ManagerParts
  <2> QED BY <1>2, <1>18, <2>1, ModemsTyped
<1>20. Service(ModemsOf(mgr, K), ModemsIn(svc, M, z))
  <2>1. d.path = k /\ ModemAt(d, PathIn(svc, i))
    BY <1>7, <1>8 DEF ModemAt
  <2>2. \A y \in DOMAIN M : ModemAt(M[y], PathIn(svc, K[y])) /\ M[y].path \in 1 .. z - 1
    BY <1>4, <1>11, <1>17, <1>18, <2>1
  <2>3. \A y, w \in DOMAIN M : M[y].path = M[w].path => y = w
    BY <1>1, <1>4, <1>5, <1>6, <1>17, <2>1
  <2> QED BY <1>2, <1>4, <1>17, <1>18, <2>2, <2>3, ModemsServed
<1>21. \/ svc' = svc /\ UNCHANGED <<pend, bus>>
       \/ Announce(mgr', svc', ModemObject(k), {"Sim"})
  <2>1. CASE old.sim = p
    <3>1. d = old
      BY <1>8, <1>11, <2>1
    <3>2. M = svc.modems
      <4>1. \A y \in DOMAIN M : M[y] = svc.modems[y]
        BY <1>5, <1>17, <3>1
      <4> QED BY <1>4, <1>17, <4>1, SameMap
    <3>3. svc' = svc
      BY <1>3, <1>16, <3>2, <1>2, ServiceParts DEF ModemsIn
    <3> QED BY <1>5, <1>13, <2>1, <3>3 DEF ModemSimUpdated
  <2>2. CASE old.sim # p
    BY <1>5, <1>6, <1>13, <2>2 DEF ModemSimUpdated
  <2> QED BY <2>1, <2>2
<1> QED BY <1>1, <1>3, <1>5, <1>6, <1>7, <1>8, <1>9, <1>10, <1>11, <1>14, <1>16, <1>19, <1>20, <1>21

\* It keeps the types.
LEMMA ModemSimUpdatedTyped ==
  ASSUME TypeInv, NEW x, NEW i \in mgr.sims \cup {NoSim}, ModemSimUpdated(x, i)
  PROVE  TypeInv'
<1>1. PICK k : k = svc.modems[x].path
  OBVIOUS
<1>2. PICK M : M = Exchanged(svc.modems, x, [path |-> k, sim |-> PathIn(svc, i)])
  OBVIOUS
<1>3. PICK K : K = Exchanged(mgr.modems, x, i)
  OBVIOUS
<1>4. /\ up /\ up' = up /\ cl' = cl
      /\ mgr' = ModemsOf(mgr, K) /\ svc' = ModemsIn(svc, M, svc.nextModem)
      /\ Service(mgr', svc') /\ Manager(mgr') /\ k \in Nat
      /\ \/ svc' = svc /\ UNCHANGED <<pend, bus>>
         \/ Announce(mgr', svc', ModemObject(k), {"Sim"})
  BY <1>1, <1>2, <1>3, ModemSimUpdatedIs
<1>5. PICK m : m = mgr'
  OBVIOUS
<1>6. PICK s : s = svc'
  OBVIOUS
<1>7. m.sims = mgr.sims /\ s.addQueue = svc.addQueue
  BY <1>4, <1>5, <1>6, MgrFields, SvcFields DEF ModemsOf, ModemsIn
<1>8. ModemObject(k) \in ObjectsOf(N) /\ Shows(cl', N) /\ IsFiniteSet(svc.addQueue)
  BY <1>4 DEF ObjectsOf, TypeInv
<1>9. CASE Announce(m, s, ModemObject(k), {"Sim"})
  BY <1>4, <1>5, <1>6, <1>7, <1>8, <1>9, AnnouncedTyped
<1>10. CASE svc' = svc /\ UNCHANGED <<pend, bus>>
  BY <1>4, <1>5, <1>6, <1>7, <1>8, <1>10, TypeKept DEF TypeInv
<1> QED BY <1>4, <1>5, <1>6, <1>9, <1>10

\* The types of the manager with one SIM more,
LEMMA WithSimTyped ==
  ASSUME NEW m, Manager(m), NEW i \in Iccids
  PROVE  /\ Manager(WithSim(m, i)) /\ WithSim(m, i).sims = m.sims \cup {i}
         /\ WithSim(m, i).choice = m.choice /\ WithSim(m, i).modems = m.modems
         /\ WithSim(m, i).flags = m.flags /\ WithSim(m, i).bits = m.bits
         /\ WithSim(m, i) = [m EXCEPT !.sims = m.sims \cup {i}]
<1>1. PICK S : S = m.sims \cup {i}
  OBVIOUS
<1>2. /\ m.flags \in [Flags -> BOOLEAN]
      /\ S \subseteq Iccids /\ m.choice \in S \cup {NoSim}
      /\ IsMap(m.modems) /\ DOMAIN m.modems \subseteq Serials
      /\ \A x \in DOMAIN m.modems : m.modems[x] \in S \cup {NoSim}
      /\ m.bits \in [Iccids -> [SimProperties -> BOOLEAN]]
  BY <1>1, ManagerParts
<1>3. PICK k : k = Mgr(m.flags, S, m.choice, m.modems, m.bits)
  OBVIOUS
<1>4. Manager(k)
  BY <1>2, <1>3, MgrTyped
<1>5. k = [m EXCEPT !.sims = S]
  BY <1>3, SimsSet
<1> QED BY <1>1, <1>3, <1>4, <1>5, MgrFields DEF WithSim

\* with another choice,
LEMMA ChoosingTyped ==
  ASSUME NEW m, Manager(m), NEW i \in m.sims \cup {NoSim}
  PROVE  /\ Manager(Choosing(m, i)) /\ Choosing(m, i).sims = m.sims
         /\ Choosing(m, i).choice = i /\ Choosing(m, i).modems = m.modems
         /\ Choosing(m, i).flags = m.flags /\ Choosing(m, i).bits = m.bits
         /\ Choosing(m, i) = [m EXCEPT !.choice = i]
<1>1. Manager(Choosing(m, i))
  BY ManagerParts, MgrTyped DEF Choosing
<1>2. [m EXCEPT !.choice = i] = Mgr(m.flags, m.sims, i, m.modems, m.bits)
  BY ChoiceSet
<1> QED BY <1>1, <1>2, MgrFields DEF Choosing

\* A SIM that is new has the next number.
LEMMA SimServed ==
  ASSUME NEW m, NEW s, Manager(m), Service(m, s), NEW i \in Iccids, i \notin m.sims,
         NEW k, k = Cardinality(m.sims) + 1
  PROVE  /\ Service(WithSim(m, i), SimIn(s, i, k))
         /\ \A j \in m.sims \cup {NoSim} : PathIn(SimIn(s, i, k), j) = PathIn(s, j)
         /\ PathIn(SimIn(s, i, k), i) = k
<1>1. PICK S : S = With(s.sims, i, k)
  OBVIOUS
<1>2. IsMap(S) /\ DOMAIN S = DOMAIN s.sims \cup {i} /\ S[i] = k
      /\ \A j \in DOMAIN s.sims : j # i => S[j] = s.sims[j]
  BY <1>1 DEF With, IsMap
<1>3. /\ IsMap(s.sims) /\ DOMAIN s.sims = m.sims
      /\ Paths(s.sims) = 1 .. Cardinality(m.sims)
      /\ \A a, b \in m.sims : s.sims[a] = s.sims[b] => a = b
      /\ IsMap(s.modems) /\ DOMAIN s.modems = DOMAIN m.modems
      /\ \A x \in DOMAIN s.modems :
            /\ ModemAt(s.modems[x], PathIn(s, m.modems[x]))
            /\ s.modems[x].path \in 1 .. s.nextModem - 1
      /\ \A x, y \in DOMAIN s.modems : s.modems[x].path = s.modems[y].path => x = y
      /\ s.nextModem \in Nat \ {0}
  BY ServiceParts
<1>4. PICK w : w = WithSim(m, i)
  OBVIOUS
<1>5. /\ w.sims = m.sims \cup {i} /\ w.modems = m.modems /\ m.sims \subseteq Iccids
      /\ \A x \in DOMAIN m.modems : m.modems[x] \in m.sims \cup {NoSim}
  BY <1>4, WithSimTyped, ManagerParts
<1>6. PICK n \in Nat : n = Cardinality(m.sims) /\ Cardinality(w.sims) = n + 1 /\ k = n + 1
  BY <1>5, SimsFinite
<1>7. Paths(S) = 1 .. Cardinality(w.sims)
  <2>1. \A p : p \in 1 .. n + 1 <=> (p \in 1 .. n \/ p = n + 1)
    BY <1>6
  <2>2. \A p : p \in Paths(S) <=> (p \in Paths(s.sims) \/ p = k)
    BY <1>2, <1>3 DEF Paths
  <2> QED BY <1>3, <1>6, <2>1, <2>2
<1>8. \A a, b \in w.sims : S[a] = S[b] => a = b
  <2>1. \A a \in m.sims : S[a] = s.sims[a] /\ S[a] # k
    <3>1. \A a \in m.sims : s.sims[a] \in 1 .. n
      BY <1>3, <1>6 DEF Paths
    <3>2. k \notin 1 .. n
      BY <1>6
    <3> QED BY <1>2, <1>3, <3>1, <3>2
  <2> QED BY <1>2, <1>3, <1>5, <2>1
<1>9. i # NoSim
  BY SimsAssumption
<1>10. \A j \in m.sims \cup {NoSim} : (IF j = NoSim THEN NoPath ELSE S[j]) = PathIn(s, j)
  BY <1>2, <1>3 DEF PathIn
<1>11. \A x \in DOMAIN s.modems :
           ModemAt(s.modems[x], IF w.modems[x] = NoSim THEN NoPath ELSE S[w.modems[x]])
  BY <1>3, <1>5, <1>10
<1>12. Service(w, Svc(S, s.modems, s.vpns, s.addQueue, s.nextModem, s.nextVpn))
  <2>1. PICK t : t = Svc(S, s.modems, s.vpns, s.addQueue, s.nextModem, s.nextVpn)
    OBVIOUS
  <2>2. /\ t.sims = S /\ t.modems = s.modems /\ t.nextModem = s.nextModem
        /\ t = [sims |-> t.sims, modems |-> t.modems, vpns |-> t.vpns, addQueue |-> t.addQueue,
                nextModem |-> t.nextModem, nextVpn |-> t.nextVpn]
    BY <2>1 DEF Svc
  <2>3. \A x \in DOMAIN t.modems : ModemAt(t.modems[x], PathIn(t, w.modems[x]))
    BY <1>11, <2>2 DEF PathIn
  <2>4. Service(w, t)
    BY <1>2, <1>3, <1>5, <1>7, <1>8, <2>2, <2>3 DEF Service
  <2> QED BY <2>1, <2>4
<1>13. \A j : PathIn(SimIn(s, i, k), j) = IF j = NoSim THEN NoPath ELSE S[j]
  BY <1>1, SvcFields DEF PathIn, SimIn
<1> QED BY <1>1, <1>2, <1>4, <1>9, <1>10, <1>12, <1>13 DEF SimIn

\* What SimAdded does: the list is announced at once, and the choice, if
\* it is this SIM, after it.
LEMMA SimAddedIs ==
  ASSUME TypeInv, NEW i \in Iccids, NEW chosen \in BOOLEAN, SimAdded(i, chosen)
  PROVE  LET m1 == WithSim(mgr, i)
             m2 == IF chosen THEN Choosing(m1, i) ELSE m1
             s == SimIn(svc, i, N + 1)
         IN  /\ up /\ up' = up /\ cl' = cl /\ i \notin mgr.sims
             /\ mgr' = m2 /\ svc' = s /\ N' = N + 1
             /\ Manager(m1) /\ Service(m1, s) /\ Manager(m2) /\ Service(m2, s)
             /\ bus' = bus \o Signals(Notify(pend, m1, s, Private, {"Sims"}))
             /\ pend' = IF chosen THEN Notify(Empty, m2, s, Private, {"SimForMobileData"})
                        ELSE Empty
<1>1. up /\ up' = up /\ cl' = cl /\ i \notin mgr.sims
  BY DEF SimAdded, Happens
<1>2. Manager(mgr) /\ Service(mgr, svc)
  BY <1>1 DEF TypeInv
<1>3. PICK m1 : m1 = WithSim(mgr, i)
  OBVIOUS
<1>4. /\ Manager(m1) /\ m1.sims = mgr.sims \cup {i} /\ m1.modems = mgr.modems
      /\ m1 = [mgr EXCEPT !.sims = mgr.sims \cup {i}]
  BY <1>2, <1>3, WithSimTyped
<1>5. PICK m2 : m2 = IF chosen THEN Choosing(m1, i) ELSE m1
  OBVIOUS
<1>6. /\ Manager(m2) /\ m2.sims = m1.sims /\ m2.modems = m1.modems
      /\ m2 = IF chosen THEN [m1 EXCEPT !.choice = i] ELSE m1
  <2>1. i \in m1.sims \cup {NoSim}
    BY <1>4
  <2>2. CASE chosen
    BY <1>4, <1>5, <2>1, <2>2, ChoosingTyped
  <2>3. CASE ~chosen
    BY <1>4, <1>5, <2>3
  <2> QED BY <2>2, <2>3
<1>7. PICK k : k = N + 1
  OBVIOUS
<1>8. PICK s : s = SimIn(svc, i, k)
  OBVIOUS
<1>9. Service(m1, s) /\ Service(m2, s)
  <2>1. Service(m1, s)
    BY <1>1, <1>2, <1>3, <1>7, <1>8, SimServed DEF N
  <2> QED BY <1>6, <2>1, SameService
<1>10. s = [svc EXCEPT !.sims = With(svc.sims, i, k)]
  <2>1. PICK S : S = With(svc.sims, i, k)
    OBVIOUS
  <2>2. svc = [sims |-> svc.sims, modems |-> svc.modems, vpns |-> svc.vpns,
               addQueue |-> svc.addQueue, nextModem |-> svc.nextModem, nextVpn |-> svc.nextVpn]
    BY <1>2 DEF Service
  <2>3. s = Svc(S, svc.modems, svc.vpns, svc.addQueue, svc.nextModem, svc.nextVpn)
    BY <1>8, <2>1 DEF SimIn
  <2>4. s = [svc EXCEPT !.sims = S]
    BY <2>2, <2>3 DEF Svc
  <2> QED BY <2>1, <2>4
<1>11. Cardinality(DOMAIN svc.sims) + 1 = k
  BY <1>2, <1>7, ServiceParts DEF N
<1>12. /\ mgr' = m2 /\ svc' = s
       /\ bus' = bus \o Signals(Notify(pend, m1, s, Private, {"Sims"}))
       /\ pend' = IF chosen THEN Notify(Empty, m2, s, Private, {"SimForMobileData"}) ELSE Empty
  BY <1>4, <1>6, <1>10, <1>11 DEF SimAdded
<1>13. N' = N + 1
  <2>1. mgr.sims \subseteq Iccids /\ mgr'.sims = mgr.sims \cup {i}
    BY <1>2, <1>4, <1>6, <1>12, ManagerParts
  <2> QED BY <1>1, <2>1, SimsFinite DEF N
<1> QED BY <1>1, <1>3, <1>4, <1>5, <1>6, <1>7, <1>8, <1>9, <1>12, <1>13

\* It keeps the types.
LEMMA SimAddedTyped ==
  ASSUME TypeInv, NEW i \in Iccids, NEW chosen \in BOOLEAN, SimAdded(i, chosen)
  PROVE  TypeInv'
<1>1. PICK m1 : m1 = WithSim(mgr, i)
  OBVIOUS
<1>2. PICK m2 : m2 = IF chosen THEN Choosing(m1, i) ELSE m1
  OBVIOUS
<1>3. PICK s : s = SimIn(svc, i, N + 1)
  OBVIOUS
<1>4. PICK q1 : q1 = Notify(pend, m1, s, Private, {"Sims"})
  OBVIOUS
<1>5. PICK q2 : q2 = Notify(Empty, m2, s, Private, {"SimForMobileData"})
  OBVIOUS
<1>6. /\ up /\ up' = up /\ cl' = cl
      /\ mgr' = m2 /\ svc' = s /\ N' = N + 1
      /\ Manager(m1) /\ Service(m1, s) /\ Manager(m2) /\ Service(m2, s)
      /\ bus' = bus \o Signals(q1) /\ pend' = IF chosen THEN q2 ELSE Empty
  BY <1>1, <1>2, <1>3, <1>4, <1>5, SimAddedIs
<1>7. PICK n : n = N'
  OBVIOUS
<1>8. N \in Nat /\ n \in Nat /\ N <= n
  BY <1>6, <1>7, TypeFacts
<1>9. n = Cardinality(m2.sims) /\ n = Cardinality(m1.sims)
  <2>1. m2.sims = m1.sims
    BY <1>2, MgrFields DEF Choosing
  <2> QED BY <1>6, <1>7, <2>1 DEF N
<1>10. Pending(pend, n) /\ Messages(bus, n) /\ Client(cl, n) /\ Private \in ObjectsOf(n)
  BY <1>8, TypesGrow DEF TypeInv, Shows, ObjectsOf
<1>11. Pending(q1, n) /\ Pending(q2, n) /\ Pending(Empty, n)
  BY <1>4, <1>5, <1>6, <1>8, <1>9, <1>10, NotifyTyped, PendingEmpty
<1>12. Messages(bus \o Signals(q1), n)
  BY <1>8, <1>10, <1>11, SignalsTyped, MessagesConcat
<1>13. Pending(pend', n) /\ Messages(bus', n)
  BY <1>6, <1>11, <1>12
<1>14. Shows(cl', n)
  BY <1>6, <1>10 DEF TypeInv, Shows
<1>15. IsFiniteSet(svc'.addQueue)
  <2>1. s.addQueue = svc.addQueue
    BY <1>3, SvcFields DEF SimIn
  <2> QED BY <1>6, <2>1 DEF TypeInv
<1> QED BY <1>6, <1>7, <1>13, <1>14, <1>15 DEF TypeInv

\* The replies for the calls that were not answered, and the news.
LEMMA CrashIs ==
  ASSUME TypeInv, Crash
  PROVE  /\ up /\ ~up' /\ pend' = Empty /\ svc' = Gone
         /\ mgr' = Mgr([mgr.flags EXCEPT !["unstoppable"] = FALSE], mgr.sims, mgr.choice, Empty,
                       mgr.bits)
         /\ Manager(mgr') /\ mgr'.sims = mgr.sims /\ mgr'.modems = Empty
         /\ cl' = Calling(cl, <<>>)
         /\ \E replies : /\ Answers(replies)
                         /\ \A m \in Elements(replies) : m.type = "reply" /\ m.path = NoPath
                         /\ bus' = bus \o replies \o <<[type |-> "lost"]>>
<1>1. up /\ ~up' /\ pend' = Empty /\ svc' = Gone /\ cl' = Calling(cl, <<>>)
  BY DEF Crash, Happens, Calling
<1>2. Manager(mgr) /\ Client(cl, N) /\ IsFiniteSet(svc.addQueue)
  BY DEF TypeInv, Shows
<1>3. PICK F : F = [mgr.flags EXCEPT !["unstoppable"] = FALSE]
  OBVIOUS
<1>4. F \in [Flags -> BOOLEAN]
  BY <1>2, <1>3, ManagerParts
<1>5. PICK m : m = Mgr(F, mgr.sims, mgr.choice, Empty, mgr.bits)
  OBVIOUS
<1>6. mgr' = m
  <2>1. mgr' = [mgr EXCEPT !.flags = F, !.modems = Empty]
    BY <1>3 DEF Crash
  <2>2. mgr = [flags |-> mgr.flags, sims |-> mgr.sims, choice |-> mgr.choice,
               modems |-> mgr.modems, bits |-> mgr.bits]
    BY <1>2 DEF Manager
  <2>3. PICK k : k = [mgr EXCEPT !.flags = F]
    OBVIOUS
  <2>4. k = [flags |-> F, sims |-> mgr.sims, choice |-> mgr.choice, modems |-> mgr.modems,
             bits |-> mgr.bits]
    BY <2>2, <2>3
  <2>5. mgr' = [k EXCEPT !.modems = Empty]
    BY <2>1, <2>3
  <2> QED BY <1>5, <2>4, <2>5 DEF Mgr
<1>7. Manager(m) /\ m.sims = mgr.sims /\ m.modems = Empty
  BY <1>2, <1>4, <1>5, EmptyFacts, ManagerParts, MgrTyped, MgrFields
<1>8. PICK ks : ks = {k \in DOMAIN cl.calls : cl.calls[k].method = "AddVpnConnection"}
  OBVIOUS
<1>9. IsFiniteSet(ks)
  <2>1. PICK len \in Nat : DOMAIN cl.calls = 1 .. len
    BY <1>2, SeqFacts DEF Client
  <2>2. IsFiniteSet(1 .. len)
    BY FS_Interval
  <2> QED BY <1>8, <2>1, <2>2, FS_Subset
<1>10. PICK R : R = {Reply(id, NoPath) : id \in Unanswered}
  OBVIOUS
<1>11. IsFiniteSet(R)
  <2>1. PICK cs : cs = {cl.calls[k] : k \in ks}
    OBVIOUS
  <2>2. IsFiniteSet(cs)
    <3>1. PICK g : g = [k \in ks |-> cl.calls[k]]
      OBVIOUS
    <3>2. g \in Surjection(ks, cs)
      BY <2>1, <3>1 DEF Surjection
    <3> QED BY <1>9, <3>2, FS_Surjection
  <2>3. PICK ids : ids = {c.id : c \in cs}
    OBVIOUS
  <2>4. IsFiniteSet(ids)
    <3>1. PICK g : g = [c \in cs |-> c.id]
      OBVIOUS
    <3>2. g \in Surjection(cs, ids)
      BY <2>3, <3>1 DEF Surjection
    <3> QED BY <2>2, <3>2, FS_Surjection
  <2>5. PICK qs : qs = {q.id : q \in svc.addQueue}
    OBVIOUS
  <2>6. IsFiniteSet(qs)
    <3>1. PICK g : g = [q \in svc.addQueue |-> q.id]
      OBVIOUS
    <3>2. g \in Surjection(svc.addQueue, qs)
      BY <2>5, <3>1 DEF Surjection
    <3> QED BY <1>2, <3>2, FS_Surjection
  <2>7. IsFiniteSet(ids \cup qs)
    BY <2>4, <2>6, FS_Union
  <2>8. Unanswered = ids \cup qs
    BY <1>8, <2>1, <2>3, <2>5 DEF Unanswered
  <2>9. PICK g : g = [id \in Unanswered |-> Reply(id, NoPath)]
    OBVIOUS
  <2>10. g \in Surjection(Unanswered, R)
    BY <1>10, <2>9 DEF Surjection
  <2> QED BY <2>7, <2>8, <2>10, FS_Surjection
<1>12. PICK replies : replies = SetToSeq(R)
  OBVIOUS
<1>13. IsSeq(replies) /\ Elements(replies) \subseteq R
  BY <1>11, <1>12, SetToSeqFacts
<1>14. \A e \in R : e.type = "reply" /\ e.path = NoPath
  BY <1>10 DEF Reply
<1>15. Answers(replies) /\ \A e \in Elements(replies) : e.type = "reply" /\ e.path = NoPath
  BY <1>13, <1>14 DEF Answers
<1>16. bus' = bus \o replies \o <<[type |-> "lost"]>>
  BY <1>10, <1>12 DEF Crash
<1> QED BY <1>1, <1>3, <1>5, <1>6, <1>7, <1>15, <1>16

\* The calls of a client are dropped.
LEMMA CallingNone ==
  ASSUME NEW c, NEW n, Client(c, n)
  PROVE  LET d == Calling(c, <<>>)
         IN  /\ Client(d, n) /\ (Shows(c, n) => Shows(d, n))
             /\ d.cache = c.cache /\ d.sims = c.sims /\ d.modems = c.modems /\ d.vpns = c.vpns
             /\ d.choice = c.choice /\ d.mine = c.mine /\ Shown(d) = Shown(c)
             /\ DOMAIN d.calls = {}
<1>1. PICK cs : cs = <<>>
  OBVIOUS
<1>2. cs \in Seq({}) /\ DOMAIN cs = {}
  BY <1>1
<1>3. IsSeq(cs) /\ Calls(cs, n)
  BY <1>2 DEF IsSeq, Calls
<1> QED BY <1>1, <1>2, <1>3, CallingFacts

\* The bus after a crash has its types.
LEMMA LostTyped ==
  ASSUME NEW b, NEW n, Messages(b, n), NEW replies, Answers(replies)
  PROVE  Messages(b \o replies \o <<[type |-> "lost"]>>, n)
<1>1. PICK m : m = [type |-> "lost"]
  OBVIOUS
<1>2. m.type = "lost" /\ IsSeq(b)
  BY <1>1 DEF Messages
<1>3. Answers(<<m>>)
  BY <1>2, AppendElements DEF Answers
<1> QED BY <1>1, <1>3, AnswersTyped, MessagesConcat

\* A crash keeps the types.
LEMMA CrashTyped ==
  ASSUME TypeInv, Crash
  PROVE  TypeInv'
<1>1. PICK replies : Answers(replies) /\ bus' = bus \o replies \o <<[type |-> "lost"]>>
  BY CrashIs
<1>2. Messages(bus', N)
  BY <1>1, LostTyped DEF TypeInv
<1>3. /\ up' = FALSE /\ pend' = Empty /\ svc' = Gone /\ Manager(mgr') /\ mgr'.sims = mgr.sims
      /\ mgr'.modems = Empty /\ cl' = Calling(cl, <<>>)
  BY CrashIs DEF Crash
<1>4. Shows(cl', N)
  BY <1>3, CallingNone DEF TypeInv, Shows
<1>5. N' = N /\ Pending(pend', N)
  BY <1>3, PendingEmpty DEF N
<1>6. IsFiniteSet(svc'.addQueue)
  BY <1>3, FS_EmptySet DEF Gone
<1> QED BY <1>2, <1>3, <1>4, <1>5, <1>6 DEF TypeInv

\* These are three messages: of Private, the status and the listed
\* objects.
LEMMA StartedFacts ==
  /\ IsSeq(Started) /\ Len(Started) = 3 /\ DOMAIN Started = 1 .. 3
  /\ Started[1] = Owner(Private) /\ Started[2] = Owner(Status) /\ Started[3] = Owner(Listed)
  /\ \A e \in Elements(Started) : e.type = "owner" /\ e.object \in {Private, Status, Listed}
<1>1. PICK a : a = Owner(Private)
  OBVIOUS
<1>2. PICK b : b = Owner(Status)
  OBVIOUS
<1>3. PICK c : c = Owner(Listed)
  OBVIOUS
<1>4. PICK s : s = <<a, b, c>>
  OBVIOUS
<1>5. s \in Seq({a, b, c}) /\ Len(s) = 3 /\ DOMAIN s = 1 .. 3 /\ s[1] = a /\ s[2] = b /\ s[3] = c
  BY <1>4
<1>6. /\ a.type = "owner" /\ a.object = Private /\ b.type = "owner" /\ b.object = Status
      /\ c.type = "owner" /\ c.object = Listed
  BY <1>1, <1>2, <1>3 DEF Owner
<1>7. \A e \in Elements(s) : e.type = "owner" /\ e.object \in {Private, Status, Listed}
  BY <1>5, <1>6 DEF Elements
<1> QED BY <1>1, <1>2, <1>3, <1>4, <1>5, <1>7 DEF IsSeq, Started

\* What Start does: every SIM and connection has a path again, and no
\* modem is there yet.
LEMMA StartIs ==
  ASSUME TypeInv, Start
  PROVE  /\ ~up /\ up' /\ UNCHANGED <<mgr, nm, pend, cl>> /\ pend = Empty
         /\ Service(mgr, svc') /\ svc'.addQueue = {} /\ svc'.nextModem = 1
         /\ DOMAIN svc'.modems = {}
         /\ bus' = bus \o Started
<1>1. ~up /\ up' /\ UNCHANGED <<mgr, nm, pend, cl>> /\ bus' = bus \o Started
  BY DEF Start, Started
<1>2. pend = Empty /\ mgr.modems = Empty /\ Manager(mgr)
  BY <1>1 DEF TypeInv
<1>3. PICK f \in Numberings(mgr.sims), g \in Numberings({v \in Vpns : nm[v] = "present"}) :
          svc' = [Gone EXCEPT !.sims = f, !.vpns = g, !.nextVpn = Cardinality(DOMAIN g) + 1]
  BY DEF Start
<1>4. PICK z : z = Cardinality(DOMAIN g) + 1
  OBVIOUS
<1>5. svc' = Svc(f, Empty, g, {}, 1, z)
  BY <1>3, <1>4 DEF Gone, Svc
<1>6. PICK n \in Nat : n = Cardinality(mgr.sims) /\ IsFiniteSet(mgr.sims)
  BY <1>2, ManagerParts, SimsFinite
<1>7. /\ f \in [mgr.sims -> 1 .. n] /\ \A a, b \in mgr.sims : f[a] = f[b] => a = b
  BY <1>6 DEF Numberings
<1>8. Paths(f) = 1 .. n
  <2>1. f \in Injection(mgr.sims, 1 .. n)
    BY <1>7 DEF Injection, IsInjective
  <2>2. IsFiniteSet(1 .. n) /\ Cardinality(1 .. n) = n
    BY FS_Interval
  <2>3. f \in Surjection(mgr.sims, 1 .. n)
    BY <1>6, <2>1, <2>2, FS_Injection
  <2> QED BY <1>7, <2>3 DEF Surjection, Paths
<1>9. IsMap(f) /\ DOMAIN f = mgr.sims
  BY <1>7 DEF IsMap
<1>10. IsMap(Empty) /\ DOMAIN Empty = {} /\ DOMAIN mgr.modems = {}
  BY <1>2, EmptyFacts
<1>11. Service(mgr, Svc(f, Empty, g, {}, 1, z))
  <2>1. PICK M : M = Empty
    OBVIOUS
  <2>2. IsMap(M) /\ DOMAIN M = DOMAIN mgr.modems /\ DOMAIN M = {}
    BY <1>10, <2>1
  <2>3. PICK next \in Nat \ {0} : next = 1
    OBVIOUS
  <2>4. Service(mgr, Svc(f, M, g, {}, next, z))
    BY <1>6, <1>7, <1>8, <1>9, <2>2, SvcTyped
  <2> QED BY <2>1, <2>3, <2>4
<1> QED BY <1>1, <1>2, <1>5, <1>10, <1>11, SvcFields

\* It keeps the types.
LEMMA StartTyped ==
  ASSUME TypeInv, Start
  PROVE  TypeInv'
<1>1. /\ ~up /\ up' = TRUE /\ UNCHANGED <<mgr, nm, pend, cl>> /\ pend = Empty
      /\ Service(mgr', svc') /\ svc'.addQueue = {}
      /\ bus' = bus \o Started
  BY StartIs DEF Start
<1>2. N' = N
  BY <1>1 DEF N
<1>3. Messages(Started, N)
  BY StartedFacts DEF Messages, Message
<1>4. Messages(bus', N)
  BY <1>1, <1>3, MessagesConcat DEF TypeInv
<1> QED BY <1>1, <1>2, <1>4, FS_EmptySet DEF TypeInv

\* What the client makes of the values in a signal.
LEMMA MessageTaken ==
  ASSUME TypeInv, NEW o \in DOMAIN cl.cache, NEW vs, Values(o, vs, N)
  PROVE  LET d == PropertiesChanged(cl, o, vs)
         IN  /\ Shows(d, N) /\ Kept(cl, d, o)
             /\ d.cache[o] = Over(vs, cl.cache[o])
             /\ o # Private => Alike(cl, d)
             /\ o = Private => TookPrivate(cl, d, vs, FALSE)
<1>1. Client(cl, N) /\ ModemsShown(cl) /\ ListsShown(cl) /\ N \in Nat /\ ReadsTyped(N)
  BY TypeFacts DEF TypeInv, Shows
<1>2. PICK d : d = PropertiesChanged(cl, o, vs)
  OBVIOUS
<1>3. CASE o = Private
  BY <1>1, <1>2, <1>3, PrivateMessage DEF Shows
<1>4. CASE \E q : o = ModemObject(q)
  <2>1. PICK q : o = ModemObject(q)
    BY <1>4
  <2>2. q \in DOMAIN cl.modems /\ o # Private
    BY <1>1, <2>1, ClientFacts, ObjectsDiffer
  <2>3. Client(d, N) /\ ModemsShown(d) /\ Kept(cl, d, o) /\ Alike(cl, d)
        /\ d.cache[o] = Over(vs, cl.cache[o])
    BY <1>1, <1>2, <2>1, <2>2, ModemMessage
  <2> QED BY <1>1, <1>2, <2>2, <2>3, AlikeFacts DEF Shows
<1>5. CASE o # Private /\ \A q : o # ModemObject(q)
  <2>1. Client(d, N) /\ ModemsShown(d) /\ Kept(cl, d, o) /\ Alike(cl, d)
        /\ d.cache[o] = Over(vs, cl.cache[o])
    BY <1>1, <1>2, <1>5, PlainMessage
  <2> QED BY <1>1, <1>2, <1>5, <2>1, AlikeFacts DEF Shows
<1> QED BY <1>3, <1>4, <1>5

\* A message is taken from the bus.
LEMMA ReceiveTyped ==
  ASSUME TypeInv, NEW type, Receive(type)
  PROVE  /\ bus # <<>> /\ bus' = Tail(bus) /\ Messages(bus', N) /\ Message(Head(bus), N)
         /\ Head(bus).type = type
BY MessagesTail DEF Receive, Receives, TypeInv

\* What a client does with the message it receives.
LEMMA PropertiesTyped ==
  ASSUME TypeInv, ClientPropertiesChanged
  PROVE  TypeInv'
<1>1. PICK m : m = Head(bus)
  OBVIOUS
<1>2. Messages(bus', N) /\ Message(m, N) /\ m.type = "changed"
  BY <1>1, ReceiveTyped DEF ClientPropertiesChanged
<1>3. Values(m.object, m.values, N)
  BY <1>2 DEF Message
<1>4. UNCHANGED <<up, mgr, svc, pend>>
      /\ cl' = IF m.object \in DOMAIN cl.cache THEN PropertiesChanged(cl, m.object, m.values) ELSE cl
  BY <1>1 DEF ClientPropertiesChanged, ClientKeeps
<1>5. Shows(cl', N)
  BY <1>3, <1>4, MessageTaken DEF TypeInv
<1> QED BY <1>2, <1>4, <1>5, SameServiceTyped

\* the loss of the service,
LEMMA ServiceLostTyped ==
  ASSUME TypeInv, ServiceLost
  PROVE  TypeInv'
<1>1. Messages(bus', N) /\ UNCHANGED <<up, mgr, svc, pend>> /\ cl' = NoneCached(cl)
  BY ReceiveTyped DEF ServiceLost, ClientKeeps
<1>2. Client(cl, N) /\ N \in Nat
  BY TypeFacts DEF TypeInv, Shows
<1>3. Shows(cl', N)
  BY <1>1, <1>2, NoneCachedFacts DEF Shows
<1> QED BY <1>1, <1>3, SameServiceTyped

\* What is read at the news of an owner.
LEMMA OwnerTaken ==
  ASSUME TypeInv
  PROVE  /\ Shows(Refreshed(cl, Private), N) /\ Shows(Refreshed(cl, Status), N)
         /\ Shows(ListedRefreshed(cl), N)
<1>1. Client(cl, N) /\ ModemsShown(cl) /\ ListsShown(cl) /\ N \in Nat /\ ReadsTyped(N)
  BY TypeFacts DEF TypeInv, Shows
<1>2. Shows(Refreshed(cl, Private), N)
  <2>1. PICK d : d = Refreshed(cl, Private)
    OBVIOUS
  <2>2. PICK vs : vs = Read(Private)
    OBVIOUS
  <2>3. /\ Client(d, N) /\ ModemsShown(d) /\ d.cache[Private] = vs
        /\ "Modems" \in DOMAIN vs => DOMAIN d.modems = vs["Modems"]
        /\ "Sims" \in DOMAIN vs => d.sims = vs["Sims"]
        /\ "VpnConnections" \in DOMAIN vs => d.vpns = vs["VpnConnections"]
    BY <1>1, <2>1, <2>2, PrivateRefreshed
  <2> QED BY <2>1, <2>3 DEF Shows, ListsShown
<1>3. Shows(Refreshed(cl, Status), N)
  <2>1. PICK d : d = Refreshed(cl, Status)
    OBVIOUS
  <2>2. Client(d, N) /\ ModemsShown(d) /\ Alike(cl, d)
    BY <1>1, <2>1, StatusRefreshed
  <2> QED BY <1>1, <2>1, <2>2, AlikeFacts DEF Shows
<1>4. Shows(ListedRefreshed(cl), N)
  <2>1. PICK d : d = ListedRefreshed(cl)
    OBVIOUS
  <2>2. Client(d, N) /\ ModemsShown(d) /\ Alike(cl, d)
    BY <1>1, <2>1, ListedFacts
  <2> QED BY <1>1, <2>1, <2>2, AlikeFacts DEF Shows
<1> QED BY <1>2, <1>3, <1>4

\* a new owner of the bus name,
LEMMA OwnerChangedTyped ==
  ASSUME TypeInv, ServiceOwnerChanged
  PROVE  TypeInv'
<1>1. PICK m : m = Head(bus)
  OBVIOUS
<1>2. Messages(bus', N) /\ Message(m, N) /\ m.type = "owner"
  BY <1>1, ReceiveTyped DEF ServiceOwnerChanged
<1>3. m.object \in {Private, Status, Listed}
  BY <1>2 DEF Message
<1>4. UNCHANGED <<up, mgr, svc, pend>>
      /\ cl' = IF m.object = Listed THEN ListedRefreshed(cl) ELSE Refreshed(cl, m.object)
  BY <1>1 DEF ServiceOwnerChanged, ClientKeeps
<1>5. Shows(cl', N)
  BY <1>3, <1>4, OwnerTaken
<1> QED BY <1>2, <1>4, <1>5, SameServiceTyped

\* and a reply.
LEMMA FinishedTyped ==
  ASSUME TypeInv, AddConnectionFinished
  PROVE  TypeInv'
<1>1. Messages(bus', N) /\ UNCHANGED <<up, mgr, svc, pend, cl>>
  BY ReceiveTyped DEF AddConnectionFinished, ClientKeeps
<1> QED BY <1>1, SameServiceTyped DEF TypeInv

\* A call leaves the client's lists and caches alone.
LEMMA CallFacts ==
  ASSUME NEW c, NEW n, Shows(c, n), NEW e, Request(e, n)
  PROVE  LET d == Call(c, e)
         IN  /\ Shows(d, n)
             /\ d.cache = c.cache /\ d.sims = c.sims /\ d.modems = c.modems /\ d.vpns = c.vpns
             /\ d.choice = c.choice /\ d.mine = c.mine /\ Shown(d) = Shown(c)
             /\ d.calls = Append(c.calls, e) \/ (d.calls = c.calls /\ ~up)
<1>1. PICK d : d = Call(c, e)
  OBVIOUS
<1>2. CASE ~up
  BY <1>1, <1>2 DEF Call
<1>3. CASE up
  <2>1. PICK cs : cs = Append(c.calls, e)
    OBVIOUS
  <2>2. IsSeq(cs) /\ Calls(cs, n) /\ Client(c, n)
    BY <2>1, CallsAppend DEF Shows, Client
  <2>3. d = Calling(c, cs)
    BY <1>1, <1>3, <2>1 DEF Call, Calling
  <2> QED
    <3>1. /\ Shows(d, n) /\ d.cache = c.cache /\ d.sims = c.sims /\ d.modems = c.modems
          /\ d.vpns = c.vpns /\ d.choice = c.choice /\ d.mine = c.mine /\ Shown(d) = Shown(c)
          /\ d.calls = cs
      BY <2>2, <2>3, CallingFacts
    <3> QED BY <1>1, <2>1, <3>1
<1> QED BY <1>2, <1>3

\* The choice of the client's user.
LEMMA UserChooses ==
  ASSUME NEW c, NEW n, Client(c, n), NEW p, NEW mine
  PROVE  Chosen(c, [ChooseSim(c, p, "user") EXCEPT !.mine = mine], p, "user", mine)
<1>1. PICK e : e = ChooseSim(c, p, "user")
  OBVIOUS
<1>2. Chosen(c, e, p, "user", c.mine)
  BY <1>1, ChooseFacts
<1>3. PICK d : d = [e EXCEPT !.mine = mine]
  OBVIOUS
<1>4. e = [cache |-> c.cache, sims |-> c.sims, modems |-> c.modems, vpns |-> c.vpns,
           choice |-> p, mine |-> c.mine, calls |-> e.calls]
  BY <1>2 DEF Chosen
<1>5. d = [cache |-> c.cache, sims |-> c.sims, modems |-> c.modems, vpns |-> c.vpns,
           choice |-> p, mine |-> mine, calls |-> e.calls]
  BY <1>3, <1>4
<1>6. d.calls = e.calls
  BY <1>5
<1>7. Chosen(c, d, p, "user", mine)
  BY <1>2, <1>5, <1>6 DEF Chosen
<1> QED BY <1>1, <1>3, <1>7

\* What UserSetsSim does.
LEMMA UserSetsSimIs ==
  ASSUME TypeInv, NEW p \in cl.sims \cup {NoPath}, UserSetsSim(p)
  PROVE  /\ UNCHANGED <<up, mgr, nm, svc, pend, bus, hist>>
         /\ Chosen(cl, cl', p, "user", cl.mine \/ p # cl.choice)
         /\ Shows(cl', N) /\ p \in 0 .. N
         /\ cl'.cache = cl.cache /\ cl'.sims = cl.sims /\ cl'.modems = cl.modems
         /\ cl'.vpns = cl.vpns /\ cl'.choice = p /\ Shown(cl') = Shown(cl)
         /\ cl'.mine = (cl.mine \/ p # cl.choice)
<1>1. Client(cl, N) /\ ModemsShown(cl) /\ ListsShown(cl) /\ N \in Nat
  BY TypeFacts DEF TypeInv, Shows
<1>2. ChooseSim(cl, p, "user").mine = cl.mine
  <2>1. PICK e : e = ChooseSim(cl, p, "user")
    OBVIOUS
  <2>2. Chosen(cl, e, p, "user", cl.mine)
    BY <1>1, <2>1, ChooseFacts
  <2> QED BY <2>1, <2>2 DEF Chosen
<1>3. PICK mine \in BOOLEAN : mine = (cl.mine \/ p # cl.choice)
  OBVIOUS
<1>4. PICK d : d = [ChooseSim(cl, p, "user") EXCEPT !.mine = mine]
  OBVIOUS
<1>5. Chosen(cl, d, p, "user", mine)
  BY <1>1, <1>4, UserChooses
<1>6. p \in 0 .. N
  BY <1>1, ClientFacts DEF NoPath
<1>7. /\ Client(d, N) /\ ModemsShown(d)
      /\ d.cache = cl.cache /\ d.sims = cl.sims /\ d.modems = cl.modems /\ d.vpns = cl.vpns
      /\ d.choice = p /\ d.mine = mine /\ Shown(d) = Shown(cl)
  BY <1>1, <1>5, <1>6, ChosenClient
<1>8. ListsShown(d)
  BY <1>1, <1>7 DEF ListsShown
<1>9. cl' = d
  BY <1>2, <1>3, <1>4 DEF UserSetsSim
<1>10. UNCHANGED <<up, mgr, nm, svc, pend, bus, hist>>
  BY DEF UserSetsSim, UserKeeps
<1> QED BY <1>3, <1>5, <1>6, <1>7, <1>8, <1>9, <1>10 DEF Shows

\* All other actions of the user are such calls,
LEMMA UserCallsIs ==
  ASSUME TypeInv,
         \/ \E f \in Varied \ {"unstoppable", "status", "characteristics"}, v \in BOOLEAN :
               UserSetsFlag(f, v)
         \/ \E p \in cl.sims, v \in BOOLEAN : UserSetsRoaming(p, v)
         \/ UserAddsVpn
         \/ \E p \in cl.vpns : UserRemovesVpn(p)
  PROVE  \E e : UserCalls(e)
<1>1. ASSUME NEW f \in Varied, NEW v \in BOOLEAN, UserSetsFlag(f, v)  PROVE \E e : UserCalls(e)
  <2>1. PICK e : e = [method |-> "Set", flag |-> f, value |-> v]
    OBVIOUS
  <2>2. Request(e, N) /\ e.method # "setSimForMobileData"
    BY <2>1, VariedAssumption DEF Request
  <2>3. UserCalls(e)
    BY <1>1, <2>1, <2>2 DEF UserSetsFlag, UserKeeps, UserCalls
  <2> QED BY <2>3
<1>2. ASSUME NEW p, NEW v \in BOOLEAN, UserSetsRoaming(p, v)  PROVE \E e : UserCalls(e)
  <2>1. PICK e : e = [method |-> "SetRoaming", path |-> p, value |-> v]
    OBVIOUS
  <2>2. Request(e, N) /\ e.method # "setSimForMobileData"
    BY <2>1 DEF Request
  <2>3. cl' \in {cl, Call(cl, e)}
    BY <1>2, <2>1 DEF UserSetsRoaming
  <2>4. UserCalls(e)
    BY <1>2, <2>2, <2>3 DEF UserSetsRoaming, UserKeeps, UserCalls
  <2> QED BY <2>4
<1>3. ASSUME UserAddsVpn  PROVE \E e : UserCalls(e)
  <2>1. PICK e : e = [method |-> "AddVpnConnection", id |-> steps']
    OBVIOUS
  <2>2. Request(e, N) /\ e.method # "setSimForMobileData"
    BY <2>1 DEF Request
  <2>3. bus' = bus \/ (~up /\ \E id : bus' = Append(bus, Reply(id, NoPath)))
    BY <1>3 DEF UserAddsVpn
  <2>4. UserCalls(e)
    BY <1>3, <2>1, <2>2, <2>3 DEF UserAddsVpn, UserKeeps, UserCalls
  <2> QED BY <2>4
<1>4. ASSUME NEW p, UserRemovesVpn(p)  PROVE \E e : UserCalls(e)
  <2>1. PICK e : e = [method |-> "RemoveVpnConnection", path |-> p]
    OBVIOUS
  <2>2. Request(e, N) /\ e.method # "setSimForMobileData"
    BY <2>1 DEF Request
  <2>3. UserCalls(e)
    BY <1>4, <2>1, <2>2 DEF UserRemovesVpn, UserKeeps, UserCalls
  <2> QED BY <2>3
<1> QED BY <1>1, <1>2, <1>3, <1>4

\* which keep the types and the client's lists and caches.
LEMMA UserCallsTyped ==
  ASSUME TypeInv, NEW e, UserCalls(e)
  PROVE  /\ TypeInv' /\ Shown(cl') = Shown(cl) /\ cl'.choice = cl.choice /\ cl'.mine = cl.mine
         /\ cl'.cache = cl.cache /\ cl'.sims = cl.sims /\ cl'.modems = cl.modems
         /\ cl'.vpns = cl.vpns
         /\ cl'.calls \in {cl.calls, Append(cl.calls, e)}
<1>1. Shows(cl, N) /\ Request(e, N) /\ cl' \in {cl, Call(cl, e)}
  BY DEF TypeInv, UserCalls
<1>2. /\ Shows(cl', N) /\ Shown(cl') = Shown(cl) /\ cl'.choice = cl.choice /\ cl'.mine = cl.mine
      /\ cl'.cache = cl.cache /\ cl'.sims = cl.sims /\ cl'.modems = cl.modems
      /\ cl'.vpns = cl.vpns /\ cl'.calls \in {cl.calls, Append(cl.calls, e)}
  BY <1>1, CallFacts
<1>3. Messages(bus', N)
  BY OneAnswer DEF UserCalls, TypeInv
<1>4. UNCHANGED <<up, mgr, svc, pend>>
  BY DEF UserCalls
<1> QED BY <1>2, <1>3, <1>4, SameServiceTyped

\* So does a choice.
LEMMA UserSetsSimTyped ==
  ASSUME TypeInv, NEW p \in cl.sims \cup {NoPath}, UserSetsSim(p)
  PROVE  TypeInv'
<1>1. UNCHANGED <<up, mgr, svc, pend, bus>> /\ Shows(cl', N)
  BY UserSetsSimIs
<1> QED BY <1>1, SameServiceTyped DEF TypeInv

\* The client starts with its types,
LEMMA Client0Facts ==
  ASSUME NEW n \in Nat
  PROVE  Shows(Client0, n)
<1>1. PICK c : c = Client0
  OBVIOUS
<1>2. PICK no : no = <<>>
  OBVIOUS
<1>3. no \in Seq({}) /\ DOMAIN no = {}
  BY <1>2
<1>4. PICK e : e = [o \in {Private, Status} |-> Empty]
  OBVIOUS
<1>5. IsMap(e) /\ DOMAIN e = {Private, Status} /\ e[Private] = Empty /\ e[Status] = Empty
  BY <1>4 DEF IsMap
<1>6. PICK mine \in BOOLEAN : mine = FALSE
  OBVIOUS
<1>7. c = [cache |-> e, sims |-> {}, modems |-> Empty, vpns |-> {}, choice |-> NoPath,
           mine |-> mine, calls |-> no]
  BY <1>1, <1>2, <1>4, <1>6 DEF Client0
<1>8. /\ c.cache = e /\ c.sims = {} /\ c.modems = Empty /\ c.vpns = {} /\ c.choice = 0
      /\ c.mine = mine /\ c.calls = no
      /\ IsClient(c)
  BY <1>7 DEF NoPath, IsClient
<1>9. {} = 1 .. 0 /\ 0 \in 0 .. n
  OBVIOUS
<1>10. IsMap(Empty) /\ DOMAIN Empty = {}
  BY EmptyFacts
<1>11. \A o : Values(o, Empty, n)
  BY <1>10 DEF Values
<1>12. DOMAIN c.cache = ClientObjects(DOMAIN c.modems, c.sims)
  BY <1>5, <1>8, <1>10 DEF ClientObjects
<1>13. IsSeq(c.calls) /\ Calls(c.calls, n)
  BY <1>3, <1>8 DEF IsSeq, Calls
<1>14. \A o \in DOMAIN c.cache : Values(o, c.cache[o], n)
  BY <1>5, <1>8, <1>11
<1>15. Client(c, n)
  BY <1>5, <1>8, <1>9, <1>10, <1>12, <1>13, <1>14 DEF Client
<1>16. ModemsShown(c) /\ ListsShown(c)
  BY <1>5, <1>8, <1>10 DEF ModemsShown, ListsShown
<1> QED BY <1>1, <1>15, <1>16 DEF Shows

\* and so does everything.
LEMMA InitTyped == Init => TypeInv
<1> SUFFICES ASSUME Init  PROVE TypeInv
  OBVIOUS
<1>1. PICK F : F = [f \in Flags |-> FALSE]
  OBVIOUS
<1>2. PICK B : B = [i \in Iccids |-> [p \in SimProperties |-> FALSE]]
  OBVIOUS
<1>3. PICK C \in Known \cup {NoSim} : mgr = Mgr(F, Known, C, Empty, B)
  BY <1>1, <1>2 DEF Init, Mgr
<1>4. F \in [Flags -> BOOLEAN] /\ B \in [Iccids -> [SimProperties -> BOOLEAN]]
  BY <1>1, <1>2
<1>5. Manager(mgr) /\ mgr.modems = Empty
  BY <1>3, <1>4, EmptyFacts, SimsAssumption, MgrTyped, MgrFields
<1>6. up = FALSE /\ svc = Gone /\ pend = Empty /\ bus = <<>> /\ cl = Client0
  BY DEF Init
<1>7. N \in Nat
  BY <1>5, ManagerParts, SimsFinite DEF N
<1>8. Messages(bus, N)
  BY <1>6, NoAnswers, AnswersTyped
<1>9. IsFiniteSet(svc.addQueue)
  BY <1>6, FS_EmptySet DEF Gone
<1> QED BY <1>5, <1>6, <1>7, <1>8, <1>9, Client0Facts, PendingEmpty DEF TypeInv

\* Every step keeps the types: the manager's,
LEMMA ManagesTyped ==
  ASSUME TypeInv, Manages
  PROVE  TypeInv'
<1>1. ASSUME NEW f \in Varied, ManagerChanges(f)  PROVE TypeInv'
  BY <1>1, ManagerChangesTyped, VariedAssumption
<1>2. ASSUME NEW i \in Iccids, NEW p \in SimVaried, SimChanges(i, p)  PROVE TypeInv'
  BY <1>2, SimChangesTyped, VariedAssumption
<1>3. ASSUME NEW i \in Iccids, NEW b \in BOOLEAN, SimAdded(i, b)  PROVE TypeInv'
  BY <1>3, SimAddedTyped
<1>4. ASSUME NEW i \in mgr.sims \cup {NoSim}, ManagerChooses(i)  PROVE TypeInv'
  BY <1>4, ManagerChoosesTyped
<1>5. ASSUME NEW x \in Serials, NEW i \in mgr.sims \cup {NoSim},
             ModemReady(x, i) \/ ModemSimUpdated(x, i)
      PROVE  TypeInv'
  BY <1>5, ModemReadyTyped, ModemSimUpdatedTyped
<1>6. ASSUME NEW x \in Serials, ModemRemoved(x)  PROVE TypeInv'
  BY <1>6, ModemRemovedTyped
<1>7. ASSUME NEW v \in Vpns, ConnectionCreated(v) \/ ConnectionDeleted(v)  PROVE TypeInv'
  BY <1>7, ConnectionsTyped
<1> QED BY <1>1, <1>2, <1>3, <1>4, <1>5, <1>6, <1>7 DEF Manages

\* the service's,
LEMMA ServesTyped ==
  ASSUME TypeInv, Serves
  PROVE  TypeInv'
<1>1. ASSUME NEW v \in Vpns, NewConnection(v) \/ ConnectionRemoved(v) \/ HandleAddVpn(v)
      PROVE  TypeInv'
  BY <1>1, NewConnectionTyped, ConnectionRemovedTyped, HandleAddVpnTyped
<1>2. ASSUME NEW b \in BOOLEAN, HandleSet(b)  PROVE TypeInv'
  BY <1>2, HandleSetTyped
<1> QED BY <1>1, <1>2, FlushTyped, HandleSetSimTyped, HandleSetRoamingTyped, HandleAddVpnRefusedTyped,
     HandleRemoveVpnTyped DEF Serves

\* the user's,
LEMMA UsesTyped ==
  ASSUME TypeInv, Uses
  PROVE  TypeInv'
<1>1. ASSUME NEW p \in cl.sims \cup {NoPath}, UserSetsSim(p)  PROVE TypeInv'
  BY <1>1, UserSetsSimTyped
<1>2. ASSUME NEW e, UserCalls(e)  PROVE TypeInv'
  BY <1>2, UserCallsTyped
<1> QED BY <1>1, <1>2, UserCallsIs DEF Uses

\* and all others.
LEMMA TypeStep == TypeInv /\ [Next]_vars => TypeInv'
<1> SUFFICES ASSUME TypeInv, [Next]_vars  PROVE TypeInv'
  OBVIOUS
<1>1. CASE UNCHANGED vars
  BY <1>1, SameServiceTyped DEF vars, TypeInv
<1>2. CASE Follows
  BY <1>2, PropertiesTyped, ServiceLostTyped, OwnerChangedTyped, FinishedTyped DEF Follows
<1> QED BY <1>1, <1>2, ManagesTyped, ServesTyped, UsesTyped, CrashTyped, StartTyped DEF Next

\* Every state has the types: in particular the SIMs are numbered from 1
\* in the service and in the client, in every life of the service, and the
\* client's lists and modems show what it has cached.
THEOREM ConnectivityTyped == Spec => []TypeInv
BY InitTyped, TypeStep, PTL DEF Spec

-----------------------------------------------------------------------------
\* What a step of the service says

\* GetAll() answers just the properties of an object.
LEMMA GetAllDomain ==
  ASSUME NEW m, NEW s, Manager(m), Service(m, s), NEW o \in Served(s)
  PROVE  o \in ObjectsOf(Cardinality(m.sims)) /\ DOMAIN GetAll(m, s, o) = Properties(o)
<1>1. PICK n \in Nat : n = Cardinality(m.sims)
  BY ManagerParts, SimsFinite
<1>2. CASE o \in {Private, Status}
  BY <1>2, GetAllIs, PropertiesOf DEF ObjectsOf
<1>3. CASE \E x \in DOMAIN s.modems : o = ModemObject(s.modems[x].path)
  <2>1. PICK x \in DOMAIN s.modems : o = ModemObject(s.modems[x].path)
    BY <1>3
  <2>2. PICK k : k = s.modems[x].path
    OBVIOUS
  <2>3. x \in DOMAIN m.modems /\ k \in Nat
    BY <2>1, <2>2, ServiceParts
  <2>4. PICK vs : vs = GetAll(m, s, ModemObject(k))
    OBVIOUS
  <2>5. DOMAIN vs = {"Sim"}
    BY <2>2, <2>3, <2>4, ModemValue
  <2>6. Properties(o) = {"Sim"} /\ o \in ObjectsOf(n)
    BY <2>1, <2>2, <2>3, PropertiesOf DEF ObjectsOf
  <2> QED
    <3>1. DOMAIN GetAll(m, s, o) = {"Sim"}
      BY <2>1, <2>2, <2>4, <2>5
    <3> QED BY <1>1, <2>6, <3>1
<1>4. CASE \E i \in DOMAIN s.sims : o = SimObject(s.sims[i])
  <2>1. PICK i \in DOMAIN s.sims : o = SimObject(s.sims[i])
    BY <1>4
  <2>2. PICK k : k = s.sims[i]
    OBVIOUS
  <2>3. i \in m.sims /\ k \in 1 .. n /\ k \in Nat
    BY <1>1, <2>1, <2>2, ServiceParts DEF Paths
  <2>4. GetAll(m, s, o) = m.bits[i]
    BY <2>1, <2>2, <2>3, SimValue
  <2>5. DOMAIN m.bits[i] = SimProperties
    BY <2>3, ManagerParts
  <2>6. Properties(o) = SimProperties /\ o \in ObjectsOf(n)
    BY <2>1, <2>2, <2>3, PropertiesOf DEF ObjectsOf
  <2> QED BY <1>1, <2>4, <2>5, <2>6
<1> QED BY <1>2, <1>3, <1>4 DEF Served

\* The queue with one announcement more.
LEMMA NotifyIs ==
  ASSUME NEW q, NEW m, NEW s, NEW o, NEW names
  PROVE  LET r == Notify(q, m, s, o, names)
         IN  /\ \A x, p : Holds(r, x, p)
                    <=> Holds(q, x, p) \/ (x = o /\ p \in names /\ p \in DOMAIN GetAll(m, s, o))
             /\ \A x : x \in DOMAIN r <=> x \in DOMAIN q \/ x = o
             /\ \A p \in names : p \in DOMAIN GetAll(m, s, o) => r[o][p] = GetAll(m, s, o)[p]
             /\ \A x, p : Holds(q, x, p) /\ ~(x = o /\ p \in names /\ p \in DOMAIN GetAll(m, s, o))
                    => r[x][p] = q[x][p]
<1>1. PICK old : old = IF o \in DOMAIN q THEN q[o] ELSE Empty
  OBVIOUS
<1>2. PICK all : all = GetAll(m, s, o)
  OBVIOUS
<1>3. PICK vs : vs = Over(Only(all, names), old)
  OBVIOUS
<1>4. PICK r : r = Notify(q, m, s, o, names)
  OBVIOUS
<1>5. r = With(q, o, vs)
  BY <1>1, <1>2, <1>3, <1>4 DEF Notify
<1>6. DOMAIN r = DOMAIN q \cup {o} /\ r[o] = vs /\ \A x \in DOMAIN q : x # o => r[x] = q[x]
  BY <1>5 DEF With
<1>7. DOMAIN Empty = {}
  BY EmptyFacts
<1>8. /\ DOMAIN vs = (DOMAIN all \cap names) \cup DOMAIN old
      /\ \A p \in DOMAIN all \cap names : vs[p] = all[p]
      /\ \A p \in DOMAIN old : p \notin DOMAIN all \cap names => vs[p] = old[p]
  BY <1>3 DEF Over, Only
<1>9. \A p : p \in DOMAIN old <=> Holds(q, o, p)
  BY <1>1, <1>7 DEF Holds
<1>10. \A p : Holds(q, o, p) => old[p] = q[o][p]
  BY <1>1 DEF Holds
<1>11. \A x, p : Holds(r, x, p)
           <=> Holds(q, x, p) \/ (x = o /\ p \in names /\ p \in DOMAIN all)
  <2> TAKE x, p
  <2>1. CASE x = o
    BY <1>6, <1>8, <1>9, <2>1 DEF Holds
  <2>2. CASE x # o
    BY <1>6, <2>2 DEF Holds
  <2> QED BY <2>1, <2>2
<1>12. \A x, p : Holds(q, x, p) /\ ~(x = o /\ p \in names /\ p \in DOMAIN all) => r[x][p] = q[x][p]
  <2> TAKE x, p
  <2>1. CASE x = o
    BY <1>6, <1>8, <1>9, <1>10, <2>1
  <2>2. CASE x # o
    BY <1>6, <2>2 DEF Holds
  <2> QED BY <2>1, <2>2
<1>13. \A p \in names : p \in DOMAIN all => r[o][p] = all[p]
  BY <1>6, <1>8
<1>14. \A x : x \in DOMAIN r <=> x \in DOMAIN q \/ x = o
  BY <1>6
<1> QED BY <1>2, <1>4, <1>11, <1>12, <1>13, <1>14

\* A change that is announced makes the queue tell all that has changed.
LEMMA NotifyTells ==
  ASSUME TypeInv, up, PendInv, NEW m, NEW s, Manager(m), Service(m, s),
         NEW o \in Served(s), NEW names, Untouched(m, s, o, names),
         svc.nextModem <= s.nextModem
  PROVE  Tells(Notify(pend, m, s, o, names), m, s)
<1>1. Pending(pend, N) /\ N \in Nat /\ svc.nextModem \in Nat /\ s.nextModem \in Nat
  BY TypeFacts, ServiceParts DEF TypeInv
<1>2. PICK q : q = Notify(pend, m, s, o, names)
  OBVIOUS
<1>3. PICK all : all = GetAll(m, s, o)
  OBVIOUS
<1>4. DOMAIN all = Properties(o)
  BY <1>3, GetAllDomain
<1>5. /\ \A x, p : Holds(q, x, p)
             <=> Holds(pend, x, p) \/ (x = o /\ p \in names /\ p \in DOMAIN all)
      /\ \A x : x \in DOMAIN q <=> x \in DOMAIN pend \/ x = o
      /\ \A p \in names : p \in DOMAIN all => q[o][p] = all[p]
      /\ \A x, p : Holds(pend, x, p) /\ ~(x = o /\ p \in names /\ p \in DOMAIN all)
             => q[x][p] = pend[x][p]
  BY <1>2, <1>3, NotifyIs
<1>6. ASSUME NEW x \in Served(s), NEW p, Holds(q, x, p)  PROVE q[x][p] = GetAll(m, s, x)[p]
  <2>1. CASE x = o /\ p \in names /\ p \in DOMAIN all
    BY <1>3, <1>5, <2>1
  <2>2. CASE ~(x = o /\ p \in names /\ p \in DOMAIN all)
    <3>1. Holds(pend, x, p) /\ q[x][p] = pend[x][p]
      BY <1>5, <1>6, <2>2
    <3>2. p \in Properties(x) /\ x \in DOMAIN pend /\ x \in ObjectsOf(N)
      BY <1>1, <3>1 DEF Holds, Pending, Values
    <3>3. Same(m, s, x, p)
      <4>1. ASSUME NEW k \in Nat, x = ModemObject(k)  PROVE ~(k >= svc.nextModem)
        BY <1>1, <3>2, <4>1 DEF PendInv, NoModemFrom
      <4>2. ASSUME NEW k \in Nat, x = SimObject(k)  PROVE k \in 1 .. N
        BY <3>2, <4>2, ObjectsDiffer DEF ObjectsOf
      <4>3. ~Unheard(x)
        BY <1>1, <4>1, <4>2 DEF Unheard
      <4> QED BY <1>4, <2>2, <3>2, <4>3 DEF Untouched
    <3> QED BY <3>1, <3>3 DEF Same, PendInv, Current, Holds
  <2> QED BY <2>1, <2>2
<1>7. Current(q, m, s)
  BY <1>6 DEF Current, Holds
<1>8. NoModemFrom(q, s.nextModem)
  <2>1. \A j \in Nat : o = ModemObject(j) => j < s.nextModem
    <3> SUFFICES ASSUME NEW j \in Nat, o = ModemObject(j)  PROVE j < s.nextModem
      OBVIOUS
    <3>1. PICK x \in DOMAIN s.modems : j = s.modems[x].path
      BY ObjectsDiffer DEF Served
    <3>2. s.modems[x].path \in 1 .. s.nextModem - 1 /\ s.nextModem \in Nat
      BY ServiceParts
    <3> QED BY <3>1, <3>2
  <2>2. \A j \in Nat : ModemObject(j) \in DOMAIN pend => j < s.nextModem
    BY <1>1 DEF PendInv, NoModemFrom
  <2> QED BY <1>5, <2>1, <2>2 DEF NoModemFrom
<1>9. \A x \in Served(s) : \A p \in Properties(x) :
          Holds(q, x, p) \/ Same(m, s, x, p) \/ Unheard(x)
  BY <1>4, <1>5 DEF Untouched
<1>10. \A x, p : Holds(pend, x, p) => Holds(q, x, p)
  BY <1>5
<1>11. Tells(q, m, s)
  BY <1>7, <1>8, <1>9, <1>10 DEF Tells
<1> QED BY <1>2, <1>11

-----------------------------------------------------------------------------
\* What the service's operations change

\* The values of Private that are the same, but for the named ones.
LEMMA PrivateAlike ==
  ASSUME NEW m, NEW s, NEW names,
         "Modems" \in names \/ ModemPaths(s) = ModemPaths(svc),
         "Sims" \in names \/ Paths(s.sims) = Paths(svc.sims),
         "VpnConnections" \in names \/ s.vpns = svc.vpns,
         "SimForMobileData" \in names \/ simForMobileData(m, s) = simForMobileData(mgr, svc),
         \A p \in DOMAIN PrivateReads :
             p \in names \/ m.flags[PrivateReads[p]] = mgr.flags[PrivateReads[p]]
  PROVE  \A p \in PrivateProperties :
             p \in names \/ PrivateValue(m, s, p) = PrivateValue(mgr, svc, p)
<1> SUFFICES ASSUME NEW p \in PrivateProperties, p \notin names
             PROVE  PrivateValue(m, s, p) = PrivateValue(mgr, svc, p)
  OBVIOUS
<1>1. CASE p \in DOMAIN PrivateReads
  <2>1. PrivateValue(m, s, p) = m.flags[PrivateReads[p]]
    BY <1>1, FlagValueIs
  <2>2. PrivateValue(mgr, svc, p) = mgr.flags[PrivateReads[p]]
    BY <1>1, FlagValueIs
  <2> QED BY <1>1, <2>1, <2>2
<1>2. CASE p = "Modems"
  <2>1. PrivateValue(m, s, "Modems") = ModemPaths(s) /\ PrivateValue(mgr, svc, "Modems") = ModemPaths(svc)
    BY PrivateValueIs DEF ModemPaths
  <2> QED BY <1>2, <2>1
<1>3. CASE p = "Sims"
  BY <1>3, PrivateValueIs
<1>4. CASE p = "VpnConnections"
  <2>1. /\ PrivateValue(m, s, "VpnConnections") = Paths(s.vpns)
        /\ PrivateValue(mgr, svc, "VpnConnections") = Paths(svc.vpns)
    BY PrivateValueIs
  <2> QED BY <1>4, <2>1
<1>5. CASE p = "SimForMobileData"
  BY <1>5, PrivateValueIs
<1> QED BY <1>1, <1>2, <1>3, <1>4, <1>5 DEF PrivateProperties

\* What a modem object says.
LEMMA ModemSays ==
  ASSUME NEW m, NEW s, Service(m, s), NEW x \in DOMAIN s.modems, NEW k, k = s.modems[x].path
  PROVE  GetAll(m, s, ModemObject(k))["Sim"] = PathIn(s, m.modems[x])
<1>1. PICK vs : vs = GetAll(m, s, ModemObject(k))
  OBVIOUS
<1>2. x \in DOMAIN m.modems
  BY ServiceParts
<1>4. vs["Sim"] = PathIn(s, m.modems[x])
  BY <1>1, <1>2, ModemValue
<1> QED BY <1>1, <1>4

\* What m and s differ in from the manager and the service, property by property.
LEMMA Differences ==
  ASSUME TypeInv, up, NEW m, NEW s, Manager(m), Service(m, s), NEW o, NEW names,
         \A p \in StatusProperties :
             (o = Status /\ p \in names) \/ StatusValue(m, p) = StatusValue(mgr, p),
         \A p \in PrivateProperties :
             (o = Private /\ p \in names) \/ PrivateValue(m, s, p) = PrivateValue(mgr, svc, p),
         \A x \in DOMAIN s.modems :
             \/ o = ModemObject(s.modems[x].path) /\ "Sim" \in names
             \/ /\ x \in DOMAIN svc.modems /\ s.modems[x].path = svc.modems[x].path
                /\ PathIn(s, m.modems[x]) = PathIn(svc, mgr.modems[x])
             \/ s.modems[x].path >= svc.nextModem,
         \A i \in m.sims : \A p \in SimProperties :
             \/ o = SimObject(s.sims[i]) /\ p \in names
             \/ i \in mgr.sims /\ s.sims[i] = svc.sims[i] /\ m.bits[i][p] = mgr.bits[i][p]
             \/ s.sims[i] > N
  PROVE  Untouched(m, s, o, names)
<1>1. Service(mgr, svc) /\ N \in Nat
  BY TypeFacts DEF TypeInv
<1> SUFFICES ASSUME NEW x \in Served(s), NEW p \in Properties(x), ~(x = o /\ p \in names)
             PROVE  Same(m, s, x, p) \/ Unheard(x)
  BY DEF Untouched
<1>2. CASE x = Status
  <2>1. p \in StatusProperties /\ x \in Served(svc)
    BY <1>2, PropertiesOf DEF Served
  <2>2. GetAll(m, s, Status)[p] = StatusValue(m, p) /\ GetAll(mgr, svc, Status)[p] = StatusValue(mgr, p)
    BY <2>1, GetAllIs
  <2> QED BY <1>2, <2>1, <2>2 DEF Same
<1>3. CASE x = Private
  <2>1. p \in PrivateProperties /\ x \in Served(svc)
    BY <1>3, PropertiesOf DEF Served
  <2>2. /\ GetAll(m, s, Private)[p] = PrivateValue(m, s, p)
        /\ GetAll(mgr, svc, Private)[p] = PrivateValue(mgr, svc, p)
    BY <2>1, GetAllIs
  <2> QED BY <1>3, <2>1, <2>2 DEF Same
<1>4. CASE \E y \in DOMAIN s.modems : x = ModemObject(s.modems[y].path)
  <2>1. PICK y \in DOMAIN s.modems : x = ModemObject(s.modems[y].path)
    BY <1>4
  <2>2. PICK k : k = s.modems[y].path
    OBVIOUS
  <2>3. y \in DOMAIN m.modems /\ k \in Nat /\ p = "Sim"
    BY <2>1, <2>2, ServiceParts, PropertiesOf
  <2>4. CASE k >= svc.nextModem
    BY <2>1, <2>2, <2>3, <2>4 DEF Unheard
  <2>5. CASE /\ y \in DOMAIN svc.modems /\ k = svc.modems[y].path
             /\ PathIn(s, m.modems[y]) = PathIn(svc, mgr.modems[y])
    <3>1. GetAll(m, s, ModemObject(k))["Sim"] = PathIn(s, m.modems[y])
      BY <2>2, ModemSays
    <3>2. GetAll(mgr, svc, ModemObject(k))["Sim"] = PathIn(svc, mgr.modems[y])
      BY <1>1, <2>5, ModemSays
    <3>3. x \in Served(svc)
      BY <2>1, <2>2, <2>5 DEF Served
    <3> QED BY <2>1, <2>2, <2>3, <2>5, <3>1, <3>2, <3>3 DEF Same
  <2> QED BY <2>1, <2>2, <2>3, <2>4, <2>5
<1>5. CASE \E i \in DOMAIN s.sims : x = SimObject(s.sims[i])
  <2>1. PICK i \in DOMAIN s.sims : x = SimObject(s.sims[i])
    BY <1>5
  <2>2. PICK k : k = s.sims[i]
    OBVIOUS
  <2>3. i \in m.sims /\ k \in Nat /\ p \in SimProperties
    <3>1. i \in m.sims /\ Paths(s.sims) = 1 .. Cardinality(m.sims)
      BY <2>1, ServiceParts
    <3>2. k \in Nat
      BY <2>2, <3>1, <2>1, SimsFinite, ManagerParts DEF Paths
    <3> QED BY <2>1, <2>2, <3>1, <3>2, PropertiesOf
  <2>4. CASE k > N
    BY <2>1, <2>2, <2>3, <2>4 DEF Unheard
  <2>5. CASE i \in mgr.sims /\ k = svc.sims[i] /\ m.bits[i][p] = mgr.bits[i][p]
    <3>1. GetAll(m, s, SimObject(k)) = m.bits[i]
      BY <2>2, <2>3, SimValue
    <3>2. GetAll(mgr, svc, SimObject(k)) = mgr.bits[i]
      BY <1>1, <2>5, SimValue
    <3>3. x \in Served(svc)
      BY <1>1, <2>1, <2>2, <2>5, ServiceParts DEF Served
    <3> QED BY <2>1, <2>2, <2>5, <3>1, <3>2, <3>3 DEF Same
  <2> QED BY <2>1, <2>2, <2>3, <2>4, <2>5
<1> QED BY <1>2, <1>3, <1>4, <1>5 DEF Served

\* The getters of Status.
LEMMA StatusValueIs ==
  ASSUME NEW m
  PROVE  /\ \A p \in {"FlightModeSwitchEnabled", "WifiSwitchEnabled"} :
                StatusValue(m, p) = (~m.flags["unstoppable"])
         /\ StatusValue(m, "HotspotSwitchEnabled")
                = (~m.flags["unstoppable"] /\ ~m.flags["flightMode"])
         /\ \A p \in DOMAIN StatusReads : StatusValue(m, p) = m.flags[StatusReads[p]]
<1>1. \A p \in {"FlightModeSwitchEnabled", "WifiSwitchEnabled"} :
          StatusValue(m, p) = (~m.flags["unstoppable"])
  BY Zenon DEF StatusValue
<1>2. StatusValue(m, "HotspotSwitchEnabled") = (~m.flags["unstoppable"] /\ ~m.flags["flightMode"])
  <2>1. "HotspotSwitchEnabled" \notin {"FlightModeSwitchEnabled", "WifiSwitchEnabled"}
    OBVIOUS
  <2> QED BY <2>1, Zenon DEF StatusValue
<1>3. ASSUME NEW p \in DOMAIN StatusReads  PROVE StatusValue(m, p) = m.flags[StatusReads[p]]
  <2>1. /\ p \notin {"FlightModeSwitchEnabled", "WifiSwitchEnabled"}
        /\ p # "HotspotSwitchEnabled"
    BY DEF StatusReads
  <2> QED BY <2>1, Zenon DEF StatusValue
<1> QED BY <1>1, <1>2, <1>3

\* The slot of a value of the manager announces every property that reads it.
LEMMA AnnouncesFlag ==
  ASSUME NEW f
  PROVE  /\ \A p \in DOMAIN StatusReads :
                StatusReads[p] = f => p \in Announces(f) /\ AnnouncedOn(f) = Status
         /\ \A p \in DOMAIN PrivateReads :
                PrivateReads[p] = f => p \in Announces(f) /\ AnnouncedOn(f) = Private
         /\ f = "unstoppable" => SwitchProperties \subseteq Announces(f) /\ AnnouncedOn(f) = Status
         /\ f = "flightMode" =>
                "HotspotSwitchEnabled" \in Announces(f) /\ AnnouncedOn(f) = Status
<1> DEFINE P == {PrivateReads[p] : p \in DOMAIN PrivateReads}
           S == {p \in DOMAIN StatusReads : StatusReads[p] = f}
           R == {p \in DOMAIN PrivateReads : PrivateReads[p] = f}
<1>1. /\ "flightMode" \notin P /\ "wifiEnabled" \notin P /\ "unstoppable" \notin P
      /\ \A p \in DOMAIN StatusReads : StatusReads[p] \notin P /\ StatusReads[p] # "unstoppable"
  BY DEF PrivateReads, StatusReads
<1>2. (f \in P => AnnouncedOn(f) = Private) /\ (f \notin P => AnnouncedOn(f) = Status)
  BY DEF AnnouncedOn
<1>3. f = "flightMode" => Announces(f) = {"FlightMode", "HotspotSwitchEnabled"}
  BY Zenon DEF Announces
<1>4. f = "wifiEnabled" => Announces(f) = {"WifiEnabled", "HotspotSwitchEnabled"}
  <2>1. "wifiEnabled" # "flightMode"
    OBVIOUS
  <2> QED BY <2>1, Zenon DEF Announces
<1>5. f = "unstoppable" => Announces(f) = SwitchProperties
  <2>1. "unstoppable" # "flightMode" /\ "unstoppable" # "wifiEnabled"
    OBVIOUS
  <2> QED BY <2>1, Zenon DEF Announces
<1>6. f \notin {"flightMode", "wifiEnabled", "unstoppable"} => Announces(f) = S \cup R
  BY Zenon DEF Announces
<1>7. \A p \in DOMAIN StatusReads :
          /\ StatusReads[p] = "flightMode" => p = "FlightMode"
          /\ StatusReads[p] = "wifiEnabled" => p = "WifiEnabled"
  BY DEF StatusReads
<1>8. ASSUME NEW p \in DOMAIN StatusReads, StatusReads[p] = f
      PROVE  p \in Announces(f) /\ AnnouncedOn(f) = Status
  BY <1>1, <1>2, <1>3, <1>4, <1>6, <1>7, <1>8
<1>9. ASSUME NEW p \in DOMAIN PrivateReads, PrivateReads[p] = f
      PROVE  p \in Announces(f) /\ AnnouncedOn(f) = Private
  BY <1>1, <1>2, <1>6, <1>9
<1>10. f = "unstoppable" => SwitchProperties \subseteq Announces(f) /\ AnnouncedOn(f) = Status
  BY <1>1, <1>2, <1>5
<1>11. f = "flightMode" => "HotspotSwitchEnabled" \in Announces(f) /\ AnnouncedOn(f) = Status
  BY <1>1, <1>2, <1>3
<1> QED BY <1>8, <1>9, <1>10, <1>11

\* SIM and modem objects of a manager whose SIMs, modems and bits are the same.
LEMMA SameObjectsSay ==
  ASSUME TypeInv, up, NEW m, Manager(m), m.sims = mgr.sims, m.modems = mgr.modems,
         m.bits = mgr.bits, NEW s, s.sims = svc.sims, s.modems = svc.modems
  PROVE  /\ \A x \in DOMAIN s.modems :
               /\ x \in DOMAIN svc.modems /\ s.modems[x].path = svc.modems[x].path
               /\ PathIn(s, m.modems[x]) = PathIn(svc, mgr.modems[x])
         /\ \A i \in m.sims : \A p \in SimProperties :
               i \in mgr.sims /\ s.sims[i] = svc.sims[i] /\ m.bits[i][p] = mgr.bits[i][p]
BY DEF PathIn

\* What the slot of a flag does not announce has not changed: a flag,
LEMMA FlagUntouched ==
  ASSUME TypeInv, up, NEW f \in Flags, NEW v \in BOOLEAN,
         NEW m, m = [mgr EXCEPT !.flags[f] = v], Manager(m), Service(m, svc)
  PROVE  /\ Untouched(m, svc, AnnouncedOn(f), Announces(f))
         /\ m.sims = mgr.sims /\ AnnouncedOn(f) \in {Private, Status}
<1>1. /\ m.flags = [mgr.flags EXCEPT ![f] = v] /\ m.sims = mgr.sims /\ m.choice = mgr.choice
      /\ m.modems = mgr.modems /\ m.bits = mgr.bits
  BY FlagSet, MgrFields DEF TypeInv
<1>2. \A g \in Flags : g # f => m.flags[g] = mgr.flags[g]
  BY <1>1, ManagerParts DEF TypeInv
<1>3. PICK o : o = AnnouncedOn(f)
  OBVIOUS
<1>4. PICK names : names = Announces(f)
  OBVIOUS
<1>5. ASSUME NEW p \in StatusProperties
      PROVE  (o = Status /\ p \in names) \/ StatusValue(m, p) = StatusValue(mgr, p)
  <2>1. CASE p \in DOMAIN StatusReads
    <3>1. StatusReads[p] \in Flags
      BY <2>1 DEF Flags
    <3>2. StatusValue(m, p) = m.flags[StatusReads[p]] /\ StatusValue(mgr, p) = mgr.flags[StatusReads[p]]
      BY <2>1, StatusValueIs
    <3> QED BY <1>2, <1>3, <1>4, <2>1, <3>1, <3>2, AnnouncesFlag
  <2>2. CASE p \in SwitchProperties
    <3>1. CASE f = "unstoppable"
      BY <1>3, <1>4, <2>2, <3>1, AnnouncesFlag
    <3>2. CASE f = "flightMode" /\ p = "HotspotSwitchEnabled"
      BY <1>3, <1>4, <3>2, AnnouncesFlag
    <3>3. CASE f # "unstoppable" /\ ~(f = "flightMode" /\ p = "HotspotSwitchEnabled")
      <4>1. "unstoppable" \in Flags /\ "flightMode" \in Flags
        BY DEF Flags, StatusReads
      <4>2. m.flags["unstoppable"] = mgr.flags["unstoppable"]
        BY <1>2, <3>3, <4>1
      <4>3. CASE p = "HotspotSwitchEnabled"
        BY <1>2, <3>3, <4>1, <4>2, <4>3, StatusValueIs
      <4>4. CASE p \in {"FlightModeSwitchEnabled", "WifiSwitchEnabled"}
        BY <4>2, <4>4, StatusValueIs
      <4> QED BY <2>2, <4>3, <4>4 DEF SwitchProperties
    <3> QED BY <3>1, <3>2, <3>3
  <2> QED BY <2>1, <2>2 DEF StatusProperties
<1>6. PICK ns : ns = IF o = Private THEN names ELSE {}
  OBVIOUS
<1>7. \A p \in DOMAIN PrivateReads :
          p \in ns \/ m.flags[PrivateReads[p]] = mgr.flags[PrivateReads[p]]
  <2> TAKE p \in DOMAIN PrivateReads
  <2>1. PrivateReads[p] \in Flags
    BY DEF Flags
  <2> QED BY <1>2, <1>3, <1>4, <1>6, <2>1, AnnouncesFlag
<1>8. simForMobileData(m, svc) = simForMobileData(mgr, svc)
  BY <1>1 DEF simForMobileData
<1>9. \A p \in PrivateProperties : p \in ns \/ PrivateValue(m, svc, p) = PrivateValue(mgr, svc, p)
  BY <1>7, <1>8, PrivateAlike
<1>10. \A p \in PrivateProperties :
          (o = Private /\ p \in names) \/ PrivateValue(m, svc, p) = PrivateValue(mgr, svc, p)
  BY <1>6, <1>9
<1>11. Untouched(m, svc, o, names)
  BY <1>1, <1>5, <1>10, SameObjectsSay, Differences
<1>12. o \in {Private, Status}
  BY <1>3 DEF AnnouncedOn
<1> QED BY <1>1, <1>3, <1>4, <1>11, <1>12

\* A property of a SIM is set, and nothing else;
LEMMA BitSetIs ==
  ASSUME TypeInv, NEW i \in mgr.sims, NEW p \in SimProperties, NEW v \in BOOLEAN,
         SetBit(i, p, v)
  PROVE  /\ mgr'.flags = mgr.flags /\ mgr'.sims = mgr.sims /\ mgr'.choice = mgr.choice
         /\ mgr'.modems = mgr.modems
         /\ OneBit(mgr', i, p)
<1>1. PICK B : B = [mgr.bits EXCEPT ![i][p] = v]
  OBVIOUS
<1>2. PICK m : m = mgr'
  OBVIOUS
<1>3. m = Mgr(mgr.flags, mgr.sims, mgr.choice, mgr.modems, B)
  <2>1. m = [mgr EXCEPT !.bits = B]
    BY <1>1, <1>2 DEF SetBit
  <2>2. mgr = [flags |-> mgr.flags, sims |-> mgr.sims, choice |-> mgr.choice,
               modems |-> mgr.modems, bits |-> mgr.bits]
    BY DEF TypeInv, Manager
  <2> QED BY <2>1, <2>2 DEF Mgr
<1>4. /\ m.flags = mgr.flags /\ m.sims = mgr.sims /\ m.choice = mgr.choice
      /\ m.modems = mgr.modems /\ m.bits = B
  BY <1>3, MgrFields
<1>5. \A j \in Iccids : \A r \in SimProperties : ~(j = i /\ r = p) => B[j][r] = mgr.bits[j][r]
  <2>1. mgr.bits \in [Iccids -> [SimProperties -> BOOLEAN]] /\ i \in Iccids
    BY DEF TypeInv, Manager
  <2> QED BY <1>1, <2>1
<1>6. OneBit(m, i, p)
  BY <1>4, <1>5 DEF OneBit
<1> QED BY <1>2, <1>4, <1>6

\* what its slot does not announce has not changed.
LEMMA BitUntouched ==
  ASSUME TypeInv, up, NEW i \in mgr.sims, NEW p, NEW m, Manager(m), Service(m, svc),
         m.flags = mgr.flags, m.sims = mgr.sims, m.choice = mgr.choice,
         m.modems = mgr.modems, OneBit(m, i, p)
  PROVE  /\ Untouched(m, svc, SimObject(svc.sims[i]), {p})
         /\ SimObject(svc.sims[i]) \in Served(svc)
<1>1. \A r \in StatusProperties : StatusValue(m, r) = StatusValue(mgr, r)
  BY DEF StatusValue
<1>2. \A r \in PrivateProperties :
          r \in {} \/ PrivateValue(m, svc, r) = PrivateValue(mgr, svc, r)
  <2>1. simForMobileData(m, svc) = simForMobileData(mgr, svc)
    BY DEF simForMobileData
  <2>2. PICK ns : ns = {}
    OBVIOUS
  <2>3. \A r \in PrivateProperties : r \in ns \/ PrivateValue(m, svc, r) = PrivateValue(mgr, svc, r)
    BY <2>1, PrivateAlike
  <2> QED BY <2>2, <2>3
<1>3. \A x \in DOMAIN svc.modems : PathIn(svc, m.modems[x]) = PathIn(svc, mgr.modems[x])
  OBVIOUS
<1>4. \A j \in m.sims : \A r \in SimProperties :
          \/ SimObject(svc.sims[i]) = SimObject(svc.sims[j]) /\ r \in {p}
          \/ j \in mgr.sims /\ m.bits[j][r] = mgr.bits[j][r]
  BY ManagerParts DEF TypeInv, OneBit
<1>5. PICK o : o = SimObject(svc.sims[i])
  OBVIOUS
<1>6. Untouched(m, svc, o, {p})
  BY <1>1, <1>2, <1>3, <1>4, <1>5, Differences
<1>7. o \in Served(svc)
  BY <1>5, ServiceParts DEF TypeInv, Served
<1> QED BY <1>5, <1>6, <1>7

\* The same for the choice,
LEMMA ChoiceUntouched ==
  ASSUME TypeInv, up, NEW i \in mgr.sims \cup {NoSim},
         NEW m, m = [mgr EXCEPT !.choice = i], Manager(m), Service(m, svc)
  PROVE  /\ Untouched(m, svc, Private, {"SimForMobileData"})
         /\ m.sims = mgr.sims /\ m.choice = i
<1>1. m = Mgr(mgr.flags, mgr.sims, i, mgr.modems, mgr.bits)
  BY ChoiceSet DEF TypeInv
<1>2. /\ m.flags = mgr.flags /\ m.sims = mgr.sims /\ m.choice = i
      /\ m.modems = mgr.modems /\ m.bits = mgr.bits
  BY <1>1, MgrFields
<1>3. \A r \in StatusProperties : StatusValue(m, r) = StatusValue(mgr, r)
  BY <1>2 DEF StatusValue
<1>4. \A r \in PrivateProperties :
          r \in {"SimForMobileData"} \/ PrivateValue(m, svc, r) = PrivateValue(mgr, svc, r)
  BY <1>2, PrivateAlike
<1>5. Untouched(m, svc, Private, {"SimForMobileData"})
  BY <1>2, <1>3, <1>4, SameObjectsSay, Differences
<1> QED BY <1>2, <1>5

\* for VPN connections,
LEMMA VpnsUntouched ==
  ASSUME TypeInv, up, NEW V, NEW A, NEW z, NEW names,
         "VpnConnections" \in names \/ V = svc.vpns
  PROVE  LET s == Svc(svc.sims, svc.modems, V, A, svc.nextModem, z)
         IN  /\ Untouched(mgr, s, Private, names)
             /\ Service(mgr, s) /\ s.sims = svc.sims /\ s.nextModem = svc.nextModem
<1>1. PICK s : s = Svc(svc.sims, svc.modems, V, A, svc.nextModem, z)
  OBVIOUS
<1>2. s.sims = svc.sims /\ s.modems = svc.modems /\ s.vpns = V /\ s.nextModem = svc.nextModem
  BY <1>1, SvcFields
<1>3. Service(mgr, s) /\ Manager(mgr)
  BY <1>1, SameObjects DEF TypeInv
<1>4. \A r \in PrivateProperties :
          r \in names \/ PrivateValue(mgr, s, r) = PrivateValue(mgr, svc, r)
  <2>1. simForMobileData(mgr, s) = simForMobileData(mgr, svc) /\ ModemPaths(s) = ModemPaths(svc)
    BY <1>2 DEF simForMobileData, ModemPaths
  <2> QED BY <1>2, <2>1, PrivateAlike
<1>5. Untouched(mgr, s, Private, names)
  BY <1>2, <1>3, <1>4, SameObjectsSay, Differences
<1> QED BY <1>1, <1>2, <1>3, <1>5

\* What waits of the properties that have not changed.
LEMMA WaitsOn ==
  ASSUME TypeInv, up, PendInv, NEW m, NEW s, NEW o, NEW names, Untouched(m, s, o, names),
         NEW x \in Served(s), NEW p, Holds(pend, x, p), ~(x = o /\ p \in names)
  PROVE  pend[x][p] = GetAll(m, s, x)[p]
<1>1. Pending(pend, N) /\ N \in Nat /\ svc.nextModem \in Nat
  BY TypeFacts, ServiceParts DEF TypeInv
<1>2. p \in Properties(x) /\ x \in DOMAIN pend /\ x \in ObjectsOf(N)
  BY <1>1 DEF Holds, Pending, Values
<1>3. ASSUME NEW k \in Nat, x = ModemObject(k)  PROVE ~(k >= svc.nextModem)
  BY <1>1, <1>2, <1>3 DEF PendInv, NoModemFrom
<1>4. ASSUME NEW k \in Nat, x = SimObject(k)  PROVE k \in 1 .. N
  BY <1>2, <1>4, ObjectsDiffer DEF ObjectsOf
<1>5. ~Unheard(x)
  BY <1>1, <1>3, <1>4 DEF Unheard
<1>6. Same(m, s, x, p)
  BY <1>2, <1>5 DEF Untouched
<1> QED BY <1>6 DEF Same, PendInv, Current, Holds

\* Nothing has changed but what the named properties say.
LEMMA QuietTells ==
  ASSUME TypeInv, up, PendInv, NEW m, NEW s, NEW o, Untouched(m, s, o, {}),
         s.nextModem = svc.nextModem
  PROVE  Tells(pend, m, s)
<1>1. Current(pend, m, s)
  BY WaitsOn DEF Current, Holds
<1>2. NoModemFrom(pend, s.nextModem)
  BY DEF PendInv
<1>3. \A x \in Served(s) : \A p \in Properties(x) : Same(m, s, x, p) \/ Unheard(x)
  BY DEF Untouched
<1> QED BY <1>1, <1>2, <1>3 DEF Tells

\* The same as above for modems,
LEMMA ModemsUntouched ==
  ASSUME TypeInv, up, NEW K, NEW M, NEW next, NEW o, NEW names,
         NEW m, m = ModemsOf(mgr, K), NEW s, s = ModemsIn(svc, M, next),
         Manager(m), Service(m, s),
         (o = Private /\ "Modems" \in names) \/ ModemPaths(s) = ModemPaths(svc),
         \A x \in DOMAIN M :
             \/ o = ModemObject(M[x].path) /\ "Sim" \in names
             \/ /\ x \in DOMAIN svc.modems /\ M[x].path = svc.modems[x].path
                /\ PathIn(svc, K[x]) = PathIn(svc, mgr.modems[x])
             \/ M[x].path >= svc.nextModem
  PROVE  /\ Untouched(m, s, o, names)
         /\ m.sims = mgr.sims /\ s.sims = svc.sims /\ s.nextModem = next
<1>1. /\ m.flags = mgr.flags /\ m.sims = mgr.sims /\ m.choice = mgr.choice
      /\ m.modems = K /\ m.bits = mgr.bits
  BY MgrFields DEF ModemsOf
<1>2. s.sims = svc.sims /\ s.modems = M /\ s.vpns = svc.vpns /\ s.nextModem = next
  BY SvcFields DEF ModemsIn
<1>3. \A r \in StatusProperties : StatusValue(m, r) = StatusValue(mgr, r)
  BY <1>1 DEF StatusValue
<1>4. PICK ns : ns = IF o = Private THEN names ELSE {}
  OBVIOUS
<1>5. \A r \in PrivateProperties : r \in ns \/ PrivateValue(m, s, r) = PrivateValue(mgr, svc, r)
  <2>1. simForMobileData(m, s) = simForMobileData(mgr, svc)
    BY <1>1, <1>2 DEF simForMobileData
  <2>2. "Modems" \in ns \/ ModemPaths(s) = ModemPaths(svc)
    BY <1>2, <1>4
  <2> QED BY <1>1, <1>2, <2>1, <2>2, PrivateAlike
<1>6. \A r \in PrivateProperties :
          (o = Private /\ r \in names) \/ PrivateValue(m, s, r) = PrivateValue(mgr, svc, r)
  BY <1>4, <1>5
<1>7. \A x \in DOMAIN s.modems :
          \/ o = ModemObject(s.modems[x].path) /\ "Sim" \in names
          \/ /\ x \in DOMAIN svc.modems /\ s.modems[x].path = svc.modems[x].path
             /\ PathIn(s, m.modems[x]) = PathIn(svc, mgr.modems[x])
          \/ s.modems[x].path >= svc.nextModem
  <2>1. \A x : PathIn(s, m.modems[x]) = PathIn(svc, K[x])
    BY <1>1, <1>2 DEF PathIn
  <2> QED BY <1>2, <2>1
<1>8. \A i \in m.sims : \A p \in SimProperties :
          i \in mgr.sims /\ s.sims[i] = svc.sims[i] /\ m.bits[i][p] = mgr.bits[i][p]
  BY <1>1, <1>2
<1>9. Untouched(m, s, o, names)
  BY <1>3, <1>6, <1>7, <1>8, Differences
<1> QED BY <1>1, <1>2, <1>9

\* A SIM more, with the next number.
LEMMA SimUntouched ==
  ASSUME TypeInv, up, NEW i \in Iccids, i \notin mgr.sims,
         NEW m, m = WithSim(mgr, i), NEW s, s = SimIn(svc, i, N + 1),
         Manager(m), Service(m, s)
  PROVE  Untouched(m, s, Private, {"Sims"}) /\ s.nextModem = svc.nextModem
<1>1. Manager(mgr) /\ Service(mgr, svc) /\ N \in Nat
  BY TypeFacts DEF TypeInv
<1>2. PICK k : k = N + 1
  OBVIOUS
<1>3. /\ m.flags = mgr.flags /\ m.sims = mgr.sims \cup {i} /\ m.choice = mgr.choice
      /\ m.modems = mgr.modems /\ m.bits = mgr.bits
  BY <1>1, WithSimTyped
<1>4. /\ s.sims = With(svc.sims, i, k) /\ s.modems = svc.modems /\ s.vpns = svc.vpns
      /\ s.nextModem = svc.nextModem
  BY <1>2, SvcFields DEF SimIn
<1>5. \A j \in mgr.sims \cup {NoSim} : PathIn(s, j) = PathIn(svc, j)
  BY <1>1, <1>2, SimServed DEF N
<1>6. \A r \in StatusProperties : StatusValue(m, r) = StatusValue(mgr, r)
  BY <1>3 DEF StatusValue
<1>7. \A r \in PrivateProperties :
          r \in {"Sims"} \/ PrivateValue(m, s, r) = PrivateValue(mgr, svc, r)
  <2>1. simForMobileData(m, s) = PathIn(s, m.choice)
    BY SimForMobileDataIs
  <2>2. simForMobileData(mgr, svc) = PathIn(svc, mgr.choice)
    BY <1>1, SimForMobileDataIs
  <2>3. mgr.choice \in mgr.sims \cup {NoSim}
    BY <1>1, ManagerParts
  <2>4. simForMobileData(m, s) = simForMobileData(mgr, svc)
    BY <1>3, <1>5, <2>1, <2>2, <2>3
  <2>5. ModemPaths(s) = ModemPaths(svc)
    BY <1>4 DEF ModemPaths
  <2> QED BY <1>3, <1>4, <2>4, <2>5, PrivateAlike
<1>8. \A x \in DOMAIN s.modems :
          /\ x \in DOMAIN svc.modems /\ s.modems[x].path = svc.modems[x].path
          /\ PathIn(s, m.modems[x]) = PathIn(svc, mgr.modems[x])
  <2>1. \A x \in DOMAIN svc.modems : mgr.modems[x] \in mgr.sims \cup {NoSim}
    BY <1>1, ManagerParts, ServiceParts
  <2> QED BY <1>3, <1>4, <1>5, <2>1
<1>9. \A j \in m.sims : \A p \in SimProperties :
          \/ j \in mgr.sims /\ s.sims[j] = svc.sims[j] /\ m.bits[j][p] = mgr.bits[j][p]
          \/ s.sims[j] > N
  <2>1. /\ DOMAIN svc.sims = mgr.sims /\ s.sims[i] = k
        /\ \A j \in DOMAIN svc.sims : j # i => s.sims[j] = svc.sims[j]
    BY <1>1, <1>4, ServiceParts DEF With
  <2>2. k > N
    BY <1>1, <1>2
  <2> QED BY <1>3, <2>1, <2>2
<1>10. Untouched(m, s, Private, {"Sims"})
  BY <1>6, <1>7, <1>8, <1>9, Differences
<1> QED BY <1>4, <1>10

-----------------------------------------------------------------------------
\* A step of the service that keeps its SIMs: q is announced later or now,
\* and calls are answered.

\* A step without replies adds nothing behind the signals.
LEMMA NoReplies ==
  /\ IsSeq(<<>>) /\ Elements(<<>>) = {}
  /\ \A b : IsSeq(b) => b \o <<>> = b
<1>1. ASSUME NEW b, IsSeq(b)  PROVE b \o <<>> = b
  <2>1. PICK S : b \in Seq(S)
    BY <1>1 DEF IsSeq
  <2> QED BY <2>1
<1>2. <<>> \in Seq({}) /\ DOMAIN <<>> = {}
  OBVIOUS
<1> QED BY <1>1, <1>2 DEF IsSeq, Elements

\* An announcement of all that has changed is a step of the service.
LEMMA Announcing ==
  ASSUME TypeInv, PendInv, up, NEW m, NEW s, Manager(m), Service(m, s), mgr' = m, svc' = s,
         m.sims = mgr.sims, s.sims = svc.sims, svc.nextModem <= s.nextModem,
         NEW o \in Served(s), NEW names, Untouched(m, s, o, names), "Sims" \notin names
  PROVE  /\ /\ Announce(m, s, o, names) /\ (o = Private => names \cap Lists = {})
            => \E q : Serving(q, <<>>)
         /\ \A replies :
               /\ AnnounceNow(m, s, o, names, replies) /\ IsSeq(replies)
               /\ \A e \in Elements(replies) :
                     /\ e.type = "reply"
                     /\ \/ e.path = NoPath
                        \/ /\ o = Private /\ "VpnConnections" \in names
                           /\ e.path \in Paths(s.vpns)
               => \E q : Serving(q, replies)
<1>1. PICK q : q = Notify(pend, m, s, o, names)
  OBVIOUS
<1>2. Tells(q, m, s)
  BY <1>1, NotifyTells
<1>3. N = Cardinality(m.sims) /\ N \in Nat /\ Pending(pend, N)
  BY TypeFacts DEF TypeInv, N
<1>4. o \in ObjectsOf(N) /\ DOMAIN GetAll(m, s, o) = Properties(o)
  BY <1>3, GetAllDomain
<1>5. Pending(q, N)
  BY <1>1, <1>3, <1>4, NotifyTyped
<1>6. \A x, p : Holds(q, x, p)
          <=> Holds(pend, x, p) \/ (x = o /\ p \in names /\ p \in DOMAIN GetAll(m, s, o))
  BY <1>1, NotifyIs
<1>7. ~Holds(q, Private, "Sims")
  BY <1>6 DEF PendInv, Waiting, Lists
<1>8. ASSUME Announce(m, s, o, names), o = Private => names \cap Lists = {}
      PROVE  Serving(q, <<>>)
  <2>1. Waiting(q)
    BY <1>6, <1>8 DEF PendInv, Waiting
  <2>2. pend' = q /\ bus' = bus \o <<>>
    BY <1>1, <1>8, NoReplies DEF Announce, TypeInv, Messages
  <2> QED BY <1>2, <1>5, <1>7, <2>1, <2>2, NoReplies DEF Serving, Waits
<1>9. ASSUME NEW replies, AnnounceNow(m, s, o, names, replies), IsSeq(replies),
             \A e \in Elements(replies) :
                /\ e.type = "reply"
                /\ \/ e.path = NoPath
                   \/ o = Private /\ "VpnConnections" \in names /\ e.path \in Paths(s.vpns)
      PROVE  Serving(q, replies)
  <2>1. pend' = Empty /\ bus' = bus \o Signals(q) \o replies
    BY <1>1, <1>9 DEF AnnounceNow
  <2>2. ASSUME o = Private, "VpnConnections" \in names
        PROVE  Holds(q, Private, "VpnConnections") /\ q[Private]["VpnConnections"] = Paths(s.vpns)
    <3>1. "VpnConnections" \in DOMAIN GetAll(m, s, o)
      BY <1>4, <2>2, PropertiesOf DEF PrivateProperties
    <3>2. Holds(q, Private, "VpnConnections")
      BY <1>6, <2>2, <3>1
    <3>3. q[Private]["VpnConnections"] = GetAll(m, s, Private)["VpnConnections"]
      BY <1>2, <2>2, <3>2 DEF Tells, Current, Holds
    <3>4. GetAll(m, s, Private)["VpnConnections"] = PrivateValue(m, s, "VpnConnections")
      BY GetAllIs DEF PrivateProperties
    <3>5. PrivateValue(m, s, "VpnConnections") = Paths(s.vpns)
      BY PrivateValueIs
    <3> QED BY <3>2, <3>3, <3>4, <3>5
  <2> QED BY <1>2, <1>5, <1>7, <1>9, <2>1, <2>2 DEF Serving, Speaks
<1> QED BY <1>8, <1>9

\* Nothing is announced; a call may be answered at once.
LEMMA Quiet ==
  ASSUME TypeInv, PendInv, up, mgr' = mgr, pend' = pend, NEW A,
         svc' = Svc(svc.sims, svc.modems, svc.vpns, A, svc.nextModem, svc.nextVpn),
         NEW replies, IsSeq(replies), bus' = bus \o replies,
         \A e \in Elements(replies) : e.type = "reply" /\ e.path = NoPath
  PROVE  Serving(pend, replies)
<1>1. /\ Untouched(mgr, svc', Private, {}) /\ svc'.sims = svc.sims
      /\ svc'.nextModem = svc.nextModem
  BY VpnsUntouched
<1>2. Tells(pend, mgr, svc')
  BY <1>1, QuietTells
<1>3. Pending(pend, N) /\ svc.nextModem \in Nat
  BY ServiceParts DEF TypeInv
<1>4. Waiting(pend)
  BY DEF PendInv
<1>5. ~Holds(pend, Private, "Sims")
  BY <1>4 DEF Waiting, Lists
<1>6. svc.nextModem <= svc'.nextModem
  BY <1>1, <1>3
<1> QED BY <1>1, <1>2, <1>3, <1>4, <1>5, <1>6 DEF Serving, Waits

\* No value of the manager is one of the lists of objects.
LEMMA AnnouncesPlain ==
  ASSUME NEW f
  PROVE  Announces(f) \cap Lists = {} /\ "Sims" \notin Announces(f)
<1> DEFINE D == DOMAIN StatusReads \cup DOMAIN PrivateReads \cup SwitchProperties
           S == {p \in DOMAIN StatusReads : StatusReads[p] = f}
           R == {p \in DOMAIN PrivateReads : PrivateReads[p] = f}
<1>1. Announces(f) \in {{"FlightMode", "HotspotSwitchEnabled"}, {"WifiEnabled", "HotspotSwitchEnabled"},
                        SwitchProperties, S \cup R}
  <2>1. CASE f = "flightMode"
    BY <2>1, Zenon DEF Announces
  <2>2. CASE f = "wifiEnabled"
    <3>1. "wifiEnabled" # "flightMode"
      OBVIOUS
    <3> QED BY <2>2, <3>1, Zenon DEF Announces
  <2>3. CASE f = "unstoppable"
    <3>1. "unstoppable" # "flightMode" /\ "unstoppable" # "wifiEnabled"
      OBVIOUS
    <3> QED BY <2>3, <3>1, Zenon DEF Announces
  <2>4. CASE f \notin {"flightMode", "wifiEnabled", "unstoppable"}
    BY <2>4, Zenon DEF Announces
  <2> QED BY <2>1, <2>2, <2>3, <2>4
<1>2. {"FlightMode", "HotspotSwitchEnabled"} \subseteq D /\ {"WifiEnabled", "HotspotSwitchEnabled"} \subseteq D
  BY DEF StatusReads, SwitchProperties
<1>3. SwitchProperties \subseteq D /\ S \cup R \subseteq D
  OBVIOUS
<1>4. Announces(f) \subseteq D
  BY <1>1, <1>2, <1>3
<1>5. D \cap Lists = {} /\ "Sims" \notin D
  BY DEF Lists, StatusReads, PrivateReads, SwitchProperties
<1> QED BY <1>4, <1>5

\* Each operation is a step of the service: a flag,
LEMMA FlagServes ==
  ASSUME TypeInv, PendInv, up, NEW f \in Flags, NEW v \in BOOLEAN, SetFlag(f, v)
  PROVE  \E q : Serving(q, <<>>)
<1>1. PICK m : m = mgr'
  OBVIOUS
<1>2. Manager(m) /\ Service(m, svc) /\ svc' = svc /\ m.sims = mgr.sims
  BY <1>1, FlagTyped
<1>3. m = [mgr EXCEPT !.flags[f] = v]
  BY <1>1 DEF SetFlag
<1>4. PICK o : o = AnnouncedOn(f)
  OBVIOUS
<1>5. PICK names : names = Announces(f)
  OBVIOUS
<1>6. Untouched(m, svc, o, names) /\ o \in {Private, Status}
  BY <1>2, <1>3, <1>4, <1>5, FlagUntouched
<1>7. o \in Served(svc) /\ svc.nextModem \in Nat
  BY <1>6, ServiceParts DEF Served, TypeInv
<1>8. names \cap Lists = {} /\ "Sims" \notin names
  BY <1>5, AnnouncesPlain
<1>9. Announce(m, svc, o, names) \/ AnnounceNow(m, svc, o, names, <<>>)
  <2>1. f = "unstoppable" => o = Status
    BY <1>4, AnnouncesFlag
  <2> QED BY <1>1, <1>2, <1>4, <1>5, <2>1 DEF SetFlag
<1>10. svc.nextModem <= svc.nextModem
  BY <1>7
<1> QED BY <1>1, <1>2, <1>6, <1>7, <1>8, <1>9, <1>10, Announcing, NoReplies

\* a property of a SIM,
LEMMA BitServes ==
  ASSUME TypeInv, PendInv, up, NEW i \in mgr.sims, NEW p \in SimProperties, NEW v \in BOOLEAN,
         SetBit(i, p, v)
  PROVE  \E q : Serving(q, <<>>)
<1>1. PICK m : m = mgr'
  OBVIOUS
<1>2. Manager(m) /\ Service(m, svc) /\ svc' = svc /\ m.sims = mgr.sims
  BY <1>1, BitTyped
<1>3. PICK o : o = SimObject(svc.sims[i])
  OBVIOUS
<1>4. /\ m.flags = mgr.flags /\ m.choice = mgr.choice /\ m.modems = mgr.modems
      /\ OneBit(m, i, p)
  BY <1>1, BitSetIs
<1>5. Untouched(m, svc, o, {p}) /\ o \in Served(svc)
  <2>1. /\ Untouched(m, svc, SimObject(svc.sims[i]), {p})
        /\ SimObject(svc.sims[i]) \in Served(svc)
    BY <1>2, <1>4, BitUntouched
  <2> QED BY <1>3, <2>1
<1>6. "Sims" \notin {p} /\ o # Private
  BY <1>3, ObjectsDiffer DEF SimProperties
<1>7. Announce(m, svc, o, {p})
  BY <1>1, <1>2, <1>3 DEF SetBit
<1>8. svc.nextModem <= svc.nextModem
  BY ServiceParts DEF TypeInv
<1> QED BY <1>1, <1>2, <1>5, <1>6, <1>7, <1>8, Announcing

\* nothing,
LEMMA NothingServes ==
  ASSUME TypeInv, PendInv, up, UNCHANGED <<mgr, svc, pend, bus>>
  PROVE  Serving(pend, <<>>)
<1>1. svc' = Svc(svc.sims, svc.modems, svc.vpns, svc.addQueue, svc.nextModem, svc.nextVpn)
  BY ServiceParts DEF TypeInv
<1>2. bus' = bus \o <<>>
  BY NoReplies DEF TypeInv, Messages
<1> QED BY <1>1, <1>2, NoReplies, Quiet

\* the choice,
LEMMA ChoiceServes ==
  ASSUME TypeInv, PendInv, up, svc' = svc, NEW i \in mgr.sims \cup {NoSim},
         SetSimForMobileData(i)
  PROVE  (\E q : Serving(q, <<>>)) /\ mgr'.choice = i
<1>1. CASE mgr.choice = i
  <2>1. UNCHANGED <<mgr, pend, bus>>
    BY <1>1 DEF SetSimForMobileData
  <2>2. Serving(pend, <<>>)
    BY <2>1, NothingServes
  <2> QED BY <1>1, <2>1, <2>2
<1>2. CASE mgr.choice # i
  <2>1. PICK m : m = mgr'
    OBVIOUS
  <2>2. Manager(m) /\ Service(m, svc) /\ m.sims = mgr.sims
    BY <2>1, ChoiceTyped
  <2>3. m = [mgr EXCEPT !.choice = i] /\ Announce(m, svc, Private, {"SimForMobileData"})
    BY <1>2, <2>1 DEF SetSimForMobileData
  <2>4. Untouched(m, svc, Private, {"SimForMobileData"}) /\ m.choice = i
    BY <2>2, <2>3, ChoiceUntouched
  <2>5. Private \in Served(svc) /\ svc.nextModem <= svc.nextModem
    BY ServiceParts DEF TypeInv, Served
  <2>6. PICK names : names = {"SimForMobileData"}
    OBVIOUS
  <2>7. "Sims" \notin names /\ names \cap Lists = {}
    BY <2>6 DEF Lists
  <2>8. \E q : Serving(q, <<>>)
    BY <2>1, <2>2, <2>3, <2>4, <2>5, <2>6, <2>7, Announcing
  <2> QED BY <2>1, <2>4, <2>8
<1> QED BY <1>1, <1>2

\* a list of objects,
LEMMA ListServes ==
  ASSUME TypeInv, PendInv, up, NEW m, NEW s, Manager(m), Service(m, s), mgr' = m, svc' = s,
         m.sims = mgr.sims, s.sims = svc.sims, svc.nextModem <= s.nextModem,
         NEW names, Untouched(m, s, Private, names), "Sims" \notin names,
         AnnounceNow(m, s, Private, names, <<>>)
  PROVE  \E q : Serving(q, <<>>)
<1>1. Private \in Served(s)
  BY DEF Served
<1> QED BY <1>1, Announcing, NoReplies

\* a new VPN connection,
LEMMA NewConnectionServes ==
  ASSUME TypeInv, PendInv, NEW v, NewConnection(v)
  PROVE  \E q, replies : Serving(q, replies)
<1>1. PICK V : V = With(svc.vpns, v, svc.nextVpn)
  OBVIOUS
<1>2. PICK A, replies :
          /\ Answers(replies)
          /\ svc' = Svc(svc.sims, svc.modems, V, A, svc.nextModem, svc.nextVpn + 1)
          /\ AnnounceNow(mgr, svc', Private, {"VpnConnections"}, replies)
          /\ \A m \in Elements(replies) : m.type = "reply" /\ m.path = svc.nextVpn
  BY <1>1, NewConnectionIs
<1>3. up /\ mgr' = mgr
  BY DEF NewConnection
<1>4. PICK z : z = svc.nextVpn + 1
  OBVIOUS
<1>5. PICK s : s = Svc(svc.sims, svc.modems, V, A, svc.nextModem, z)
  OBVIOUS
<1>6. PICK names : names = {"VpnConnections"}
  OBVIOUS
<1>7. svc' = s
  BY <1>2, <1>4, <1>5
<1>8. /\ Untouched(mgr, s, Private, names) /\ Service(mgr, s) /\ s.sims = svc.sims
      /\ s.nextModem = svc.nextModem
  BY <1>3, <1>5, <1>6, VpnsUntouched
<1>9. s.vpns = V /\ svc.nextVpn \in Paths(V)
  BY <1>1, <1>5, SvcFields DEF With, Paths
<1>10. Private \in Served(s) /\ Manager(mgr) /\ svc.nextModem <= s.nextModem
  BY <1>3, <1>8, ServiceParts DEF TypeInv, Served
<1>11. IsSeq(replies) /\ "Sims" \notin names
  BY <1>2, <1>6 DEF Answers
<1>12. \A e \in Elements(replies) : e.type = "reply" /\ "VpnConnections" \in names /\ e.path \in Paths(s.vpns)
  BY <1>2, <1>6, <1>9
<1>13. AnnounceNow(mgr, s, Private, names, replies)
  BY <1>2, <1>6, <1>7
<1>14. \E q : Serving(q, replies)
  BY <1>3, <1>7, <1>8, <1>10, <1>11, <1>12, <1>13, Announcing
<1> QED BY <1>14

\* one that is gone,
LEMMA ConnectionRemovedServes ==
  ASSUME TypeInv, PendInv, NEW v, ConnectionRemoved(v)
  PROVE  \E q : Serving(q, <<>>)
<1>1. PICK V : V = Only(svc.vpns, Vpns \ {v})
  OBVIOUS
<1>2. PICK s : s = Svc(svc.sims, svc.modems, V, svc.addQueue, svc.nextModem, svc.nextVpn)
  OBVIOUS
<1>3. PICK names : names = {"VpnConnections"}
  OBVIOUS
<1>4. up /\ mgr' = mgr /\ svc' = s /\ AnnounceNow(mgr, s, Private, names, <<>>)
  BY <1>1, <1>2, <1>3, ConnectionRemovedIs
<1>5. /\ Untouched(mgr, s, Private, names) /\ Service(mgr, s) /\ s.sims = svc.sims
      /\ s.nextModem = svc.nextModem
  BY <1>2, <1>3, <1>4, VpnsUntouched
<1>6. Manager(mgr) /\ svc.nextModem <= s.nextModem /\ "Sims" \notin names
  BY <1>3, <1>4, <1>5, ServiceParts DEF TypeInv
<1> QED BY <1>4, <1>5, <1>6, ListServes

\* a new modem,
LEMMA ModemReadyServes ==
  ASSUME TypeInv, PendInv, NEW x \in Serials, NEW i \in mgr.sims \cup {NoSim}, ModemReady(x, i)
  PROVE  \E q : Serving(q, <<>>)
<1>1. PICK d : d = [path |-> svc.nextModem, sim |-> PathIn(svc, i)]
  OBVIOUS
<1>2. PICK M : M = With(svc.modems, x, d)
  OBVIOUS
<1>3. PICK K : K = With(mgr.modems, x, i)
  OBVIOUS
<1>4. PICK z : z = svc.nextModem + 1
  OBVIOUS
<1>5. PICK m : m = ModemsOf(mgr, K)
  OBVIOUS
<1>6. PICK s : s = ModemsIn(svc, M, z)
  OBVIOUS
<1>7. /\ up /\ x \notin DOMAIN mgr.modems /\ mgr' = m /\ svc' = s
      /\ Manager(m) /\ Service(m, s) /\ AnnounceNow(m, s, Private, {"Modems"}, <<>>)
  BY <1>1, <1>2, <1>3, <1>4, <1>5, <1>6, ModemReadyIs
<1>8. DOMAIN svc.modems = DOMAIN mgr.modems /\ svc.nextModem \in Nat
  BY <1>7, ServiceParts DEF TypeInv
<1>9. \A y \in DOMAIN M :
          \/ /\ y \in DOMAIN svc.modems /\ M[y].path = svc.modems[y].path
             /\ PathIn(svc, K[y]) = PathIn(svc, mgr.modems[y])
          \/ M[y].path >= svc.nextModem
  <2>1. d.path >= svc.nextModem
    BY <1>1, <1>8
  <2>2. DOMAIN M = DOMAIN svc.modems \cup {x} /\ M[x] = d
        /\ \A y \in DOMAIN svc.modems : y # x => M[y] = svc.modems[y]
    BY <1>2 DEF With
  <2>3. \A y \in DOMAIN mgr.modems : y # x => K[y] = mgr.modems[y]
    BY <1>3 DEF With
  <2> QED BY <1>7, <1>8, <2>1, <2>2, <2>3
<1>10. PICK names : names = {"Modems"}
  OBVIOUS
<1>11. /\ Untouched(m, s, Private, names) /\ m.sims = mgr.sims /\ s.sims = svc.sims
       /\ s.nextModem = z
  BY <1>5, <1>6, <1>7, <1>9, <1>10, ModemsUntouched
<1>12. svc.nextModem <= s.nextModem /\ "Sims" \notin names
  BY <1>4, <1>8, <1>10, <1>11
<1> QED BY <1>7, <1>10, <1>11, <1>12, ListServes

\* one that is gone,
LEMMA ModemRemovedServes ==
  ASSUME TypeInv, PendInv, NEW x, ModemRemoved(x)
  PROVE  \E q : Serving(q, <<>>)
<1>1. PICK S : S = Serials \ {x}
  OBVIOUS
<1>2. PICK M : M = Only(svc.modems, S)
  OBVIOUS
<1>3. PICK K : K = Only(mgr.modems, S)
  OBVIOUS
<1>4. PICK z : z = svc.nextModem
  OBVIOUS
<1>5. PICK m : m = ModemsOf(mgr, K)
  OBVIOUS
<1>6. PICK s : s = ModemsIn(svc, M, z)
  OBVIOUS
<1>7. /\ up /\ mgr' = m /\ svc' = s
      /\ Manager(m) /\ Service(m, s) /\ AnnounceNow(m, s, Private, {"Modems"}, <<>>)
  BY <1>1, <1>2, <1>3, <1>4, <1>5, <1>6, ModemRemovedIs
<1>8. DOMAIN svc.modems = DOMAIN mgr.modems /\ svc.nextModem \in Nat
  BY <1>7, ServiceParts DEF TypeInv
<1>9. \A y \in DOMAIN M :
          \/ /\ y \in DOMAIN svc.modems /\ M[y].path = svc.modems[y].path
             /\ PathIn(svc, K[y]) = PathIn(svc, mgr.modems[y])
          \/ M[y].path >= svc.nextModem
  <2>1. DOMAIN M = DOMAIN svc.modems \cap S /\ \A y \in DOMAIN M : M[y] = svc.modems[y]
    BY <1>2 DEF Only
  <2>2. DOMAIN K = DOMAIN mgr.modems \cap S /\ \A y \in DOMAIN K : K[y] = mgr.modems[y]
    BY <1>3 DEF Only
  <2> QED BY <1>8, <2>1, <2>2
<1>10. PICK names : names = {"Modems"}
  OBVIOUS
<1>11. /\ Untouched(m, s, Private, names) /\ m.sims = mgr.sims /\ s.sims = svc.sims
       /\ s.nextModem = z
  BY <1>5, <1>6, <1>7, <1>9, <1>10, ModemsUntouched
<1>12. svc.nextModem <= s.nextModem /\ "Sims" \notin names
  BY <1>4, <1>8, <1>10, <1>11
<1> QED BY <1>7, <1>10, <1>11, <1>12, ListServes

\* another SIM in a modem,
LEMMA ModemSimServes ==
  ASSUME TypeInv, PendInv, NEW x, NEW i \in mgr.sims \cup {NoSim}, ModemSimUpdated(x, i)
  PROVE  \E q : Serving(q, <<>>)
<1>1. PICK k : k = svc.modems[x].path
  OBVIOUS
<1>2. PICK d : d = [path |-> k, sim |-> PathIn(svc, i)]
  OBVIOUS
<1>3. PICK M : M = Exchanged(svc.modems, x, d)
  OBVIOUS
<1>4. PICK K : K = Exchanged(mgr.modems, x, i)
  OBVIOUS
<1>5. PICK z : z = svc.nextModem
  OBVIOUS
<1>6. PICK m : m = ModemsOf(mgr, K)
  OBVIOUS
<1>7. PICK s : s = ModemsIn(svc, M, z)
  OBVIOUS
<1>8. /\ up /\ x \in DOMAIN mgr.modems /\ mgr' = m /\ svc' = s
      /\ Manager(m) /\ Service(m, s) /\ k \in Nat
      /\ (s = svc /\ UNCHANGED <<pend, bus>>) \/ Announce(m, s, ModemObject(k), {"Sim"})
  BY <1>1, <1>2, <1>3, <1>4, <1>5, <1>6, <1>7, ModemSimUpdatedIs
<1>9. /\ IsMap(svc.modems) /\ DOMAIN svc.modems = DOMAIN mgr.modems /\ z \in Nat
      /\ \A y \in DOMAIN svc.modems : ModemAt(svc.modems[y], PathIn(svc, mgr.modems[y]))
  BY <1>5, <1>8, ServiceParts DEF TypeInv
<1>10. /\ DOMAIN M = DOMAIN svc.modems /\ M[x] = d
       /\ \A y \in DOMAIN M : y # x => M[y] = svc.modems[y]
  BY <1>3, <1>8, <1>9 DEF Exchanged, IsMap
<1>11. K[x] = i /\ \A y \in DOMAIN mgr.modems : y # x => K[y] = mgr.modems[y]
  <2>1. IsMap(mgr.modems)
    BY <1>8, ManagerParts DEF TypeInv
  <2> QED BY <1>4, <1>8, <2>1 DEF Exchanged, IsMap
<1>12. d.path = k /\ d.sim = PathIn(svc, i)
  BY <1>2
<1>13. {M[y].path : y \in DOMAIN M} = {svc.modems[y].path : y \in DOMAIN svc.modems}
  BY <1>1, <1>10, <1>12
<1>14. ModemPaths(s) = ModemPaths(svc)
  <2>1. s.modems = M
    BY <1>7, SvcFields DEF ModemsIn
  <2> QED BY <1>13, <2>1 DEF ModemPaths
<1>15. CASE s = svc /\ UNCHANGED <<pend, bus>>
  <2>1. PathIn(svc, i) = PathIn(svc, mgr.modems[x])
    <3>1. s.modems = M
      BY <1>7, SvcFields DEF ModemsIn
    <3>2. ModemAt(d, PathIn(svc, mgr.modems[x]))
      BY <1>8, <1>9, <1>10, <1>15, <3>1
    <3>3. d = [path |-> d.path, sim |-> PathIn(svc, mgr.modems[x])]
      BY <3>2 DEF ModemAt
    <3>4. d.sim = PathIn(svc, mgr.modems[x])
      BY <3>3
    <3> QED BY <1>12, <3>4
  <2>2. \A y \in DOMAIN M :
            \/ /\ y \in DOMAIN svc.modems /\ M[y].path = svc.modems[y].path
               /\ PathIn(svc, K[y]) = PathIn(svc, mgr.modems[y])
            \/ M[y].path >= svc.nextModem
    BY <1>1, <1>8, <1>9, <1>10, <1>11, <1>12, <2>1
  <2>3. PICK names : names = {}
    OBVIOUS
  <2>4. /\ Untouched(m, s, Private, names) /\ m.sims = mgr.sims /\ s.sims = svc.sims
        /\ s.nextModem = z
    BY <1>6, <1>7, <1>8, <1>14, <2>2, ModemsUntouched
  <2>5. Tells(pend, m, s)
    BY <1>5, <1>8, <2>3, <2>4, QuietTells
  <2>6. Waiting(pend) /\ ~Holds(pend, Private, "Sims") /\ Pending(pend, N)
    BY DEF PendInv, Waiting, Lists, TypeInv
  <2>7. bus' = bus \o <<>> /\ pend' = pend
    BY <1>15, NoReplies DEF TypeInv, Messages
  <2>8. svc.nextModem <= s.nextModem
    BY <1>5, <1>9, <2>4
  <2> QED BY <1>8, <2>4, <2>5, <2>6, <2>7, <2>8, NoReplies DEF Serving, Waits
<1>16. CASE Announce(m, s, ModemObject(k), {"Sim"})
  <2>1. PICK o : o = ModemObject(k)
    OBVIOUS
  <2>2. PICK names : names = {"Sim"}
    OBVIOUS
  <2>3. \A y \in DOMAIN M :
            \/ o = ModemObject(M[y].path) /\ "Sim" \in names
            \/ /\ y \in DOMAIN svc.modems /\ M[y].path = svc.modems[y].path
               /\ PathIn(svc, K[y]) = PathIn(svc, mgr.modems[y])
            \/ M[y].path >= svc.nextModem
    BY <1>1, <1>8, <1>9, <1>10, <1>11, <1>12, <2>1, <2>2
  <2>4. /\ Untouched(m, s, o, names) /\ m.sims = mgr.sims /\ s.sims = svc.sims
        /\ s.nextModem = z
    BY <1>6, <1>7, <1>8, <1>14, <2>3, ModemsUntouched
  <2>5. o \in Served(s)
    <3>1. s.modems = M
      BY <1>7, SvcFields DEF ModemsIn
    <3> QED BY <1>8, <1>9, <1>10, <1>12, <2>1, <3>1 DEF Served
  <2>6. svc.nextModem <= s.nextModem /\ "Sims" \notin names /\ o # Private
    BY <1>5, <1>9, <2>1, <2>2, <2>4, ObjectsDiffer
  <2>7. Announce(m, s, o, names)
    BY <1>16, <2>1, <2>2
  <2> QED BY <1>8, <2>4, <2>5, <2>6, <2>7, Announcing
<1> QED BY <1>8, <1>15, <1>16

\* and a flush.
LEMMA FlushServes ==
  ASSUME TypeInv, PendInv, FlushPropertyChanges
  PROVE  \E q : Serving(q, <<>>)
<1>1. up /\ mgr' = mgr /\ svc' = svc /\ bus' = bus \o Signals(pend) /\ pend' = Empty
  BY DEF FlushPropertyChanges
<1>2. svc = Svc(svc.sims, svc.modems, svc.vpns, svc.addQueue, svc.nextModem, svc.nextVpn)
  BY <1>1, ServiceParts DEF TypeInv
<1>3. Untouched(mgr, svc, Private, {})
  <2>1. PICK s : s = Svc(svc.sims, svc.modems, svc.vpns, svc.addQueue, svc.nextModem, svc.nextVpn)
    OBVIOUS
  <2>2. Untouched(mgr, s, Private, {})
    BY <1>1, <2>1, VpnsUntouched
  <2> QED BY <1>2, <2>1, <2>2
<1>4. Tells(pend, mgr, svc)
  BY <1>1, <1>3, QuietTells
<1>5. Pending(pend, N) /\ svc.nextModem <= svc.nextModem /\ ~Holds(pend, Private, "Sims")
  BY <1>1, ServiceParts DEF TypeInv, PendInv, Waiting, Lists
<1>6. bus' = bus \o Signals(pend) \o <<>>
  <2>1. IsSeq(Signals(pend)) /\ IsSeq(bus)
    BY <1>5, SignalsTyped, TypeFacts DEF Messages, TypeInv
  <2>2. Signals(pend) \o <<>> = Signals(pend)
    BY <2>1, NoReplies
  <2>3. IsSeq(bus \o Signals(pend))
    BY <2>1, ConcatElements
  <2> QED BY <1>1, <2>3, NoReplies
<1> QED BY <1>1, <1>4, <1>5, <1>6, NoReplies DEF Serving, Speaks

-----------------------------------------------------------------------------
\* What the client and the choice of a SIM are after a step of the service

\* A flag leaves the choice alone,
LEMMA FlagChoice ==
  ASSUME TypeInv, NEW f, NEW v, SetFlag(f, v)
  PROVE  mgr'.choice = mgr.choice
<1>1. PICK m : m = mgr'
  OBVIOUS
<1>2. m = Mgr([mgr.flags EXCEPT ![f] = v], mgr.sims, mgr.choice, mgr.modems, mgr.bits)
  BY <1>1, FlagSet DEF SetFlag, TypeInv
<1> QED BY <1>1, <1>2, MgrFields

\* and so do modems.
LEMMA ModemsChoice ==
  ASSUME NEW K, mgr' = ModemsOf(mgr, K)
  PROVE  mgr'.choice = mgr.choice
BY MgrFields DEF ModemsOf

\* A handler takes the client's first call.
LEMMA HandlesIs ==
  ASSUME TypeInv, NEW method, Handles(method)
  PROVE  /\ up /\ up' = up /\ hist' = hist /\ cl.calls # <<>>
         /\ cl' = Calling(cl, Tail(cl.calls)) /\ Head(cl.calls).method = method
         /\ Request(Head(cl.calls), N)
BY HandlesTyped DEF Handles

\* The manager's steps are steps of the service,
LEMMA ManagesServes ==
  ASSUME TypeInv, PendInv, Manages, ~\E i \in Iccids, b \in BOOLEAN : SimAdded(i, b)
  PROVE  ServiceSteps
<1>1. ASSUME NEW f \in Varied, ManagerChanges(f)  PROVE ServiceSteps
  <2>1. up /\ SetFlag(f, ~mgr.flags[f]) /\ UNCHANGED <<up, cl, hist>> /\ f \in Flags
    BY <1>1, VariedAssumption DEF ManagerChanges, Happens
  <2>2. PICK v \in BOOLEAN : v = (~mgr.flags[f])
    OBVIOUS
  <2>3. SetFlag(f, v)
    BY <2>1, <2>2
  <2> QED BY <2>1, <2>3, FlagServes, FlagChoice DEF ServiceSteps, Awaits
<1>2. ASSUME NEW i \in Iccids, NEW p \in SimVaried, SimChanges(i, p)  PROVE ServiceSteps
  <2>1. /\ up /\ i \in mgr.sims /\ SetBit(i, p, ~mgr.bits[i][p]) /\ UNCHANGED <<up, cl, hist>>
        /\ p \in SimProperties
    BY <1>2, VariedAssumption DEF SimChanges, Happens
  <2>2. PICK v \in BOOLEAN : v = (~mgr.bits[i][p])
    OBVIOUS
  <2>3. SetBit(i, p, v)
    BY <2>1, <2>2
  <2>4. mgr'.choice = mgr.choice
    BY <2>1, <2>3, BitSetIs
  <2> QED BY <2>1, <2>3, <2>4, BitServes DEF ServiceSteps, Awaits
<1>3. ASSUME NEW i \in mgr.sims \cup {NoSim}, ManagerChooses(i)  PROVE ServiceSteps
  <2>1. up /\ SetSimForMobileData(i) /\ UNCHANGED <<up, svc, cl>> /\ hist' = Contested
    BY <1>3 DEF ManagerChooses, Happens
  <2> QED BY <2>1, ChoiceServes DEF ServiceSteps, Awaits
<1>4. ASSUME NEW x \in Serials, NEW i \in mgr.sims \cup {NoSim}, ModemReady(x, i)
      PROVE  ServiceSteps
  <2>1. up' = up /\ cl' = cl /\ mgr' = ModemsOf(mgr, With(mgr.modems, x, i)) /\ hist' = hist
    BY <1>4, ModemReadyIs DEF ModemReady
  <2> QED BY <1>4, <2>1, ModemReadyServes, ModemsChoice DEF ServiceSteps, Awaits
<1>5. ASSUME NEW x \in Serials, NEW i \in mgr.sims \cup {NoSim}, ModemSimUpdated(x, i)
      PROVE  ServiceSteps
  <2>1. /\ up' = up /\ cl' = cl /\ mgr' = ModemsOf(mgr, Exchanged(mgr.modems, x, i))
        /\ hist' = hist
    BY <1>5, ModemSimUpdatedIs DEF ModemSimUpdated
  <2> QED BY <1>5, <2>1, ModemSimServes, ModemsChoice DEF ServiceSteps, Awaits
<1>6. ASSUME NEW x \in Serials, ModemRemoved(x)  PROVE ServiceSteps
  <2>1. /\ up' = up /\ cl' = cl /\ mgr' = ModemsOf(mgr, Only(mgr.modems, Serials \ {x}))
        /\ hist' = hist
    BY <1>6, ModemRemovedIs DEF ModemRemoved
  <2> QED BY <1>6, <2>1, ModemRemovedServes, ModemsChoice DEF ServiceSteps, Awaits
<1>7. ASSUME NEW v \in Vpns, ConnectionCreated(v) \/ ConnectionDeleted(v)  PROVE ServiceSteps
  <2>1. up /\ UNCHANGED <<up, mgr, svc, pend, bus, cl, hist>>
    BY <1>7 DEF ConnectionCreated, ConnectionDeleted, Happens
  <2> QED BY <2>1, NothingServes DEF ServiceSteps, Awaits
<1> QED BY <1>1, <1>2, <1>3, <1>4, <1>5, <1>6, <1>7 DEF Manages

\* and so are its own.
LEMMA ServesServes ==
  ASSUME TypeInv, PendInv, Serves
  PROVE  ServiceSteps
<1>1. ASSUME NEW v \in Vpns, NewConnection(v)  PROVE ServiceSteps
  <2>1. UNCHANGED <<up, mgr, cl, hist>>
    BY <1>1 DEF NewConnection
  <2> QED BY <1>1, <2>1, NewConnectionServes DEF ServiceSteps, Awaits
<1>2. ASSUME NEW v \in Vpns, ConnectionRemoved(v)  PROVE ServiceSteps
  <2>1. UNCHANGED <<up, mgr, cl, hist>>
    BY <1>2 DEF ConnectionRemoved
  <2> QED BY <1>2, <2>1, ConnectionRemovedServes DEF ServiceSteps, Awaits
<1>3. ASSUME NEW v \in Vpns, HandleAddVpn(v)  PROVE ServiceSteps
  <2>1. /\ up /\ up' = up /\ hist' = hist /\ cl.calls # <<>> /\ cl' = Calling(cl, Tail(cl.calls))
        /\ ~Asks(Head(cl.calls)) /\ UNCHANGED <<mgr, pend, bus>>
    BY <1>3, HandlesIs DEF HandleAddVpn, Asks
  <2>2. PICK A : A = svc.addQueue \cup {[id |-> Head(cl.calls).id, vpn |-> v]}
    OBVIOUS
  <2>3. svc' = [svc EXCEPT !.addQueue = A]
    BY <1>3, <2>2 DEF HandleAddVpn
  <2>4. svc' = Svc(svc.sims, svc.modems, svc.vpns, A, svc.nextModem, svc.nextVpn)
    BY <2>1, <2>3, ServiceParts DEF Svc, TypeInv
  <2>5. bus' = bus \o <<>>
    BY <2>1, NoReplies DEF TypeInv, Messages
  <2>6. Serving(pend, <<>>)
    BY <2>1, <2>4, <2>5, NoReplies, Quiet
  <2> QED BY <2>1, <2>6 DEF ServiceSteps, Handled
<1>4. CASE FlushPropertyChanges
  <2>1. UNCHANGED <<up, mgr, cl, hist>>
    BY <1>4 DEF FlushPropertyChanges
  <2> QED BY <1>4, <2>1, FlushServes DEF ServiceSteps, Awaits
<1>5. CASE HandleSetSim
  <2>1. PICK p : p = Head(cl.calls).path
    OBVIOUS
  <2>2. /\ up /\ up' = up /\ hist' = hist /\ cl.calls # <<>> /\ cl' = Calling(cl, Tail(cl.calls))
        /\ Asks(Head(cl.calls)) /\ svc' = svc /\ p \in 0 .. N
    BY <1>5, <2>1, HandlesIs DEF HandleSetSim, Asks, Request
  <2>3. /\ DOMAIN svc.sims = mgr.sims /\ Paths(svc.sims) = 1 .. N /\ N \in Nat
        /\ mgr.sims \subseteq Iccids
    BY <2>2, ServiceParts, ManagerParts, TypeFacts DEF TypeInv, N
  <2>4. CASE p = NoPath
    <3>1. SetSimForMobileData(NoSim)
      BY <1>5, <2>1, <2>4 DEF HandleSetSim
    <3>2. (\E q : Serving(q, <<>>)) /\ mgr'.choice = NoSim
      BY <2>2, <3>1, ChoiceServes
    <3>3. PathIn(svc, mgr'.choice) = p
      BY <2>4, <3>2 DEF PathIn
    <3> QED BY <2>1, <2>2, <3>2, <3>3 DEF ServiceSteps, Handled
  <2>5. CASE p # NoPath
    <3>1. p \in Paths(svc.sims)
      BY <2>2, <2>3, <2>5 DEF NoPath
    <3>2. PICK i : i = CHOOSE j \in DOMAIN svc.sims : svc.sims[j] = p
      OBVIOUS
    <3>3. i \in mgr.sims /\ svc.sims[i] = p
      BY <2>3, <3>1, <3>2 DEF Paths
    <3>4. SetSimForMobileData(i)
      BY <1>5, <2>1, <2>5, <3>1, <3>2 DEF HandleSetSim
    <3>5. (\E q : Serving(q, <<>>)) /\ mgr'.choice = i
      BY <2>2, <3>3, <3>4, ChoiceServes
    <3>6. PathIn(svc, mgr'.choice) = p
      BY <2>3, <3>3, <3>5, SimsAssumption DEF PathIn
    <3> QED BY <2>1, <2>2, <3>5, <3>6 DEF ServiceSteps, Handled
  <2> QED BY <2>4, <2>5
<1>6. CASE HandleSetRoaming
  <2>1. PICK c : c = Head(cl.calls)
    OBVIOUS
  <2>2. /\ up /\ up' = up /\ hist' = hist /\ cl.calls # <<>> /\ cl' = Calling(cl, Tail(cl.calls))
        /\ ~Asks(c) /\ c.value \in BOOLEAN
    BY <1>6, <2>1, HandlesIs DEF HandleSetRoaming, Asks, Request
  <2>3. PICK is : is = {i \in DOMAIN svc.sims : svc.sims[i] = c.path}
    OBVIOUS
  <2>4. is \subseteq mgr.sims
    BY <2>2, <2>3, ServiceParts DEF TypeInv
  <2>5. CASE \E i \in is : mgr.bits[i]["DataRoamingEnabled"] # c.value
    <3>1. PICK i : i = CHOOSE j \in is : TRUE
      OBVIOUS
    <3>2. SetBit(i, "DataRoamingEnabled", c.value)
      BY <1>6, <2>1, <2>3, <2>5, <3>1 DEF HandleSetRoaming
    <3>3. i \in mgr.sims
      BY <2>4, <2>5, <3>1
    <3>4. PICK p \in SimProperties : p = "DataRoamingEnabled"
      BY DEF SimProperties
    <3>5. PICK v \in BOOLEAN : v = c.value
      BY <2>2
    <3>6. SetBit(i, p, v)
      BY <3>2, <3>4, <3>5
    <3>7. mgr'.choice = mgr.choice
      BY <3>3, <3>6, BitSetIs
    <3>8. \E q : Serving(q, <<>>)
      BY <2>2, <3>3, <3>6, BitServes
    <3> QED BY <2>1, <2>2, <3>7, <3>8 DEF ServiceSteps, Handled
  <2>6. CASE ~\E i \in is : mgr.bits[i]["DataRoamingEnabled"] # c.value
    <3>1. UNCHANGED <<mgr, svc, pend, bus>>
      BY <1>6, <2>1, <2>3, <2>6 DEF HandleSetRoaming
    <3> QED BY <2>1, <2>2, <3>1, NothingServes DEF ServiceSteps, Handled
  <2> QED BY <2>5, <2>6
<1>7. CASE HandleAddVpnRefused
  <2>1. PICK id : id = Head(cl.calls).id
    OBVIOUS
  <2>2. /\ up /\ up' = up /\ hist' = hist /\ cl.calls # <<>> /\ cl' = Calling(cl, Tail(cl.calls))
        /\ ~Asks(Head(cl.calls)) /\ UNCHANGED <<mgr, pend, svc>>
    BY <1>7, HandlesIs DEF HandleAddVpnRefused, Asks
  <2>3. bus' = Append(bus, Reply(id, NoPath))
    BY <1>7, <2>1 DEF HandleAddVpnRefused
  <2>4. PICK e : e = Reply(id, NoPath)
    OBVIOUS
  <2>5. bus' = bus \o <<e>> /\ IsSeq(<<e>>) /\ Elements(<<e>>) = {e}
    BY <2>3, <2>4, AppendElements DEF TypeInv, Messages
  <2>6. svc' = Svc(svc.sims, svc.modems, svc.vpns, svc.addQueue, svc.nextModem, svc.nextVpn)
    BY <2>2, ServiceParts DEF TypeInv
  <2>7. e.type = "reply" /\ e.path = NoPath
    BY <2>4 DEF Reply
  <2>8. Serving(pend, <<e>>)
    BY <2>2, <2>5, <2>6, <2>7, Quiet
  <2> QED BY <2>2, <2>8 DEF ServiceSteps, Handled
<1>8. CASE HandleRemoveVpn
  <2>1. /\ up /\ up' = up /\ hist' = hist /\ cl.calls # <<>> /\ cl' = Calling(cl, Tail(cl.calls))
        /\ ~Asks(Head(cl.calls)) /\ UNCHANGED <<mgr, pend, svc, bus>>
    BY <1>8, HandlesIs DEF HandleRemoveVpn, Asks
  <2> QED BY <2>1, NothingServes DEF ServiceSteps, Handled
<1>9. ASSUME NEW b \in BOOLEAN, HandleSet(b)  PROVE ServiceSteps
  <2>1. PICK c : c = Head(cl.calls)
    OBVIOUS
  <2>2. /\ up /\ up' = up /\ hist' = hist /\ cl.calls # <<>> /\ cl' = Calling(cl, Tail(cl.calls))
        /\ ~Asks(c) /\ c.flag \in Flags /\ c.value \in BOOLEAN
    BY <1>9, <2>1, HandlesIs DEF HandleSet, Asks, Request
  <2>3. CASE SetFlag(c.flag, c.value)
    BY <2>1, <2>2, <2>3, FlagServes, FlagChoice DEF ServiceSteps, Handled
  <2>4. CASE UNCHANGED <<mgr, svc, pend, bus>>
    BY <2>1, <2>2, <2>4, NothingServes DEF ServiceSteps, Handled
  <2> QED BY <1>9, <2>1, <2>3, <2>4 DEF HandleSet
<1> QED BY <1>1, <1>2, <1>3, <1>4, <1>5, <1>6, <1>7, <1>8, <1>9 DEF Serves

\* SimAdded is such a step: the list goes out before a choice that needs
\* it.
LEMMA SimAddedEnlarges ==
  ASSUME TypeInv, PendInv, NEW i \in Iccids, NEW chosen \in BOOLEAN, SimAdded(i, chosen)
  PROVE  \E q, m : Enlarges(q, m)
<1>1. PICK m : m = WithSim(mgr, i)
  OBVIOUS
<1>2. PICK m2 : m2 = IF chosen THEN Choosing(m, i) ELSE m
  OBVIOUS
<1>3. PICK s : s = SimIn(svc, i, N + 1)
  OBVIOUS
<1>4. PICK names : names = {"Sims"}
  OBVIOUS
<1>5. PICK q : q = Notify(pend, m, s, Private, names)
  OBVIOUS
<1>6. PICK r : r = Notify(Empty, m2, s, Private, {"SimForMobileData"})
  OBVIOUS
<1>7. /\ up /\ up' = up /\ cl' = cl /\ i \notin mgr.sims
      /\ mgr' = m2 /\ svc' = s /\ N' = N + 1
      /\ Manager(m) /\ Service(m, s) /\ Manager(m2) /\ Service(m2, s)
      /\ bus' = bus \o Signals(q)
      /\ pend' = IF chosen THEN r ELSE Empty
  BY <1>1, <1>2, <1>3, <1>4, <1>5, <1>6, SimAddedIs
<1>8. Manager(mgr) /\ Service(mgr, svc) /\ N \in Nat /\ Pending(pend, N)
  BY <1>7, TypeFacts DEF TypeInv
<1>9. /\ m.sims = mgr.sims \cup {i} /\ m.choice = mgr.choice /\ i \in m.sims
  BY <1>1, <1>8, WithSimTyped
<1>10. PICK n \in Nat : n = N + 1 /\ n = Cardinality(m.sims)
  BY <1>7, <1>8, <1>9, SimsFinite, ManagerParts DEF N
<1>11. Untouched(m, s, Private, names) /\ s.nextModem = svc.nextModem
  BY <1>1, <1>3, <1>4, <1>7, SimUntouched
<1>12. Private \in Served(s) /\ svc.nextModem <= s.nextModem /\ s.nextModem \in Nat
  BY <1>7, <1>8, <1>11, ServiceParts DEF Served
<1>13. Tells(q, m, s)
  BY <1>5, <1>7, <1>11, <1>12, NotifyTells
<1>14. Pending(q, n)
  BY <1>5, <1>7, <1>8, <1>10, NotifyTyped, TypesGrow DEF ObjectsOf
<1>15. "Sims" \in DOMAIN GetAll(m, s, Private) /\ GetAll(m, s, Private)["Sims"] = 1 .. n
  <2>1. Paths(s.sims) = 1 .. n
    BY <1>7, <1>10, ServiceParts
  <2>2. GetAll(m, s, Private) = [p \in PrivateProperties |-> PrivateValue(m, s, p)]
    BY GetAllIs
  <2>3. PrivateValue(m, s, "Sims") = 1 .. n
    BY <2>1, PrivateValueIs
  <2> QED BY <2>2, <2>3 DEF PrivateProperties
<1>16. /\ \A x, p : Holds(q, x, p)
             <=> Holds(pend, x, p) \/ (x = Private /\ p \in names /\ p \in DOMAIN GetAll(m, s, Private))
       /\ \A p \in names : p \in DOMAIN GetAll(m, s, Private)
             => q[Private][p] = GetAll(m, s, Private)[p]
       /\ \A x, p : Holds(pend, x, p)
                /\ ~(x = Private /\ p \in names /\ p \in DOMAIN GetAll(m, s, Private))
             => q[x][p] = pend[x][p]
  BY <1>5, NotifyIs
<1>17. Holds(q, Private, "Sims") /\ q[Private]["Sims"] = 1 .. n
  BY <1>4, <1>15, <1>16
<1>18. ~Holds(q, Private, "VpnConnections") /\ ~Holds(q, Private, "Modems")
  BY <1>4, <1>16 DEF PendInv, Waiting, Lists
<1>19. ASSUME Holds(q, Private, "SimForMobileData")
       PROVE  q[Private]["SimForMobileData"] \in 0 .. N
  <2>1. Holds(pend, Private, "SimForMobileData")
    BY <1>4, <1>16, <1>19
  <2>2. q[Private]["SimForMobileData"] = pend[Private]["SimForMobileData"]
    BY <1>4, <1>16, <2>1
  <2>3. Values(Private, pend[Private], N)
    BY <1>8, <2>1 DEF Holds, Pending
  <2> QED BY <2>1, <2>2, <2>3 DEF Values, Holds
<1>20. ASSUME chosen  
       PROVE  /\ \A x, p : Holds(r, x, p) <=> x = Private /\ p = "SimForMobileData"
              /\ r[Private]["SimForMobileData"] = GetAll(m2, s, Private)["SimForMobileData"]
              /\ DOMAIN r = {Private}
  <2>1. "SimForMobileData" \in DOMAIN GetAll(m2, s, Private)
    BY GetAllIs DEF PrivateProperties
  <2>2. PICK sm : sm = {"SimForMobileData"}
    OBVIOUS
  <2>3. /\ \A x, p : Holds(r, x, p)
             <=> Holds(Empty, x, p) \/ (x = Private /\ p \in sm /\ p \in DOMAIN GetAll(m2, s, Private))
        /\ \A x : x \in DOMAIN r <=> x \in DOMAIN Empty \/ x = Private
        /\ \A p \in sm : p \in DOMAIN GetAll(m2, s, Private)
             => r[Private][p] = GetAll(m2, s, Private)[p]
    BY <1>6, <2>2, NotifyIs
  <2>4. \A x, p : ~Holds(Empty, x, p)
    BY EmptyFacts DEF Holds
  <2> QED BY <2>1, <2>2, <2>3, <2>4, EmptyFacts
<1>21. ASSUME ~chosen  PROVE mgr' = m /\ pend' = Empty
  BY <1>2, <1>7, <1>21
<1>22. PendInv'
  <2>1. CASE chosen
    <3>1. pend' = r
      BY <1>7, <2>1
    <3>2. Waiting(r)
      BY <1>20, <2>1 DEF Waiting, Lists
    <3>3. Current(r, m2, s)
      BY <1>20, <2>1 DEF Current, Holds
    <3>4. NoModemFrom(r, s.nextModem)
      BY <1>20, <2>1, ObjectsDiffer DEF NoModemFrom
    <3> QED BY <1>7, <3>1, <3>2, <3>3, <3>4 DEF PendInv
  <2>2. CASE ~chosen
    BY <1>7, <1>21, <2>2, EmptyFacts DEF PendInv, Waiting, Current, NoModemFrom, Holds
  <2> QED BY <2>1, <2>2
<1>23. \A o \in Served(s) : \A p \in Properties(o) :
          Holds(pend', o, p) \/ GetAll(m2, s, o)[p] = GetAll(m, s, o)[p]
  <2>1. CASE chosen
    <3>1. m2 = Choosing(m, i)
      BY <1>2, <2>1
    <3>2. m2.flags = m.flags /\ m2.sims = m.sims /\ m2.modems = m.modems /\ m2.bits = m.bits
      BY <1>7, <1>9, <3>1, ChoosingTyped
    <3> SUFFICES ASSUME NEW o \in Served(s), NEW p \in Properties(o), ~Holds(pend', o, p)
                 PROVE  GetAll(m2, s, o)[p] = GetAll(m, s, o)[p]
      OBVIOUS
    <3>3. CASE o = Status
      <4>1. StatusValue(m2, p) = StatusValue(m, p)
        BY <3>2 DEF StatusValue
      <4> QED BY <3>3, <4>1, GetAllIs, PropertiesOf
    <3>4. CASE o = Private
      <4>1. p \in PrivateProperties /\ p # "SimForMobileData"
        BY <1>7, <1>20, <2>1, <3>4, PropertiesOf
      <4>2. PrivateValue(m2, s, p) = PrivateValue(m, s, p)
        <5>1. /\ \A x \in DOMAIN PrivateReads : PrivateValue(m, s, x) = m.flags[PrivateReads[x]]
              /\ \A x \in DOMAIN PrivateReads : PrivateValue(m2, s, x) = m2.flags[PrivateReads[x]]
          BY FlagValueIs
        <5>2. /\ PrivateValue(m, s, "Modems") = PrivateValue(m2, s, "Modems")
              /\ PrivateValue(m, s, "Sims") = PrivateValue(m2, s, "Sims")
              /\ PrivateValue(m, s, "VpnConnections") = PrivateValue(m2, s, "VpnConnections")
          <6>1. /\ PrivateValue(m, s, "Modems") = {s.modems[x].path : x \in DOMAIN s.modems}
                /\ PrivateValue(m, s, "Sims") = Paths(s.sims)
                /\ PrivateValue(m, s, "VpnConnections") = Paths(s.vpns)
            BY PrivateValueIs
          <6>2. /\ PrivateValue(m2, s, "Modems") = {s.modems[x].path : x \in DOMAIN s.modems}
                /\ PrivateValue(m2, s, "Sims") = Paths(s.sims)
                /\ PrivateValue(m2, s, "VpnConnections") = Paths(s.vpns)
            BY PrivateValueIs
          <6> QED BY <6>1, <6>2
        <5> QED BY <3>2, <4>1, <5>1, <5>2 DEF PrivateProperties
      <4> QED BY <3>4, <4>1, <4>2, GetAllIs
    <3>5. ASSUME NEW x \in DOMAIN s.modems, o = ModemObject(s.modems[x].path)
          PROVE  GetAll(m2, s, o)[p] = GetAll(m, s, o)[p]
      <4>1. PICK k : k = s.modems[x].path
        OBVIOUS
      <4>2. p = "Sim"
        <5>1. k \in Nat
          BY <1>7, <1>12, <4>1, ServiceParts
        <5> QED BY <3>5, <4>1, <5>1, PropertiesOf
      <4>3. GetAll(m, s, ModemObject(k))["Sim"] = PathIn(s, m.modems[x])
        BY <1>7, <4>1, ModemSays
      <4>4. GetAll(m2, s, ModemObject(k))["Sim"] = PathIn(s, m2.modems[x])
        BY <1>7, <4>1, ModemSays
      <4> QED BY <3>2, <3>5, <4>1, <4>2, <4>3, <4>4
    <3>6. ASSUME NEW j \in DOMAIN s.sims, o = SimObject(s.sims[j])
          PROVE  GetAll(m2, s, o)[p] = GetAll(m, s, o)[p]
      <4>1. j \in m.sims /\ j \in m2.sims
        BY <1>7, <3>2, ServiceParts
      <4>2. GetAll(m, s, SimObject(s.sims[j])) = m.bits[j]
        BY <1>7, <4>1, SimValue
      <4>3. GetAll(m2, s, SimObject(s.sims[j])) = m2.bits[j]
        BY <1>7, <4>1, SimValue
      <4> QED BY <3>2, <3>6, <4>2, <4>3
    <3> QED BY <3>3, <3>4, <3>5, <3>6 DEF Served
  <2>2. CASE ~chosen
    BY <1>2, <2>2
  <2> QED BY <2>1, <2>2
<1>24. \/ hist' = hist /\ PathIn(s, m2.choice) = PathIn(svc, mgr.choice)
       \/ hist' = Contested
  <2>1. CASE chosen
    BY <2>1 DEF SimAdded
  <2>2. CASE ~chosen
    <3>1. hist' = hist
      BY <2>2 DEF SimAdded
    <3>2. m2.choice = mgr.choice /\ mgr.choice \in mgr.sims \cup {NoSim}
      BY <1>2, <1>8, <1>9, <2>2, ManagerParts
    <3>3. \A j \in mgr.sims \cup {NoSim} : PathIn(s, j) = PathIn(svc, j)
      <4>1. PICK k : k = N + 1
        OBVIOUS
      <4> QED BY <1>3, <1>7, <1>8, <4>1, SimServed DEF N
    <3> QED BY <3>1, <3>2, <3>3
  <2> QED BY <2>1, <2>2
<1>25. Enlarges(q, m)
  BY <1>7, <1>10, <1>12, <1>13, <1>14, <1>17, <1>18, <1>19, <1>22, <1>23, <1>24 DEF Enlarges
<1> QED BY <1>25

\* The steps of the system, sorted by what the client sees of them.
LEMMA NextIs ==
  ASSUME TypeInv, PendInv, [Next]_vars
  PROVE  \/ ServiceSteps
         \/ \E q, m : Enlarges(q, m)
         \/ Crash
         \/ Start
         \/ Follows
         \/ \E p \in cl.sims \cup {NoPath} : UserSetsSim(p)
         \/ \E e : UserCalls(e)
         \/ UNCHANGED vars
<1>1. CASE Manages
  BY <1>1, ManagesServes, SimAddedEnlarges
<1>2. CASE Uses
  <2>1. CASE \E p \in cl.sims \cup {NoPath} : UserSetsSim(p)
    BY <2>1
  <2>2. CASE ~\E p \in cl.sims \cup {NoPath} : UserSetsSim(p)
    BY <1>2, <2>2, UserCallsIs DEF Uses
  <2> QED BY <2>1, <2>2
<1> QED BY <1>1, <1>2, ServesServes DEF Next

\* The empty queue satisfies the invariant.
LEMMA PendNone == \A m, s : Waiting(Empty) /\ Current(Empty, m, s) /\ NoModemFrom(Empty, s.nextModem)
BY EmptyFacts DEF Waiting, Current, NoModemFrom, Holds

\* What the client receives changes nothing of the service.
LEMMA FollowsKeeps ==
  ASSUME Follows
  PROVE  ClientKeeps /\ Receives
BY DEF Follows, ClientPropertiesChanged, ServiceLost, ServiceOwnerChanged, AddConnectionFinished,
       Receive

\* Every step keeps the invariant of the queue,
LEMMA PendStep ==
  ASSUME TypeInv, PendInv, [Next]_vars
  PROVE  PendInv'
<1>1. CASE UNCHANGED <<mgr, svc, pend>>
  BY <1>1 DEF PendInv
<1>2. CASE ServiceSteps
  <2>1. PICK q, replies : Serving(q, replies)
    BY <1>2 DEF ServiceSteps
  <2>2. CASE Waits(q, replies)
    BY <2>1, <2>2 DEF Serving, Waits, Tells, PendInv
  <2>3. CASE Speaks(q, replies)
    BY <2>3, PendNone DEF Speaks, PendInv
  <2> QED BY <2>1, <2>2, <2>3 DEF Serving
<1>3. CASE \E q, m : Enlarges(q, m)
  BY <1>3 DEF Enlarges
<1>4. CASE Crash
  <2>1. pend' = Empty
    BY <1>4 DEF Crash
  <2> QED BY <2>1, PendNone DEF PendInv
<1>5. CASE Start
  <2>1. pend' = Empty
    BY <1>5, StartIs
  <2> QED BY <2>1, PendNone DEF PendInv
<1>6. CASE Follows
  BY <1>1, <1>6, FollowsKeeps DEF ClientKeeps
<1>7. CASE \E p \in cl.sims \cup {NoPath} : UserSetsSim(p)
  BY <1>1, <1>7, UserSetsSimIs
<1>8. CASE \E e : UserCalls(e)
  BY <1>1, <1>8 DEF UserCalls
<1>9. CASE UNCHANGED vars
  BY <1>1, <1>9 DEF vars
<1> QED BY <1>2, <1>3, <1>4, <1>5, <1>6, <1>7, <1>8, <1>9, NextIs

\* and it starts empty.
LEMMA InitPend == Init => PendInv
BY PendNone DEF Init, PendInv

-----------------------------------------------------------------------------
\* A new connection is listed before its path is told

\* Messages that tell no path leave it.
LEMMA RepliesAppended ==
  ASSUME TypeInv, ReplyInv, NEW e, IsSeq(e), bus' = bus \o e, cl'.vpns = cl.vpns,
         \A n \in DOMAIN e : e[n].type = "reply" /\ e[n].path # NoPath =>
             \E l \in 1 .. n - 1 : /\ ListsVpn(e[l], e[n].path)
                                   /\ \A k \in l + 1 .. n - 1 : Passes(e[k], e[n].path)
  PROVE  ReplyInv'
<1>1. PICK len \in Nat : len = Len(bus) /\ DOMAIN bus = 1 .. len
  BY SeqFacts DEF TypeInv, Messages
<1>2. PICK more \in Nat : more = Len(e) /\ DOMAIN e = 1 .. more
  BY SeqFacts
<1>3. PICK b : b = bus'
  OBVIOUS
<1>4. Behind(bus, e, b)
  BY <1>3, ConcatFacts DEF TypeInv, Messages
<1>5. DOMAIN b = 1 .. len + more
  BY <1>1, <1>2, <1>4, SeqFacts DEF Behind
<1>6. \A n \in 1 .. len + more : b[n] = IF n <= len THEN bus[n] ELSE e[n - len]
  BY <1>1, <1>4, <1>5 DEF Behind
<1> SUFFICES ASSUME NEW n \in 1 .. len + more, b[n].type = "reply", b[n].path # NoPath
             PROVE  ListedAt(b, cl.vpns, n, b[n].path)
  BY <1>3, <1>5 DEF ReplyInv
<1>7. PICK p : p = b[n].path
  OBVIOUS
<1>8. CASE n <= len
  <2>1. b[n] = bus[n] /\ n \in DOMAIN bus
    BY <1>1, <1>6, <1>8
  <2>2. ListedAt(bus, cl.vpns, n, p)
    BY <1>7, <2>1 DEF ReplyInv
  <2>3. \A k \in 1 .. n - 1 : b[k] = bus[k]
    BY <1>6, <1>8
  <2> QED BY <1>7, <2>2, <2>3 DEF ListedAt
<1>9. CASE n > len
  <2>1. PICK m \in 1 .. more : n = len + m
    BY <1>9
  <2>2. b[n] = e[m]
    BY <1>6, <1>9, <2>1
  <2>3. PICK l \in 1 .. m - 1 : ListsVpn(e[l], p) /\ \A k \in l + 1 .. m - 1 : Passes(e[k], p)
    BY <1>2, <1>7, <2>2
  <2>4. \A k \in 1 .. m - 1 : b[len + k] = e[k]
    BY <1>6, <2>1
  <2>5. PICK z \in 1 .. n - 1 : z = len + l
    BY <2>1
  <2>6. ListsVpn(b[z], p)
    BY <2>3, <2>4, <2>5
  <2>7. ASSUME NEW k \in z + 1 .. n - 1  PROVE Passes(b[k], p)
    <3>1. PICK j \in Int : j = k - len
      BY <2>7
    <3>2. j \in l + 1 .. m - 1 /\ k > len /\ k \in 1 .. len + more
      BY <2>1, <2>5, <3>1
    <3>3. b[k] = e[j]
      BY <1>6, <3>1, <3>2
    <3> QED BY <2>3, <3>2, <3>3
  <2> QED BY <1>7, <2>6, <2>7 DEF ListedAt
<1> QED BY <1>8, <1>9

\* The head is taken.
LEMMA RepliesTaken ==
  ASSUME TypeInv, ReplyInv, bus # <<>>, bus' = Tail(bus),
         \A p : (Passes(Head(bus), p) /\ p \in cl.vpns) \/ ListsVpn(Head(bus), p) => p \in cl'.vpns
  PROVE  ReplyInv'
<1>1. PICK len \in Nat : len = Len(bus) /\ DOMAIN bus = 1 .. len /\ len >= 1
  BY TailFacts, SeqFacts DEF TypeInv, Messages
<1>2. PICK b : b = bus'
  OBVIOUS
<1>3. DOMAIN b = 1 .. len - 1 /\ Head(bus) = bus[1]
  BY <1>1, <1>2, TailFacts DEF TypeInv, Messages
<1>4. \A n \in 1 .. len - 1 : b[n] = bus[n + 1]
  BY <1>2, <1>3, TailFacts DEF TypeInv, Messages
<1> SUFFICES ASSUME NEW n \in 1 .. len - 1, b[n].type = "reply", b[n].path # NoPath
             PROVE  ListedAt(b, cl'.vpns, n, b[n].path)
  BY <1>2, <1>3 DEF ReplyInv
<1>5. PICK p : p = b[n].path
  OBVIOUS
<1>6. ListedAt(bus, cl.vpns, n + 1, p)
  BY <1>1, <1>4, <1>5 DEF ReplyInv
<1>7. CASE p \in cl.vpns /\ \A k \in 1 .. n : Passes(bus[k], p)
  <2>1. p \in cl'.vpns
    BY <1>3, <1>7
  <2>2. \A k \in 1 .. n - 1 : Passes(b[k], p)
    BY <1>4, <1>7
  <2> QED BY <1>5, <2>1, <2>2 DEF ListedAt
<1>8. CASE \E l \in 1 .. n : ListsVpn(bus[l], p) /\ \A k \in l + 1 .. n : Passes(bus[k], p)
  <2>1. PICK l \in 1 .. n : ListsVpn(bus[l], p) /\ \A k \in l + 1 .. n : Passes(bus[k], p)
    BY <1>8
  <2>2. \A k \in l .. n - 1 : Passes(b[k], p)
    BY <1>4, <2>1
  <2>3. CASE l = 1
    BY <1>3, <1>5, <2>1, <2>2, <2>3 DEF ListedAt
  <2>4. CASE l # 1
    <3>1. PICK m \in 1 .. n - 1 : m = l - 1
      BY <2>4
    <3>2. ListsVpn(b[m], p) /\ \A k \in m + 1 .. n - 1 : Passes(b[k], p)
      BY <1>4, <2>1, <2>2, <3>1
    <3> QED BY <1>5, <3>2 DEF ListedAt
  <2> QED BY <2>3, <2>4
<1>9. (n + 1) - 1 = n
  OBVIOUS
<1> QED BY <1>6, <1>7, <1>8, <1>9 DEF ListedAt

\* Three sequences, one behind the other, may be put together in either order.
LEMMA Reassociated ==
  ASSUME NEW a, IsSeq(a), NEW b, IsSeq(b), NEW c, IsSeq(c)
  PROVE  (a \o b) \o c = a \o (b \o c)
<1>1. PICK S : a \in Seq(S)
  BY DEF IsSeq
<1>2. PICK T : b \in Seq(T)
  BY DEF IsSeq
<1>3. PICK U : c \in Seq(U)
  BY DEF IsSeq
<1>4. PICK V : V = S \cup T \cup U
  OBVIOUS
<1>5. a \in Seq(V) /\ b \in Seq(V) /\ c \in Seq(V)
  BY <1>1, <1>2, <1>3, <1>4, SeqMonotonic
<1> QED BY <1>5, ConcatAssociative

\* An announcement with replies is of this form.
LEMMA SpokenIs ==
  ASSUME NEW n \in Nat, NEW q, Pending(q, n), NEW replies, IsSeq(replies), NEW b, IsSeq(b),
         NEW t, SpokenTo(t, b, q, replies)
  PROVE  \E e : Spoken(e, q, replies) /\ t = b \o e
<1>1. PICK s : s = Signals(q)
  OBVIOUS
<1>2. Announced(s, q)
  BY <1>1, SignalsTyped
<1>3. PICK e : e = s \o replies
  OBVIOUS
<1>4. (b \o s) \o replies = b \o e
  <2>1. IsSeq(s)
    BY <1>2 DEF Announced
  <2>2. (b \o s) \o replies = b \o (s \o replies)
    BY <2>1, Reassociated
  <2> QED BY <1>3, <2>2
<1>5. Behind(s, replies, e)
  BY <1>2, <1>3, ConcatFacts DEF Announced
<1>6. PICK k \in Nat : k = Len(s) /\ DOMAIN s = 1 .. k
  BY <1>2, SeqFacts DEF Announced
<1>7. PICK m \in Nat : m = Len(replies) /\ DOMAIN replies = 1 .. m
  BY SeqFacts
<1>8. IsSeq(e) /\ DOMAIN e = 1 .. k + m
  BY <1>5, <1>6, <1>7, SeqFacts DEF Behind
<1>9. \A j \in DOMAIN e : e[j] = IF j <= k THEN s[j] ELSE replies[j - k]
  BY <1>5, <1>6 DEF Behind
<1>10. \A j \in DOMAIN e : j <= k => \E o \in DOMAIN q : e[j] = Signal(q, o)
  BY <1>2, <1>6, <1>8, <1>9 DEF Announced
<1>11. \A j \in DOMAIN e : j > k => e[j] \in Elements(replies)
  <2> SUFFICES ASSUME NEW j \in DOMAIN e, j > k  PROVE e[j] \in Elements(replies)
    OBVIOUS
  <2>1. e[j] = replies[j - k] /\ j - k \in 1 .. m
    BY <1>6, <1>8, <1>9
  <2> QED BY <1>7, <2>1 DEF Elements
<1>12. \A o \in DOMAIN q : \E j \in DOMAIN e : j <= k /\ e[j] = Signal(q, o)
  <2> TAKE o \in DOMAIN q
  <2>1. PICK j \in DOMAIN s : s[j] = Signal(q, o)
    BY <1>2 DEF Announced
  <2>2. j \in 1 .. k
    BY <1>6
  <2>3. j \in DOMAIN e /\ j <= k /\ e[j] = s[j]
    BY <1>8, <1>9, <2>2
  <2> QED BY <2>1, <2>3
<1>13. Spoken(e, q, replies)
  BY <1>8, <1>10, <1>11, <1>12 DEF Spoken
<1> QED BY <1>1, <1>4, <1>13 DEF SpokenTo

\* What an announcement of q passes on to the replies behind it.
LEMMA SpokenReplies ==
  ASSUME NEW e, NEW q, NEW replies, Spoken(e, q, replies),
         \A m \in Elements(replies) :
            /\ m.type = "reply"
            /\ \/ m.path = NoPath
               \/ Holds(q, Private, "VpnConnections") /\ m.path \in q[Private]["VpnConnections"]
  PROVE  \A n \in DOMAIN e : e[n].type = "reply" /\ e[n].path # NoPath =>
             \E l \in 1 .. n - 1 : /\ ListsVpn(e[l], e[n].path)
                                   /\ \A k \in l + 1 .. n - 1 : Passes(e[k], e[n].path)
<1> SUFFICES ASSUME NEW n \in DOMAIN e, e[n].type = "reply", e[n].path # NoPath
             PROVE  \E l \in 1 .. n - 1 : /\ ListsVpn(e[l], e[n].path)
                                          /\ \A k \in l + 1 .. n - 1 : Passes(e[k], e[n].path)
  OBVIOUS
<1>1. PICK len \in Nat : len = Len(e) /\ DOMAIN e = 1 .. len
  BY SeqFacts DEF Spoken
<1>2. PICK k \in Nat :
          /\ \A j \in DOMAIN e : j <= k => \E o \in DOMAIN q : e[j] = Signal(q, o)
          /\ \A j \in DOMAIN e : j > k => e[j] \in Elements(replies)
          /\ \A o \in DOMAIN q : \E j \in DOMAIN e : j <= k /\ e[j] = Signal(q, o)
  BY DEF Spoken
<1>3. PICK p : p = e[n].path
  OBVIOUS
<1>4. n > k
  <2>1. CASE n <= k
    <3>1. PICK o \in DOMAIN q : e[n] = Signal(q, o)
      BY <1>2, <2>1
    <3>2. e[n].type = "changed"
      BY <3>1 DEF Signal
    <3> QED BY <3>2
  <2> QED BY <1>1, <2>1
<1>5. Holds(q, Private, "VpnConnections") /\ p \in q[Private]["VpnConnections"]
  BY <1>2, <1>3, <1>4
<1>6. PICK l \in DOMAIN e : l <= k /\ e[l] = Signal(q, Private)
  BY <1>2, <1>5 DEF Holds
<1>7. ListsVpn(e[l], p)
  BY <1>5, <1>6 DEF ListsVpn, Says, Signal, Holds
<1>8. ASSUME NEW j \in l + 1 .. n - 1  PROVE Passes(e[j], p)
  <2>1. j \in DOMAIN e
    BY <1>1
  <2>2. CASE j <= k
    <3>1. PICK o \in DOMAIN q : e[j] = Signal(q, o)
      BY <1>2, <2>1, <2>2
    <3> QED BY <1>5, <3>1 DEF Passes, Says, Signal
  <2>3. CASE j > k
    <3>1. e[j].type = "reply"
      BY <1>2, <2>1, <2>3
    <3> QED BY <3>1 DEF Passes, Says
  <2> QED BY <1>1, <2>2, <2>3
<1>9. l \in 1 .. n - 1
  BY <1>1, <1>4, <1>6
<1>10. ListsVpn(e[l], e[n].path)
  BY <1>3, <1>7
<1>11. \A j \in l + 1 .. n - 1 : Passes(e[j], e[n].path)
  BY <1>3, <1>8
<1> QED BY <1>9, <1>10, <1>11

\* Messages without a path tell none.
LEMMA NoPathTold ==
  ASSUME NEW e, \A m \in Elements(e) : m.type = "reply" => m.path = NoPath
  PROVE  \A n \in DOMAIN e : e[n].type = "reply" /\ e[n].path # NoPath =>
             \E l \in 1 .. n - 1 : /\ ListsVpn(e[l], e[n].path)
                                   /\ \A k \in l + 1 .. n - 1 : Passes(e[k], e[n].path)
BY DEF Elements

\* Every step of the service keeps the order of list and reply.
LEMMA ServiceReplies ==
  ASSUME TypeInv, ReplyInv, ServiceSteps
  PROVE  ReplyInv'
<1>1. PICK q, replies : Serving(q, replies)
  BY DEF ServiceSteps
<1>2. cl'.vpns = cl.vpns
  BY CallsTail, CallingFacts DEF ServiceSteps, Awaits, Handled, TypeInv, Shows, Client
<1>3. IsSeq(bus) /\ N \in Nat /\ IsSeq(replies)
  BY <1>1, TypeFacts DEF TypeInv, Messages, Serving
<1>4. CASE Waits(q, replies)
  <2>1. bus' = bus \o replies /\ \A m \in Elements(replies) : m.path = NoPath
    BY <1>4 DEF Waits
  <2>2. \A n \in DOMAIN replies : replies[n].type = "reply" /\ replies[n].path # NoPath =>
               \E l \in 1 .. n - 1 : /\ ListsVpn(replies[l], replies[n].path)
                                     /\ \A k \in l + 1 .. n - 1 : Passes(replies[k], replies[n].path)
    BY <2>1, NoPathTold
  <2> QED BY <1>2, <1>3, <2>1, <2>2, RepliesAppended
<1>5. CASE Speaks(q, replies)
  <2>1. SpokenTo(bus', bus, q, replies) /\ Pending(q, N)
    BY <1>1, <1>5 DEF SpokenTo, Speaks, Serving
  <2>2. PICK e : Spoken(e, q, replies) /\ bus' = bus \o e
    BY <1>3, <2>1, SpokenIs
  <2>3. \A m \in Elements(replies) :
            /\ m.type = "reply"
            /\ \/ m.path = NoPath
               \/ Holds(q, Private, "VpnConnections") /\ m.path \in q[Private]["VpnConnections"]
    BY <1>1, <1>5 DEF Serving, Speaks
  <2>4. \A n \in DOMAIN e : e[n].type = "reply" /\ e[n].path # NoPath =>
               \E l \in 1 .. n - 1 : /\ ListsVpn(e[l], e[n].path)
                                     /\ \A k \in l + 1 .. n - 1 : Passes(e[k], e[n].path)
    BY <2>2, <2>3, SpokenReplies
  <2>5. IsSeq(e)
    BY <2>2 DEF Spoken
  <2> QED BY <1>2, <2>2, <2>4, <2>5, RepliesAppended
<1> QED BY <1>1, <1>4, <1>5 DEF Serving

\* What the client makes of a message leaves the connections it lists.
LEMMA FollowsVpns ==
  ASSUME TypeInv, Follows
  PROVE  \A p : (Passes(Head(bus), p) /\ p \in cl.vpns) \/ ListsVpn(Head(bus), p) => p \in cl'.vpns
<1>1. PICK h : h = Head(bus)
  OBVIOUS
<1>2. CASE ClientPropertiesChanged
  <2>1. h.type = "changed" /\ h.object \in ObjectsOf(N) /\ Values(h.object, h.values, N)
    <3>1. Message(h, N) /\ h.type = "changed"
      BY <1>1, <1>2, ReceiveTyped DEF ClientPropertiesChanged
    <3> QED BY <3>1 DEF Message
  <2>2. CASE h.object \in DOMAIN cl.cache
    <3>1. PICK o \in DOMAIN cl.cache : o = h.object
      BY <2>2
    <3>2. PICK vs : vs = h.values
      OBVIOUS
    <3>3. PICK d : d = PropertiesChanged(cl, o, vs)
      OBVIOUS
    <3>4. cl' = d
      BY <1>1, <1>2, <2>2, <3>1, <3>2, <3>3 DEF ClientPropertiesChanged
    <3>5. /\ o # Private => Alike(cl, d)
          /\ o = Private => TookPrivate(cl, d, vs, FALSE)
      BY <2>1, <3>1, <3>2, <3>3, MessageTaken
    <3>6. CASE o # Private
      BY <1>1, <3>1, <3>4, <3>5, <3>6 DEF Alike, ListsVpn, Says
    <3>7. CASE o = Private
      <4>1. /\ "VpnConnections" \in DOMAIN vs => d.vpns = vs["VpnConnections"]
            /\ "VpnConnections" \notin DOMAIN vs => d.vpns = cl.vpns
        BY <3>5, <3>7 DEF TookPrivate
      <4> QED BY <1>1, <2>1, <3>1, <3>2, <3>4, <3>7, <4>1 DEF Passes, ListsVpn, Says
    <3> QED BY <3>6, <3>7
  <2>3. CASE h.object \notin DOMAIN cl.cache
    <3>1. cl' = cl
      BY <1>1, <1>2, <2>3 DEF ClientPropertiesChanged
    <3>2. h.object # Private
      BY <2>3, ClientFacts, TypeFacts DEF TypeInv, Shows
    <3> QED BY <1>1, <3>1, <3>2 DEF ListsVpn, Says
  <2> QED BY <2>2, <2>3
<1>3. CASE ServiceLost \/ ServiceOwnerChanged
  <2>1. h.type \in {"lost", "owner"}
    BY <1>1, <1>3 DEF ServiceLost, ServiceOwnerChanged, Receive
  <2> QED BY <1>1, <2>1 DEF Passes, ListsVpn, Says
<1>4. CASE AddConnectionFinished
  <2>1. h.type = "reply" /\ cl' = cl
    BY <1>1, <1>4 DEF AddConnectionFinished, Receive
  <2> QED BY <1>1, <2>1 DEF ListsVpn, Says
<1> QED BY <1>2, <1>3, <1>4 DEF Follows

\* Every step keeps ReplyInv,
LEMMA ReplyStep ==
  ASSUME TypeInv, PendInv, ReplyInv, [Next]_vars
  PROVE  ReplyInv'
<1>1. IsSeq(bus) /\ N \in Nat /\ Client(cl, N)
  BY TypeFacts DEF TypeInv, Messages, Shows
<1>2. CASE ServiceSteps
  BY <1>2, ServiceReplies
<1>3. ASSUME NEW q, NEW m, Enlarges(q, m)  PROVE ReplyInv'
  <2>1. N + 1 \in Nat /\ Pending(q, N + 1) /\ bus' = bus \o Signals(q) /\ cl' = cl
    BY <1>1, <1>3 DEF Enlarges
  <2>2. Announced(Signals(q), q)
    BY <2>1, SignalsTyped
  <2>3. PICK e : e = Signals(q)
    OBVIOUS
  <2>4. IsSeq(e) /\ \A n \in DOMAIN e : e[n].type = "changed"
    BY <2>2, <2>3 DEF Announced, Signal
  <2>5. \A n \in DOMAIN e : e[n].type = "reply" /\ e[n].path # NoPath =>
               \E l \in 1 .. n - 1 : /\ ListsVpn(e[l], e[n].path)
                                     /\ \A k \in l + 1 .. n - 1 : Passes(e[k], e[n].path)
    BY <2>4
  <2> QED BY <2>1, <2>3, <2>4, <2>5, RepliesAppended
<1>4. CASE Crash
  <2>1. /\ cl' = Calling(cl, <<>>)
        /\ \E replies : /\ Answers(replies)
                        /\ \A m \in Elements(replies) : m.type = "reply" /\ m.path = NoPath
                        /\ bus' = bus \o replies \o <<[type |-> "lost"]>>
    BY <1>4, CrashIs
  <2>2. PICK replies : /\ Answers(replies)
                       /\ \A m \in Elements(replies) : m.type = "reply" /\ m.path = NoPath
                       /\ bus' = bus \o replies \o <<[type |-> "lost"]>>
    BY <2>1
  <2>3. PICK z : z = <<[type |-> "lost"]>>
    OBVIOUS
  <2>4. IsSeq(z) /\ Elements(z) = {[type |-> "lost"]}
    BY <2>3, AppendElements, NoReplies
  <2>5. PICK e : e = replies \o z
    OBVIOUS
  <2>6. IsSeq(e) /\ Elements(e) = Elements(replies) \cup Elements(z)
    BY <2>2, <2>4, <2>5, ConcatElements DEF Answers
  <2>7. bus' = bus \o e
    <3>1. IsSeq(replies)
      BY <2>2 DEF Answers
    <3>2. (bus \o replies) \o z = bus \o (replies \o z)
      BY <1>1, <2>4, <3>1, Reassociated
    <3> QED BY <2>2, <2>3, <2>5, <3>2
  <2>8. \A m \in Elements(e) : m.type = "reply" => m.path = NoPath
    BY <2>2, <2>4, <2>6
  <2>9. \A n \in DOMAIN e : e[n].type = "reply" /\ e[n].path # NoPath =>
               \E l \in 1 .. n - 1 : /\ ListsVpn(e[l], e[n].path)
                                     /\ \A k \in l + 1 .. n - 1 : Passes(e[k], e[n].path)
    BY <2>8, NoPathTold
  <2>10. cl'.vpns = cl.vpns
    BY <1>1, <2>1, CallingNone
  <2> QED BY <2>6, <2>7, <2>9, <2>10, RepliesAppended
<1>5. CASE Start
  <2>1. bus' = bus \o Started /\ cl' = cl
    BY <1>5, StartIs
  <2>2. PICK e : e = Started
    OBVIOUS
  <2>3. IsSeq(e) /\ \A n \in DOMAIN e : e[n].type = "owner"
    BY <2>2, StartedFacts DEF Elements
  <2>4. \A n \in DOMAIN e : e[n].type = "reply" /\ e[n].path # NoPath =>
               \E l \in 1 .. n - 1 : /\ ListsVpn(e[l], e[n].path)
                                     /\ \A k \in l + 1 .. n - 1 : Passes(e[k], e[n].path)
    BY <2>3
  <2> QED BY <2>1, <2>2, <2>3, <2>4, RepliesAppended
<1>6. CASE Follows
  <2>1. bus # <<>> /\ bus' = Tail(bus)
    BY <1>6, FollowsKeeps DEF Receives
  <2> QED BY <1>6, <2>1, FollowsVpns, RepliesTaken
<1>7. ASSUME NEW p \in cl.sims \cup {NoPath}, UserSetsSim(p)  PROVE ReplyInv'
  BY <1>7, UserSetsSimIs DEF ReplyInv
<1>8. ASSUME NEW e, UserCalls(e)  PROVE ReplyInv'
  <2>1. cl'.vpns = cl.vpns
    BY <1>8, UserCallsTyped
  <2>2. CASE bus' = bus
    BY <2>1, <2>2 DEF ReplyInv
  <2>3. ASSUME NEW id, bus' = Append(bus, Reply(id, NoPath))  PROVE ReplyInv'
    <3>1. PICK r : r = Reply(id, NoPath)
      OBVIOUS
    <3>2. PICK s : s = <<r>>
      OBVIOUS
    <3>3. bus' = bus \o s /\ IsSeq(s) /\ Elements(s) = {r}
      BY <1>1, <2>3, <3>1, <3>2, AppendElements
    <3>4. r.path = NoPath
      BY <3>1 DEF Reply
    <3>5. \A n \in DOMAIN s : s[n].type = "reply" /\ s[n].path # NoPath =>
               \E l \in 1 .. n - 1 : /\ ListsVpn(s[l], s[n].path)
                                     /\ \A k \in l + 1 .. n - 1 : Passes(s[k], s[n].path)
      BY <3>3, <3>4 DEF Elements
    <3> QED BY <2>1, <3>3, <3>5, RepliesAppended
  <2> QED BY <1>8, <2>2, <2>3 DEF UserCalls
<1>9. CASE UNCHANGED vars
  BY <1>9 DEF vars, ReplyInv
<1> QED BY <1>2, <1>3, <1>4, <1>5, <1>6, <1>7, <1>8, <1>9, NextIs

\* which implies AddedIsListed at the head of the bus.
LEMMA RepliesListed ==
  ASSUME TypeInv, ReplyInv
  PROVE  AddedIsListed
<1> SUFFICES ASSUME bus # <<>>, Head(bus).type = "reply", Head(bus).path # NoPath
             PROVE  Head(bus).path \in cl.vpns
  BY DEF AddedIsListed
<1>1. 1 \in DOMAIN bus /\ Head(bus) = bus[1]
  BY TailFacts DEF TypeInv, Messages
<1>2. ListedAt(bus, cl.vpns, 1, bus[1].path)
  BY <1>1 DEF ReplyInv
<1>3. 1 .. 1 - 1 = {}
  OBVIOUS
<1> QED BY <1>1, <1>2, <1>3 DEF ListedAt

\* There are no replies at the start.
LEMMA InitReplies == Init => ReplyInv
<1>1. DOMAIN <<>> = {}
  OBVIOUS
<1> QED BY <1>1 DEF Init, ReplyInv

\* The path of a connection that a client has added is in its list when
\* the reply tells it (AddedIsListed): for any number of connections,
\* requests and crashes.
THEOREM NewConnectionListed == Spec => []AddedIsListed
<1>1. Init => TypeInv /\ PendInv /\ ReplyInv
  BY InitTyped, InitPend, InitReplies
<1>2. TypeInv /\ PendInv /\ ReplyInv /\ [Next]_vars => (TypeInv /\ PendInv /\ ReplyInv)'
  BY TypeStep, PendStep, ReplyStep
<1>3. TypeInv /\ ReplyInv => AddedIsListed
  BY RepliesListed
<1> QED BY <1>1, <1>2, <1>3, PTL DEF Spec

-----------------------------------------------------------------------------
\* The bus grows at its end and is taken from its head

\* A concatenation appends;
LEMMA AppendsIs ==
  ASSUME NEW s, IsSeq(s), NEW e, IsSeq(e)
  PROVE  Appends(s \o e, s, e)
<1>1. PICK t : t = s \o e
  OBVIOUS
<1>2. Behind(s, e, t)
  BY <1>1, ConcatFacts
<1>3. PICK len \in Nat : len = Len(s) /\ DOMAIN s = 1 .. len
  BY SeqFacts
<1>4. PICK more \in Nat : more = Len(e) /\ DOMAIN e = 1 .. more
  BY SeqFacts
<1>5. DOMAIN t = 1 .. len + more
  BY <1>2, <1>3, <1>4, SeqFacts DEF Behind
<1>6. \A n \in 1 .. len + more : t[n] = IF n <= len THEN s[n] ELSE e[n - len]
  BY <1>2, <1>3, <1>5 DEF Behind
<1>7. \A n \in len + 1 .. len + more : t[n] \in Elements(e)
  <2> TAKE n \in len + 1 .. len + more
  <2>1. PICK j \in Int : j = n - len
    OBVIOUS
  <2>2. j \in DOMAIN e /\ t[n] = e[j]
    BY <1>4, <1>6, <2>1
  <2> QED BY <2>2 DEF Elements
<1>8. \A m \in Elements(e) : \E n \in len + 1 .. len + more : t[n] = m
  <2> TAKE m \in Elements(e)
  <2>1. PICK j \in 1 .. more : m = e[j]
    BY <1>4 DEF Elements
  <2>2. PICK n \in Int : n = len + j
    OBVIOUS
  <2>3. n \in len + 1 .. len + more /\ n - len = j /\ n \in 1 .. len + more /\ n > len
    BY <2>2
  <2>4. t[n] = m
    BY <1>6, <2>1, <2>3
  <2> QED BY <2>3, <2>4
<1>9. \A n \in 1 .. len : t[n] = s[n]
  BY <1>6
<1>10. Appends(t, s, e)
  BY <1>3, <1>5, <1>7, <1>8, <1>9 DEF Appends
<1> QED BY <1>1, <1>10

\* nothing may be appended.
LEMMA NothingAppended == \A s : IsSeq(s) => Appends(s, s, <<>>)
BY AppendsIs, NoReplies

\* That is Tail().
LEMMA TakesIs ==
  ASSUME NEW s, IsSeq(s), s # <<>>
  PROVE  Takes(Tail(s), s)
<1>1. PICK len \in Nat : len = Len(s) /\ DOMAIN s = 1 .. len /\ len >= 1
  BY TailFacts, SeqFacts
<1>2. PICK t : t = Tail(s)
  OBVIOUS
<1>3. DOMAIN t = 1 .. len - 1 /\ Head(s) = s[1]
  BY <1>1, <1>2, TailFacts
<1>4. \A n \in 1 .. len - 1 : t[n] = s[n + 1]
  BY <1>2, <1>3, TailFacts
<1>5. Takes(t, s)
  BY <1>1, <1>3, <1>4 DEF Takes
<1> QED BY <1>2, <1>5

-----------------------------------------------------------------------------
\* The client never answers an announcement

\* Owned is kept by messages that are no loss of the service, and by a
\* start;
LEMMA OwnedAppended ==
  ASSUME Owned, NEW e, Appends(bus', bus, e),
         up' => \/ up /\ \A m \in Elements(e) : m.type # "lost"
                \/ e = Started
  PROVE  Owned'
<1> SUFFICES ASSUME up'  PROVE Owned'
  BY DEF Owned
<1>1. PICK len, more \in Nat :
          /\ DOMAIN bus = 1 .. len /\ DOMAIN bus' = 1 .. len + more
          /\ \A n \in 1 .. len : bus'[n] = bus[n]
          /\ \A n \in len + 1 .. len + more : bus'[n] \in Elements(e)
          /\ \A m \in Elements(e) : \E n \in len + 1 .. len + more : bus'[n] = m
  BY DEF Appends
<1>2. PICK b : b = bus'
  OBVIOUS
<1> SUFFICES ASSUME NEW n \in 1 .. len + more, b[n].type = "lost",
                    NEW o \in {Private, Status, Listed}
             PROVE  \E m \in 1 .. len + more : m > n /\ Owns(b[m], o)
  BY <1>1, <1>2 DEF Owned
<1>3. CASE up /\ \A m \in Elements(e) : m.type # "lost"
  <2>1. n \in 1 .. len /\ b[n] = bus[n]
    BY <1>1, <1>2, <1>3
  <2>2. PICK m \in 1 .. len : m > n /\ Owns(bus[m], o)
    BY <1>1, <1>3, <2>1 DEF Owned
  <2>3. m \in 1 .. len + more /\ Owns(b[m], o)
    BY <1>1, <1>2, <2>2
  <2> QED BY <2>2, <2>3
<1>4. CASE e = Started
  <2>1. Owner(o) \in Elements(e) /\ \A m \in Elements(e) : m.type = "owner"
    BY <1>4, StartedFacts DEF Elements
  <2>2. n \in 1 .. len
    BY <1>1, <1>2, <2>1
  <2>3. PICK m \in len + 1 .. len + more : Owns(b[m], o)
    BY <1>1, <1>2, <2>1 DEF Owner, Owns
  <2>4. m \in 1 .. len + more /\ m > n
    BY <2>2
  <2> QED BY <2>3, <2>4
<1> QED BY <1>3, <1>4

\* and when the head is taken: only messages behind a loss matter.
LEMMA OwnedTaken ==
  ASSUME Owned, up' = up, Takes(bus', bus)
  PROVE  Owned'
<1>1. PICK len \in Nat :
          /\ DOMAIN bus = 1 .. len /\ DOMAIN bus' = 1 .. len - 1
          /\ \A n \in 1 .. len - 1 : bus'[n] = bus[n + 1]
  BY DEF Takes
<1>2. PICK b : b = bus'
  OBVIOUS
<1> SUFFICES ASSUME up, NEW n \in 1 .. len - 1, b[n].type = "lost",
                    NEW o \in {Private, Status, Listed}
             PROVE  \E m \in 1 .. len - 1 : m > n /\ Owns(b[m], o)
  BY <1>1, <1>2 DEF Owned
<1>3. n + 1 \in DOMAIN bus /\ bus[n + 1].type = "lost"
  BY <1>1, <1>2
<1>4. PICK m \in 1 .. len : m > n + 1 /\ Owns(bus[m], o)
  BY <1>1, <1>3 DEF Owned
<1>5. PICK k \in 1 .. len - 1 : k + 1 = m /\ k > n
  BY <1>4
<1> QED BY <1>1, <1>2, <1>4, <1>5

\* Messages that say no list of SIMs leave the lists growing,
LEMMA GrowingAppended ==
  ASSUME Growing, NEW e, Appends(bus', bus, e), N' = N,
         \A m \in Elements(e) : ~SaysSims(m)
  PROVE  Growing'
<1>1. PICK len, more \in Nat :
          /\ DOMAIN bus = 1 .. len /\ DOMAIN bus' = 1 .. len + more
          /\ \A n \in 1 .. len : bus'[n] = bus[n]
          /\ \A n \in len + 1 .. len + more : bus'[n] \in Elements(e)
  BY DEF Appends
<1>2. PICK b : b = bus'
  OBVIOUS
<1>3. \A n \in 1 .. len + more : SaysSims(b[n]) => n \in 1 .. len /\ b[n] = bus[n]
  BY <1>1, <1>2
<1>4. \A n \in 1 .. len : n \in 1 .. len + more /\ b[n] = bus[n]
  BY <1>1, <1>2
<1>5. \A n, m \in 1 .. len + more : n < m /\ SaysSims(b[n]) /\ SaysSims(b[m]) =>
          b[n].values["Sims"] \subseteq b[m].values["Sims"]
  BY <1>1, <1>3 DEF Growing
<1>6. ASSUME NEW n \in 1 .. len + more, SaysSims(b[n])
      PROVE  \E m \in 1 .. len + more : SaysSims(b[m]) /\ b[m].values["Sims"] = 1 .. N
  <2>1. n \in 1 .. len /\ SaysSims(bus[n])
    BY <1>3, <1>6
  <2>2. PICK m \in 1 .. len : SaysSims(bus[m]) /\ bus[m].values["Sims"] = 1 .. N
    BY <1>1, <2>1 DEF Growing
  <2> QED BY <1>4, <2>2
<1> QED BY <1>1, <1>2, <1>5, <1>6 DEF Growing

\* and so does taking the head.
LEMMA GrowingTaken ==
  ASSUME TypeInv, Growing, Takes(bus', bus), N' = N
  PROVE  Growing'
<1>1. PICK len \in Nat :
          /\ len >= 1 /\ DOMAIN bus = 1 .. len /\ DOMAIN bus' = 1 .. len - 1
          /\ \A n \in 1 .. len - 1 : bus'[n] = bus[n + 1]
  BY DEF Takes
<1>2. PICK b : b = bus'
  OBVIOUS
<1>3. \A n \in 1 .. len - 1 : n + 1 \in 1 .. len /\ b[n] = bus[n + 1]
  BY <1>1, <1>2
<1>4. \A n, m \in 1 .. len - 1 : n < m /\ SaysSims(b[n]) /\ SaysSims(b[m]) =>
          b[n].values["Sims"] \subseteq b[m].values["Sims"]
  <2> SUFFICES ASSUME NEW n \in 1 .. len - 1, NEW m \in 1 .. len - 1, n < m,
                      SaysSims(b[n]), SaysSims(b[m])
               PROVE  b[n].values["Sims"] \subseteq b[m].values["Sims"]
    OBVIOUS
  <2>1. n + 1 < m + 1
    OBVIOUS
  <2>2. n + 1 \in DOMAIN bus /\ m + 1 \in DOMAIN bus /\ b[n] = bus[n + 1] /\ b[m] = bus[m + 1]
    BY <1>1, <1>3
  <2> QED BY <2>1, <2>2 DEF Growing
<1>5. ASSUME NEW n \in 1 .. len - 1, SaysSims(b[n])
      PROVE  \E m \in 1 .. len - 1 : SaysSims(b[m]) /\ b[m].values["Sims"] = 1 .. N
  <2>1. n + 1 \in 1 .. len /\ SaysSims(bus[n + 1])
    BY <1>3, <1>5
  <2>2. PICK m \in 1 .. len : SaysSims(bus[m]) /\ bus[m].values["Sims"] = 1 .. N
    BY <1>1, <2>1 DEF Growing
  <2>3. CASE m # 1
    <3>1. PICK k \in 1 .. len - 1 : k + 1 = m
      BY <1>1, <2>3
    <3> QED BY <1>3, <2>2, <3>1
  <2>4. CASE m = 1
    <3>1. 1 .. N \subseteq b[n].values["Sims"]
      <4>1. 1 < n + 1 /\ 1 \in 1 .. len
        BY <1>1
      <4> QED
        <5>1. 1 \in DOMAIN bus /\ n + 1 \in DOMAIN bus /\ SaysSims(bus[1])
          BY <1>1, <2>1, <2>2, <2>4, <4>1
        <5>2. bus[1].values["Sims"] \subseteq bus[n + 1].values["Sims"]
          BY <2>1, <4>1, <5>1 DEF Growing
        <5> QED BY <1>3, <2>2, <2>4, <5>2
    <3>2. \E k \in 0 .. N : b[n].values["Sims"] = 1 .. k
      <4>1. Message(bus[n + 1], N)
        BY <1>1, <2>1 DEF TypeInv, Messages, Elements
      <4>2. Values(Private, bus[n + 1].values, N)
        BY <2>1, <4>1 DEF Message, SaysSims, Says
      <4> QED BY <1>3, <2>1, <4>2 DEF Values, SaysSims, Says
    <3>3. N \in Nat
      BY TypeFacts
    <3>4. b[n].values["Sims"] = 1 .. N
      BY <3>1, <3>2, <3>3
    <3> QED BY <1>5, <3>4
  <2> QED BY <2>3, <2>4
<1> QED BY <1>1, <1>2, <1>4, <1>5 DEF Growing

\* A SIM is added: what is said says so, and says no choice of it.
LEMMA EnlargesSays ==
  ASSUME TypeInv, NEW q, NEW m, Enlarges(q, m)
  PROVE  \E e :
             /\ Appends(bus', bus, e) /\ N' = N + 1 /\ N \in Nat /\ up /\ up' /\ cl' = cl
             /\ \A x \in Elements(e) : \E o \in DOMAIN q : x = Signal(q, o)
             /\ \A o \in DOMAIN q : Signal(q, o) \in Elements(e)
             /\ \A x \in Elements(e) : SaysSims(x) => x.values["Sims"] = 1 .. N + 1
             /\ \E x \in Elements(e) : SaysSims(x)
             /\ \A x \in Elements(e) : Says(x, Private, "SimForMobileData") =>
                    x.values["SimForMobileData"] \in 0 .. N
             /\ \A x \in Elements(e) : x.type = "changed"
<1>1. N \in Nat /\ N' = N + 1 /\ bus' = bus \o Signals(q) /\ up /\ up' /\ cl' = cl /\ IsSeq(bus)
  BY TypeFacts DEF Enlarges, TypeInv, Messages
<1>2. Pending(q, N + 1) /\ N + 1 \in Nat
  BY <1>1 DEF Enlarges
<1>3. PICK e : e = Signals(q)
  OBVIOUS
<1>4. Announced(e, q)
  BY <1>2, <1>3, SignalsTyped
<1>5. Appends(bus', bus, e)
  BY <1>1, <1>3, <1>4, AppendsIs DEF Announced
<1>6. /\ \A x \in Elements(e) : \E o \in DOMAIN q : x = Signal(q, o)
      /\ \A o \in DOMAIN q : Signal(q, o) \in Elements(e)
  BY <1>4 DEF Announced, Elements
<1>7. Holds(q, Private, "Sims") /\ q[Private]["Sims"] = 1 .. N + 1
  BY DEF Enlarges
<1>8. \A x \in Elements(e) : SaysSims(x) => x.values["Sims"] = 1 .. N + 1
  BY <1>6, <1>7 DEF SaysSims, Says, Signal
<1>9. SaysSims(Signal(q, Private)) /\ Private \in DOMAIN q
  BY <1>7 DEF SaysSims, Says, Signal, Holds
<1>10. \A x \in Elements(e) : Says(x, Private, "SimForMobileData") =>
           x.values["SimForMobileData"] \in 0 .. N
  <2>1. Holds(q, Private, "SimForMobileData") => q[Private]["SimForMobileData"] \in 0 .. N
    BY DEF Enlarges
  <2> QED BY <1>6, <2>1 DEF Says, Signal, Holds
<1>11. \A x \in Elements(e) : x.type = "changed"
  BY <1>6 DEF Signal
<1>12. \E x \in Elements(e) : SaysSims(x)
  BY <1>6, <1>9
<1> QED BY <1>1, <1>5, <1>6, <1>8, <1>10, <1>11, <1>12

\* The lists of SIMs on their way are lists of the manager's first SIMs.
LEMMA SimsSaid ==
  ASSUME TypeInv, NEW n \in DOMAIN bus, SaysSims(bus[n])
  PROVE  \E k \in 0 .. N : bus[n].values["Sims"] = 1 .. k
<1>1. Message(bus[n], N)
  BY DEF TypeInv, Messages, Elements
<1>2. Values(Private, bus[n].values, N)
  BY <1>1 DEF Message, SaysSims, Says
<1> QED BY <1>2 DEF Values, SaysSims, Says

\* A new SIM makes the lists grow.
LEMMA GrowingEnlarged ==
  ASSUME TypeInv, Growing, NEW q, NEW p, Enlarges(q, p)
  PROVE  Growing'
<1>1. PICK e :
          /\ Appends(bus', bus, e) /\ N' = N + 1 /\ N \in Nat
          /\ \A x \in Elements(e) : SaysSims(x) => x.values["Sims"] = 1 .. N + 1
          /\ \E x \in Elements(e) : SaysSims(x)
  BY EnlargesSays
<1>2. PICK len, more \in Nat :
          /\ DOMAIN bus = 1 .. len /\ DOMAIN bus' = 1 .. len + more
          /\ \A n \in 1 .. len : bus'[n] = bus[n]
          /\ \A n \in len + 1 .. len + more : bus'[n] \in Elements(e)
          /\ \A m \in Elements(e) : \E n \in len + 1 .. len + more : bus'[n] = m
  BY <1>1 DEF Appends
<1>3. PICK b : b = bus'
  OBVIOUS
<1>4. \A n \in 1 .. len + more : SaysSims(b[n]) =>
          \/ n \in 1 .. len /\ b[n] = bus[n] /\ SaysSims(bus[n])
             /\ \E k \in 0 .. N : b[n].values["Sims"] = 1 .. k
          \/ n \notin 1 .. len /\ b[n].values["Sims"] = 1 .. N + 1
  <2> SUFFICES ASSUME NEW n \in 1 .. len + more, SaysSims(b[n])
               PROVE  \/ n \in 1 .. len /\ b[n] = bus[n] /\ SaysSims(bus[n])
                         /\ \E k \in 0 .. N : b[n].values["Sims"] = 1 .. k
                      \/ n \notin 1 .. len /\ b[n].values["Sims"] = 1 .. N + 1
    OBVIOUS
  <2>1. CASE n \in 1 .. len
    <3>1. b[n] = bus[n] /\ n \in DOMAIN bus
      BY <1>2, <1>3, <2>1
    <3> QED BY <2>1, <3>1, SimsSaid
  <2>2. CASE n \notin 1 .. len
    <3>1. b[n] \in Elements(e)
      BY <1>2, <1>3, <2>2
    <3> QED BY <1>1, <2>2, <3>1
  <2> QED BY <2>1, <2>2
<1>5. \A n, m \in 1 .. len + more : n < m /\ SaysSims(b[n]) /\ SaysSims(b[m]) =>
          b[n].values["Sims"] \subseteq b[m].values["Sims"]
  <2> SUFFICES ASSUME NEW n \in 1 .. len + more, NEW m \in 1 .. len + more, n < m,
                      SaysSims(b[n]), SaysSims(b[m])
               PROVE  b[n].values["Sims"] \subseteq b[m].values["Sims"]
    OBVIOUS
  <2>1. CASE m \in 1 .. len
    <3>1. /\ n \in 1 .. len /\ b[n] = bus[n] /\ b[m] = bus[m]
          /\ SaysSims(bus[n]) /\ SaysSims(bus[m])
      BY <1>2, <1>3, <2>1
    <3> QED BY <1>2, <2>1, <3>1 DEF Growing
  <2>2. CASE m \notin 1 .. len
    <3>1. b[m].values["Sims"] = 1 .. N + 1
      BY <1>4, <2>2
    <3>2. \E k \in 0 .. N + 1 : b[n].values["Sims"] = 1 .. k
      BY <1>1, <1>4
    <3> QED BY <1>1, <3>1, <3>2
  <2> QED BY <2>1, <2>2
<1>6. \E m \in 1 .. len + more : SaysSims(b[m]) /\ b[m].values["Sims"] = 1 .. N + 1
  <2>1. PICK x \in Elements(e) : SaysSims(x)
    BY <1>1
  <2>2. PICK m \in len + 1 .. len + more : b[m] = x
    BY <1>2, <1>3, <2>1
  <2>3. m \in 1 .. len + more
    OBVIOUS
  <2> QED BY <1>1, <2>1, <2>2, <2>3
<1> QED BY <1>1, <1>2, <1>3, <1>5, <1>6 DEF Growing

\* A client that has read stays so until there is news,
LEMMA HasReadAppended ==
  ASSUME HasRead, NEW e, Appends(bus', bus, e), cl'.cache = cl.cache,
         up' => up \/ e = Started
  PROVE  HasRead'
<1> SUFFICES ASSUME up', \A n \in DOMAIN bus' : ~Owns(bus'[n], Private)
             PROVE  "SimForMobileData" \in DOMAIN cl.cache[Private]
  BY DEF HasRead
<1>1. PICK len, more \in Nat :
          /\ DOMAIN bus = 1 .. len /\ DOMAIN bus' = 1 .. len + more
          /\ \A n \in 1 .. len : bus'[n] = bus[n]
          /\ \A m \in Elements(e) : \E n \in len + 1 .. len + more : bus'[n] = m
  BY DEF Appends
<1>2. \A n \in len + 1 .. len + more : n \in 1 .. len + more
  OBVIOUS
<1>3. e # Started
  <2>1. Owner(Private) \in Elements(Started)
    BY StartedFacts DEF Elements
  <2>2. Owner(Private) \notin Elements(e)
    <3>1. Owns(Owner(Private), Private)
      BY DEF Owns, Owner
    <3> QED BY <1>1, <1>2, <3>1
  <2> QED BY <2>1, <2>2
<1>4. \A n \in DOMAIN bus : ~Owns(bus[n], Private)
  BY <1>1
<1> QED BY <1>3, <1>4 DEF HasRead

\* The news of an owner that the client reads.
LEMMA OwnerNews ==
  ASSUME TypeInv, ServiceOwnerChanged
  PROVE  LET h == Head(bus)
         IN  /\ h.type = "owner" /\ h.object \in {Private, Status, Listed}
             /\ cl' = IF h.object = Listed THEN ListedRefreshed(cl) ELSE Refreshed(cl, h.object)
<1>1. PICK h : h = Head(bus)
  OBVIOUS
<1>2. h.type = "owner" /\ Message(h, N)
  BY <1>1, ReceiveTyped DEF ServiceOwnerChanged
<1>3. h.object \in {Private, Status, Listed}
  BY <1>2 DEF Message
<1>4. cl' = IF h.object = Listed THEN ListedRefreshed(cl) ELSE Refreshed(cl, h.object)
  BY <1>1 DEF ServiceOwnerChanged
<1> QED BY <1>1, <1>2, <1>3, <1>4

\* A message that is not about Private leaves what the client has of it.
LEMMA FollowsAlike ==
  ASSUME TypeInv, Follows,
         \/ Head(bus).type = "reply"
         \/ Head(bus).type = "changed" /\ Head(bus).object # Private
         \/ Head(bus).type = "owner" /\ Head(bus).object # Private
  PROVE  Alike(cl, cl')
<1>1. PICK h : h = Head(bus)
  OBVIOUS
<1>2. Client(cl, N) /\ N \in Nat /\ ReadsTyped(N) /\ ModemsShown(cl)
  BY TypeFacts DEF TypeInv, Shows
<1>3. Alike(cl, cl)
  BY DEF Alike, SameChoice
<1>4. CASE ClientPropertiesChanged
  <2>1. h.type = "changed" /\ Message(h, N)
    BY <1>1, <1>4, ReceiveTyped DEF ClientPropertiesChanged
  <2>2. h.object \in ObjectsOf(N) /\ Values(h.object, h.values, N) /\ h.object # Private
    BY <1>1, <2>1 DEF Message
  <2>3. CASE h.object \in DOMAIN cl.cache
    <3>1. PICK o \in DOMAIN cl.cache : o = h.object
      BY <2>3
    <3>2. PICK vs : vs = h.values
      OBVIOUS
    <3>3. cl' = PropertiesChanged(cl, o, vs)
      BY <1>1, <1>4, <2>3, <3>1, <3>2 DEF ClientPropertiesChanged
    <3>4. Alike(cl, PropertiesChanged(cl, o, vs))
      BY <2>2, <3>1, <3>2, MessageTaken
    <3> QED BY <3>3, <3>4
  <2>4. CASE h.object \notin DOMAIN cl.cache
    <3>1. cl' = cl
      BY <1>1, <1>4, <2>4 DEF ClientPropertiesChanged
    <3> QED BY <1>3, <3>1
  <2> QED BY <2>3, <2>4
<1>5. CASE ServiceLost
  <2>1. h.type = "lost"
    BY <1>1, <1>5 DEF ServiceLost, Receive
  <2> QED BY <1>1, <2>1
<1>6. CASE ServiceOwnerChanged
  <2>1. h.type = "owner" /\ h.object \in {Private, Status, Listed}
    BY <1>1, <1>6, OwnerNews
  <2>2. cl' = IF h.object = Listed THEN ListedRefreshed(cl) ELSE Refreshed(cl, h.object)
    BY <1>1, <1>6, OwnerNews
  <2>3. CASE h.object = Listed
    <3>1. cl' = ListedRefreshed(cl)
      BY <2>2, <2>3
    <3> QED BY <1>2, <3>1, ListedFacts
  <2>4. CASE h.object # Listed
    <3>1. h.object = Status
      BY <1>1, <2>1, <2>4
    <3>2. cl' = Refreshed(cl, Status)
      BY <2>2, <2>4, <3>1
    <3> QED BY <1>2, <3>2, StatusRefreshed
  <2> QED BY <2>3, <2>4
<1>7. CASE AddConnectionFinished
  <2>1. cl' = cl
    BY <1>7 DEF AddConnectionFinished
  <2> QED BY <1>3, <2>1
<1> QED BY <1>4, <1>5, <1>6, <1>7 DEF Follows

\* What the client makes of a change of Private.
LEMMA FollowsPrivate ==
  ASSUME TypeInv, Follows, Head(bus).type = "changed", Head(bus).object = Private
  PROVE  LET vs == Head(bus).values
         IN  /\ Values(Private, vs, N) /\ hist' = hist
             /\ cl'.cache[Private] = Over(vs, cl.cache[Private])
             /\ TookPrivate(cl, cl', vs, FALSE)
<1>1. PICK vs : vs = Head(bus).values
  OBVIOUS
<1>2. ClientPropertiesChanged
  BY DEF Follows, ServiceLost, ServiceOwnerChanged, AddConnectionFinished, Receive
<1>3. Values(Private, vs, N)
  <2>1. Message(Head(bus), N)
    BY <1>2, ReceiveTyped DEF ClientPropertiesChanged
  <2> QED BY <1>1, <2>1 DEF Message
<1>4. Private \in DOMAIN cl.cache
  BY ClientFacts, TypeFacts DEF TypeInv, Shows
<1>5. cl' = PropertiesChanged(cl, Private, vs) /\ hist' = hist
  BY <1>1, <1>2, <1>4 DEF ClientPropertiesChanged
<1>6. LET d == PropertiesChanged(cl, Private, vs)
      IN  d.cache[Private] = Over(vs, cl.cache[Private]) /\ TookPrivate(cl, d, vs, FALSE)
  BY <1>3, <1>4, MessageTaken
<1> QED BY <1>1, <1>3, <1>5, <1>6

\* What the client makes of the news that Private has an owner, or none.
LEMMA FollowsOwner ==
  ASSUME TypeInv, Follows, Head(bus).type = "owner", Head(bus).object = Private
  PROVE  /\ cl' = Refreshed(cl, Private)
         /\ hist' = IF \E n \in 2 .. Len(bus) : bus[n].type = "changed" /\ bus[n].object = Private
                    THEN hist \cup {"overtaken"} ELSE hist
<1>1. ServiceOwnerChanged
  BY DEF Follows, ServiceLost, ClientPropertiesChanged, AddConnectionFinished, Receive
<1> QED BY <1>1, ObjectsDiffer DEF ServiceOwnerChanged

\* and the loss of the service empties the caches.
LEMMA FollowsLost ==
  ASSUME TypeInv, Follows, Head(bus).type = "lost"
  PROVE  /\ cl' = NoneCached(cl) /\ hist' = hist
         /\ cl'.cache[Private] = Empty
         /\ cl'.sims = cl.sims /\ cl'.modems = cl.modems /\ cl'.vpns = cl.vpns
         /\ SameChoice(cl, cl')
<1>1. ServiceLost
  BY DEF Follows, ServiceOwnerChanged, ClientPropertiesChanged, AddConnectionFinished, Receive
<1>2. cl' = NoneCached(cl) /\ hist' = hist
  BY <1>1 DEF ServiceLost
<1>3. Client(cl, N) /\ N \in Nat /\ Private \in DOMAIN cl.cache
  BY ClientFacts, TypeFacts DEF TypeInv, Shows
<1>4. LET d == NoneCached(cl)
      IN  /\ \A o \in DOMAIN cl.cache : d.cache[o] = Empty
          /\ d.sims = cl.sims /\ d.modems = cl.modems /\ d.vpns = cl.vpns /\ SameChoice(cl, d)
  BY <1>3, NoneCachedFacts
<1> QED BY <1>2, <1>3, <1>4

\* What all messages have in common.
LEMMA FollowsIs ==
  ASSUME TypeInv, Follows
  PROVE  /\ Takes(bus', bus) /\ UNCHANGED <<up, mgr, nm, svc, pend>> /\ N' = N
         /\ Message(Head(bus), N) /\ Head(bus).type \in {"changed", "owner", "lost", "reply"}
         /\ "overtaken" \notin hist' => "overtaken" \notin hist
         /\ "contested" \in hist' <=> "contested" \in hist
<1>1. bus # <<>> /\ bus' = Tail(bus) /\ UNCHANGED <<up, mgr, nm, svc, pend>>
  BY FollowsKeeps DEF Receives, ClientKeeps
<1>2. Takes(bus', bus)
  BY <1>1, TakesIs DEF TypeInv, Messages
<1>3. Message(Head(bus), N)
  BY <1>1, MessagesTail DEF TypeInv
<1>4. hist' = hist \/ hist' = hist \cup {"overtaken"}
  BY DEF Follows, ServiceLost, ServiceOwnerChanged, ClientPropertiesChanged, AddConnectionFinished
<1> QED BY <1>1, <1>2, <1>3, <1>4 DEF Message, N

\* A client reads when it takes the news, and has lost nothing when there
\* is none.
LEMMA HasReadTaken ==
  ASSUME TypeInv, Owned, HasRead, Follows
  PROVE  HasRead'
<1> SUFFICES ASSUME up', \A n \in DOMAIN bus' : ~Owns(bus'[n], Private)
             PROVE  "SimForMobileData" \in DOMAIN cl'.cache[Private]
  BY DEF HasRead
<1>1. Takes(bus', bus) /\ up
  BY FollowsIs
<1>2. PICK len \in Nat :
          /\ len >= 1 /\ DOMAIN bus = 1 .. len /\ DOMAIN bus' = 1 .. len - 1 /\ Head(bus) = bus[1]
          /\ \A n \in 1 .. len - 1 : bus'[n] = bus[n + 1]
  BY <1>1 DEF Takes
<1>3. \A n \in 2 .. len : ~Owns(bus[n], Private)
  <2> TAKE n \in 2 .. len
  <2>1. PICK k \in 1 .. len - 1 : n = k + 1
    OBVIOUS
  <2> QED BY <1>2, <2>1
<1>4. CASE Owns(bus[1], Private)
  <2>1. Head(bus).type = "owner" /\ Head(bus).object = Private
    BY <1>2, <1>4 DEF Owns
  <2>2. cl' = Refreshed(cl, Private)
    BY <2>1, FollowsOwner
  <2>3. Client(cl, N) /\ ModemsShown(cl) /\ ReadsTyped(N)
    BY TypeFacts DEF TypeInv, Shows
  <2>4. cl'.cache[Private] = Read(Private)
    BY <2>2, <2>3, PrivateRefreshed
  <2>5. Read(Private) = GetAll(mgr, svc, Private)
    BY <1>1 DEF Read
  <2> QED BY <2>4, <2>5, GetAllIs DEF PrivateProperties
<1>5. CASE ~Owns(bus[1], Private)
  <2>1. \A n \in DOMAIN bus : ~Owns(bus[n], Private)
    <3> TAKE n \in DOMAIN bus
    <3>1. n = 1 \/ n \in 2 .. len
      BY <1>2
    <3> QED BY <1>3, <1>5, <3>1
  <2>2. "SimForMobileData" \in DOMAIN cl.cache[Private]
    BY <1>1, <2>1 DEF HasRead
  <2>3. Head(bus).type # "lost"
    <3>1. 1 \in DOMAIN bus
      BY <1>2
    <3> QED BY <1>1, <1>2, <2>1, <3>1 DEF Owned
  <2>4. CASE Head(bus).type = "changed" /\ Head(bus).object = Private
    <3>1. PICK vs : vs = Head(bus).values
      OBVIOUS
    <3>2. cl'.cache[Private] = Over(vs, cl.cache[Private])
      BY <2>4, <3>1, FollowsPrivate
    <3>3. DOMAIN cl.cache[Private] \subseteq DOMAIN cl'.cache[Private]
      BY <3>2 DEF Over
    <3> QED BY <2>2, <3>3
  <2>5. CASE ~(Head(bus).type = "changed" /\ Head(bus).object = Private)
    <3>1. ~(Head(bus).type = "owner" /\ Head(bus).object = Private)
      BY <1>2, <1>5 DEF Owns
    <3>2. Alike(cl, cl')
      BY <2>3, <2>5, <3>1, FollowsIs, FollowsAlike
    <3> QED BY <2>2, <3>2 DEF Alike
  <2> QED BY <2>4, <2>5
<1> QED BY <1>4, <1>5

\* A choice of one of the manager's SIMs is expected at the end of the bus.
LEMMA ChoiceExpected ==
  ASSUME TypeInv, Growing, EchoInv, up, NEW len \in Nat, DOMAIN bus = 1 .. len,
         NEW v \in 0 .. N
  PROVE  \/ v \in cl.sims \cup {NoPath}
         \/ \E m \in 1 .. len :
               Owns(bus[m], Private) \/ (SaysSims(bus[m]) /\ v \in bus[m].values["Sims"])
<1>1. N \in Nat
  BY TypeFacts
<1>2. CASE \E n \in DOMAIN bus : SaysSims(bus[n])
  <2>1. PICK m \in DOMAIN bus : SaysSims(bus[m]) /\ bus[m].values["Sims"] = 1 .. N
    BY <1>2 DEF Growing
  <2> QED BY <1>1, <2>1 DEF NoPath
<1>3. CASE (\A n \in DOMAIN bus : ~SaysSims(bus[n])) /\ \A n \in DOMAIN bus : ~Owns(bus[n], Private)
  <2>1. cl.sims = 1 .. N
    BY <1>3 DEF EchoInv
  <2> QED BY <1>1, <2>1 DEF NoPath
<1> QED BY <1>2, <1>3

\* Messages that say no list of SIMs keep this,
LEMMA EchoAppended ==
  ASSUME TypeInv, Growing, EchoInv, NEW e, Appends(bus', bus, e), N' = N,
         cl'.sims = cl.sims, cl'.cache = cl.cache,
         cl.sims = {} => cl'.choice \in {cl.choice, NoPath}, OwnCalls(cl'),
         \A m \in Elements(e) : ~SaysSims(m),
         \A m \in Elements(e) : Says(m, Private, "SimForMobileData") =>
             up /\ m.values["SimForMobileData"] \in 0 .. N,
         up' => up \/ e = Started
  PROVE  EchoInv'
<1>1. PICK len, more \in Nat :
          /\ DOMAIN bus = 1 .. len /\ DOMAIN bus' = 1 .. len + more
          /\ \A n \in 1 .. len : bus'[n] = bus[n]
          /\ \A n \in len + 1 .. len + more : bus'[n] \in Elements(e)
          /\ \A m \in Elements(e) : \E n \in len + 1 .. len + more : bus'[n] = m
  BY DEF Appends
<1>2. PICK b : b = bus'
  OBVIOUS
<1>3. /\ \A n \in 1 .. len : n \in 1 .. len + more /\ b[n] = bus[n]
      /\ \A n \in 1 .. len + more : n \notin 1 .. len => b[n] \in Elements(e)
  BY <1>1, <1>2
<1>4. \A n \in 1 .. len + more : SaysSims(b[n]) => ListAhead(b, cl', n)
  <2> SUFFICES ASSUME NEW n \in 1 .. len + more, SaysSims(b[n])  PROVE ListAhead(b, cl', n)
    OBVIOUS
  <2>1. n \in 1 .. len /\ b[n] = bus[n]
    BY <1>3
  <2>2. ListAhead(bus, cl, n)
    BY <1>1, <2>1 DEF EchoInv
  <2>3. \A m \in 1 .. n - 1 : b[m] = bus[m]
    BY <1>3, <2>1
  <2> QED BY <2>1, <2>2, <2>3 DEF ListAhead, HasChoice
<1>5. \A n \in 1 .. len + more : Says(b[n], Private, "SimForMobileData") =>
          ChoiceAhead(b, cl', n, b[n].values["SimForMobileData"])
  <2> SUFFICES ASSUME NEW n \in 1 .. len + more, Says(b[n], Private, "SimForMobileData")
               PROVE  ChoiceAhead(b, cl', n, b[n].values["SimForMobileData"])
    OBVIOUS
  <2>1. PICK v : v = b[n].values["SimForMobileData"]
    OBVIOUS
  <2>2. CASE n \in 1 .. len
    <3>1. b[n] = bus[n] /\ n \in DOMAIN bus
      BY <1>1, <1>3, <2>2
    <3>2. ChoiceAhead(bus, cl, n, v)
      BY <2>1, <3>1 DEF EchoInv
    <3>3. \A m \in 1 .. n - 1 : b[m] = bus[m]
      BY <1>3, <2>2
    <3> QED BY <2>1, <3>2, <3>3 DEF ChoiceAhead
  <2>3. CASE n \notin 1 .. len
    <3>1. up /\ v \in 0 .. N
      BY <1>3, <2>1, <2>3
    <3>2. \/ v \in cl.sims \cup {NoPath}
          \/ \E m \in 1 .. len :
                Owns(bus[m], Private) \/ (SaysSims(bus[m]) /\ v \in bus[m].values["Sims"])
      BY <1>1, <3>1, ChoiceExpected
    <3>3. \A m \in 1 .. len : m \in 1 .. n - 1 /\ b[m] = bus[m]
      BY <1>3, <2>3
    <3> QED BY <2>1, <3>2, <3>3 DEF ChoiceAhead
  <2> QED BY <2>2, <2>3
<1>6. ASSUME \A n \in 1 .. len + more : ~SaysSims(b[n])
      PROVE  cl'.sims = 1 .. N \/ (cl'.sims = {} /\ cl'.choice = NoPath)
  <2>1. \A n \in DOMAIN bus : ~SaysSims(bus[n])
    BY <1>1, <1>3, <1>6
  <2> QED BY <2>1 DEF EchoInv
<1>7. ASSUME up', \A n \in 1 .. len + more : ~SaysSims(b[n]) /\ ~Owns(b[n], Private)
      PROVE  cl'.sims = 1 .. N
  <2>1. \A n \in DOMAIN bus : ~SaysSims(bus[n]) /\ ~Owns(bus[n], Private)
    BY <1>1, <1>3, <1>7
  <2>2. e # Started
    <3>1. Owner(Private) \in Elements(Started)
      BY StartedFacts DEF Elements
    <3>2. Owns(Owner(Private), Private)
      BY DEF Owns, Owner
    <3>3. \A n \in len + 1 .. len + more : n \in 1 .. len + more
      OBVIOUS
    <3>4. Owner(Private) \notin Elements(e)
      BY <1>1, <1>2, <1>7, <3>2, <3>3
    <3> QED BY <3>1, <3>4
  <2> QED BY <1>7, <2>1, <2>2 DEF EchoInv
<1>8. HasChoice(cl') => cl'.cache[Private]["SimForMobileData"] \in cl'.sims \cup {NoPath}
  BY DEF EchoInv, HasChoice
<1> QED BY <1>1, <1>2, <1>4, <1>5, <1>6, <1>7, <1>8 DEF EchoInv

\* so does a new SIM, whose list goes out before its choice,
LEMMA EchoEnlarged ==
  ASSUME TypeInv, Growing, Owned, HasRead, EchoInv, NEW q, NEW p, Enlarges(q, p)
  PROVE  EchoInv'
<1>1. PICK e :
          /\ Appends(bus', bus, e) /\ N' = N + 1 /\ N \in Nat /\ up /\ up' /\ cl' = cl
          /\ \A x \in Elements(e) : SaysSims(x) => x.values["Sims"] = 1 .. N + 1
          /\ \E x \in Elements(e) : SaysSims(x)
          /\ \A x \in Elements(e) : Says(x, Private, "SimForMobileData") =>
                 x.values["SimForMobileData"] \in 0 .. N
          /\ \A x \in Elements(e) : x.type = "changed"
  BY EnlargesSays
<1>2. PICK len, more \in Nat :
          /\ DOMAIN bus = 1 .. len /\ DOMAIN bus' = 1 .. len + more
          /\ \A n \in 1 .. len : bus'[n] = bus[n]
          /\ \A n \in len + 1 .. len + more : bus'[n] \in Elements(e)
          /\ \A m \in Elements(e) : \E n \in len + 1 .. len + more : bus'[n] = m
  BY <1>1 DEF Appends
<1>3. PICK b : b = bus'
  OBVIOUS
<1>4. /\ \A n \in 1 .. len : n \in 1 .. len + more /\ b[n] = bus[n]
      /\ \A n \in 1 .. len + more : n \notin 1 .. len => b[n] \in Elements(e)
  BY <1>2, <1>3
<1>5. \A n \in 1 .. len + more : SaysSims(b[n]) => ListAhead(b, cl, n)
  <2> SUFFICES ASSUME NEW n \in 1 .. len + more, SaysSims(b[n])  PROVE ListAhead(b, cl, n)
    OBVIOUS
  <2>1. CASE n \in 1 .. len
    <3>1. b[n] = bus[n] /\ n \in DOMAIN bus
      BY <1>2, <1>4, <2>1
    <3>2. ListAhead(bus, cl, n)
      BY <3>1 DEF EchoInv
    <3>3. \A m \in 1 .. n - 1 : b[m] = bus[m]
      BY <1>4, <2>1
    <3> QED BY <3>1, <3>2, <3>3 DEF ListAhead
  <2>2. CASE n \notin 1 .. len
    <3>1. b[n].values["Sims"] = 1 .. N + 1
      BY <1>1, <1>4, <2>2
    <3>2. cl.sims \subseteq b[n].values["Sims"]
      <4>1. cl.sims \subseteq 1 .. N
        BY <1>1, ClientFacts DEF TypeInv, Shows
      <4> QED BY <1>1, <3>1, <4>1
    <3>3. CASE \E m \in 1 .. len : Owns(bus[m], Private)
      <4>1. \A m \in 1 .. len : m \in 1 .. n - 1 /\ b[m] = bus[m]
        BY <1>4, <2>2
      <4> QED BY <3>2, <3>3, <4>1 DEF ListAhead
    <3>4. CASE \A m \in 1 .. len : ~Owns(bus[m], Private)
      <4>1. HasChoice(cl)
        BY <1>1, <1>2, <3>4 DEF HasRead, HasChoice
      <4>2. \A m \in 1 .. len : bus[m].type # "lost"
        BY <1>1, <1>2, <3>4 DEF Owned
      <4>3. ASSUME NEW m \in 1 .. n - 1  PROVE b[m].type # "lost"
        <5>1. m \in 1 .. len + more
          OBVIOUS
        <5>2. CASE m \in 1 .. len
          BY <1>4, <4>2, <5>2
        <5>3. CASE m \notin 1 .. len
          <6>1. b[m].type = "changed"
            BY <1>1, <1>4, <5>1, <5>3
          <6> QED BY <6>1
        <5> QED BY <5>2, <5>3
      <4> QED BY <3>2, <4>1, <4>3 DEF ListAhead
    <3> QED BY <3>3, <3>4
  <2> QED BY <2>1, <2>2
<1>6. \A n \in 1 .. len + more : Says(b[n], Private, "SimForMobileData") =>
          ChoiceAhead(b, cl, n, b[n].values["SimForMobileData"])
  <2> SUFFICES ASSUME NEW n \in 1 .. len + more, Says(b[n], Private, "SimForMobileData")
               PROVE  ChoiceAhead(b, cl, n, b[n].values["SimForMobileData"])
    OBVIOUS
  <2>1. PICK v : v = b[n].values["SimForMobileData"]
    OBVIOUS
  <2>2. CASE n \in 1 .. len
    <3>1. b[n] = bus[n] /\ n \in DOMAIN bus
      BY <1>2, <1>4, <2>2
    <3>2. ChoiceAhead(bus, cl, n, v)
      BY <2>1, <3>1 DEF EchoInv
    <3>3. \A m \in 1 .. n - 1 : b[m] = bus[m]
      BY <1>4, <2>2
    <3> QED BY <2>1, <3>2, <3>3 DEF ChoiceAhead
  <2>3. CASE n \notin 1 .. len
    <3>1. v \in 0 .. N
      BY <1>1, <1>4, <2>1, <2>3
    <3>2. \/ v \in cl.sims \cup {NoPath}
          \/ \E m \in 1 .. len :
                Owns(bus[m], Private) \/ (SaysSims(bus[m]) /\ v \in bus[m].values["Sims"])
      BY <1>1, <1>2, <3>1, ChoiceExpected
    <3>3. \A m \in 1 .. len : m \in 1 .. n - 1 /\ b[m] = bus[m]
      BY <1>4, <2>3
    <3> QED BY <2>1, <3>2, <3>3 DEF ChoiceAhead
  <2> QED BY <2>2, <2>3
<1>7. \E n \in 1 .. len + more : SaysSims(b[n])
  <2>1. PICK x \in Elements(e) : SaysSims(x)
    BY <1>1
  <2>2. PICK m \in len + 1 .. len + more : b[m] = x
    BY <1>2, <1>3, <2>1
  <2>3. m \in 1 .. len + more
    OBVIOUS
  <2> QED BY <2>1, <2>2, <2>3
<1>8. /\ HasChoice(cl) => cl.cache[Private]["SimForMobileData"] \in cl.sims \cup {NoPath}
      /\ OwnCalls(cl)
  BY DEF EchoInv
<1>9. cl' = cl /\ DOMAIN bus' = 1 .. len + more
  BY <1>1, <1>2
<1>10. ~\A n \in DOMAIN bus' : ~SaysSims(bus'[n])
  BY <1>3, <1>7, <1>9
<1>11. \A n \in DOMAIN bus' : SaysSims(bus'[n]) => ListAhead(bus', cl', n)
  BY <1>3, <1>5, <1>9
<1>12. \A n \in DOMAIN bus' : Says(bus'[n], Private, "SimForMobileData") =>
          ChoiceAhead(bus', cl', n, bus'[n].values["SimForMobileData"])
  BY <1>3, <1>6, <1>9
<1>13. /\ HasChoice(cl') => cl'.cache[Private]["SimForMobileData"] \in cl'.sims \cup {NoPath}
       /\ OwnCalls(cl')
  BY <1>8, <1>9
<1> QED BY <1>10, <1>11, <1>12, <1>13 DEF EchoInv

\* The head is taken, and the client's SIMs grow with a list.
LEMMA EchoTail ==
  ASSUME TypeInv, Growing, EchoInv, Takes(bus', bus), up' = up, N' = N,
         ~Owns(Head(bus), Private),
         cl'.sims = IF SaysSims(Head(bus)) THEN Head(bus).values["Sims"] ELSE cl.sims,
         Head(bus).type = "lost" \/ (HasChoice(cl) => HasChoice(cl')),
         cl'.sims = {} => cl'.choice \in {cl.choice, NoPath},
         HasChoice(cl') => cl'.cache[Private]["SimForMobileData"] \in cl'.sims \cup {NoPath},
         OwnCalls(cl')
  PROVE  EchoInv'
<1>1. PICK len \in Nat :
          /\ len >= 1 /\ DOMAIN bus = 1 .. len /\ DOMAIN bus' = 1 .. len - 1 /\ Head(bus) = bus[1]
          /\ \A n \in 1 .. len - 1 : bus'[n] = bus[n + 1]
  BY DEF Takes
<1>2. PICK b : b = bus'
  OBVIOUS
<1>3. PICK h : h = Head(bus) /\ h = bus[1]
  BY <1>1
<1>4. \A n \in 1 .. len - 1 : n + 1 \in 1 .. len /\ b[n] = bus[n + 1]
  BY <1>1, <1>2
<1>5. cl.sims \subseteq cl'.sims
  <2>1. CASE SaysSims(h)
    <3>1. ListAhead(bus, cl, 1)
      BY <1>1, <1>3, <2>1 DEF EchoInv
    <3> QED BY <1>3, <2>1, <3>1 DEF ListAhead
  <2>2. CASE ~SaysSims(h)
    BY <1>3, <2>2
  <2> QED BY <2>1, <2>2
<1>6. ASSUME NEW n \in 1 .. len - 1, NEW m \in 1 .. n, m # 1
      PROVE  \E k \in 1 .. n - 1 : b[k] = bus[m]
  <2>1. PICK k \in 1 .. n - 1 : k + 1 = m
    BY <1>6
  <2> QED BY <1>4, <2>1
<1>7. \A n \in 1 .. len - 1 : SaysSims(b[n]) => ListAhead(b, cl', n)
  <2> SUFFICES ASSUME NEW n \in 1 .. len - 1, SaysSims(b[n])  PROVE ListAhead(b, cl', n)
    OBVIOUS
  <2>1. n + 1 \in 1 .. len /\ b[n] = bus[n + 1] /\ n + 1 - 1 = n
    BY <1>4
  <2>2. ListAhead(bus, cl, n + 1)
    BY <1>1, <2>1 DEF EchoInv
  <2>3. cl'.sims \subseteq b[n].values["Sims"]
    <3>1. CASE SaysSims(h)
      <4>1. 1 < n + 1 /\ 1 \in 1 .. len
        BY <1>1
      <4>2. h.values["Sims"] \subseteq bus[n + 1].values["Sims"]
        BY <1>1, <1>3, <2>1, <3>1, <4>1 DEF Growing
      <4> QED BY <1>3, <2>1, <3>1, <4>2
    <3>2. CASE ~SaysSims(h)
      BY <1>3, <2>1, <2>2, <3>2 DEF ListAhead
    <3> QED BY <3>1, <3>2
  <2>4. CASE \E m \in 1 .. n : Owns(bus[m], Private)
    <3>1. PICK m \in 1 .. n : Owns(bus[m], Private)
      BY <2>4
    <3>2. m # 1
      BY <1>1, <3>1
    <3>3. \E k \in 1 .. n - 1 : b[k] = bus[m]
      BY <1>6, <3>2
    <3> QED BY <2>3, <3>1, <3>3 DEF ListAhead
  <2>5. CASE HasChoice(cl) /\ \A m \in 1 .. n : bus[m].type # "lost"
    <3>1. \A m \in 1 .. n - 1 : b[m].type # "lost"
      BY <1>4, <2>5
    <3>2. HasChoice(cl')
      BY <1>1, <1>3, <2>5
    <3> QED BY <2>3, <3>1, <3>2 DEF ListAhead
  <2> QED BY <2>1, <2>2, <2>4, <2>5 DEF ListAhead
<1>8. \A n \in 1 .. len - 1 : Says(b[n], Private, "SimForMobileData") =>
          ChoiceAhead(b, cl', n, b[n].values["SimForMobileData"])
  <2> SUFFICES ASSUME NEW n \in 1 .. len - 1, Says(b[n], Private, "SimForMobileData")
               PROVE  ChoiceAhead(b, cl', n, b[n].values["SimForMobileData"])
    OBVIOUS
  <2>1. n + 1 \in 1 .. len /\ b[n] = bus[n + 1] /\ n + 1 - 1 = n
    BY <1>4
  <2>2. PICK v : v = b[n].values["SimForMobileData"]
    OBVIOUS
  <2>3. ChoiceAhead(bus, cl, n + 1, v)
    BY <1>1, <2>1, <2>2 DEF EchoInv
  <2>4. CASE v \in cl.sims \cup {NoPath}
    BY <1>5, <2>2, <2>4 DEF ChoiceAhead
  <2>5. ASSUME NEW m \in 1 .. n,
               Owns(bus[m], Private) \/ (SaysSims(bus[m]) /\ v \in bus[m].values["Sims"])
        PROVE  ChoiceAhead(b, cl', n, v)
    <3>1. CASE m = 1
      BY <1>1, <1>3, <2>5, <3>1 DEF ChoiceAhead
    <3>2. CASE m # 1
      <4>1. \E k \in 1 .. n - 1 : b[k] = bus[m]
        BY <1>6, <3>2
      <4> QED BY <2>5, <4>1 DEF ChoiceAhead
    <3> QED BY <3>1, <3>2
  <2> QED BY <2>1, <2>2, <2>3, <2>4, <2>5 DEF ChoiceAhead
<1>9. \A n \in 1 .. len : n = 1 \/ \E k \in 1 .. len - 1 : b[k] = bus[n]
  <2> TAKE n \in 1 .. len
  <2>1. CASE n # 1
    <3>1. PICK k \in 1 .. len - 1 : k + 1 = n
      BY <2>1
    <3> QED BY <1>4, <3>1
  <2> QED BY <2>1
<1>10. ASSUME \A n \in 1 .. len - 1 : ~SaysSims(b[n])
       PROVE  /\ SaysSims(h) => cl'.sims = 1 .. N
              /\ ~SaysSims(h) => \A n \in DOMAIN bus : ~SaysSims(bus[n])
  <2>1. \A n \in 1 .. len : n # 1 => ~SaysSims(bus[n])
    BY <1>9, <1>10
  <2>2. ASSUME SaysSims(h)  PROVE cl'.sims = 1 .. N
    <3>1. PICK n \in 1 .. len : SaysSims(bus[n]) /\ bus[n].values["Sims"] = 1 .. N
      BY <1>1, <1>3, <2>2 DEF Growing
    <3>2. n = 1
      BY <2>1, <3>1
    <3> QED BY <1>3, <2>2, <3>1, <3>2
  <2> QED BY <1>1, <1>3, <2>1, <2>2
<1>11. ASSUME \A n \in 1 .. len - 1 : ~SaysSims(b[n])
       PROVE  cl'.sims = 1 .. N \/ (cl'.sims = {} /\ cl'.choice = NoPath)
  <2>1. CASE SaysSims(h)
    BY <1>10, <1>11, <2>1
  <2>2. CASE ~SaysSims(h)
    <3>1. \A n \in DOMAIN bus : ~SaysSims(bus[n])
      BY <1>10, <1>11, <2>2
    <3> QED BY <1>3, <2>2, <3>1 DEF EchoInv
  <2> QED BY <2>1, <2>2
<1>12. ASSUME up', \A n \in 1 .. len - 1 : ~SaysSims(b[n]) /\ ~Owns(b[n], Private)
       PROVE  cl'.sims = 1 .. N
  <2>1. CASE SaysSims(h)
    BY <1>10, <1>12, <2>1
  <2>2. CASE ~SaysSims(h)
    <3>1. \A n \in DOMAIN bus : ~SaysSims(bus[n])
      BY <1>10, <1>12, <2>2
    <3>2. \A n \in DOMAIN bus : ~Owns(bus[n], Private)
      BY <1>1, <1>9, <1>12
    <3> QED BY <1>3, <1>12, <2>2, <3>1, <3>2 DEF EchoInv
  <2> QED BY <2>1, <2>2
<1> QED BY <1>1, <1>2, <1>7, <1>8, <1>11, <1>12 DEF EchoInv

\* A message that is no news of Private's owner leaves what the client expects.
LEMMA EchoFollowsMessage ==
  ASSUME TypeInv, Growing, EchoInv, Follows, ~Owns(Head(bus), Private)
  PROVE  EchoInv'
<1>1. /\ Takes(bus', bus) /\ up' = up /\ N' = N
      /\ Message(Head(bus), N) /\ Head(bus).type \in {"changed", "owner", "lost", "reply"}
  BY FollowsIs
<1>2. PICK h : h = Head(bus)
  OBVIOUS
<1>3. PICK len \in Nat : len >= 1 /\ DOMAIN bus = 1 .. len /\ h = bus[1]
  BY <1>1, <1>2 DEF Takes
<1>4. 1 \in DOMAIN bus /\ h = bus[1]
  BY <1>3
<1>5. OwnCalls(cl) /\ (HasChoice(cl) => cl.cache[Private]["SimForMobileData"] \in cl.sims \cup {NoPath})
  BY DEF EchoInv
<1>6. CASE h.type = "lost"
  <2>1. /\ cl'.cache[Private] = Empty /\ cl'.sims = cl.sims /\ SameChoice(cl, cl')
    BY <1>2, <1>6, FollowsLost
  <2>2. ~HasChoice(cl')
    BY <2>1, EmptyFacts DEF HasChoice
  <2>3. ~SaysSims(h)
    BY <1>6 DEF SaysSims, Says
  <2>4. OwnCalls(cl')
    BY <1>5, <2>1 DEF OwnCalls, SameChoice
  <2>5. cl'.choice = cl.choice
    BY <2>1 DEF SameChoice
  <2> QED BY <1>1, <1>2, <1>6, <2>1, <2>2, <2>3, <2>4, <2>5, EchoTail
<1>7. CASE \/ h.type = "reply" \/ (h.type = "changed" /\ h.object # Private)
           \/ h.type = "owner"
  <2>1. Alike(cl, cl')
    BY <1>2, <1>7, FollowsAlike DEF Owns
  <2>2. ~SaysSims(h)
    BY <1>7 DEF SaysSims, Says
  <2>3. OwnCalls(cl') /\ cl'.choice = cl.choice /\ cl'.sims = cl.sims
    BY <1>5, <2>1 DEF OwnCalls, SameChoice, Alike
  <2>4. /\ HasChoice(cl') <=> HasChoice(cl)
        /\ HasChoice(cl') => cl'.cache[Private]["SimForMobileData"] \in cl'.sims \cup {NoPath}
    BY <1>5, <2>1, <2>3 DEF HasChoice, Alike
  <2> QED BY <1>1, <1>2, <2>2, <2>3, <2>4, EchoTail
<1>8. CASE h.type = "changed" /\ h.object = Private
  <2>1. PICK vs : vs = h.values
    OBVIOUS
  <2>2. /\ cl'.cache[Private] = Over(vs, cl.cache[Private])
        /\ TookPrivate(cl, cl', vs, FALSE)
    BY <1>2, <1>8, <2>1, FollowsPrivate
  <2>3. /\ SaysSims(h) <=> "Sims" \in DOMAIN vs
        /\ Says(h, Private, "SimForMobileData") <=> "SimForMobileData" \in DOMAIN vs
    BY <1>8, <2>1 DEF SaysSims, Says
  <2>4. "Sims" \in DOMAIN vs => cl.sims \subseteq vs["Sims"] /\ HasChoice(cl)
    BY <1>4, <2>1, <2>3 DEF EchoInv, ListAhead
  <2>5. "SimForMobileData" \in DOMAIN vs => vs["SimForMobileData"] \in cl.sims \cup {NoPath}
    BY <1>4, <2>1, <2>3 DEF EchoInv, ChoiceAhead
  <2>6. /\ "Sims" \in DOMAIN vs => cl'.sims = vs["Sims"]
        /\ "Sims" \notin DOMAIN vs => cl'.sims = cl.sims
        /\ Settled(cl') \/ SameChoice(cl, cl')
    BY <2>2 DEF TookPrivate
  <2>7. cl.sims \subseteq cl'.sims
    BY <2>4, <2>6
  <2>8. /\ HasChoice(cl) => HasChoice(cl')
        /\ HasChoice(cl') => cl'.cache[Private]["SimForMobileData"] \in cl'.sims \cup {NoPath}
    <3>1. /\ DOMAIN cl'.cache[Private] = DOMAIN vs \cup DOMAIN cl.cache[Private]
          /\ \A x \in DOMAIN vs : cl'.cache[Private][x] = vs[x]
          /\ \A x \in DOMAIN cl.cache[Private] :
                x \notin DOMAIN vs => cl'.cache[Private][x] = cl.cache[Private][x]
      BY <2>2 DEF Over
    <3> QED BY <1>5, <2>5, <2>7, <3>1 DEF HasChoice
  <2>9. cl'.sims = {} => cl'.choice \in {cl.choice, NoPath}
    <3>1. CASE Settled(cl')
      BY <3>1 DEF Settled, Shown, getSimByPath
    <3>2. CASE SameChoice(cl, cl')
      BY <3>2 DEF SameChoice
    <3> QED BY <2>6, <3>1, <3>2
  <2>10. cl'.calls = cl.calls
    <3>1. "SimForMobileData" \in DOMAIN vs =>
              getSimByPath(cl.sims, vs["SimForMobileData"]) = vs["SimForMobileData"]
      BY <2>5 DEF getSimByPath
    <3>2. "Sims" \in DOMAIN vs =>
              /\ "SimForMobileData" \in DOMAIN cl'.cache[Private]
              /\ cl'.cache[Private]["SimForMobileData"] \in vs["Sims"] \cup {NoPath}
      BY <2>4, <2>6, <2>8 DEF HasChoice
    <3> QED BY <2>2, <3>1, <3>2 DEF TookPrivate
  <2>11. OwnCalls(cl')
    BY <1>5, <2>10 DEF OwnCalls
  <2>12. cl'.sims = IF SaysSims(h) THEN h.values["Sims"] ELSE cl.sims
    BY <2>1, <2>3, <2>6
  <2> QED BY <1>1, <1>2, <2>8, <2>9, <2>11, <2>12, EchoTail
<1> QED BY <1>1, <1>2, <1>6, <1>7, <1>8

\* What the client reads of Private.
LEMMA ReadPrivate ==
  ASSUME TypeInv
  PROVE  /\ up => /\ "Sims" \in DOMAIN Read(Private)
                  /\ "SimForMobileData" \in DOMAIN Read(Private)
                  /\ Read(Private)["Sims"] = 1 .. N
                  /\ Read(Private)["SimForMobileData"] \in 0 .. N
         /\ ~up => Read(Private) = Empty
<1>1. ASSUME up
      PROVE  /\ "Sims" \in DOMAIN Read(Private)
             /\ "SimForMobileData" \in DOMAIN Read(Private)
             /\ Read(Private)["Sims"] = 1 .. N
             /\ Read(Private)["SimForMobileData"] \in 0 .. N
  <2>1. Manager(mgr) /\ Service(mgr, svc)
    BY <1>1 DEF TypeInv
  <2>2. Read(Private) = [p \in PrivateProperties |-> PrivateValue(mgr, svc, p)]
    BY <1>1, GetAllIs DEF Read
  <2>3. /\ PrivateValue(mgr, svc, "Sims") = Paths(svc.sims)
        /\ PrivateValue(mgr, svc, "SimForMobileData") = simForMobileData(mgr, svc)
    BY PrivateValueIs
  <2>4. Paths(svc.sims) = 1 .. N
    BY <2>1, ServiceParts DEF N
  <2>5. simForMobileData(mgr, svc) \in 0 .. N
    <3>1. mgr.choice \in mgr.sims \cup {NoSim}
      BY <2>1, ManagerParts
    <3> QED BY <2>1, <3>1, SimForMobileDataIs, PathInTyped DEF N
  <2> QED BY <2>2, <2>3, <2>4, <2>5 DEF PrivateProperties
<1> QED BY <1>1 DEF Read

\* The client reads all, unless a list is on its way behind the news.
LEMMA EchoFollowsOwner ==
  ASSUME TypeInv, Growing, EchoInv, Follows, Owns(Head(bus), Private), "overtaken" \notin hist'
  PROVE  EchoInv'
<1>1. /\ Takes(bus', bus) /\ up' = up /\ N' = N /\ N \in Nat
  BY FollowsIs, TypeFacts
<1>2. PICK len \in Nat :
          /\ len >= 1 /\ DOMAIN bus = 1 .. len /\ DOMAIN bus' = 1 .. len - 1 /\ Head(bus) = bus[1]
          /\ \A n \in 1 .. len - 1 : bus'[n] = bus[n + 1]
  BY <1>1 DEF Takes
<1>3. PICK b : b = bus'
  OBVIOUS
<1>4. Len(bus) = len
  <2>1. IsSeq(bus)
    BY DEF TypeInv, Messages
  <2>2. Len(bus) \in Nat /\ DOMAIN bus = 1 .. Len(bus)
    BY <2>1, SeqFacts
  <2> QED BY <1>2, <2>2
<1>5. \A n \in 2 .. len : ~(bus[n].type = "changed" /\ bus[n].object = Private)
  BY <1>4, FollowsOwner DEF Owns
<1>6. \A n \in 1 .. len : ~(bus[n].type = "changed" /\ bus[n].object = Private)
  <2> TAKE n \in 1 .. len
  <2>1. CASE n = 1
    BY <1>2, <2>1 DEF Owns
  <2>2. CASE n # 1
    <3>1. n \in 2 .. len
      BY <2>2
    <3> QED BY <1>5, <3>1
  <2> QED BY <2>1, <2>2
<1>7. \A n \in 1 .. len - 1 : ~(b[n].type = "changed" /\ b[n].object = Private)
  <2> TAKE n \in 1 .. len - 1
  <2>1. n + 1 \in 1 .. len /\ b[n] = bus[n + 1]
    BY <1>2, <1>3
  <2> QED BY <1>6, <2>1
<1>8. /\ \A n \in 1 .. len : ~SaysSims(bus[n])
      /\ \A n \in 1 .. len - 1 : ~SaysSims(b[n]) /\ ~Says(b[n], Private, "SimForMobileData")
  BY <1>6, <1>7 DEF SaysSims, Says
<1>9. cl.sims = 1 .. N \/ (cl.sims = {} /\ cl.choice = NoPath)
  BY <1>2, <1>8 DEF EchoInv
<1>10. PICK vs : vs = Read(Private)
  OBVIOUS
<1>11. /\ cl'.cache[Private] = vs
       /\ "Sims" \in DOMAIN vs => cl'.sims = vs["Sims"]
       /\ vs = Empty => cl'.sims = cl.sims /\ SameChoice(cl, cl')
       /\ /\ "SimForMobileData" \in DOMAIN vs /\ "Sims" \in DOMAIN vs
          /\ getSimByPath(cl.sims, vs["SimForMobileData"])
                 \in {cl.choice, vs["SimForMobileData"]}
          /\ vs["SimForMobileData"] \in vs["Sims"] \cup {NoPath}
          => cl'.calls = cl.calls
  <2>1. Client(cl, N) /\ ModemsShown(cl) /\ ReadsTyped(N)
    BY TypeFacts DEF TypeInv, Shows
  <2>2. cl' = Refreshed(cl, Private)
    BY FollowsOwner DEF Owns
  <2>3. PICK d : d = Refreshed(cl, Private)
    OBVIOUS
  <2>4. /\ d.cache[Private] = vs
        /\ "Sims" \in DOMAIN vs => d.sims = vs["Sims"]
        /\ vs = Empty => d.sims = cl.sims /\ SameChoice(cl, d)
        /\ /\ "SimForMobileData" \in DOMAIN vs /\ "Sims" \in DOMAIN vs
           /\ getSimByPath(cl.sims, vs["SimForMobileData"])
                  \in {cl.choice, vs["SimForMobileData"]}
           /\ vs["SimForMobileData"] \in vs["Sims"] \cup {NoPath}
           => d.calls = cl.calls
    BY <1>10, <2>1, <2>3, PrivateRefreshed
  <2> QED BY <2>2, <2>3, <2>4
<1>12. OwnCalls(cl)
  BY DEF EchoInv
<1>13. CASE up
  <2>1. /\ "Sims" \in DOMAIN vs /\ "SimForMobileData" \in DOMAIN vs
        /\ vs["Sims"] = 1 .. N /\ vs["SimForMobileData"] \in 0 .. N
    BY <1>10, <1>13, ReadPrivate
  <2>2. PICK v : v = vs["SimForMobileData"]
    OBVIOUS
  <2>3. v \in vs["Sims"] \cup {NoPath}
    BY <1>1, <2>1, <2>2 DEF NoPath
  <2>4. getSimByPath(cl.sims, v) \in {cl.choice, v}
    BY <1>9, <2>1, <2>3 DEF getSimByPath
  <2>5. cl'.sims = 1 .. N /\ cl'.calls = cl.calls
    BY <1>11, <2>1, <2>2, <2>3, <2>4
  <2>6. OwnCalls(cl')
    BY <1>12, <2>5 DEF OwnCalls
  <2>7. HasChoice(cl') => cl'.cache[Private]["SimForMobileData"] \in cl'.sims \cup {NoPath}
    BY <1>11, <2>1, <2>2, <2>3, <2>5
  <2> QED BY <1>1, <1>2, <1>3, <1>8, <2>5, <2>6, <2>7 DEF EchoInv
<1>14. CASE ~up
  <2>1. vs = Empty
    BY <1>10, <1>14, ReadPrivate
  <2>2. cl'.sims = cl.sims /\ cl'.choice = cl.choice /\ cl'.calls = cl.calls
    BY <1>11, <2>1 DEF SameChoice
  <2>3. ~HasChoice(cl')
    BY <1>11, <2>1, EmptyFacts DEF HasChoice
  <2>4. OwnCalls(cl')
    BY <1>12, <2>2 DEF OwnCalls
  <2> QED BY <1>1, <1>2, <1>3, <1>8, <1>9, <1>14, <2>2, <2>3, <2>4 DEF EchoInv
<1> QED BY <1>13, <1>14

\* and what the client takes from the bus.
LEMMA EchoTaken ==
  ASSUME TypeInv, Growing, EchoInv, Follows, "overtaken" \notin hist'
  PROVE  EchoInv'
BY EchoFollowsMessage, EchoFollowsOwner

\* A step of the service, in short.
LEMMA ServiceSays ==
  ASSUME TypeInv, ServiceSteps
  PROVE  \E e :
             /\ Appends(bus', bus, e) /\ N' = N /\ up /\ up'
             /\ \A m \in Elements(e) : m.type \in {"changed", "reply"} /\ ~SaysSims(m)
             /\ \A m \in Elements(e) : Says(m, Private, "SimForMobileData") =>
                    m.values["SimForMobileData"] \in 0 .. N
<1>1. PICK q, replies : Serving(q, replies)
  BY DEF ServiceSteps
<1>2. /\ up /\ Pending(q, N) /\ ~Holds(q, Private, "Sims") /\ IsSeq(replies)
      /\ \A m \in Elements(replies) : m.type = "reply"
      /\ mgr'.sims = mgr.sims
  BY <1>1 DEF Serving
<1>3. /\ up' /\ N' = N /\ N \in Nat /\ IsSeq(bus)
  <2>1. up' = up
    BY DEF ServiceSteps, Awaits, Handled
  <2>2. N' = N
    BY <1>2 DEF N
  <2> QED BY <1>2, <2>1, <2>2, TypeFacts DEF TypeInv, Messages
<1>4. ASSUME NEW m, m \in Elements(replies) \/ \E o \in DOMAIN q : m = Signal(q, o)
      PROVE  /\ m.type \in {"changed", "reply"} /\ ~SaysSims(m)
             /\ Says(m, Private, "SimForMobileData") => m.values["SimForMobileData"] \in 0 .. N
  <2>1. CASE m \in Elements(replies)
    BY <1>2, <2>1 DEF SaysSims, Says
  <2>2. CASE \E o \in DOMAIN q : m = Signal(q, o)
    <3>1. PICK o \in DOMAIN q : m = Signal(q, o)
      BY <2>2
    <3>2. m.type = "changed" /\ m.object = o /\ m.values = q[o]
      BY <3>1 DEF Signal
    <3>3. ~SaysSims(m)
      BY <1>2, <3>2 DEF SaysSims, Says, Holds
    <3>4. Says(m, Private, "SimForMobileData") => m.values["SimForMobileData"] \in 0 .. N
      BY <1>2, <3>2 DEF Pending, Values, Says
    <3> QED BY <3>2, <3>3, <3>4
  <2> QED BY <1>4, <2>1, <2>2
<1>5. CASE Waits(q, replies)
  <2>1. bus' = bus \o replies
    BY <1>5 DEF Waits
  <2>2. Appends(bus', bus, replies)
    BY <1>2, <1>3, <2>1, AppendsIs
  <2> QED BY <1>2, <1>3, <1>4, <2>2
<1>6. CASE Speaks(q, replies)
  <2>1. SpokenTo(bus', bus, q, replies)
    BY <1>6 DEF SpokenTo, Speaks
  <2>2. PICK e : Spoken(e, q, replies) /\ bus' = bus \o e
    BY <1>2, <1>3, <2>1, SpokenIs
  <2>3. IsSeq(e)
    BY <2>2 DEF Spoken
  <2>4. Appends(bus', bus, e)
    BY <1>3, <2>2, <2>3, AppendsIs
  <2>5. \A m \in Elements(e) : m \in Elements(replies) \/ \E o \in DOMAIN q : m = Signal(q, o)
    <3> TAKE m \in Elements(e)
    <3>1. PICK n \in DOMAIN e : m = e[n]
      BY DEF Elements
    <3>2. n \in Nat
      BY <2>3, SeqFacts
    <3> QED BY <2>2, <3>1, <3>2 DEF Spoken
  <2> QED BY <1>2, <1>3, <1>4, <2>4, <2>5
<1> QED BY <1>1, <1>5, <1>6 DEF Serving

\* OwnCalls after the calls a step makes.
LEMMA OwnTail ==
  ASSUME NEW c, NEW d, OwnCalls(c), IsSeq(c.calls),
         \/ d.calls = c.calls
         \/ c.calls # <<>> /\ d.calls = Tail(c.calls)
         \/ \E e : d.calls = Append(c.calls, e) /\ (Asks(e) => e.by = "user")
  PROVE  OwnCalls(d)
<1>1. CASE d.calls = c.calls
  BY <1>1 DEF OwnCalls
<1>2. CASE c.calls # <<>> /\ d.calls = Tail(c.calls)
  BY <1>2, TailFacts DEF OwnCalls
<1>3. ASSUME NEW e, d.calls = Append(c.calls, e), Asks(e) => e.by = "user"
      PROVE  OwnCalls(d)
  <2>1. PICK s : s = c.calls
    OBVIOUS
  <2>2. PICK t : t = Append(s, e)
    OBVIOUS
  <2>3. Behind(s, <<e>>, t) /\ Len(<<e>>) = 1 /\ <<e>>[1] = e /\ IsSeq(s)
    BY <2>1, <2>2, AppendFacts
  <2>4. Len(s) \in Nat /\ DOMAIN s = 1 .. Len(s) /\ DOMAIN t = 1 .. Len(t)
    BY <2>3, SeqFacts DEF Behind
  <2>5. ASSUME NEW n \in DOMAIN t, Asks(t[n])  PROVE t[n].by = "user"
    <3>1. CASE n <= Len(s)
      <4>1. n \in DOMAIN s /\ t[n] = s[n]
        BY <2>3, <2>4, <2>5, <3>1 DEF Behind
      <4> QED BY <2>1, <2>5, <4>1 DEF OwnCalls
    <3>2. CASE ~(n <= Len(s))
      <4>1. n - Len(s) = 1
        BY <2>3, <2>4, <2>5, <3>2 DEF Behind
      <4>2. t[n] = e
        BY <2>3, <2>4, <2>5, <3>2, <4>1 DEF Behind
      <4> QED BY <1>3, <2>5, <4>2
    <3> QED BY <3>1, <3>2
  <2> QED BY <1>3, <2>1, <2>2, <2>5 DEF OwnCalls
<1> QED BY <1>1, <1>2, <1>3

\* Such a step keeps the invariants.
LEMMA AddsKeeps ==
  ASSUME TypeInv, NewsInv, NEW e, Adds(e)
  PROVE  NewsInv' /\ (EchoInv => EchoInv')
<1>1. Owned'
  BY OwnedAppended DEF NewsInv, Adds
<1>2. HasRead'
  BY HasReadAppended DEF NewsInv, Adds
<1>3. Growing'
  BY GrowingAppended DEF NewsInv, Adds
<1>4. ASSUME EchoInv  PROVE EchoInv'
  <2>1. OwnCalls(cl')
    BY <1>4 DEF Adds, EchoInv
  <2>2. Growing
    BY DEF NewsInv
  <2> QED BY <1>4, <2>1, <2>2, EchoAppended DEF Adds
<1> QED BY <1>1, <1>2, <1>3, <1>4 DEF NewsInv

\* Two sequences appended are one.
LEMMA AppendsTwice ==
  ASSUME NEW s, IsSeq(s), NEW e, IsSeq(e), NEW f, IsSeq(f)
  PROVE  Appends((s \o e) \o f, s, e \o f)
<1>1. Appends(s \o e, s, e) /\ IsSeq(s \o e)
  BY AppendsIs, ConcatElements
<1>2. PICK t : t = s \o e
  OBVIOUS
<1>3. Appends(t \o f, t, f)
  BY <1>1, <1>2, AppendsIs
<1>4. PICK u : u = t \o f
  OBVIOUS
<1>5. PICK g : g = e \o f
  OBVIOUS
<1>6. Elements(g) = Elements(e) \cup Elements(f)
  BY <1>5, ConcatElements
<1>7. PICK len, more \in Nat :
          /\ DOMAIN s = 1 .. len /\ DOMAIN t = 1 .. len + more
          /\ \A n \in 1 .. len : t[n] = s[n]
          /\ \A n \in len + 1 .. len + more : t[n] \in Elements(e)
          /\ \A m \in Elements(e) : \E n \in len + 1 .. len + more : t[n] = m
  BY <1>1, <1>2 DEF Appends
<1>8. PICK k, l \in Nat :
          /\ DOMAIN t = 1 .. k /\ DOMAIN u = 1 .. k + l
          /\ \A n \in 1 .. k : u[n] = t[n]
          /\ \A n \in k + 1 .. k + l : u[n] \in Elements(f)
          /\ \A m \in Elements(f) : \E n \in k + 1 .. k + l : u[n] = m
  <2>1. Appends(u, t, f)
    BY <1>3, <1>4
  <2> QED BY <2>1, Zenon DEF Appends
<1>9. k = len + more
  BY <1>7, <1>8
<1>10. PICK y \in Nat : y = more + l
  BY <1>7, <1>8
<1>11. DOMAIN u = 1 .. len + y
  BY <1>8, <1>9, <1>10
<1>12. \A n \in 1 .. len : u[n] = s[n]
  BY <1>7, <1>8, <1>9
<1>13. \A n \in len + 1 .. len + y : u[n] \in Elements(g)
  <2> TAKE n \in len + 1 .. len + y
  <2>1. CASE n <= k
    <3>1. n \in len + 1 .. len + more /\ n \in 1 .. k
      BY <1>9, <2>1
    <3> QED BY <1>6, <1>7, <1>8, <3>1
  <2>2. CASE ~(n <= k)
    <3>1. n \in k + 1 .. k + l
      BY <1>9, <1>10, <2>2
    <3> QED BY <1>6, <1>8, <3>1
  <2> QED BY <2>1, <2>2
<1>14. \A m \in Elements(g) : \E n \in len + 1 .. len + y : u[n] = m
  <2> TAKE m \in Elements(g)
  <2>1. CASE m \in Elements(e)
    <3>1. PICK n \in len + 1 .. len + more : t[n] = m
      BY <1>7, <2>1
    <3>2. n \in 1 .. k /\ n \in len + 1 .. len + y
      BY <1>9, <1>10
    <3> QED BY <1>8, <3>1, <3>2
  <2>2. CASE m \in Elements(f)
    <3>1. PICK n \in k + 1 .. k + l : u[n] = m
      BY <1>8, <2>2
    <3>2. n \in len + 1 .. len + y
      BY <1>9, <1>10
    <3> QED BY <3>1, <3>2
  <2> QED BY <1>6, <2>1, <2>2
<1>15. Appends(u, s, g)
  BY <1>7, <1>11, <1>12, <1>13, <1>14 DEF Appends
<1> QED BY <1>2, <1>4, <1>5, <1>15

\* Such steps are those of the service,
LEMMA ServiceAdds ==
  ASSUME TypeInv, ServiceSteps
  PROVE  \E e : Adds(e)
<1>1. PICK e :
          /\ Appends(bus', bus, e) /\ N' = N /\ up /\ up'
          /\ \A m \in Elements(e) : m.type \in {"changed", "reply"} /\ ~SaysSims(m)
          /\ \A m \in Elements(e) : Says(m, Private, "SimForMobileData") =>
                 m.values["SimForMobileData"] \in 0 .. N
  BY ServiceSays
<1>2. Client(cl, N) /\ IsSeq(cl.calls) /\ Calls(cl.calls, N)
  BY DEF TypeInv, Shows, Client
<1>3. CASE Awaits
  BY <1>1, <1>3 DEF Adds, Awaits
<1>4. CASE Handled
  <2>1. cl.calls # <<>> /\ cl' = Calling(cl, Tail(cl.calls))
    BY <1>4 DEF Handled
  <2>2. PICK s : s = Tail(cl.calls)
    OBVIOUS
  <2>3. IsSeq(s) /\ Calls(s, N)
    BY <1>2, <2>1, <2>2, CallsTail
  <2>4. PICK d : d = Calling(cl, s)
    OBVIOUS
  <2>5. d.cache = cl.cache /\ d.sims = cl.sims /\ d.choice = cl.choice /\ d.calls = s
    BY <1>2, <2>3, <2>4, CallingFacts
  <2>6. OwnCalls(cl) => OwnCalls(d)
    BY <1>2, <2>1, <2>2, <2>5, OwnTail
  <2> QED BY <1>1, <2>1, <2>2, <2>4, <2>5, <2>6 DEF Adds
<1> QED BY <1>3, <1>4 DEF ServiceSteps

\* a crash,
LEMMA CrashAdds ==
  ASSUME TypeInv, Crash
  PROVE  \E e : Adds(e)
<1>1. /\ ~up' /\ mgr'.sims = mgr.sims /\ cl' = Calling(cl, <<>>)
  BY CrashIs
<1>2. PICK replies :
          /\ Answers(replies)
          /\ \A m \in Elements(replies) : m.type = "reply" /\ m.path = NoPath
          /\ bus' = bus \o replies \o <<[type |-> "lost"]>>
  BY CrashIs
<1>3. PICK m : m = [type |-> "lost"]
  OBVIOUS
<1>4. PICK f : f = <<m>>
  OBVIOUS
<1>5. IsSeq(bus) /\ IsSeq(replies) /\ Client(cl, N)
  BY <1>2 DEF TypeInv, Messages, Answers, Shows
<1>6. IsSeq(f) /\ Elements(f) = {m}
  BY <1>4, <1>5, AppendElements
<1>7. PICK e : e = replies \o f
  OBVIOUS
<1>8. bus' = (bus \o replies) \o f
  BY <1>2, <1>3, <1>4
<1>9. Appends(bus', bus, e) /\ Elements(e) = Elements(replies) \cup {m}
  BY <1>5, <1>6, <1>7, <1>8, AppendsTwice, ConcatElements
<1>10. \A x \in Elements(e) : x.type # "changed"
  BY <1>2, <1>3, <1>9
<1>11. \A x \in Elements(e) : ~SaysSims(x) /\ ~Says(x, Private, "SimForMobileData")
  BY <1>10 DEF SaysSims, Says
<1>12. PICK d : d = Calling(cl, <<>>)
  OBVIOUS
<1>13. d.cache = cl.cache /\ d.sims = cl.sims /\ d.choice = cl.choice /\ DOMAIN d.calls = {}
  BY <1>5, <1>12, CallingNone
<1>14. OwnCalls(d)
  BY <1>13 DEF OwnCalls
<1>15. N' = N
  BY <1>1 DEF N
<1>16. Adds(e)
  BY <1>1, <1>9, <1>11, <1>12, <1>13, <1>14, <1>15 DEF Adds
<1> QED BY <1>16

\* a start,
LEMMA StartAdds ==
  ASSUME TypeInv, Start
  PROVE  \E e : Adds(e)
<1>1. UNCHANGED <<mgr, cl>> /\ bus' = bus \o Started
  BY StartIs
<1>2. IsSeq(bus) /\ IsSeq(Started)
  BY StartedFacts DEF TypeInv, Messages
<1>3. PICK e : e = Started
  OBVIOUS
<1>4. Appends(bus', bus, e)
  BY <1>1, <1>2, <1>3, AppendsIs
<1>5. \A x \in Elements(e) : x.type = "owner"
  BY <1>3, StartedFacts
<1>6. \A x \in Elements(e) : ~SaysSims(x) /\ ~Says(x, Private, "SimForMobileData")
  BY <1>5 DEF SaysSims, Says
<1>7. N' = N
  BY <1>1 DEF N
<1>8. Adds(e)
  BY <1>1, <1>3, <1>4, <1>6, <1>7 DEF Adds
<1> QED BY <1>8

\* a choice of the user,
LEMMA UserChoiceAdds ==
  ASSUME TypeInv, NEW p \in cl.sims \cup {NoPath}, UserSetsSim(p)
  PROVE  \E e : Adds(e)
<1>1. /\ UNCHANGED <<up, mgr, bus>>
      /\ Chosen(cl, cl', p, "user", cl.mine \/ p # cl.choice)
      /\ cl'.cache = cl.cache /\ cl'.sims = cl.sims /\ cl'.choice = p
  BY UserSetsSimIs
<1>2. IsSeq(bus) /\ IsSeq(cl.calls)
  BY DEF TypeInv, Messages, Shows, Client
<1>3. PICK e : e = <<>>
  OBVIOUS
<1>4. Appends(bus', bus, e) /\ Elements(e) = {}
  BY <1>1, <1>2, <1>3, NothingAppended DEF Elements
<1>5. OwnCalls(cl) => OwnCalls(cl')
  <2>1. PICK r : r = [method |-> "setSimForMobileData", path |-> p, by |-> "user"]
    OBVIOUS
  <2>2. r.by = "user"
    BY <2>1
  <2>3. cl'.calls = cl.calls \/ cl'.calls = Append(cl.calls, r)
    BY <1>1, <2>1 DEF Chosen
  <2>4. PICK d : d = cl'
    OBVIOUS
  <2>5. OwnCalls(cl) => OwnCalls(d)
    BY <1>2, <2>2, <2>3, <2>4, OwnTail
  <2> QED BY <2>4, <2>5
<1>6. N' = N
  BY <1>1 DEF N
<1>7. cl.sims = {} => cl'.choice \in {cl.choice, NoPath}
  BY <1>1
<1>8. Adds(e)
  BY <1>1, <1>4, <1>5, <1>6, <1>7 DEF Adds
<1> QED BY <1>8

\* other calls,
LEMMA UserCallsAdds ==
  ASSUME TypeInv, NEW r, UserCalls(r)
  PROVE  \E e : Adds(e)
<1>1. /\ UNCHANGED <<up, mgr>> /\ r.method # "setSimForMobileData"
      /\ bus' = bus \/ (~up /\ \E id : bus' = Append(bus, Reply(id, NoPath)))
  BY DEF UserCalls
<1>2. IsSeq(bus) /\ IsSeq(cl.calls)
  BY DEF TypeInv, Messages, Shows, Client
<1>3. /\ cl'.choice = cl.choice /\ cl'.cache = cl.cache /\ cl'.sims = cl.sims
      /\ cl'.calls \in {cl.calls, Append(cl.calls, r)}
  BY UserCallsTyped
<1>4. OwnCalls(cl) => OwnCalls(cl')
  <2>1. PICK d : d = cl'
    OBVIOUS
  <2>2. d.calls = cl.calls \/ d.calls = Append(cl.calls, r)
    BY <1>3, <2>1
  <2>3. ~Asks(r)
    BY <1>1 DEF Asks
  <2>4. OwnCalls(cl) => OwnCalls(d)
    BY <1>2, <2>2, <2>3, OwnTail
  <2> QED BY <2>1, <2>4
<1>5. N' = N
  BY <1>1 DEF N
<1>6. CASE bus' = bus
  <2>1. PICK e : e = <<>>
    OBVIOUS
  <2>2. Appends(bus', bus, e) /\ Elements(e) = {}
    BY <1>2, <1>6, <2>1, NothingAppended DEF Elements
  <2>3. Adds(e)
    BY <1>1, <1>3, <1>4, <1>5, <2>2 DEF Adds
  <2> QED BY <2>3
<1>7. ASSUME ~up, NEW id, bus' = Append(bus, Reply(id, NoPath))
      PROVE  \E e : Adds(e)
  <2>1. PICK m : m = Reply(id, NoPath)
    OBVIOUS
  <2>2. m.type = "reply"
    BY <2>1 DEF Reply
  <2>3. PICK e : e = <<m>>
    OBVIOUS
  <2>4. bus' = bus \o e /\ IsSeq(e) /\ Elements(e) = {m}
    BY <1>2, <1>7, <2>1, <2>3, AppendElements
  <2>5. Appends(bus', bus, e)
    BY <1>2, <2>4, AppendsIs
  <2>6. ~SaysSims(m) /\ ~Says(m, Private, "SimForMobileData")
    BY <2>2 DEF SaysSims, Says
  <2>7. Adds(e)
    BY <1>1, <1>3, <1>4, <1>5, <1>7, <2>4, <2>5, <2>6 DEF Adds
  <2> QED BY <2>7
<1> QED BY <1>1, <1>6, <1>7

\* and stuttering.
LEMMA StillAdds ==
  ASSUME TypeInv, UNCHANGED vars
  PROVE  \E e : Adds(e)
<1>1. UNCHANGED <<up, mgr, bus, cl>>
  BY DEF vars
<1>2. IsSeq(bus)
  BY DEF TypeInv, Messages
<1>3. PICK e : e = <<>>
  OBVIOUS
<1>4. Appends(bus', bus, e) /\ Elements(e) = {}
  BY <1>1, <1>2, <1>3, NothingAppended DEF Elements
<1>5. N' = N
  BY <1>1 DEF N
<1>6. Adds(e)
  BY <1>1, <1>4, <1>5 DEF Adds, OwnCalls
<1> QED BY <1>6

\* What a step adds to the history.
LEMMA HistoryGrows ==
  ASSUME TypeInv, PendInv, [Next]_vars
  PROVE  "overtaken" \notin hist' => "overtaken" \notin hist
<1>1. CASE ServiceSteps
  BY <1>1 DEF ServiceSteps, Awaits, Handled, Contested
<1>2. ASSUME NEW q, NEW m, Enlarges(q, m)
      PROVE  "overtaken" \notin hist' => "overtaken" \notin hist
  BY <1>2 DEF Enlarges, Contested
<1>3. CASE Crash
  BY <1>3 DEF Crash
<1>4. CASE Start
  BY <1>4 DEF Start
<1>5. CASE Follows
  BY <1>5, FollowsIs
<1>6. ASSUME NEW p \in cl.sims \cup {NoPath}, UserSetsSim(p)
      PROVE  "overtaken" \notin hist' => "overtaken" \notin hist
  BY <1>6, UserSetsSimIs
<1>7. ASSUME NEW e, UserCalls(e)
      PROVE  "overtaken" \notin hist' => "overtaken" \notin hist
  BY <1>7 DEF UserCalls
<1>8. CASE UNCHANGED vars
  BY <1>8 DEF vars
<1> QED BY <1>1, <1>2, <1>3, <1>4, <1>5, <1>6, <1>7, <1>8, NextIs

\* Every step keeps the invariants.
LEMMA NewsStep ==
  ASSUME TypeInv, PendInv, NewsInv, "overtaken" \notin hist => EchoInv, [Next]_vars
  PROVE  NewsInv' /\ ("overtaken" \notin hist' => EchoInv')
<1>1. "overtaken" \notin hist' => "overtaken" \notin hist
  BY HistoryGrows
<1>2. ASSUME NEW e, Adds(e)
      PROVE  NewsInv' /\ ("overtaken" \notin hist' => EchoInv')
  BY <1>1, <1>2, AddsKeeps
<1>3. ASSUME NEW q, NEW m, Enlarges(q, m)
      PROVE  NewsInv' /\ ("overtaken" \notin hist' => EchoInv')
  <2>1. PICK e :
          /\ Appends(bus', bus, e) /\ up /\ up' /\ cl' = cl
          /\ \A x \in Elements(e) : x.type = "changed"
    BY <1>3, EnlargesSays
  <2>2. \A x \in Elements(e) : x.type # "lost"
    BY <2>1
  <2>3. Owned'
    BY <2>1, <2>2, OwnedAppended DEF NewsInv
  <2>4. HasRead'
    BY <2>1, HasReadAppended DEF NewsInv
  <2>5. Growing'
    BY <1>3, GrowingEnlarged DEF NewsInv
  <2>6. EchoInv => EchoInv'
    BY <1>3, EchoEnlarged DEF NewsInv
  <2> QED BY <1>1, <2>3, <2>4, <2>5, <2>6 DEF NewsInv
<1>4. CASE Follows
  <2>1. Takes(bus', bus) /\ up' = up /\ N' = N
    BY <1>4, FollowsIs
  <2>2. Owned'
    BY <2>1, OwnedTaken DEF NewsInv
  <2>3. HasRead'
    BY <1>4, HasReadTaken DEF NewsInv
  <2>4. Growing'
    BY <2>1, GrowingTaken DEF NewsInv
  <2>5. "overtaken" \notin hist' => EchoInv'
    BY <1>1, <1>4, EchoTaken DEF NewsInv
  <2> QED BY <2>2, <2>3, <2>4, <2>5 DEF NewsInv
<1> QED BY <1>2, <1>3, <1>4, NextIs, ServiceAdds, CrashAdds, StartAdds, UserChoiceAdds, UserCallsAdds,
     StillAdds

\* They hold at the start,
LEMMA InitNews == Init => NewsInv /\ EchoInv
<1> SUFFICES ASSUME Init  PROVE NewsInv /\ EchoInv
  OBVIOUS
<1>1. ~up /\ bus = <<>> /\ cl = Client0
  BY DEF Init
<1>2. DOMAIN bus = {}
  BY <1>1
<1>3. NewsInv
  <2>1. Owned /\ HasRead
    BY <1>1 DEF Owned, HasRead
  <2>2. Growing
    BY <1>2 DEF Growing
  <2> QED BY <2>1, <2>2 DEF NewsInv
<1>4. PICK c : c = Client0
  OBVIOUS
<1>5. /\ c.sims = {} /\ c.choice = NoPath /\ c.calls = <<>> /\ c.cache[Private] = Empty
  BY <1>4 DEF Client0
<1>6. OwnCalls(c) /\ ~HasChoice(c)
  BY <1>5, EmptyFacts DEF OwnCalls, HasChoice
<1> QED BY <1>1, <1>2, <1>3, <1>4, <1>5, <1>6 DEF EchoInv

\* and imply NoEcho.
LEMMA NoneEchoed ==
  ASSUME "overtaken" \notin hist => EchoInv
  PROVE  NoEcho
BY DEF NoEcho, EchoInv, OwnCalls, Asks

\* The client never answers an announcement by setting the chosen SIM,
\* unless a reading overtook signals on their way (NoEcho): for any number
\* of SIMs, modems, crashes and calls.
THEOREM NeverEchoes == Spec => []NoEcho
<1> DEFINE IInv == TypeInv /\ PendInv /\ NewsInv /\ ("overtaken" \notin hist => EchoInv)
<1>1. Init => IInv
  BY InitTyped, InitPend, InitNews
<1>2. IInv /\ [Next]_vars => IInv'
  BY TypeStep, PendStep, NewsStep
<1>3. IInv => NoEcho
  BY NoneEchoed
<1> QED BY <1>1, <1>2, <1>3, PTL DEF Spec

-----------------------------------------------------------------------------
\* What the client will have heard when the bus is empty

\* What conveys a value concerns it.
LEMMA ConveysConcerns ==
  ASSUME NEW m, NEW o, NEW p, NEW v, Conveys(m, o, p, v)
  PROVE  Concerns(m, o, p)
BY DEF Conveys, Concerns

\* What has been heard is heard behind messages that do not say otherwise;
LEMMA HeardAppended ==
  ASSUME NEW b, NEW t, NEW e, Appends(t, b, e), NEW c, NEW d, d.cache = c.cache,
         NEW o, NEW p, NEW v, Heard(b, c, o, p, v),
         \A x \in Elements(e) : Concerns(x, o, p) => Conveys(x, o, p, v)
  PROVE  Heard(t, d, o, p, v)
<1>1. PICK len, more \in Nat :
          /\ DOMAIN b = 1 .. len /\ DOMAIN t = 1 .. len + more
          /\ \A n \in 1 .. len : t[n] = b[n]
          /\ \A n \in len + 1 .. len + more : t[n] \in Elements(e)
  BY DEF Appends
<1>2. ASSUME NEW n \in DOMAIN t, Concerns(t[n], o, p)
      PROVE  \E m \in DOMAIN t : m >= n /\ Conveys(t[m], o, p, v)
  <2>1. CASE n <= len
    <3>1. n \in DOMAIN b /\ Concerns(b[n], o, p)
      BY <1>1, <1>2, <2>1
    <3>2. PICK m \in DOMAIN b : m >= n /\ Conveys(b[m], o, p, v)
      BY <3>1 DEF Heard
    <3>3. m \in DOMAIN t /\ t[m] = b[m]
      BY <1>1, <3>2
    <3> QED BY <3>2, <3>3
  <2>2. CASE ~(n <= len)
    <3>1. t[n] \in Elements(e) /\ n >= n
      BY <1>1, <2>2
    <3>2. Conveys(t[n], o, p, v)
      BY <1>2, <3>1
    <3> QED BY <3>1, <3>2
  <2> QED BY <2>1, <2>2
<1>3. ASSUME \A n \in DOMAIN t : ~Concerns(t[n], o, p)
      PROVE  CachedAs(d, o, p, v)
  <2>1. \A n \in DOMAIN b : n \in DOMAIN t /\ t[n] = b[n]
    BY <1>1
  <2>2. \A n \in DOMAIN b : ~Concerns(b[n], o, p)
    BY <1>3, <2>1
  <2>3. CachedAs(c, o, p, v)
    BY <2>2 DEF Heard
  <2> QED BY <2>3 DEF CachedAs
<1> QED BY <1>2, <1>3 DEF Heard

\* it is heard behind messages that say it;
LEMMA HeardSaid ==
  ASSUME NEW b, NEW t, NEW e, Appends(t, b, e), NEW d, NEW o, NEW p, NEW v,
         \A x \in Elements(e) : Concerns(x, o, p) => Conveys(x, o, p, v),
         \E x \in Elements(e) : Conveys(x, o, p, v)
  PROVE  Heard(t, d, o, p, v)
<1>1. PICK len, more \in Nat :
          /\ DOMAIN b = 1 .. len /\ DOMAIN t = 1 .. len + more
          /\ \A n \in 1 .. len : t[n] = b[n]
          /\ \A n \in len + 1 .. len + more : t[n] \in Elements(e)
          /\ \A m \in Elements(e) : \E n \in len + 1 .. len + more : t[n] = m
  BY DEF Appends
<1>2. PICK x \in Elements(e) : Conveys(x, o, p, v)
  OBVIOUS
<1>3. PICK l \in len + 1 .. len + more : t[l] = x
  BY <1>1, <1>2
<1>4. l \in DOMAIN t /\ Conveys(t[l], o, p, v)
  BY <1>1, <1>2, <1>3
<1>5. ASSUME NEW n \in DOMAIN t, Concerns(t[n], o, p)
      PROVE  \E m \in DOMAIN t : m >= n /\ Conveys(t[m], o, p, v)
  <2>1. CASE n <= len
    <3>1. l >= n
      BY <1>1, <1>3, <2>1
    <3> QED BY <1>4, <3>1
  <2>2. CASE ~(n <= len)
    <3>1. t[n] \in Elements(e) /\ n >= n
      BY <1>1, <2>2
    <3>2. Conveys(t[n], o, p, v)
      BY <1>5, <3>1
    <3> QED BY <3>1, <3>2
  <2> QED BY <2>1, <2>2
<1>6. ~(\A n \in DOMAIN t : ~Concerns(t[n], o, p))
  BY <1>4, ConveysConcerns
<1> QED BY <1>5, <1>6 DEF Heard

\* and it is heard when the client has made of the first message what it
\* says.
LEMMA HeardTaken ==
  ASSUME NEW b, NEW t, Takes(t, b), NEW c, NEW d, NEW o, NEW p, NEW v, Heard(b, c, o, p, v),
         Conveys(Head(b), o, p, v) => CachedAs(d, o, p, v),
         ~Concerns(Head(b), o, p) /\ CachedAs(c, o, p, v) => CachedAs(d, o, p, v)
  PROVE  Heard(t, d, o, p, v)
<1>1. PICK len \in Nat :
          /\ len >= 1 /\ DOMAIN b = 1 .. len /\ DOMAIN t = 1 .. len - 1 /\ Head(b) = b[1]
          /\ \A n \in 1 .. len - 1 : t[n] = b[n + 1]
  BY DEF Takes
<1>2. \A m \in DOMAIN b : m # 1 => m - 1 \in DOMAIN t /\ t[m - 1] = b[m]
  BY <1>1
<1>3. ASSUME NEW n \in DOMAIN t, Concerns(t[n], o, p)
      PROVE  \E m \in DOMAIN t : m >= n /\ Conveys(t[m], o, p, v)
  <2>1. n + 1 \in DOMAIN b /\ b[n + 1] = t[n] /\ n \in 1 .. len - 1
    BY <1>1
  <2>2. Concerns(b[n + 1], o, p)
    BY <1>3, <2>1
  <2>3. PICK m \in DOMAIN b : m >= n + 1 /\ Conveys(b[m], o, p, v)
    BY <2>1, <2>2 DEF Heard
  <2>4. m \in 1 .. len /\ m # 1 /\ m - 1 >= n
    BY <1>1, <2>1, <2>3
  <2>5. m - 1 \in DOMAIN t /\ t[m - 1] = b[m]
    BY <1>2, <2>3, <2>4
  <2>6. Conveys(t[m - 1], o, p, v)
    BY <2>3, <2>5
  <2> QED BY <2>4, <2>5, <2>6
<1>4. ASSUME \A n \in DOMAIN t : ~Concerns(t[n], o, p)
      PROVE  CachedAs(d, o, p, v)
  <2>1. \A m \in DOMAIN b : m # 1 => ~Concerns(b[m], o, p)
    BY <1>2, <1>4
  <2>2. CASE Concerns(Head(b), o, p)
    <3>1. 1 \in DOMAIN b /\ Concerns(b[1], o, p)
      BY <1>1, <2>2
    <3>2. PICK m \in DOMAIN b : m >= 1 /\ Conveys(b[m], o, p, v)
      BY <3>1 DEF Heard
    <3>3. Concerns(b[m], o, p)
      BY <3>2, ConveysConcerns
    <3>4. m = 1
      BY <2>1, <3>2, <3>3
    <3>5. Conveys(Head(b), o, p, v)
      BY <1>1, <3>2, <3>4
    <3> QED BY <3>5
  <2>3. CASE ~Concerns(Head(b), o, p)
    <3>1. \A m \in DOMAIN b : ~Concerns(b[m], o, p)
      BY <1>1, <2>1, <2>3
    <3>2. CachedAs(c, o, p, v)
      BY <3>1 DEF Heard
    <3> QED BY <2>3, <3>2
  <2> QED BY <2>2, <2>3
<1> QED BY <1>3, <1>4 DEF Heard

\* An object nobody has been told of will have been heard: its caches are
\* read when it is listed.
LEMMA UnheardHeard ==
  ASSUME TypeInv, up, Owned, FreshInv, Paired, NEW o, Unheard(o), NEW p, NEW v
  PROVE  Heard(bus, cl, o, p, v)
<1>1. PICK k \in Nat : (o = ModemObject(k) /\ k >= svc.nextModem) \/ (o = SimObject(k) /\ k > N)
  BY DEF Unheard
<1>2. Herald(o) = Listed /\ o # Private
  BY <1>1, ObjectsDiffer DEF Herald
<1>3. \A n \in DOMAIN bus : Owns(bus[n], Listed) => Conveys(bus[n], o, p, v)
  BY <1>2 DEF Conveys
<1>4. ASSUME NEW n \in DOMAIN bus, bus[n].type = "lost"
      PROVE  \E m \in DOMAIN bus : m >= n /\ Conveys(bus[m], o, p, v)
  <2>1. PICK m \in DOMAIN bus : m > n /\ Owns(bus[m], Listed)
    BY <1>4 DEF Owned
  <2>2. m \in Nat /\ n \in Nat
    BY SeqFacts DEF TypeInv, Messages
  <2>3. m >= n
    BY <2>1, <2>2
  <2> QED BY <1>3, <2>1, <2>3
<1>5. ASSUME NEW n \in DOMAIN bus, Says(bus[n], o, p)
      PROVE  \E m \in DOMAIN bus : m >= n /\ Conveys(bus[m], o, p, v)
  <2>1. CASE o = ModemObject(k) /\ k >= svc.nextModem
    <3>1. Names(bus[n], k)
      BY <1>5, <2>1 DEF Says, Names
    <3>2. PICK m \in DOMAIN bus : m > n /\ Owns(bus[m], Private)
      BY <2>1, <3>1 DEF FreshInv, Unnamed
    <3>3. PICK l \in DOMAIN bus : l > m /\ Owns(bus[l], Listed)
      BY <3>2 DEF Paired
    <3>4. l \in Nat /\ m \in Nat /\ n \in Nat
      BY SeqFacts DEF TypeInv, Messages
    <3>5. l >= n
      BY <3>2, <3>3, <3>4
    <3> QED BY <1>3, <3>3, <3>5
  <2>2. CASE o = SimObject(k) /\ k > N
    <3>1. Message(bus[n], N) /\ bus[n].type = "changed"
      BY <1>5 DEF TypeInv, Messages, Elements, Says
    <3>2. o \in ObjectsOf(N)
      BY <1>5, <3>1 DEF Message, Says
    <3>3. k \in 1 .. N
      BY <2>2, <3>2, ObjectsDiffer DEF ObjectsOf
    <3>4. N \in Nat
      BY TypeFacts
    <3> QED BY <2>2, <3>3, <3>4
  <2> QED BY <1>1, <2>1, <2>2
<1>6. ASSUME NEW n \in DOMAIN bus, Owns(bus[n], Listed)
      PROVE  \E m \in DOMAIN bus : m >= n /\ Conveys(bus[m], o, p, v)
  <2>1. n >= n
    BY SeqFacts DEF TypeInv, Messages
  <2> QED BY <1>3, <1>6, <2>1
<1>7. ASSUME \A n \in DOMAIN bus : ~Concerns(bus[n], o, p)
      PROVE  o \notin DOMAIN cl.cache
  <2>1. \A n \in DOMAIN bus : ~Owns(bus[n], Listed)
    BY <1>2, <1>7 DEF Concerns
  <2>2. \A n \in DOMAIN bus : ~Owns(bus[n], Private)
    BY <2>1 DEF Paired
  <2>3. Client(cl, N) /\ N \in Nat
    BY TypeFacts DEF TypeInv, Shows
  <2>4. CASE o = ModemObject(k) /\ k >= svc.nextModem
    <3>1. k \notin DOMAIN cl.modems
      BY <2>2, <2>4 DEF FreshInv, Unnamed
    <3> QED BY <2>3, <2>4, <3>1, ClientFacts
  <2>5. CASE o = SimObject(k) /\ k > N
    <3>1. k \notin cl.sims
      BY <2>3, <2>5, ClientFacts
    <3> QED BY <2>3, <2>5, <3>1, ClientFacts
  <2> QED BY <1>1, <2>4, <2>5
<1>8. ASSUME NEW n \in DOMAIN bus, Concerns(bus[n], o, p)
      PROVE  \E m \in DOMAIN bus : m >= n /\ Conveys(bus[m], o, p, v)
  <2>1. bus[n].type = "lost" \/ Owns(bus[n], Listed) \/ Says(bus[n], o, p)
    BY <1>2, <1>8 DEF Concerns
  <2> QED BY <1>4, <1>5, <1>6, <2>1
<1> QED BY <1>7, <1>8 DEF Heard, CachedAs

\* What has not changed, and does not wait, will have been heard.
LEMMA UnchangedHeard ==
  ASSUME TypeInv, up, HeardInv, Owned, FreshInv, Paired, NEW q, NEW m, NEW s, Tells(q, m, s),
         NEW o \in Served(s), NEW p \in Properties(o), ~Holds(q, o, p)
  PROVE  Heard(bus, cl, o, p, GetAll(m, s, o)[p])
<1>1. Same(m, s, o, p) \/ Unheard(o)
  BY DEF Tells
<1>2. CASE Same(m, s, o, p)
  <2>1. o \in Served(svc) /\ GetAll(m, s, o)[p] = GetAll(mgr, svc, o)[p]
    BY <1>2 DEF Same
  <2>2. ~Holds(pend, o, p)
    BY DEF Tells
  <2>3. Heard(bus, cl, o, p, GetAll(mgr, svc, o)[p])
    BY <2>1, <2>2 DEF HeardInv
  <2> QED BY <2>1, <2>3
<1>3. CASE Unheard(o)
  BY <1>3, UnheardHeard
<1> QED BY <1>1, <1>2, <1>3

\* An announcement with replies behind it is of this form.
LEMMA SaysAllIs ==
  ASSUME NEW b, IsSeq(b), NEW n \in Nat, NEW q, Pending(q, n), NEW replies, IsSeq(replies),
         \A x \in Elements(replies) : x.type = "reply", NEW t, SpokenTo(t, b, q, replies)
  PROVE  \E e : SaysAll(e, q) /\ Appends(t, b, e)
<1>1. PICK g : g = Signals(q)
  OBVIOUS
<1>2. Announced(g, q) /\ IsSeq(g)
  BY <1>1, SignalsTyped DEF Announced
<1>3. PICK e : e = g \o replies
  OBVIOUS
<1>4. IsSeq(e) /\ Elements(e) = Elements(g) \cup Elements(replies)
  BY <1>2, <1>3, ConcatElements
<1>5. \A x \in Elements(e) : x.type = "reply" \/ \E o \in DOMAIN q : x = Signal(q, o)
  <2>1. \A x \in Elements(g) : \E o \in DOMAIN q : x = Signal(q, o)
    BY <1>2 DEF Announced, Elements
  <2> QED BY <1>4, <2>1
<1>6. \A o \in DOMAIN q : Signal(q, o) \in Elements(e)
  <2>1. \A o \in DOMAIN q : Signal(q, o) \in Elements(g)
    BY <1>2 DEF Announced, Elements
  <2> QED BY <1>4, <2>1
<1>7. Appends(t, b, e)
  <2>1. t = (b \o g) \o replies
    BY <1>1 DEF SpokenTo
  <2>2. Appends((b \o g) \o replies, b, g \o replies)
    BY <1>2, AppendsTwice
  <2> QED BY <1>3, <2>1, <2>2
<1> QED BY <1>4, <1>5, <1>6, <1>7 DEF SaysAll

\* What a signal of q says.
LEMMA SignalSays ==
  ASSUME NEW q, NEW x, NEW y, y = Signal(q, x)
  PROVE  /\ y.type = "changed" /\ y.object = x /\ y.values = q[x]
BY DEF Signal

\* Messages that say all that waits make it heard.
LEMMA SaidHeard ==
  ASSUME NEW t, NEW b, NEW e, NEW q, SaysAll(e, q), Appends(t, b, e), NEW c, NEW d,
         d.cache = c.cache, NEW o, NEW p, NEW v,
         Holds(q, o, p) => q[o][p] = v,
         Holds(q, o, p) \/ Heard(b, c, o, p, v)
  PROVE  Heard(t, d, o, p, v)
<1>1. ASSUME NEW x \in Elements(e), Concerns(x, o, p)
      PROVE  Holds(q, o, p) /\ x = Signal(q, o) /\ Conveys(x, o, p, v)
  <2>1. x.type # "reply"
    BY <1>1 DEF Concerns, Owns, Says
  <2>2. PICK y \in DOMAIN q : x = Signal(q, y)
    BY <2>1 DEF SaysAll
  <2>3. x.type = "changed" /\ x.object = y /\ x.values = q[y]
    BY <2>2, SignalSays
  <2>4. Says(x, o, p)
    BY <1>1, <2>3 DEF Concerns, Owns
  <2>5. y = o /\ p \in DOMAIN q[o]
    BY <2>3, <2>4 DEF Says
  <2>6. Holds(q, o, p)
    BY <2>2, <2>5 DEF Holds
  <2>7. x.values[p] = v
    BY <2>3, <2>5, <2>6
  <2> QED BY <2>2, <2>4, <2>5, <2>6, <2>7 DEF Conveys
<1>2. CASE Holds(q, o, p)
  <2>1. PICK y : y = Signal(q, o)
    OBVIOUS
  <2>2. y.type = "changed" /\ y.object = o /\ y.values = q[o]
    BY <2>1, SignalSays
  <2>3. Conveys(y, o, p, v)
    BY <1>2, <2>2 DEF Conveys, Says, Holds
  <2>4. y \in Elements(e)
    BY <1>2, <2>1 DEF SaysAll, Holds
  <2> QED BY <1>1, <2>3, <2>4, HeardSaid
<1>3. CASE ~Holds(q, o, p)
  BY <1>1, <1>3, HeardAppended
<1> QED BY <1>2, <1>3

\* A step of the service that keeps its SIMs: what has changed is heard,
\* or waits.
LEMMA HeardServed ==
  ASSUME TypeInv, HeardInv, Owned, FreshInv, Paired, NEW q, NEW replies, Serving(q, replies),
         cl'.cache = cl.cache, NEW o \in Served(svc'), NEW p \in Properties(o)
  PROVE  Holds(pend', o, p) \/ Heard(bus', cl', o, p, GetAll(mgr', svc', o)[p])
<1>1. PICK v : v = GetAll(mgr', svc', o)[p]
  OBVIOUS
<1>2. /\ up /\ Tells(q, mgr', svc') /\ Pending(q, N) /\ IsSeq(replies)
      /\ \A x \in Elements(replies) : x.type = "reply"
  BY DEF Serving
<1>3. IsSeq(bus) /\ N \in Nat
  BY TypeFacts DEF TypeInv, Messages
<1>4. Holds(q, o, p) => q[o][p] = v
  BY <1>1, <1>2 DEF Tells, Current, Holds
<1>5. ~Holds(q, o, p) => Heard(bus, cl, o, p, v)
  BY <1>1, <1>2, UnchangedHeard
<1>6. CASE Waits(q, replies)
  <2>1. pend' = q /\ Appends(bus', bus, replies)
    BY <1>2, <1>3, <1>6, AppendsIs DEF Waits
  <2>2. \A x \in Elements(replies) : ~Concerns(x, o, p)
    BY <1>2 DEF Concerns, Owns, Says
  <2>3. Heard(bus, cl, o, p, v) => Heard(bus', cl', o, p, v)
    BY <2>1, <2>2, HeardAppended
  <2> QED BY <1>1, <1>5, <2>1, <2>3
<1>7. CASE Speaks(q, replies)
  <2>1. SpokenTo(bus', bus, q, replies)
    BY <1>7 DEF Speaks, SpokenTo
  <2>2. PICK e : SaysAll(e, q) /\ Appends(bus', bus, e)
    BY <1>2, <1>3, <2>1, SaysAllIs
  <2>3. Heard(bus', cl', o, p, v)
    BY <1>4, <1>5, <2>2, SaidHeard
  <2> QED BY <1>1, <2>3
<1> QED BY <1>6, <1>7 DEF Serving

\* So is what a new SIM changes.
LEMMA HeardEnlarged ==
  ASSUME TypeInv, HeardInv, Owned, FreshInv, Paired, NEW q, NEW m, Enlarges(q, m),
         NEW o \in Served(svc'), NEW p \in Properties(o)
  PROVE  Holds(pend', o, p) \/ Heard(bus', cl', o, p, GetAll(mgr', svc', o)[p])
<1>1. PICK v : v = GetAll(m, svc', o)[p]
  OBVIOUS
<1>2. /\ up /\ cl' = cl /\ Tells(q, m, svc') /\ Pending(q, N + 1) /\ bus' = bus \o Signals(q)
      /\ Holds(pend', o, p) \/ GetAll(mgr', svc', o)[p] = v
  BY <1>1 DEF Enlarges
<1>3. IsSeq(bus) /\ N \in Nat /\ N + 1 \in Nat
  BY TypeFacts DEF TypeInv, Messages
<1>4. Holds(q, o, p) => q[o][p] = v
  BY <1>1, <1>2 DEF Tells, Current, Holds
<1>5. ~Holds(q, o, p) => Heard(bus, cl, o, p, v)
  BY <1>1, <1>2, UnchangedHeard
<1>6. SpokenTo(bus', bus, q, <<>>)
  <2>1. IsSeq(Signals(q))
    BY <1>2, <1>3, SignalsTyped DEF Announced
  <2>2. IsSeq(bus \o Signals(q))
    BY <1>3, <2>1, ConcatElements
  <2> QED BY <1>2, <2>2, NoReplies DEF SpokenTo
<1>7. PICK e : SaysAll(e, q) /\ Appends(bus', bus, e)
  BY <1>2, <1>3, <1>6, SaysAllIs, NoReplies
<1>8. Heard(bus', cl', o, p, v)
  BY <1>2, <1>4, <1>5, <1>7, SaidHeard
<1> QED BY <1>2, <1>8

\* What a service that starts has is read.
LEMMA HeardStarted ==
  ASSUME TypeInv, Start, NEW o \in Served(svc'), NEW p, NEW v
  PROVE  Heard(bus', cl', o, p, v)
<1>1. IsSeq(bus) /\ bus' = bus \o Started
  BY StartIs DEF TypeInv, Messages
<1>2. Appends(bus', bus, Started)
  BY <1>1, StartedFacts, AppendsIs
<1>3. /\ \A x \in Elements(Started) : x.type = "owner"
      /\ \A x \in {Private, Status, Listed} : Owner(x) \in Elements(Started) /\ Owns(Owner(x), x)
  <2>1. \A x \in {Private, Status, Listed} : Owner(x) \in Elements(Started)
    BY StartedFacts DEF Elements
  <2>2. \A x : Owns(Owner(x), x)
    BY DEF Owns, Owner
  <2> QED BY <2>1, <2>2, StartedFacts
<1>4. \A x \in Elements(Started) : Concerns(x, o, p) => Conveys(x, o, p, v)
  BY <1>3 DEF Concerns, Conveys, Says
<1>5. \E x \in Elements(Started) : Conveys(x, o, p, v)
  <2>1. Herald(o) \in {Private, Status, Listed}
    BY DEF Herald
  <2> QED BY <1>3, <2>1 DEF Conveys
<1> QED BY <1>2, <1>4, <1>5, HeardSaid

\* A cache of o that is just read has all its values.
LEMMA ReadCached ==
  ASSUME TypeInv, up, NEW o \in Served(svc), NEW p \in Properties(o), NEW c,
         o \in DOMAIN c.cache => c.cache[o] = Read(o)
  PROVE  CachedAs(c, o, p, GetAll(mgr, svc, o)[p])
<1>1. Read(o) = GetAll(mgr, svc, o)
  BY DEF Read
<1>2. DOMAIN GetAll(mgr, svc, o) = Properties(o)
  BY GetAllDomain DEF TypeInv
<1> QED BY <1>1, <1>2 DEF CachedAs

\* A cache that is kept or read stays as the service has it.
LEMMA KeptCached ==
  ASSUME TypeInv, up, NEW o \in Served(svc), NEW p \in Properties(o), NEW c, NEW d, NEW x,
         Kept(c, d, x), o # x, CachedAs(c, o, p, GetAll(mgr, svc, o)[p])
  PROVE  CachedAs(d, o, p, GetAll(mgr, svc, o)[p])
<1>1. CASE o \in DOMAIN d.cache /\ d.cache[o] = Read(o)
  BY <1>1, ReadCached
<1>2. CASE o \in DOMAIN d.cache /\ o \in DOMAIN c.cache /\ d.cache[o] = c.cache[o]
  BY <1>2 DEF CachedAs
<1>3. CASE o \notin DOMAIN d.cache
  BY <1>3 DEF CachedAs
<1> QED BY <1>1, <1>2, <1>3 DEF Kept

\* What the client does with the values of a message.
LEMMA MessageHeard ==
  ASSUME TypeInv, up, ClientPropertiesChanged, NEW o \in Served(svc), NEW p \in Properties(o),
         NEW v, v = GetAll(mgr, svc, o)[p]
  PROVE  /\ Conveys(Head(bus), o, p, v) => CachedAs(cl', o, p, v)
         /\ ~Concerns(Head(bus), o, p) /\ CachedAs(cl, o, p, v) => CachedAs(cl', o, p, v)
<1>1. PICK h : h = Head(bus)
  OBVIOUS
<1>2. h.type = "changed" /\ Values(h.object, h.values, N)
  BY <1>1, ReceiveTyped DEF ClientPropertiesChanged, Message
<1>3. Conveys(h, o, p, v) => h.object = o /\ p \in DOMAIN h.values /\ h.values[p] = v
  BY <1>2 DEF Conveys, Owns, Says
<1>4. ~Concerns(h, o, p) => h.object # o \/ p \notin DOMAIN h.values
  BY <1>2 DEF Concerns, Says
<1>5. CASE h.object \in DOMAIN cl.cache
  <2>1. cl' = PropertiesChanged(cl, h.object, h.values)
    BY <1>1, <1>5 DEF ClientPropertiesChanged
  <2>2. /\ Kept(cl, cl', h.object)
        /\ cl'.cache[h.object] = Over(h.values, cl.cache[h.object])
    BY <1>2, <1>5, <2>1, MessageTaken
  <2>3. CASE h.object # o
    <3>1. CachedAs(cl, o, p, v) => CachedAs(cl', o, p, v)
      BY <2>2, <2>3, KeptCached
    <3> QED BY <1>1, <1>3, <2>3, <3>1
  <2>4. CASE h.object = o
    <3>1. PICK f : f = cl.cache[o]
      OBVIOUS
    <3>g. PICK g : g = Over(h.values, f)
      OBVIOUS
    <3>d. PICK d : d = cl'
      OBVIOUS
    <3>2. d.cache[o] = g
      BY <2>2, <2>4, <3>1, <3>g, <3>d
    <3>3. CASE p \in DOMAIN h.values
      <4>1. p \in DOMAIN g /\ g[p] = h.values[p]
        <5>1. PICK w : w = h.values
          OBVIOUS
        <5>2. g = Over(w, f) /\ p \in DOMAIN w
          BY <3>3, <3>g, <5>1
        <5>3. p \in DOMAIN g /\ g[p] = w[p]
          BY <5>2 DEF Over
        <5> QED BY <5>1, <5>3
      <4>2. h.values[p] = v => CachedAs(cl', o, p, v)
        <5>1. h.values[p] = v => CachedAs(d, o, p, v)
          BY <3>2, <4>1 DEF CachedAs
        <5> QED BY <3>d, <5>1
      <4>3. ASSUME Conveys(h, o, p, v) PROVE CachedAs(cl', o, p, v)
        <5>1. h.values[p] = v
          BY <1>3, <4>3
        <5> QED BY <4>2, <5>1
      <4>4. Concerns(h, o, p)
        BY <1>4, <2>4, <3>3
      <4> QED BY <1>1, <4>3, <4>4
    <3>4. CASE p \notin DOMAIN h.values
      <4>1. p \in DOMAIN f => p \in DOMAIN g /\ g[p] = f[p]
        <5>1. PICK w : w = h.values
          OBVIOUS
        <5>2. g = Over(w, f) /\ p \notin DOMAIN w
          BY <3>4, <3>g, <5>1
        <5> QED BY <5>2 DEF Over
      <4>2. CachedAs(cl, o, p, v) => CachedAs(cl', o, p, v)
        <5>1. CachedAs(cl, o, p, v) => p \in DOMAIN f /\ f[p] = v
          BY <1>5, <2>4, <3>1 DEF CachedAs
        <5>2. CachedAs(cl, o, p, v) => CachedAs(d, o, p, v)
          BY <3>2, <4>1, <5>1 DEF CachedAs
        <5> QED BY <3>d, <5>2
      <4>3. ASSUME Conveys(h, o, p, v) PROVE FALSE
        BY <1>3, <3>4, <4>3
      <4> QED BY <1>1, <4>2, <4>3
    <3> QED BY <3>3, <3>4
  <2> QED BY <2>3, <2>4
<1>6. CASE h.object \notin DOMAIN cl.cache
  <2>1. cl' = cl
    BY <1>1, <1>6 DEF ClientPropertiesChanged
  <2>2. h.object = o => CachedAs(cl', o, p, v)
    BY <1>6, <2>1 DEF CachedAs
  <2> QED BY <1>1, <1>3, <2>1, <2>2
<1> QED BY <1>5, <1>6

\* What it reads at the news of an owner.
LEMMA OwnerHeard ==
  ASSUME TypeInv, up, ServiceOwnerChanged, NEW o \in Served(svc), NEW p \in Properties(o),
         NEW v, v = GetAll(mgr, svc, o)[p]
  PROVE  /\ Conveys(Head(bus), o, p, v) => CachedAs(cl', o, p, v)
         /\ ~Concerns(Head(bus), o, p) /\ CachedAs(cl, o, p, v) => CachedAs(cl', o, p, v)
<1>1. PICK h : h = Head(bus)
  OBVIOUS
<1>2. /\ h.type = "owner" /\ h.object \in {Private, Status, Listed}
      /\ cl' = IF h.object = Listed THEN ListedRefreshed(cl) ELSE Refreshed(cl, h.object)
  BY <1>1, OwnerNews
<1>3. Conveys(h, o, p, v) => Herald(o) = h.object
  BY <1>2 DEF Conveys, Owns, Says
<1>4. Client(cl, N) /\ ModemsShown(cl) /\ ReadsTyped(N)
  BY TypeFacts DEF TypeInv, Shows
<1>5. CASE h.object = Listed
  <2>1. cl' = ListedRefreshed(cl)
    BY <1>2, <1>5
  <2>2. /\ DOMAIN cl'.cache = DOMAIN cl.cache
        /\ \A x \in DOMAIN cl.cache :
               cl'.cache[x] = IF x \in {Private, Status} THEN cl.cache[x] ELSE Read(x)
    BY <1>4, <2>1, ListedFacts
  <2>3. CASE o \in {Private, Status}
    <3>1. Herald(o) # Listed
      BY <2>3, ObjectsDiffer DEF Herald
    <3>2. CachedAs(cl, o, p, v) => CachedAs(cl', o, p, v)
      BY <2>2, <2>3 DEF CachedAs
    <3> QED BY <1>1, <1>3, <1>5, <3>1, <3>2
  <2>4. CASE o \notin {Private, Status}
    <3>1. o \in DOMAIN cl'.cache => cl'.cache[o] = Read(o)
      BY <2>2, <2>4
    <3>2. CachedAs(cl', o, p, v)
      BY <3>1, ReadCached
    <3> QED BY <3>2
  <2> QED BY <2>3, <2>4
<1>6. CASE h.object # Listed
  <2>1. cl' = Refreshed(cl, h.object) /\ h.object \in {Private, Status}
    BY <1>2, <1>6
  <2>2. Kept(cl, cl', h.object) /\ cl'.cache[h.object] = Read(h.object)
    BY <1>4, <2>1, PrivateRefreshed, StatusRefreshed
  <2>3. CASE o = h.object
    <3>1. CachedAs(cl', o, p, v)
      BY <2>2, <2>3, ReadCached
    <3> QED BY <3>1
  <2>4. CASE o # h.object
    <3>1. Herald(o) # h.object
      BY <1>6, <2>4 DEF Herald
    <3>2. CachedAs(cl, o, p, v) => CachedAs(cl', o, p, v)
      BY <2>2, <2>4, KeptCached
    <3> QED BY <1>1, <1>3, <3>1, <3>2
  <2> QED BY <2>3, <2>4
<1> QED BY <1>5, <1>6

\* The client has of a message what that conveys, and keeps what else it
\* has of the service.
LEMMA HeardFollowed ==
  ASSUME TypeInv, up, Follows, NEW o \in Served(svc), NEW p \in Properties(o),
         NEW v, v = GetAll(mgr, svc, o)[p], Heard(bus, cl, o, p, v)
  PROVE  Heard(bus', cl', o, p, v)
<1>1. Takes(bus', bus)
  BY FollowsIs
<1>2. PICK h : h = Head(bus)
  OBVIOUS
<1>3. CASE ClientPropertiesChanged
  BY <1>1, <1>3, MessageHeard, HeardTaken
<1>4. CASE ServiceLost
  <2>1. h.type = "lost"
    BY <1>2, <1>4 DEF ServiceLost, Receive
  <2>2. Concerns(h, o, p) /\ ~Conveys(h, o, p, v)
    BY <2>1 DEF Concerns, Conveys, Owns, Says
  <2> QED BY <1>1, <1>2, <2>2, HeardTaken
<1>5. CASE ServiceOwnerChanged
  BY <1>1, <1>5, OwnerHeard, HeardTaken
<1>6. CASE AddConnectionFinished
  <2>1. h.type = "reply" /\ cl' = cl
    BY <1>2, <1>6 DEF AddConnectionFinished, Receive
  <2>2. ~Conveys(h, o, p, v)
    BY <2>1 DEF Conveys, Owns, Says
  <2> QED BY <1>1, <1>2, <2>1, <2>2, HeardTaken
<1> QED BY <1>3, <1>4, <1>5, <1>6 DEF Follows

\* With the same caches the client has heard the same.
LEMMA HeardStill ==
  ASSUME NEW b, NEW c, NEW d, d.cache = c.cache, NEW o, NEW p, NEW v, Heard(b, c, o, p, v)
  PROVE  Heard(b, d, o, p, v)
BY DEF Heard, CachedAs

\* A step of the service leaves what the client shows alone.
LEMMA ServiceShows ==
  ASSUME TypeInv, ServiceSteps
  PROVE  /\ cl'.cache = cl.cache /\ cl'.sims = cl.sims /\ cl'.modems = cl.modems
         /\ cl'.choice = cl.choice /\ cl'.mine = cl.mine /\ Shown(cl') = Shown(cl)
<1>1. CASE Awaits
  BY <1>1 DEF Awaits, Shown
<1>2. CASE Handled
  <2>1. Client(cl, N) /\ IsSeq(cl.calls) /\ Calls(cl.calls, N) /\ cl.calls # <<>>
    BY <1>2 DEF TypeInv, Shows, Client, Handled
  <2>2. IsSeq(Tail(cl.calls)) /\ Calls(Tail(cl.calls), N)
    BY <2>1, CallsTail
  <2>3. cl' = Calling(cl, Tail(cl.calls))
    BY <1>2 DEF Handled
  <2> QED BY <2>1, <2>2, <2>3, CallingFacts
<1> QED BY <1>1, <1>2 DEF ServiceSteps

\* Every step keeps what has been heard.
LEMMA HeardStep ==
  ASSUME TypeInv, PendInv, HeardInv, Owned, FreshInv, Paired, [Next]_vars
  PROVE  HeardInv'
<1> SUFFICES ASSUME up', NEW o \in Served(svc'), NEW p \in Properties(o)
             PROVE  Holds(pend', o, p) \/ Heard(bus', cl', o, p, GetAll(mgr', svc', o)[p])
  BY DEF HeardInv
<1>1. CASE ServiceSteps
  <2>1. PICK q, replies : Serving(q, replies)
    BY <1>1 DEF ServiceSteps
  <2>2. cl'.cache = cl.cache
    BY <1>1, ServiceShows
  <2> QED BY <2>1, <2>2, HeardServed
<1>2. CASE \E q, m : Enlarges(q, m)
  BY <1>2, HeardEnlarged
<1>3. CASE Crash
  BY <1>3, CrashIs
<1>4. CASE Start
  BY <1>4, HeardStarted
<1>5. CASE Follows
  <2>1. UNCHANGED <<up, mgr, svc, pend>>
    BY <1>5, FollowsIs
  <2>2. PICK v : v = GetAll(mgr, svc, o)[p]
    OBVIOUS
  <2>3. up /\ o \in Served(svc)
    BY <2>1
  <2>4. Holds(pend, o, p) \/ Heard(bus, cl, o, p, v)
    BY <2>2, <2>3 DEF HeardInv
  <2>5. Heard(bus, cl, o, p, v) => Heard(bus', cl', o, p, v)
    BY <1>5, <2>2, <2>3, HeardFollowed
  <2> QED BY <2>1, <2>2, <2>4, <2>5
<1>6. ASSUME UNCHANGED <<up, mgr, svc, pend>>, cl'.cache = cl.cache, bus' = bus
      PROVE  Holds(pend', o, p) \/ Heard(bus', cl', o, p, GetAll(mgr', svc', o)[p])
  <2>1. PICK v : v = GetAll(mgr, svc, o)[p]
    OBVIOUS
  <2>2. Holds(pend, o, p) \/ Heard(bus, cl, o, p, v)
    BY <1>6, <2>1 DEF HeardInv
  <2>3. Heard(bus, cl, o, p, v) => Heard(bus', cl', o, p, v)
    BY <1>6, HeardStill
  <2> QED BY <1>6, <2>1, <2>2, <2>3
<1>7. CASE \E x \in cl.sims \cup {NoPath} : UserSetsSim(x)
  BY <1>6, <1>7, UserSetsSimIs
<1>8. CASE \E e : UserCalls(e)
  <2>1. PICK e : UserCalls(e)
    BY <1>8
  <2>2. UNCHANGED <<up, mgr, svc, pend>> /\ bus' = bus
    BY <2>1 DEF UserCalls
  <2>3. cl'.cache = cl.cache
    BY <2>1, UserCallsTyped
  <2> QED BY <1>6, <2>2, <2>3
<1>9. CASE UNCHANGED vars
  BY <1>6, <1>9 DEF vars
<1> QED BY <1>1, <1>2, <1>3, <1>4, <1>5, <1>7, <1>8, <1>9, NextIs

-----------------------------------------------------------------------------
\* Modems of earlier lives are forgotten

\* Messages that do not name a modem leave it unnamed;
LEMMA UnnamedAppended ==
  ASSUME NEW b, NEW t, NEW e, Appends(t, b, e), NEW c, NEW d, d.modems = c.modems,
         NEW k, Unnamed(b, c, k), \A x \in Elements(e) : ~Names(x, k)
  PROVE  Unnamed(t, d, k)
<1>1. PICK len, more \in Nat :
          /\ DOMAIN b = 1 .. len /\ DOMAIN t = 1 .. len + more
          /\ \A n \in 1 .. len : t[n] = b[n]
          /\ \A n \in len + 1 .. len + more : t[n] \in Elements(e)
  BY DEF Appends
<1>2. \A n \in DOMAIN b : n \in DOMAIN t /\ t[n] = b[n]
  BY <1>1
<1>3. ASSUME NEW n \in DOMAIN t, Names(t[n], k)
      PROVE  \E m \in DOMAIN t : m > n /\ Owns(t[m], Private)
  <2>1. n \in 1 .. len
    <3>1. n \notin len + 1 .. len + more
      BY <1>1, <1>3
    <3> QED BY <1>1, <3>1
  <2>2. n \in DOMAIN b /\ Names(b[n], k)
    BY <1>1, <1>3, <2>1
  <2>3. PICK m \in DOMAIN b : m > n /\ Owns(b[m], Private)
    BY <2>2 DEF Unnamed
  <2> QED BY <1>2, <2>3
<1>4. ASSUME \A n \in DOMAIN t : ~Owns(t[n], Private)
      PROVE  k \notin DOMAIN d.modems
  <2>1. \A n \in DOMAIN b : ~Owns(b[n], Private)
    BY <1>2, <1>4
  <2> QED BY <2>1 DEF Unnamed
<1> QED BY <1>3, <1>4 DEF Unnamed

\* what a client makes of the head may forget it,
LEMMA UnnamedTaken ==
  ASSUME NEW b, NEW t, Takes(t, b), NEW c, NEW d, NEW k, Unnamed(b, c, k),
         Owns(Head(b), Private) => k \notin DOMAIN d.modems,
         ~Owns(Head(b), Private) /\ ~Names(Head(b), k) /\ k \notin DOMAIN c.modems =>
             k \notin DOMAIN d.modems
  PROVE  Unnamed(t, d, k)
<1>1. PICK len \in Nat :
          /\ len >= 1 /\ DOMAIN b = 1 .. len /\ DOMAIN t = 1 .. len - 1 /\ Head(b) = b[1]
          /\ \A n \in 1 .. len - 1 : t[n] = b[n + 1]
  BY DEF Takes
<1>2. \A m \in DOMAIN b : m # 1 => m - 1 \in DOMAIN t /\ t[m - 1] = b[m]
  BY <1>1
<1>3. ASSUME NEW n \in DOMAIN t, Names(t[n], k)
      PROVE  \E m \in DOMAIN t : m > n /\ Owns(t[m], Private)
  <2>1. n + 1 \in DOMAIN b /\ b[n + 1] = t[n] /\ n \in 1 .. len - 1
    BY <1>1
  <2>2. Names(b[n + 1], k)
    BY <1>3, <2>1
  <2>3. PICK m \in DOMAIN b : m > n + 1 /\ Owns(b[m], Private)
    BY <2>1, <2>2 DEF Unnamed
  <2>4. m \in 1 .. len /\ m # 1 /\ m - 1 > n
    BY <1>1, <2>1, <2>3
  <2>5. m - 1 \in DOMAIN t /\ t[m - 1] = b[m]
    BY <1>2, <2>3, <2>4
  <2>6. Owns(t[m - 1], Private)
    BY <2>3, <2>5
  <2> QED BY <2>4, <2>5, <2>6
<1>4. ASSUME \A n \in DOMAIN t : ~Owns(t[n], Private)
      PROVE  k \notin DOMAIN d.modems
  <2>1. \A m \in DOMAIN b : m # 1 => ~Owns(b[m], Private)
    BY <1>2, <1>4
  <2>2. CASE ~Owns(Head(b), Private)
    <3>1. \A m \in DOMAIN b : ~Owns(b[m], Private)
      BY <1>1, <2>1, <2>2
    <3>2. k \notin DOMAIN c.modems
      BY <3>1 DEF Unnamed
    <3>3. ~Names(b[1], k)
      BY <1>1, <3>1 DEF Unnamed
    <3> QED BY <1>1, <2>2, <3>2, <3>3
  <2> QED BY <2>2
<1> QED BY <1>3, <1>4 DEF Unnamed

\* and the news of Private makes the client forget it.
LEMMA UnnamedOwned ==
  ASSUME NEW b, NEW t, NEW e, Appends(t, b, e), NEW d, NEW k,
         \A x \in Elements(e) : ~Names(x, k), \E x \in Elements(e) : Owns(x, Private)
  PROVE  Unnamed(t, d, k)
<1>1. PICK len, more \in Nat :
          /\ DOMAIN b = 1 .. len /\ DOMAIN t = 1 .. len + more
          /\ \A n \in len + 1 .. len + more : t[n] \in Elements(e)
          /\ \A x \in Elements(e) : \E n \in len + 1 .. len + more : t[n] = x
  BY DEF Appends
<1>2. PICK l \in len + 1 .. len + more : Owns(t[l], Private)
  BY <1>1
<1>3. l \in DOMAIN t
  BY <1>1
<1>4. ASSUME NEW n \in DOMAIN t, Names(t[n], k)
      PROVE  l > n
  <2>1. n \notin len + 1 .. len + more
    BY <1>1, <1>4
  <2> QED BY <1>1, <1>2, <2>1
<1> QED BY <1>2, <1>3, <1>4 DEF Unnamed

\* The modems of Private are those of the service: all have numbers below
\* the next one.
LEMMA ModemsNumbered ==
  ASSUME NEW m, NEW s, NEW r, Service(r, s), NEW k \in Nat, k >= s.nextModem
  PROVE  k \notin GetAll(m, s, Private)["Modems"]
<1>1. GetAll(m, s, Private)["Modems"] = {s.modems[x].path : x \in DOMAIN s.modems}
  <2>1. "Modems" \in PrivateProperties
    BY DEF PrivateProperties
  <2>2. PrivateValue(m, s, "Modems") = {s.modems[x].path : x \in DOMAIN s.modems}
    BY PrivateValueIs
  <2> QED BY <2>1, <2>2, GetAllIs
<1>2. s.nextModem \in Nat /\ \A x \in DOMAIN s.modems : s.modems[x].path \in 1 .. s.nextModem - 1
  BY ServiceParts
<1> QED BY <1>1, <1>2

\* What tells of the service names no modem that comes later.
LEMMA TellsUnnamed ==
  ASSUME NEW q, NEW m, NEW s, Tells(q, m, s), NEW r, Service(r, s), NEW k \in Nat, k >= s.nextModem,
         NEW x, x.type = "reply" \/ \E o \in DOMAIN q : x = Signal(q, o)
  PROVE  ~Names(x, k)
<1> SUFFICES ASSUME Names(x, k) PROVE FALSE
  OBVIOUS
<1>1. x.type = "changed"
  BY DEF Names, Says
<1>2. PICK o \in DOMAIN q : x = Signal(q, o)
  BY <1>1
<1>3. x.object = o /\ x.values = q[o]
  BY <1>2, SignalSays
<1>4. s.nextModem \in Nat
  BY ServiceParts
<1>5. CASE o = ModemObject(k)
  <2>1. k < s.nextModem
    BY <1>2, <1>5 DEF Tells, NoModemFrom
  <2> QED BY <1>4, <2>1
<1>6. CASE o # ModemObject(k)
  <2>1. o = Private /\ "Modems" \in DOMAIN q[o] /\ k \in q[o]["Modems"]
    BY <1>3, <1>6 DEF Names, Says
  <2>2. Private \in Served(s)
    BY DEF Served
  <2>3. q[o]["Modems"] = GetAll(m, s, Private)["Modems"]
    BY <1>2, <2>1, <2>2 DEF Tells, Current
  <2> QED BY <2>1, <2>3, ModemsNumbered
<1> QED BY <1>5, <1>6

\* What a step of the service appends: signals of q, and replies.
LEMMA ServingAppends ==
  ASSUME TypeInv, NEW q, NEW replies, Serving(q, replies)
  PROVE  \E e : /\ Appends(bus', bus, e)
                /\ \A x \in Elements(e) : x.type = "reply" \/ \E o \in DOMAIN q : x = Signal(q, o)
<1>1. /\ IsSeq(replies) /\ \A x \in Elements(replies) : x.type = "reply"
      /\ Pending(q, N)
  BY DEF Serving
<1>2. IsSeq(bus) /\ N \in Nat
  BY TypeFacts DEF TypeInv, Messages
<1>3. CASE Waits(q, replies)
  <2>1. Appends(bus', bus, replies)
    BY <1>1, <1>2, <1>3, AppendsIs DEF Waits
  <2> QED BY <1>1, <2>1
<1>4. CASE Speaks(q, replies)
  <2>1. SpokenTo(bus', bus, q, replies)
    BY <1>4 DEF Speaks, SpokenTo
  <2>2. PICK e : SaysAll(e, q) /\ Appends(bus', bus, e)
    BY <1>1, <1>2, <2>1, SaysAllIs
  <2> QED BY <2>2 DEF SaysAll
<1> QED BY <1>3, <1>4 DEF Serving

\* What the client makes of the head: it lists the modems that head names,
\* or those it had.
LEMMA FollowsModems ==
  ASSUME TypeInv, up, Follows, NEW k \in Nat, k >= svc.nextModem
  PROVE  /\ Owns(Head(bus), Private) => k \notin DOMAIN cl'.modems
         /\ ~Owns(Head(bus), Private) /\ ~Names(Head(bus), k) /\ k \notin DOMAIN cl.modems =>
                k \notin DOMAIN cl'.modems
<1>1. PICK h : h = Head(bus)
  OBVIOUS
<1>2. h.type \in {"changed", "owner", "lost", "reply"}
  BY <1>1, FollowsIs
<1>3. CASE Owns(h, Private)
  <2>1. cl' = Refreshed(cl, Private)
    BY <1>1, <1>3, FollowsOwner DEF Owns
  <2>2. Client(cl, N) /\ ModemsShown(cl) /\ ReadsTyped(N)
    BY TypeFacts DEF TypeInv, Shows
  <2>3. "Modems" \in DOMAIN Read(Private) => DOMAIN cl'.modems = Read(Private)["Modems"]
    BY <2>1, <2>2, PrivateRefreshed
  <2>4. Read(Private) = GetAll(mgr, svc, Private)
    BY DEF Read
  <2>5. "Modems" \in DOMAIN GetAll(mgr, svc, Private)
    BY GetAllIs DEF PrivateProperties
  <2>6. k \notin GetAll(mgr, svc, Private)["Modems"]
    BY ModemsNumbered DEF TypeInv
  <2> QED BY <1>1, <1>3, <2>3, <2>4, <2>5, <2>6
<1>4. CASE ~Owns(h, Private)
  <2> SUFFICES ASSUME ~Names(h, k), k \notin DOMAIN cl.modems PROVE k \notin DOMAIN cl'.modems
    BY <1>1, <1>4
  <2>1. CASE h.type = "changed" /\ h.object = Private
    <3>1. PICK vs : vs = h.values
      OBVIOUS
    <3>2. TookPrivate(cl, cl', vs, FALSE)
      BY <1>1, <2>1, <3>1, FollowsPrivate
    <3>3. "Modems" \in DOMAIN vs => k \notin vs["Modems"]
      BY <2>1, <3>1 DEF Names, Says
    <3> QED BY <3>2, <3>3 DEF TookPrivate
  <2>2. CASE h.type = "lost"
    BY <1>1, <2>2, FollowsLost
  <2>3. CASE ~(h.type = "changed" /\ h.object = Private) /\ h.type # "lost"
    <3>1. Alike(cl, cl')
      BY <1>1, <1>2, <1>4, <2>3, FollowsAlike DEF Owns
    <3> QED BY <3>1 DEF Alike
  <2> QED BY <2>1, <2>2, <2>3
<1> QED BY <1>3, <1>4

\* Every step keeps FreshInv.
LEMMA FreshStep ==
  ASSUME TypeInv, PendInv, FreshInv, [Next]_vars
  PROVE  FreshInv'
<1> SUFFICES ASSUME up', NEW k \in Nat, k >= svc'.nextModem
             PROVE  Unnamed(bus', cl', k)
  BY DEF FreshInv
<1>1. Service(mgr', svc') /\ svc'.nextModem \in Nat
  BY TypeStep, ServiceParts DEF TypeInv
<1>2. ASSUME up, svc.nextModem <= svc'.nextModem
      PROVE  Unnamed(bus, cl, k)
  <2>1. svc.nextModem \in Nat
    BY <1>2, ServiceParts DEF TypeInv
  <2>2. k >= svc.nextModem
    BY <1>1, <1>2, <2>1
  <2> QED BY <1>2, <2>2 DEF FreshInv
<1>3. CASE ServiceSteps
  <2>1. PICK q, replies : Serving(q, replies)
    BY <1>3 DEF ServiceSteps
  <2>2. up /\ svc.nextModem <= svc'.nextModem /\ Tells(q, mgr', svc')
    BY <2>1 DEF Serving
  <2>3. PICK e : /\ Appends(bus', bus, e)
                 /\ \A x \in Elements(e) : x.type = "reply" \/ \E o \in DOMAIN q : x = Signal(q, o)
    BY <2>1, ServingAppends
  <2>4. \A x \in Elements(e) : ~Names(x, k)
    BY <1>1, <2>2, <2>3, TellsUnnamed
  <2>5. cl'.modems = cl.modems
    BY <1>3, ServiceShows
  <2> QED BY <1>2, <2>2, <2>3, <2>4, <2>5, UnnamedAppended
<1>4. CASE \E q, m : Enlarges(q, m)
  <2>1. PICK q, m : Enlarges(q, m)
    BY <1>4
  <2>2. up /\ svc.nextModem <= svc'.nextModem /\ Tells(q, m, svc') /\ cl' = cl
    BY <2>1 DEF Enlarges
  <2>3. PICK e : Appends(bus', bus, e) /\ \A x \in Elements(e) : \E o \in DOMAIN q : x = Signal(q, o)
    BY <2>1, EnlargesSays
  <2>4. \A x \in Elements(e) : ~Names(x, k)
    BY <1>1, <2>2, <2>3, TellsUnnamed
  <2> QED BY <1>2, <2>2, <2>3, <2>4, UnnamedAppended
<1>5. CASE Crash
  BY <1>5, CrashIs
<1>6. CASE Start
  <2>1. IsSeq(bus) /\ bus' = bus \o Started
    BY <1>6, StartIs DEF TypeInv, Messages
  <2>2. Appends(bus', bus, Started)
    BY <2>1, StartedFacts, AppendsIs
  <2>3. \A x \in Elements(Started) : ~Names(x, k)
    BY StartedFacts DEF Names, Says
  <2>4. \E x \in Elements(Started) : Owns(x, Private)
    <3>1. Owner(Private) \in Elements(Started)
      BY StartedFacts DEF Elements
    <3>2. Owns(Owner(Private), Private)
      BY DEF Owns, Owner
    <3> QED BY <3>1, <3>2
  <2> QED BY <2>2, <2>3, <2>4, UnnamedOwned
<1>7. CASE Follows
  <2>1. UNCHANGED <<up, svc>> /\ Takes(bus', bus)
    BY <1>7, FollowsIs
  <2>2. up /\ k >= svc.nextModem /\ Unnamed(bus, cl, k)
    BY <2>1 DEF FreshInv
  <2>3. /\ Owns(Head(bus), Private) => k \notin DOMAIN cl'.modems
        /\ ~Owns(Head(bus), Private) /\ ~Names(Head(bus), k) /\ k \notin DOMAIN cl.modems =>
               k \notin DOMAIN cl'.modems
    BY <1>7, <2>2, FollowsModems
  <2> QED BY <2>1, <2>2, <2>3, UnnamedTaken
<1>8. ASSUME UNCHANGED <<up, svc>>, cl'.modems = cl.modems, bus' = bus
      PROVE  Unnamed(bus', cl', k)
  <2>1. Unnamed(bus, cl, k)
    BY <1>8 DEF FreshInv
  <2> QED BY <1>8, <2>1 DEF Unnamed
<1>9. CASE \E x \in cl.sims \cup {NoPath} : UserSetsSim(x)
  BY <1>8, <1>9, UserSetsSimIs
<1>10. CASE \E e : UserCalls(e)
  <2>1. PICK e : UserCalls(e)
    BY <1>10
  <2>2. UNCHANGED <<up, svc>> /\ bus' = bus
    BY <2>1 DEF UserCalls
  <2>3. cl'.modems = cl.modems
    BY <2>1, UserCallsTyped
  <2> QED BY <1>8, <2>2, <2>3
<1>11. CASE UNCHANGED vars
  BY <1>8, <1>11 DEF vars
<1> QED BY <1>3, <1>4, <1>5, <1>6, <1>7, <1>9, <1>10, <1>11, NextIs

\* Messages that are no news of Private leave the news in pairs;
LEMMA PairedAppended ==
  ASSUME Paired, NEW e, Appends(bus', bus, e), \A x \in Elements(e) : ~Owns(x, Private)
  PROVE  Paired'
<1>1. PICK len, more \in Nat :
          /\ DOMAIN bus = 1 .. len /\ DOMAIN bus' = 1 .. len + more
          /\ \A n \in 1 .. len : bus'[n] = bus[n]
          /\ \A n \in len + 1 .. len + more : bus'[n] \in Elements(e)
  BY DEF Appends
<1>2. \A n \in DOMAIN bus : n \in DOMAIN bus' /\ bus'[n] = bus[n]
  BY <1>1
<1>3. ASSUME NEW n \in DOMAIN bus', Owns(bus'[n], Private)
      PROVE  \E m \in DOMAIN bus' : m > n /\ Owns(bus'[m], Listed)
  <2>1. n \in 1 .. len
    <3>1. n \notin len + 1 .. len + more
      BY <1>1, <1>3
    <3> QED BY <1>1, <3>1
  <2>2. n \in DOMAIN bus /\ Owns(bus[n], Private)
    BY <1>1, <1>3, <2>1
  <2>3. PICK m \in DOMAIN bus : m > n /\ Owns(bus[m], Listed)
    BY <2>2 DEF Paired
  <2> QED BY <1>2, <2>3
<1> QED BY <1>3 DEF Paired

\* so do the news of a service that starts,
LEMMA PairedStarted ==
  ASSUME IsSeq(bus), bus' = bus \o Started
  PROVE  Paired'
<1>1. PICK b : b = bus'
  OBVIOUS
<1>2. PICK len : len = Len(bus)
  OBVIOUS
<1>3. /\ len \in Nat /\ IsSeq(b) /\ Len(b) = len + 3
      /\ \A n \in DOMAIN b : b[n] = IF n <= len THEN bus[n] ELSE Started[n - len]
  <2>1. IsSeq(Started) /\ Len(Started) = 3
    BY StartedFacts
  <2>2. Behind(bus, Started, b)
    BY <1>1, <2>1, ConcatFacts
  <2>3. len \in Nat
    BY <1>2, SeqFacts
  <2> QED BY <1>2, <2>1, <2>2, <2>3 DEF Behind
<1>4. DOMAIN b = 1 .. len + 3
  BY <1>3, SeqFacts
<1>5. len + 3 \in DOMAIN b /\ b[len + 3] = Owner(Listed)
  <2>1. len + 3 \in DOMAIN b /\ ~(len + 3 <= len) /\ (len + 3) - len = 3
    BY <1>3, <1>4
  <2> QED BY <1>3, <2>1, StartedFacts
<1>6. Owns(b[len + 3], Listed) /\ ~Owns(b[len + 3], Private)
  BY <1>5, ObjectsDiffer DEF Owns, Owner
<1>7. ASSUME NEW n \in DOMAIN b, Owns(b[n], Private)
      PROVE  len + 3 > n
  <2>1. n # len + 3
    BY <1>6, <1>7
  <2> QED BY <1>3, <1>4, <2>1
<1> QED BY <1>1, <1>5, <1>6, <1>7 DEF Paired

\* and so does taking the head.
LEMMA PairedTaken ==
  ASSUME Paired, Takes(bus', bus)
  PROVE  Paired'
<1>1. PICK len \in Nat :
          /\ len >= 1 /\ DOMAIN bus = 1 .. len /\ DOMAIN bus' = 1 .. len - 1
          /\ \A n \in 1 .. len - 1 : bus'[n] = bus[n + 1]
  BY DEF Takes
<1>2. ASSUME NEW n \in DOMAIN bus', Owns(bus'[n], Private)
      PROVE  \E m \in DOMAIN bus' : m > n /\ Owns(bus'[m], Listed)
  <2>1. n \in 1 .. len - 1 /\ n + 1 \in DOMAIN bus /\ Owns(bus[n + 1], Private)
    BY <1>1, <1>2
  <2>2. PICK m \in DOMAIN bus : m > n + 1 /\ Owns(bus[m], Listed)
    BY <2>1 DEF Paired
  <2>3. m - 1 \in 1 .. len - 1 /\ m - 1 > n /\ (m - 1) + 1 = m
    BY <1>1, <2>1, <2>2
  <2>4. bus'[m - 1] = bus[m]
    BY <1>1, <2>3
  <2> QED BY <1>1, <2>2, <2>3, <2>4
<1> QED BY <1>2 DEF Paired

\* Every step keeps Paired.
LEMMA PairedStep ==
  ASSUME TypeInv, PendInv, Paired, [Next]_vars
  PROVE  Paired'
<1>0. IsSeq(bus)
  BY DEF TypeInv, Messages
<1>1. CASE ServiceSteps
  <2>1. PICK q, replies : Serving(q, replies)
    BY <1>1 DEF ServiceSteps
  <2>2. PICK e : /\ Appends(bus', bus, e)
                 /\ \A x \in Elements(e) : x.type = "reply" \/ \E o \in DOMAIN q : x = Signal(q, o)
    BY <2>1, ServingAppends
  <2>3. \A x \in Elements(e) : ~Owns(x, Private)
    BY <2>2, SignalSays DEF Owns
  <2> QED BY <2>2, <2>3, PairedAppended
<1>2. CASE \E q, m : Enlarges(q, m)
  <2>1. PICK e : Appends(bus', bus, e) /\ \A x \in Elements(e) : x.type = "changed"
    BY <1>2, EnlargesSays
  <2>2. \A x \in Elements(e) : ~Owns(x, Private)
    BY <2>1 DEF Owns
  <2> QED BY <2>1, <2>2, PairedAppended
<1>3. CASE Crash
  <2>1. PICK replies : /\ Answers(replies)
                       /\ bus' = bus \o replies \o <<[type |-> "lost"]>>
    BY <1>3, CrashIs
  <2>2. PICK l : l = [type |-> "lost"]
    OBVIOUS
  <2>3. IsSeq(<<l>>) /\ Elements(<<l>>) = {l} /\ IsSeq(replies)
    BY <1>0, <2>1, AppendElements DEF Answers
  <2>4. bus' = (bus \o replies) \o <<l>>
    BY <2>1, <2>2
  <2>5. PICK e : e = replies \o <<l>>
    OBVIOUS
  <2>6. Appends(bus', bus, e)
    BY <1>0, <2>3, <2>4, <2>5, AppendsTwice
  <2>7. Elements(e) = Elements(replies) \cup {l}
    BY <2>3, <2>5, ConcatElements
  <2>8. \A x \in Elements(e) : ~Owns(x, Private)
    <3>1. \A x \in Elements(replies) : x.type \in {"reply", "lost"}
      BY <2>1 DEF Answers
    <3>2. l.type = "lost"
      BY <2>2
    <3> QED BY <2>7, <3>1, <3>2 DEF Owns
  <2> QED BY <2>6, <2>8, PairedAppended
<1>4. CASE Start
  BY <1>0, <1>4, StartIs, PairedStarted
<1>5. CASE Follows
  BY <1>5, FollowsIs, PairedTaken
<1>6. CASE bus' = bus
  BY <1>6 DEF Paired
<1>7. CASE \E e : UserCalls(e)
  <2>1. bus' = bus \/ \E id : bus' = Append(bus, Reply(id, NoPath))
    BY <1>7 DEF UserCalls
  <2>2. CASE \E id : bus' = Append(bus, Reply(id, NoPath))
    <3>1. PICK id : bus' = Append(bus, Reply(id, NoPath))
      BY <2>2
    <3>2. PICK r : r = Reply(id, NoPath)
      OBVIOUS
    <3>3. bus' = bus \o <<r>> /\ IsSeq(<<r>>) /\ Elements(<<r>>) = {r}
      BY <1>0, <3>1, <3>2, AppendElements
    <3>4. Appends(bus', bus, <<r>>)
      BY <1>0, <3>3, AppendsIs
    <3>5. r.type = "reply"
      BY <3>2 DEF Reply
    <3>6. \A x \in Elements(<<r>>) : ~Owns(x, Private)
      BY <3>3, <3>5 DEF Owns
    <3> QED BY <3>4, <3>6, PairedAppended
  <2> QED BY <1>6, <2>1, <2>2
<1>8. CASE \E x \in cl.sims \cup {NoPath} : UserSetsSim(x)
  BY <1>6, <1>8, UserSetsSimIs
<1>9. CASE UNCHANGED vars
  BY <1>6, <1>9 DEF vars
<1> QED BY <1>1, <1>2, <1>3, <1>4, <1>5, <1>7, <1>8, <1>9, NextIs

-----------------------------------------------------------------------------
\* The chosen SIM

\* The service handles the first call.
LEMMA EndsTaken ==
  ASSUME NEW cs, IsSeq(cs), cs # <<>>, NEW f, NEW v, Ends(cs, f, v), NEW g,
         Asks(Head(cs)) => g = Head(cs).path, ~Asks(Head(cs)) => g = f
  PROVE  Ends(Tail(cs), g, v)
<1>1. PICK t : t = Tail(cs)
  OBVIOUS
<1>2. /\ 1 \in DOMAIN cs /\ Head(cs) = cs[1] /\ DOMAIN cs \subseteq Nat
      /\ \A n \in DOMAIN t : n + 1 \in DOMAIN cs /\ t[n] = cs[n + 1]
      /\ \A n \in DOMAIN cs : n # 1 => n - 1 \in DOMAIN t /\ t[n - 1] = cs[n]
      /\ DOMAIN t \subseteq Nat \ {0}
  BY <1>1, TailFacts, SeqFacts
<1>3. ASSUME NEW n \in DOMAIN t, Asks(t[n])
      PROVE  \E m \in DOMAIN t : m >= n /\ Asks(t[m]) /\ t[m].path = v
  <2>1. n + 1 \in DOMAIN cs /\ Asks(cs[n + 1]) /\ n \in Nat \ {0}
    BY <1>2, <1>3
  <2>2. PICK m \in DOMAIN cs : m >= n + 1 /\ Asks(cs[m]) /\ cs[m].path = v
    BY <2>1 DEF Ends
  <2>3. m \in Nat /\ m # 1 /\ m - 1 >= n
    BY <1>2, <2>1, <2>2
  <2>4. m - 1 \in DOMAIN t /\ t[m - 1] = cs[m]
    BY <1>2, <2>3
  <2>5. Asks(t[m - 1]) /\ t[m - 1].path = v
    BY <2>2, <2>4
  <2> QED BY <2>3, <2>4, <2>5
<1>4. ASSUME \A n \in DOMAIN t : ~Asks(t[n])
      PROVE  g = v
  <2>1. \A n \in DOMAIN cs : n # 1 => ~Asks(cs[n])
    BY <1>2, <1>4
  <2>2. CASE Asks(Head(cs))
    <3>1. Asks(cs[1])
      BY <1>2, <2>2
    <3>2. PICK m \in DOMAIN cs : m >= 1 /\ Asks(cs[m]) /\ cs[m].path = v
      BY <1>2, <3>1 DEF Ends
    <3>3. m = 1
      BY <2>1, <3>2
    <3> QED BY <1>2, <2>2, <3>2, <3>3
  <2>3. CASE ~Asks(Head(cs))
    <3>1. \A n \in DOMAIN cs : ~Asks(cs[n])
      BY <1>2, <2>1, <2>3
    <3>2. f = v
      BY <3>1 DEF Ends
    <3> QED BY <2>3, <3>2
  <2> QED BY <2>2, <2>3
<1> QED BY <1>1, <1>3, <1>4 DEF Ends

\* One call more: it does not choose, or chooses v.
LEMMA EndsAppended ==
  ASSUME NEW cs, IsSeq(cs), NEW e, NEW f, NEW v,
         \/ ~Asks(e) /\ Ends(cs, f, v)
         \/ Asks(e) /\ e.path = v
  PROVE  Ends(Append(cs, e), f, v)
<1>1. PICK t : t = Append(cs, e)
  OBVIOUS
<1>2. PICK len \in Nat : len = Len(cs) /\ DOMAIN cs = 1 .. len
  BY SeqFacts
<1>3. /\ DOMAIN t = 1 .. len + 1 /\ t[len + 1] = e
      /\ \A n \in DOMAIN t : n # len + 1 => n \in DOMAIN cs /\ t[n] = cs[n]
      /\ \A n \in DOMAIN cs : n \in DOMAIN t /\ t[n] = cs[n]
  <2>1. Behind(cs, <<e>>, t) /\ Len(<<e>>) = 1 /\ <<e>>[1] = e
    BY <1>1, AppendFacts
  <2>2. IsSeq(t) /\ Len(t) = len + 1
    BY <1>2, <2>1 DEF Behind
  <2>3. DOMAIN t = 1 .. len + 1
    BY <1>2, <2>2, SeqFacts
  <2>4. \A n \in DOMAIN t : t[n] = IF n <= len THEN cs[n] ELSE <<e>>[n - len]
    BY <1>2, <2>1 DEF Behind
  <2>5. t[len + 1] = e
    <3>1. len + 1 \in DOMAIN t /\ ~(len + 1 <= len) /\ (len + 1) - len = 1
      BY <1>2, <2>3
    <3> QED BY <2>1, <2>4, <3>1
  <2>6. \A n \in DOMAIN t : n # len + 1 => n \in DOMAIN cs /\ n <= len
    BY <1>2, <2>3
  <2>7. \A n \in DOMAIN cs : n \in DOMAIN t /\ n # len + 1
    BY <1>2, <2>3
  <2> QED BY <2>3, <2>4, <2>5, <2>6, <2>7
<1>4. len + 1 \in DOMAIN t /\ \A n \in DOMAIN t : len + 1 >= n
  BY <1>2, <1>3
<1>5. CASE Asks(e) /\ e.path = v
  <2>1. Asks(t[len + 1]) /\ t[len + 1].path = v
    BY <1>3, <1>5
  <2> QED BY <1>1, <1>4, <2>1 DEF Ends
<1>6. CASE ~Asks(e) /\ Ends(cs, f, v)
  <2>1. ASSUME NEW n \in DOMAIN t, Asks(t[n])
        PROVE  \E m \in DOMAIN t : m >= n /\ Asks(t[m]) /\ t[m].path = v
    <3>1. n \in DOMAIN cs /\ Asks(cs[n])
      BY <1>3, <1>6, <2>1
    <3>2. PICK m \in DOMAIN cs : m >= n /\ Asks(cs[m]) /\ cs[m].path = v
      BY <1>6, <3>1 DEF Ends
    <3>3. m \in DOMAIN t /\ t[m] = cs[m]
      BY <1>3, <3>2
    <3> QED BY <3>2, <3>3
  <2>2. ASSUME \A n \in DOMAIN t : ~Asks(t[n])
        PROVE  f = v
    <3>1. \A n \in DOMAIN cs : ~Asks(cs[n])
      BY <1>3, <2>2
    <3> QED BY <1>6, <3>1 DEF Ends
  <2> QED BY <1>1, <2>1, <2>2 DEF Ends
<1> QED BY <1>5, <1>6

\* Messages behind others: if none is news now, none was.
LEMMA NoNewsBefore ==
  ASSUME NEW b, NEW t, NEW e, Appends(t, b, e), \A n \in DOMAIN t : ~Owns(t[n], Private)
  PROVE  \A n \in DOMAIN b : ~Owns(b[n], Private)
<1>1. PICK len, more \in Nat :
          /\ DOMAIN b = 1 .. len /\ DOMAIN t = 1 .. len + more
          /\ \A n \in 1 .. len : t[n] = b[n]
  BY DEF Appends
<1>2. \A n \in DOMAIN b : n \in DOMAIN t /\ t[n] = b[n]
  BY <1>1
<1> QED BY <1>2

\* A step of the service keeps the choice,
LEMMA ServiceChoice ==
  ASSUME TypeInv, ChoiceInv, ServiceSteps
  PROVE  ChoiceInv'
<1> SUFFICES ASSUME up', \A n \in DOMAIN bus' : ~Owns(bus'[n], Private), cl'.choice # Shown(cl')
             PROVE  /\ cl'.mine
                    /\ "contested" \in hist' \/ Ends(cl'.calls, PathIn(svc', mgr'.choice), cl'.choice)
  BY DEF ChoiceInv
<1>1. PICK q, replies : Serving(q, replies)
  BY DEF ServiceSteps
<1>2. up /\ svc'.sims = svc.sims
  BY <1>1 DEF Serving
<1>3. \A n \in DOMAIN bus : ~Owns(bus[n], Private)
  BY <1>1, ServingAppends, NoNewsBefore
<1>4. cl'.choice = cl.choice /\ cl'.mine = cl.mine /\ Shown(cl') = Shown(cl)
  BY ServiceShows
<1>5. cl.mine /\ ("contested" \in hist \/ Ends(cl.calls, PathIn(svc, mgr.choice), cl.choice))
  BY <1>2, <1>3, <1>4 DEF ChoiceInv
<1>6. \A i : PathIn(svc', i) = PathIn(svc, i)
  BY <1>2 DEF PathIn
<1>7. CASE Awaits
  <2>1. CASE hist' = hist /\ mgr'.choice = mgr.choice
    <3>1. cl'.calls = cl.calls
      BY <1>7 DEF Awaits
    <3> QED BY <1>4, <1>5, <1>6, <2>1, <3>1
  <2>2. CASE hist' = Contested
    BY <1>4, <1>5, <2>2 DEF Contested
  <2> QED BY <1>7, <2>1, <2>2 DEF Awaits
<1>8. CASE Handled
  <2>1. /\ hist' = hist /\ cl.calls # <<>> /\ cl' = Calling(cl, Tail(cl.calls))
        /\ Asks(Head(cl.calls)) => PathIn(svc, mgr'.choice) = Head(cl.calls).path
        /\ ~Asks(Head(cl.calls)) => mgr'.choice = mgr.choice
    BY <1>8 DEF Handled
  <2>2. Client(cl, N) /\ IsSeq(cl.calls) /\ Calls(cl.calls, N)
    BY DEF TypeInv, Shows, Client
  <2>3. IsSeq(Tail(cl.calls)) /\ Calls(Tail(cl.calls), N)
    BY <2>1, <2>2, CallsTail
  <2>4. cl'.calls = Tail(cl.calls)
    BY <2>1, <2>2, <2>3, CallingFacts
  <2>5. CASE Ends(cl.calls, PathIn(svc, mgr.choice), cl.choice)
    <3>1. PICK g : g = PathIn(svc, mgr'.choice)
      OBVIOUS
    <3>2. PICK f : f = PathIn(svc, mgr.choice)
      OBVIOUS
    <3>3. PICK cs : cs = cl.calls
      OBVIOUS
    <3>4. /\ IsSeq(cs) /\ cs # <<>> /\ Ends(cs, f, cl.choice)
          /\ Asks(Head(cs)) => g = Head(cs).path
          /\ ~Asks(Head(cs)) => g = f
      BY <2>1, <2>2, <2>5, <3>1, <3>2, <3>3
    <3>5. Ends(Tail(cs), g, cl.choice)
      BY <3>4, EndsTaken
    <3> QED BY <1>4, <1>5, <1>6, <2>4, <3>1, <3>3, <3>5
  <2> QED BY <1>4, <1>5, <2>1, <2>5
<1> QED BY <1>7, <1>8 DEF ServiceSteps

\* so does a new SIM,
LEMMA EnlargedChoice ==
  ASSUME TypeInv, ChoiceInv, NEW q, NEW m, Enlarges(q, m)
  PROVE  ChoiceInv'
<1> SUFFICES ASSUME up', \A n \in DOMAIN bus' : ~Owns(bus'[n], Private), cl'.choice # Shown(cl')
             PROVE  /\ cl'.mine
                    /\ "contested" \in hist' \/ Ends(cl'.calls, PathIn(svc', mgr'.choice), cl'.choice)
  BY DEF ChoiceInv
<1>1. /\ up /\ cl' = cl
      /\ \/ hist' = hist /\ PathIn(svc', mgr'.choice) = PathIn(svc, mgr.choice)
         \/ hist' = Contested
  BY DEF Enlarges
<1>2. \A n \in DOMAIN bus : ~Owns(bus[n], Private)
  BY EnlargesSays, NoNewsBefore
<1>3. cl.choice # Shown(cl)
  BY <1>1 DEF Shown
<1>4. cl.mine /\ ("contested" \in hist \/ Ends(cl.calls, PathIn(svc, mgr.choice), cl.choice))
  BY <1>1, <1>2, <1>3 DEF ChoiceInv
<1>5. CASE hist' = Contested
  BY <1>1, <1>4, <1>5 DEF Contested
<1> QED BY <1>1, <1>4, <1>5

\* what the client takes from the bus,
LEMMA FollowedChoice ==
  ASSUME TypeInv, Owned, ChoiceInv, Follows, TypeInv'
  PROVE  ChoiceInv'
<1> SUFFICES ASSUME up', \A n \in DOMAIN bus' : ~Owns(bus'[n], Private), cl'.choice # Shown(cl')
             PROVE  /\ cl'.mine
                    /\ "contested" \in hist' \/ Ends(cl'.calls, PathIn(svc', mgr'.choice), cl'.choice)
  BY DEF ChoiceInv
<1>1. PICK h : h = Head(bus)
  OBVIOUS
<1>2. /\ Takes(bus', bus) /\ UNCHANGED <<up, mgr, svc>> /\ N' = N
      /\ h.type \in {"changed", "owner", "lost", "reply"}
      /\ "contested" \in hist' <=> "contested" \in hist
  BY <1>1, FollowsIs
<1>3. Client(cl, N) /\ ModemsShown(cl) /\ ReadsTyped(N) /\ N \in Nat /\ Client(cl', N)
  BY <1>2, TypeFacts DEF TypeInv, Shows
<1>4. CASE Owns(h, Private)
  <2>1. cl' = Refreshed(cl, Private)
    BY <1>1, <1>4, FollowsOwner DEF Owns
  <2>2. "Sims" \in DOMAIN Read(Private)
    BY <1>2, ReadPrivate
  <2>3. Settled(cl')
    BY <1>3, <2>1, <2>2, PrivateRefreshed
  <2> QED BY <2>3 DEF Settled
<1>5. CASE ~Owns(h, Private)
  <2>1. PICK len \in Nat :
            /\ len >= 1 /\ DOMAIN bus = 1 .. len /\ DOMAIN bus' = 1 .. len - 1 /\ h = bus[1]
            /\ \A n \in 1 .. len - 1 : bus'[n] = bus[n + 1]
    BY <1>1, <1>2 DEF Takes
  <2>2. ASSUME NEW n \in DOMAIN bus
        PROVE  ~Owns(bus[n], Private)
    <3>1. CASE n = 1
      BY <1>5, <2>1, <3>1
    <3>2. CASE n # 1
      <4>1. n - 1 \in DOMAIN bus' /\ n - 1 \in 1 .. len - 1 /\ (n - 1) + 1 = n
        BY <2>1, <3>2
      <4>2. bus'[n - 1] = bus[n]
        BY <2>1, <4>1
      <4> QED BY <4>1, <4>2
    <3> QED BY <3>1, <3>2
  <2>3. SameChoice(cl, cl') /\ Shown(cl') = Shown(cl) => 
            /\ cl'.mine
            /\ "contested" \in hist' \/ Ends(cl'.calls, PathIn(svc', mgr'.choice), cl'.choice)
    <3> SUFFICES ASSUME SameChoice(cl, cl'), Shown(cl') = Shown(cl)
                 PROVE  /\ cl'.mine
                        /\ "contested" \in hist' \/ Ends(cl'.calls, PathIn(svc', mgr'.choice), cl'.choice)
      OBVIOUS
    <3>1. cl'.choice = cl.choice /\ cl'.mine = cl.mine /\ cl'.calls = cl.calls
      BY DEF SameChoice
    <3>2. cl.mine /\ ("contested" \in hist \/ Ends(cl.calls, PathIn(svc, mgr.choice), cl.choice))
      BY <1>2, <2>2, <3>1 DEF ChoiceInv
    <3> QED BY <1>2, <3>1, <3>2
  <2>4. CASE h.type = "changed" /\ h.object = Private
    <3>1. TookPrivate(cl, cl', h.values, FALSE)
      BY <1>1, <2>4, FollowsPrivate
    <3>2. Settled(cl') \/ (SameChoice(cl, cl') /\ Shown(cl') = Shown(cl))
      BY <3>1 DEF TookPrivate
    <3> QED BY <2>3, <3>2 DEF Settled
  <2>5. CASE h.type = "lost"
    <3>1. 1 \in DOMAIN bus /\ bus[1].type = "lost"
      BY <2>1, <2>5
    <3>2. \E m \in DOMAIN bus : Owns(bus[m], Private)
      BY <1>2, <3>1 DEF Owned
    <3> QED BY <2>2, <3>2
  <2>6. CASE ~(h.type = "changed" /\ h.object = Private) /\ h.type # "lost"
    <3>1. Alike(cl, cl')
      BY <1>1, <1>2, <1>5, <2>6, FollowsAlike DEF Owns
    <3>2. Shown(cl') = Shown(cl)
      BY <1>3, <3>1, AlikeFacts
    <3> QED BY <2>3, <3>1, <3>2 DEF Alike
  <2> QED BY <2>4, <2>5, <2>6
<1> QED BY <1>4, <1>5

\* The choice of a user that is not told to the service is the cached one.
LEMMA ChoiceCached ==
  ASSUME NEW c, NEW p \in c.sims \cup {NoPath}, p \in Nat,
         p = Cached(c, Private, "SimForMobileData", -1)
  PROVE  p = Shown(c)
<1>1. p # -1
  OBVIOUS
<1>2. Private \in DOMAIN c.cache /\ "SimForMobileData" \in DOMAIN c.cache[Private]
      /\ c.cache[Private]["SimForMobileData"] = p
  BY <1>1 DEF Cached
<1>3. Cached(c, Private, "SimForMobileData", NoPath) = p
  BY <1>2 DEF Cached
<1> QED BY <1>3 DEF Shown, getSimByPath

\* a choice of the user,
LEMMA UserChoice ==
  ASSUME TypeInv, ChoiceInv, NEW p \in cl.sims \cup {NoPath}, UserSetsSim(p)
  PROVE  ChoiceInv'
<1> SUFFICES ASSUME up', \A n \in DOMAIN bus' : ~Owns(bus'[n], Private), cl'.choice # Shown(cl')
             PROVE  /\ cl'.mine
                    /\ "contested" \in hist' \/ Ends(cl'.calls, PathIn(svc', mgr'.choice), cl'.choice)
  BY DEF ChoiceInv
<1>1. /\ UNCHANGED <<up, mgr, svc, bus, hist>> /\ p \in 0 .. N
      /\ Chosen(cl, cl', p, "user", cl.mine \/ p # cl.choice)
      /\ cl'.choice = p /\ Shown(cl') = Shown(cl) /\ cl'.mine = (cl.mine \/ p # cl.choice)
  BY UserSetsSimIs
<1>2. IsSeq(cl.calls) /\ N \in Nat
  BY TypeFacts DEF TypeInv, Shows, Client
<1>3. p # Cached(cl, Private, "SimForMobileData", -1)
  BY <1>1, <1>2, ChoiceCached
<1>4. CASE p = cl.choice
  <2>1. cl'.calls = cl.calls
    BY <1>1, <1>4 DEF Chosen
  <2> QED BY <1>1, <1>4, <2>1 DEF ChoiceInv
<1>5. CASE p # cl.choice
  <2>1. PICK e : e = [method |-> "setSimForMobileData", path |-> p, by |-> "user"]
    OBVIOUS
  <2>2. cl'.calls = Append(cl.calls, e)
    BY <1>1, <1>3, <1>5, <2>1 DEF Chosen
  <2>3. Asks(e) /\ e.path = p
    BY <2>1 DEF Asks
  <2>4. \A f : Ends(Append(cl.calls, e), f, p)
    BY <1>2, <2>3, EndsAppended
  <2> QED BY <1>1, <1>5, <2>2, <2>4
<1> QED BY <1>4, <1>5

\* and another call of the user.
LEMMA UserCallsChoice ==
  ASSUME TypeInv, ChoiceInv, NEW e, UserCalls(e)
  PROVE  ChoiceInv'
<1> SUFFICES ASSUME up', \A n \in DOMAIN bus' : ~Owns(bus'[n], Private), cl'.choice # Shown(cl')
             PROVE  /\ cl'.mine
                    /\ "contested" \in hist' \/ Ends(cl'.calls, PathIn(svc', mgr'.choice), cl'.choice)
  BY DEF ChoiceInv
<1>1. UNCHANGED <<up, mgr, svc, hist>> /\ ~Asks(e) /\ bus' = bus
  BY DEF UserCalls, Asks
<1>2. /\ Shown(cl') = Shown(cl) /\ cl'.choice = cl.choice /\ cl'.mine = cl.mine
      /\ cl'.calls \in {cl.calls, Append(cl.calls, e)}
  BY UserCallsTyped
<1>3. cl.mine /\ ("contested" \in hist \/ Ends(cl.calls, PathIn(svc, mgr.choice), cl.choice))
  BY <1>1, <1>2 DEF ChoiceInv
<1>4. IsSeq(cl.calls)
  BY DEF TypeInv, Shows, Client
<1>5. Ends(cl.calls, PathIn(svc, mgr.choice), cl.choice)
          => Ends(cl'.calls, PathIn(svc, mgr.choice), cl.choice)
  BY <1>1, <1>2, <1>4, EndsAppended
<1> QED BY <1>1, <1>2, <1>3, <1>5

\* Every step keeps ChoiceInv.
LEMMA ChoiceStep ==
  ASSUME TypeInv, PendInv, Owned, ChoiceInv, [Next]_vars
  PROVE  ChoiceInv'
<1>1. CASE Crash
  BY <1>1, CrashIs DEF ChoiceInv
<1>2. CASE Start
  <2>1. IsSeq(bus) /\ bus' = bus \o Started
    BY <1>2, StartIs DEF TypeInv, Messages
  <2>2. Appends(bus', bus, Started)
    BY <2>1, StartedFacts, AppendsIs
  <2>3. Owner(Private) \in Elements(Started)
    BY StartedFacts DEF Elements
  <2>4. \E n \in DOMAIN bus' : bus'[n] = Owner(Private)
    <3>1. PICK len, more \in Nat :
              /\ DOMAIN bus' = 1 .. len + more
              /\ \A m \in Elements(Started) : \E n \in len + 1 .. len + more : bus'[n] = m
      BY <2>2 DEF Appends
    <3>2. PICK n \in len + 1 .. len + more : bus'[n] = Owner(Private)
      BY <2>3, <3>1
    <3>3. n \in DOMAIN bus'
      BY <3>1
    <3> QED BY <3>2, <3>3
  <2>5. Owns(Owner(Private), Private)
    BY DEF Owns, Owner
  <2> QED BY <2>4, <2>5 DEF ChoiceInv
<1>3. CASE Follows
  BY <1>3, TypeStep, FollowedChoice
<1>4. CASE UNCHANGED vars
  BY <1>4 DEF vars, ChoiceInv, Shown
<1> QED BY <1>1, <1>2, <1>3, <1>4, NextIs, ServiceChoice, EnlargedChoice, UserChoice, UserCallsChoice

-----------------------------------------------------------------------------
\* When nothing is on its way the client shows what the service has

\* With nothing on its way all has been heard.
LEMMA RestCopied ==
  ASSUME HeardInv, AtRest
  PROVE  up /\ Copied
<1>1. up /\ pend = Empty /\ DOMAIN bus = {}
  BY DEF AtRest
<1>2. ASSUME NEW o \in Served(svc), NEW p \in Properties(o)
      PROVE  CachedAs(cl, o, p, GetAll(mgr, svc, o)[p])
  <2>1. PICK v : v = GetAll(mgr, svc, o)[p]
    OBVIOUS
  <2>2. ~Holds(pend, o, p)
    BY <1>1, EmptyFacts DEF Holds
  <2>3. Heard(bus, cl, o, p, v)
    BY <1>1, <2>1, <2>2 DEF HeardInv
  <2>4. CachedAs(cl, o, p, v)
    BY <1>1, <2>3 DEF Heard
  <2> QED BY <2>1, <2>4
<1> QED BY <1>1, <1>2 DEF Copied

\* What Private says is in its cache.
LEMMA PrivateCopied ==
  ASSUME TypeInv, up, Copied, NEW p \in PrivateProperties
  PROVE  p \in DOMAIN cl.cache[Private] /\ cl.cache[Private][p] = PrivateValue(mgr, svc, p)
<1>1. Private \in DOMAIN cl.cache
  BY TypeFacts, ClientFacts DEF TypeInv, Shows
<1>2. Private \in Served(svc) /\ p \in Properties(Private)
  BY PropertiesOf DEF Served
<1>3. CachedAs(cl, Private, p, GetAll(mgr, svc, Private)[p])
  BY <1>2 DEF Copied
<1>4. GetAll(mgr, svc, Private)[p] = PrivateValue(mgr, svc, p)
  BY GetAllIs
<1> QED BY <1>1, <1>3, <1>4 DEF CachedAs

\* So the client lists the service's objects,
LEMMA ListsCopied ==
  ASSUME TypeInv, up, Copied
  PROVE  /\ DOMAIN cl.modems = ModemPaths(svc) /\ cl.sims = Paths(svc.sims)
         /\ cl.vpns = Paths(svc.vpns) /\ DOMAIN cl.cache \subseteq Served(svc)
<1>1. /\ "Modems" \in DOMAIN cl.cache[Private] /\ cl.cache[Private]["Modems"] = ModemPaths(svc)
      /\ "Sims" \in DOMAIN cl.cache[Private] /\ cl.cache[Private]["Sims"] = Paths(svc.sims)
      /\ "VpnConnections" \in DOMAIN cl.cache[Private]
      /\ cl.cache[Private]["VpnConnections"] = Paths(svc.vpns)
  <2>1. {"Modems", "Sims", "VpnConnections"} \subseteq PrivateProperties
    BY DEF PrivateProperties
  <2> QED BY <2>1, PrivateCopied, PrivateValueIs DEF ModemPaths
<1>2. ListsShown(cl) /\ Client(cl, N)
  BY DEF TypeInv, Shows
<1>3. DOMAIN cl.modems = ModemPaths(svc) /\ cl.sims = Paths(svc.sims) /\ cl.vpns = Paths(svc.vpns)
  BY <1>1, <1>2 DEF ListsShown
<1>4. DOMAIN cl.cache = ClientObjects(DOMAIN cl.modems, cl.sims)
  BY <1>2 DEF Client
<1>5. ClientObjects(ModemPaths(svc), Paths(svc.sims)) \subseteq Served(svc)
  BY DEF ClientObjects, Served, ModemPaths, Paths
<1> QED BY <1>3, <1>4, <1>5

\* has in each cache just what the service answers,
LEMMA CachesCopied ==
  ASSUME TypeInv, up, Copied, NEW o \in DOMAIN cl.cache
  PROVE  cl.cache[o] = GetAll(mgr, svc, o)
<1>1. o \in Served(svc)
  BY ListsCopied
<1>2. Manager(mgr) /\ Service(mgr, svc) /\ Client(cl, N) /\ N \in Nat
  BY TypeFacts DEF TypeInv, Shows
<1>3. o \in ObjectsOf(N) /\ DOMAIN GetAll(mgr, svc, o) = Properties(o)
  BY <1>1, <1>2, GetAllDomain DEF N
<1>4. o \in Objects
  BY <1>2, ClientFacts
<1>5. PICK g : g = GetAll(mgr, svc, o)
  OBVIOUS
<1>6. IsMap(g)
  BY <1>2, <1>4, <1>5, GetAllTyped DEF Values
<1>7. PICK f : f = cl.cache[o]
  OBVIOUS
<1>8. IsMap(f) /\ DOMAIN f \subseteq Properties(o)
  BY <1>2, <1>7 DEF Client, Values
<1>9. \A p \in Properties(o) : p \in DOMAIN f /\ f[p] = g[p]
  BY <1>1, <1>5, <1>7 DEF Copied, CachedAs
<1>10. DOMAIN f = DOMAIN g /\ \A p \in DOMAIN f : f[p] = g[p]
  BY <1>3, <1>5, <1>8, <1>9
<1>11. f = g
  BY <1>6, <1>8, <1>10, SameMap
<1> QED BY <1>5, <1>7, <1>11

\* and shows for each modem the SIM that is in it.
LEMMA ModemCopied ==
  ASSUME TypeInv, up, Copied, NEW x \in DOMAIN svc.modems, NEW k, k = svc.modems[x].path
  PROVE  cl.modems[k] = PathIn(svc, mgr.modems[x])
<1>1. Manager(mgr) /\ Service(mgr, svc) /\ Client(cl, N) /\ ModemsShown(cl) /\ N \in Nat
  BY TypeFacts DEF TypeInv, Shows
<1>2. k \in DOMAIN cl.modems
  BY ListsCopied DEF ModemPaths
<1>3. ModemObject(k) \in DOMAIN cl.cache
  BY <1>1, <1>2, ClientFacts
<1>4. x \in DOMAIN mgr.modems /\ mgr.modems[x] \in mgr.sims \cup {NoSim}
  BY <1>1, ServiceParts, ManagerParts
<1>5. PICK vs : vs = GetAll(mgr, svc, ModemObject(k))
  OBVIOUS
<1>6. DOMAIN vs = {"Sim"} /\ vs["Sim"] = PathIn(svc, mgr.modems[x])
  BY <1>1, <1>4, <1>5, ModemValue
<1>7. cl.cache[ModemObject(k)] = vs
  BY <1>3, <1>5, CachesCopied
<1>8. cl.modems[k] = getSimByPath(cl.sims, vs["Sim"])
  BY <1>1, <1>2, <1>6, <1>7 DEF ModemsShown
<1>9. PathIn(svc, mgr.modems[x]) \in Paths(svc.sims) \cup {NoPath}
  <2>1. mgr.modems[x] # NoSim => PathIn(svc, mgr.modems[x]) \in Paths(svc.sims)
    BY <1>1, <1>4, PathInTyped
  <2>2. PathIn(svc, NoSim) = NoPath
    BY DEF PathIn
  <2> QED BY <2>1, <2>2
<1>10. PathIn(svc, mgr.modems[x]) \in cl.sims \cup {NoPath}
  BY <1>9, ListsCopied
<1> QED BY <1>6, <1>8, <1>10 DEF getSimByPath

\* The chosen SIM of a client that has it from the service is the
\* manager's.
LEMMA ChoiceCopied ==
  ASSUME TypeInv, up, Copied
  PROVE  Shown(cl) = PathIn(svc, mgr.choice)
<1>1. Manager(mgr) /\ Service(mgr, svc) /\ Client(cl, N) /\ N \in Nat
  BY TypeFacts DEF TypeInv, Shows
<1>2. "SimForMobileData" \in PrivateProperties
  BY DEF PrivateProperties
<1>3. "SimForMobileData" \in DOMAIN cl.cache[Private]
      /\ cl.cache[Private]["SimForMobileData"] = simForMobileData(mgr, svc)
  BY <1>2, PrivateCopied, PrivateValueIs
<1>4. simForMobileData(mgr, svc) = PathIn(svc, mgr.choice)
  BY <1>1, SimForMobileDataIs
<1>5. Private \in DOMAIN cl.cache
  BY <1>1, ClientFacts
<1>6. Cached(cl, Private, "SimForMobileData", NoPath) = PathIn(svc, mgr.choice)
  BY <1>3, <1>4, <1>5, CachedIs
<1>7. PathIn(svc, mgr.choice) \in cl.sims \cup {NoPath}
  <2>1. mgr.choice \in mgr.sims \cup {NoSim}
    BY <1>1, ManagerParts
  <2>2. mgr.choice # NoSim => PathIn(svc, mgr.choice) \in Paths(svc.sims)
    BY <1>1, <2>1, PathInTyped
  <2>3. PathIn(svc, NoSim) = NoPath
    BY DEF PathIn
  <2> QED BY <2>2, <2>3, ListsCopied
<1> QED BY <1>6, <1>7 DEF Shown, getSimByPath

\* All together is Mirrored.
LEMMA RestMirrored ==
  ASSUME TypeInv, HeardInv, ChoiceInv
  PROVE  AtRestMirrored
<1> SUFFICES ASSUME AtRest PROVE Mirrored
  BY DEF AtRestMirrored
<1>1. up /\ Copied
  BY RestCopied
<1>2. cl.sims = Paths(svc.sims) /\ cl.vpns = Paths(svc.vpns) /\ DOMAIN cl.modems = ModemPaths(svc)
  BY <1>1, ListsCopied
<1>3. ASSUME "contested" \notin hist
      PROVE  cl.choice = (IF mgr.choice = NoSim THEN NoPath ELSE svc.sims[mgr.choice])
  <2>1. \A n \in DOMAIN bus : ~Owns(bus[n], Private)
    BY DEF AtRest
  <2>2. cl.choice = Shown(cl) \/ Ends(cl.calls, PathIn(svc, mgr.choice), cl.choice)
    BY <1>1, <1>3, <2>1 DEF ChoiceInv
  <2>3. Ends(cl.calls, PathIn(svc, mgr.choice), cl.choice) => cl.choice = PathIn(svc, mgr.choice)
    <3>1. DOMAIN cl.calls = {}
      BY DEF AtRest
    <3> QED BY <3>1 DEF Ends
  <2>4. cl.choice = PathIn(svc, mgr.choice)
    BY <1>1, <2>2, <2>3, ChoiceCopied
  <2> QED BY <2>4 DEF PathIn
<1>4. cl.modems = [p \in {svc.modems[x].path : x \in DOMAIN svc.modems} |->
                     LET x == CHOOSE y \in DOMAIN svc.modems : svc.modems[y].path = p
                     IN  IF mgr.modems[x] = NoSim THEN NoPath ELSE svc.sims[mgr.modems[x]]]
  <2> DEFINE At(p) == CHOOSE y \in DOMAIN svc.modems : svc.modems[y].path = p
             f == [p \in ModemPaths(svc) |-> PathIn(svc, mgr.modems[At(p)])]
  <2>1. IsMap(cl.modems)
    BY DEF TypeInv, Shows, Client
  <2>2. ASSUME NEW p \in ModemPaths(svc)
        PROVE  cl.modems[p] = PathIn(svc, mgr.modems[At(p)])
    <3>1. \E y \in DOMAIN svc.modems : svc.modems[y].path = p
      BY DEF ModemPaths
    <3>2. At(p) \in DOMAIN svc.modems /\ svc.modems[At(p)].path = p
      BY <3>1
    <3> HIDE DEF At
    <3> QED BY <1>1, <3>2, ModemCopied
  <2>3. IsMap(f) /\ DOMAIN f = ModemPaths(svc) /\ \A p \in ModemPaths(svc) : f[p] = PathIn(svc, mgr.modems[At(p)])
    BY DEF IsMap
  <2>4. cl.modems = f
    <3> HIDE DEF At, f
    <3> QED BY <1>2, <2>1, <2>2, <2>3, SameMap
  <2> QED BY <2>4 DEF ModemPaths, PathIn
<1>5. \A o \in DOMAIN cl.cache : cl.cache[o] = GetAll(mgr, svc, o)
  BY <1>1, CachesCopied
<1> QED BY <1>2, <1>3, <1>4, <1>5 DEF Mirrored

\* They hold at the start, when there is no service to hear of,
LEMMA InitMirror == Init => MirrorInv
BY DEF Init, MirrorInv, HeardInv, FreshInv, Paired, ChoiceInv

\* and every step keeps them.
LEMMA MirrorStep ==
  ASSUME TypeInv, PendInv, NewsInv, MirrorInv, [Next]_vars
  PROVE  MirrorInv'
BY HeardStep, FreshStep, PairedStep, ChoiceStep DEF MirrorInv, NewsInv

\* When nothing is on its way the client shows what the service has
\* (AtRestMirrored): every cached property, the lists, each modem's SIM
\* and the chosen SIM, whatever signals a reading overtook, whatever calls
\* crossed signals and however often the service crashed.
THEOREM ClientMirrors == Spec => []AtRestMirrored
<1>1. Init => TypeInv /\ PendInv /\ NewsInv /\ EchoInv /\ MirrorInv
  BY InitTyped, InitPend, InitNews, InitMirror
<1>2. /\ TypeInv /\ PendInv /\ NewsInv /\ ("overtaken" \notin hist => EchoInv) /\ MirrorInv
      /\ [Next]_vars
      => (TypeInv /\ PendInv /\ NewsInv /\ ("overtaken" \notin hist => EchoInv) /\ MirrorInv)'
  BY TypeStep, PendStep, NewsStep, MirrorStep
<1>3. TypeInv /\ MirrorInv => AtRestMirrored
  BY RestMirrored DEF MirrorInv
<1> QED BY <1>1, <1>2, <1>3, PTL DEF Spec
=============================================================================
