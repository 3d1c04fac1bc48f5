------------------------ MODULE GatewayProcessProofs ------------------------
(* The process for any configurations, requests and addresses, and what    *)
(* routing and client addresses are for every configuration.               *)
EXTENDS GatewayProcess, SequenceTheorems, WellFoundedInduction, TLAPS

\* A set of natural numbers has a least element.
LEMMA LeastNat ==
    ASSUME NEW T \in SUBSET Nat, T # {}
    PROVE  \E m \in T : \A n \in T : m <= n
<1>1. PICK m \in T : \A n \in T : <<n, m>> \notin OpToRel(<, Nat)
  BY NatLessThanWellFounded, WFMin
<1>2. \A n \in T : ~(n < m)
  BY <1>1 DEF OpToRel
<1> QED
  BY <1>2

\* So a set of positions of a sequence has a last one.
LEMMA LastPosition ==
    ASSUME NEW n \in Nat, NEW T \in SUBSET (1..n), T # {}
    PROVE  \E m \in T : \A k \in T : k <= m
<1> DEFINE D == {n - k : k \in T}
<1>1. D \in SUBSET Nat /\ D # {}
  <2>1. \A k \in T : n - k \in Nat
    OBVIOUS
  <2> QED
    BY <2>1
<1>2. PICK d \in D : \A e \in D : d <= e
  BY <1>1, LeastNat
<1>3. PICK m \in T : d = n - m
  BY <1>2
<1>4. \A k \in T : n - m <= n - k
  BY <1>2, <1>3
<1> QED
  BY <1>3, <1>4

-----------------------------------------------------------------------------
(* The address of the client, for every configuration and chain.           *)

Outside(cfg, chain) == {i \in DOMAIN chain : chain[i] \notin cfg.trusted}

\* The last address outside the trusted set.
LEMMA LastOutside ==
    ASSUME NEW cfg, NEW S, NEW chain \in Seq(S), Outside(cfg, chain) # {}
    PROVE  LET out == Outside(cfg, chain)
               last == CHOOSE i \in out : \A j \in out : j <= i
           IN  last \in out /\ \A j \in out : j <= last
<1>1. Outside(cfg, chain) \in SUBSET (1..Len(chain)) /\ Len(chain) \in Nat
  BY DEF Outside
<1>2. \E m \in Outside(cfg, chain) : \A k \in Outside(cfg, chain) : k <= m
  BY <1>1, LastPosition
<1> QED
  BY <1>2

\* An entry in front of the chain moves every position by one.
LEMMA InFront ==
    ASSUME NEW S, NEW entry \in S, NEW chain \in Seq(S)
    PROVE  LET long == <<entry>> \o chain IN
           /\ long \in Seq(S) /\ Len(long) = Len(chain) + 1
           /\ long[1] = entry
           /\ \A i \in 1..Len(chain) : long[i + 1] = chain[i]
<1>1. <<entry>> \in Seq(S) /\ Len(<<entry>>) = 1 /\ <<entry>>[1] = entry
  OBVIOUS
<1> QED
  BY <1>1, ConcatProperties

\* ResolveClientAddress: no trusted address, and stable under what is put in front.
LEMMA ClientAddressFacts ==
    ASSUME NEW cfg, cfg.trusted \subseteq Address, NEW peer \in Address, NEW chain \in Seq(Entry)
    PROVE  LET client == ResolveClientAddress(cfg, peer, chain) IN
           /\ client \notin cfg.trusted
           /\ client # NoClient =>
                /\ \A a \in Address : ResolveClientAddress(cfg, peer, <<a>> \o chain) = client
                /\ ResolveClientAddress(cfg, peer, <<Malformed>> \o chain) \in {client, NoClient}
<1> DEFINE client == ResolveClientAddress(cfg, peer, chain)
           out == Outside(cfg, chain)
           last == CHOOSE i \in out : \A j \in out : j <= i
<1>1. CASE peer \notin cfg.trusted
  BY <1>1 DEF ResolveClientAddress
<1>2. CASE peer \in cfg.trusted /\ (out = {} \/ Malformed \in ToSet(chain))
  <2>1. client = NoClient
    BY <1>2 DEF ResolveClientAddress, Outside
  <2> QED
    BY <2>1, GatewayAssumption
<1>3. CASE peer \in cfg.trusted /\ out # {} /\ Malformed \notin ToSet(chain)
  <2>1. client = chain[last]
    BY <1>3 DEF ResolveClientAddress, Outside
  <2>2. last \in out /\ \A j \in out : j <= last
    BY <1>3, LastOutside
  <2>3. client \notin cfg.trusted /\ last \in 1..Len(chain)
    BY <2>1, <2>2 DEF Outside
  <2>4. ASSUME NEW a \in Address
        PROVE  ResolveClientAddress(cfg, peer, <<a>> \o chain) = client
    <3> DEFINE long == <<a>> \o chain
               lout == Outside(cfg, long)
               llast == CHOOSE i \in lout : \A j \in lout : j <= i
    <3>1. a \in Entry
      BY DEF Entry
    <3>2. /\ long \in Seq(Entry) /\ Len(long) = Len(chain) + 1 /\ long[1] = a
          /\ \A i \in 1..Len(chain) : long[i + 1] = chain[i]
      BY <3>1, InFront
    <3> HIDE DEF long
    <3>3. last + 1 \in lout
      BY <2>2, <2>3, <3>2 DEF Outside
    <3>4. llast \in lout /\ \A j \in lout : j <= llast
      BY <3>2, <3>3, LastOutside
    <3>5. llast = last + 1
      <4>1. llast \in 1..(Len(chain) + 1) /\ last + 1 <= llast /\ llast # 1 /\ Len(chain) \in Nat
        BY <3>2, <3>3, <3>4, <2>3 DEF Outside
      <4>2. llast - 1 \in 1..Len(chain)
        BY <4>1
      <4>3. long[llast] = chain[llast - 1]
        BY <3>2, <4>1, <4>2
      <4>4. llast - 1 \in out
        BY <3>4, <4>2, <4>3 DEF Outside
      <4>5. llast - 1 <= last
        BY <2>2, <4>4
      <4> HIDE DEF last, llast
      <4> QED
        BY <4>1, <4>5, <2>3
    <3>6. Malformed \notin ToSet(long)
      <4>1. a # Malformed
        BY GatewayAssumption
      <4>2. ASSUME NEW i \in DOMAIN long, long[i] = Malformed PROVE FALSE
        <5>1. i \in 1..(Len(chain) + 1) /\ i # 1 /\ Len(chain) \in Nat
          BY <3>2, <4>1, <4>2
        <5>2. i - 1 \in 1..Len(chain) /\ long[i] = chain[i - 1]
          BY <3>2, <5>1
        <5> QED
          BY <1>3, <4>2, <5>2 DEF ToSet
      <4> QED
        BY <4>2 DEF ToSet
    <3>7. ResolveClientAddress(cfg, peer, long) = long[llast]
      BY <1>3, <3>3, <3>6 DEF ResolveClientAddress, Outside
    <3>8. long[llast] = client
      BY <2>1, <2>3, <3>2, <3>5
    <3> QED
      BY <3>7, <3>8 DEF long
  <2>5. ResolveClientAddress(cfg, peer, <<Malformed>> \o chain) = NoClient
    <3>1. Malformed \in Entry
      BY DEF Entry
    <3>2. Malformed \in ToSet(<<Malformed>> \o chain)
      <4>1. LET long == <<Malformed>> \o chain IN long[1] = Malformed /\ 1 \in DOMAIN long
        BY <3>1, InFront
      <4> QED
        BY <4>1 DEF ToSet
    <3> QED
      BY <1>3, <3>2 DEF ResolveClientAddress
  <2> QED
    BY <2>3, <2>4, <2>5
<1> QED
  BY <1>1, <1>2, <1>3

-----------------------------------------------------------------------------
(* Routing: the longest prefix decides, so a plain configuration and one   *)
(* with the same fingerprint route alike.                                  *)

Takers(cfg, req) == {i \in Routes(cfg) : Takes(cfg, cfg.routes[i], req)}

\* Two prefixes of one path, equally long, are one.
LEMMA PrefixUnique ==
    ASSUME NEW S, NEW path \in Seq(S), NEW p \in Seq(S), NEW q \in Seq(S),
           IsPrefix(p, path), IsPrefix(q, path), Len(p) = Len(q)
    PROVE  p = q
BY SubSeqFull DEF IsPrefix

\* What Plain leaves of a route that takes a request.
LEMMA PlainTaker ==
    ASSUME NEW cfg \in Configuration, Plain(cfg), NEW req \in Request,
           NEW i \in Takers(cfg, req)
    PROVE  /\ i \in DOMAIN cfg.routes /\ i \in Routes(cfg) /\ cfg.routes[i].host = req.host
           /\ cfg.routes[i].prefix \in Seq(STRING) /\ IsPrefix(cfg.routes[i].prefix, req.path)
           /\ req.path \in Seq(STRING)
BY GatewayAssumption DEF Plain, PlainRoute, Takers, Takes, Routes, NormalizedPrefix

\* The route ResolveCandidates takes: of all that take the request, the one with the
\* longest prefix, and the only one of that length.
LEMMA FirstTaker ==
    ASSUME NEW cfg \in Configuration, Plain(cfg), NEW req \in Request,
           Takers(cfg, req) # {}
    PROVE  \E i \in Takers(cfg, req) :
             /\ \A j \in Takers(cfg, req) \ {i} : Len(cfg.routes[j].prefix) < Len(cfg.routes[i].prefix)
             /\ ResolveCandidates(cfg, req) =
                  [route |-> cfg.routes[i].id, backends |-> Backends(cfg, cfg.routes[i])]
<1> DEFINE T == Takers(cfg, req)
           l(i) == Len(cfg.routes[i].prefix)
           D == {Len(req.path) - l(i) : i \in T}
<1>1. \A i \in T : l(i) \in Nat /\ Len(req.path) \in Nat /\ l(i) <= Len(req.path)
  BY PlainTaker DEF IsPrefix
<1>2. D \in SUBSET Nat /\ D # {}
  <2>1. \A i \in T : Len(req.path) - l(i) \in Nat
    BY <1>1
  <2> QED
    BY <2>1
<1>3. PICK d \in D : \A e \in D : d <= e
  BY <1>2, LeastNat
<1>4. PICK i \in T : d = Len(req.path) - l(i)
  BY <1>3
<1>5. ASSUME NEW j \in T, j # i PROVE l(j) < l(i)
  <2>1. Len(req.path) - l(i) <= Len(req.path) - l(j)
    BY <1>3, <1>4
  <2>2. l(j) <= l(i)
    BY <1>1, <2>1
  <2>3. l(j) # l(i)
    <3>1. SUFFICES ASSUME l(j) = l(i) PROVE FALSE
      OBVIOUS
    <3>2. cfg.routes[j].prefix = cfg.routes[i].prefix
      BY <3>1, PlainTaker, PrefixUnique
    <3>3. cfg.routes[j].host = cfg.routes[i].host /\ i \in Routes(cfg) /\ j \in Routes(cfg)
      BY PlainTaker
    <3> QED
      BY <1>5, <3>2, <3>3 DEF Plain
  <2> QED
    BY <1>1, <2>2, <2>3
<1> DEFINE first == CHOOSE k \in T : \A j \in T \ {k} : Before(cfg, k, j)
<1>6. \A j \in T \ {i} : Before(cfg, i, j)
  BY <1>5 DEF Before
<1>7. first = i
  <2>1. first \in T /\ \A j \in T \ {first} : Before(cfg, first, j)
    BY <1>6
  <2>2. \A j \in T \ {i} : ~Before(cfg, j, i)
    BY <1>1, <1>5 DEF Before
  <2> HIDE DEF first
  <2> QED
    BY <2>1, <2>2
<1>8. ResolveCandidates(cfg, req) =
        [route |-> cfg.routes[first].id, backends |-> Backends(cfg, cfg.routes[first])]
  BY DEF ResolveCandidates, Takers
<1> HIDE DEF first
<1> QED
  BY <1>5, <1>7, <1>8

\* A sequence is empty if it has no elements.
LEMMA ToSetEmpty ==
    ASSUME NEW S, NEW seq \in Seq(S)
    PROVE  seq = <<>> <=> ToSet(seq) = {}
<1>1. seq = <<>> => ToSet(seq) = {}
  BY DEF ToSet
<1>2. seq # <<>> => 1 \in DOMAIN seq
  BY EmptySeq
<1> QED
  BY <1>1, <1>2 DEF ToSet

\* The methods of a route without blanks, from its sorted methods.
LEMMA MethodsFacts ==
    ASSUME NEW methods, \A m \in ToSet(methods) : Trim(m) = m
    PROVE  DOMAIN SortedMethods(methods) = ToSet(methods)
<1>1. DOMAIN SortedMethods(methods) = {Trim(methods[i]) : i \in DOMAIN methods}
  BY DEF SortedMethods, Sorted, BagOfAll, BagToSet, SetToBag
<1>2. ToSet(methods) = {methods[i] : i \in DOMAIN methods}
  BY DEF ToSet
<1>3. \A i \in DOMAIN methods : Trim(methods[i]) = methods[i]
  BY <1>2
<1> QED
  BY <1>1, <1>2, <1>3

\* What the fingerprint keeps of the collections, for plain configurations.
LEMMA SameServices ==
    ASSUME NEW c, NEW d, Plain(c), Plain(d),
           ConfigParityFingerprint(c) = ConfigParityFingerprint(d)
    PROVE  /\ \A s \in DOMAIN c.services :
                 s \in DOMAIN d.services /\ ToSet(c.services[s]) = ToSet(d.services[s])
           /\ \A b \in DOMAIN c.backends :
                 b \in DOMAIN d.backends /\ c.backends[b] = d.backends[b]
<1>1. /\ \A s \in DOMAIN c.services \cup DOMAIN c.backends : Trim(s) = s
      /\ \A s \in DOMAIN d.services \cup DOMAIN d.backends : Trim(s) = s
  BY DEF Plain
<1>2. ASSUME NEW s \in DOMAIN c.services
      PROVE  s \in DOMAIN d.services /\ ToSet(c.services[s]) = ToSet(d.services[s])
  <2>1. {CanonicalService(x, c.services[x]) : x \in DOMAIN c.services}
        = {CanonicalService(x, d.services[x]) : x \in DOMAIN d.services}
    <3>1. /\ DOMAIN ConfigParityFingerprint(c).services
               = {CanonicalService(x, c.services[x]) : x \in DOMAIN c.services}
          /\ DOMAIN ConfigParityFingerprint(d).services
               = {CanonicalService(x, d.services[x]) : x \in DOMAIN d.services}
      BY DEF ConfigParityFingerprint, Sorted, BagOfAll, BagToSet, SetToBag
    <3> QED
      BY <3>1
  <2>2. PICK t \in DOMAIN d.services :
            CanonicalService(s, c.services[s]) = CanonicalService(t, d.services[t])
    BY <2>1
  <2>3. s = t
    BY <1>1, <2>2 DEF CanonicalService
  <2>4. \A x : DOMAIN CanonicalService(s, x).backends = ToSet(x)
    BY DEF CanonicalService, Sorted, BagOfAll, BagToSet, SetToBag, ToSet
  <2>5. ToSet(c.services[s]) = ToSet(d.services[s])
    BY <2>2, <2>3, <2>4
  <2> QED
    BY <2>3, <2>5
<1>3. ASSUME NEW b \in DOMAIN c.backends
      PROVE  b \in DOMAIN d.backends /\ c.backends[b] = d.backends[b]
  <2>1. {CanonicalSwitch(x, c.backends[x]) : x \in DOMAIN c.backends}
        = {CanonicalSwitch(x, d.backends[x]) : x \in DOMAIN d.backends}
    <3>1. /\ DOMAIN ConfigParityFingerprint(c).backends
               = {CanonicalSwitch(x, c.backends[x]) : x \in DOMAIN c.backends}
          /\ DOMAIN ConfigParityFingerprint(d).backends
               = {CanonicalSwitch(x, d.backends[x]) : x \in DOMAIN d.backends}
      BY DEF ConfigParityFingerprint, Sorted, BagOfAll, BagToSet, SetToBag
    <3> QED
      BY <3>1
  <2>2. PICK t \in DOMAIN d.backends :
            CanonicalSwitch(b, c.backends[b]) = CanonicalSwitch(t, d.backends[t])
    BY <2>1
  <2> QED
    BY <1>1, <2>2 DEF CanonicalSwitch
<1> QED
  BY <1>2, <1>3

\* Routes with one canonical form take the same requests, to the same backends.
LEMMA SameRoute ==
    ASSUME NEW c \in Configuration, NEW d \in Configuration,
           Plain(c), Plain(d), Validate(c),
           ConfigParityFingerprint(c) = ConfigParityFingerprint(d),
           NEW i \in DOMAIN c.routes, NEW j \in DOMAIN d.routes,
           CanonicalRoute(c.routes[i]) = CanonicalRoute(d.routes[j]), NEW req \in Request
    PROVE  /\ i \in Takers(c, req) <=> j \in Takers(d, req)
           /\ i \in Takers(c, req) =>
                /\ c.routes[i].id = d.routes[j].id
                /\ c.routes[i].prefix = d.routes[j].prefix
                /\ Backends(c, c.routes[i]) = Backends(d, d.routes[j])
<1> DEFINE r == c.routes[i]
           s == d.routes[j]
<1>a. PlainRoute(r) /\ PlainRoute(s)
  BY DEF Plain
<1>b. /\ Trim(r.id) = r.id /\ Trim(r.service) = r.service /\ Trim(r.prefix) = r.prefix
      /\ Trim(s.id) = s.id /\ Trim(s.service) = s.service /\ Trim(s.prefix) = s.prefix
      /\ HostName(r.host) = r.host /\ HostName(s.host) = s.host
      /\ r.prefix # <<>> /\ s.prefix # <<>>
      /\ \A m \in ToSet(r.methods) : Trim(m) = m
      /\ \A m \in ToSet(s.methods) : Trim(m) = m
  BY <1>a DEF PlainRoute
<1>1. /\ Trim(r.id) = Trim(s.id) /\ Trim(r.service) = Trim(s.service)
      /\ HostName(r.host) = HostName(s.host)
      /\ NormalizedPrefix(Trim(r.prefix)) = NormalizedPrefix(Trim(s.prefix))
      /\ SortedMethods(r.methods) = SortedMethods(s.methods)
      /\ r.enabled = s.enabled /\ r.tls = s.tls
  BY DEF CanonicalRoute
<1>2. /\ r.id = s.id /\ r.service = s.service /\ r.host = s.host /\ r.prefix = s.prefix
      /\ ToSet(r.methods) = ToSet(s.methods)
  <2>1. ToSet(r.methods) = ToSet(s.methods)
    BY <1>b, <1>1, MethodsFacts
  <2> QED
    BY <1>b, <1>1, <2>1 DEF NormalizedPrefix
<1>3. r.methods = <<>> <=> s.methods = <<>>
  BY <1>2, GatewayAssumption, ToSetEmpty
<1>4. \A m : MethodAllowed(r.methods, m) <=> MethodAllowed(s.methods, m)
  BY <1>2, <1>3 DEF MethodAllowed
<1>6. i \in Routes(c) <=> j \in Routes(d)
  BY <1>1 DEF Routes
<1>7. i \in Routes(c) => Backends(c, r) = Backends(d, s)
  <2>1. i \in Routes(c) => /\ r.service \in DOMAIN c.services
                           /\ ToSet(c.services[r.service]) \subseteq DOMAIN c.backends
    BY DEF Validate, ValidRoute
  <2> QED
    BY <1>2, <2>1, SameServices DEF Backends
<1>8. i \in Routes(c) => (Takes(c, r, req) <=> Takes(d, s, req))
  BY <1>1, <1>2, <1>4, <1>7 DEF Takes
<1> QED
  BY <1>1, <1>2, <1>6, <1>7, <1>8 DEF Takers

\* Every route of a configuration has its canonical form in one of the same fingerprint.
LEMMA Counterpart ==
    ASSUME NEW c, NEW d, ConfigParityFingerprint(c) = ConfigParityFingerprint(d),
           NEW i \in DOMAIN c.routes
    PROVE  \E j \in DOMAIN d.routes : CanonicalRoute(c.routes[i]) = CanonicalRoute(d.routes[j])
<1>1. /\ DOMAIN ConfigParityFingerprint(c).routes
           = {CanonicalRoute(c.routes[k]) : k \in DOMAIN c.routes}
      /\ DOMAIN ConfigParityFingerprint(d).routes
           = {CanonicalRoute(d.routes[k]) : k \in DOMAIN d.routes}
  BY DEF ConfigParityFingerprint, Sorted, BagOfAll, BagToSet, SetToBag
<1> QED
  BY <1>1

\* Two plain configurations with one fingerprint, one of them valid, route alike.
LEMMA RoutesAlike ==
    ASSUME NEW c \in Configuration, NEW d \in Configuration,
           Plain(c), Plain(d), Validate(c),
           ConfigParityFingerprint(c) = ConfigParityFingerprint(d), NEW req \in Request
    PROVE  ResolveCandidates(c, req) = ResolveCandidates(d, req)
<1>1. CASE Takers(c, req) = {}
  <2>1. Takers(d, req) = {}
    <3> SUFFICES ASSUME NEW j \in Takers(d, req) PROVE FALSE
      OBVIOUS
    <3>1. PICK i \in DOMAIN c.routes : CanonicalRoute(d.routes[j]) = CanonicalRoute(c.routes[i])
      BY PlainTaker, Counterpart
    <3> QED
      BY <1>1, <3>1, PlainTaker, SameRoute
  <2> QED
    BY <1>1, <2>1 DEF ResolveCandidates, Takers
<1>2. CASE Takers(c, req) # {}
  <2>1. PICK i \in Takers(c, req) :
          /\ \A k \in Takers(c, req) \ {i} : Len(c.routes[k].prefix) < Len(c.routes[i].prefix)
          /\ ResolveCandidates(c, req) =
               [route |-> c.routes[i].id, backends |-> Backends(c, c.routes[i])]
    BY <1>2, FirstTaker
  <2>2. PICK j \in DOMAIN d.routes : CanonicalRoute(c.routes[i]) = CanonicalRoute(d.routes[j])
    BY PlainTaker, Counterpart
  <2>3. /\ j \in Takers(d, req) /\ c.routes[i].id = d.routes[j].id
        /\ c.routes[i].prefix = d.routes[j].prefix
        /\ Backends(c, c.routes[i]) = Backends(d, d.routes[j])
    BY <2>2, PlainTaker, SameRoute
  <2>4. PICK m \in Takers(d, req) :
          /\ \A k \in Takers(d, req) \ {m} : Len(d.routes[k].prefix) < Len(d.routes[m].prefix)
          /\ ResolveCandidates(d, req) =
               [route |-> d.routes[m].id, backends |-> Backends(d, d.routes[m])]
    BY <2>3, FirstTaker
  <2>5. m = j
    <3>1. SUFFICES ASSUME m # j PROVE FALSE
      OBVIOUS
    <3>2. Len(d.routes[j].prefix) < Len(d.routes[m].prefix)
      BY <2>3, <2>4, <3>1
    <3>3. PICK n \in DOMAIN c.routes : CanonicalRoute(d.routes[m]) = CanonicalRoute(c.routes[n])
      BY PlainTaker, Counterpart
    <3>4. n \in Takers(c, req) /\ c.routes[n].prefix = d.routes[m].prefix
      BY <3>3, PlainTaker, SameRoute
    <3>5. Len(c.routes[i].prefix) < Len(c.routes[n].prefix)
      BY <2>3, <3>2, <3>4
    <3>6. n # i
      BY <3>5, <2>1, PlainTaker
    <3>7. Len(c.routes[n].prefix) < Len(c.routes[i].prefix)
      BY <2>1, <3>4, <3>6
    <3>8. Len(c.routes[n].prefix) \in Nat /\ Len(c.routes[i].prefix) \in Nat
      BY <3>4, PlainTaker
    <3> QED
      BY <3>5, <3>7, <3>8
  <2> QED
    BY <2>1, <2>3, <2>4, <2>5
<1> QED
  BY <1>1, <1>2

-----------------------------------------------------------------------------
(* The invariant: what leaves alone the state a part of it is about        *)
(* preserves that part.                                                    *)

LEMMA SameConfig ==
    ASSUME ConfigInv, UNCHANGED <<file, handler, next, pc>>
    PROVE  ConfigInv'
BY DEF ConfigInv, Running, Ended

LEMMA SameTls ==
    ASSUME TlsInv, UNCHANGED <<https, pc, next, handler, tls>>
    PROVE  TlsInv'
BY DEF TlsInv, Running, Ended

LEMMA SameDrain ==
    ASSUME DrainInv, UNCHANGED <<https, pc, listener, active, expired>>
    PROVE  DrainInv'
BY DEF DrainInv, Drained

LEMMA SameReview ==
    ASSUME ReviewInv, UNCHANGED <<reviewed, verified, file, pc>>
    PROVE  ReviewInv'
BY DEF ReviewInv

\* A running process no longer depends on what was verified.
LEMMA RunningReview ==
    ASSUME ReviewInv, pc # "prepare", pc' # "prepare", verified' = verified
    PROVE  ReviewInv'
BY DEF ReviewInv

\* The channel of signals with another signal, or one less.
LEMMA SignalsFacts ==
    ASSUME TypeOK, NEW s \in {"HUP", "TERM"}
    PROVE  /\ Room(signals) => /\ Append(signals, s) \in Seq({"HUP", "TERM"})
                               /\ Len(Append(signals, s)) <= Capacity
           /\ signals # <<>> => /\ Tail(signals) \in Seq({"HUP", "TERM"})
                                /\ Len(Tail(signals)) <= Capacity
<1>1. signals \in Seq({"HUP", "TERM"}) /\ Len(signals) <= Capacity /\ Len(signals) \in Nat
  BY DEF TypeOK
<1>2. Room(signals) => /\ Append(signals, s) \in Seq({"HUP", "TERM"})
                       /\ Len(Append(signals, s)) <= Capacity
  BY <1>1, AppendProperties DEF Room, Capacity
<1>3. signals # <<>> => /\ Tail(signals) \in Seq({"HUP", "TERM"})
                        /\ Len(Tail(signals)) <= Capacity
  BY <1>1, HeadTailProperties, EmptySeq DEF Capacity
<1> QED
  BY <1>2, <1>3

LEMMA ProcessInitInv == Init => ProcessInv
<1> SUFFICES ASSUME Init PROVE ProcessInv
  OBVIOUS
<1>1. TypeOK
  <2>1. verified \in BOOLEAN /\ https \in BOOLEAN /\ owed \in BOOLEAN /\ asked \in BOOLEAN
        /\ broke \in BOOLEAN /\ expired \in BOOLEAN
    BY Zenon DEF Init
  <2>2. signals \in Seq({"HUP", "TERM"}) /\ Len(signals) <= Capacity
    BY EmptySeq DEF Init, Capacity
  <2>3. tls \in Runtime
    BY DEF Configuration, MaybeConfig, Init, Runtime
  <2> QED
    BY <2>1, <2>2, <2>3 DEF Configuration, MaybeConfig, Init, TypeOK, Files
<1>2. ConfigInv /\ TlsInv /\ DrainInv /\ ReviewInv
  BY DEF Init, ConfigInv, TlsInv, DrainInv, ReviewInv, Running, Ended
<1> QED
  BY <1>1, <1>2 DEF ProcessInv

-----------------------------------------------------------------------------
(* The steps of main.                                                      *)

LEMMA VerifyStep ==
    ASSUME ProcessInv, Verify
    PROVE  ProcessInv'
<1>1. TypeOK'
  <2>1. verified' \in BOOLEAN
    BY Zenon DEF Verify
  <2> QED
    BY <2>1 DEF Verify, ProcessInv, TypeOK, disk, config, servers
<1>2. ConfigInv' /\ TlsInv' /\ DrainInv'
  BY SameConfig, SameTls, SameDrain DEF Verify, ProcessInv, disk, config, servers
<1>3. ReviewInv'
  BY DEF Verify, ProcessInv, ReviewInv, disk
<1> QED
  BY <1>1, <1>2, <1>3 DEF ProcessInv

LEMMA BootStep ==
    ASSUME ProcessInv, Boot
    PROVE  ProcessInv'
<1>1. TypeOK'
  <2>1. verified' \in BOOLEAN
    BY Zenon DEF Boot
  <2>2. tls' \in Runtime
    BY DEF Configuration, MaybeConfig, Boot, ProcessInv, TypeOK, Runtime
  <2>3. listener' \subseteq Server
    BY DEF Boot, Server
  <2> QED
    BY <2>1, <2>2, <2>3 DEF Configuration, MaybeConfig, Boot, ProcessInv, TypeOK, disk, Files
<1>2. ConfigInv'
  BY DEF Boot, ConfigInv, disk, Running, Ended
<1>3. TlsInv'
  BY DEF Boot, TlsInv, Running, Ended
<1>4. DrainInv'
  BY DEF Boot, ProcessInv, DrainInv, Server
<1>5. ReviewInv'
  BY DEF Boot, ReviewInv
<1> QED
  BY <1>1, <1>2, <1>3, <1>4, <1>5 DEF ProcessInv

LEMMA LoadStep ==
    ASSUME ProcessInv, Load
    PROVE  ProcessInv'
<1>1. UNCHANGED <<review, disk, handler, tls, asked, servers>> /\ owed' = FALSE /\ pc = "wait"
      /\ signals # <<>> /\ signals' = Tail(signals)
  BY DEF Load
<1>2. \/ file \in Deployed /\ Validate(file) /\ next' = file /\ pc' = "tls"
      \/ UNCHANGED <<next, pc>>
  BY <1>1 DEF Load, ProcessInv, ConfigInv, Running, Ended
<1>3. TypeOK'
  <2>1. owed' \in BOOLEAN
    BY <1>1, Zenon
  <2>2. signals' \in Seq({"HUP", "TERM"}) /\ Len(signals') <= Capacity
    BY <1>1, SignalsFacts DEF ProcessInv
  <2> QED
    BY <1>1, <1>2, <2>1, <2>2 DEF ProcessInv, TypeOK, review, disk, servers
<1>4. ConfigInv' /\ TlsInv'
  BY <1>1, <1>2 DEF ProcessInv, ConfigInv, TlsInv, review, disk, Running, Ended
<1>5. DrainInv'
  BY <1>1, <1>2 DEF ProcessInv, DrainInv, review, servers, Drained
<1>6. ReviewInv'
  BY <1>1, <1>2, RunningReview DEF ProcessInv, review
<1> QED
  BY <1>3, <1>4, <1>5, <1>6 DEF ProcessInv

LEMMA ReloadTlsStep ==
    ASSUME ProcessInv, ReloadTls
    PROVE  ProcessInv'
<1>1. UNCHANGED <<review, disk, handler, signals, owed, asked, servers>> /\ pc = "tls"
  BY DEF ReloadTls
<1>2. \/ pc' = "wait" /\ next' = NoConfig /\ UNCHANGED tls
      \/ /\ pc' = "swap" /\ UNCHANGED next
         /\ https => Loads(next, pairs)
         /\ tls' = IF https THEN [cfg |-> next, pairs |-> pairs] ELSE tls
  BY DEF ReloadTls
<1>3. TypeOK'
  <2>1. tls' \in Runtime
    BY <1>2 DEF Configuration, MaybeConfig, ProcessInv, TypeOK, Runtime
  <2>2. pc' \in {"wait", "swap"} /\ next' \in Deployed \cup {NoConfig}
    BY <1>2 DEF ProcessInv, TypeOK
  <2> QED
    BY <1>1, <2>1, <2>2 DEF ProcessInv, TypeOK, review, disk, servers
<1>4. ConfigInv'
  BY <1>1, <1>2 DEF ProcessInv, ConfigInv, disk, Running, Ended
<1>5. TlsInv'
  BY <1>1, <1>2 DEF ProcessInv, TlsInv, review, Running, Ended
<1>6. DrainInv'
  BY <1>1, <1>2 DEF ProcessInv, DrainInv, review, servers, Drained
<1>7. ReviewInv'
  BY <1>1, <1>2, RunningReview DEF ProcessInv, review
<1> QED
  BY <1>3, <1>4, <1>5, <1>6, <1>7 DEF ProcessInv

LEMMA ReloadHandlerStep ==
    ASSUME ProcessInv, ReloadHandler
    PROVE  ProcessInv'
<1>1. UNCHANGED <<review, disk, tls, signals, owed, asked, servers>> /\ pc = "swap"
      /\ handler' = next /\ next' = NoConfig /\ pc' = "wait"
  BY DEF ReloadHandler
<1>2. TypeOK'
  BY <1>1 DEF ProcessInv, TypeOK, review, disk, servers
<1>3. ConfigInv'
  BY <1>1 DEF ProcessInv, ConfigInv, disk, Running, Ended
<1>4. TlsInv'
  BY <1>1 DEF ProcessInv, TlsInv, review, Running, Ended
<1>5. DrainInv'
  BY <1>1 DEF ProcessInv, DrainInv, review, servers, Drained
<1>6. ReviewInv'
  BY <1>1, RunningReview DEF ProcessInv, review
<1> QED
  BY <1>2, <1>3, <1>4, <1>5, <1>6 DEF ProcessInv

\* A step that takes main on and leaves the configurations alone.
LEMMA MainStep ==
    ASSUME ProcessInv, UNCHANGED <<review, disk, config>>, pc \notin {"prepare", "swap"},
           pc' \in {"drain", "drainTls", "exited", "failed"}, TypeOK', DrainInv',
           pc \notin Ended
    PROVE  ProcessInv'
<1>1. ConfigInv'
  BY DEF ProcessInv, ConfigInv, disk, config, Running, Ended
<1>2. TlsInv'
  BY DEF ProcessInv, TlsInv, review, config, Running, Ended
<1>3. ReviewInv'
  BY RunningReview DEF ProcessInv, review
<1> QED
  BY <1>1, <1>2, <1>3 DEF ProcessInv

LEMMA StopStep ==
    ASSUME ProcessInv, Stop
    PROVE  ProcessInv'
<1>1. signals' \in Seq({"HUP", "TERM"}) /\ Len(signals') <= Capacity
  BY SignalsFacts DEF Stop, ProcessInv
<1>2. TypeOK'
  BY <1>1 DEF Stop, ProcessInv, TypeOK, review, disk, config
<1>3. DrainInv'
  BY DEF Stop, ProcessInv, DrainInv, review
<1> QED
  BY <1>2, <1>3, MainStep DEF Stop, Ended

LEMMA DrainHttpStep ==
    ASSUME ProcessInv, DrainHttp
    PROVE  ProcessInv'
<1>1. pc' \in {"drainTls", "exited"} /\ (pc' = "exited" => ~https)
  BY DEF DrainHttp
<1>2. TypeOK'
  BY <1>1 DEF DrainHttp, ProcessInv, TypeOK, review, disk, config
<1>3. DrainInv'
  BY <1>1 DEF DrainHttp, ProcessInv, DrainInv, review, Drained
<1> QED
  BY <1>1, <1>2, <1>3, MainStep DEF DrainHttp, Ended

LEMMA DrainTlsStep ==
    ASSUME ProcessInv, DrainTls
    PROVE  ProcessInv'
<1>1. TypeOK'
  BY DEF DrainTls, ProcessInv, TypeOK, review, disk, config, servers
<1>2. DrainInv'
  BY DEF DrainTls, ProcessInv, DrainInv, review, servers, Drained
<1> QED
  BY <1>1, <1>2, MainStep DEF DrainTls, Ended

LEMMA ListenerExitStep ==
    ASSUME ProcessInv, ListenerExit
    PROVE  ProcessInv'
<1>1. TypeOK'
  BY DEF ListenerExit, ProcessInv, TypeOK, review, disk, config
<1>2. DrainInv'
  BY DEF ListenerExit, ProcessInv, DrainInv, review
<1> QED
  BY <1>1, <1>2, MainStep DEF ListenerExit, Ended

-----------------------------------------------------------------------------
(* The steps of its environment.                                           *)

\* The shutdown's context expires.
LEMMA DeadlineStep ==
    ASSUME ProcessInv, Deadline
    PROVE  ProcessInv'
<1>1. expired' = TRUE /\ expired' \in BOOLEAN
  BY Zenon DEF Deadline
<1>2. TypeOK'
  BY <1>1 DEF Deadline, ProcessInv, TypeOK, review, disk, config
<1>3. DrainInv'
  BY <1>1 DEF Deadline, ProcessInv, DrainInv, review, Drained
<1>4. ConfigInv' /\ TlsInv' /\ ReviewInv'
  BY SameConfig, SameTls, SameReview DEF Deadline, ProcessInv, review, disk, config
<1> QED
  BY <1>2, <1>3, <1>4 DEF ProcessInv

\* A signal is sent, with room for it or not.
LEMMA SignalStep ==
    ASSUME ProcessInv, Hangup \/ Terminate
    PROVE  ProcessInv'
<1>1. signals' = signals \/ \E s \in {"HUP", "TERM"} : Room(signals) /\ signals' = Append(signals, s)
  BY DEF Hangup, Terminate
<1>2. signals' \in Seq({"HUP", "TERM"}) /\ Len(signals') <= Capacity
  BY <1>1, SignalsFacts DEF ProcessInv, TypeOK
<1>3. owed' \in BOOLEAN /\ asked' \in BOOLEAN
  <2>1. owed \in BOOLEAN /\ asked \in BOOLEAN
    BY DEF ProcessInv, TypeOK
  <2>2. CASE Hangup
    BY <2>1, <2>2, Zenon DEF Hangup
  <2>3. CASE Terminate
    BY <2>1, <2>3, Zenon DEF Terminate
  <2> QED
    BY <2>2, <2>3
<1>4. UNCHANGED <<review, disk, pc, config, servers>>
  BY DEF Hangup, Terminate
<1>5. TypeOK'
  BY <1>2, <1>3, <1>4 DEF ProcessInv, TypeOK, review, disk, config, servers
<1> QED
  BY <1>4, <1>5, SameConfig, SameTls, SameDrain, SameReview
  DEF ProcessInv, review, disk, config, servers

\* Somebody writes the file, or the certificates.
LEMMA DiskStep ==
    ASSUME ProcessInv, Write \/ ReplacePairs
    PROVE  ProcessInv'
<1>1. /\ UNCHANGED <<review, pc, config, signals, owed, asked, servers>> /\ Running
      /\ file' = file \/ file' \in Deployed \cup {Broken}
      /\ pairs' \subseteq Profile
  BY DEF Write, ReplacePairs, ProcessInv, TypeOK
<1>2. TypeOK'
  BY <1>1 DEF Configuration, MaybeConfig, ProcessInv, TypeOK, Files, review, config, servers
<1>3. ConfigInv'
  BY <1>1 DEF ProcessInv, ConfigInv, config, Running, Ended
<1>4. TlsInv' /\ DrainInv'
  BY <1>1, SameTls, SameDrain DEF ProcessInv, review, config, servers
<1>5. ReviewInv'
  BY <1>1, RunningReview DEF ProcessInv, review, Running
<1> QED
  BY <1>2, <1>3, <1>4, <1>5 DEF ProcessInv

\* A request begins or ends, or a listener fails: listeners are only lost.
LEMMA ServersStep ==
    ASSUME ProcessInv,
           ListenerFails \/ \E s \in Server : RequestBegins(s) \/ RequestEnds(s)
    PROVE  ProcessInv'
<1>1. /\ UNCHANGED <<review, disk, pc, config, signals, owed, asked, expired>>
      /\ listener' \subseteq listener /\ active' \subseteq active \cup listener
  BY DEF ListenerFails, RequestBegins, RequestEnds
<1>2. broke' \in BOOLEAN
  <2>1. CASE ListenerFails
    BY <2>1, Zenon DEF ListenerFails
  <2>2. CASE \E s \in Server : RequestBegins(s) \/ RequestEnds(s)
    BY <2>2 DEF RequestBegins, RequestEnds, ProcessInv, TypeOK
  <2> QED
    BY <2>1, <2>2
<1>3. TypeOK'
  BY <1>1, <1>2 DEF ProcessInv, TypeOK, review, disk, config
<1>4. DrainInv'
  BY <1>1 DEF ProcessInv, DrainInv, review, Drained
<1> QED
  BY <1>1, <1>3, <1>4, SameConfig, SameTls, SameReview DEF ProcessInv, review, disk, config

-----------------------------------------------------------------------------
LEMMA ProcessNextInv == ProcessInv /\ [Next]_vars => ProcessInv'
<1> SUFFICES ASSUME ProcessInv, [Next]_vars PROVE ProcessInv'
  OBVIOUS
<1>1. CASE Verify \/ Boot \/ Deadline
  BY <1>1, VerifyStep, BootStep, DeadlineStep
<1>2. CASE Main
  BY <1>2, LoadStep, ReloadTlsStep, ReloadHandlerStep, StopStep, DrainHttpStep, DrainTlsStep,
     ListenerExitStep DEF Main
<1>3. CASE Environment
  BY <1>3, SignalStep, DiskStep, ServersStep DEF Environment
<1>4. CASE UNCHANGED vars
  <2>1. TypeOK'
    BY <1>4 DEF vars, ProcessInv, TypeOK
  <2> QED
    BY <1>4, <2>1, SameConfig, SameTls, SameDrain, SameReview DEF vars, ProcessInv
<1> QED
  BY <1>1, <1>2, <1>3, <1>4 DEF Next

\* The invariant holds in every state of the process.
THEOREM ProcessAlwaysInv == Spec => []ProcessInv
BY ProcessInitInv, ProcessNextInv, PTL DEF Spec

\* Whatever is written to disk between the two steps of a reload, and whichever step is
\* refused, a running process never serves a TLS route without its certificate, nor an
\* older TLS runtime than its handler (main's reload: Reloader.Reload, then handler.Reload).
THEOREM ReloadAlwaysWhole == Spec => []ReloadWhole
<1>1. ProcessInv => ReloadWhole
  <2> SUFFICES ASSUME ProcessInv, https, Running
               PROVE  /\ tls.cfg = handler \/ (pc = "swap" /\ tls.cfg = next)
                      /\ pc # "swap" => \A i \in Routes(handler) :
                            handler.routes[i].tls =>
                              ProfilesForHost(tls.cfg, HostName(handler.routes[i].host))
                                 \cap tls.pairs # {}
    BY DEF ReloadWhole
  <2>1. /\ tls.cfg = IF pc = "swap" THEN next ELSE handler
        /\ Loads(tls.cfg, tls.pairs) /\ Validate(handler)
    BY DEF ProcessInv, TlsInv, ConfigInv
  <2>2. ASSUME pc # "swap", NEW i \in Routes(handler), handler.routes[i].tls
        PROVE  ProfilesForHost(tls.cfg, HostName(handler.routes[i].host)) \cap tls.pairs # {}
    <3>1. /\ handler.routes[i].profile \in DOMAIN handler.profiles
          /\ handler.profiles[handler.routes[i].profile]
      BY <2>1, <2>2 DEF Loads, ValidInventory, TlsRoutes
    <3>2. handler.routes[i].profile \in tls.pairs
      BY <2>1, <2>2, <3>1 DEF Loads
    <3>3. handler.routes[i].profile \in ProfilesForHost(tls.cfg, HostName(handler.routes[i].host))
      BY <2>1, <2>2 DEF ProfilesForHost, TlsRoutes
    <3> QED
      BY <3>2, <3>3
  <2> QED
    BY <2>1, <2>2
<1> QED
  BY <1>1, ProcessAlwaysInv, PTL

\* The process exits on request with a request under way only after its deadline, also
\* while the TLS listener still accepts during the HTTP server's shutdown.
THEOREM AlwaysDrainedOrDeadline == Spec => []DrainedOrDeadline
<1>1. ProcessInv => DrainedOrDeadline
  BY DEF ProcessInv, TypeOK, DrainInv, DrainedOrDeadline, Drained, Server
<1> QED
  BY <1>1, ProcessAlwaysInv, PTL

\* A configuration gateway-migration-verify accepted routes every request as the reviewed
\* one if both are plain, in whatever order their routes and methods are written: for
\* any two configurations and any requests.
THEOREM VerifiedAlwaysRoutesAlike == Spec => []VerifiedRoutesAlike
<1>1. ProcessInv => VerifiedRoutesAlike
  <2> SUFFICES ASSUME ProcessInv, verified, Plain(reviewed), Plain(file), NEW req \in Request
               PROVE  ResolveCandidates(file, req) = ResolveCandidates(reviewed, req)
    BY DEF VerifiedRoutesAlike
  <2>1. /\ file \in Configuration /\ reviewed \in Configuration
        /\ Accepts(file, Manifest(reviewed))
    BY DEF Configuration, MaybeConfig, ProcessInv, ReviewInv
  <2>2. Validate(file) /\ ConfigParityFingerprint(file) = ConfigParityFingerprint(reviewed)
    BY <2>1 DEF Accepts, Matches, Manifest
  <2> QED
    BY <2>1, <2>2, RoutesAlike
<1> QED
  BY <1>1, ProcessAlwaysInv, PTL

\* The client address of a running process is never a trusted proxy's, and cannot be
\* changed by what the client puts in front of the chain, of any length.
THEOREM ClientAddressAlwaysStable == Spec => []ClientAddressStable
<1>1. ProcessInv => ClientAddressStable
  <2> SUFFICES ASSUME ProcessInv, Running, NEW peer \in Address,
                      NEW chain \in BoundedSeq(Entry, MaxChain)
               PROVE  LET client == ResolveClientAddress(handler, peer, chain)
                          Prefixed(entry) == ResolveClientAddress(handler, peer, <<entry>> \o chain)
                      IN  /\ client \notin handler.trusted
                          /\ client # NoClient =>
                               /\ \A a \in Address : Prefixed(a) = client
                               /\ Prefixed(Malformed) \in {client, NoClient}
    BY DEF ClientAddressStable
  <2>1. handler.trusted \subseteq Address
    BY GatewayAssumption DEF Configuration, MaybeConfig, ProcessInv, ConfigInv
  <2>2. chain \in Seq(Entry)
    BY DEF BoundedSeq, SeqOf
  <2> QED
    BY <2>1, <2>2, ClientAddressFacts
<1> QED
  BY <1>1, ProcessAlwaysInv, PTL

=============================================================================
