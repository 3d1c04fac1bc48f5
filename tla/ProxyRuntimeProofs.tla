------------------------- MODULE ProxyRuntimeProofs -------------------------
(* SlotsMatch and NoReplay for any number of requests, backends and slots. *)
EXTENDS ProxyRuntime, FiniteSetTheorems, TLAPS

\* A request that is not served yet, or not any more, is a record of its type.
LEMMA ServedFacts ==
    /\ NotServed \in Serving /\ Served \in Serving
    /\ NotServed.pc = "new" /\ Served.pc = "done"
    /\ NotServed.n = 0 /\ NotServed.sent = 0 /\ Served.n = 0 /\ Served.sent = 0
<1>1. UnknownAll \in [Backend -> Verdict] /\ NoChecks \in [Backend -> Check] /\ <<>> \in Seq(Nat)
  BY DEF UnknownAll, Verdict, NoChecks, Check
<1>2. NotServed \in Serving /\ NotServed.pc = "new" /\ NotServed.n = 0 /\ NotServed.sent = 0
  BY <1>1, ProxyAssumption DEF NotServed, Serving, PC
<1> QED
  BY <1>2 DEF Served, Serving, PC

\* A request that goes through no backends.
LEMMA RestFacts ==
    ASSUME NEW r \in Request, NEW q \in Serving, q.pc \notin Trying, q.n = 0, q.sent = 0
    PROVE  AttemptInv(r, q)
BY ProxyAssumption DEF AttemptInv, Trying

\* At the start nothing is taken and nobody is served.
LEMMA InitInv == Init => ProxyInv
<1> SUFFICES ASSUME Init PROVE ProxyInv
  OBVIOUS
<1>1. UnknownAll \in [Backend -> Verdict] /\ NoChecks \in [Backend -> Check]
  BY DEF UnknownAll, Verdict, NoChecks, Check
<1>2. TypeOK
  <2>1. clearing \in BOOLEAN /\ up \in [Addr -> BOOLEAN]
    BY Zenon DEF Init
  <2>2. slots \in [Addr -> 0..MaxSlots] /\ flips \in 0..MaxFlips
    BY ProxyAssumption DEF Init
  <2>3. req \in [Request -> Serving]
    BY ServedFacts DEF Init
  <2>4. loop \in [pc : {"wait", "check"}, cfg : Config, check : [Backend -> Check]]
    BY <1>1, ProxyAssumption DEF Init
  <2> QED
    BY <1>1, <2>1, <2>2, <2>3, <2>4, ProxyAssumption DEF Init, TypeOK
<1>3. \A a \in Addr : Holders(a) = {}
  BY ServedFacts DEF Init, Holders
<1>4. SlotsMatch
  <2>1. Cardinality({}) = 0
    BY FS_EmptySet
  <2>2. \A a \in Addr : slots[a] = 0 /\ 0 <= MaxSlots
    BY ProxyAssumption DEF Init
  <2> QED
    BY <1>3, <2>1, <2>2 DEF SlotsMatch
<1>5. \A r \in Request : AttemptInv(r, req[r])
  BY ServedFacts, RestFacts DEF Init, Trying
<1> QED
  BY <1>2, <1>4, <1>5 DEF ProxyInv

-----------------------------------------------------------------------------
(* The steps of a request, by what they do to its slot.                    *)

\* What is known of a request in a state that satisfies the invariant.
LEMMA ReqFacts ==
    ASSUME ProxyInv, NEW r \in Request
    PROVE  req \in [Request -> Serving] /\ req[r] \in Serving /\ AttemptInv(r, req[r])
BY DEF ProxyInv, TypeOK

Holding(q) == q.pc \in {"send", "body"}

\* The type of what a step of a request may change besides the request.
Around ==
    /\ config' \in Config
    /\ health' \in [Backend -> Verdict]
    /\ turn' \in Nat
    /\ slots' \in [Addr -> 0..MaxSlots]
    /\ loop' \in [pc : {"wait", "check"}, cfg : Config, check : [Backend -> Check]]
    /\ clearing' \in BOOLEAN
    /\ up' \in [Addr -> BOOLEAN]
    /\ clears' \in Nat /\ flips' \in 0..MaxFlips

\* The holders are finitely many.
LEMMA HoldersFinite ==
    ASSUME NEW a \in Addr
    PROVE  IsFiniteSet(Holders(a)) /\ Cardinality(Holders(a)) \in Nat
<1>1. Holders(a) \in SUBSET Request
  BY DEF Holders
<1>2. IsFiniteSet(Holders(a))
  BY <1>1, ProxyAssumption, FS_Subset
<1> QED
  BY <1>2, FS_CardinalityType

\* A step of one request: types and attempts, whatever happens to its slot.
LEMMA ReqStep ==
    ASSUME ProxyInv, NEW r \in Request, NEW q \in Serving, AttemptInv(r, q),
           req' = [req EXCEPT ![r] = q], Around, SlotsMatch'
    PROVE  ProxyInv'
<1>1. req' \in [Request -> Serving] /\ req'[r] = q /\ \A s \in Request \ {r} : req'[s] = req[s]
  BY ReqFacts
<1>2. TypeOK'
  BY <1>1 DEF Around, TypeOK
<1>3. ASSUME NEW s \in Request PROVE AttemptInv(s, req[s])'
  <2>1. AttemptInv(s, req'[s])
    BY <1>1, ReqFacts
  <2> QED
    BY <2>1 DEF AttemptInv, Positions
<1> QED
  BY <1>2, <1>3 DEF ProxyInv

\* It takes no slot and gives none back.
LEMMA SameSlots ==
    ASSUME ProxyInv, NEW r \in Request, NEW q \in Serving, AttemptInv(r, q),
           req' = [req EXCEPT ![r] = q], Around, slots' = slots,
           \/ ~Holding(q) /\ ~Holding(req[r])
           \/ Holding(q) /\ Holding(req[r]) /\ q.addr = req[r].addr
    PROVE  ProxyInv'
<1>1. req'[r] = q /\ \A s \in Request \ {r} : req'[s] = req[s]
  BY ReqFacts
<1>2. \A a \in Addr : Holders(a)' = Holders(a)
  BY <1>1 DEF Holders, Holding
<1>3. SlotsMatch'
  BY <1>2 DEF ProxyInv, SlotsMatch
<1> QED
  BY <1>3, ReqStep

\* It gives its slot back.
LEMMA SlotReleased ==
    ASSUME ProxyInv, NEW r \in Request, NEW q \in Serving, AttemptInv(r, q),
           req' = [req EXCEPT ![r] = q], Holding(req[r]), ~Holding(q), Release(r),
           UNCHANGED <<config, health, turn, loop, env>>
    PROVE  ProxyInv'
<1> PICK h \in Addr : h = req[r].addr
  BY ReqFacts DEF AttemptInv, Holding
<1>1. req'[r] = q /\ \A s \in Request \ {r} : req'[s] = req[s]
  BY ReqFacts
<1>2. h \in Addr
  OBVIOUS
<1>3. slots \in [Addr -> 0..MaxSlots] /\ MaxSlots \in Nat
  BY ProxyAssumption DEF ProxyInv, TypeOK
<1>4. slots' = [slots EXCEPT ![h] = @ - 1]
  BY DEF Release
<1>5. Holders(h)' = Holders(h) \ {r} /\ r \in Holders(h)
  BY <1>1 DEF Holders, Holding
<1>6. Cardinality(Holders(h) \ {r}) = Cardinality(Holders(h)) - 1
  BY <1>2, <1>5, HoldersFinite, FS_RemoveElement
<1>7. IsFiniteSet(Holders(h) \ {r}) /\ Cardinality(Holders(h) \ {r}) \in Nat
  BY <1>2, HoldersFinite, FS_RemoveElement, FS_CardinalityType
<1>8. \A a \in Addr \ {h} : Holders(a)' = Holders(a)
  BY <1>1 DEF Holders, Holding
<1>9. \A a \in Addr : slots[a] = Cardinality(Holders(a))
  BY DEF ProxyInv, SlotsMatch
<1>10. slots[h] - 1 \in 0..MaxSlots
  BY <1>2, <1>3, <1>6, <1>7, <1>9
<1>11. slots' \in [Addr -> 0..MaxSlots]
  BY <1>3, <1>4, <1>10
<1>12. Around
  BY <1>11 DEF ProxyInv, TypeOK, Around, env
<1>13. ASSUME NEW a \in Addr PROVE slots'[a] = Cardinality(Holders(a)')
  <2>1. CASE a = h
    BY <2>1, <1>2, <1>3, <1>4, <1>5, <1>6, <1>9
  <2>2. CASE a # h
    BY <2>2, <1>3, <1>4, <1>8, <1>9
  <2> QED
    BY <2>1, <2>2
<1>14. SlotsMatch'
  BY <1>11, <1>13, <1>3 DEF SlotsMatch
<1> QED
  BY <1>12, <1>14, ReqStep

\* It takes a slot.
LEMMA SlotTaken ==
    ASSUME ProxyInv, NEW r \in Request, NEW q \in Serving, AttemptInv(r, q), NEW h \in Addr,
           req' = [req EXCEPT ![r] = q], ~Holding(req[r]), Holding(q), q.addr = h,
           slots[h] < MaxSlots, slots' = [slots EXCEPT ![h] = @ + 1],
           UNCHANGED <<config, health, turn, loop, env>>
    PROVE  ProxyInv'
<1>1. req'[r] = q /\ \A s \in Request \ {r} : req'[s] = req[s]
  BY ReqFacts
<1>2. slots \in [Addr -> 0..MaxSlots] /\ MaxSlots \in Nat
  BY ProxyAssumption DEF ProxyInv, TypeOK
<1>3. Holders(h)' = Holders(h) \cup {r} /\ r \notin Holders(h)
  BY <1>1 DEF Holders, Holding
<1>4. Cardinality(Holders(h) \cup {r}) = Cardinality(Holders(h)) + 1
  BY <1>3, HoldersFinite, FS_AddElement
<1>5. \A a \in Addr \ {h} : Holders(a)' = Holders(a)
  BY <1>1 DEF Holders, Holding
<1>6. \A a \in Addr : slots[a] = Cardinality(Holders(a))
  BY DEF ProxyInv, SlotsMatch
<1>7. slots' \in [Addr -> 0..MaxSlots]
  BY <1>2
<1>8. Around
  BY <1>7 DEF ProxyInv, TypeOK, Around, env
<1>9. ASSUME NEW a \in Addr PROVE slots'[a] = Cardinality(Holders(a)')
  <2>1. CASE a = h
    BY <2>1, <1>2, <1>3, <1>4, <1>6
  <2>2. CASE a # h
    BY <2>2, <1>2, <1>5, <1>6
  <2> QED
    BY <2>1, <2>2
<1>10. SlotsMatch'
  BY <1>7, <1>9, <1>2 DEF SlotsMatch
<1> QED
  BY <1>8, <1>10, ReqStep

\* A step that leaves requests and slots alone.
LEMMA ElsewhereStep ==
    ASSUME ProxyInv, UNCHANGED <<req, slots>>, Around
    PROVE  ProxyInv'
<1>1. TypeOK'
  BY DEF ProxyInv, TypeOK, Around
<1>2. SlotsMatch'
  BY DEF ProxyInv, SlotsMatch, Holders
<1>3. \A r \in Request : AttemptInv(r, req[r])'
  BY DEF ProxyInv, AttemptInv, Positions
<1> QED
  BY <1>1, <1>2, <1>3 DEF ProxyInv

\* A step of a request that leaves all else alone.
LEMMA AroundStutter ==
    ASSUME ProxyInv, UNCHANGED <<config, health, turn, slots, loop, env>>
    PROVE  Around
BY DEF ProxyInv, TypeOK, Around, env

\* A step of a request before it goes through its backends.
LEMMA EarlyStep ==
    ASSUME ProxyInv, NEW r \in Request, NEW q \in Serving, req[r].pc \notin Trying,
           q.pc \notin Trying, q.n = req[r].n, q.sent = req[r].sent,
           req' = [req EXCEPT ![r] = q], Around, slots' = slots
    PROVE  ProxyInv'
<1>1. q.n = 0 /\ q.sent = 0
  BY ReqFacts DEF AttemptInv
<1>2. AttemptInv(r, q)
  BY <1>1, RestFacts
<1>3. ~Holding(q) /\ ~Holding(req[r])
  BY DEF Trying, Holding
<1> QED
  BY <1>2, <1>3, SameSlots

\* A request that ends without a slot.
LEMMA EndStep ==
    ASSUME ProxyInv, NEW r \in Request, ~Holding(req[r]), req' = [req EXCEPT ![r] = Served],
           UNCHANGED <<config, health, turn, slots, loop, env>>
    PROVE  ProxyInv'
<1>1. PICK q \in Serving : q = Served
  BY ServedFacts
<1>2. AttemptInv(r, q) /\ ~Holding(q)
  BY <1>1, ServedFacts, RestFacts DEF Trying, Holding
<1> QED
  BY <1>1, <1>2, AroundStutter, SameSlots DEF env

-----------------------------------------------------------------------------
(* refreshBackends keeps to its types.                                     *)

\* The checks that are started, and the verdicts they leave.
LEMMA RefreshFacts ==
    ASSUME ProxyInv
    PROVE  /\ \A S : Started(S) \in [Backend -> Check]
           /\ \A c \in [Backend -> Check] : Stored(c) \in [Backend -> Verdict]
BY DEF ProxyInv, TypeOK, Started, Stored, Check, Verdict

-----------------------------------------------------------------------------
(* ServeHTTP up to the choice of the backends, one step after the other.   *)

LEMMA RejectInv == ASSUME ProxyInv, NEW r \in Request, Reject(r) PROVE ProxyInv'
BY EndStep DEF Reject, Holding

LEMMA RouteInv == ASSUME ProxyInv, NEW r \in Request, Route(r) PROVE ProxyInv'
<1>1. PICK q \in Serving : q = [req[r] EXCEPT !.pc = "look", !.cfg = config]
  BY ReqFacts DEF ProxyInv, TypeOK, Serving, PC
<1>2. q.pc = "look" /\ q.n = req[r].n /\ q.sent = req[r].sent
  BY <1>1, ReqFacts DEF Serving
<1>3. req' = [req EXCEPT ![r] = q]
  BY <1>1, ReqFacts DEF Route, Serving
<1> QED
  BY <1>2, <1>3, EarlyStep, AroundStutter DEF Route, Trying

LEMMA LookInv == ASSUME ProxyInv, NEW r \in Request, Look(r) PROVE ProxyInv'
<1> PICK pc \in {"choose", "check"} : pc = IF Unknown(r) = {} THEN "choose" ELSE "check"
  OBVIOUS
<1> PICK checks \in [Backend -> Check] : checks = Started(Unknown(r))
  BY RefreshFacts
<1>1. PICK q \in Serving : q = [req[r] EXCEPT !.known = health, !.era = clears,
                                             !.check = checks, !.pc = pc]
  <2>1. health \in [Backend -> Verdict] /\ clears \in Nat
    BY DEF ProxyInv, TypeOK
  <2>2. pc \in PC
    BY DEF PC
  <2> QED
    BY <2>1, <2>2, ReqFacts DEF Serving
<1>2. q.pc \in {"choose", "check"} /\ q.n = req[r].n /\ q.sent = req[r].sent
  BY <1>1, ReqFacts DEF Serving
<1>3. req' = [req EXCEPT ![r] = q]
  BY <1>1, ReqFacts DEF Look, Serving
<1> QED
  BY <1>2, <1>3, EarlyStep, AroundStutter DEF Look, Trying

LEMMA CheckUnknownInv ==
    ASSUME ProxyInv, NEW r \in Request, NEW b \in Backend, CheckUnknown(r, b)
    PROVE  ProxyInv'
<1> PICK result \in {"up", "down"} : result = Checked(req[r].cfg, b, req[r].gone)
  BY DEF Checked
<1>1. req' = [req EXCEPT ![r].check[b] = result]
  BY DEF CheckUnknown
<1>2. req[r].check \in [Backend -> Check]
  BY ReqFacts DEF Serving
<1>3. PICK q \in Serving : q = [req[r] EXCEPT !.check = [@ EXCEPT ![b] = result]]
  BY <1>2, ReqFacts DEF Serving, Check
<1>4. q.pc = req[r].pc /\ q.n = req[r].n /\ q.sent = req[r].sent
  BY <1>3, ReqFacts DEF Serving
<1>5. req' = [req EXCEPT ![r] = q]
  BY <1>1, <1>3, ReqFacts DEF Serving
<1> QED
  BY <1>4, <1>5, EarlyStep, AroundStutter DEF CheckUnknown, Trying

LEMMA StoreUnknownInv == ASSUME ProxyInv, NEW r \in Request, StoreUnknown(r) PROVE ProxyInv'
<1>1. PICK q \in Serving : q = [req[r] EXCEPT !.pc = "reread"]
  BY ReqFacts DEF Serving, PC
<1>2. q.pc = "reread" /\ q.n = req[r].n /\ q.sent = req[r].sent
  BY <1>1, ReqFacts DEF Serving
<1>3. req' = [req EXCEPT ![r] = q]
  BY <1>1, ReqFacts DEF StoreUnknown, Serving
<1>4. req[r].check \in [Backend -> Check]
  BY ReqFacts DEF Serving
<1>5. Around
  BY <1>4, RefreshFacts DEF StoreUnknown, ProxyInv, TypeOK, Around, env
<1> QED
  BY <1>2, <1>3, <1>5, EarlyStep DEF StoreUnknown, Trying

LEMMA RereadInv == ASSUME ProxyInv, NEW r \in Request, Reread(r) PROVE ProxyInv'
<1> DEFINE k == [b \in Backend |-> IF req[r].check[b] = "none" THEN req[r].known[b] ELSE health[b]]
<1>1. k \in [Backend -> Verdict] /\ NoChecks \in [Backend -> Check]
  BY ReqFacts DEF ProxyInv, TypeOK, Serving, NoChecks, Check
<1>2. PICK q \in Serving : q = [req[r] EXCEPT !.pc = "choose", !.check = NoChecks, !.known = k]
  BY <1>1, ReqFacts DEF Serving, PC
<1>3. q.pc = "choose" /\ q.n = req[r].n /\ q.sent = req[r].sent
  BY <1>2, ReqFacts DEF Serving
<1>4. req' = [req EXCEPT ![r] = q]
  BY <1>2, ReqFacts DEF Reread, Serving
<1> QED
  BY <1>3, <1>4, EarlyStep, AroundStutter DEF Reread, Trying

-----------------------------------------------------------------------------
(* The choice of the backends.                                             *)

\* rotateCandidates gives a sequence of positions of the pool, none left out.
LEMMA RotateFacts ==
    ASSUME ProxyInv, NEW r \in Request, Healthy(r) # {},
           NEW order \in [1..Cardinality(Healthy(r)) -> Healthy(r)]
    PROVE  /\ order \in Seq(Positions(req[r].cfg)) /\ order \in Seq(Nat)
           /\ 1 \in 1..Len(order)
           /\ Cardinality(Healthy(r)) \in Nat
<1>1. Healthy(r) \in SUBSET Positions(req[r].cfg)
  BY DEF Healthy
<1>2. Len(Pool[req[r].cfg]) \in Nat
  BY ProxyAssumption, ReqFacts DEF Serving
<1>3. IsFiniteSet(Positions(req[r].cfg)) /\ Positions(req[r].cfg) \in SUBSET Nat
  BY <1>2, FS_Interval DEF Positions
<1>4. IsFiniteSet(Healthy(r))
  BY <1>1, <1>3, FS_Subset
<1>5. Cardinality(Healthy(r)) \in Nat /\ Cardinality(Healthy(r)) # 0
  BY <1>4, FS_CardinalityType, FS_EmptySet
<1> QED
  BY <1>1, <1>3, <1>5

LEMMA ChooseInv == ASSUME ProxyInv, NEW r \in Request, Choose(r) PROVE ProxyInv'
<1>1. CASE NoneHealthy(r)
  BY <1>1, EndStep DEF Choose, NoneHealthy, Holding
<1>2. CASE Rotate(r)
  <2>1. PICK order \in [1..Cardinality(Healthy(r)) -> Healthy(r)] :
           req' = [req EXCEPT ![r].pc = "slot", ![r].order = order, ![r].n = 1,
                              ![r].known = UnknownAll, ![r].era = 0]
    BY <1>2 DEF Rotate
  <2>2. /\ order \in Seq(Positions(req[r].cfg)) /\ order \in Seq(Nat) /\ 1 \in 1..Len(order)
        /\ Cardinality(Healthy(r)) \in Nat
    BY <1>2, RotateFacts DEF Rotate
  <2>3. UnknownAll \in [Backend -> Verdict]
    BY DEF UnknownAll, Verdict
  <2>4. PICK q \in Serving : q = [req[r] EXCEPT !.pc = "slot", !.order = order, !.n = 1,
                                               !.known = UnknownAll, !.era = 0]
    BY <2>2, <2>3, ReqFacts DEF Serving, PC
  <2>5. /\ q.pc = "slot" /\ q.order = order /\ q.n = 1
        /\ q.sent = req[r].sent /\ q.cfg = req[r].cfg
    BY <2>4, ReqFacts DEF Serving
  <2>6. req' = [req EXCEPT ![r] = q]
    BY <2>1, <2>4, ReqFacts DEF Serving
  <2>7. req[r].sent = 0
    BY ReqFacts DEF Choose, AttemptInv, Trying
  <2>8. AttemptInv(r, q)
    BY <2>2, <2>5, <2>7, ProxyAssumption DEF AttemptInv, Trying
  <2>9. turn' \in Nat
    BY <1>2 DEF Rotate, ProxyInv, TypeOK
  <2>10. Around
    BY <2>9 DEF Choose, ProxyInv, TypeOK, Around, env
  <2>11. ~Holding(q) /\ ~Holding(req[r])
    BY <2>5 DEF Choose, Holding
  <2> QED
    BY <2>6, <2>8, <2>10, <2>11, SameSlots DEF Choose
<1> QED
  BY <1>1, <1>2 DEF Choose

-----------------------------------------------------------------------------
(* failoverTransport over backendLimitedTransport.                         *)

\* The backend of the attempt a request is at.
LEMMA TargetFacts ==
    ASSUME ProxyInv, NEW r \in Request, req[r].pc \in Trying
    PROVE  Target(r) \in Addr
<1>1. req[r].order[req[r].n] \in Positions(req[r].cfg)
  BY ReqFacts DEF AttemptInv, Serving
<1>2. Pool[req[r].cfg] \in Seq([id : Backend, addr : Addr])
  BY ProxyAssumption, ReqFacts DEF Serving
<1>3. ASSUME NEW S, NEW p \in Seq(S), NEW i \in 1..Len(p) PROVE p[i] \in S
  OBVIOUS
<1>4. Pool[req[r].cfg][req[r].order[req[r].n]] \in [id : Backend, addr : Addr]
  BY <1>1, <1>2, <1>3, Zenon DEF Positions
<1> QED
  BY <1>4 DEF Target

\* The loop goes on: the next attempt of a request that may be sent again.
LEMMA NextAttemptFacts ==
    ASSUME ProxyInv, NEW r \in Request, req[r].pc \in Trying, MayRetry(r), NextAttempt(r)
    PROVE  \E q \in Serving : AttemptInv(r, q) /\ ~Holding(q) /\ req' = [req EXCEPT ![r] = q]
<1>0. PICK m \in Nat : m = req[r].n + 1
  BY ReqFacts DEF Serving
<1>1. PICK q \in Serving : q = [req[r] EXCEPT !.pc = "slot", !.n = m, !.addr = NoAddr]
  BY ReqFacts DEF Serving, PC
<1>2. /\ q.pc = "slot" /\ q.n = req[r].n + 1 /\ q.order = req[r].order
      /\ q.sent = req[r].sent /\ q.cfg = req[r].cfg
  BY <1>0, <1>1, ReqFacts DEF Serving
<1>3. req' = [req EXCEPT ![r] = q]
  BY <1>0, <1>1, ReqFacts DEF NextAttempt, Serving
<1>4. req[r].n \in Nat /\ req[r].sent \in Nat /\ MaxAttempts \in Nat
  BY ReqFacts, ProxyAssumption DEF Serving
<1>5. AttemptInv(r, q)
  BY <1>2, <1>4, ReqFacts DEF AttemptInv, Trying, MayRetry
<1>6. ~Holding(q)
  BY <1>2 DEF Holding
<1> QED
  BY <1>3, <1>5, <1>6

\* The request ends.
LEMMA AnsweredFacts ==
    ASSUME ProxyInv, NEW r \in Request, Answered(r)
    PROVE  \E q \in Serving : AttemptInv(r, q) /\ ~Holding(q) /\ req' = [req EXCEPT ![r] = q]
<1>1. AttemptInv(r, Served) /\ ~Holding(Served)
  BY ServedFacts, RestFacts DEF Trying, Holding
<1> QED
  BY <1>1, ServedFacts DEF Answered

LEMMA AcquireInv == ASSUME ProxyInv, NEW r \in Request, Acquire(r) PROVE ProxyInv'
<1>1. PICK h \in Addr : h = Target(r)
  BY TargetFacts DEF Acquire, Trying
<1>0. PICK m \in Nat : m = req[r].sent + 1
  BY ReqFacts DEF Serving
<1>2. PICK q \in Serving : q = [req[r] EXCEPT !.pc = "send", !.addr = h, !.sent = m]
  BY ReqFacts DEF Serving, PC
<1>3. /\ q.pc = "send" /\ q.addr = h /\ q.sent = req[r].sent + 1
      /\ q.n = req[r].n /\ q.order = req[r].order /\ q.cfg = req[r].cfg
  BY <1>0, <1>2, ReqFacts DEF Serving
<1>4. req' = [req EXCEPT ![r] = q]
  BY <1>0, <1>1, <1>2, ReqFacts DEF Acquire, Serving
<1>5. req[r].n \in Nat /\ req[r].sent \in Nat
  BY ReqFacts DEF Serving
<1>6. AttemptInv(r, q)
  BY <1>3, <1>5, ReqFacts DEF Acquire, AttemptInv, Trying
<1>7. ~Holding(req[r]) /\ Holding(q)
  BY <1>3 DEF Acquire, Holding
<1> QED
  BY <1>1, <1>3, <1>4, <1>6, <1>7, SlotTaken DEF Acquire

LEMMA GiveUpInv == ASSUME ProxyInv, NEW r \in Request, GiveUp(r) PROVE ProxyInv'
<1>1. PICK q \in Serving : AttemptInv(r, q) /\ ~Holding(q) /\ req' = [req EXCEPT ![r] = q]
  BY NextAttemptFacts, AnsweredFacts DEF GiveUp, Trying
<1>2. ~Holding(req[r])
  BY DEF GiveUp, Holding
<1> QED
  BY <1>1, <1>2, AroundStutter, SameSlots DEF GiveUp

LEMMA SendFailsInv == ASSUME ProxyInv, NEW r \in Request, SendFails(r) PROVE ProxyInv'
<1>1. PICK q \in Serving : AttemptInv(r, q) /\ ~Holding(q) /\ req' = [req EXCEPT ![r] = q]
  BY NextAttemptFacts, AnsweredFacts DEF SendFails, Trying
<1> QED
  BY <1>1, SlotReleased DEF SendFails, Holding

LEMMA UnavailableInv == ASSUME ProxyInv, NEW r \in Request, Unavailable(r) PROVE ProxyInv'
<1>1. PICK q \in Serving : AttemptInv(r, q) /\ ~Holding(q) /\ req' = [req EXCEPT ![r] = q]
  BY NextAttemptFacts DEF Unavailable, Trying
<1> QED
  BY <1>1, SlotReleased DEF Unavailable, Holding

LEMMA CloseBodyInv == ASSUME ProxyInv, NEW r \in Request, CloseBody(r) PROVE ProxyInv'
<1>1. PICK q \in Serving : AttemptInv(r, q) /\ ~Holding(q) /\ req' = [req EXCEPT ![r] = q]
  BY AnsweredFacts DEF CloseBody
<1> QED
  BY <1>1, SlotReleased DEF CloseBody, Holding

LEMMA RespondInv == ASSUME ProxyInv, NEW r \in Request, Respond(r) PROVE ProxyInv'
<1>1. PICK q \in Serving : q = [req[r] EXCEPT !.pc = "body"]
  BY ReqFacts DEF Serving, PC
<1>2. /\ q.pc = "body" /\ q.addr = req[r].addr /\ q.sent = req[r].sent
      /\ q.n = req[r].n /\ q.order = req[r].order /\ q.cfg = req[r].cfg
  BY <1>1, ReqFacts DEF Serving
<1>3. req' = [req EXCEPT ![r] = q]
  BY <1>1, ReqFacts DEF Respond, Serving
<1>4. AttemptInv(r, q)
  BY <1>2, ReqFacts DEF Respond, AttemptInv, Trying
<1>5. Holding(q) /\ Holding(req[r])
  BY <1>2 DEF Respond, Holding
<1> QED
  BY <1>2, <1>3, <1>4, <1>5, AroundStutter, SameSlots DEF Respond

LEMMA LeaveInv == ASSUME ProxyInv, NEW r \in Request, Leave(r) PROVE ProxyInv'
<1>1. PICK q \in Serving : q = [req[r] EXCEPT !.gone = TRUE]
  BY ReqFacts DEF Serving
<1>2. /\ q.pc = req[r].pc /\ q.addr = req[r].addr /\ q.sent = req[r].sent
      /\ q.n = req[r].n /\ q.order = req[r].order /\ q.cfg = req[r].cfg
  BY <1>1, ReqFacts DEF Serving
<1>3. req' = [req EXCEPT ![r] = q]
  BY <1>1, ReqFacts DEF Leave, Serving
<1>4. AttemptInv(r, q)
  BY <1>2, ReqFacts DEF AttemptInv
<1>5. Holding(q) <=> Holding(req[r])
  BY <1>2 DEF Holding
<1> QED
  BY <1>2, <1>3, <1>4, <1>5, AroundStutter, SameSlots DEF Leave

-----------------------------------------------------------------------------
(* The health loop, the reload and the servers.                            *)

LEMMA TickInv == ASSUME ProxyInv, Tick PROVE ProxyInv'
<1>1. loop' \in [pc : {"wait", "check"}, cfg : Config, check : [Backend -> Check]]
  BY RefreshFacts DEF Tick, ProxyInv, TypeOK
<1>2. Around
  BY <1>1 DEF Tick, ProxyInv, TypeOK, Around, env
<1> QED
  BY <1>2, ElsewhereStep DEF Tick

LEMMA LoopCheckInv == ASSUME ProxyInv, NEW b \in Backend, LoopCheck(b) PROVE ProxyInv'
<1> PICK result \in {"up", "down"} : result = Checked(loop.cfg, b, FALSE)
  BY DEF Checked
<1>1. loop' = [loop EXCEPT !.check[b] = result]
  BY DEF LoopCheck
<1>2. loop' \in [pc : {"wait", "check"}, cfg : Config, check : [Backend -> Check]]
  BY <1>1 DEF ProxyInv, TypeOK, Check
<1>3. Around
  BY <1>2 DEF LoopCheck, ProxyInv, TypeOK, Around, env
<1> QED
  BY <1>3, ElsewhereStep DEF LoopCheck

LEMMA LoopStoreInv == ASSUME ProxyInv, LoopStore PROVE ProxyInv'
<1>1. loop \in [pc : {"wait", "check"}, cfg : Config, check : [Backend -> Check]]
  BY DEF ProxyInv, TypeOK
<1>2. health' \in [Backend -> Verdict]
  BY <1>1, RefreshFacts DEF LoopStore
<1>3. NoChecks \in [Backend -> Check]
  BY DEF NoChecks, Check
<1>4. loop' \in [pc : {"wait", "check"}, cfg : Config, check : [Backend -> Check]]
  BY <1>1, <1>3, ProxyAssumption DEF LoopStore
<1>5. Around
  BY <1>2, <1>4 DEF LoopStore, ProxyInv, TypeOK, Around, env
<1> QED
  BY <1>5, ElsewhereStep DEF LoopStore

LEMMA StoreRuntimeStateInv ==
    ASSUME ProxyInv, NEW c \in Config, StoreRuntimeState(c) PROVE ProxyInv'
<1>1. clearing' \in BOOLEAN
  BY Zenon DEF StoreRuntimeState
<1>2. Around
  BY <1>1 DEF StoreRuntimeState, ProxyInv, TypeOK, Around
<1> QED
  BY <1>2, ElsewhereStep DEF StoreRuntimeState

LEMMA ClearHealthInv == ASSUME ProxyInv, ClearHealth PROVE ProxyInv'
<1>1. clearing' \in BOOLEAN
  BY Zenon DEF ClearHealth
<1>2. health' \in [Backend -> Verdict] /\ clears' \in Nat
  BY DEF ClearHealth, ProxyInv, TypeOK, UnknownAll, Verdict
<1>3. Around
  BY <1>1, <1>2 DEF ClearHealth, ProxyInv, TypeOK, Around
<1> QED
  BY <1>3, ElsewhereStep DEF ClearHealth

LEMMA FlipInv == ASSUME ProxyInv, NEW a \in Addr, Flip(a) PROVE ProxyInv'
<1>1. up' \in [Addr -> BOOLEAN] /\ flips' \in 0..MaxFlips
  BY ProxyAssumption DEF Flip, ProxyInv, TypeOK
<1>2. Around
  BY <1>1 DEF Flip, ProxyInv, TypeOK, Around
<1> QED
  BY <1>2, ElsewhereStep DEF Flip

-----------------------------------------------------------------------------
\* ProxyInv is inductive: one case for each action.
LEMMA NextInv == ProxyInv /\ [Next]_vars => ProxyInv'
<1> SUFFICES ASSUME ProxyInv, [Next]_vars PROVE ProxyInv'
  OBVIOUS
<1>1. ASSUME NEW r \in Request, Serve(r) PROVE ProxyInv'
  BY <1>1, RejectInv, RouteInv, LookInv, CheckUnknownInv, StoreUnknownInv, RereadInv, ChooseInv,
     AcquireInv, GiveUpInv, SendFailsInv, UnavailableInv, RespondInv, CloseBodyInv DEF Serve
<1>2. CASE Loop
  BY <1>2, TickInv, LoopCheckInv, LoopStoreInv DEF Loop
<1>3. CASE UNCHANGED vars
  <2>1. Around /\ UNCHANGED <<req, slots>>
    BY <1>3 DEF vars, ProxyInv, TypeOK, Around
  <2> QED
    BY <2>1, ElsewhereStep
<1> QED
  BY <1>1, <1>2, <1>3, LeaveInv, StoreRuntimeStateInv, ClearHealthInv, FlipInv DEF Next

\* failoverTransport over backendLimitedTransport, for any number of requests and
\* slots: the slots are those of the attempts under way, and a request has been
\* sent at most once for each attempt it has begun.
THEOREM ProxyAlwaysInv == Spec => []ProxyInv
BY InitInv, NextInv, PTL DEF Spec

\* backendLimitedTransport: for any number of requests, backends and slots, and any
\* failures, retries and reloads, an authority's slots are exactly those of the
\* requests that hold one, and never more than the limit.
THEOREM SlotsAlwaysMatch == Spec => []SlotsMatch
<1>1. ProxyInv => SlotsMatch
  BY DEF ProxyInv
<1> QED
  BY <1>1, ProxyAlwaysInv, PTL

\* failoverTransport: a request that is not retryable reaches a backend at most
\* once, and any request at most maxBackendAttempts times.
THEOREM NeverReplayed == Spec => []NoReplay
<1>1. ASSUME ProxyInv, NEW r \in Request
      PROVE  (r \notin Retryable => req[r].sent <= 1) /\ req[r].sent <= MaxAttempts
  <2>1. req[r].n \in Nat /\ req[r].sent \in Nat /\ MaxAttempts \in Nat
    BY <1>1, ReqFacts, ProxyAssumption DEF Serving
  <2> QED
    BY <1>1, <2>1, ReqFacts DEF AttemptInv
<1>2. ProxyInv => NoReplay
  BY <1>1 DEF NoReplay
<1> QED
  BY <1>2, ProxyAlwaysInv, PTL

-----------------------------------------------------------------------------
(* A request is refused only on a verdict against each of its backends.    *)

LEMMA PooledFacts == ASSUME NEW c \in Config PROVE Pooled(c) \subseteq Backend
<1>1. ASSUME NEW S, NEW p \in Seq(S), NEW i \in 1..Len(p) PROVE p[i] \in S
  OBVIOUS
<1>2. Pool[c] \in Seq([id : Backend, addr : Addr])
  BY ProxyAssumption
<1>3. ASSUME NEW i \in Positions(c) PROVE Pool[c][i] \in [id : Backend, addr : Addr]
  BY <1>1, <1>2, Zenon DEF Positions
<1> QED
  BY <1>3 DEF Pooled

Deciding == {"check", "reread", "choose"}

\* Verdicts are not taken away.
Grows == \A b \in Backend : health[b] # "unknown" => health'[b] # "unknown"

LEMMA StoredGrows ==
    ASSUME NEW check \in [Backend -> Check], health' = Stored(check)
    PROVE  Grows
BY DEF Grows, Stored, Check

LEMMA SeenStep ==
    ASSUME ProxyInv, VerdictInv, NEW r \in Request, NEW q \in Serving,
           req' = [req EXCEPT ![r] = q], SeenInv(q)', clears' = clears, Grows
    PROVE  VerdictInv'
<1>1. ASSUME NEW s \in Request PROVE SeenInv(req[s])'
  <2>1. CASE s = r
    <3>1. req'[s] = q
      BY <2>1, ReqFacts
    <3> QED
      BY <3>1 DEF SeenInv, Pooled, Positions
  <2>2. CASE s # r
    <3>1. req'[s] = req[s] /\ SeenInv(req[s])
      BY <2>2, ReqFacts DEF VerdictInv
    <3> QED
      BY <3>1 DEF SeenInv, Grows, Pooled, Positions
  <2> QED
    BY <2>1, <2>2
<1> QED
  BY <1>1 DEF VerdictInv

\* A request that is not deciding goes by no verdicts.
LEMMA ApartStep ==
    ASSUME ProxyInv, VerdictInv, NEW r \in Request, NEW q \in Serving,
           req' = [req EXCEPT ![r] = q], q.pc \notin Deciding, q.era \in {0, req[r].era},
           UNCHANGED <<health, clears>>
    PROVE  VerdictInv'
<1>1. clears \in Nat /\ req[r].era <= clears
  BY DEF ProxyInv, TypeOK, VerdictInv, SeenInv
<1>2. SeenInv(q)'
  BY <1>1 DEF SeenInv, Deciding
<1> QED
  BY <1>2, SeenStep DEF Grows

\* The request ends.
LEMMA EndSeen ==
    ASSUME ProxyInv, VerdictInv, NEW r \in Request, req' = [req EXCEPT ![r] = Served],
           UNCHANGED <<health, clears>>
    PROVE  VerdictInv'
<1>1. PICK q \in Serving : q = Served
  BY ServedFacts
<1>2. Served.era = 0
  BY ServedFacts DEF Served, NotServed, Serving
<1>3. q.pc \notin Deciding /\ q.era = 0
  BY <1>1, <1>2, ServedFacts DEF Deciding
<1> QED
  BY <1>1, <1>3, ApartStep

LEMMA RouteSeen == ASSUME ProxyInv, VerdictInv, NEW r \in Request, Route(r) PROVE VerdictInv'
<1>1. PICK q \in Serving : q = [req[r] EXCEPT !.pc = "look", !.cfg = config]
  BY ReqFacts DEF ProxyInv, TypeOK, Serving, PC
<1>2. q.pc = "look" /\ q.era = req[r].era
  BY <1>1, ReqFacts DEF Serving
<1>3. req' = [req EXCEPT ![r] = q]
  BY <1>1, ReqFacts DEF Route, Serving
<1> QED
  BY <1>2, <1>3, ApartStep DEF Route, Deciding, env

LEMMA LookSeen == ASSUME ProxyInv, VerdictInv, NEW r \in Request, Look(r) PROVE VerdictInv'
<1> PICK pc \in {"choose", "check"} : pc = IF Unknown(r) = {} THEN "choose" ELSE "check"
  OBVIOUS
<1> PICK checks \in [Backend -> Check] : checks = Started(Unknown(r))
  BY RefreshFacts
<1>1. health \in [Backend -> Verdict] /\ clears \in Nat /\ UNCHANGED <<health, clears>>
  BY DEF ProxyInv, TypeOK, Look, env
<1>2. PICK q \in Serving : q = [req[r] EXCEPT !.known = health, !.era = clears,
                                             !.check = checks, !.pc = pc]
  <2>1. pc \in PC
    BY DEF PC
  <2> QED
    BY <1>1, <2>1, ReqFacts DEF Serving
<1>3. q.pc = pc /\ q.known = health /\ q.era = clears /\ q.check = checks /\ q.cfg = req[r].cfg
  BY <1>2, ReqFacts DEF Serving
<1>4. req' = [req EXCEPT ![r] = q]
  BY <1>2, ReqFacts DEF Look, Serving
<1>5. Pooled(q.cfg) \subseteq Backend
  BY PooledFacts DEF Serving
<1>6. \A b \in Backend : checks[b] = "none" <=> b \notin Unknown(r)
  BY DEF Started
<1>7. \A b \in Pooled(q.cfg) : b \notin Unknown(r) => health[b] # "unknown"
  BY <1>3 DEF Unknown
<1>8. SeenInv(q)'
  BY <1>1, <1>3, <1>5, <1>6, <1>7 DEF SeenInv, Pooled, Positions
<1> QED
  BY <1>1, <1>4, <1>8, SeenStep DEF Grows

LEMMA CheckUnknownSeen ==
    ASSUME ProxyInv, VerdictInv, NEW r \in Request, NEW b \in Backend, CheckUnknown(r, b)
    PROVE  VerdictInv'
<1> PICK result \in {"up", "down"} : result = Checked(req[r].cfg, b, req[r].gone)
  BY DEF Checked
<1>1. req[r].check \in [Backend -> Check] /\ req[r].cfg \in Config
  BY ReqFacts DEF Serving
<1>2. PICK q \in Serving : q = [req[r] EXCEPT !.check = [@ EXCEPT ![b] = result]]
  BY <1>1, ReqFacts DEF Serving, Check
<1>3. /\ q.pc = req[r].pc /\ q.cfg = req[r].cfg /\ q.known = req[r].known /\ q.era = req[r].era
      /\ \A o \in Backend : q.check[o] = IF o = b THEN result ELSE req[r].check[o]
  BY <1>1, <1>2, ReqFacts DEF Serving
<1>4. req' = [req EXCEPT ![r] = q]
  BY <1>2, ReqFacts DEF CheckUnknown, Serving
<1>5. req[r].pc = "check" /\ UNCHANGED <<health, clears>>
  BY DEF CheckUnknown, env
<1>6. Pooled(q.cfg) \subseteq Backend
  BY PooledFacts DEF Serving
<1>7. SeenInv(req[r])
  BY DEF VerdictInv
<1>8. SeenInv(q)'
  BY <1>3, <1>5, <1>6, <1>7 DEF SeenInv, Pooled, Positions
<1> QED
  BY <1>4, <1>5, <1>8, SeenStep DEF Grows

LEMMA StoreUnknownSeen ==
    ASSUME ProxyInv, VerdictInv, NEW r \in Request, StoreUnknown(r) PROVE VerdictInv'
<1>1. PICK q \in Serving : q = [req[r] EXCEPT !.pc = "reread"]
  BY ReqFacts DEF Serving, PC
<1>2. /\ q.pc = "reread" /\ q.cfg = req[r].cfg /\ q.known = req[r].known
      /\ q.era = req[r].era /\ q.check = req[r].check
  BY <1>1, ReqFacts DEF Serving
<1>3. req' = [req EXCEPT ![r] = q]
  BY <1>1, ReqFacts DEF StoreUnknown, Serving
<1>4. req[r].check \in [Backend -> Check] /\ req[r].pc = "check" /\ clears' = clears
  BY ReqFacts DEF Serving, StoreUnknown, env
<1>5. \A b \in Backend : q.check[b] # "none" => health'[b] # "unknown"
  BY <1>2, <1>4 DEF StoreUnknown, AllDone, Stored, Check
<1>6. SeenInv(req[r])
  BY DEF VerdictInv
<1>7. SeenInv(q)'
  BY <1>2, <1>4, <1>5, <1>6 DEF SeenInv, Pooled, Positions
<1>8. Grows
  BY <1>4, StoredGrows DEF StoreUnknown
<1> QED
  BY <1>3, <1>4, <1>7, <1>8, SeenStep

LEMMA RereadSeen == ASSUME ProxyInv, VerdictInv, NEW r \in Request, Reread(r) PROVE VerdictInv'
<1> PICK k \in [Backend -> Verdict] :
       k = [b \in Backend |-> IF req[r].check[b] = "none" THEN req[r].known[b] ELSE health[b]]
  BY ReqFacts DEF ProxyInv, TypeOK, Serving
<1>1. NoChecks \in [Backend -> Check]
  BY DEF NoChecks, Check
<1>2. PICK q \in Serving : q = [req[r] EXCEPT !.pc = "choose", !.check = NoChecks, !.known = k]
  BY <1>1, ReqFacts DEF Serving, PC
<1>3. q.pc = "choose" /\ q.cfg = req[r].cfg /\ q.known = k /\ q.era = req[r].era
  BY <1>2, ReqFacts DEF Serving
<1>4. req' = [req EXCEPT ![r] = q]
  BY <1>2, ReqFacts DEF Reread, Serving
<1>5. req[r].pc = "reread" /\ UNCHANGED <<health, clears>>
  BY DEF Reread, env
<1>6. Pooled(q.cfg) \subseteq Backend
  BY PooledFacts DEF Serving
<1>7. SeenInv(req[r])
  BY DEF VerdictInv
<1>8. SeenInv(q)'
  BY <1>3, <1>5, <1>6, <1>7 DEF SeenInv, Pooled, Positions
<1> QED
  BY <1>4, <1>5, <1>8, SeenStep DEF Grows

LEMMA ChooseSeen == ASSUME ProxyInv, VerdictInv, NEW r \in Request, Choose(r) PROVE VerdictInv'
<1>1. UNCHANGED <<health, clears>>
  BY DEF Choose, env
<1>2. CASE NoneHealthy(r)
  BY <1>1, <1>2, EndSeen DEF NoneHealthy
<1>3. CASE Rotate(r)
  <2>1. PICK order \in [1..Cardinality(Healthy(r)) -> Healthy(r)] :
           req' = [req EXCEPT ![r].pc = "slot", ![r].order = order, ![r].n = 1,
                              ![r].known = UnknownAll, ![r].era = 0]
    BY <1>3 DEF Rotate
  <2>2. order \in Seq(Nat) /\ UnknownAll \in [Backend -> Verdict]
    BY <1>3, RotateFacts DEF Rotate, UnknownAll, Verdict
  <2>3. PICK q \in Serving : q = [req[r] EXCEPT !.pc = "slot", !.order = order, !.n = 1,
                                               !.known = UnknownAll, !.era = 0]
    BY <2>2, ReqFacts DEF Serving, PC
  <2>4. q.pc = "slot" /\ q.era = 0
    BY <2>3, ReqFacts DEF Serving
  <2>5. req' = [req EXCEPT ![r] = q]
    BY <2>1, <2>3, ReqFacts DEF Serving
  <2> QED
    BY <1>1, <2>4, <2>5, ApartStep DEF Deciding
<1> QED
  BY <1>2, <1>3 DEF Choose

\* The steps of failoverTransport and backendLimitedTransport.
LEMMA AttemptSeen ==
    ASSUME ProxyInv, VerdictInv, NEW r \in Request,
           \/ Acquire(r) \/ GiveUp(r) \/ SendFails(r) \/ Unavailable(r) \/ Respond(r) \/ CloseBody(r)
    PROVE  VerdictInv'
<1>1. UNCHANGED <<health, clears>>
  BY DEF Acquire, GiveUp, SendFails, Unavailable, Respond, CloseBody, env
<1>2. CASE Answered(r)
  BY <1>1, <1>2, EndSeen DEF Answered
<1>3. CASE NextAttempt(r)
  <2>1. PICK m \in Nat : m = req[r].n + 1
    BY ReqFacts DEF Serving
  <2>2. PICK q \in Serving : q = [req[r] EXCEPT !.pc = "slot", !.n = m, !.addr = NoAddr]
    BY ReqFacts DEF Serving, PC
  <2>3. q.pc = "slot" /\ q.era = req[r].era
    BY <2>2, ReqFacts DEF Serving
  <2>4. req' = [req EXCEPT ![r] = q]
    BY <1>3, <2>1, <2>2, ReqFacts DEF NextAttempt, Serving
  <2> QED
    BY <1>1, <2>3, <2>4, ApartStep DEF Deciding
<1>4. CASE Acquire(r)
  <2>1. PICK h \in Addr : h = Target(r)
    BY <1>4, TargetFacts DEF Acquire, Trying
  <2>2. PICK m \in Nat : m = req[r].sent + 1
    BY ReqFacts DEF Serving
  <2>3. PICK q \in Serving : q = [req[r] EXCEPT !.pc = "send", !.addr = h, !.sent = m]
    BY ReqFacts DEF Serving, PC
  <2>4. q.pc = "send" /\ q.era = req[r].era
    BY <2>3, ReqFacts DEF Serving
  <2>5. req' = [req EXCEPT ![r] = q]
    BY <1>4, <2>1, <2>2, <2>3, ReqFacts DEF Acquire, Serving
  <2> QED
    BY <1>1, <2>4, <2>5, ApartStep DEF Deciding
<1>5. CASE Respond(r)
  <2>1. PICK q \in Serving : q = [req[r] EXCEPT !.pc = "body"]
    BY ReqFacts DEF Serving, PC
  <2>2. q.pc = "body" /\ q.era = req[r].era
    BY <2>1, ReqFacts DEF Serving
  <2>3. req' = [req EXCEPT ![r] = q]
    BY <1>5, <2>1, ReqFacts DEF Respond, Serving
  <2> QED
    BY <1>1, <2>2, <2>3, ApartStep DEF Deciding
<1> QED
  BY <1>2, <1>3, <1>4, <1>5 DEF GiveUp, SendFails, Unavailable, CloseBody

LEMMA LeaveSeen == ASSUME ProxyInv, VerdictInv, NEW r \in Request, Leave(r) PROVE VerdictInv'
<1>1. PICK q \in Serving : q = [req[r] EXCEPT !.gone = TRUE]
  BY ReqFacts DEF Serving
<1>2. /\ q.pc = req[r].pc /\ q.cfg = req[r].cfg /\ q.known = req[r].known
      /\ q.era = req[r].era /\ q.check = req[r].check
  BY <1>1, ReqFacts DEF Serving
<1>3. req' = [req EXCEPT ![r] = q]
  BY <1>1, ReqFacts DEF Leave, Serving
<1>4. UNCHANGED <<health, clears>> /\ SeenInv(req[r])
  BY DEF Leave, env, VerdictInv
<1>5. SeenInv(q)'
  BY <1>2, <1>4 DEF SeenInv, Pooled, Positions
<1> QED
  BY <1>3, <1>4, <1>5, SeenStep DEF Grows

\* The health loop, the reload and the servers: only the reload takes verdicts away,
\* and no look is of its era then.
LEMMA ElsewhereSeen ==
    ASSUME ProxyInv, VerdictInv, req' = req, (Grows /\ clears' = clears) \/ clears' = clears + 1
    PROVE  VerdictInv'
<1>1. clears \in Nat
  BY DEF ProxyInv, TypeOK
<1>2. ASSUME NEW r \in Request PROVE SeenInv(req[r])'
  <2>1. SeenInv(req[r]) /\ req[r].era \in Nat
    BY ReqFacts DEF VerdictInv, Serving
  <2>2. CASE Grows /\ clears' = clears
    BY <2>1, <2>2 DEF SeenInv, Grows, Pooled, Positions
  <2>3. CASE clears' = clears + 1
    BY <1>1, <2>1, <2>3 DEF SeenInv
  <2> QED
    BY <2>2, <2>3
<1> QED
  BY <1>2 DEF VerdictInv

LEMMA VerdictNext == ProxyInv /\ VerdictInv /\ [Next]_vars => VerdictInv'
<1> SUFFICES ASSUME ProxyInv, VerdictInv, [Next]_vars PROVE VerdictInv'
  OBVIOUS
<1>1. ASSUME NEW r \in Request, Serve(r) PROVE VerdictInv'
  <2>1. CASE Reject(r)
    BY <2>1, EndSeen DEF Reject, env
  <2> QED
    BY <1>1, <2>1, RouteSeen, LookSeen, CheckUnknownSeen, StoreUnknownSeen, RereadSeen,
       ChooseSeen, AttemptSeen DEF Serve
<1>2. CASE LoopStore
  <2>1. loop.check \in [Backend -> Check]
    BY DEF ProxyInv, TypeOK
  <2> QED
    BY <1>2, <2>1, StoredGrows, ElsewhereSeen DEF LoopStore, env
<1>3. ASSUME \/ UNCHANGED vars \/ Tick \/ (\E b \in Backend : LoopCheck(b))
             \/ (\E c \in Config : StoreRuntimeState(c)) \/ (\E a \in Addr : Flip(a))
      PROVE  VerdictInv'
  <2>1. UNCHANGED <<req, health, clears>>
    BY <1>3 DEF vars, Tick, LoopCheck, StoreRuntimeState, Flip, env
  <2> QED
    BY <2>1, ElsewhereSeen DEF Grows
<1>4. CASE ClearHealth
  BY <1>4, ElsewhereSeen DEF ClearHealth
<1> QED
  BY <1>1, <1>2, <1>3, <1>4, LeaveSeen DEF Next, Loop

\* healthyCandidates, for any number of requests, backends and reloads: what a request
\* has looked at and what it has had checked give it, together, a verdict on each
\* backend of its pool by the time it chooses, if no reload came in between.
LEMMA VerdictsThere == Spec => []VerdictInv
<1>1. Init => VerdictInv
  <2>1. NotServed.era = 0 /\ NotServed.pc = "new"
    BY DEF NotServed
  <2>2. Init => clears = 0 /\ \A r \in Request : req[r] = NotServed
    BY DEF Init
  <2> QED
    BY <2>1, <2>2 DEF VerdictInv, SeenInv
<1> QED
  BY <1>1, VerdictNext, ProxyAlwaysInv, PTL DEF Spec

\* A request that is choosing ends by NoneHealthy alone.
LEMMA RefusedByChoice ==
    ASSUME ProxyInv, [Next]_vars, NEW r \in Request, req[r].pc = "choose", req'[r].pc = "done"
    PROVE  NoneHealthy(r)
<1>1. CASE req' = req
  BY <1>1
<1>2. ASSUME NEW s \in Request, Serve(s) \/ Leave(s) PROVE NoneHealthy(r)
  <2>1. CASE s # r
    <3>1. req'[r] = req[r]
      BY <1>2, <2>1, ReqFacts DEF Serve, Leave, Reject, Route, Look, CheckUnknown, StoreUnknown, Reread,
         Choose, NoneHealthy, Rotate, Acquire, GiveUp, SendFails, Unavailable, Respond, CloseBody,
         NextAttempt, Answered
    <3> QED
      BY <3>1
  <2>2. CASE s = r
    <3>1. Choose(r) \/ Leave(r)
      BY <1>2, <2>2 DEF Serve, Reject, Route, Look, CheckUnknown, StoreUnknown, Reread,
         Acquire, GiveUp, SendFails, Unavailable, Respond, CloseBody
    <3>2. ~Leave(r)
      BY ReqFacts DEF Leave, Serving
    <3>3. ASSUME Rotate(r) PROVE FALSE
      <4>1. PICK order \in [1..Cardinality(Healthy(r)) -> Healthy(r)] :
               req' = [req EXCEPT ![r].pc = "slot", ![r].order = order, ![r].n = 1,
                                  ![r].known = UnknownAll, ![r].era = 0]
        BY <3>3 DEF Rotate
      <4>2. req'[r].pc = "slot"
        BY <4>1, ReqFacts DEF Serving
      <4> QED
        BY <4>2
    <3> QED
      BY <3>1, <3>2, <3>3 DEF Choose
  <2> QED
    BY <2>1, <2>2
<1>3. \/ req' = req
      \/ \E s \in Request : Serve(s) \/ Leave(s)
  BY DEF Next, Loop, Tick, LoopCheck, LoopStore, StoreRuntimeState, ClearHealth, Flip, vars
<1> QED
  BY <1>1, <1>2, <1>3

\* ServeHTTP answers that there is no healthy upstream only on a verdict against each
\* backend of the pool, for any number of requests whose checks, and the loop's, race.
THEOREM RefusedAlwaysByVerdict == Spec => RefusedOnlyByVerdict
<1>1. ASSUME ProxyInv, VerdictInv, [Next]_vars, NEW r \in Request,
             req[r].pc = "choose", req'[r].pc = "done", req[r].era = clears,
             NEW b \in Pooled(req[r].cfg)
      PROVE  req[r].known[b] = "down"
  <2>1. Healthy(r) = {}
    BY <1>1, RefusedByChoice DEF NoneHealthy
  <2>2. req[r].known[b] # "up"
    BY <2>1 DEF Healthy, Pooled
  <2>3. req[r].known[b] # "unknown"
    BY <1>1 DEF VerdictInv, SeenInv
  <2>4. req[r].known \in [Backend -> Verdict] /\ b \in Backend
    BY <1>1, ReqFacts, PooledFacts DEF Serving
  <2> QED
    BY <2>2, <2>3, <2>4 DEF Verdict
<1>2. ProxyInv /\ VerdictInv /\ [Next]_vars =>
         [\A r \in Request :
            req[r].pc = "choose" /\ req'[r].pc = "done" /\ req[r].era = clears
               => \A b \in Pooled(req[r].cfg) : req[r].known[b] = "down"]_vars
  BY <1>1
<1> QED
  BY <1>2, ProxyAlwaysInv, VerdictsThere, PTL DEF Spec, RefusedOnlyByVerdict

=============================================================================
