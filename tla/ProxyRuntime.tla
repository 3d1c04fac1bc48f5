---------------------------- MODULE ProxyRuntime ----------------------------
(***************************************************************************)
(* The data plane (internal/proxy/handler.go, backend_limiter.go and       *)
(* internal/health/checker.go): requests being served, each in a goroutine *)
(* of its own, the health loop, and the reload of the configuration, over  *)
(* the state they share: the configuration pointer, the table of health    *)
(* verdicts, the round-robin counter and the per-authority slots.          *)
(*                                                                         *)
(* A configuration has one route with one service, whose enabled backends  *)
(* are a sequence of records: the ID, under which verdicts are kept, and   *)
(* the authority (host and port), which is what is checked and limited.    *)
(***************************************************************************)
EXTENDS Naturals, Sequences, FiniteSets

CONSTANTS
    Request,       \* requests that may be served (a bound)
    Retryable,     \* those with method GET, HEAD or OPTIONS and a body that can be sent again
    Config,
    Initial,       \* the configuration at start
    Backend,       \* backend IDs
    Addr,          \* authorities
    NoAddr,
    Pool,          \* enabled backends of a configuration's service, in order
    MaxSlots,      \* maxBackendConcurrency
    MaxAttempts,   \* maxBackendAttempts
    MaxReloads, MaxFlips   \* bounds on reloads and on changes of the servers

ASSUME ProxyAssumption ==
    /\ IsFiniteSet(Request)
    /\ Retryable \subseteq Request
    /\ Initial \in Config
    /\ NoAddr \notin Addr
    /\ Pool \in [Config -> Seq([id : Backend, addr : Addr])]
    /\ MaxSlots \in Nat \ {0} /\ MaxAttempts \in Nat \ {0}
    /\ MaxReloads \in Nat /\ MaxFlips \in Nat

Verdict == {"unknown", "up", "down"}

Check == {"none", "pending", "up", "down"}

NoChecks == [b \in Backend |-> "none"]

UnknownAll == [b \in Backend |-> "unknown"]

PC == {"new", "look", "check", "reread", "choose", "slot", "send", "body", "done"}

(* A request: the configuration it was routed with, whether its client has *)
(* gone, the verdicts it goes by, the checks it has made, the positions in *)
(* the pool it will try and which of them is next, and the slot it holds.  *)
(* era and sent are history: the number of clears when it first looked at  *)
(* the verdicts, and the number of times a backend was called.  What is    *)
(* local to a call is dropped when the call returns.                       *)
Serving == [pc : PC, cfg : Config, gone : BOOLEAN, known : [Backend -> Verdict],
            check : [Backend -> Check], order : Seq(Nat), n : Nat, addr : Addr \cup {NoAddr},
            era : Nat, sent : Nat]

NotServed == [pc |-> "new", cfg |-> Initial, gone |-> FALSE,
              known |-> UnknownAll, check |-> NoChecks,
              order |-> <<>>, n |-> 0, addr |-> NoAddr, era |-> 0, sent |-> 0]

Served == [NotServed EXCEPT !.pc = "done"]

VARIABLES
    config,    \* Handler.state
    health,    \* Handler.healthState: the verdict on each backend ID
    turn,      \* the service's round-robin counter
    slots,     \* length of each authority's channel in backendLimitedTransport.host
    req,
    loop,      \* the health loop
    clearing,  \* Reload has stored the configuration and not yet cleared the verdicts
    up,        \* whether the server at each authority is healthy
    clears, flips

vars == <<config, health, turn, slots, req, loop, clearing, up, clears, flips>>

env == <<clearing, up, clears, flips>>

\* The type invariant: no channel is over its capacity, or read when it is empty.
TypeOK ==
    /\ config \in Config
    /\ health \in [Backend -> Verdict]
    /\ turn \in Nat
    /\ slots \in [Addr -> 0..MaxSlots]
    /\ req \in [Request -> Serving]
    /\ loop \in [pc : {"wait", "check"}, cfg : Config, check : [Backend -> Check]]
    /\ clearing \in BOOLEAN
    /\ up \in [Addr -> BOOLEAN]
    /\ clears \in Nat /\ flips \in 0..MaxFlips

Init ==
    /\ config = Initial
    /\ health = UnknownAll
    /\ turn = 0
    /\ slots = [a \in Addr |-> 0]
    /\ req = [r \in Request |-> NotServed]
    /\ loop = [pc |-> "wait", cfg |-> Initial, check |-> NoChecks]
    /\ clearing = FALSE
    /\ up \in [Addr -> BOOLEAN]
    /\ clears = 0 /\ flips = 0

-----------------------------------------------------------------------------
(* refreshBackends, for a request and for the health loop.                 *)

Positions(c) == 1..Len(Pool[c])

Pooled(c) == {Pool[c][i].id : i \in Positions(c)}

\* The checks that are started together, one goroutine each ...
Started(S) == [b \in Backend |-> IF b \in S THEN "pending" ELSE "none"]

\* ... Checker.Check of backend b as configuration c has it.  A check whose
\* context is cancelled, or that fails, times out or gets another status than
\* 2xx or 3xx, says down ...
Checked(c, b, cancelled) ==
    IF ~cancelled /\ \E i \in Positions(c) : Pool[c][i].id = b /\ up[Pool[c][i].addr]
      THEN "up" ELSE "down"

\* ... and when all are done their verdicts are stored under one lock.
AllDone(check) == \A b \in Backend : check[b] # "pending"

Stored(check) ==
    [b \in Backend |-> IF check[b] \in {"up", "down"} THEN check[b] ELSE health[b]]

-----------------------------------------------------------------------------
(* ServeHTTP up to the choice of the backends.                             *)

\* Forwarding metadata that is rejected, or no route: 400 or 404.
Reject(r) ==
    /\ req[r].pc = "new"
    /\ req' = [req EXCEPT ![r] = Served]
    /\ UNCHANGED <<config, health, turn, slots, loop, env>>

\* The configuration is read once; ResolveCandidates finds a service with backends.
Route(r) ==
    /\ req[r].pc = "new"
    /\ Pool[config] # <<>>
    /\ req' = [req EXCEPT ![r].pc = "look", ![r].cfg = config]
    /\ UNCHANGED <<config, health, turn, slots, loop, env>>

Unknown(r) == {b \in Pooled(req[r].cfg) : health[b] = "unknown"}

\* healthyCandidates: the verdicts that are there are read under one lock.
Look(r) ==
    /\ req[r].pc = "look"
    /\ req' = [req EXCEPT ![r].known = health, ![r].era = clears,
                          ![r].check = Started(Unknown(r)),
                          ![r].pc = IF Unknown(r) = {} THEN "choose" ELSE "check"]
    /\ UNCHANGED <<config, health, turn, slots, loop, env>>

CheckUnknown(r, b) ==
    /\ req[r].pc = "check"
    /\ req[r].check[b] = "pending"
    /\ req' = [req EXCEPT ![r].check[b] = Checked(req[r].cfg, b, req[r].gone)]
    /\ UNCHANGED <<config, health, turn, slots, loop, env>>

StoreUnknown(r) ==
    /\ req[r].pc = "check"
    /\ AllDone(req[r].check)
    /\ health' = Stored(req[r].check)
    /\ req' = [req EXCEPT ![r].pc = "reread"]
    /\ UNCHANGED <<config, turn, slots, loop, env>>

\* Mutant: the verdicts just stored are not read.
MutReread(r) ==
    /\ req[r].pc = "reread"
    /\ req' = [req EXCEPT ![r].pc = "choose", ![r].check = NoChecks]
    /\ UNCHANGED <<config, health, turn, slots, loop, env>>

\* The verdicts that were unknown are read again, not taken from the checks.
Reread(r) ==
    /\ req[r].pc = "reread"
    /\ req' = [req EXCEPT ![r].pc = "choose", ![r].check = NoChecks,
                  ![r].known = [b \in Backend |-> IF req[r].check[b] = "none"
                                                    THEN req[r].known[b] ELSE health[b]]]
    /\ UNCHANGED <<config, health, turn, slots, loop, env>>

Healthy(r) == {i \in Positions(req[r].cfg) : req[r].known[Pool[req[r].cfg][i].id] = "up"}

\* rotateCandidates: the healthy ones in their order, from the offset on.
Rotated(S, offset, order) ==
    \A i \in 1..Cardinality(S) :
       Cardinality({j \in S : j < order[i]}) = (i - 1 + offset) % Cardinality(S)

NoneHealthy(r) ==
    /\ Healthy(r) = {}
    /\ req' = [req EXCEPT ![r] = Served]
    /\ UNCHANGED turn

Rotate(r) ==
    /\ Healthy(r) # {}
    /\ turn' = IF Cardinality(Healthy(r)) < 2 THEN turn ELSE turn + 1
    /\ \E order \in [1..Cardinality(Healthy(r)) -> Healthy(r)] :
          /\ Rotated(Healthy(r), turn, order)
          /\ req' = [req EXCEPT ![r].pc = "slot", ![r].order = order, ![r].n = 1,
                                ![r].known = UnknownAll, ![r].era = 0]

Choose(r) ==
    /\ req[r].pc = "choose"
    /\ NoneHealthy(r) \/ Rotate(r)
    /\ UNCHANGED <<config, health, slots, loop, env>>

-----------------------------------------------------------------------------
(* failoverTransport over backendLimitedTransport.                         *)

Target(r) == Pool[req[r].cfg][req[r].order[req[r].n]].addr

Release(r) == slots' = [slots EXCEPT ![req[r].addr] = @ - 1]

\* Mutant: every request may be sent again.
MutMayRetry(r) == req[r].n < MaxAttempts /\ req[r].n < Len(req[r].order)

\* Another attempt, if the request may be sent again and there is one left.
MayRetry(r) == r \in Retryable /\ req[r].n < MaxAttempts /\ req[r].n < Len(req[r].order)

\* Mutant: the loop goes on with the backend that failed.
MutNextAttempt(r) == req' = [req EXCEPT ![r].pc = "slot", ![r].addr = NoAddr]

NextAttempt(r) ==
    req' = [req EXCEPT ![r].pc = "slot", ![r].n = @ + 1, ![r].addr = NoAddr]

Answered(r) == req' = [req EXCEPT ![r] = Served]

\* limit <- struct{}{}, and the base transport is called.
Acquire(r) ==
    /\ req[r].pc = "slot"
    /\ slots[Target(r)] < MaxSlots
    /\ slots' = [slots EXCEPT ![Target(r)] = @ + 1]
    /\ req' = [req EXCEPT ![r].pc = "send", ![r].addr = Target(r),
                          ![r].sent = @ + 1]
    /\ UNCHANGED <<config, health, turn, loop, env>>

\* Mutant: the context is looked at only once the slot is free.
MutGiveUp(r) ==
    /\ req[r].pc = "slot"
    /\ req[r].gone
    /\ slots[Target(r)] < MaxSlots
    /\ IF MayRetry(r) THEN NextAttempt(r) ELSE Answered(r)
    /\ UNCHANGED <<config, health, turn, slots, loop, env>>

\* <-req.Context().Done() while it waits for the slot.
GiveUp(r) ==
    /\ req[r].pc = "slot"
    /\ req[r].gone
    /\ IF MayRetry(r) THEN NextAttempt(r) ELSE Answered(r)
    /\ UNCHANGED <<config, health, turn, slots, loop, env>>

\* The base transport returns an error: the limiter releases, failover goes on.
SendFails(r) ==
    /\ req[r].pc = "send"
    /\ Release(r)
    /\ IF MayRetry(r) THEN NextAttempt(r) ELSE Answered(r)
    /\ UNCHANGED <<config, health, turn, loop, env>>

\* Mutant: the body of the response that is dropped is not closed.
MutUnavailable(r) ==
    /\ req[r].pc = "send"
    /\ MayRetry(r)
    /\ NextAttempt(r)
    /\ UNCHANGED <<config, health, turn, slots, loop, env>>

\* A 502, 503 or 504 with an attempt left: its body is closed, which releases.
Unavailable(r) ==
    /\ req[r].pc = "send"
    /\ MayRetry(r)
    /\ Release(r)
    /\ NextAttempt(r)
    /\ UNCHANGED <<config, health, turn, loop, env>>

\* Any other response: the slot is held until the body is closed.
Respond(r) ==
    /\ req[r].pc = "send"
    /\ req' = [req EXCEPT ![r].pc = "body"]
    /\ UNCHANGED <<config, health, turn, slots, loop, env>>

\* ReverseProxy closes the body at its end, or when the client has gone.
CloseBody(r) ==
    /\ req[r].pc = "body"
    /\ Release(r)
    /\ Answered(r)
    /\ UNCHANGED <<config, health, turn, loop, env>>

\* The client goes away: the request's context is cancelled.
Leave(r) ==
    /\ req[r].pc \notin {"new", "done"}
    /\ ~req[r].gone
    /\ req' = [req EXCEPT ![r].gone = TRUE]
    /\ UNCHANGED <<config, health, turn, slots, loop, env>>

-----------------------------------------------------------------------------
(* healthLoop.                                                             *)

\* Mutant: the configuration is read once, when the loop starts.
MutTick ==
    /\ loop.pc = "wait"
    /\ loop' = [pc |-> "check", cfg |-> Initial, check |-> Started(Pooled(Initial))]
    /\ UNCHANGED <<config, health, turn, slots, req, env>>

\* The configuration is read at each tick.
Tick ==
    /\ loop.pc = "wait"
    /\ Pool[config] # <<>>
    /\ loop' = [pc |-> "check", cfg |-> config, check |-> Started(Pooled(config))]
    /\ UNCHANGED <<config, health, turn, slots, req, env>>

LoopCheck(b) ==
    /\ loop.check[b] = "pending"
    /\ loop' = [loop EXCEPT !.check[b] = Checked(loop.cfg, b, FALSE)]
    /\ UNCHANGED <<config, health, turn, slots, req, env>>

LoopStore ==
    /\ loop.pc = "check"
    /\ AllDone(loop.check)
    /\ health' = Stored(loop.check)
    /\ loop' = [loop EXCEPT !.pc = "wait", !.cfg = Initial, !.check = NoChecks]
    /\ UNCHANGED <<config, turn, slots, req, env>>

-----------------------------------------------------------------------------
(* Handler.Reload, called from main's signal loop; and the servers.        *)

StoreRuntimeState(c) ==
    /\ ~clearing
    /\ clears < MaxReloads
    /\ config' = c
    /\ clearing' = TRUE
    /\ UNCHANGED <<health, turn, slots, req, loop, up, clears, flips>>

ClearHealth ==
    /\ clearing
    /\ health' = UnknownAll
    /\ clearing' = FALSE
    /\ clears' = clears + 1
    /\ UNCHANGED <<config, turn, slots, req, loop, up, flips>>

Flip(a) ==
    /\ flips < MaxFlips
    /\ up' = [up EXCEPT ![a] = ~@]
    /\ flips' = flips + 1
    /\ UNCHANGED <<config, health, turn, slots, req, loop, clearing, clears>>

-----------------------------------------------------------------------------
Serve(r) ==
    \/ Reject(r) \/ Route(r) \/ Look(r) \/ (\E b \in Backend : CheckUnknown(r, b))
    \/ StoreUnknown(r) \/ Reread(r) \/ Choose(r)
    \/ Acquire(r) \/ GiveUp(r) \/ SendFails(r) \/ Unavailable(r) \/ Respond(r)
    \/ CloseBody(r)

Loop == Tick \/ (\E b \in Backend : LoopCheck(b)) \/ LoopStore

Next ==
    \/ \E r \in Request : Serve(r) \/ Leave(r)
    \/ Loop
    \/ \E c \in Config : StoreRuntimeState(c)
    \/ ClearHealth
    \/ \E a \in Addr : Flip(a)

Spec == Init /\ [][Next]_vars

(* Goroutines run; a check ends within its two-second timeout; the base    *)
(* transport returns (response headers have a timeout, and it obeys the    *)
(* context); the ticker ticks.  Nothing makes a response body end as long  *)
(* as the client stays, and nothing makes a request get a slot.            *)
Fairness ==
    /\ \A r \in Request :
          /\ WF_vars(Look(r)) /\ WF_vars(\E b \in Backend : CheckUnknown(r, b))
          /\ WF_vars(StoreUnknown(r)) /\ WF_vars(Reread(r)) /\ WF_vars(Choose(r))
          /\ WF_vars(GiveUp(r))
          /\ WF_vars(SendFails(r) \/ Unavailable(r) \/ Respond(r))
          /\ WF_vars(req[r].gone /\ CloseBody(r))
    /\ WF_vars(Loop)
    /\ WF_vars(ClearHealth)

FairSpec == Spec /\ Fairness

-----------------------------------------------------------------------------
(* Properties.                                                             *)

Holders(a) == {r \in Request : req[r].pc \in {"send", "body"} /\ req[r].addr = a}

\* backendLimitedTransport: however requests fail, are retried, are abandoned or
\* share an authority, the tokens in a channel are those of the requests between
\* their acquisition and the close of their body, so no slot leaks or is freed
\* twice, and a request that waits for a slot holds none (no deadlock by failover).
SlotsMatch ==
    \A a \in Addr :
       /\ slots[a] = Cardinality(Holders(a))
       /\ slots[a] <= MaxSlots

\* failoverTransport never sends a request that is not retryable to a second
\* backend, whatever the first attempt and the wait for a slot came to, and never
\* makes more than maxBackendAttempts attempts.
NoReplay ==
    \A r \in Request :
       /\ r \notin Retryable => req[r].sent <= 1
       /\ req[r].sent <= MaxAttempts

\* healthyCandidates: a request is refused for want of healthy upstreams only on a
\* verdict against every backend of its pool, unless a reload cleared the verdicts
\* between its look and its second look: checks of other requests and of the loop
\* may change a verdict under it and never take one away.
RefusedOnlyByVerdict ==
    [][ \A r \in Request :
          req[r].pc = "choose" /\ req'[r].pc = "done" /\ req[r].era = clears
             => \A b \in Pooled(req[r].cfg) : req[r].known[b] = "down" ]_vars

\* The select of backendLimitedTransport.RoundTrip: a client that leaves has its
\* request ended, wherever it was, even when every slot is held for ever by others,
\* and so its own slot, if any, is free again.
LeaversFree == \A r \in Request : req[r].gone ~> req[r].pc = "done"

\* healthLoop: a wrong verdict does not stay.  Once configuration and servers stop
\* changing, the table agrees with the servers for good, though refreshBackends may
\* have stored verdicts of an earlier configuration after Reload cleared the table,
\* and down for a server that is up because the client that asked had left.
HealthConverges ==
    <>[](\A i \in Positions(config) :
            health[Pool[config][i].id] = IF up[Pool[config][i].addr] THEN "up" ELSE "down")

-----------------------------------------------------------------------------
(* The inductive invariant behind SlotsMatch and NoReplay.                 *)

Trying == {"slot", "send", "body"}

\* What a request relies on while it goes through its backends.
AttemptInv(r, q) ==
    /\ q.pc \notin Trying => q.n = 0 /\ q.sent = 0
    /\ q.pc \in Trying => /\ q.order \in Seq(Positions(q.cfg))
                          /\ q.n \in 1..Len(q.order)
    /\ q.pc \in {"send", "body"} => q.addr \in Addr
    /\ q.sent <= q.n
    /\ q.pc = "slot" => q.sent < q.n
    /\ q.n <= MaxAttempts
    /\ q.n > 1 => r \in Retryable

\* failoverTransport and backendLimitedTransport together: the count of the calls a
\* request has made never passes the number of the attempt it is at, and the slots
\* are those of the requests whose attempt is under way.
ProxyInv ==
    /\ TypeOK
    /\ SlotsMatch
    /\ \A r \in Request : AttemptInv(r, req[r])

\* healthyCandidates, for a request whose look no clear has overtaken: a backend it
\* does not check has a verdict, one it has checked has a verdict in the table when
\* it rereads it, and so every backend has one when it chooses.
SeenInv(q) ==
    /\ q.era <= clears
    /\ q.era = clears =>
          /\ q.pc \in {"check", "reread"} =>
                \A b \in Pooled(q.cfg) : q.check[b] = "none" => q.known[b] # "unknown"
          /\ q.pc = "reread" => \A b \in Backend : q.check[b] # "none" => health[b] # "unknown"
          /\ q.pc = "choose" => \A b \in Pooled(q.cfg) : q.known[b] # "unknown"

VerdictInv == \A r \in Request : SeenInv(req[r])

=============================================================================
