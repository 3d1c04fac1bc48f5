------------------------- MODULE Dns01IssuerProofs --------------------------
(* The properties of the issuer for any number of runs, names and tokens.  *)
(* Safety is about Init and Next only, so the steps are stated as lemmas   *)
(* that AcmeIssuanceProofs uses as well.                                   *)
EXTENDS Dns01Issuer, TLAPS

\* What is known of a run in a state that satisfies the invariant.
LEMMA RunFacts ==
    ASSUME Dns01Inv, NEW r \in Run
    PROVE  run \in [Run -> Call] /\ run[r] \in Call /\ CallInv(r) /\ HeldInv(r)
BY DEF Dns01Inv, TypeOK

\* A call that is over, or has not begun, is of its type.
LEMMA NoCallFacts == NoCall \in Call
BY DEF NoCall, Call, PC

\* At the start no run has begun and the provider has no record.
LEMMA Dns01InitInv == Init => Dns01Inv
<1> SUFFICES ASSUME Init PROVE Dns01Inv
  OBVIOUS
<1>1. TypeOK
  <2>1. registered \in BOOLEAN
    BY Zenon DEF Init
  <2>2. authz \in [Token -> AuthzStatus] /\ run \in [Run -> Call]
    BY NoCallFacts DEF Init, AuthzStatus
  <2> QED
    BY <2>1, <2>2 DEF Init, TypeOK
<1>2. \A r \in Run : CallInv(r) /\ HeldInv(r)
  BY DEF Init, NoCall, CallInv, HeldInv, Held, Answering
<1>3. Issued = {}
  BY DEF Init, Issued, NoCall, Answering
<1>4. IdInv
  BY <1>3 DEF Init, IdInv
<1>5. StandsInv
  BY DEF Init, StandsInv, NoCall, Answering
<1> QED
  BY <1>1, <1>2, <1>4, <1>5 DEF Dns01Inv

-----------------------------------------------------------------------------
(* A step of one run that sends nothing to the provider.                   *)

\* What the next state c of run r has to satisfy.
Follows(r, c) ==
    /\ c \in Call
    /\ c.pc \in {"idle", "account", "order"} => c.order = {}
    /\ c.urls \subseteq c.order
    /\ c.pc \in Answering => c.token \in c.urls
    /\ c.unconfirmed => c.pc = "done" /\ c.result = "error"
    /\ c.result = "cert" => c.pc = "done"
    /\ \A z \in Held(r) :
          \/ c.unconfirmed
          \/ /\ c.pc \in Answering
             /\ z.value = c.token
             /\ z.id = IF c.pc = "present" THEN created[z.value] ELSE c.id
    /\ run[r].order \subseteq c.order
    /\ \A t \in run[r].order :
          /\ t \notin run[r].urls => t \notin c.urls
          /\ run[r].pc = "cleanup" /\ run[r].token = t =>
                t \notin c.urls \/ (c.pc = "cleanup" /\ c.token = t)
    /\ c.pc \in Answering \ {"present"} => c.id # 0 /\ <<c.id, c.token>> \in Issued
    /\ c.pc \in Answering \ {"present", "cleanup"} => Stands(c.id, c.token) \/ Spent(c.token)

\* Every identifier in use has been given out.
LEMMA IssuedBounds ==
    ASSUME Dns01Inv, NEW i \in Nat, NEW t, <<i, t>> \in Issued
    PROVE  i <= lastId
BY DEF Dns01Inv, IdInv, CallInv, Issued, Answering

\* Such a step preserves the invariant.
LEMMA RunStep ==
    ASSUME Dns01Inv, NEW r \in Run, NEW c, Follows(r, c),
           run' = [run EXCEPT ![r] = c], UNCHANGED provider,
           registered' \in BOOLEAN, authz' \in [Token -> AuthzStatus], dns' \subseteq Token
    PROVE  Dns01Inv'
<1>1. /\ run' \in [Run -> Call] /\ run'[r] = c /\ \A q \in Run \ {r} : run'[q] = run[q]
      /\ c \in Call /\ \A q \in Run : run[q] \in Call /\ run'[q] \in Call
  BY DEF Dns01Inv, TypeOK, Follows
<1>2. zone' = zone /\ created' = created /\ deleted' = deleted /\ lastId' = lastId
  BY DEF provider
<1>3. TypeOK'
  BY <1>1, <1>2 DEF Dns01Inv, TypeOK
<1>4. ASSUME NEW q \in Run PROVE CallInv(q)'
  <2>1. CASE q # r
    BY <2>1, <1>1, <1>2 DEF Dns01Inv, CallInv
  <2>2. CASE q = r
    <3>1. c.pc \in Answering \ {"present"} => c.id \in 1..lastId
      BY <1>1, IssuedBounds DEF Follows, Call, Dns01Inv, TypeOK
    <3> QED
      BY <2>2, <3>1, <1>1, <1>2 DEF Follows, CallInv
  <2> QED
    BY <2>1, <2>2
<1>5. ASSUME NEW q \in Run PROVE HeldInv(q)'
  <2>1. Held(q)' = Held(q)
    BY <1>2 DEF Held
  <2>2. CASE q # r
    BY <2>1, <2>2, <1>1, <1>2 DEF Dns01Inv, HeldInv, At
  <2>3. CASE q = r
    BY <2>1, <2>3, <1>1, <1>2 DEF Follows, HeldInv, At
  <2> QED
    BY <2>2, <2>3
<1>6. Issued' \subseteq Issued
  BY <1>1, <1>2 DEF Issued, Follows
<1>7. IdInv'
  BY <1>2, <1>6 DEF Dns01Inv, IdInv
<1>9. ASSUME NEW t, Spent(t) PROVE Spent(t)'
  <2>1. PICK q \in Run : /\ t \in run[q].order
                         /\ t \notin run[q].urls \/ (run[q].pc = "cleanup" /\ run[q].token = t)
    BY <1>9 DEF Spent, At
  <2>2. CASE q # r
    BY <2>1, <2>2, <1>1 DEF Spent, At
  <2>3. CASE q = r
    <3>1. t \in c.order /\ (t \notin c.urls \/ (c.pc = "cleanup" /\ c.token = t))
      BY <2>1, <2>3 DEF Follows
    <3> QED
      BY <3>1, <1>1 DEF Spent, At
  <2> QED
    BY <2>2, <2>3
<1>10. StandsInv'
  <2>1. ASSUME NEW t \in Token, created'[t] # 0 PROVE (Stands(created[t], t) \/ Spent(t))'
    <3>1. Stands(created[t], t) \/ Spent(t)
      BY <2>1, <1>2 DEF Dns01Inv, StandsInv
    <3> QED
      BY <3>1, <1>2, <1>9 DEF Stands
  <2>2. ASSUME NEW q \in Run, run'[q].pc \in Answering \ {"present", "cleanup"}
        PROVE  (Stands(run[q].id, run[q].token) \/ Spent(run[q].token))'
    <3>1. PICK t : t = run'[q].token
      OBVIOUS
    <3>2. Stands(run'[q].id, t) \/ Spent(t)
      BY <2>2, <1>1, <3>1 DEF Dns01Inv, StandsInv, Follows
    <3>3. CASE Spent(t)
      <4>1. Spent(t)'
        BY <3>3, <1>9
      <4> QED
        BY <4>1, <3>1 DEF Spent
    <3> QED
      BY <3>1, <3>2, <3>3, <1>2 DEF Stands
  <2> QED
    BY <2>1, <2>2 DEF StandsInv
<1> QED
  BY <1>3, <1>4, <1>5, <1>7, <1>10 DEF Dns01Inv

-----------------------------------------------------------------------------
(* The steps of a run.                                                     *)

\* A run that answers no challenge holds no record, unless a request was not confirmed.
LEMMA HoldsNothing ==
    ASSUME Dns01Inv, NEW r \in Run, ~run[r].unconfirmed, run[r].pc \notin Answering
    PROVE  Held(r) = {}
BY DEF Dns01Inv, HeldInv

\* What stays as it is when a run only goes on.
LEMMA Types ==
    ASSUME Dns01Inv, UNCHANGED <<registered, authz, dns>>
    PROVE  registered' \in BOOLEAN /\ authz' \in [Token -> AuthzStatus] /\ dns' \subseteq Token
BY DEF Dns01Inv, TypeOK

\* A call is over: it holds nothing, or a request was not confirmed.
LEMMA OverStep ==
    ASSUME Dns01Inv, NEW r \in Run, NEW unconfirmed \in BOOLEAN, NEW result \in {"cert", "error"},
           Over(r, result, unconfirmed), unconfirmed => result = "error",
           unconfirmed \/ Held(r) = {},
           UNCHANGED <<registered, authz, provider, dns>>
    PROVE  Dns01Inv'
<1> DEFINE c == [NoCall EXCEPT !.pc = "done", !.order = run[r].order, !.result = result,
                               !.unconfirmed = unconfirmed]
<1>1. run[r] \in Call
  BY RunFacts
<1>2. /\ c \in Call /\ c.pc = "done" /\ c.order = run[r].order /\ c.urls = {}
      /\ c.result = result /\ c.unconfirmed = unconfirmed
  BY <1>1, NoCallFacts DEF NoCall, Call, PC
<1>3. Follows(r, c)
  BY <1>2 DEF Follows, Answering
<1>4. run' = [run EXCEPT ![r] = c]
  BY DEF Over
<1> QED
  BY <1>3, <1>4, RunStep, Types

\* A run answers no challenge before the step, and none after it.
LEMMA IdleStep ==
    ASSUME Dns01Inv, NEW r \in Run, run[r].pc \notin Answering \cup {"done"},
           NEW pc \in {"account", "order", "next", "finalize"},
           NEW order \in SUBSET Token, NEW urls \in SUBSET order,
           pc \in {"account", "order"} => order = {},
           run[r].order # {} => order = run[r].order /\ urls \subseteq run[r].urls,
           run' = [run EXCEPT ![r].pc = pc, ![r].order = order, ![r].urls = urls],
           UNCHANGED provider,
           registered' \in BOOLEAN, authz' \in [Token -> AuthzStatus], dns' \subseteq Token
    PROVE  Dns01Inv'
<1> DEFINE c == [run[r] EXCEPT !.pc = pc, !.order = order, !.urls = urls]
<1>1. run[r] \in Call /\ CallInv(r)
  BY RunFacts
<1>2. /\ c \in Call /\ c.pc = pc /\ c.order = order /\ c.urls = urls
      /\ c.result = run[r].result /\ c.unconfirmed = run[r].unconfirmed
  BY <1>1 DEF Call, PC
<1>3. Held(r) = {} /\ ~run[r].unconfirmed /\ run[r].result # "cert"
  BY <1>1, HoldsNothing DEF CallInv
<1>4. Follows(r, c)
  BY <1>1, <1>2, <1>3 DEF Follows, Answering, CallInv
<1>5. run' = [run EXCEPT ![r] = c]
  BY RunFacts
<1> QED
  BY <1>4, <1>5, RunStep

LEMMA StartStep ==
    ASSUME Dns01Inv, NEW r \in Run, Start(r)
    PROVE  Dns01Inv'
<1>1. run[r] \in Call /\ CallInv(r) /\ run \in [Run -> Call]
  BY RunFacts
<1>2. run[r].order = {} /\ run[r].urls = {} /\ run[r].pc = "idle"
  BY <1>1 DEF Start, At, CallInv
<1>3. run' = [run EXCEPT ![r].pc = "account", ![r].order = {}, ![r].urls = {}]
  BY <1>1, <1>2 DEF Start, Goto, Call
<1> QED
  BY <1>2, <1>3, IdleStep, Types DEF Start, Answering

LEMMA LookupAccountStep ==
    ASSUME Dns01Inv, NEW r \in Run, LookupAccount(r)
    PROVE  Dns01Inv'
<1>1. run[r] \in Call /\ CallInv(r) /\ run \in [Run -> Call]
  BY RunFacts
<1>2. run[r].order = {} /\ run[r].urls = {} /\ run[r].pc = "account" /\ ~run[r].unconfirmed
  BY <1>1 DEF LookupAccount, At, CallInv
<1>3. CASE registered
  <2>1. run' = [run EXCEPT ![r].pc = "order"]
    BY <1>3, Zenon DEF LookupAccount, Goto
  <2>2. run' = [run EXCEPT ![r].pc = "order", ![r].order = {}, ![r].urls = {}]
    BY <1>1, <1>2, <2>1 DEF Call
  <2> QED
    BY <1>2, <2>2, IdleStep, Types DEF LookupAccount, Answering
<1>4. CASE ~registered
  BY <1>2, <1>4, OverStep, HoldsNothing DEF LookupAccount, Return, Answering
<1> QED
  BY <1>3, <1>4

LEMMA AuthorizeOrderStep ==
    ASSUME Dns01Inv, NEW r \in Run, AuthorizeOrder(r)
    PROVE  Dns01Inv'
<1>1. run[r] \in Call /\ CallInv(r) /\ run \in [Run -> Call]
  BY RunFacts
<1>2. run[r].order = {} /\ run[r].pc = "order"
  BY <1>1 DEF AuthorizeOrder, At, CallInv
<1>3. PICK f \in [Request[r] -> Token] :
          /\ authz' = [t \in Token |-> IF t \in {f[n] : n \in Request[r]} /\ authz[t] = "unused"
                                       THEN "pending" ELSE authz[t]]
          /\ run' = [run EXCEPT ![r].pc = "next", ![r].order = {f[n] : n \in Request[r]},
                                ![r].urls = {f[n] : n \in Request[r]}]
  BY DEF AuthorizeOrder
<1>4. authz' \in [Token -> AuthzStatus]
  BY <1>3 DEF Dns01Inv, TypeOK, AuthzStatus
<1>5. PICK order \in SUBSET Token : order = {f[n] : n \in Request[r]}
  OBVIOUS
<1>6. registered' \in BOOLEAN /\ dns' \subseteq Token /\ UNCHANGED provider
  BY Types DEF Dns01Inv, TypeOK, AuthorizeOrder
<1>7. run' = [run EXCEPT ![r].pc = "next", ![r].order = order, ![r].urls = order]
  BY <1>3, <1>5
<1>8. order \in SUBSET order /\ run[r].pc \notin Answering \cup {"done"}
  BY <1>2 DEF Answering
<1> QED
  BY <1>2, <1>4, <1>6, <1>7, <1>8, IdleStep

LEMMA GetAuthorizationStep ==
    ASSUME Dns01Inv, NEW r \in Run, GetAuthorization(r)
    PROVE  Dns01Inv'
<1>1. run[r] \in Call /\ CallInv(r) /\ run \in [Run -> Call]
  BY RunFacts
<1>2. run[r].pc = "next" /\ ~run[r].unconfirmed /\ Held(r) = {} /\ run[r].result # "cert"
  BY <1>1, HoldsNothing DEF GetAuthorization, At, CallInv, Answering
<1>3. PICK t \in run[r].urls :
          \/ run' = [run EXCEPT ![r].urls = @ \ {t}]
          \/ run' = [run EXCEPT ![r].pc = "present", ![r].token = t]
          \/ Return(r, "error")
  BY DEF GetAuthorization
<1>4. CASE run' = [run EXCEPT ![r].urls = @ \ {t}]
  <2>1. PICK order \in SUBSET Token : order = run[r].order
    BY <1>1 DEF Call
  <2>2. PICK urls \in SUBSET order : urls = run[r].urls \ {t}
    BY <1>1, <2>1 DEF CallInv
  <2>3. run' = [run EXCEPT ![r].pc = "next", ![r].order = order, ![r].urls = urls]
    BY <1>1, <1>2, <1>4, <2>1, <2>2 DEF Call
  <2>4. UNCHANGED <<registered, authz, provider, dns>>
    BY DEF GetAuthorization
  <2>5. run[r].pc \notin Answering \cup {"done"} /\ (run[r].order # {} =>
            order = run[r].order /\ urls \subseteq run[r].urls)
    BY <1>2, <2>1, <2>2 DEF Answering
  <2> QED
    BY <2>3, <2>4, <2>5, IdleStep, Types
<1>5. CASE run' = [run EXCEPT ![r].pc = "present", ![r].token = t]
  <2> DEFINE c == [run[r] EXCEPT !.pc = "present", !.token = t]
  <2>1. /\ c \in Call /\ c.pc = "present" /\ c.order = run[r].order /\ c.urls = run[r].urls
        /\ c.result = run[r].result /\ c.unconfirmed = run[r].unconfirmed /\ c.token = t
    BY <1>1 DEF Call, PC
  <2>2. Follows(r, c)
    BY <1>1, <1>2, <2>1 DEF Follows, Answering, CallInv
  <2>3. run' = [run EXCEPT ![r] = c]
    BY <1>1, <1>5
  <2> QED
    BY <2>2, <2>3, RunStep, Types DEF GetAuthorization
<1>6. CASE Return(r, "error")
  BY <1>2, <1>6, OverStep DEF GetAuthorization, Return
<1> QED
  BY <1>3, <1>4, <1>5, <1>6

\* Present's answer: the identifier of the record that is remembered.
LEMMA PresentedStep ==
    ASSUME Dns01Inv, NEW r \in Run, Presented(r)
    PROVE  Dns01Inv'
<1> DEFINE t == run[r].token
           c == [run[r] EXCEPT !.pc = "propagate", !.id = created[t]]
<1>1. run[r] \in Call /\ CallInv(r) /\ HeldInv(r) /\ run \in [Run -> Call]
  BY RunFacts
<1>2. run[r].pc = "present" /\ t \in run[r].urls /\ t \in Token /\ created[t] # 0
      /\ ~run[r].unconfirmed /\ run[r].result # "cert" /\ created[t] \in Nat
  BY <1>1 DEF Presented, At, CallInv, Answering, Call, Dns01Inv, TypeOK
<1>3. /\ c \in Call /\ c.pc = "propagate" /\ c.order = run[r].order /\ c.urls = run[r].urls
      /\ c.result = run[r].result /\ c.unconfirmed = run[r].unconfirmed /\ c.token = t /\ c.id = created[t]
  BY <1>1, <1>2 DEF Call, PC
<1>4. <<c.id, c.token>> \in Issued /\ (Stands(c.id, c.token) \/ Spent(c.token))
  <2>1. <<created[t], t>> \in Issued /\ (Stands(created[t], t) \/ Spent(t))
    BY <1>2 DEF Issued, Dns01Inv, StandsInv
  <2> QED
    BY <1>3, <2>1
<1>5. \A z \in Held(r) : z.value = t /\ z.id = created[t]
  BY <1>1, <1>2 DEF HeldInv, At
<1>6. Follows(r, c)
  BY <1>1, <1>2, <1>3, <1>4, <1>5 DEF Follows, Answering, CallInv
<1>7. run' = [run EXCEPT ![r] = c]
  BY <1>1 DEF Presented
<1> QED
  BY <1>6, <1>7, RunStep, Types DEF Presented

\* Between Present's answer and the end of the cleanup only the place changes.
LEMMA AnsweringStep ==
    ASSUME Dns01Inv, NEW r \in Run, run[r].pc \in Answering \ {"present", "cleanup"},
           NEW pc \in {"accept", "validate", "cleanup"}, NEW failed \in BOOLEAN,
           run' = [run EXCEPT ![r].pc = pc, ![r].failed = failed], UNCHANGED provider,
           registered' \in BOOLEAN, authz' \in [Token -> AuthzStatus], dns' \subseteq Token
    PROVE  Dns01Inv'
<1> DEFINE c == [run[r] EXCEPT !.pc = pc, !.failed = failed]
<1>1. run[r] \in Call /\ CallInv(r) /\ HeldInv(r) /\ run \in [Run -> Call]
  BY RunFacts
<1>2. ~run[r].unconfirmed /\ run[r].result # "cert" /\ run[r].id # 0 /\ run[r].token \in run[r].urls
  BY <1>1 DEF CallInv, Answering, Call
<1>3. /\ c \in Call /\ c.pc = pc /\ c.order = run[r].order /\ c.urls = run[r].urls
      /\ c.result = run[r].result /\ c.unconfirmed = run[r].unconfirmed /\ c.token = run[r].token
      /\ c.id = run[r].id
  BY <1>1 DEF Call, PC
<1>4. \A z \in Held(r) : z.value = run[r].token /\ z.id = run[r].id
  BY <1>1, <1>2 DEF HeldInv, At
<1>5. <<run[r].id, run[r].token>> \in Issued
      /\ (Stands(run[r].id, run[r].token) \/ Spent(run[r].token))
  BY DEF Issued, Answering, Dns01Inv, StandsInv
<1>6. Follows(r, c)
  BY <1>1, <1>2, <1>3, <1>4, <1>5 DEF Follows, Answering, CallInv
<1>7. run' = [run EXCEPT ![r] = c]
  BY <1>1
<1> QED
  BY <1>6, <1>7, RunStep

LEMMA ObservedStep ==
    ASSUME Dns01Inv, NEW r \in Run, Observed(r)
    PROVE  Dns01Inv'
<1>1. run[r] \in Call /\ run \in [Run -> Call]
  BY RunFacts
<1>2. PICK failed \in BOOLEAN : failed = run[r].failed
  BY <1>1 DEF Call
<1>3. run' = [run EXCEPT ![r].pc = "accept", ![r].failed = failed]
  BY <1>1, <1>2 DEF Observed, Goto, Call
<1>4. run[r].pc \in Answering \ {"present", "cleanup"}
  BY DEF Observed, At, Answering
<1> QED
  BY <1>3, <1>4, AnsweringStep, Types DEF Observed

LEMMA AcceptStep ==
    ASSUME Dns01Inv, NEW r \in Run, Accept(r)
    PROVE  Dns01Inv'
<1>1. run[r] \in Call /\ run \in [Run -> Call]
  BY RunFacts
<1>2. PICK failed \in BOOLEAN : failed = run[r].failed
  BY <1>1 DEF Call
<1>3. run' = [run EXCEPT ![r].pc = "validate", ![r].failed = failed]
  BY <1>1, <1>2 DEF Accept, Goto, Call
<1>4. run[r].pc \in Answering \ {"present", "cleanup"}
  BY DEF Accept, At, Answering
<1>5. /\ authz' \in [Token -> AuthzStatus] /\ registered' \in BOOLEAN /\ dns' \subseteq Token
      /\ UNCHANGED provider
  BY DEF Accept, Dns01Inv, TypeOK, AuthzStatus
<1> QED
  BY <1>3, <1>4, <1>5, AnsweringStep

LEMMA WaitAuthorizationStep ==
    ASSUME Dns01Inv, NEW r \in Run, WaitAuthorization(r)
    PROVE  Dns01Inv'
<1>1. run' = [run EXCEPT ![r].pc = "cleanup", ![r].failed = (authz[run[r].token] = "invalid")]
  BY DEF WaitAuthorization
<1>2. PICK failed \in BOOLEAN : failed = (authz[run[r].token] = "invalid")
  OBVIOUS
<1>3. run' = [run EXCEPT ![r].pc = "cleanup", ![r].failed = failed]
  BY <1>1, <1>2
<1>4. run[r].pc \in Answering \ {"present", "cleanup"}
  BY DEF WaitAuthorization, At, Answering
<1> QED
  BY <1>3, <1>4, AnsweringStep, Types DEF WaitAuthorization

\* The cleanup is over and the record is gone: the run holds nothing any more.
LEMMA CleanedUpStep ==
    ASSUME Dns01Inv, NEW r \in Run, At(r, "cleanup"), NEW failed \in BOOLEAN,
           CleanedUp(r, failed), \A z \in zone : z.id # run[r].id,
           UNCHANGED <<registered, authz, provider, dns>>
    PROVE  Dns01Inv'
<1>1. run[r] \in Call /\ CallInv(r) /\ HeldInv(r) /\ run \in [Run -> Call]
  BY RunFacts
<1>2. ~run[r].unconfirmed /\ run[r].result # "cert" /\ run[r].token \in run[r].urls
  BY <1>1 DEF CallInv, Answering, At
<1>3. Held(r) = {}
  BY <1>1, <1>2 DEF HeldInv, Held, At
<1>4. CASE failed
  BY <1>3, <1>4, OverStep DEF CleanedUp, Return
<1>5. CASE ~failed
  <2> DEFINE c == [run[r] EXCEPT !.pc = "next", !.urls = run[r].urls \ {run[r].token},
                                 !.token = NoToken, !.id = 0]
  <2>1. /\ c \in Call /\ c.pc = "next" /\ c.order = run[r].order
        /\ c.urls = run[r].urls \ {run[r].token}
        /\ c.result = run[r].result /\ c.unconfirmed = run[r].unconfirmed
    BY <1>1 DEF Call, PC
  <2>2. Follows(r, c)
    BY <1>1, <1>2, <1>3, <2>1 DEF Follows, Answering, CallInv
  <2>3. run' = [run EXCEPT ![r] = c]
    BY <1>1, <1>5 DEF CleanedUp
  <2> QED
    BY <2>2, <2>3, RunStep, Types
<1> QED
  BY <1>4, <1>5

LEMMA DeletedStep ==
    ASSUME Dns01Inv, NEW r \in Run, Deleted(r)
    PROVE  Dns01Inv'
<1>1. PICK failed \in BOOLEAN : failed = run[r].failed
  BY RunFacts DEF Call
<1>2. \A z \in zone : z.id # run[r].id
  BY DEF Deleted, Dns01Inv, IdInv
<1> QED
  BY <1>1, <1>2, CleanedUpStep DEF Deleted

LEMMA CleanupFailsStep ==
    ASSUME Dns01Inv, NEW r \in Run, CleanupFails(r)
    PROVE  Dns01Inv'
BY OverStep DEF CleanupFails

LEMMA WaitOrderStep ==
    ASSUME Dns01Inv, NEW r \in Run, WaitOrder(r)
    PROVE  Dns01Inv'
<1>1. run[r] \in Call /\ CallInv(r) /\ run \in [Run -> Call]
  BY RunFacts
<1>2. run[r].pc = "next" /\ ~run[r].unconfirmed /\ Held(r) = {}
  BY <1>1, HoldsNothing DEF WaitOrder, At, CallInv, Answering
<1>3. CASE Goto(r, "finalize")
  <2>1. PICK order \in SUBSET Token : order = run[r].order
    BY <1>1 DEF Call
  <2>2. run' = [run EXCEPT ![r].pc = "finalize", ![r].order = order, ![r].urls = {}]
    BY <1>1, <1>3, <2>1 DEF Call, WaitOrder, Goto
  <2>3. run[r].pc \notin Answering \cup {"done"} /\ {} \in SUBSET order
    BY <1>2 DEF Answering
  <2> QED
    BY <2>1, <2>2, <2>3, IdleStep, Types DEF WaitOrder
<1>4. CASE Return(r, "error")
  BY <1>2, <1>4, OverStep DEF WaitOrder, Return
<1> QED
  BY <1>3, <1>4 DEF WaitOrder

LEMMA CreateOrderCertStep ==
    ASSUME Dns01Inv, NEW r \in Run, CreateOrderCert(r)
    PROVE  Dns01Inv'
<1>1. run[r].pc = "finalize" /\ ~run[r].unconfirmed /\ Held(r) = {}
  BY RunFacts, HoldsNothing DEF CreateOrderCert, At, CallInv, Answering
<1> QED
  BY <1>1, OverStep DEF CreateOrderCert, Return

LEMMA FailsStep ==
    ASSUME Dns01Inv, NEW r \in Run, run[r].pc \in Failing, Fails(r)
    PROVE  Dns01Inv'
<1>1. UNCHANGED <<registered, authz, provider, dns>>
  BY DEF Fails
<1>2. CASE run[r].pc \in {"account", "order", "next", "finalize"}
  <2>1. ~run[r].unconfirmed /\ Held(r) = {}
    BY <1>2, RunFacts, HoldsNothing DEF CallInv, Answering
  <2>2. Over(r, "error", FALSE)
    BY <1>2 DEF Fails, Return, At
  <2> QED
    BY <1>1, <2>1, <2>2, OverStep
<1>3. CASE run[r].pc = "present"
  <2>1. Over(r, "error", TRUE)
    BY <1>3 DEF Fails, At
  <2> QED
    BY <1>1, <2>1, OverStep
<1>4. CASE run[r].pc \in {"propagate", "accept", "validate"}
  <2>1. run' = [run EXCEPT ![r].pc = "cleanup", ![r].failed = TRUE]
    BY <1>4 DEF Fails, At
  <2>2. run[r].pc \in Answering \ {"present", "cleanup"}
    BY <1>4 DEF Answering
  <2> QED
    BY <1>1, <2>1, <2>2, AnsweringStep, Types
<1> QED
  BY <1>2, <1>3, <1>4 DEF Failing

\* The context of a call is cancelled, wherever the call is.
LEMMA CancelStep ==
    ASSUME Dns01Inv, NEW r \in Run, Cancel(r)
    PROVE  Dns01Inv'
<1> DEFINE c == [run[r] EXCEPT !.cancelled = TRUE]
<1>1. run[r] \in Call /\ CallInv(r) /\ HeldInv(r) /\ run \in [Run -> Call]
  BY RunFacts
<1>2. /\ c \in Call /\ c.pc = run[r].pc /\ c.order = run[r].order /\ c.urls = run[r].urls
      /\ c.result = run[r].result /\ c.unconfirmed = run[r].unconfirmed /\ c.token = run[r].token
      /\ c.id = run[r].id
  BY <1>1 DEF Call, PC
<1>3. run[r].pc \in Answering \ {"present"} => <<run[r].id, run[r].token>> \in Issued
  BY DEF Issued
<1>4. run[r].pc \in Answering \ {"present", "cleanup"} =>
         Stands(run[r].id, run[r].token) \/ Spent(run[r].token)
  BY DEF Dns01Inv, StandsInv
<1>5. Follows(r, c)
  BY <1>1, <1>2, <1>3, <1>4 DEF Follows, CallInv, HeldInv, At
<1>6. run' = [run EXCEPT ![r] = c]
  BY <1>1 DEF Cancel
<1> QED
  BY <1>5, <1>6, RunStep, Types DEF Cancel

LEMMA DiesStep ==
    ASSUME Dns01Inv, NEW r \in Run, Dies(r)
    PROVE  Dns01Inv'
BY OverStep DEF Dies

-----------------------------------------------------------------------------
(* The provider, public DNS and the CA.                                    *)

\* A record with an identifier of its own.
LEMMA CreateArrivesStep ==
    ASSUME Dns01Inv, NEW r \in Run, CreateArrives(r)
    PROVE  Dns01Inv'
<1> DEFINE t == run[r].token
           n == lastId + 1
           new == [id |-> n, value |-> t, by |-> r]
<1>1. \A q \in Run : run[q] \in Call /\ CallInv(q) /\ HeldInv(q)
  BY RunFacts
<1>2. /\ run[r].pc = "present" /\ t \in Token /\ created[t] = 0 /\ lastId' = n
      /\ zone' = zone \cup {new} /\ created' = [created EXCEPT ![t] = n]
      /\ UNCHANGED <<registered, authz, dns, deleted, run>>
      /\ t \in run[r].urls /\ ~run[r].unconfirmed
  BY <1>1 DEF CreateArrives, At, CallInv, Answering, Call
<1>3. lastId \in Nat /\ n \in Nat /\ created \in [Token -> Nat] /\ zone \subseteq Record
  BY DEF Dns01Inv, TypeOK
<1>4. TypeOK'
  BY <1>2, <1>3 DEF Dns01Inv, TypeOK, Record
<1>5. Held(r) = {}
  <2>1. \A z \in Held(r) : z.id = 0
    BY <1>1, <1>2 DEF HeldInv, At
  <2> QED
    BY <2>1, <1>3 DEF Dns01Inv, IdInv, Held
<1>6. ASSUME NEW q \in Run PROVE CallInv(q)'
  BY <1>1, <1>2, <1>3 DEF CallInv
<1>7. ASSUME NEW q \in Run PROVE HeldInv(q)'
  <2>1. CASE q = r
    <3>1. Held(q)' = {new}
      BY <1>2, <1>5, <2>1 DEF Held
    <3> QED
      BY <1>2, <1>3, <2>1, <3>1 DEF HeldInv, At, Answering
  <2>2. CASE q # r
    <3>1. Held(q)' = Held(q)
      BY <1>2, <2>2 DEF Held
    <3>2. ASSUME NEW z \in Held(q), run[q].pc = "present", z.value = run[q].token,
                 z.id = created[z.value]
          PROVE  z.id = created'[z.value]
      <4>1. z.id # 0 /\ z.value \in Token
        BY <1>3 DEF Held, Dns01Inv, IdInv, Record
      <4> QED
        BY <4>1, <3>2, <1>2, <1>3
    <3> QED
      BY <1>1, <1>2, <3>1, <3>2 DEF HeldInv, At
  <2> QED
    BY <2>1, <2>2
<1>8. Issued' \subseteq Issued \cup {<<n, t>>}
  BY <1>2, <1>3 DEF Issued
<1>9. \A i \in Issued : i[1] # n
  <2>1. \A i \in Issued : i[1] <= lastId
    BY <1>1, <1>3 DEF Issued, Dns01Inv, IdInv, CallInv
  <2> QED
    BY <2>1, <1>3
<1>10. IdInv'
  <2>1. \A z \in zone' : z.id \in 1..lastId' /\ z.id \notin deleted'
    BY <1>2, <1>3 DEF Dns01Inv, IdInv, TypeOK
  <2>2. \A y, z \in zone' : y.id = z.id => y = z
    BY <1>2, <1>3 DEF Dns01Inv, IdInv
  <2>3. (\A u \in Token : created'[u] <= lastId') /\ \A i \in deleted' : i <= lastId'
    BY <1>2, <1>3 DEF Dns01Inv, IdInv, TypeOK
  <2>4. \A i, j \in Issued' : i[1] = j[1] => i[2] = j[2]
    BY <1>8, <1>9 DEF Dns01Inv, IdInv
  <2> QED
    BY <2>1, <2>2, <2>3, <2>4 DEF IdInv
<1>11. StandsInv'
  <2>1. \A u : Spent(u) => Spent(u)'
    BY <1>2 DEF Spent, At
  <2>2. ASSUME NEW u \in Token, created'[u] # 0 PROVE (Stands(created[u], u) \/ Spent(u))'
    <3>1. CASE u = t
      <4>1. created'[u] = n /\ new \in zone' /\ new.id = n /\ new.value = u
        BY <3>1, <1>2, <1>3
      <4>2. \E z \in zone' : z.id = created'[u] /\ z.value = u
        BY <4>1
      <4> QED
        BY <4>2 DEF Stands
    <3>2. CASE u # t
      <4>1. created'[u] = created[u] /\ (Stands(created[u], u) \/ Spent(u))
        BY <3>2, <2>2, <1>2, <1>3 DEF Dns01Inv, StandsInv
      <4> QED
        BY <4>1, <1>2, <2>1 DEF Stands
    <3> QED
      BY <3>1, <3>2
  <2>3. ASSUME NEW q \in Run, run'[q].pc \in Answering \ {"present", "cleanup"}
        PROVE  (Stands(run[q].id, run[q].token) \/ Spent(run[q].token))'
    <3>1. Stands(run[q].id, run[q].token) \/ Spent(run[q].token)
      BY <2>3, <1>2 DEF Dns01Inv, StandsInv
    <3> QED
      BY <3>1, <1>2 DEF Stands, Spent, At
  <2> QED
    BY <2>2, <2>3 DEF StandsInv
<1> QED
  BY <1>4, <1>6, <1>7, <1>10, <1>11 DEF Dns01Inv

\* The exact record is removed: its value is the one of the run that cleans up.
LEMMA DeleteArrivesStep ==
    ASSUME Dns01Inv, NEW r \in Run, DeleteArrives(r)
    PROVE  Dns01Inv'
<1> DEFINE t == run[r].token
<1>1. \A q \in Run : run[q] \in Call /\ CallInv(q) /\ HeldInv(q)
  BY RunFacts
<1>2. PICK old \in zone : old.id = run[r].id /\ zone' = zone \ {old}
  BY DEF DeleteArrives
<1>3. /\ run[r].pc = "cleanup" /\ deleted' = deleted \cup {run[r].id}
      /\ UNCHANGED <<registered, authz, dns, created, lastId, run>>
      /\ t \in run[r].urls /\ t \in run[r].order /\ run[r].id \in 1..lastId
  BY <1>1 DEF DeleteArrives, At, CallInv, Answering
<1>4. old.value = t
  <2>1. <<old.id, old.value>> \in Issued /\ <<run[r].id, t>> \in Issued
    BY <1>2, <1>3 DEF Issued, Answering
  <2>2. <<old.id, old.value>>[1] = <<run[r].id, t>>[1]
    BY <1>2
  <2>3. <<old.id, old.value>>[2] = <<run[r].id, t>>[2]
    BY <2>1, <2>2 DEF Dns01Inv, IdInv
  <2> QED
    BY <2>3
<1>5. TypeOK'
  <2>1. run[r].id \in Nat
    BY <1>1 DEF Call
  <2> QED
    BY <1>2, <1>3, <2>1 DEF Dns01Inv, TypeOK
<1>6. ASSUME NEW q \in Run PROVE CallInv(q)' /\ HeldInv(q)'
  <2>1. CallInv(q)'
    BY <1>1, <1>3 DEF CallInv
  <2>2. Held(q)' \subseteq Held(q)
    BY <1>2 DEF Held
  <2> QED
    BY <1>1, <1>3, <2>1, <2>2 DEF HeldInv, At
<1>7. Issued' \subseteq Issued
  BY <1>2, <1>3 DEF Issued
<1>8. IdInv'
  BY <1>2, <1>3, <1>7 DEF Dns01Inv, IdInv
<1>9. \A u : Spent(u) => Spent(u)'
  BY <1>3 DEF Spent, At
<1>10. Spent(t)
  BY <1>3 DEF Spent, At
<1>11. \A id, u : Stands(id, u) => Spent(u) \/ \E z \in zone' : z.id = id /\ z.value = u
  BY <1>2, <1>4, <1>10 DEF Stands
<1>12. StandsInv'
  <2>1. ASSUME NEW u \in Token, created'[u] # 0 PROVE (Stands(created[u], u) \/ Spent(u))'
    <3>1. Spent(u) \/ \E z \in zone' : z.id = created[u] /\ z.value = u
      BY <2>1, <1>3, <1>11 DEF Dns01Inv, StandsInv
    <3> QED
      BY <3>1, <1>3, <1>9 DEF Stands
  <2>2. ASSUME NEW q \in Run, run'[q].pc \in Answering \ {"present", "cleanup"}
        PROVE  (Stands(run[q].id, run[q].token) \/ Spent(run[q].token))'
    <3>1. Spent(run[q].token) \/ \E z \in zone' : z.id = run[q].id /\ z.value = run[q].token
      BY <2>2, <1>3, <1>11 DEF Dns01Inv, StandsInv
    <3> QED
      BY <3>1, <1>3 DEF Stands, Spent, At
  <2> QED
    BY <2>1, <2>2 DEF StandsInv
<1> QED
  BY <1>5, <1>6, <1>8, <1>12 DEF Dns01Inv

\* The provider's memory of a value ends; no request about it is under way.
LEMMA ForgetStep ==
    ASSUME Dns01Inv, NEW t \in Token, Forget(t)
    PROVE  Dns01Inv'
<1>1. \A q \in Run : run[q] \in Call /\ CallInv(q) /\ HeldInv(q)
  BY RunFacts
<1>2. /\ created' = [created EXCEPT ![t] = 0] /\ deleted' \subseteq deleted
      /\ UNCHANGED <<registered, authz, zone, dns, lastId, run>>
      /\ \A q \in Run : run[q].pc = "present" => run[q].token # t
  BY DEF Forget
<1>3. created \in [Token -> Nat] /\ lastId \in Nat /\ zone \subseteq Record
  BY DEF Dns01Inv, TypeOK
<1>4. TypeOK'
  BY <1>2, <1>3 DEF Dns01Inv, TypeOK
<1>5. ASSUME NEW q \in Run PROVE CallInv(q)' /\ HeldInv(q)'
  <2>1. CallInv(q)'
    BY <1>1, <1>2 DEF CallInv
  <2>2. Held(q)' = Held(q)
    BY <1>2 DEF Held
  <2>3. \A z \in Held(q) : z.value \in Token
    BY <1>3 DEF Held, Record
  <2>4. HeldInv(q)'
    BY <1>1, <1>2, <1>3, <2>2, <2>3 DEF HeldInv, At
  <2> QED
    BY <2>1, <2>4
<1>6. \A u \in Token : created'[u] = 0 \/ created'[u] = created[u]
  BY <1>2, <1>3
<1>7. Issued' \subseteq Issued
  BY <1>2, <1>6 DEF Issued
<1>8. IdInv'
  BY <1>2, <1>3, <1>6, <1>7 DEF Dns01Inv, IdInv
<1>9. StandsInv'
  BY <1>2, <1>6 DEF Dns01Inv, StandsInv, Stands, Spent, At
<1> QED
  BY <1>4, <1>5, <1>8, <1>9 DEF Dns01Inv

\* Neither the runs nor the provider change.
LEMMA OutsideStep ==
    ASSUME Dns01Inv, UNCHANGED <<provider, run>>, registered' \in BOOLEAN,
           authz' \in [Token -> AuthzStatus], dns' \subseteq Token
    PROVE  Dns01Inv'
<1>1. UNCHANGED <<zone, created, deleted, lastId, run>>
  BY DEF provider
<1>2. TypeOK'
  BY <1>1 DEF Dns01Inv, TypeOK
<1>3. \A r \in Run : CallInv(r)' /\ HeldInv(r)'
  BY <1>1 DEF Dns01Inv, CallInv, HeldInv, Held, At
<1>4. Issued' = Issued
  BY <1>1 DEF Issued
<1>5. IdInv'
  BY <1>1, <1>4 DEF Dns01Inv, IdInv
<1>6. StandsInv'
  BY <1>1 DEF Dns01Inv, StandsInv, Stands, Spent, At
<1> QED
  BY <1>2, <1>3, <1>5, <1>6 DEF Dns01Inv

LEMMA CAValidatesStep ==
    ASSUME Dns01Inv, NEW t \in Token, CAValidates(t)
    PROVE  Dns01Inv'
<1>1. authz' \in [Token -> AuthzStatus] /\ registered' \in BOOLEAN /\ dns' \subseteq Token
  BY DEF CAValidates, Dns01Inv, TypeOK, AuthzStatus
<1> QED
  BY <1>1, OutsideStep DEF CAValidates

LEMMA PropagateStep ==
    ASSUME Dns01Inv, Propagate
    PROVE  Dns01Inv'
<1>1. authz' \in [Token -> AuthzStatus] /\ registered' \in BOOLEAN /\ dns' \subseteq Token
  BY DEF Propagate, Dns01Inv, TypeOK, Record
<1> QED
  BY <1>1, OutsideStep DEF Propagate

-----------------------------------------------------------------------------
\* Every step of the issuer preserves the invariant.
LEMMA Dns01NextInv ==
    ASSUME Dns01Inv, Next
    PROVE  Dns01Inv'
<1>1. CASE \E r \in Run : Start(r) \/ LookupAccount(r) \/ AuthorizeOrder(r) \/ GetAuthorization(r)
  BY <1>1, StartStep, LookupAccountStep, AuthorizeOrderStep, GetAuthorizationStep
<1>2. CASE \E r \in Run : CreateArrives(r) \/ Presented(r) \/ Observed(r) \/ Accept(r)
                        \/ WaitAuthorization(r)
  BY <1>2, CreateArrivesStep, PresentedStep, ObservedStep, AcceptStep, WaitAuthorizationStep
<1>3. CASE \E r \in Run : DeleteArrives(r) \/ Deleted(r) \/ CleanupFails(r)
  BY <1>3, DeleteArrivesStep, DeletedStep, CleanupFailsStep
<1>4. CASE \E r \in Run : WaitOrder(r) \/ CreateOrderCert(r) \/ Cancel(r) \/ Dies(r)
  BY <1>4, WaitOrderStep, CreateOrderCertStep, CancelStep, DiesStep
<1>5. CASE \E r \in Run : CallFails(r) \/ CancelSeen(r)
  BY <1>5, FailsStep DEF CallFails, CancelSeen
<1>6. CASE \E t \in Token : CAValidates(t) \/ Forget(t)
  BY <1>6, CAValidatesStep, ForgetStep
<1>7. CASE Propagate
  BY <1>7, PropagateStep
<1> QED
  BY <1>1, <1>2, <1>3, <1>4, <1>5, <1>6, <1>7 DEF Next

\* So does a step that leaves the issuer alone.
LEMMA Dns01Stutter ==
    ASSUME Dns01Inv, UNCHANGED vars
    PROVE  Dns01Inv'
<1>1. UNCHANGED <<registered, authz, dns>> /\ UNCHANGED <<provider, run>>
  BY DEF vars, provider
<1> QED
  BY <1>1, Types, OutsideStep

\* The three properties follow from the invariant.
LEMMA Dns01Promises ==
    ASSUME Dns01Inv
    PROVE  CertAfterCleanup /\ NothingLeft /\ RecordStands
<1>1. CertAfterCleanup
  <2> SUFFICES ASSUME NEW r \in Run, At(r, "finalize") \/ run[r].result = "cert"
               PROVE  Held(r) = {}
    BY DEF CertAfterCleanup
  <2> QED
    BY RunFacts, HoldsNothing DEF CallInv, Answering, At
<1>2. NothingLeft
  BY HoldsNothing DEF NothingLeft, Answering, At
<1>3. RecordStands
  <2> SUFFICES ASSUME NEW r \in Run, run[r].pc \in {"propagate", "accept", "validate"},
                      ~Stands(run[r].id, run[r].token)
               PROVE  \E q \in Run \ {r} : run[r].token \in run[q].order
    BY DEF RecordStands, Stands
  <2>1. run[r].pc \in Answering \ {"present", "cleanup"} /\ run[r].token \in run[r].urls
    BY RunFacts DEF CallInv, Answering
  <2>2. Spent(run[r].token)
    BY <2>1 DEF Dns01Inv, StandsInv
  <2> QED
    BY <2>1, <2>2 DEF Spent, At
<1> QED
  BY <1>1, <1>2, <1>3

\* The invariant holds in every state the issuer reaches.
THEOREM Dns01AlwaysInv == Spec => []Dns01Inv
<1>1. Init => Dns01Inv
  BY Dns01InitInv
<1>2. Dns01Inv /\ [Next]_vars => Dns01Inv'
  BY Dns01NextInv, Dns01Stutter
<1> QED
  BY <1>1, <1>2, PTL DEF Spec

\* IssueRenewal finalizes no certificate while a record it made is in the zone, leaves no
\* record when its last request to the provider was confirmed, and finds its record
\* standing until its own cleanup.
THEOREM RecordsAlwaysCleaned == Spec => [](CertAfterCleanup /\ NothingLeft /\ RecordStands)
<1>1. Dns01Inv => CertAfterCleanup /\ NothingLeft /\ RecordStands
  BY Dns01Promises
<1> QED
  BY <1>1, Dns01AlwaysInv, PTL

=============================================================================
