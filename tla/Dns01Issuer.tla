---------------------------- MODULE Dns01Issuer ----------------------------
(***************************************************************************)
(* The issuance of a renewed certificate (internal/tlsconfig/              *)
(* acme_issuer.go) through DNS-01 challenges whose TXT records are written *)
(* by the Porkbun provider (porkbun_dns01.go).                             *)
(*                                                                         *)
(* A run is one IssueRenewal call, retries included; runs of several       *)
(* processes interleave between any two calls to the CA, to the provider   *)
(* and to the resolver.  A token stands for its authorization, its         *)
(* challenge and the TXT value derived from it.  Every call may fail, lose *)
(* its answer or time out; a POST to the provider carries an Idempotency-  *)
(* Key, which makes Go's transport resend it when a connection breaks, so  *)
(* it may arrive several times.                                            *)
(***************************************************************************)
EXTENDS Naturals

CONSTANTS
    Run,         \* calls of IssueRenewal
    Name,        \* DNS names, x and *.x being two of them
    RecordName,  \* the challenge record of each name: x and *.x share theirs
    ProviderZone,\* the names inside the provider's zone
    Request,     \* the DNS names of each run's renewal request
    Token,       \* tokens the CA can hand out (a bound)
    NameOf,      \* the name each token is for
    NoToken

ASSUME Dns01Assumption ==
    /\ ProviderZone \subseteq Name
    /\ Request \in [Run -> SUBSET Name]
    /\ NameOf \in [Token -> Name]
    /\ NoToken \notin Token

AuthzStatus == {"unused", "pending", "accepted", "valid", "invalid"}

PC == {"idle", "account", "order", "next", "present", "propagate", "accept", "validate",
       "cleanup", "finalize", "done"}

(* order: the authorizations of the order; urls: those not yet dealt with; *)
(* token, id: the challenge being answered and the record Present gave;    *)
(* failed: an error is being returned; unconfirmed: ghost, the provider    *)
(* did not confirm the run's last request to it, or the process died.      *)
Call == [pc : PC, order : SUBSET Token, urls : SUBSET Token, token : Token \cup {NoToken},
         id : Nat, failed : BOOLEAN, cancelled : BOOLEAN, unconfirmed : BOOLEAN,
         result : {"none", "cert", "error"}]

NoCall == [pc |-> "idle", order |-> {}, urls |-> {}, token |-> NoToken, id |-> 0,
           failed |-> FALSE, cancelled |-> FALSE, unconfirmed |-> FALSE, result |-> "none"]

VARIABLES
    registered,  \* the account key has a valid account at the CA
    authz,       \* the CA's authorizations
    zone,        \* the provider's TXT records, with the run whose request made each
    dns,         \* the values public DNS answers with
    created,     \* the provider's memory of create requests: the record of each value
    deleted,     \* its memory of delete requests
    lastId,      \* record identifiers are not used again
    run

vars == <<registered, authz, zone, dns, created, deleted, lastId, run>>
provider == <<zone, created, deleted, lastId>>

Record == [id : Nat, value : Token, by : Run]

\* The type invariant.
TypeOK ==
    /\ registered \in BOOLEAN
    /\ authz \in [Token -> AuthzStatus]
    /\ zone \subseteq Record
    /\ dns \subseteq Token
    /\ created \in [Token -> Nat]
    /\ deleted \subseteq Nat
    /\ lastId \in Nat
    /\ run \in [Run -> Call]

Init ==
    /\ registered \in BOOLEAN
    /\ authz = [t \in Token |-> "unused"]
    /\ zone = {} /\ dns = {}
    /\ created = [t \in Token |-> 0]
    /\ deleted = {}
    /\ lastId = 0
    /\ run = [r \in Run |-> NoCall]

At(r, pc) == run[r].pc = pc

Goto(r, pc) == run' = [run EXCEPT ![r].pc = pc]

\* The call is over; unconfirmed: the provider may not have done what it was last asked.
Over(r, result, unconfirmed) ==
    run' = [run EXCEPT ![r] = [NoCall EXCEPT !.pc = "done", !.order = run[r].order,
                                             !.result = result, !.unconfirmed = unconfirmed]]

Return(r, result) == Over(r, result, FALSE)

-----------------------------------------------------------------------------
(* The account, the order, and the loop over its authorizations.           *)

Start(r) ==
    /\ At(r, "idle")
    /\ Goto(r, "account")
    /\ UNCHANGED <<registered, authz, provider, dns>>

\* GetReg: registration is a separate operation, so an unknown account is an error.
LookupAccount(r) ==
    /\ At(r, "account")
    /\ IF registered THEN Goto(r, "order") ELSE Return(r, "error")
    /\ UNCHANGED <<registered, authz, provider, dns>>

\* A CA may put an authorization it already has into a new order.
Offered(n) == {t \in Token : NameOf[t] = n /\ authz[t] # "invalid"}

\* AuthorizeOrder: one authorization for each name of the request.
AuthorizeOrder(r) ==
    /\ At(r, "order")
    /\ \E f \in [Request[r] -> Token] :
          /\ \A n \in Request[r] : f[n] \in Offered(n)
          /\ LET order == {f[n] : n \in Request[r]} IN
                /\ authz' = [t \in Token |-> IF t \in order /\ authz[t] = "unused"
                                             THEN "pending" ELSE authz[t]]
                /\ run' = [run EXCEPT ![r].pc = "next", ![r].order = order, ![r].urls = order]
    /\ UNCHANGED <<registered, provider, dns>>

\* challengeRecordName: the provider writes records of its own zone only.
InZone(t) == NameOf[t] \in ProviderZone

\* An authorization that is valid is skipped; one whose challenge is pending is answered
\* if its name lies in the provider's zone; everything else is an error.
GetAuthorization(r) ==
    /\ At(r, "next")
    /\ \E t \in run[r].urls :
          IF authz[t] = "valid" THEN run' = [run EXCEPT ![r].urls = @ \ {t}]
          ELSE IF authz[t] = "pending" /\ InZone(t)
          THEN run' = [run EXCEPT ![r].pc = "present", ![r].token = t]
          ELSE Return(r, "error")
    /\ UNCHANGED <<registered, authz, provider, dns>>

-----------------------------------------------------------------------------
(* The provider: Present, Cleanup and the requests they send.              *)

\* A create request arrives, the first time or again: its key is made of the record's
\* name and value, and a key the provider remembers is answered as it was before.
CreateArrives(r) ==
    LET t == run[r].token IN
    /\ At(r, "present")
    /\ created[t] = 0
    /\ lastId' = lastId + 1
    /\ zone' = zone \cup {[id |-> lastId', value |-> t, by |-> r]}
    /\ created' = [created EXCEPT ![t] = lastId']
    /\ UNCHANGED <<registered, authz, dns, deleted, run>>

\* Present returns the identifier of the answer.
Presented(r) ==
    /\ At(r, "present")
    /\ created[run[r].token] # 0
    /\ run' = [run EXCEPT ![r].pc = "propagate", ![r].id = created[run[r].token]]
    /\ UNCHANGED <<registered, authz, provider, dns>>

\* Mutant: the record is deleted by its name and type.
MutDeleteArrives(r) ==
    /\ At(r, "cleanup")
    /\ run[r].id \notin deleted
    /\ zone' = {z \in zone : RecordName[NameOf[z.value]] # RecordName[NameOf[run[r].token]]}
    /\ deleted' = deleted \cup {run[r].id}
    /\ UNCHANGED <<registered, authz, dns, created, lastId, run>>

\* A delete request names the exact record; the provider refuses one it does not have.
DeleteArrives(r) ==
    /\ At(r, "cleanup")
    /\ run[r].id \notin deleted
    /\ \E z \in zone : z.id = run[r].id /\ zone' = zone \ {z}
    /\ deleted' = deleted \cup {run[r].id}
    /\ UNCHANGED <<registered, authz, dns, created, lastId, run>>

\* The deferred cleanup is over: the error under way is returned, or the next
\* authorization is taken.
CleanedUp(r, failed) ==
    IF failed THEN Return(r, "error")
    ELSE run' = [run EXCEPT ![r].pc = "next", ![r].urls = @ \ {run[r].token},
                            ![r].token = NoToken, ![r].id = 0]

Deleted(r) ==
    /\ At(r, "cleanup")
    /\ run[r].id \in deleted
    /\ CleanedUp(r, run[r].failed)
    /\ UNCHANGED <<registered, authz, provider, dns>>

\* Mutant: the cleanup's error is logged instead of joined to the result.
MutCleanupFails(r) ==
    /\ At(r, "cleanup")
    /\ CleanedUp(r, run[r].failed)
    /\ UNCHANGED <<registered, authz, provider, dns>>

\* No answer comes within the 15 seconds the cleanup has, cancelled or not, or it is not
\* a SUCCESS: the provider does not have the record, or has it and does not delete it.
CleanupFails(r) ==
    /\ At(r, "cleanup")
    /\ Over(r, "error", TRUE)
    /\ UNCHANGED <<registered, authz, provider, dns>>

\* The provider keeps its answers for longer than a request can be under way.
Forget(t) ==
    /\ created[t] # 0
    /\ \A r \in Run : run[r].pc \in {"present", "cleanup"} => run[r].token # t
    /\ created' = [created EXCEPT ![t] = 0]
    /\ deleted' = deleted \ {created[t]}
    /\ UNCHANGED <<registered, authz, zone, dns, lastId, run>>

\* Public DNS catches up with the zone.
Propagate ==
    /\ dns' = {z.value : z \in zone}
    /\ dns' # dns
    /\ UNCHANGED <<registered, authz, provider, run>>

-----------------------------------------------------------------------------
(* The challenge, and the finalization of the order.                       *)

\* WaitTXT polls until the exact value is observed or its timeout is over.
Observed(r) ==
    /\ At(r, "propagate")
    /\ run[r].token \in dns
    /\ Goto(r, "accept")
    /\ UNCHANGED <<registered, authz, provider, dns>>

Accept(r) ==
    LET t == run[r].token IN
    /\ At(r, "accept")
    /\ authz' = [authz EXCEPT ![t] = IF @ = "pending" THEN "accepted" ELSE @]
    /\ Goto(r, "validate")
    /\ UNCHANGED <<registered, provider, dns>>

\* The CA looks the value up in public DNS.
CAValidates(t) ==
    /\ authz[t] = "accepted"
    /\ authz' = [authz EXCEPT ![t] = IF t \in dns THEN "valid" ELSE "invalid"]
    /\ UNCHANGED <<registered, provider, dns, run>>

\* WaitAuthorization polls until the authorization is valid or invalid.
WaitAuthorization(r) ==
    LET status == authz[run[r].token] IN
    /\ At(r, "validate")
    /\ status \in {"valid", "invalid"}
    /\ run' = [run EXCEPT ![r].pc = "cleanup", ![r].failed = (status = "invalid")]
    /\ UNCHANGED <<registered, authz, provider, dns>>

\* WaitOrder: the CA makes an order ready once all its authorizations are valid.
WaitOrder(r) ==
    /\ At(r, "next")
    /\ run[r].urls = {}
    /\ IF \A t \in run[r].order : authz[t] = "valid"
       THEN Goto(r, "finalize") ELSE Return(r, "error")
    /\ UNCHANGED <<registered, authz, provider, dns>>

CreateOrderCert(r) ==
    /\ At(r, "finalize")
    /\ Return(r, "cert")
    /\ UNCHANGED <<registered, authz, provider, dns>>

-----------------------------------------------------------------------------
(* Failures.                                                               *)

\* The call under way returns an error.  Once Present has returned a record, its
\* cleanup is deferred and runs on every way out.
Fails(r) ==
    /\ CASE run[r].pc \in {"account", "order", "next", "finalize"} -> Return(r, "error")
         [] At(r, "present") -> Over(r, "error", TRUE)
         [] run[r].pc \in {"propagate", "accept", "validate"} ->
              run' = [run EXCEPT ![r].pc = "cleanup", ![r].failed = TRUE]
    /\ UNCHANGED <<registered, authz, provider, dns>>

Failing == {"account", "order", "next", "present", "propagate", "accept", "validate", "finalize"}

\* The CA or the provider fails, an answer is lost or is refused by validateACMEOrder,
\* requestedNameForAuthorization or parsePorkbunRecordID, a timeout is over.
CallFails(r) ==
    /\ run[r].pc \in Failing
    /\ Fails(r)

\* The context of the call is cancelled or its deadline passes.
Cancel(r) ==
    /\ run[r].pc \notin {"idle", "done"}
    /\ ~run[r].cancelled
    /\ run' = [run EXCEPT ![r].cancelled = TRUE]
    /\ UNCHANGED <<registered, authz, provider, dns>>

\* Mutant: the authorization is awaited without the context of the call.
MutCancelSeen(r) ==
    /\ run[r].cancelled
    /\ run[r].pc \in Failing \ {"validate"}
    /\ Fails(r)

\* Mutant: the cleanup uses the context of the call, which is cancelled.
MutCleanupCancelled(r) ==
    /\ run[r].cancelled
    /\ \/ run[r].pc \in Failing /\ Fails(r)
       \/ /\ At(r, "cleanup")
          /\ CleanedUp(r, TRUE)
          /\ UNCHANGED <<registered, authz, provider, dns>>

\* Every call but the cleanup's uses the context and returns once it is cancelled.
CancelSeen(r) ==
    /\ run[r].cancelled
    /\ run[r].pc \in Failing
    /\ Fails(r)

\* The process dies.
Dies(r) ==
    /\ run[r].pc \notin {"idle", "done"}
    /\ Over(r, "error", TRUE)
    /\ UNCHANGED <<registered, authz, provider, dns>>

-----------------------------------------------------------------------------
Next ==
    \/ \E r \in Run :
          \/ Start(r) \/ LookupAccount(r) \/ AuthorizeOrder(r) \/ GetAuthorization(r)
          \/ CreateArrives(r) \/ Presented(r) \/ Observed(r) \/ Accept(r)
          \/ WaitAuthorization(r) \/ DeleteArrives(r) \/ Deleted(r) \/ CleanupFails(r)
          \/ WaitOrder(r) \/ CreateOrderCert(r)
          \/ CallFails(r) \/ Cancel(r) \/ CancelSeen(r) \/ Dies(r)
    \/ \E t \in Token : CAValidates(t) \/ Forget(t)
    \/ Propagate

(* A call returns once its context is cancelled, a request to the provider *)
(* within its timeout, and a step that waits for nobody is taken.          *)
Fairness ==
    \A r \in Run : WF_vars(CancelSeen(r) \/ CleanupFails(r) \/ Deleted(r))

Spec == Init /\ [][Next]_vars /\ Fairness

-----------------------------------------------------------------------------
Held(r) == {z \in zone : z.by = r}

\* A certificate is finalized only after every challenge record the run made has been
\* removed (the comment of IssueRenewal).
CertAfterCleanup ==
    \A r \in Run : At(r, "finalize") \/ run[r].result = "cert" => Held(r) = {}

\* A run that returned without its process dying, and whose last request to the provider
\* was answered with a SUCCESS, leaves no record behind, whatever failed, timed out or was
\* cancelled at the CA or in DNS, and however often its requests were resent
\* (completeDNS01Authorization's deferred Cleanup).  A delete that the provider answers
\* with an error, or not at all, is not tried again: its record may stay.
NothingLeft ==
    \A r \in Run : At(r, "done") /\ ~run[r].unconfirmed => Held(r) = {}

\* From Present to the start of its own cleanup the record a run waits for stays in the
\* zone, unless another run was given the same authorization: a cleanup removes the exact
\* record, never the one of another challenge under the same name (Cleanup's comment).
RecordStands ==
    \A r \in Run :
        run[r].pc \in {"propagate", "accept", "validate"} =>
            \/ \E z \in zone : z.id = run[r].id /\ z.value = run[r].token
            \/ \E q \in Run \ {r} : run[r].token \in run[q].order

\* A call whose context is cancelled returns: no wait outlives the context but the
\* cleanup's, which has a timeout of its own.
CancelledReturns ==
    \A r \in Run : run[r].cancelled ~> At(r, "done")

-----------------------------------------------------------------------------
(* What holds of every reachable state, and is preserved by every step.    *)

\* A challenge is being answered: Present was called and its cleanup is not over.
Answering == {"present", "propagate", "accept", "validate", "cleanup"}

\* Where a call is, and what it still has to do.
CallInv(r) ==
    LET c == run[r] IN
    /\ c.pc \in {"idle", "account", "order"} => c.order = {}
    /\ c.urls \subseteq c.order
    /\ c.pc \in Answering => c.token \in c.urls
    /\ c.pc \in Answering \ {"present"} => c.id \in 1..lastId
    /\ c.unconfirmed => c.pc = "done" /\ c.result = "error"
    /\ c.result = "cert" => c.pc = "done"

\* A record belongs to the challenge its run is answering, unless a request was not
\* confirmed.
HeldInv(r) ==
    \A z \in Held(r) :
        \/ run[r].unconfirmed
        \/ /\ run[r].pc \in Answering
           /\ z.value = run[r].token
           /\ z.id = IF At(r, "present") THEN created[z.value] ELSE run[r].id

\* The identifiers in use, each with the value it was given for.
Issued ==
    {<<z.id, z.value>> : z \in zone}
    \cup {<<created[t], t>> : t \in {u \in Token : created[u] # 0}}
    \cup {<<run[r].id, run[r].token>> : r \in {q \in Run : run[q].pc \in Answering \ {"present"}}}

\* Identifiers are not used again, neither for another value nor for another record.
IdInv ==
    /\ \A z \in zone : z.id \in 1..lastId /\ z.id \notin deleted
    /\ \A y, z \in zone : y.id = z.id => y = z
    /\ \A t \in Token : created[t] <= lastId
    /\ \A i \in deleted : i <= lastId
    /\ \A i, j \in Issued : i[1] = j[1] => i[2] = j[2]

Stands(id, t) == \E z \in zone : z.id = id /\ z.value = t

\* A run has come to, or passed, the cleanup of this authorization.
Spent(t) ==
    \E q \in Run :
        /\ t \in run[q].order
        /\ t \notin run[q].urls \/ (At(q, "cleanup") /\ run[q].token = t)

\* What was created stands until a run comes to its cleanup.
StandsInv ==
    /\ \A t \in Token : created[t] # 0 => Stands(created[t], t) \/ Spent(t)
    /\ \A r \in Run : run[r].pc \in Answering \ {"present", "cleanup"} =>
           Stands(run[r].id, run[r].token) \/ Spent(run[r].token)

\* The inductive invariant: the three properties above follow from it.
Dns01Inv ==
    /\ TypeOK
    /\ \A r \in Run : CallInv(r) /\ HeldInv(r)
    /\ IdInv
    /\ StandsInv

=============================================================================
