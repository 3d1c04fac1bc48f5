------------------------- MODULE AcmeIssuanceProofs -------------------------
(* The properties of registration and issuance together, from the step     *)
(* lemmas of the two components.                                           *)
EXTENDS AcmeIssuance, Dns01IssuerProofs

R == INSTANCE AccountRegistrationProofs

-----------------------------------------------------------------------------
(* R and Registration instance the same definitions.                       *)

LEMMA SameInit == Registration!Init <=> R!Init
BY DEF Registration!Init, R!Init, Registration!NoCommand, R!NoCommand

LEMMA SameInv ==
    Registration!RegistrationInv <=> R!RegistrationInv
BY Zenon DEF Registration!RegistrationInv, R!RegistrationInv, Registration!TypeOK, R!TypeOK,
   Registration!Post, R!Post, Registration!Plan, R!Plan, Registration!CommandState,
   R!CommandState, Registration!Required, R!Required, Registration!Terms, R!Terms,
   Registration!Time, R!Time, Registration!NoCommand, R!NoCommand, Registration!CommandInv,
   R!CommandInv, Registration!PostInv, R!PostInv, Registration!Registering, R!Registering,
   Registration!ConsentNamesTerms, R!ConsentNamesTerms, Registration!ReceiptsTrue, R!ReceiptsTrue

LEMMA SameNext == Registration!Next => R!Next
<1>1. \A o, c : Registration!PlanDiscover(o, c) <=> R!PlanDiscover(o, c)
  BY DEF Registration!PlanDiscover, R!PlanDiscover, Registration!NoCommand, R!NoCommand,
     Registration!Required, R!Required
<1>2. \A o : Registration!PlanLookup(o) <=> R!PlanLookup(o)
  BY DEF Registration!PlanLookup, R!PlanLookup, Registration!Exits, R!Exits
<1>3. \A o, plan, c, consent, at, eab :
         Registration!StartRegister(o, plan, c, consent, at, eab)
         <=> R!StartRegister(o, plan, c, consent, at, eab)
  BY DEF Registration!StartRegister, R!StartRegister, Registration!NoCommand, R!NoCommand,
     Registration!ValidPlan, R!ValidPlan, Registration!ValidAcceptance, R!ValidAcceptance
<1>4. \A o : Registration!Rediscover(o) <=> R!Rediscover(o)
  BY DEF Registration!Rediscover, R!Rediscover, Registration!Required, R!Required,
     Registration!Exits, R!Exits
<1>5. \A o : Registration!RegisterLookup(o) <=> R!RegisterLookup(o)
  BY DEF Registration!RegisterLookup, R!RegisterLookup, Registration!Exits, R!Exits
<1>6. \A p : Registration!NewAccount(p) <=> R!NewAccount(p)
  BY Zenon DEF Registration!NewAccount, R!NewAccount, Registration!PrintsReceipt, R!PrintsReceipt,
     Registration!Exits, R!Exits
<1>7. \A o : Registration!CommandFails(o) <=> R!CommandFails(o)
  BY DEF Registration!CommandFails, R!CommandFails, Registration!Exits, R!Exits
<1>8. \A d : Registration!DirectoryChanges(d) <=> R!DirectoryChanges(d)
  BY DEF Registration!DirectoryChanges, R!DirectoryChanges
<1>9. Registration!Tick <=> R!Tick
  BY DEF Registration!Tick, R!Tick
<1>10. Registration!Terms = R!Terms /\ Registration!Time = R!Time
  BY DEF Registration!Terms, R!Terms, Registration!Time, R!Time
<1> QED
  BY <1>1, <1>2, <1>3, <1>4, <1>5, <1>6, <1>7, <1>8, <1>9, <1>10, Zenon
  DEF Registration!Next, R!Next

\* The constants are of the types the lemmas on registration ask for.
LEMMA RegistrationTyped == R!ConstantsTyped
BY RegistrationAssumption DEF R!ConstantsTyped

-----------------------------------------------------------------------------
\* At the start there is no account and no run.
LEMMA IssuanceInitInv == IssuanceInit => IssuanceInv
<1> SUFFICES ASSUME IssuanceInit PROVE IssuanceInv
  OBVIOUS
<1>1. Dns01Inv /\ R!RegistrationInv
  BY RegistrationTyped, SameInit, Dns01InitInv, R!RegistrationInitInv DEF IssuanceInit
<1>2. registered = FALSE /\ account = {}
  BY DEF IssuanceInit, Registration!Init
<1> QED
  BY <1>1, <1>2, SameInv DEF IssuanceInv

\* A step of a registration: of the issuer's state it changes only whether there is an
\* account.
LEMMA RegistersStep ==
    ASSUME IssuanceInv, Registers
    PROVE  IssuanceInv'
<1>1. R!RegistrationInv'
  BY RegistrationTyped, SameInv, SameNext, R!RegistrationNextInv DEF IssuanceInv, Registers
<1>2. Registration!RegistrationInv'
  BY <1>1, SameInv, PTL
<1>3. registered' = (account' # {}) /\ registered' \in BOOLEAN
  BY Zenon DEF Registers
<1>4. Dns01Inv'
  <2>1. UNCHANGED <<provider, run>> /\ UNCHANGED <<authz, dns>>
    BY DEF Registers
  <2>2. authz' \in [Token -> AuthzStatus] /\ dns' \subseteq Token
    BY <2>1 DEF IssuanceInv, Dns01Inv, TypeOK
  <2> QED
    BY <1>3, <2>1, <2>2, OutsideStep DEF IssuanceInv
<1> QED
  BY <1>2, <1>3, <1>4 DEF IssuanceInv

\* A step of the issuer leaves the registration alone.
LEMMA IssuesStep ==
    ASSUME IssuanceInv, Issues
    PROVE  IssuanceInv'
<1>1. UNCHANGED <<dir, account, clock, plans, posts, receipts, cmd>>
  BY DEF Issues, registration
<1>2. R!RegistrationInv'
  <2>1. UNCHANGED R!vars
    BY <1>1 DEF R!vars
  <2> QED
    BY <2>1, SameInv, R!RegistrationStutter DEF IssuanceInv
<1>3. Registration!RegistrationInv'
  BY <1>2, SameInv, PTL
<1>4. Dns01Inv'
  BY Dns01NextInv DEF IssuanceInv, Issues
<1>5. registered' = registered
  BY DEF Issues, Next, Start, LookupAccount, AuthorizeOrder, GetAuthorization, CreateArrives,
     Presented, Observed, Accept, WaitAuthorization, DeleteArrives, Deleted, CleanupFails,
     WaitOrder, CreateOrderCert, CallFails, Fails, Cancel, CancelSeen, Dies,
     CAValidates, Forget, Propagate
<1> QED
  BY <1>1, <1>3, <1>4, <1>5 DEF IssuanceInv

\* Both components stutter.
LEMMA IssuanceStutter ==
    ASSUME IssuanceInv, UNCHANGED <<vars, registration>>
    PROVE  IssuanceInv'
<1>1. UNCHANGED vars /\ registered' = registered /\ account' = account
  BY DEF vars, registration
<1>2. R!RegistrationInv'
  <2>1. UNCHANGED R!vars
    BY DEF R!vars, registration
  <2> QED
    BY <2>1, SameInv, R!RegistrationStutter DEF IssuanceInv
<1>3. Registration!RegistrationInv'
  BY <1>2, SameInv, PTL
<1>4. Dns01Inv'
  BY <1>1, Dns01Stutter DEF IssuanceInv
<1> QED
  BY <1>1, <1>3, <1>4 DEF IssuanceInv

-----------------------------------------------------------------------------
\* The invariants of both components hold in every state of the two together.
THEOREM IssuanceAlwaysInv == IssuanceSpec => []IssuanceInv
<1>1. IssuanceInit => IssuanceInv
  BY IssuanceInitInv
<1>2. IssuanceInv /\ [Registers \/ Issues]_<<vars, registration>> => IssuanceInv'
  BY RegistersStep, IssuesStep, IssuanceStutter
<1> QED
  BY <1>1, <1>2, PTL DEF IssuanceSpec

\* Whatever the CA publishes between plan and registration, however late the request, an
\* account agrees to no terms but those the operator accepted by name and the CA served
\* (Register's prompt and validateACMETermsAcceptance).
THEOREM ConsentAlwaysNamed == IssuanceSpec => []ConsentNamesTerms
<1>1. IssuanceInv => ConsentNamesTerms
  BY DEF IssuanceInv, Registration!RegistrationInv, ConsentNamesTerms
<1> QED
  BY <1>1, IssuanceAlwaysInv, PTL

\* A receipt tells of the account that exists, whoever else registers the same key and
\* whichever answers are lost (Register's handling of ErrAccountAlreadyExists).
THEOREM ReceiptsAlwaysTrue == IssuanceSpec => []ReceiptsTrue
<1>1. IssuanceInv => ReceiptsTrue
  BY DEF IssuanceInv, Registration!RegistrationInv, ReceiptsTrue
<1> QED
  BY <1>1, IssuanceAlwaysInv, PTL

\* A certificate is finalized only when none of the run's records is left in the zone
\* (the comment of IssueRenewal), for any number of runs, names and authorizations.
THEOREM CertAlwaysAfterCleanup == IssuanceSpec => []CertAfterCleanup
<1>1. IssuanceInv => CertAfterCleanup
  BY Dns01Promises DEF IssuanceInv
<1> QED
  BY <1>1, IssuanceAlwaysInv, PTL

\* A run whose last request was confirmed leaves no record (completeDNS01Authorization's
\* deferred Cleanup), however its requests were resent or its context cancelled.
THEOREM NothingEverLeft == IssuanceSpec => []NothingLeft
<1>1. IssuanceInv => NothingLeft
  BY Dns01Promises DEF IssuanceInv
<1> QED
  BY <1>1, IssuanceAlwaysInv, PTL

\* Nobody removes the record a run waits for but a run with the same authorization
\* (the provider's Cleanup deletes by identifier).
THEOREM RecordAlwaysStands == IssuanceSpec => []RecordStands
<1>1. IssuanceInv => RecordStands
  BY Dns01Promises DEF IssuanceInv
<1> QED
  BY <1>1, IssuanceAlwaysInv, PTL

=============================================================================
