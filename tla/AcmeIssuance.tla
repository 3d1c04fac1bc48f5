---------------------------- MODULE AcmeIssuance ----------------------------
(***************************************************************************)
(* The two users of the CA together: AccountRegistration makes the account *)
(* that the runs of Dns01Issuer look up before they order.                 *)
(*                                                                         *)
(* All the issuer reads of a registration is whether the account exists,   *)
(* so its runs are explored from a few representative registrations only   *)
(* (Explored, a bound), and registrations do not go on beside them.        *)
(***************************************************************************)
EXTENDS Dns01Issuer

CONSTANTS Command, Directory, NoTerms, Contact, Lifetime, MaxTime,
          Served, Planner, Made  \* the representative registration: its directory, the
                                 \* command that planned it, the request it sends

ASSUME RegistrationAssumption ==
    /\ Served \in Directory
    /\ \A d \in Directory : d.eab \in BOOLEAN /\ d.verbatim \in BOOLEAN
    /\ Lifetime \in Nat /\ MaxTime \in Nat

VARIABLES dir, account, clock, plans, posts, receipts, cmd

Registration == INSTANCE AccountRegistration

registration == <<dir, account, clock, plans, posts, receipts, cmd>>

IssuanceInit == Init /\ Registration!Init /\ registered = FALSE

\* A plan was made and its registration ended with a receipt, or without an account.
Explored ==
    /\ clock = 0 /\ dir = Served /\ posts = {}
    /\ plans = {[dir |-> Registration!Required(Served), contact |-> Made.contact, at |-> 0]}
    /\ cmd[Planner].pc = "done" /\ cmd[Made.by].pc = "done"
    /\ \A o \in Command \ {Planner, Made.by} : cmd[o].pc = "idle"
    /\ account \subseteq {Made}
    /\ account = {} <=> receipts = {}

\* The account of a registration is the one GetReg finds.
Registers ==
    /\ \A r \in Run : At(r, "idle")
    /\ Registration!Next
    /\ registered' = (account' # {})
    /\ UNCHANGED <<authz, provider, dns, run>>

Issues ==
    /\ Explored
    /\ Next
    /\ UNCHANGED registration

IssuanceSpec ==
    IssuanceInit /\ [][Registers \/ Issues]_<<vars, registration>> /\ Fairness

\* The inductive invariants of both components, their types among them; registered tells
\* of the account.
IssuanceInv ==
    /\ Dns01Inv
    /\ Registration!RegistrationInv
    /\ registered <=> account # {}

\* The terms an account agreed to were accepted by name and served during the
\* registration (AccountRegistration).
ConsentNamesTerms == Registration!ConsentNamesTerms

\* A printed receipt tells of the one account that exists (AccountRegistration).
ReceiptsTrue == Registration!ReceiptsTrue

=============================================================================
