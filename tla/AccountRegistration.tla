------------------------ MODULE AccountRegistration ------------------------
(***************************************************************************)
(* Registration of the ACME account (internal/tlsconfig/                   *)
(* acme_account_registration.go, driven by gateway-acme-account -action    *)
(* plan and -action register).                                             *)
(*                                                                         *)
(* A plan records the terms and requirements of the CA's directory; the    *)
(* operator reads the terms, writes an acceptance and registers with both. *)
(* Each command is a process of its own.  Meanwhile the CA may change its  *)
(* directory, another operator may register the same key, and an answer,   *)
(* or the request itself, may be late.  acme.Client keeps the directory it *)
(* first read, so the terms Register's prompt is shown are those of the    *)
(* rediscovery, as the CA wrote them, while the plan has their URL as      *)
(* validateACMETermsURL rewrites it; a request whose prompt disagreed is   *)
(* sent all the same.                                                      *)
(***************************************************************************)
EXTENDS Naturals

CONSTANTS
    Command,    \* invocations of the command
    Directory,  \* directories the CA may serve: records [terms, eab, verbatim], the last
                \* saying whether the URL of the terms is written as url.URL writes it
    NoTerms,    \* a directory without terms
    Contact,    \* contact sets, by their digest
    Lifetime,   \* how long a plan and an acceptance can be used
    MaxTime     \* bound on the clock

Terms == {d.terms : d \in Directory}

Time == 0..MaxTime

\* What a plan keeps of a directory.
Required(d) == [terms |-> d.terms, eab |-> d.eab]

Plan == [dir : {Required(d) : d \in Directory}, contact : Contact, at : Time]

\* A request that creates the account; claims: the terms it asserts to be agreed to, if any;
\* consent and served: ghosts, the terms the operator's acceptance names, and those the
\* CA served between the start of the command and the request.
Post == [by : Command, claims : Terms \cup {NoTerms}, consent : Terms \cup {NoTerms},
         served : SUBSET Terms, contact : Contact, eab : BOOLEAN]

VARIABLES
    dir,       \* the directory the CA serves
    account,   \* the posts that created an account: none or one
    clock,
    plans,     \* plans printed for the operator
    posts,     \* requests under way to the CA
    receipts,  \* receipts printed
    cmd        \* each command: where it is, what it was given, what it has read

vars == <<dir, account, clock, plans, posts, receipts, cmd>>

NoCommand == [pc |-> "idle"]

CommandState ==
    {NoCommand} \cup [pc : {"done"}]
    \cup [pc : {"plan"}, contact : Contact, at : Time,
          dir : {Required(d) : d \in Directory}]
    \cup [pc : {"discover", "lookup", "await"}, plan : Plan,
          consent : Terms \cup {NoTerms}, eab : BOOLEAN, served : SUBSET Terms,
          agrees : BOOLEAN]

\* The type invariant.
TypeOK ==
    /\ dir \in Directory
    /\ account \subseteq Post
    /\ clock \in Time
    /\ plans \subseteq Plan
    /\ posts \subseteq Post
    /\ receipts \subseteq [by : Command, plan : Plan, eab : BOOLEAN]
    /\ cmd \in [Command -> CommandState]

Init ==
    /\ dir \in Directory
    /\ account = {} /\ posts = {}
    /\ clock = 0
    /\ plans = {} /\ receipts = {}
    /\ cmd = [o \in Command |-> NoCommand]

Exits(o) == cmd' = [cmd EXCEPT ![o] = [pc |-> "done"]]

-----------------------------------------------------------------------------
(* PrepareRegistration.                                                    *)

\* The clock is read, then the directory.
PlanDiscover(o, c) ==
    /\ cmd[o] = NoCommand
    /\ cmd' = [cmd EXCEPT ![o] = [pc |-> "plan", contact |-> c, at |-> clock,
                                  dir |-> Required(dir)]]
    /\ UNCHANGED <<dir, account, clock, plans, posts, receipts>>

\* Mutant: the plan leaves out that an external account binding is required.
MutPlanLookup(o) ==
    /\ cmd[o].pc = "plan"
    /\ plans' = IF account # {} THEN plans
                ELSE plans \cup {[dir |-> [terms |-> cmd[o].dir.terms, eab |-> FALSE],
                                  contact |-> cmd[o].contact, at |-> cmd[o].at]}
    /\ Exits(o)
    /\ UNCHANGED <<dir, account, clock, posts, receipts>>

\* A key that already has an account gets no plan.
PlanLookup(o) ==
    /\ cmd[o].pc = "plan"
    /\ plans' = IF account # {} THEN plans
                ELSE plans \cup {[dir |-> cmd[o].dir, contact |-> cmd[o].contact,
                                  at |-> cmd[o].at]}
    /\ Exits(o)
    /\ UNCHANGED <<dir, account, clock, posts, receipts>>

-----------------------------------------------------------------------------
(* Register.                                                               *)

\* validateACMERegistrationPlan: made for these contacts, not from the future, and no
\* older than its lifetime.
ValidPlan(plan, c) ==
    /\ plan.contact = c
    /\ plan.at <= clock /\ clock - plan.at <= Lifetime

\* Mutant: an acceptance of any terms is taken for the plan's.
MutValidAcceptance(plan, consent, at) ==
    IF plan.dir.terms = NoTerms THEN consent = NoTerms
    ELSE consent # NoTerms /\ at <= clock /\ clock - at <= Lifetime

\* validateACMETermsAcceptance: the acceptance names the plan's terms and is as recent
\* as a plan has to be; without terms there is nothing to accept.
ValidAcceptance(plan, consent, at) ==
    IF plan.dir.terms = NoTerms THEN consent = NoTerms
    ELSE consent = plan.dir.terms /\ at <= clock /\ clock - at <= Lifetime

\* The operator registers with a plan, contacts, an acceptance and perhaps an external
\* account binding; what the checks refuse changes nothing.
StartRegister(o, plan, c, consent, at, eab) ==
    /\ cmd[o] = NoCommand
    /\ plan \in plans
    /\ ValidPlan(plan, c)
    /\ ValidAcceptance(plan, consent, at)
    /\ plan.dir.eab => eab
    /\ cmd' = [cmd EXCEPT ![o] = [pc |-> "discover", plan |-> plan, consent |-> consent,
                                  eab |-> eab, served |-> {dir.terms},
                                  agrees |-> FALSE]]
    /\ UNCHANGED <<dir, account, clock, plans, posts, receipts>>

\* The directory is read again; requirements other than the plan's end the command.  The
\* prompt will agree if it is shown the plan's URL to the letter.
Rediscover(o) ==
    /\ cmd[o].pc = "discover"
    /\ IF Required(dir) = cmd[o].plan.dir
       THEN cmd' = [cmd EXCEPT ![o].pc = "lookup", ![o].agrees = dir.verbatim]
       ELSE Exits(o)
    /\ UNCHANGED <<dir, account, clock, plans, posts, receipts>>

\* The key must still have no account.  Then the request is sent, agreeing or not.
RegisterLookup(o) ==
    /\ cmd[o].pc = "lookup"
    /\ IF account # {}
       THEN Exits(o) /\ UNCHANGED posts
       ELSE /\ cmd' = [cmd EXCEPT ![o].pc = "await"]
            /\ posts' = posts \cup {[by |-> o, claims |-> IF cmd[o].agrees THEN cmd[o].plan.dir.terms
                                                         ELSE NoTerms,
                                     consent |-> cmd[o].consent, served |-> cmd[o].served,
                                     contact |-> cmd[o].plan.contact, eab |-> cmd[o].eab]}
    /\ UNCHANGED <<dir, account, clock, plans, receipts>>

\* Mutant: acme.ErrAccountAlreadyExists is taken for success.
MutPrintsReceipt(p) == cmd[p.by].pc = "await"

\* Register succeeded: the answer came in time, announces a new account, and the prompt
\* was shown the plan's terms if it has any.
PrintsReceipt(p) ==
    cmd[p.by].pc = "await" /\ account = {} /\ p.claims = cmd[p.by].plan.dir.terms

\* The CA handles a request that creates an account, unless the key has one or a
\* binding is required and missing (it may be strict or not about its terms); if the command still waits, it gets the answer.
NewAccount(p) ==
    LET o == p.by
        creates == account = {} /\ (dir.eab => p.eab)
    IN
    /\ p \in posts
    /\ posts' = posts \ {p}
    /\ account' = IF creates THEN {p} ELSE account
    /\ receipts' = IF PrintsReceipt(p) /\ (dir.eab => p.eab)
                   THEN receipts \cup {[by |-> o, plan |-> cmd[o].plan, eab |-> cmd[o].eab]}
                   ELSE receipts
    /\ IF cmd[o].pc = "await" THEN Exits(o) ELSE UNCHANGED cmd
    /\ UNCHANGED <<dir, clock, plans>>

\* A call to the CA fails, its answer is lost, or the timeout is over: the command
\* prints an error, whatever becomes of the request it sent.
CommandFails(o) ==
    /\ cmd[o].pc \notin {"idle", "done"}
    /\ Exits(o)
    /\ UNCHANGED <<dir, account, clock, plans, posts, receipts>>

\* The CA publishes other terms or requirements.
DirectoryChanges(d) ==
    /\ d # dir
    /\ dir' = d
    /\ cmd' = [o \in Command |-> IF cmd[o].pc \in {"discover", "lookup"}
                                 THEN [cmd[o] EXCEPT !.served = @ \cup {d.terms}] ELSE cmd[o]]
    /\ UNCHANGED <<account, clock, plans, posts, receipts>>

Tick ==
    /\ clock < MaxTime
    /\ clock' = clock + 1
    /\ UNCHANGED <<dir, account, plans, posts, receipts, cmd>>

-----------------------------------------------------------------------------
Next ==
    \/ \E o \in Command :
          \/ \E c \in Contact : PlanDiscover(o, c)
          \/ PlanLookup(o)
          \/ \E plan \in plans, c \in Contact, consent \in Terms \cup {NoTerms},
                at \in Time, eab \in BOOLEAN : StartRegister(o, plan, c, consent, at, eab)
          \/ Rediscover(o) \/ RegisterLookup(o) \/ CommandFails(o)
    \/ \E p \in posts : NewAccount(p)
    \/ \E d \in Directory : DirectoryChanges(d)
    \/ Tick

Spec == Init /\ [][Next]_vars

-----------------------------------------------------------------------------
\* The terms an account agreed to are those the operator accepted by name, and the CA
\* served them at some moment of the registration, not only when the plan was made.
ConsentNamesTerms ==
    \A p \in account :
        p.claims # NoTerms => p.claims = p.consent /\ p.claims \in p.served

\* At most one receipt is printed, and it tells of the account that exists: made by that
\* command, with its contacts, terms and binding.
ReceiptsTrue ==
    \A t \in receipts :
        \E p \in account :
            /\ p.by = t.by
            /\ p.claims = t.plan.dir.terms /\ p.contact = t.plan.contact
            /\ p.eab = t.eab

-----------------------------------------------------------------------------
(* What holds of every reachable state, and is preserved by every step.    *)

Registering == {"discover", "lookup", "await"}

\* A command that registers was given an acceptance of its plan's terms; until its
\* request is sent it has seen every directory served, its plan's once it was found again.
CommandInv(o) ==
    /\ cmd[o].pc \in Registering => cmd[o].consent = cmd[o].plan.dir.terms
    /\ cmd[o].pc \in {"discover", "lookup"} => dir.terms \in cmd[o].served
    /\ cmd[o].pc = "lookup" => cmd[o].plan.dir.terms \in cmd[o].served

\* A request claims what was consented to and served; it is of a command that waits for
\* it, and tells what that command was given, or that has ended.
PostInv(p) ==
    /\ p.claims # NoTerms => p.claims = p.consent /\ p.claims \in p.served
    /\ cmd[p.by].pc \in {"await", "done"}
    /\ cmd[p.by].pc = "await" => p.contact = cmd[p.by].plan.contact /\ p.eab = cmd[p.by].eab

\* The inductive invariant: the two properties above are part of it.
RegistrationInv ==
    /\ TypeOK
    /\ \A o \in Command : CommandInv(o)
    /\ \A p \in posts : PostInv(p)
    /\ ConsentNamesTerms
    /\ ReceiptsTrue

=============================================================================
