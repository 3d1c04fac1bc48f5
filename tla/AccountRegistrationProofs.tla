--------------------- MODULE AccountRegistrationProofs ----------------------
(* ConsentNamesTerms and ReceiptsTrue for any commands, directories,       *)
(* contacts and bounds.  The constants' types are a hypothesis of the      *)
(* lemmas: AcmeIssuanceProofs, which instances this module, has them from  *)
(* RegistrationAssumption.                                                 *)
EXTENDS AccountRegistration, TLAPS

ConstantsTyped ==
    /\ \A d \in Directory : d.eab \in BOOLEAN /\ d.verbatim \in BOOLEAN
    /\ MaxTime \in Nat

Planned == {Required(d) : d \in Directory}

Planning == [pc : {"plan"}, contact : Contact, at : Time, dir : Planned]

Register == [pc : Registering, plan : Plan, consent : Terms \cup {NoTerms}, eab : BOOLEAN,
             served : SUBSET Terms, agrees : BOOLEAN]

\* What a command is, by where it is.
LEMMA CommandFacts ==
    ASSUME TypeOK, NEW o \in Command
    PROVE  /\ cmd \in [Command -> CommandState] /\ cmd[o] \in CommandState
           /\ cmd[o].pc = "plan" => cmd[o] \in Planning
           /\ cmd[o].pc \in Registering => cmd[o] \in Register
           /\ cmd[o].pc \in {"idle", "plan", "done"} \cup Registering
BY DEF TypeOK, CommandState, NoCommand, Planning, Planned, Register, Registering

LEMMA StateTypes ==
    /\ [pc |-> "done"] \in CommandState /\ NoCommand \in CommandState
    /\ Planning \subseteq CommandState /\ Register \subseteq CommandState
BY DEF CommandState, NoCommand, Planning, Planned, Register, Registering

\* What a directory requires.
LEMMA RequiredFacts ==
    ASSUME ConstantsTyped, NEW d \in Directory
    PROVE  /\ Required(d) \in Planned /\ Required(d).terms = d.terms /\ d.terms \in Terms
           /\ Required(d).eab = d.eab /\ d.eab \in BOOLEAN /\ d.verbatim \in BOOLEAN
BY DEF ConstantsTyped, Planned, Required, Terms

LEMMA RegistrationInitInv ==
    ASSUME ConstantsTyped, Init
    PROVE  RegistrationInv
<1>1. TypeOK
  BY StateTypes DEF Init, TypeOK, ConstantsTyped, Time
<1>2. \A o \in Command : CommandInv(o)
  BY DEF Init, NoCommand, CommandInv, Registering
<1> QED
  BY <1>1, <1>2 DEF Init, RegistrationInv, ConsentNamesTerms, ReceiptsTrue

-----------------------------------------------------------------------------
(* A step of one command that sends nothing and changes nothing else.      *)

\* What the next state c of command o has to satisfy.
GoesOn(o, c) ==
    /\ c \in CommandState
    /\ c.pc \in Registering => c.consent = c.plan.dir.terms
    /\ c.pc \in {"discover", "lookup"} => dir.terms \in c.served
    /\ c.pc = "lookup" => c.plan.dir.terms \in c.served
    /\ cmd[o].pc \in {"await", "done"} => c.pc = "done"
    /\ c.pc = "await" => \A p \in posts : p.by # o

LEMMA CommandStep ==
    ASSUME RegistrationInv, NEW o \in Command, NEW c, GoesOn(o, c),
           cmd' = [cmd EXCEPT ![o] = c], plans' \subseteq Plan,
           UNCHANGED <<dir, account, clock, posts, receipts>>
    PROVE  RegistrationInv'
<1>1. /\ cmd' \in [Command -> CommandState] /\ cmd'[o] = c
      /\ \A q \in Command \ {o} : cmd'[q] = cmd[q]
  BY DEF RegistrationInv, TypeOK, GoesOn
<1>2. TypeOK'
  BY <1>1 DEF RegistrationInv, TypeOK
<1>3. ASSUME NEW q \in Command PROVE CommandInv(q)'
  <2>1. CASE q = o
    BY <1>1, <2>1 DEF GoesOn, CommandInv
  <2>2. CASE q # o
    BY <1>1, <2>2 DEF RegistrationInv, CommandInv
  <2> QED
    BY <2>1, <2>2
<1>4. ASSUME NEW p \in posts PROVE PostInv(p)'
  <2>1. p.by \in Command /\ PostInv(p)
    BY DEF RegistrationInv, TypeOK, Post
  <2>2. CASE p.by = o
    BY <1>1, <2>1, <2>2 DEF GoesOn, PostInv
  <2>3. CASE p.by # o
    BY <1>1, <2>1, <2>3 DEF PostInv
  <2> QED
    BY <2>2, <2>3
<1>5. ConsentNamesTerms' /\ ReceiptsTrue'
  BY DEF RegistrationInv, ConsentNamesTerms, ReceiptsTrue
<1> QED
  BY <1>2, <1>3, <1>4, <1>5 DEF RegistrationInv

\* A command ends: with a plan, or with nothing.
LEMMA ExitStep ==
    ASSUME RegistrationInv, NEW o \in Command, Exits(o), plans' \subseteq Plan,
           UNCHANGED <<dir, account, clock, posts, receipts>>
    PROVE  RegistrationInv'
<1>1. GoesOn(o, [pc |-> "done"])
  BY StateTypes DEF GoesOn, Registering
<1> QED
  BY <1>1, CommandStep DEF Exits

LEMMA PlanDiscoverStep ==
    ASSUME ConstantsTyped, RegistrationInv, NEW o \in Command, NEW k \in Contact,
           PlanDiscover(o, k)
    PROVE  RegistrationInv'
<1> DEFINE c == [pc |-> "plan", contact |-> k, at |-> clock, dir |-> Required(dir)]
<1>1. Required(dir) \in Planned /\ clock \in Time
  BY RequiredFacts DEF RegistrationInv, TypeOK
<1>2. c \in CommandState
  <2>1. c \in Planning
    BY <1>1 DEF Planning
  <2> QED
    BY <2>1, StateTypes
<1>3. GoesOn(o, c)
  BY <1>2 DEF GoesOn, Registering, PlanDiscover, NoCommand
<1>4. cmd' = [cmd EXCEPT ![o] = c] /\ plans' \subseteq Plan
  BY DEF PlanDiscover, RegistrationInv, TypeOK
<1> QED
  BY <1>3, <1>4, CommandStep DEF PlanDiscover

LEMMA PlanLookupStep ==
    ASSUME RegistrationInv, NEW o \in Command, PlanLookup(o)
    PROVE  RegistrationInv'
<1>1. cmd[o] \in Planning
  BY CommandFacts DEF RegistrationInv, PlanLookup
<1>2. [dir |-> cmd[o].dir, contact |-> cmd[o].contact, at |-> cmd[o].at] \in Plan
  BY <1>1 DEF Planning, Planned, Plan
<1>3. plans' \subseteq Plan
  BY <1>2 DEF PlanLookup, RegistrationInv, TypeOK
<1> QED
  BY <1>3, ExitStep DEF PlanLookup

LEMMA StartRegisterStep ==
    ASSUME ConstantsTyped, RegistrationInv, NEW o \in Command, NEW plan \in plans,
           NEW k \in Contact, NEW consent \in Terms \cup {NoTerms}, NEW at \in Time,
           NEW eab \in BOOLEAN, StartRegister(o, plan, k, consent, at, eab)
    PROVE  RegistrationInv'
<1> DEFINE c == [pc |-> "discover", plan |-> plan, consent |-> consent, eab |-> eab,
                 served |-> {dir.terms}, agrees |-> FALSE]
<1>1. plan \in Plan /\ dir.terms \in Terms
  BY RequiredFacts DEF RegistrationInv, TypeOK
<1>2. c \in CommandState
  <2>1. c \in Register
    BY <1>1 DEF Register, Registering
  <2> QED
    BY <2>1, StateTypes
<1>3. consent = plan.dir.terms
  BY DEF StartRegister, ValidAcceptance
<1>4. GoesOn(o, c)
  BY <1>2, <1>3 DEF GoesOn, StartRegister, NoCommand
<1>5. cmd' = [cmd EXCEPT ![o] = c] /\ plans' \subseteq Plan
  BY DEF StartRegister, RegistrationInv, TypeOK
<1> QED
  BY <1>4, <1>5, CommandStep DEF StartRegister

LEMMA RediscoverStep ==
    ASSUME ConstantsTyped, RegistrationInv, NEW o \in Command, Rediscover(o)
    PROVE  RegistrationInv'
<1> DEFINE c == [cmd[o] EXCEPT !.pc = "lookup", !.agrees = dir.verbatim]
<1>1. plans' \subseteq Plan /\ UNCHANGED <<dir, account, clock, posts, receipts>>
  BY DEF Rediscover, RegistrationInv, TypeOK
<1>2. CASE Required(dir) = cmd[o].plan.dir
  <2>1. cmd[o] \in Register /\ cmd[o].pc = "discover" /\ CommandInv(o)
        /\ cmd \in [Command -> CommandState]
    BY CommandFacts DEF Rediscover, RegistrationInv, Registering
  <2>2. dir.verbatim \in BOOLEAN /\ dir.terms = cmd[o].plan.dir.terms
    BY <1>2, RequiredFacts DEF RegistrationInv, TypeOK
  <2>3. /\ c \in Register /\ c.pc = "lookup" /\ c.plan = cmd[o].plan /\ c.served = cmd[o].served
        /\ c.consent = cmd[o].consent
    BY <2>1, <2>2 DEF Register, Registering
  <2>4. GoesOn(o, c)
    BY <2>1, <2>2, <2>3, StateTypes DEF GoesOn, CommandInv, Registering
  <2>5. cmd' = [cmd EXCEPT ![o] = c]
    BY <1>2, <2>1 DEF Rediscover
  <2> QED
    BY <1>1, <2>4, <2>5, CommandStep
<1>3. CASE Exits(o)
  BY <1>1, <1>3, ExitStep
<1> QED
  BY <1>2, <1>3 DEF Rediscover

LEMMA CommandFailsStep ==
    ASSUME RegistrationInv, NEW o \in Command, CommandFails(o)
    PROVE  RegistrationInv'
BY ExitStep DEF CommandFails, RegistrationInv, TypeOK

-----------------------------------------------------------------------------
(* The request and its answer; the CA's directory and the clock.           *)

\* The request claims the plan's terms or none.
LEMMA RegisterLookupStep ==
    ASSUME RegistrationInv, NEW o \in Command, RegisterLookup(o)
    PROVE  RegistrationInv'
<1>1. cmd[o] \in Register /\ cmd[o].pc = "lookup" /\ CommandInv(o)
      /\ cmd \in [Command -> CommandState]
  BY CommandFacts DEF RegisterLookup, RegistrationInv, Registering
<1>2. UNCHANGED <<dir, account, clock, plans, receipts>>
  BY DEF RegisterLookup
<1>3. CASE Exits(o) /\ UNCHANGED posts
  BY <1>2, <1>3, ExitStep DEF RegistrationInv, TypeOK
<1>4. CASE account = {}
  <2> DEFINE c == [cmd[o] EXCEPT !.pc = "await"]
             new == [by |-> o, claims |-> IF cmd[o].agrees THEN cmd[o].plan.dir.terms ELSE NoTerms,
                     consent |-> cmd[o].consent, served |-> cmd[o].served,
                     contact |-> cmd[o].plan.contact, eab |-> cmd[o].eab]
  <2>1. posts' = posts \cup {new}
    BY <1>4 DEF RegisterLookup
  <2>2. cmd' = [cmd EXCEPT ![o] = c]
    BY <1>1, <1>4 DEF RegisterLookup
  <2>3. /\ c \in Register /\ c.pc = "await" /\ c.plan = cmd[o].plan /\ c.eab = cmd[o].eab
        /\ c.consent = cmd[o].consent
    BY <1>1 DEF Register, Registering
  <2>4. /\ cmd' \in [Command -> CommandState] /\ cmd'[o] = c
        /\ \A q \in Command \ {o} : cmd'[q] = cmd[q]
    BY <1>1, <2>2, <2>3, StateTypes
  <2>5. cmd[o].consent = cmd[o].plan.dir.terms /\ cmd[o].plan.dir.terms \in cmd[o].served
    BY <1>1 DEF CommandInv, Registering
  <2>6. new \in Post
    <3>1. /\ cmd[o].consent \in Terms \cup {NoTerms} /\ cmd[o].served \in SUBSET Terms
          /\ cmd[o].plan.contact \in Contact /\ cmd[o].eab \in BOOLEAN
      BY <1>1 DEF Register, Plan
    <3>2. new.claims \in Terms \cup {NoTerms}
      BY <3>1, <2>5
    <3> QED
      BY <3>1, <3>2 DEF Post
  <2>7. TypeOK'
    BY <1>2, <2>1, <2>4, <2>6 DEF RegistrationInv, TypeOK
  <2>8. ASSUME NEW q \in Command PROVE CommandInv(q)'
    <3>1. CASE q = o
      BY <3>1, <2>3, <2>4, <2>5 DEF CommandInv
    <3>2. CASE q # o
      BY <1>2, <3>2, <2>4 DEF RegistrationInv, CommandInv
    <3> QED
      BY <3>1, <3>2
  <2>9. ASSUME NEW p \in posts PROVE PostInv(p)'
    <3>1. p.by \in Command /\ PostInv(p)
      BY DEF RegistrationInv, TypeOK, Post
    <3>2. p.by # o
      BY <1>1, <3>1 DEF PostInv
    <3> QED
      BY <3>1, <3>2, <2>4 DEF PostInv
  <2>10. ASSUME NEW p, p = new PROVE PostInv(p)'
    <3>1. p.by = o /\ p.contact = c.plan.contact /\ p.eab = c.eab
      BY <2>3, <2>10
    <3>2. p.claims # NoTerms => p.claims = p.consent /\ p.claims \in p.served
      BY <2>5, <2>10
    <3> HIDE DEF new, c
    <3> QED
      BY <3>1, <3>2, <2>3, <2>4 DEF PostInv
  <2>11. ConsentNamesTerms' /\ ReceiptsTrue'
    BY <1>2 DEF RegistrationInv, ConsentNamesTerms, ReceiptsTrue
  <2>12. \A p \in posts' : PostInv(p)'
    BY <2>1, <2>9, <2>10
  <2> QED
    BY <2>7, <2>8, <2>11, <2>12 DEF RegistrationInv
<1> QED
  BY <1>3, <1>4 DEF RegisterLookup

\* The CA answers a request: the account it makes, if any, is what the receipt tells.
LEMMA NewAccountStep ==
    ASSUME RegistrationInv, NEW p \in posts, NewAccount(p)
    PROVE  RegistrationInv'
<1> DEFINE o == p.by
           receipt == [by |-> o, plan |-> cmd[o].plan, eab |-> cmd[o].eab]
<1>1. p \in Post /\ o \in Command /\ PostInv(p)
  BY DEF RegistrationInv, TypeOK, Post
<1>2. /\ posts' = posts \ {p} /\ UNCHANGED <<dir, clock, plans>>
      /\ account' = account \/ (account = {} /\ account' = {p})
      /\ receipts' = receipts \/ (/\ receipts' = receipts \cup {receipt} /\ account' = {p}
                                  /\ account = {} /\ cmd[o].pc = "await"
                                  /\ p.claims = cmd[o].plan.dir.terms)
  BY DEF NewAccount, PrintsReceipt
<1>3. cmd' = cmd \/ (cmd[o].pc = "await" /\ cmd' = [cmd EXCEPT ![o] = [pc |-> "done"]])
  BY DEF NewAccount, Exits
<1>4. /\ cmd' \in [Command -> CommandState]
      /\ \A q \in Command : cmd'[q] = cmd[q] \/ (cmd[q].pc = "await" /\ cmd'[q] = [pc |-> "done"])
  BY <1>1, <1>3, StateTypes DEF RegistrationInv, TypeOK
<1>5. TypeOK'
  <2>1. account' \subseteq Post /\ posts' \subseteq Post
    BY <1>1, <1>2 DEF RegistrationInv, TypeOK
  <2>2. receipts' \subseteq [by : Command, plan : Plan, eab : BOOLEAN]
    <3>1. cmd[o].pc = "await" => receipt \in [by : Command, plan : Plan, eab : BOOLEAN]
      BY <1>1, CommandFacts DEF RegistrationInv, Registering, Register
    <3> QED
      BY <1>2, <3>1 DEF RegistrationInv, TypeOK
  <2> QED
    BY <1>2, <1>4, <2>1, <2>2 DEF RegistrationInv, TypeOK
<1>6. ASSUME NEW q \in Command PROVE CommandInv(q)'
  BY <1>2, <1>4 DEF RegistrationInv, CommandInv, Registering
<1>7. ASSUME NEW s \in posts' PROVE PostInv(s)'
  <2>1. s.by \in Command /\ PostInv(s)
    BY <1>2 DEF RegistrationInv, TypeOK, Post
  <2> QED
    BY <1>4, <2>1 DEF PostInv
<1>8. ConsentNamesTerms'
  BY <1>1, <1>2 DEF RegistrationInv, ConsentNamesTerms, PostInv
<1>9. ReceiptsTrue'
  <2>1. account = {} => receipts = {}
    BY DEF RegistrationInv, ReceiptsTrue
  <2>2. CASE receipts' = receipts
    BY <1>2, <2>1, <2>2 DEF RegistrationInv, ReceiptsTrue
  <2>3. CASE /\ receipts' = receipts \cup {receipt} /\ account' = {p}
             /\ account = {} /\ cmd[o].pc = "await" /\ p.claims = cmd[o].plan.dir.terms
    <3>1. receipts' = {receipt} /\ account' = {p}
      BY <2>1, <2>3
    <3>2. /\ p.by = receipt.by /\ p.claims = receipt.plan.dir.terms
          /\ p.contact = receipt.plan.contact /\ p.eab = receipt.eab
      BY <1>1, <2>3 DEF PostInv
    <3> HIDE DEF receipt
    <3> QED
      BY <3>1, <3>2 DEF ReceiptsTrue
  <2> QED
    BY <1>2, <2>2, <2>3
<1> QED
  BY <1>5, <1>6, <1>7, <1>8, <1>9 DEF RegistrationInv

\* A command that has not sent its request sees the change.
LEMMA DirectoryChangesStep ==
    ASSUME ConstantsTyped, RegistrationInv, NEW d \in Directory, DirectoryChanges(d)
    PROVE  RegistrationInv'
<1> DEFINE Seen(c) == [c EXCEPT !.served = @ \cup {d.terms}]
<1>1. /\ dir' = d /\ UNCHANGED <<account, clock, plans, posts, receipts>>
      /\ cmd' = [o \in Command |-> IF cmd[o].pc \in {"discover", "lookup"}
                                   THEN Seen(cmd[o]) ELSE cmd[o]]
  BY DEF DirectoryChanges
<1>2. ASSUME NEW o \in Command, cmd[o].pc \in {"discover", "lookup"}
      PROVE  /\ cmd'[o] \in CommandState /\ cmd'[o].pc = cmd[o].pc
             /\ cmd'[o].plan = cmd[o].plan /\ cmd'[o].consent = cmd[o].consent
             /\ cmd'[o].served = cmd[o].served \cup {d.terms}
  <2>1. cmd[o] \in Register /\ d.terms \in Terms
    BY <1>2, CommandFacts, RequiredFacts DEF RegistrationInv, Registering
  <2>2. cmd'[o] = Seen(cmd[o])
    BY <1>1, <1>2
  <2>3. Seen(cmd[o]) \in Register
    BY <2>1 DEF Register
  <2> QED
    BY <2>1, <2>2, <2>3, StateTypes DEF Register
<1>3. \A o \in Command : cmd[o].pc \notin {"discover", "lookup"} => cmd'[o] = cmd[o]
  BY <1>1
<1>4. TypeOK'
  <2>1. cmd' \in [Command -> CommandState]
    BY <1>1, <1>2, <1>3, CommandFacts DEF RegistrationInv
  <2> QED
    BY <1>1, <2>1 DEF RegistrationInv, TypeOK
<1>5. ASSUME NEW o \in Command PROVE CommandInv(o)'
  <2>1. CASE cmd[o].pc \in {"discover", "lookup"}
    BY <1>1, <1>2, <2>1 DEF RegistrationInv, CommandInv, Registering
  <2>2. CASE cmd[o].pc \notin {"discover", "lookup"}
    BY <1>3, <2>2 DEF RegistrationInv, CommandInv
  <2> QED
    BY <2>1, <2>2
<1>6. ASSUME NEW p \in posts PROVE PostInv(p)'
  <2>1. p.by \in Command /\ PostInv(p)
    BY DEF RegistrationInv, TypeOK, Post
  <2> QED
    BY <1>3, <2>1 DEF PostInv
<1>7. ConsentNamesTerms' /\ ReceiptsTrue'
  BY <1>1 DEF RegistrationInv, ConsentNamesTerms, ReceiptsTrue
<1> QED
  BY <1>1, <1>4, <1>5, <1>6, <1>7 DEF RegistrationInv

LEMMA TickStep ==
    ASSUME ConstantsTyped, RegistrationInv, Tick
    PROVE  RegistrationInv'
<1>1. clock' \in Time
  BY DEF Tick, ConstantsTyped, RegistrationInv, TypeOK, Time
<1>2. TypeOK'
  BY <1>1 DEF Tick, RegistrationInv, TypeOK
<1>3. ConsentNamesTerms' /\ ReceiptsTrue'
  BY DEF Tick, RegistrationInv, ConsentNamesTerms, ReceiptsTrue
<1>4. (\A o \in Command : CommandInv(o)') /\ \A p \in posts' : PostInv(p)'
  BY DEF Tick, RegistrationInv, CommandInv, PostInv
<1> QED
  BY <1>2, <1>3, <1>4 DEF RegistrationInv

-----------------------------------------------------------------------------
\* Every step of a registration preserves the invariant.
LEMMA RegistrationNextInv ==
    ASSUME ConstantsTyped, RegistrationInv, Next
    PROVE  RegistrationInv'
<1> DEFINE Starts(o) == \E plan \in plans, c \in Contact, consent \in Terms \cup {NoTerms},
                          at \in Time, eab \in BOOLEAN : StartRegister(o, plan, c, consent, at, eab)
           Plans(o) == \E c \in Contact : PlanDiscover(o, c)
           Goes(o) == \/ Plans(o) \/ PlanLookup(o) \/ Starts(o) \/ Rediscover(o)
                      \/ RegisterLookup(o) \/ CommandFails(o)
<1>1. ASSUME NEW o \in Command, Starts(o) PROVE RegistrationInv'
  BY <1>1, StartRegisterStep
<1>2. ASSUME NEW o \in Command, Plans(o) PROVE RegistrationInv'
  BY <1>2, PlanDiscoverStep
<1>3. ASSUME NEW o \in Command, Goes(o) PROVE RegistrationInv'
  <2> HIDE DEF Starts, Plans
  <2> QED
    BY <1>1, <1>2, <1>3, PlanLookupStep, RediscoverStep, RegisterLookupStep, CommandFailsStep
<1>4. CASE \E p \in posts : NewAccount(p)
  BY <1>4, NewAccountStep
<1>5. CASE \E d \in Directory : DirectoryChanges(d)
  BY <1>5, DirectoryChangesStep
<1>6. CASE Tick
  BY <1>6, TickStep
<1>7. (\E o \in Command : Goes(o)) \/ (\E p \in posts : NewAccount(p))
      \/ (\E d \in Directory : DirectoryChanges(d)) \/ Tick
  BY Zenon DEF Next
<1> HIDE DEF Goes
<1> QED
  BY <1>3, <1>4, <1>5, <1>6, <1>7

\* So does a step that leaves the registration alone.
LEMMA RegistrationStutter ==
    ASSUME RegistrationInv, UNCHANGED vars
    PROVE  RegistrationInv'
<1>1. TypeOK'
  BY DEF vars, RegistrationInv, TypeOK
<1>2. ConsentNamesTerms' /\ ReceiptsTrue'
  BY DEF vars, RegistrationInv, ConsentNamesTerms, ReceiptsTrue
<1>3. (\A o \in Command : CommandInv(o)') /\ \A p \in posts' : PostInv(p)'
  BY DEF vars, RegistrationInv, CommandInv, PostInv
<1> QED
  BY <1>1, <1>2, <1>3 DEF RegistrationInv

\* The invariant holds in every state a registration reaches.
THEOREM RegistrationAlwaysInv == ConstantsTyped => (Spec => []RegistrationInv)
<1> SUFFICES ASSUME ConstantsTyped PROVE Spec => []RegistrationInv
  OBVIOUS
<1>1. Init => RegistrationInv
  BY RegistrationInitInv
<1>2. RegistrationInv /\ [Next]_vars => RegistrationInv'
  BY RegistrationNextInv, RegistrationStutter
<1> QED
  BY <1>1, <1>2, PTL DEF Spec

=============================================================================
