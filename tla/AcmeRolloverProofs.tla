------------------------- MODULE AcmeRolloverProofs -------------------------
(* Proofs about AcmeRollover for any number of operators, keys and faults. *)
EXTENDS MCAcmeRolloverModes, TLAPS

\* Whether an envelope can be read is a matter of its bytes.
USE DEF LoadAccount, Readable

\* The four kinds of names in the state directory never coincide.
LEMMA PathFacts ==
    /\ Account \in Path
    /\ \A k \in Key : Bundle(k) \in Path /\ Pending(k) \in Path /\ Retired(k) \in Path
    /\ \A k, l \in Key : /\ Bundle(k) # Pending(l)
                         /\ Bundle(k) # Retired(l)
                         /\ Pending(k) # Retired(l)
                         /\ Bundle(k) = Bundle(l) => k = l
                         /\ Pending(k) = Pending(l) => k = l
    /\ \A k \in Key : Account # Bundle(k) /\ Account # Pending(k) /\ Account # Retired(k)
BY DEF Path, Account, Bundle, Pending, Retired

\* A file that is not there is not whole and names no key.
LEMMA AbsentFacts ==
    Absent \in File /\ Absent.key = NoKey /\ Absent.whole = FALSE /\ Absent.synced = FALSE
BY RolloverAssumption DEF Absent, NewFile, File

\* A file just opened for writing.
LEMMA NewFacts ==
    ASSUME NEW k \in Key, NEW n \in Nonce \cup {0}
    PROVE  /\ NewFile(k, n) \in File /\ NewFile(k, n).key = k /\ NewFile(k, n).nonce = n
           /\ NewFile(k, n).whole = FALSE /\ NewFile(k, n).synced = FALSE
BY DEF NewFile, File

LEMMA IdleFacts == Idle \in Process /\ ProcInv(Idle) /\ Idle.job = "none"
BY AbsentFacts, PathFacts, RolloverAssumption DEF Idle, Process, ProcInv, Job, PC

LEMMA InitInv == Init => RolloverInv
<1> SUFFICES ASSUME Init PROVE RolloverInv
  OBVIOUS
<1>1. TypeOK
  BY AbsentFacts, IdleFacts, RolloverAssumption DEF Init, TypeOK
<1>2. \A d \in survivors : DirInv(d)
  BY AbsentFacts, PathFacts, RolloverAssumption DEF Init, DirInv
<1>3. \A o \in Operator : ProcInv(proc[o])
  BY IdleFacts DEF Init
<1>4. BundleInv
  BY IdleFacts, AbsentFacts, PathFacts DEF Init, BundleInv
<1> QED
  BY <1>1, <1>2, <1>3, <1>4 DEF Init, RolloverInv

-----------------------------------------------------------------------------
(* Facts that, once true, stay true: what every step but a power loss keeps. *)

Stable ==
    /\ \A k \in Key : Settled(k) => Settled(k)'
    /\ \A k \in Key : Known(k) => Known(k)'
    /\ \A k \in Key : Loaded(k) => Loaded(k)'
    /\ \A k \in Key : origin[k] = "prepared" => origin'[k] = "prepared"

\* What is true of a directory stays true of it.
LEMMA DirStable ==
    ASSUME NEW d \in [Path -> File], DirInv(d),
           \A k \in Key : Known(k) => Known(k)',
           \A k \in Key : origin[k] = "prepared" => origin'[k] = "prepared"
    PROVE  DirInv(d)'
BY DEF DirInv, Bundle, Pending, Account

\* What a process that takes no step relies on stays true.
LEMMA ProcStable ==
    ASSUME NEW q \in Process, ProcInv(q), Stable
    PROVE  ProcInv(q)'
BY DEF ProcInv, Stable, Process, Bundle, Pending, Retired, Account

\* A step of operator o touches no bundle but the one it prepares, and leaves that one as
\* its next state says, or, when the prepare is over, synced or on record as left behind.
Bundled(o) ==
    /\ loose \subseteq loose' /\ loose' \subseteq Path
    /\ \A k \in Key : \/ disk'[Bundle(k)] = disk[Bundle(k)]
                      \/ proc[o].job = "prepare" /\ proc[o].new = k
    /\ proc'[o].job = "prepare" => PrepareInv(proc[o])'
    /\ proc[o].job = "prepare" /\ proc'[o].job # "prepare" =>
          (disk'[Bundle(proc[o].new)].whole =>
              disk'[Bundle(proc[o].new)].synced \/ Bundle(proc[o].new) \in loose')

\* A prepare that goes on, or begins with a key of its own.
Fresh(o) ==
    proc'[o].job = "prepare" =>
       /\ proc'[o].new \in Key
       /\ \/ proc[o].job = "prepare" /\ proc'[o].new = proc[o].new
          \/ proc[o].job # "prepare" /\ origin[proc'[o].new] = "unused"

\* A step of one operator that reuses no key and touches no bundle of another's keeps
\* everything.
LEMMA StableStep ==
    ASSUME RolloverInv, NEW o \in Operator,
           proc' \in [Operator -> Process],
           \A u \in Operator \ {o} : proc'[u] = proc[u],
           Fresh(o), Bundled(o),
           \A k \in Key : origin[k] # "unused" => origin'[k] = origin[k],
           disk' \in survivors',
           survivors' \subseteq survivors \cup {disk'}
    PROVE  Stable
<1>1. \A k \in Key : PathKnown(k) /\ origin[k] = "prepared" => PathKnown(k)'
  BY DEF PathKnown, Fresh
<1>2. \A k \in Key : PathKnown(k) => disk'[Bundle(k)] = disk[Bundle(k)]
  BY DEF PathKnown, Bundled
<1>3. \A k \in Key : Loaded(k) => Loaded(k)'
  <2> SUFFICES ASSUME NEW k \in Key, Loaded(k) PROVE Loaded(k)'
    OBVIOUS
  <2>1. PathKnown(k)' /\ origin'[k] = "prepared" /\ disk'[Bundle(k)] = disk[Bundle(k)]
    BY <1>1, <1>2 DEF Loaded
  <2>2. Bundle(k) \in loose' \/ Kept(disk'[Bundle(k)])
    BY <2>1 DEF Loaded, Bundled
  <2> QED
    BY <2>1, <2>2 DEF Loaded, Bundle
<1>4. \A k \in Key : Settled(k) => Settled(k)'
  <2> SUFFICES ASSUME NEW k \in Key, Settled(k) PROVE Settled(k)'
    OBVIOUS
  <2>1. PathKnown(k)' /\ origin'[k] = "prepared" /\ disk'[Bundle(k)] = disk[Bundle(k)]
    BY <1>1, <1>2 DEF Settled
  <2>2. CASE Bundle(k) \in loose
    BY <2>1, <2>2 DEF Settled, Bundled, Bundle
  <2>3. CASE Durable(k)
    <3>1. \A d \in survivors' : Kept(d[Bundle(k)])
      BY <2>1, <2>3 DEF Durable, RolloverInv, TypeOK
    <3> QED
      BY <2>1, <3>1 DEF Settled, Durable, Bundle
  <2> QED
    BY <2>2, <2>3 DEF Settled
<1> QED
  BY <1>3, <1>4 DEF Stable, Known

\* Such a step keeps what is said of the bundles.
LEMMA BundleStep ==
    ASSUME RolloverInv, NEW o \in Operator,
           \A u \in Operator \ {o} : proc'[u] = proc[u],
           Fresh(o), Bundled(o)
    PROVE  BundleInv'
<1>1. \A u \in Operator : proc[u].job = "prepare" =>
         /\ proc[u].new \in Key /\ origin[proc[u].new] = "prepared" /\ PrepareInv(proc[u])
         /\ u # o /\ proc[o].job = "prepare" => proc[o].new # proc[u].new
  BY DEF RolloverInv, ProcInv, BundleInv
<1>2. \A u, v \in Operator :
         proc'[u].job = "prepare" /\ proc'[v].job = "prepare" /\ proc'[u].new = proc'[v].new => u = v
  BY <1>1 DEF Fresh, RolloverInv, BundleInv
<1>3. ASSUME NEW u \in Operator, proc'[u].job = "prepare" PROVE PrepareInv(proc[u])'
  <2>1. CASE u = o
    BY <1>3, <2>1 DEF Bundled
  <2>2. CASE u # o
    <3>1. proc'[u] = proc[u] /\ proc[u].new \in Key /\ PrepareInv(proc[u])
      BY <1>1, <1>3, <2>2
    <3>a. PICK k \in Key : k = proc[u].new /\ ~(proc[o].job = "prepare" /\ proc[o].new = k)
      BY <1>1, <1>3, <2>2, <3>1
    <3>2. disk'[Bundle(proc[u].new)] = disk[Bundle(proc[u].new)]
      BY <3>a DEF Bundled
    <3> QED
      BY <3>1, <3>2 DEF PrepareInv, Bundle
  <2> QED
    BY <2>1, <2>2
<1>4. ASSUME NEW k \in Key, PathKnown(k)', disk'[Bundle(k)].whole
      PROVE  disk'[Bundle(k)].synced \/ Bundle(k) \in loose'
  <2>1. CASE PathKnown(k)
    BY <1>4, <2>1 DEF PathKnown, Bundled, RolloverInv, BundleInv
  <2>2. CASE ~PathKnown(k)
    <3>1. PICK u \in Operator : proc[u].job = "prepare" /\ proc[u].new = k
      BY <2>2 DEF PathKnown
    <3>2. u = o
      BY <1>4, <3>1 DEF PathKnown
    <3>3. proc'[o].job # "prepare"
      BY <1>1, <1>4, <3>1, <3>2 DEF PathKnown, Fresh
    <3> QED
      BY <1>4, <3>1, <3>2, <3>3 DEF Bundled
  <2> QED
    BY <2>1, <2>2
<1> QED
  BY <1>2, <1>3, <1>4 DEF BundleInv, Bundle

\* A step of one operator preserves the invariant if it keeps what is settled
\* and the operator's new state, the new directory and the CA's keys are right.
LEMMA Frame ==
    ASSUME RolloverInv, Stable, NEW o \in Operator,
           proc' \in [Operator -> Process],
           \A u \in Operator \ {o} : proc'[u] = proc[u],
           Fresh(o), Bundled(o),
           ProcInv(proc[o])',
           origin' \in [Key -> {"unused", "created", "prepared"}],
           disk' \in [Path -> File], DirInv(disk)',
           disk' \in survivors', survivors' \subseteq survivors \cup {disk'},
           caKeys' \subseteq Key, \A k \in caKeys' : Known(k)',
           inflight' \subseteq Key \X Key, \A r \in inflight' : Settled(r[2])',
           faults' \in 0..MaxFaults
    PROVE  RolloverInv'
<1>1. TypeOK'
  BY DEF RolloverInv, TypeOK, Bundled
<1>2. \A d \in survivors' : DirInv(d)'
  <2> SUFFICES ASSUME NEW d \in survivors', d # disk' PROVE DirInv(d)'
    OBVIOUS
  <2>1. d \in [Path -> File] /\ DirInv(d)
    BY DEF RolloverInv, TypeOK
  <2> QED
    BY <2>1, DirStable DEF Stable
<1>3. \A u \in Operator : ProcInv(proc[u])'
  <2> SUFFICES ASSUME NEW u \in Operator, u # o PROVE ProcInv(proc[u])'
    OBVIOUS
  <2>1. PICK q \in Process : q = proc[u] /\ ProcInv(q)
    BY DEF RolloverInv, TypeOK
  <2>2. ProcInv(q)'
    BY <2>1, ProcStable
  <2>3. proc'[u] = q
    BY <2>1
  <2> QED
    BY <2>2, <2>3 DEF ProcInv
<1>4. BundleInv'
  BY BundleStep
<1> QED
  BY <1>1, <1>2, <1>3, <1>4 DEF RolloverInv

\* The common case: the step creates no key, and the operator's new state q, the
\* new directory d and the CA's keys are right by what was settled before it.
LEMMA OpStep ==
    ASSUME RolloverInv, NEW o \in Operator, NEW q \in Process, NEW d \in [Path -> File],
           proc' = [proc EXCEPT ![o] = q], ProcInv(q),
           q.job = "prepare" => proc[o].job = "prepare" /\ q.new = proc[o].new,
           Bundled(o),
           origin' = origin,
           disk' = d, DirInv(d),
           d \in survivors', survivors' \subseteq survivors \cup {d},
           caKeys' \subseteq Key, \A k \in caKeys' : Known(k),
           inflight' \subseteq Key \X Key, \A r \in inflight' : Settled(r[2]),
           faults' \in 0..MaxFaults
    PROVE  RolloverInv'
<1>1. proc' \in [Operator -> Process] /\ proc'[o] = q
  BY DEF RolloverInv, TypeOK
<1>2. \A u \in Operator \ {o} : proc'[u] = proc[u]
  BY DEF RolloverInv, TypeOK
<1>a. Fresh(o)
  BY <1>1 DEF Fresh, ProcInv
<1>3. Stable
  BY <1>1, <1>2, <1>a, StableStep
<1>4. ProcInv(proc[o])'
  <2>1. ProcInv(q)'
    BY <1>3, ProcStable
  <2> QED
    BY <1>1, <2>1 DEF ProcInv
<1>5. DirInv(disk)'
  <2>1. DirInv(d)'
    BY <1>3, DirStable DEF Stable
  <2> QED
    BY <2>1 DEF DirInv
<1>6. \A k \in caKeys' : Known(k)'
  BY <1>3 DEF Stable
<1>7. \A r \in inflight' : Settled(r[2])'
  BY <1>3 DEF Stable
<1>8. origin' \in [Key -> {"unused", "created", "prepared"}]
  BY DEF RolloverInv, TypeOK
<1> QED
  BY <1>1, <1>2, <1>a, <1>3, <1>4, <1>5, <1>6, <1>7, <1>8, Frame

\* A step that only moves its process along, and perhaps the CA's keys.
LEMMA QuietStep ==
    ASSUME RolloverInv, NEW o \in Operator, NEW q \in Process,
           proc' = [proc EXCEPT ![o] = q], ProcInv(q),
           proc[o].job # "prepare", q.job # "prepare",
           caKeys' \subseteq Key, \A k \in caKeys' : Known(k),
           UNCHANGED <<disk, survivors, inflight, origin, loose, faults>>
    PROVE  RolloverInv'
<1>1. disk \in [Path -> File] /\ DirInv(disk)
  BY DEF RolloverInv, TypeOK
<1>2. PICK d \in [Path -> File] : d = disk /\ DirInv(d)
  BY <1>1
<1>3. disk \in survivors /\ inflight \subseteq Key \X Key /\ faults \in 0..MaxFaults
  BY DEF RolloverInv, TypeOK
<1>4. \A r \in inflight : Settled(r[2])
  BY DEF RolloverInv
<1>5. Bundled(o)
  BY DEF Bundled, RolloverInv, TypeOK
<1> QED
  BY <1>2, <1>3, <1>4, <1>5, OpStep

\* A command that ends, leaving the directory and the CA alone.
LEMMA EndStep ==
    ASSUME RolloverInv, NEW o \in Operator, proc[o].job # "prepare", End(o),
           UNCHANGED <<disk, survivors, caKeys, inflight, origin, loose, faults>>
    PROVE  RolloverInv'
<1>1. caKeys \subseteq Key /\ \A k \in caKeys : Known(k)
  BY DEF RolloverInv, TypeOK
<1> QED
  BY <1>1, IdleFacts, QuietStep DEF End

-----------------------------------------------------------------------------
(* The steps of a command that leave the directory alone.                  *)

\* What the invariant says of one operator and of the current directory.
LEMMA Facts ==
    ASSUME RolloverInv, NEW o \in Operator
    PROVE  /\ proc \in [Operator -> Process] /\ proc[o] \in Process /\ ProcInv(proc[o])
           /\ disk \in [Path -> File] /\ disk \in survivors /\ DirInv(disk)
           /\ caKeys \subseteq Key /\ \A k \in caKeys : Known(k)
           /\ inflight \subseteq Key \X Key /\ \A r \in inflight : Settled(r[2])
           /\ faults \in 0..MaxFaults /\ loose \subseteq Path
           /\ \A k \in Key : Settled(k) => Loaded(k)
           /\ proc[o].pc \notin {"bundle", "write", "fsync", "flush"} => proc[o].job # "prepare"
BY DEF RolloverInv, TypeOK, Settled, Durable, Loaded, ProcInv

\* A bundle a command can load is one it may rely on.
LEMMA LoadedBundle ==
    ASSUME RolloverInv, NEW o \in Operator, NEW k \in Key, PathKnown(k), LoadPrepared(k)
    PROVE  Loaded(k)
BY Facts DEF RolloverInv, BundleInv, DirInv, Loaded, LoadPrepared, Kept

\* A whole file names a key, and a whole account envelope a known one.
LEMMA WholeFacts ==
    ASSUME RolloverInv, NEW o \in Operator
    PROVE  /\ disk[Account] \in File
           /\ disk[Account].whole => disk[Account].key \in Key /\ Known(disk[Account].key)
BY Facts, PathFacts DEF DirInv

LEMMA StartRegisterInv ==
    ASSUME RolloverInv, NEW o \in Operator, StartRegister(o) PROVE RolloverInv'
<1>1. PICK q \in Process : q = [proc[o] EXCEPT !.job = "register", !.pc = "register",
                                              !.signer = disk[Account].key]
  BY Facts, WholeFacts DEF Process, Job, PC, StartRegister
<1>2. ProcInv(q) /\ q.job # "prepare"
  BY <1>1, Facts, WholeFacts DEF ProcInv, StartRegister, Process
<1> QED
  BY <1>1, <1>2, Facts, QuietStep DEF StartRegister

LEMMA RegisterInv ==
    ASSUME RolloverInv, NEW o \in Operator, Register(o) PROVE RolloverInv'
<1>1. proc[o].signer \in Key /\ Known(proc[o].signer)
  BY Facts DEF ProcInv, Register
<1> QED
  BY <1>1, Facts, IdleFacts, QuietStep DEF Register, End

LEMMA StartExecuteInv ==
    ASSUME RolloverInv, NEW o \in Operator, NEW k \in Key, StartExecute(o, k) PROVE RolloverInv'
<1>1. PICK q \in Process : q = [proc[o] EXCEPT !.job = "execute", !.pc = "load",
                                              !.new = k, !.signer = disk[Account].key]
  BY Facts, WholeFacts DEF Process, Job, PC, StartExecute
<1>2. Loaded(k)
  BY LoadedBundle DEF StartExecute
<1>3. ProcInv(q) /\ q.job # "prepare"
  BY <1>1, <1>2, Facts, WholeFacts DEF ProcInv, StartExecute, LoadPrepared, Process
<1> QED
  BY <1>1, <1>3, Facts, QuietStep DEF StartExecute

LEMMA ExecuteLoadInv ==
    ASSUME RolloverInv, NEW o \in Operator, ExecuteLoad(o) PROVE RolloverInv'
<1>1. CASE ~LoadPrepared(proc[o].new)
  BY <1>1, EndStep, Facts DEF ExecuteLoad
<1>2. CASE LoadPrepared(proc[o].new)
  <2>1. PICK q \in Process : q = [proc[o] EXCEPT !.pc = "retire", !.held = disk[Account]]
    BY Facts, WholeFacts DEF Process, PC
  <2>2. ProcInv(q) /\ q.job # "prepare"
    BY <1>2, <2>1, Facts, WholeFacts DEF ProcInv, ExecuteLoad, LoadPrepared, Process
  <2> QED
    BY <1>2, <2>1, <2>2, Facts, QuietStep DEF ExecuteLoad
<1> QED
  BY <1>1, <1>2

LEMMA CAConfirmsInv ==
    ASSUME RolloverInv, NEW o \in Operator, CAConfirms(o) PROVE RolloverInv'
<1>1. PICK q \in Process : q = [proc[o] EXCEPT !.pc = "activate"]
  BY Facts DEF Process, PC
<1>2. ProcInv(q) /\ q.job # "prepare"
  BY <1>1, Facts DEF ProcInv, CAConfirms, Process
<1>3. proc[o].new \in Key /\ Known(proc[o].new)
  BY Facts DEF ProcInv, CAConfirms, Known
<1>4. caKeys' \subseteq Key /\ \A k \in caKeys' : Known(k)
  BY <1>3, Facts DEF CAConfirms, Rolled
<1> QED
  BY <1>1, <1>2, <1>4, QuietStep, Facts DEF CAConfirms

LEMMA CARejectsInv ==
    ASSUME RolloverInv, NEW o \in Operator, CARejects(o) PROVE RolloverInv'
BY EndStep, Facts DEF CARejects

LEMMA StartRecoverInv ==
    ASSUME RolloverInv, NEW o \in Operator, NEW k \in Key, NEW j \in {"old", "new"},
           StartRecover(o, k, j)
    PROVE  RolloverInv'
<1>1. PICK q \in Process : q = [proc[o] EXCEPT !.job = j, !.pc = "probeOld",
                                              !.new = k, !.signer = disk[Account].key]
  BY Facts, WholeFacts DEF Process, Job, PC, StartRecover
<1>2. Loaded(k)
  BY LoadedBundle DEF StartRecover
<1>3. ProcInv(q) /\ q.job # "prepare"
  BY <1>1, <1>2, Facts, WholeFacts DEF ProcInv, StartRecover, LoadPrepared, Process
<1> QED
  BY <1>1, <1>3, Facts, QuietStep DEF StartRecover

LEMMA ProbeOldInv ==
    ASSUME RolloverInv, NEW o \in Operator, ProbeOld(o) PROVE RolloverInv'
<1>1. PICK q \in Process : q = [proc[o] EXCEPT !.pc = "probeNew"]
  BY Facts DEF Process, PC
<1>2. ProcInv(q) /\ q.job # "prepare"
  BY <1>1, Facts DEF ProcInv, ProbeOld, Process
<1>3. CASE End(o)
  BY <1>3, EndStep, Facts DEF ProbeOld
<1>4. CASE proc' = [proc EXCEPT ![o].pc = "probeNew"]
  BY <1>1, <1>2, <1>4, Facts, QuietStep DEF ProbeOld
<1> QED
  BY <1>3, <1>4 DEF ProbeOld

\* The CA's recognition of the new key is what settles its bundle.
LEMMA ProbeNewInv ==
    ASSUME RolloverInv, NEW o \in Operator, ProbeNew(o) PROVE RolloverInv'
<1>1. PICK q \in Process : q = [proc[o] EXCEPT !.pc = "reread"]
  BY Facts DEF Process, PC
<1>2. CASE End(o)
  BY <1>2, EndStep, Facts DEF ProbeNew
<1>3. CASE (proc[o].new \in caKeys) = (proc[o].job = "new")
           /\ proc' = [proc EXCEPT ![o].pc = "reread"]
  <2>1. proc[o].job \in {"old", "new"} /\ proc[o].new \in Key /\ Loaded(proc[o].new)
    BY Facts DEF ProcInv, ProbeNew
  <2>2. origin[proc[o].new] = "prepared"
    BY <2>1 DEF Loaded
  <2>3. proc[o].job = "new" => Settled(proc[o].new)
    BY <1>3, <2>1, <2>2, Facts DEF Known
  <2>4. ProcInv(q) /\ q.job # "prepare"
    BY <1>1, <2>1, <2>3, Facts DEF ProcInv, ProbeNew, Process
  <2> QED
    BY <1>1, <1>3, <2>4, Facts, QuietStep DEF ProbeNew
<1> QED
  BY <1>2, <1>3 DEF ProbeNew

LEMMA RereadInv ==
    ASSUME RolloverInv, NEW o \in Operator, Reread(o) PROVE RolloverInv'
<1>1. CASE End(o)
  BY <1>1, EndStep, Facts DEF Reread
<1>2. CASE disk[Account].whole
           /\ proc' = [proc EXCEPT ![o].pc = "retire", ![o].held = disk[Account]]
  <2>1. PICK q \in Process : q = [proc[o] EXCEPT !.pc = "retire", !.held = disk[Account]]
    BY Facts, WholeFacts DEF Process, PC
  <2>2. ProcInv(q) /\ q.job # "prepare"
    BY <1>2, <2>1, Facts, WholeFacts DEF ProcInv, Reread, Process
  <2> QED
    BY <1>2, <2>1, <2>2, Facts, QuietStep DEF Reread
<1> QED
  BY <1>1, <1>2 DEF Reread

-----------------------------------------------------------------------------
(* The steps that change the directory.                                    *)

\* Putting a file that is not yet whole.
LEMMA PutDir ==
    ASSUME RolloverInv, NEW o \in Operator, NEW p \in Path, NEW f \in File,
           f.whole = FALSE,
           \A k \in Key : p = Pending(k) => f.key \in {k, NoKey},
           p = Account => f.key = NoKey
    PROVE  \E d \in [Path -> File] :
              /\ d = [disk EXCEPT ![p] = f]
              /\ DirInv(d)
<1>1. PICK d \in [Path -> File] : d = [disk EXCEPT ![p] = f]
  BY Facts
<1>2. \A x \in Path : d[x] = IF x = p THEN f ELSE disk[x]
  BY <1>1, Facts
<1>3. DirInv(d)
  <2>1. \A x \in Path : d[x].whole => d[x].key \in Key
    BY <1>2, Facts DEF DirInv
  <2>2. \A k \in Key : d[Bundle(k)].whole => origin[k] = "prepared"
    BY <1>2, Facts, PathFacts DEF DirInv
  <2>3. \A k \in Key : d[Pending(k)].key \in {k, NoKey}
    BY <1>2, Facts, PathFacts DEF DirInv
  <2>4. d[Account].key \in Key => Known(d[Account].key)
    BY <1>2, Facts, PathFacts, RolloverAssumption DEF DirInv
  <2> QED
    BY <2>1, <2>2, <2>3, <2>4 DEF DirInv
<1> QED
  BY <1>1, <1>2, <1>3

\* Creating a file exclusively, by a process that goes on to write it.
LEMMA OpenStep ==
    ASSUME RolloverInv, NEW o \in Operator, NEW p \in Path, NEW f \in File,
           OpenExclusive(o, p, f),
           f.whole = FALSE, f.synced = FALSE, f.key \in Key,
           \A k \in Key : p = Pending(k) => f.key = k,
           p # Account,
           \/ proc[o].job = "prepare" /\ p = Bundle(proc[o].new)
           \/ proc[o].job = "execute" /\ p \in {Retired(proc[o].new), Pending(proc[o].new)}
           \/ proc[o].job \in {"old", "new"} /\ p = Retired(proc[o].new)
              /\ proc[o].pc \notin {"probeOld", "probeNew"},
           UNCHANGED <<caKeys, inflight, origin, loose, faults>>
    PROVE  RolloverInv'
<1>1. PICK q \in Process : q = [proc[o] EXCEPT !.pc = "write", !.path = p, !.out = f]
  BY Facts DEF Process, PC
<1>2. ProcInv(q) /\ q.job = proc[o].job /\ q.new = proc[o].new
  BY <1>1, Facts DEF ProcInv, Process
<1>3. PICK d \in [Path -> File] :
         /\ d = [disk EXCEPT ![p] = f]
         /\ DirInv(d)
  BY PutDir
<1>a. d[p] = f /\ \A x \in Path : x # p => d[x] = disk[x]
  BY <1>3, Facts
<1>4. disk' = d /\ survivors' = survivors \cup {d} /\ proc' = [proc EXCEPT ![o] = q]
  BY <1>1, <1>3 DEF OpenExclusive, SetDir
<1>5. Bundled(o)
  <2>1. \A k \in Key : d[Bundle(k)] = disk[Bundle(k)] \/ (proc[o].job = "prepare" /\ proc[o].new = k)
    BY <1>a, PathFacts, Facts DEF ProcInv
  <2>2. q.job = "prepare" => PrepareInv(q)'
    BY <1>1, <1>2, <1>a, <1>4, Facts, PathFacts DEF PrepareInv, ProcInv, Process, Bundle
  <2>3. proc'[o] = q
    BY <1>4, Facts
  <2>4. PrepareInv(proc[o])' <=> PrepareInv(q)'
    BY <2>3 DEF PrepareInv
  <2> QED
    BY <1>2, <1>4, <2>1, <2>2, <2>3, <2>4, Facts DEF Bundled
<1> QED
  BY <1>2, <1>3, <1>4, <1>5, Facts, OpStep

LEMMA WriteBundleInv ==
    ASSUME RolloverInv, NEW o \in Operator, WriteBundle(o) PROVE RolloverInv'
<1> DEFINE f == NewFile(proc[o].signer, 0)
<1>1. proc[o].job = "prepare" /\ proc[o].new \in Key /\ proc[o].signer \in Key
  BY Facts DEF ProcInv, WriteBundle
<1>2. PICK g \in File : g = f
  BY <1>1, NewFacts
<1>3. PICK p \in Path : p = Bundle(proc[o].new)
  BY <1>1, PathFacts
<1>4. OpenExclusive(o, p, g)
  BY <1>2, <1>3 DEF WriteBundle
<1>5. /\ g.whole = FALSE /\ g.synced = FALSE /\ g.key \in Key /\ p # Account
      /\ \A k \in Key : p = Pending(k) => g.key = k
  BY <1>1, <1>2, <1>3, PathFacts, NewFacts
<1> QED
  BY <1>1, <1>3, <1>4, <1>5, OpenStep DEF WriteBundle

LEMMA RetireInv ==
    ASSUME RolloverInv, NEW o \in Operator, Retire(o) PROVE RolloverInv'
<1>1. /\ proc[o].job \in {"execute", "old", "new"} /\ proc[o].new \in Key
      /\ proc[o].held \in File /\ proc[o].held.key \in Key
  BY Facts DEF ProcInv, Retire, Process
<1>2. CASE RetiredMatches(o)
  <2>1. PICK q \in Process :
           q = [proc[o] EXCEPT !.pc = IF proc[o].job = "execute" THEN "stage" ELSE "resolve"]
    BY Facts DEF Process, PC
  <2>2. ProcInv(q) /\ q.job # "prepare"
    BY <1>1, <2>1, Facts DEF ProcInv, Retire, Process
  <2> QED
    BY <1>2, <2>1, <2>2, Facts, QuietStep DEF RetiredMatches, Retire
<1>3. CASE RetiredMissing(o)
  <2>1. PICK g \in File : /\ g = NewFile(proc[o].held.key, proc[o].held.nonce)
                          /\ g.whole = FALSE /\ g.synced = FALSE /\ g.key \in Key
    <3>1. proc[o].held.nonce \in Nonce \cup {0}
      BY <1>1 DEF File
    <3>2. PICK k \in Key, n \in Nonce \cup {0} : k = proc[o].held.key /\ n = proc[o].held.nonce
      BY <1>1, <3>1
    <3>3. PICK g \in File : g = NewFile(k, n) /\ g.whole = FALSE /\ g.synced = FALSE /\ g.key = k
      BY NewFacts
    <3> QED
      BY <3>2, <3>3
  <2>2. PICK p \in Path : p = Retired(proc[o].new)
    BY <1>1, PathFacts
  <2>3. OpenExclusive(o, p, g)
    BY <1>3, <2>1, <2>2 DEF RetiredMissing
  <2>5. p # Account /\ \A k \in Key : p # Pending(k)
    BY <1>1, <2>2, PathFacts
  <2> QED
    BY <1>1, <2>1, <2>2, <2>3, <2>5, OpenStep DEF Retire
<1>4. CASE RetiredDiffers(o)
  BY <1>4, EndStep, Facts DEF RetiredDiffers, Retire
<1> QED
  BY <1>2, <1>3, <1>4 DEF Retire

LEMMA StageInv ==
    ASSUME RolloverInv, NEW o \in Operator, Stage(o) PROVE RolloverInv'
<1>1. proc[o].job = "execute" /\ proc[o].new \in Key
  BY Facts DEF ProcInv, Stage
<1>2. CASE PendingExists(o)
  BY <1>2, EndStep, Facts DEF PendingExists, Stage
<1>3. CASE PendingMissing(o)
  <2>1. PICK n \in Nonce : OpenExclusive(o, Pending(proc[o].new), NewFile(proc[o].new, n))
    BY <1>3 DEF PendingMissing
  <2>2. PICK g \in File : /\ g = NewFile(proc[o].new, n) /\ g.key = proc[o].new
                          /\ g.whole = FALSE /\ g.synced = FALSE
    BY <1>1, NewFacts
  <2>3. PICK p \in Path : p = Pending(proc[o].new)
    BY <1>1, PathFacts
  <2>4. p # Account /\ \A k \in Key : p = Pending(k) => g.key = k
    BY <1>1, <2>2, <2>3, PathFacts
  <2>5. g.key \in Key
    BY <1>1, <2>2
  <2> QED
    BY <1>1, <2>1, <2>2, <2>3, <2>4, <2>5, OpenStep DEF Stage
<1> QED
  BY <1>2, <1>3 DEF Stage

\* Only rollover-prepare writes a bundle, and only its own.
LEMMA BundlePath ==
    ASSUME RolloverInv, NEW o \in Operator, proc[o].pc \in {"write", "fsync", "flush"},
           NEW k \in Key, proc[o].path = Bundle(k)
    PROVE  proc[o].job = "prepare" /\ proc[o].new = k
<1>1. proc[o].job \in {"create", "prepare", "execute", "old", "new"}
  BY Facts DEF ProcInv
<1>2. proc[o].job # "create"
  BY Facts, PathFacts DEF ProcInv
<1>3. proc[o].job \notin {"execute", "old", "new"}
  BY Facts, PathFacts DEF ProcInv
<1>4. proc[o].job = "prepare" => proc[o].path = Bundle(proc[o].new) /\ proc[o].new \in Key
  BY Facts DEF ProcInv
<1> QED
  BY <1>1, <1>2, <1>3, <1>4, PathFacts

\* Completing the bytes of an open file, or syncing them, changes no name and no key.
LEMMA ThroughStep ==
    ASSUME RolloverInv, NEW o \in Operator, NEW pc \in {"fsync", "flush"}, NEW f \in File,
           proc[o].pc \in {"write", "fsync"}, pc = "fsync" <=> proc[o].pc = "write",
           f.key = proc[o].out.key,
           proc[o].pc = "fsync" => f.whole = proc[o].out.whole,
           pc = "flush" => f.synced,
           SetDir(Through(o, f)),
           proc' = [proc EXCEPT ![o].pc = pc, ![o].out = f],
           UNCHANGED <<caKeys, inflight, origin, loose, faults>>
    PROVE  RolloverInv'
<1>1. PICK q \in Process : q = [proc[o] EXCEPT !.pc = pc, !.out = f]
  BY Facts DEF Process, PC
<1>2. proc[o].out \in File /\ proc[o].out.key \in Key /\ proc[o].path \in Path
  BY Facts DEF ProcInv, Process
<1>3. proc[o].job \in {"old", "new"} => proc[o].path = Retired(proc[o].new)
  BY Facts DEF ProcInv
<1>b. /\ q.pc = pc /\ q.out = f /\ q.job = proc[o].job /\ q.new = proc[o].new
      /\ q.path = proc[o].path /\ q.signer = proc[o].signer /\ q.held = proc[o].held
  BY <1>1, Facts DEF Process
<1>4. ProcInv(q)
  BY <1>b, <1>2, <1>3, Facts DEF ProcInv
<1>5. PICK d \in [Path -> File] : d = Through(o, f)
  BY Facts DEF Through
<1>6. \A p \in Path : d[p] = IF p \in Names(proc[o].path) /\ disk[p] = proc[o].out
                             THEN f ELSE disk[p]
  BY <1>5 DEF Through
<1>a. \A p \in Path : d[p].key = disk[p].key
  BY <1>6
<1>c. \A k \in Key : Bundle(k) \in Names(proc[o].path) => proc[o].path = Bundle(k)
  BY PathFacts DEF Names
<1>d. \A k \in Key : d[Bundle(k)] = disk[Bundle(k)] \/ (proc[o].job = "prepare" /\ proc[o].new = k)
  BY <1>6, <1>c, BundlePath, PathFacts
<1>7. DirInv(d)
  <2>1. \A p \in Path : d[p].whole => d[p].key \in Key
    <3> SUFFICES ASSUME NEW p \in Path, d[p].whole PROVE disk[p].key \in Key
      BY <1>a
    <3>1. CASE disk[p] = proc[o].out
      BY <3>1, <1>2
    <3>2. CASE disk[p] # proc[o].out
      BY <3>2, <1>6, Facts DEF DirInv
    <3> QED
      BY <3>1, <3>2
  <2>2. \A k \in Key : d[Bundle(k)].whole => origin[k] = "prepared"
    BY <1>d, Facts DEF DirInv, ProcInv
  <2>3. \A k \in Key : d[Pending(k)].key \in {k, NoKey}
    BY <1>a, PathFacts, Facts DEF DirInv
  <2>4. d[Account].key \in Key => Known(d[Account].key)
    BY <1>a, PathFacts, Facts DEF DirInv
  <2> QED
    BY <2>1, <2>2, <2>3, <2>4 DEF DirInv
<1>9. disk' = d /\ survivors' = survivors \cup {d} /\ proc' = [proc EXCEPT ![o] = q]
  BY <1>1, <1>5 DEF SetDir
<1>10. Bundled(o)
  <2>1. ASSUME q.job = "prepare" PROVE PrepareInv(q)'
    <3>1. /\ proc[o].job = "prepare" /\ proc[o].new \in Key /\ proc[o].path = Bundle(proc[o].new)
          /\ disk[Bundle(proc[o].new)] = proc[o].out
      BY <1>b, <2>1, Facts DEF ProcInv, RolloverInv, BundleInv, PrepareInv
    <3>2. d[Bundle(proc[o].new)] = f
      BY <1>6, <3>1, PathFacts DEF Names
    <3> QED
      BY <1>b, <1>9, <3>2 DEF PrepareInv, Bundle
  <2>3. proc'[o] = q
    BY <1>9, Facts
  <2>4. PrepareInv(proc[o])' <=> PrepareInv(q)'
    BY <2>3 DEF PrepareInv
  <2> QED
    BY <1>b, <1>9, <1>d, <2>1, <2>3, <2>4, Facts DEF Bundled
<1> QED
  BY <1>b, <1>4, <1>7, <1>9, <1>10, Facts, OpStep

LEMMA WriteFileInv ==
    ASSUME RolloverInv, NEW o \in Operator, WriteFile(o) PROVE RolloverInv'
<1>1. proc[o].pc = "write" /\ proc[o].out \in File
  BY Facts DEF WriteFile, Process
<1>2. PICK f \in File : f = [proc[o].out EXCEPT !.whole = TRUE]
  BY <1>1 DEF File
<1>3. f.key = proc[o].out.key
  BY <1>1, <1>2 DEF File
<1> QED
  BY <1>1, <1>2, <1>3, ThroughStep DEF WriteFile

LEMMA SyncFileInv ==
    ASSUME RolloverInv, NEW o \in Operator, SyncFile(o) PROVE RolloverInv'
<1>1. proc[o].pc = "fsync" /\ proc[o].out \in File
  BY Facts DEF SyncFile, Process
<1>2. PICK f \in File : f = [proc[o].out EXCEPT !.synced = TRUE]
  BY <1>1 DEF File
<1>3. f.key = proc[o].out.key /\ f.whole = proc[o].out.whole /\ f.synced
  BY <1>1, <1>2 DEF File
<1> QED
  BY <1>1, <1>2, <1>3, ThroughStep DEF SyncFile

\* Removing a name: only a bundle still being prepared may be taken back.
LEMMA WriteFailsInv ==
    ASSUME RolloverInv, NEW o \in Operator, WriteFails(o) PROVE RolloverInv'
<1>1. /\ proc[o].pc \in {"write", "fsync", "flush"} /\ proc[o] \in Process
      /\ proc[o].job \in {"create", "prepare", "execute", "old", "new"}
  BY Facts DEF ProcInv, WriteFails
<1>2. PICK p \in Path : p = proc[o].path
  BY <1>1 DEF Process
<1>4. PICK d \in [Path -> File] :
         /\ d = [disk EXCEPT ![p] = Absent]
         /\ DirInv(d)
  BY AbsentFacts, PutDir
<1>a. d[p] = Absent /\ \A x \in Path : x # p => d[x] = disk[x]
  BY <1>4, Facts
<1>5. disk' = d /\ survivors' = survivors \cup {d} /\ proc' = [proc EXCEPT ![o] = Idle]
  BY <1>2, <1>4 DEF WriteFails, SetDir, End
<1>6. faults' \in 0..MaxFaults
  BY Facts, RolloverAssumption DEF WriteFails, Fault
<1>7. Bundled(o)
  <2>1. \A k \in Key : d[Bundle(k)] = disk[Bundle(k)] \/ (proc[o].job = "prepare" /\ proc[o].new = k)
    BY <1>1, <1>2, <1>a, BundlePath, PathFacts
  <2>2. proc[o].job = "prepare" => d[Bundle(proc[o].new)] = Absent
    BY <1>1, <1>2, <1>a, Facts DEF ProcInv
  <2>3. proc'[o] = Idle /\ loose' = loose
    BY <1>5, Facts DEF WriteFails
  <2> QED
    BY <1>5, <2>1, <2>2, <2>3, Facts, AbsentFacts, IdleFacts DEF Bundled
<1> QED
  BY <1>4, <1>5, <1>6, <1>7, Facts, IdleFacts, OpStep DEF WriteFails

\* Moving a pending envelope over the account needs its bundle settled.
LEMMA PromoteDir ==
    ASSUME RolloverInv, NEW o \in Operator, NEW k \in Key, Settled(k)
    PROVE  \E d \in [Path -> File] :
              /\ d = Promoted(k)
              /\ DirInv(d)
              /\ \A l \in Key : d[Bundle(l)] = disk[Bundle(l)]
<1>1. PICK d \in [Path -> File] : d = Promoted(k)
  BY Facts, AbsentFacts, PathFacts DEF Promoted
<1>2. \A x \in Path : d[x] = IF x = Pending(k) THEN Absent
                             ELSE IF x = Account THEN disk[Pending(k)] ELSE disk[x]
  BY <1>1, Facts, PathFacts DEF Promoted
<1>3. DirInv(d)
  <2>1. \A x \in Path : d[x].whole => d[x].key \in Key
    BY <1>2, Facts, PathFacts, AbsentFacts DEF DirInv
  <2>2. \A l \in Key : d[Bundle(l)].whole => origin[l] = "prepared"
    BY <1>2, Facts, PathFacts DEF DirInv
  <2>3. \A l \in Key : d[Pending(l)].key \in {l, NoKey}
    BY <1>2, Facts, PathFacts, AbsentFacts DEF DirInv
  <2>4. d[Account].key \in Key => Known(d[Account].key)
    BY <1>2, Facts, PathFacts, RolloverAssumption DEF DirInv, Known
  <2> QED
    BY <2>1, <2>2, <2>3, <2>4 DEF DirInv
<1>4. \A l \in Key : d[Bundle(l)] = disk[Bundle(l)]
  BY <1>2, PathFacts
<1> QED
  BY <1>1, <1>3, <1>4

\* A step of a command that prepares no bundle and touches none.
LEMMA NoPrepare ==
    ASSUME RolloverInv, NEW o \in Operator, NEW q \in Process, proc' = [proc EXCEPT ![o] = q],
           proc[o].job # "prepare", q.job # "prepare", loose' = loose,
           \A l \in Key : disk'[Bundle(l)] = disk[Bundle(l)]
    PROVE  Bundled(o)
BY Facts DEF Bundled

LEMMA ActivateInv ==
    ASSUME RolloverInv, NEW o \in Operator, Activate(o) PROVE RolloverInv'
<1>1. proc[o].pc = "activate" /\ proc[o].new \in Key /\ Settled(proc[o].new)
  BY Facts DEF ProcInv, Activate
<1>2. CASE disk[Pending(proc[o].new)] = Absent
  BY <1>2, EndStep, Facts DEF Activate
<1>3. CASE disk[Pending(proc[o].new)] # Absent
  <2>1. PICK q \in Process : q = [proc[o] EXCEPT !.pc = "sync"]
    BY Facts DEF Process, PC
  <2>2. ProcInv(q) /\ q.job # "prepare"
    BY <1>1, <2>1, Facts DEF ProcInv, Process
  <2>3. PICK d \in [Path -> File] :
           /\ d = Promoted(proc[o].new)
           /\ DirInv(d)
           /\ \A l \in Key : d[Bundle(l)] = disk[Bundle(l)]
    BY <1>1, PromoteDir
  <2>4. disk' = d /\ survivors' = survivors \cup {d} /\ proc' = [proc EXCEPT ![o] = q]
    BY <1>3, <2>1, <2>3 DEF Activate, SetDir
  <2>5. Bundled(o)
    BY <1>1, <2>2, <2>3, <2>4, Facts, NoPrepare DEF Activate
  <2> QED
    BY <2>2, <2>3, <2>4, <2>5, Facts, OpStep DEF Activate
<1> QED
  BY <1>2, <1>3

LEMMA ResolveInv ==
    ASSUME RolloverInv, NEW o \in Operator, Resolve(o) PROVE RolloverInv'
<1>1. /\ proc[o].pc = "resolve" /\ proc[o].new \in Key /\ proc[o].job \in {"old", "new"}
      /\ proc[o].job = "new" => Settled(proc[o].new)
  BY Facts DEF ProcInv, Resolve
<1>2. CASE disk[Pending(proc[o].new)] = Absent
  BY <1>2, EndStep, Facts DEF Resolve
<1>3. CASE disk[Pending(proc[o].new)] # Absent
  <2>1. PICK q \in Process : q = [proc[o] EXCEPT !.pc = "sync"]
    BY Facts DEF Process, PC
  <2>2. ProcInv(q) /\ q.job # "prepare"
    BY <1>1, <2>1, Facts DEF ProcInv, Process
  <2>a. PICK p \in Path : p = Pending(proc[o].new)
    BY <1>1, PathFacts
  <2>b. p # Account /\ \A l \in Key : p # Bundle(l)
    BY <1>1, <2>a, PathFacts
  <2>3. \E d \in [Path -> File] :
           /\ d = [disk EXCEPT ![p] = Absent]
           /\ DirInv(d)
           /\ \A l \in Key : d[Bundle(l)] = disk[Bundle(l)]
    <3>1. PICK d \in [Path -> File] :
             /\ d = [disk EXCEPT ![p] = Absent]
             /\ DirInv(d)
      BY <2>b, PutDir, AbsentFacts
    <3>2. \A x \in Path : x # p => d[x] = disk[x]
      BY <3>1, Facts
    <3> QED
      BY <2>b, <3>1, <3>2, PathFacts
  <2>4. PICK d \in [Path -> File] :
           /\ d = IF proc[o].job = "new" THEN Promoted(proc[o].new)
                  ELSE [disk EXCEPT ![Pending(proc[o].new)] = Absent]
           /\ DirInv(d)
           /\ \A l \in Key : d[Bundle(l)] = disk[Bundle(l)]
    BY <1>1, <2>a, <2>3, PromoteDir
  <2>5. disk' = d /\ survivors' = survivors \cup {d} /\ proc' = [proc EXCEPT ![o] = q]
    BY <1>3, <2>1, <2>4 DEF Resolve, SetDir
  <2>6. Bundled(o)
    BY <1>1, <2>2, <2>4, <2>5, Facts, NoPrepare DEF Resolve
  <2> QED
    BY <2>2, <2>4, <2>5, <2>6, Facts, OpStep DEF Resolve
<1> QED
  BY <1>2, <1>3

LEMMA SyncInv ==
    ASSUME RolloverInv, NEW o \in Operator, Sync(o) PROVE RolloverInv'
<1>1. PICK d \in [Path -> File] : d = disk /\ DirInv(d)
  BY Facts
<1>2. disk' = d /\ survivors' = {d} /\ proc' = [proc EXCEPT ![o] = Idle]
  BY <1>1 DEF Sync, SyncDirectory, End
<1>3. Bundled(o)
  BY <1>1, <1>2, Facts, IdleFacts, NoPrepare DEF Sync
<1> QED
  BY <1>1, <1>2, <1>3, Facts, IdleFacts, OpStep DEF Sync

\* The directory sync settles the bundle a command has loaded.
LEMMA FlushInv ==
    ASSUME RolloverInv, NEW o \in Operator, Flush(o) PROVE RolloverInv'
<1>1. /\ proc' \in [Operator -> Process]
      /\ \A u \in Operator \ {o} : proc'[u] = proc[u]
      /\ \/ proc'[o] = Idle
         \/ /\ proc[o].job = "execute"
            /\ proc'[o] \in {[proc[o] EXCEPT !.pc = "stage"], [proc[o] EXCEPT !.pc = "call"]}
         \/ /\ proc[o].job \in {"old", "new"}
            /\ proc'[o] = [proc[o] EXCEPT !.pc = "resolve"]
  BY Facts, IdleFacts DEF Flush, End, Process, PC
<1>2. /\ proc[o].pc = "flush"
      /\ disk' = disk /\ survivors' = {disk}
      /\ UNCHANGED <<caKeys, inflight, origin, loose, faults>>
  BY DEF Flush, SyncDirectory
<1>3. proc'[o].job # "prepare"
  BY <1>1, Facts, IdleFacts DEF Process
<1>a. Fresh(o)
  BY <1>3 DEF Fresh
<1>b. Bundled(o)
  <2>1. proc[o].job = "prepare" =>
           disk[Bundle(proc[o].new)] = proc[o].out /\ proc[o].out.synced
    BY <1>2 DEF RolloverInv, BundleInv, PrepareInv
  <2> QED
    BY <1>2, <1>3, <2>1, Facts DEF Bundled
<1>4. Stable
  BY <1>1, <1>2, <1>a, <1>b, Facts, StableStep
<1>5. ProcInv(proc[o])'
  <2>1. CASE proc'[o] = Idle
    BY <2>1, IdleFacts DEF ProcInv, Idle, Bundle, Account
  <2>2. CASE proc[o].job \in {"execute", "old", "new"}
             /\ proc'[o] \in {[proc[o] EXCEPT !.pc = "stage"], [proc[o] EXCEPT !.pc = "call"],
                              [proc[o] EXCEPT !.pc = "resolve"]}
             /\ (proc'[o].pc = "resolve" <=> proc[o].job # "execute")
    <3>1. proc[o].new \in Key /\ proc[o].signer \in Key /\ Loaded(proc[o].new)
      BY <2>2, Facts DEF ProcInv
    <3>2. PICK k \in Key : k = proc[o].new /\ Loaded(k)
      BY <3>1
    <3>3. Loaded(k)'
      BY <1>4, <3>2 DEF Stable
    <3>4. Settled(k)'
      BY <1>2, <3>3 DEF Settled, Loaded, Durable, Bundle
    <3>5. /\ proc'[o].new = k /\ proc'[o].job = proc[o].job
          /\ proc'[o].signer = proc[o].signer
          /\ proc'[o].pc \in {"stage", "call", "resolve"}
      BY <2>2, <3>2, Facts DEF Process
    <3> QED
      BY <2>2, <3>1, <3>3, <3>4, <3>5 DEF ProcInv, Settled, Durable, Loaded, PathKnown
  <2> QED
    BY <1>1, <2>1, <2>2, Facts DEF Process
<1>6. DirInv(disk)'
  <2>1. PICK d \in [Path -> File] : d = disk /\ DirInv(d)
    BY Facts
  <2>2. DirInv(d)'
    BY <1>4, <2>1, DirStable DEF Stable
  <2> QED
    BY <1>2, <2>1, <2>2 DEF DirInv
<1>7. (\A k \in caKeys' : Known(k)') /\ (\A r \in inflight' : Settled(r[2])')
  BY <1>2, <1>4, Facts DEF Stable
<1>8. origin' \in [Key -> {"unused", "created", "prepared"}]
  BY <1>2 DEF RolloverInv, TypeOK
<1> QED
  BY <1>1, <1>2, <1>a, <1>b, <1>4, <1>5, <1>6, <1>7, <1>8, Facts, Frame

\* An unused key is nowhere yet, so giving it an origin disturbs nothing.
LEMMA CreateKeyInv ==
    ASSUME RolloverInv, NEW o \in Operator, CreateKey(o) PROVE RolloverInv'
<1>1. PICK k \in Key, n \in Nonce :
         /\ origin[k] = "unused"
         /\ origin' = [origin EXCEPT ![k] = "created"]
         /\ SetDir([disk EXCEPT ![Account] = NewFile(k, n)])
         /\ proc' = [proc EXCEPT ![o].job = "create", ![o].pc = "write", ![o].path = Account,
                                 ![o].out = NewFile(k, n)]
  BY DEF CreateKey
<1>2. PICK f \in File : f = NewFile(k, n) /\ f.key = k /\ f.whole = FALSE
  BY NewFacts
<1>3. PICK q \in Process :
         q = [proc[o] EXCEPT !.job = "create", !.pc = "write", !.path = Account, !.out = f]
  <2>1. Account \in Path /\ proc[o] \in Process
    BY PathFacts, Facts
  <2> QED
    BY <2>1 DEF Process, Job, PC
<1>4. proc' = [proc EXCEPT ![o] = q] /\ q.job = "create"
  BY <1>1, <1>2, <1>3, Facts DEF Process
<1>5. origin' \in [Key -> {"unused", "created", "prepared"}]
  BY <1>1 DEF RolloverInv, TypeOK
<1>6. \A l \in Key : origin[l] # "unused" => origin'[l] = origin[l]
  BY <1>1 DEF RolloverInv, TypeOK
<1>7. PICK d \in [Path -> File] : d = [disk EXCEPT ![Account] = f]
  BY Facts
<1>8. /\ disk' = d /\ survivors' = survivors \cup {d}
      /\ UNCHANGED <<caKeys, inflight, loose, faults>>
  BY <1>1, <1>2, <1>7 DEF SetDir, CreateKey
<1>9. /\ d[Account] = f
      /\ \A p \in Path : p # Account => d[p] = disk[p]
  BY <1>7, Facts, PathFacts
<1>10. \A l \in Key : d[Bundle(l)] = disk[Bundle(l)]
  BY <1>9, PathFacts
<1>11. proc' \in [Operator -> Process] /\ proc'[o] = q
       /\ \A u \in Operator \ {o} : proc'[u] = proc[u]
  BY <1>4, Facts
<1>a. Bundled(o)
  BY <1>4, <1>8, <1>10, Facts, NoPrepare DEF CreateKey
<1>b. Fresh(o)
  BY <1>4, <1>11 DEF Fresh
<1>12. Stable
  BY <1>6, <1>8, <1>11, <1>a, <1>b, StableStep
<1>13. DirInv(disk)'
  <2>1. \A p \in Path : d[p].whole => d[p].key \in Key
    BY <1>2, <1>9, Facts DEF DirInv
  <2>2. \A l \in Key : d[Bundle(l)].whole => origin'[l] = "prepared"
    BY <1>6, <1>9, Facts, PathFacts DEF DirInv
  <2>3. \A l \in Key : d[Pending(l)].key \in {l, NoKey}
    BY <1>9, Facts, PathFacts DEF DirInv
  <2>4. d[Account].key = k /\ origin'[k] = "created"
    BY <1>1, <1>2, <1>9 DEF RolloverInv, TypeOK
  <2> QED
    BY <1>8, <2>1, <2>2, <2>3, <2>4 DEF DirInv, Known
<1>14. ProcInv(proc[o])'
  BY <1>2, <1>3, <1>11, Facts DEF ProcInv, Process
<1>15. (\A l \in caKeys' : Known(l)') /\ (\A r \in inflight' : Settled(r[2])')
  BY <1>8, <1>12, Facts DEF Stable
<1> QED
  BY <1>5, <1>8, <1>11, <1>a, <1>b, <1>12, <1>13, <1>14, <1>15, Facts, Frame

LEMMA StartPrepareInv ==
    ASSUME RolloverInv, NEW o \in Operator, StartPrepare(o) PROVE RolloverInv'
<1>1. PICK k \in Key :
         /\ origin[k] = "unused"
         /\ origin' = [origin EXCEPT ![k] = "prepared"]
         /\ proc' = [proc EXCEPT ![o].job = "prepare", ![o].pc = "bundle",
                                 ![o].new = k, ![o].signer = disk[Account].key]
  BY DEF StartPrepare
<1>2. disk[Account].key \in Key
  BY WholeFacts DEF StartPrepare
<1>3. PICK q \in Process : q = [proc[o] EXCEPT !.job = "prepare", !.pc = "bundle",
                                              !.new = k, !.signer = disk[Account].key]
  BY <1>2, Facts DEF Process, Job, PC
<1>4. proc' \in [Operator -> Process] /\ proc'[o] = q
      /\ \A u \in Operator \ {o} : proc'[u] = proc[u]
  BY <1>1, <1>3, Facts
<1>5. origin' \in [Key -> {"unused", "created", "prepared"}] /\ origin'[k] = "prepared"
  BY <1>1 DEF RolloverInv, TypeOK
<1>6. \A l \in Key : origin[l] # "unused" => origin'[l] = origin[l]
  BY <1>1 DEF RolloverInv, TypeOK
<1>7. Fresh(o) /\ q.new = k /\ q.pc = "bundle"
  BY <1>1, <1>3, <1>4, Facts DEF Fresh, Process, StartPrepare
<1>8. UNCHANGED <<disk, survivors, caKeys, inflight, loose, faults>>
  BY DEF StartPrepare
<1>a. Bundled(o)
  <2>1. ~disk[Bundle(k)].whole
    BY <1>1, Facts DEF DirInv
  <2>2. PrepareInv(proc[o])'
    BY <1>4, <1>7, <1>8, <2>1 DEF PrepareInv, Bundle
  <2> QED
    BY <1>8, <2>2, Facts DEF Bundled, StartPrepare
<1>9. Stable
  BY <1>4, <1>6, <1>7, <1>8, <1>a, Facts, StableStep
<1>10. DirInv(disk)'
  <2>1. PICK d \in [Path -> File] : d = disk /\ DirInv(d)
    BY Facts
  <2>2. DirInv(d)'
    BY <1>9, <2>1, DirStable DEF Stable
  <2> QED
    BY <1>8, <2>1, <2>2 DEF DirInv
<1>11. ProcInv(proc[o])'
  BY <1>2, <1>3, <1>4, <1>5, Facts DEF ProcInv, Process
<1>12. (\A l \in caKeys' : Known(l)') /\ (\A r \in inflight' : Settled(r[2])')
  BY <1>8, <1>9, Facts DEF Stable
<1> QED
  BY <1>4, <1>5, <1>7, <1>8, <1>a, <1>9, <1>10, <1>11, <1>12, Facts, Frame

-----------------------------------------------------------------------------
(* Faults, late requests and manual repair.                                *)

\* A request that may still reach the CA has a settled bundle behind it.
LEMMA AbandonedSettled ==
    ASSUME RolloverInv, NEW r \in Abandoned(Operator)
    PROVE  r \in Key \X Key /\ Settled(r[2])
<1>1. PICK o \in Operator : proc[o].pc = "call" /\ r = <<proc[o].signer, proc[o].new>>
  BY DEF Abandoned
<1>2. proc[o].signer \in Key /\ proc[o].new \in Key /\ Settled(proc[o].new)
  BY <1>1, Facts DEF ProcInv
<1> QED
  BY <1>1, <1>2

LEMMA AbortInv ==
    ASSUME RolloverInv, NEW o \in Operator, Abort(o) PROVE RolloverInv'
<1>1. \A r \in inflight' : r \in Key \X Key /\ Settled(r[2])
  <2>1. inflight' \subseteq inflight \cup Abandoned(Operator)
    BY DEF Abort, Abandoned
  <2> QED
    BY <2>1, Facts, AbandonedSettled
<1>2. PICK d \in [Path -> File] : d = disk /\ DirInv(d)
  BY Facts
<1>3. faults' \in 0..MaxFaults
  BY Facts, RolloverAssumption DEF Abort, Fault
<1>4. /\ proc' = [proc EXCEPT ![o] = Idle]
      /\ UNCHANGED <<disk, survivors, caKeys, origin>>
      /\ loose' = IF proc[o].pc = "fsync" THEN loose \cup {proc[o].path} ELSE loose
  BY DEF Abort, End
<1>5. Bundled(o)
  <2>1. loose \subseteq loose' /\ loose' \subseteq Path
    BY <1>4, Facts DEF Process
  <2>2. ASSUME proc[o].job = "prepare", disk[Bundle(proc[o].new)].whole
        PROVE  disk[Bundle(proc[o].new)].synced \/ Bundle(proc[o].new) \in loose'
    <3>1. PrepareInv(proc[o]) /\ ProcInv(proc[o])
      BY <2>2, Facts DEF RolloverInv, BundleInv
    <3>2. proc[o].pc \in {"fsync", "flush"} /\ proc[o].path = Bundle(proc[o].new)
      BY <2>2, <3>1 DEF PrepareInv, ProcInv
    <3> QED
      BY <1>4, <3>1, <3>2 DEF PrepareInv
  <2>3. proc'[o] = Idle
    BY <1>4, Facts
  <2> QED
    BY <1>4, <2>1, <2>2, <2>3, IdleFacts DEF Bundled
<1> QED
  BY <1>1, <1>2, <1>3, <1>4, <1>5, Facts, IdleFacts, OpStep

\* What a power loss makes of a directory.
LEMMA AfterFacts ==
    ASSUME NEW d \in [Path -> File], NEW torn, NEW p \in Path
    PROVE  /\ After(d, torn) \in [Path -> File]
           /\ After(d, torn)[p] \in File
           /\ After(d, torn)[p].key = d[p].key /\ After(d, torn)[p].nonce = d[p].nonce
           /\ After(d, torn)[p].whole = (d[p].whole /\ p \notin torn)
           /\ After(d, torn)[p].synced = After(d, torn)[p].whole
BY DEF After, File

LEMMA AfterKept ==
    ASSUME NEW d \in [Path -> File], NEW torn \in SUBSET Volatile(d), NEW p \in Path, Kept(d[p])
    PROVE  After(d, torn)[p] = d[p] /\ Kept(After(d, torn)[p])
BY DEF After, Volatile, File, Kept

\* A power loss leaves one of the directories the invariant already speaks of, with files
\* torn that were not synced.
LEMMA PowerLossInv ==
    ASSUME RolloverInv, PowerLoss PROVE RolloverInv'
<1>1. \A r \in inflight' : r \in Key \X Key /\ Settled(r[2])
  <2>1. inflight' \subseteq inflight \cup Abandoned(Operator)
    BY DEF PowerLoss
  <2>2. \A r \in inflight : r \in Key \X Key /\ Settled(r[2])
    BY DEF RolloverInv, TypeOK
  <2> QED
    BY <2>1, <2>2, AbandonedSettled
<1>2. survivors' = {disk'} /\ origin' = origin /\ caKeys' = caKeys /\ loose' = loose
  BY DEF PowerLoss
<1>a. PICK c \in survivors : \E torn \in SUBSET Volatile(c) : disk' = After(c, torn)
  BY DEF PowerLoss
<1>b. PICK torn \in SUBSET Volatile(c) : disk' = After(c, torn)
  BY <1>a
<1>c. c \in [Path -> File] /\ DirInv(c)
  BY DEF RolloverInv, TypeOK
<1>d. PICK e \in [Path -> File] : e = After(c, torn)
  BY <1>c, PathFacts, AfterFacts
<1>e. disk' = e /\ \A p \in Path : /\ e[p].key = c[p].key
                                   /\ e[p].whole => c[p].whole
                                   /\ e[p].synced = e[p].whole
  BY <1>b, <1>c, <1>d, AfterFacts
<1>f. \A k \in Key : Kept(c[Bundle(k)]) => Kept(e[Bundle(k)])
  BY <1>b, <1>c, <1>d, AfterKept, PathFacts
<1>3. proc' = [o \in Operator |-> Idle]
  BY DEF PowerLoss
<1>4. \A k \in Key : PathKnown(k)'
  BY <1>3, IdleFacts DEF PathKnown
<1>5. \A k \in Key : Settled(k) => Settled(k)'
  BY <1>2, <1>4, <1>a, <1>e, <1>f DEF Settled, Durable, Bundle
<1>6. \A k \in Key : Known(k) => Known(k)'
  BY <1>2, <1>5 DEF Known
<1>7. TypeOK'
  BY <1>1, <1>2, <1>3, <1>e, IdleFacts, RolloverAssumption DEF RolloverInv, TypeOK, PowerLoss, Fault
<1>8. \A d \in survivors' : DirInv(d)'
  <2>1. DirInv(e)
    BY <1>c, <1>e, PathFacts DEF DirInv
  <2>2. DirInv(e)'
    BY <1>2, <1>6, <2>1, DirStable
  <2> QED
    BY <1>2, <1>e, <2>2 DEF DirInv
<1>9. \A o \in Operator : ProcInv(proc[o])'
  BY <1>3 DEF ProcInv, Idle
<1>10. (\A k \in caKeys' : Known(k)') /\ (\A r \in inflight' : Settled(r[2])')
  BY <1>1, <1>2, <1>5, <1>6 DEF RolloverInv, TypeOK
<1>11. BundleInv'
  BY <1>3, <1>e, IdleFacts, PathFacts DEF BundleInv, Bundle
<1> QED
  BY <1>7, <1>8, <1>9, <1>10, <1>11 DEF RolloverInv

\* Neither a late request nor a manual removal starts a command.
LEMMA OutsideStep ==
    ASSUME RolloverInv, NEW d \in [Path -> File],
           proc' = proc, origin' = origin, loose' = loose, faults' = faults,
           disk' = d, DirInv(d), d \in survivors', survivors' \subseteq survivors \cup {d},
           \A k \in Key : d[Bundle(k)] = disk[Bundle(k)],
           caKeys' \subseteq Key, \A k \in caKeys' : Known(k),
           inflight' \subseteq inflight
    PROVE  RolloverInv'
<1>1. \A k \in Key : PathKnown(k)' <=> PathKnown(k)
  BY DEF PathKnown
<1>2. \A k \in Key : Durable(k) => Durable(k)'
  BY DEF RolloverInv, TypeOK, Durable, Bundle
<1>3. Stable
  BY <1>1, <1>2 DEF Stable, Settled, Loaded, Known, Bundle
<1>4. TypeOK'
  BY DEF RolloverInv, TypeOK
<1>5. \A x \in survivors' : DirInv(x)'
  <2> SUFFICES ASSUME NEW x \in survivors' PROVE DirInv(x)'
    OBVIOUS
  <2>1. x \in [Path -> File] /\ DirInv(x)
    BY DEF RolloverInv, TypeOK
  <2> QED
    BY <1>3, <2>1, DirStable DEF Stable
<1>6. \A o \in Operator : ProcInv(proc[o])'
  <2> SUFFICES ASSUME NEW o \in Operator PROVE ProcInv(proc[o])'
    OBVIOUS
  <2>1. PICK q \in Process : q = proc[o] /\ ProcInv(q)
    BY DEF RolloverInv, TypeOK
  <2>2. ProcInv(q)'
    BY <1>3, <2>1, ProcStable
  <2> QED
    BY <2>1, <2>2 DEF ProcInv
<1>7. (\A k \in caKeys' : Known(k)') /\ (\A r \in inflight' : Settled(r[2])')
  BY <1>3 DEF Stable, RolloverInv, TypeOK
<1>8. BundleInv'
  <2>1. \A o \in Operator : proc[o].job = "prepare" => proc[o].new \in Key
    BY DEF RolloverInv, ProcInv
  <2>2. \A o \in Operator : proc'[o].job = "prepare" => PrepareInv(proc[o])'
    BY <2>1 DEF RolloverInv, BundleInv, PrepareInv, Bundle
  <2> QED
    BY <1>1, <2>2 DEF RolloverInv, BundleInv, Bundle
<1> QED
  BY <1>4, <1>5, <1>6, <1>7, <1>8 DEF RolloverInv

LEMMA LateArrivalInv ==
    ASSUME RolloverInv, LateArrival PROVE RolloverInv'
<1>1. PICK r \in inflight :
         /\ inflight' = inflight \ {r}
         /\ caKeys' = IF Acceptable(r[1], r[2]) THEN Rolled(r[1], r[2]) ELSE caKeys
  BY DEF LateArrival
<1>2. r[2] \in Key /\ Known(r[2])
  BY DEF RolloverInv, TypeOK, Known
<1>3. caKeys' \subseteq Key /\ \A k \in caKeys' : Known(k)
  BY <1>1, <1>2 DEF Rolled, RolloverInv, TypeOK
<1>4. PICK d \in [Path -> File] : d = disk /\ DirInv(d)
  BY DEF RolloverInv, TypeOK
<1>5. d \in survivors /\ \A k \in Key : d[Bundle(k)] = disk[Bundle(k)]
  BY <1>4 DEF RolloverInv, TypeOK
<1>6. UNCHANGED <<disk, survivors, origin, proc, loose, faults>>
  BY DEF LateArrival
<1> QED
  BY <1>1, <1>3, <1>4, <1>5, <1>6, OutsideStep

LEMMA RemoveTornPendingInv ==
    ASSUME RolloverInv, NEW k \in Key, RemoveTornPending(k) PROVE RolloverInv'
<1>1. disk \in [Path -> File] /\ DirInv(disk)
  BY DEF RolloverInv, TypeOK
<1>2. PICK d \in [Path -> File] : d = [disk EXCEPT ![Pending(k)] = Absent]
  BY <1>1, AbsentFacts
<1>3. \A x \in Path : d[x] = IF x = Pending(k) THEN Absent ELSE disk[x]
  BY <1>1, <1>2
<1>4. DirInv(d)
  BY <1>1, <1>3, AbsentFacts, PathFacts DEF DirInv
<1>5. \A l \in Key : d[Bundle(l)] = disk[Bundle(l)]
  BY <1>3, PathFacts
<1>6. /\ disk' = d /\ survivors' = survivors \cup {d}
      /\ UNCHANGED <<caKeys, inflight, origin, proc, loose, faults>>
  BY <1>2 DEF RemoveTornPending, SetDir
<1>7. caKeys' \subseteq Key /\ \A l \in caKeys' : Known(l)
  BY <1>6 DEF RolloverInv, TypeOK
<1> QED
  BY <1>4, <1>5, <1>6, <1>7, OutsideStep

-----------------------------------------------------------------------------
LEMMA NextInv == RolloverInv /\ [Next]_vars => RolloverInv'
<1> SUFFICES ASSUME RolloverInv, [Next]_vars PROVE RolloverInv'
  OBVIOUS
<1>1. CASE UNCHANGED vars
  BY <1>1 DEF vars, RolloverInv, TypeOK, DirInv, ProcInv, BundleInv, PrepareInv, Known, Settled,
              Loaded, Durable, PathKnown
<1>2. ASSUME NEW o \in Operator, Run(o) PROVE RolloverInv'
  BY <1>2, WriteFileInv, SyncFileInv, FlushInv, RegisterInv, WriteBundleInv, ExecuteLoadInv, RetireInv,
     StageInv, CAConfirmsInv, CARejectsInv, ActivateInv, SyncInv, ProbeOldInv, ProbeNewInv,
     RereadInv, ResolveInv DEF Run
<1>3. ASSUME NEW o \in Operator, Start(o) PROVE RolloverInv'
  BY <1>3, CreateKeyInv, StartRegisterInv, StartPrepareInv, StartExecuteInv, StartRecoverInv
     DEF Start
<1>4. ASSUME NEW o \in Operator, WriteFails(o) \/ Abort(o) PROVE RolloverInv'
  BY <1>4, WriteFailsInv, AbortInv
<1>5. ASSUME NEW k \in Key, RemoveTornPending(k) PROVE RolloverInv'
  BY <1>5, RemoveTornPendingInv
<1> QED
  BY <1>1, <1>2, <1>3, <1>4, <1>5, LateArrivalInv, PowerLossInv DEF Next

\* What the commands rely on of one another, for any number of operators and keys:
\* who may hold, durably and not, the active and the pending bundle, and which keys
\* the CA may come to recognise at each step of execute and recover.
THEOREM RolloverAlwaysInv == Spec => []RolloverInv
BY InitInv, NextInv, PTL DEF Spec

\* Type correctness of the account store under any number of concurrent commands,
\* process deaths and power losses: every file, process and CA key is of its type.
THEOREM TypeCorrect == Spec => []TypeOK
<1>1. RolloverInv => TypeOK
  BY DEF RolloverInv
<1> QED
  BY <1>1, RolloverAlwaysInv, PTL

\* rollover-execute and rollover-recover never lose the account: whatever the
\* operators, faults and late CA answers, a replacement key the CA recognises is
\* decryptable from a bundle that survives a power loss at any moment, unless the
\* rollover-prepare that wrote the bundle was killed between its Write and its file.Sync.
THEOREM RolledKeyNeverLost == Spec => []RolledKeyHeld
<1>1. RolloverInv => RolledKeyHeld
  BY DEF RolloverInv, RolledKeyHeld, Known, Settled
<1> QED
  BY <1>1, RolloverAlwaysInv, PTL

-----------------------------------------------------------------------------
(* Commands one at a time: what a lone command relies on.                  *)

\* The step of operator o, whose command was under way or has begun.
Acts(o) ==
    /\ \A u \in Operator \ {o} : proc'[u] = proc[u]
    /\ proc[o].pc # "idle" \/ proc'[o].pc # "idle"

Follows == FollowsCA /\ StaysWhole

LEMMA StateFacts ==
    ASSUME RolloverInv
    PROVE  /\ disk \in [Path -> File] /\ survivors \subseteq [Path -> File] /\ disk \in survivors
           /\ proc \in [Operator -> Process]
           /\ caKeys \subseteq Key /\ inflight \subseteq Key \X Key
           /\ origin \in [Key -> {"unused", "created", "prepared"}]
           /\ loose \subseteq Path /\ faults \in 0..MaxFaults
BY DEF RolloverInv, TypeOK

\* A key that is active in a directory that can survive was generated, and so was
\* every key the CA knows.
LEMMA UsedFacts ==
    ASSUME RolloverInv
    PROVE  /\ \A k \in Key : Known(k) => Used(k)
           /\ \A d \in survivors : d[Account].key \in Key => Used(d[Account].key)
<1>1. \A k \in Key : Known(k) => Used(k)
  BY DEF Known, Settled, Used
<1> QED
  BY <1>1 DEF RolloverInv, DirInv

LEMMA EndLone ==
    ASSUME RolloverInv, NEW o \in Operator, End(o), proc[o].pc # "idle"
    PROVE  Acts(o) /\ LoneProc(proc[o])' /\ proc'[o].job = "none"
<1>1. proc'[o] = Idle /\ \A u \in Operator \ {o} : proc'[u] = proc[u]
  BY StateFacts DEF End
<1>2. Idle.pc = "idle" /\ Idle.job = "none"
  BY DEF Idle
<1> QED
  BY <1>1, <1>2 DEF Acts, LoneProc, Writing

\* No step but a prepare puts the command of o to work on a bundle.
Prepares(o) ==
    proc'[o].job = "prepare" =>
       proc[o].job = "prepare" /\ proc'[o].new = proc[o].new /\ proc'[o].signer = proc[o].signer

\* A step that leaves the directory, the CA and the keys alone.
LEMMA QuietLone ==
    ASSUME RolloverInv, AccountInv, InOrder, NEW o \in Operator,
           \A u \in Operator \ {o} : proc'[u] = proc[u], Prepares(o),
           UNCHANGED <<disk, survivors, caKeys, inflight, origin, loose>>
    PROVE  AccountInv' /\ InOrder' /\ Follows
<1>1. AccountInv'
  BY DEF AccountInv, WithinReach, Recoverable
<1>2. InOrder'
  <2>1. PICK age \in [Key -> Nat], n \in Nat : Ordered(age, n)
    BY DEF InOrder
  <2>2. Ordered(age, n)'
    BY <2>1 DEF Ordered, Used, Prepares
  <2> QED
    BY <2>2 DEF InOrder
<1>3. Follows
  BY StateFacts DEF Follows, FollowsCA, StaysWhole, Kept
<1> QED
  BY <1>1, <1>2, <1>3

\* A step that gives the directory no new bundle and no new active key.
LEMMA OrderLone ==
    ASSUME RolloverInv, InOrder, NEW o \in Operator,
           \A u \in Operator \ {o} : proc'[u] = proc[u], Prepares(o),
           NEW d \in [Path -> File], survivors' \subseteq survivors \cup {d},
           \A k \in Key : d[Bundle(k)].key \in Key => d[Bundle(k)].key = disk[Bundle(k)].key,
           d[Account].key \in Key => d[Account].key = disk[Account].key,
           inflight' \subseteq inflight, origin' = origin
    PROVE  InOrder'
<1>1. PICK age \in [Key -> Nat], n \in Nat : Ordered(age, n)
  BY DEF InOrder
<1>2. disk \in survivors
  BY StateFacts
<1>3. \A x \in survivors', k \in Key : x[Bundle(k)].key \in Key =>
          Used(k)' /\ Used(x[Bundle(k)].key)' /\ age[x[Bundle(k)].key] < age[k]
  BY <1>1, <1>2 DEF Ordered, Used
<1>4. \A r \in inflight' : Used(r[1])' /\
          \A x \in survivors' : x[Account].key \in Key => age[r[1]] <= age[x[Account].key]
  BY <1>1, <1>2 DEF Ordered, Used
<1>5. \A u \in Operator : proc'[u].job = "prepare" =>
          origin'[proc'[u].signer] # "unused" /\ age[proc'[u].signer] < age[proc'[u].new]
  BY <1>1 DEF Ordered, Used, Prepares
<1>6. Ordered(age, n)'
  BY <1>1, <1>3, <1>4, <1>5 DEF Ordered, Used
<1> QED
  BY <1>6 DEF InOrder

\* A file that a power loss may tear may be made, finished or removed: nothing relies on it.
LEMMA AccountLone ==
    ASSUME RolloverInv, AccountInv, NEW p \in Path, ~Kept(disk[p]),
           NEW d \in [Path -> File], \A x \in Path \ {p} : d[x] = disk[x],
           survivors' \subseteq survivors \cup {d}, UNCHANGED <<caKeys, inflight, loose>>,
           \A k \in Key : Used(k) => origin'[k] = origin[k],
           d[Account].key \in Key =>
              d[Account].key = disk[Account].key \/ origin'[d[Account].key] = "created"
    PROVE  AccountInv'
<1>1. disk \in survivors /\ \A k \in caKeys : Used(k)
  BY StateFacts, UsedFacts DEF RolloverInv
<1>2. ASSUME caKeys' = {}, NEW x \in survivors', x[Account].key \in Key
      PROVE  origin'[x[Account].key] = "created"
  BY <1>1, <1>2, UsedFacts DEF AccountInv
<1>3. ASSUME NEW k \in Key, Kept(disk[Account]), Recoverable(k, disk)
      PROVE  d[Account] = disk[Account] /\ Recoverable(k, d)
  <2>1. p # Account /\ p # Bundle(k) /\ p # Retired(k)
    BY <1>3 DEF Recoverable
  <2> QED
    BY <1>3, <2>1, PathFacts DEF Recoverable
<1>4. WithinReach'
  <2> SUFFICES ASSUME loose = {}, NEW k \in Key, caKeys = {k}, origin[k] = "prepared", NEW x \in survivors'
               PROVE  Kept(x[Account]) /\ (x[Account].key = k \/ Recoverable(k, x))
    BY <1>1 DEF WithinReach, Recoverable
  <2>1. \A y \in survivors : Kept(y[Account]) /\ (y[Account].key = k \/ Recoverable(k, y))
    BY DEF AccountInv, WithinReach
  <2>2. p # Account /\ d[Account] = disk[Account]
    BY <1>1, <2>1, PathFacts
  <2> QED
    BY <1>1, <1>3, <2>1, <2>2
<1>5. ASSUME loose = {}, NEW r \in inflight, caKeys \subseteq {r[1]}, NEW x \in survivors'
      PROVE  Kept(x[Account]) /\ x[Account].key = r[1] /\ Recoverable(r[2], x)
  <2>1. r[2] \in Key
    BY StateFacts
  <2>2. \A y \in survivors : Kept(y[Account]) /\ y[Account].key = r[1] /\ Recoverable(r[2], y)
    BY <1>5 DEF AccountInv
  <2> QED
    BY <1>1, <1>3, <2>1, <2>2
<1>6. loose' = {} => \A r \in inflight' : caKeys' \subseteq {r[1]} =>
         \A x \in survivors' : Kept(x[Account]) /\ x[Account].key = r[1] /\ Recoverable(r[2], x)'
  BY <1>5 DEF Recoverable
<1> QED
  BY <1>2, <1>4, <1>6 DEF AccountInv

-----------------------------------------------------------------------------
(* The steps of a lone command that leave the directory and the CA alone.  *)

LEMMA StartRegisterLone ==
    ASSUME RolloverInv, AccountInv, InOrder, NEW o \in Operator, StartRegister(o)
    PROVE  Acts(o) /\ LoneProc(proc[o])' /\ AccountInv' /\ InOrder' /\ Follows
<1>1. proc'[o] = [proc[o] EXCEPT !.job = "register", !.pc = "register", !.signer = disk[Account].key]
  BY StateFacts DEF StartRegister
<1>2. proc'[o].job = "register" /\ proc'[o].pc = "register" /\ proc'[o].signer = disk[Account].key
  BY <1>1, StateFacts DEF Process
<1>3. Acts(o) /\ Prepares(o) /\ UNCHANGED <<disk, survivors, caKeys, inflight, origin, loose>>
  BY <1>2, StateFacts DEF StartRegister, Acts, Prepares
<1>4. LoneProc(proc[o])'
  BY <1>2, <1>3 DEF StartRegister, LoneProc, Writing
<1> QED
  BY <1>3, <1>4, QuietLone DEF Acts

LEMMA StartExecuteLone ==
    ASSUME RolloverInv, AccountInv, InOrder, NEW o \in Operator, NEW k \in Key, StartExecute(o, k)
    PROVE  Acts(o) /\ LoneProc(proc[o])' /\ AccountInv' /\ InOrder' /\ Follows
<1>1. proc'[o] = [proc[o] EXCEPT !.job = "execute", !.pc = "load", !.new = k, !.signer = disk[Account].key]
  BY StateFacts DEF StartExecute
<1>2. /\ proc'[o].job = "execute" /\ proc'[o].pc = "load"
      /\ proc'[o].new = k /\ proc'[o].signer = disk[Account].key
  BY <1>1, StateFacts DEF Process
<1>3. Acts(o) /\ Prepares(o) /\ UNCHANGED <<disk, survivors, caKeys, inflight, origin, loose>>
  BY <1>2, StateFacts DEF StartExecute, Acts, Prepares
<1>4. LoneProc(proc[o])'
  BY <1>2, <1>3 DEF StartExecute, LoneProc, Writing, LoadPrepared
<1> QED
  BY <1>3, <1>4, QuietLone DEF Acts

LEMMA StartRecoverLone ==
    ASSUME RolloverInv, AccountInv, InOrder, NEW o \in Operator, NEW k \in Key,
           NEW outcome \in {"old", "new"}, StartRecover(o, k, outcome)
    PROVE  Acts(o) /\ LoneProc(proc[o])' /\ AccountInv' /\ InOrder' /\ Follows
<1>1. proc'[o] = [proc[o] EXCEPT !.job = outcome, !.pc = "probeOld", !.new = k, !.signer = disk[Account].key]
  BY StateFacts DEF StartRecover
<1>2. /\ proc'[o].job = outcome /\ proc'[o].pc = "probeOld"
      /\ proc'[o].new = k /\ proc'[o].signer = disk[Account].key
  BY <1>1, StateFacts DEF Process
<1>3. Acts(o) /\ Prepares(o) /\ UNCHANGED <<disk, survivors, caKeys, inflight, origin, loose>>
  BY <1>2, StateFacts DEF StartRecover, Acts, Prepares
<1>4. LoneProc(proc[o])'
  BY <1>2, <1>3 DEF StartRecover, LoneProc, Writing, LoadPrepared
<1> QED
  BY <1>3, <1>4, QuietLone DEF Acts

\* A command that goes to another point with the same values.
LEMMA GotoLone ==
    ASSUME RolloverInv, NEW o \in Operator, NEW pc, proc' = [proc EXCEPT ![o].pc = pc]
    PROVE  /\ \A u \in Operator \ {o} : proc'[u] = proc[u]
           /\ proc'[o].pc = pc /\ proc'[o].job = proc[o].job
           /\ proc'[o].new = proc[o].new /\ proc'[o].signer = proc[o].signer
           /\ proc'[o].held = proc[o].held /\ proc'[o].path = proc[o].path
           /\ proc'[o].out = proc[o].out
BY StateFacts DEF Process

\* A command that has read the active envelope.
LEMMA HoldLone ==
    ASSUME RolloverInv, NEW o \in Operator,
           proc' = [proc EXCEPT ![o].pc = "retire", ![o].held = disk[Account]]
    PROVE  /\ \A u \in Operator \ {o} : proc'[u] = proc[u]
           /\ proc'[o].pc = "retire" /\ proc'[o].job = proc[o].job
           /\ proc'[o].new = proc[o].new /\ proc'[o].signer = proc[o].signer
           /\ proc'[o].held = disk[Account]
BY StateFacts DEF Process

LEMMA QuietEndLone ==
    ASSUME RolloverInv, AccountInv, InOrder, NEW o \in Operator, proc[o].pc # "idle", End(o),
           UNCHANGED <<disk, survivors, caKeys, inflight, origin, loose>>
    PROVE  Acts(o) /\ LoneProc(proc[o])' /\ AccountInv' /\ InOrder' /\ Follows
<1>1. Acts(o) /\ LoneProc(proc[o])' /\ Prepares(o)
  BY EndLone DEF Prepares
<1> QED
  BY <1>1, QuietLone DEF Acts

LEMMA ExecuteLoadLone ==
    ASSUME RolloverInv, AccountInv, InOrder, NEW o \in Operator, LoneProc(proc[o]), ExecuteLoad(o)
    PROVE  Acts(o) /\ LoneProc(proc[o])' /\ AccountInv' /\ InOrder' /\ Follows
<1>1. /\ proc[o].pc = "load" /\ proc[o].job = "execute"
      /\ UNCHANGED <<disk, survivors, caKeys, inflight, origin, loose>>
  BY Facts DEF ExecuteLoad, ProcInv
<1>2. proc' = [proc EXCEPT ![o].pc = "retire", ![o].held = disk[Account]]
  BY <1>1 DEF ExecuteLoad, LoneProc, Writing
<1>3. LoneProc(proc[o])'
  BY <1>1, <1>2, HoldLone DEF LoneProc, Writing, LoadPrepared
<1> QED
  BY <1>1, <1>2, <1>3, HoldLone, QuietLone DEF Acts, Prepares

LEMMA ProbeOldLone ==
    ASSUME RolloverInv, AccountInv, InOrder, NEW o \in Operator, LoneProc(proc[o]), ProbeOld(o)
    PROVE  Acts(o) /\ LoneProc(proc[o])' /\ AccountInv' /\ InOrder' /\ Follows
<1>1. /\ proc[o].pc = "probeOld" /\ proc[o].job \in {"old", "new"}
      /\ UNCHANGED <<disk, survivors, caKeys, inflight, origin, loose>>
  BY Facts DEF ProbeOld, ProcInv
<1>2. CASE End(o)
  BY <1>1, <1>2, QuietEndLone
<1>3. CASE proc' = [proc EXCEPT ![o].pc = "probeNew"]
  <2>1. LoneProc(proc[o])'
    BY <1>1, <1>3, GotoLone DEF LoneProc, Writing, LoadPrepared
  <2> QED
    BY <1>1, <1>3, <2>1, GotoLone, QuietLone DEF Acts, Prepares
<1> QED
  BY <1>2, <1>3 DEF ProbeOld

LEMMA ProbeNewLone ==
    ASSUME RolloverInv, AccountInv, InOrder, NEW o \in Operator, LoneProc(proc[o]), ProbeNew(o)
    PROVE  Acts(o) /\ LoneProc(proc[o])' /\ AccountInv' /\ InOrder' /\ Follows
<1>1. /\ proc[o].pc = "probeNew" /\ proc[o].job \in {"old", "new"}
      /\ UNCHANGED <<disk, survivors, caKeys, inflight, origin, loose>>
  BY Facts DEF ProbeNew, ProcInv
<1>2. CASE End(o)
  BY <1>1, <1>2, QuietEndLone
<1>3. CASE ~End(o)
  <2>1. /\ proc' = [proc EXCEPT ![o].pc = "reread"]
        /\ proc[o].job = "new" => proc[o].new \in caKeys
    BY <1>3 DEF ProbeNew
  <2>2. /\ proc'[o].pc = "reread" /\ proc'[o].job = proc[o].job
        /\ proc'[o].new = proc[o].new /\ proc'[o].signer = proc[o].signer
    BY <2>1, GotoLone
  <2>3. caKeys' = caKeys /\ disk' = disk /\ LoadPrepared(proc[o].new) /\ disk[Account].key = proc[o].signer
    BY <1>1 DEF LoneProc, Writing
  <2>4. LoneProc(proc[o])'
    BY <1>1, <2>1, <2>2, <2>3 DEF LoneProc, Writing, LoadPrepared
  <2> QED
    BY <1>1, <2>1, <2>4, GotoLone, QuietLone DEF Acts, Prepares
<1> QED
  BY <1>2, <1>3

LEMMA RereadLone ==
    ASSUME RolloverInv, AccountInv, InOrder, NEW o \in Operator, LoneProc(proc[o]), Reread(o)
    PROVE  Acts(o) /\ LoneProc(proc[o])' /\ AccountInv' /\ InOrder' /\ Follows
<1>1. /\ proc[o].pc = "reread" /\ proc[o].job \in {"old", "new"}
      /\ UNCHANGED <<disk, survivors, caKeys, inflight, origin, loose>>
  BY Facts DEF Reread, ProcInv
<1>2. CASE End(o)
  BY <1>1, <1>2, QuietEndLone
<1>3. CASE ~End(o)
  <2>1. /\ proc' = [proc EXCEPT ![o].pc = "retire", ![o].held = disk[Account]]
        /\ disk[Pending(proc[o].new)].whole
    BY <1>3 DEF Reread
  <2>2. /\ proc'[o].pc = "retire" /\ proc'[o].job = proc[o].job /\ proc'[o].held = disk[Account]
        /\ proc'[o].new = proc[o].new /\ proc'[o].signer = proc[o].signer
    BY <2>1, HoldLone
  <2>3. /\ LoadPrepared(proc[o].new) /\ disk[Account].key = proc[o].signer
        /\ proc[o].job = "new" => proc[o].new \in caKeys
    BY <1>1 DEF LoneProc, Writing
  <2>4. LoneProc(proc[o])'
    BY <1>1, <2>1, <2>2, <2>3 DEF LoneProc, Writing, LoadPrepared
  <2> QED
    BY <1>1, <2>1, <2>4, HoldLone, QuietLone DEF Acts, Prepares
<1> QED
  BY <1>2, <1>3

LEMMA CARejectsLone ==
    ASSUME RolloverInv, AccountInv, InOrder, NEW o \in Operator, CARejects(o)
    PROVE  Acts(o) /\ LoneProc(proc[o])' /\ AccountInv' /\ InOrder' /\ Follows
BY QuietEndLone DEF CARejects

-----------------------------------------------------------------------------
(* The exclusive creation of a file by a lone command.                     *)

\* The open, of a name other than the account's and not of a bundle.
LEMMA OpenLone ==
    ASSUME RolloverInv, AccountInv, InOrder, NEW o \in Operator, NEW p \in Path,
           NEW f \in File, ~f.whole, ~f.synced, OpenExclusive(o, p, f), p # Account,
           \A k \in Key : p # Bundle(k), disk[Account].whole, proc[o].job # "prepare",
           UNCHANGED <<caKeys, inflight, origin, loose>>
    PROVE  /\ Acts(o) /\ AccountInv' /\ InOrder' /\ Follows
           /\ proc'[o].pc = "write" /\ proc'[o].path = p /\ proc'[o].out = f
           /\ proc'[o].job = proc[o].job /\ proc'[o].new = proc[o].new
           /\ proc'[o].signer = proc[o].signer /\ proc'[o].held = proc[o].held
           /\ \A x \in Path : disk'[x] = IF x = p THEN f ELSE disk[x]
           /\ [disk' EXCEPT ![p] = Absent] \in survivors'
<1>1. PICK d \in [Path -> File] : d = [disk EXCEPT ![p] = f]
  BY StateFacts
<1>2. \A x \in Path : d[x] = IF x = p THEN f ELSE disk[x]
  BY <1>1, StateFacts
<1>3. disk' = d /\ survivors' = survivors \cup {d} /\ disk[p] = Absent
  BY <1>1 DEF OpenExclusive, SetDir
<1>4. proc'[o] = [proc[o] EXCEPT !.pc = "write", !.path = p, !.out = f]
  BY StateFacts DEF OpenExclusive
<1>5. /\ proc'[o].pc = "write" /\ proc'[o].path = p /\ proc'[o].out = f
      /\ proc'[o].job = proc[o].job /\ proc'[o].new = proc[o].new
      /\ proc'[o].signer = proc[o].signer /\ proc'[o].held = proc[o].held
  BY <1>4, StateFacts DEF Process
<1>6. Acts(o) /\ Prepares(o)
  BY <1>5, StateFacts DEF OpenExclusive, Acts, Prepares
<1>7. AccountInv'
  BY <1>2, <1>3, AbsentFacts, PathFacts, AccountLone DEF Kept
<1>8. InOrder'
  BY <1>2, <1>3, <1>6, PathFacts, OrderLone DEF Acts
<1>9. Follows
  BY <1>2, <1>3, PathFacts DEF Follows, FollowsCA, StaysWhole, Kept
<1>10. [disk' EXCEPT ![p] = Absent] = disk
  BY <1>1, <1>3, StateFacts
<1> QED
  BY <1>2, <1>3, <1>5, <1>6, <1>7, <1>8, <1>9, <1>10, StateFacts

\* The file at the retired copy's name and at the pending envelope's.
LEMMA NameFacts ==
    ASSUME NEW k \in Key
    PROVE  /\ Retired(k) \in Path /\ Retired(k) # Account /\ \A l \in Key : Retired(k) # Bundle(l)
           /\ Pending(k) \in Path /\ Pending(k) # Account /\ \A l \in Key : Pending(k) # Bundle(l)
           /\ Pending(k) # Retired(k)
BY DEF Path, Account, Bundle, Pending, Retired

LEMMA RetireLone ==
    ASSUME RolloverInv, AccountInv, InOrder, NEW o \in Operator, LoneProc(proc[o]), Retire(o)
    PROVE  Acts(o) /\ LoneProc(proc[o])' /\ AccountInv' /\ InOrder' /\ Follows
<1> DEFINE q == proc[o]
<1>1. /\ q.pc = "retire" /\ q.job \in {"execute", "old", "new"} /\ q.new \in Key
      /\ q.held \in File /\ UNCHANGED <<caKeys, inflight, origin, loose>>
  BY Facts DEF Retire, ProcInv, Process
<1>2. /\ LoadPrepared(q.new) /\ disk[Account].key = q.signer /\ q.held = disk[Account]
      /\ q.job \in {"old", "new"} => disk[Pending(q.new)].whole
      /\ q.job = "new" => q.new \in caKeys
  BY <1>1 DEF LoneProc, Writing
<1>3. CASE RetiredMatches(o)
  <2>1. PICK pc \in {"stage", "resolve"} :
           proc' = [proc EXCEPT ![o].pc = pc] /\ (pc = "stage" <=> q.job = "execute")
    BY <1>3 DEF RetiredMatches
  <2>2. /\ proc'[o].pc = pc /\ proc'[o].job = q.job /\ proc'[o].new = q.new
        /\ proc'[o].signer = q.signer /\ proc'[o].held = q.held
    BY <2>1, GotoLone
  <2>3. UNCHANGED <<disk, survivors>> /\ SameBytes(disk[Retired(q.new)], q.held)
    BY <1>3 DEF RetiredMatches
  <2>4. LoneProc(proc[o])'
    BY <1>1, <1>2, <2>1, <2>2, <2>3 DEF LoneProc, Writing, LoadPrepared
  <2> QED
    BY <1>1, <2>1, <2>2, <2>3, <2>4, GotoLone, QuietLone DEF Acts, Prepares
<1>4. CASE RetiredMissing(o)
  <2>1. PICK f \in File : /\ f = NewFile(q.held.key, q.held.nonce) /\ ~f.whole /\ ~f.synced
                          /\ f.key = q.held.key /\ f.nonce = q.held.nonce
    <3>1. PICK k \in Key, n \in Nonce \cup {0} : k = q.held.key /\ n = q.held.nonce
      BY <1>1, Facts DEF File, ProcInv
    <3>2. PICK f \in File : /\ f = NewFile(k, n) /\ ~f.whole /\ ~f.synced
                            /\ f.key = k /\ f.nonce = n
      BY NewFacts
    <3> QED
      BY <3>1, <3>2
  <2>2. OpenExclusive(o, Retired(q.new), f)
    BY <1>4, <2>1 DEF RetiredMissing
  <2>3. /\ Acts(o) /\ AccountInv' /\ InOrder' /\ Follows
        /\ proc'[o].pc = "write" /\ proc'[o].path = Retired(q.new) /\ proc'[o].out = f
        /\ proc'[o].job = q.job /\ proc'[o].new = q.new
        /\ proc'[o].signer = q.signer /\ proc'[o].held = q.held
        /\ \A x \in Path : disk'[x] = IF x = Retired(q.new) THEN f ELSE disk[x]
        /\ [disk' EXCEPT ![Retired(q.new)] = Absent] \in survivors'
    <3>1. PICK p \in Path : p = Retired(q.new) /\ p # Account /\ \A k \in Key : p # Bundle(k)
      BY <1>1, NameFacts
    <3>2. disk[Account].whole /\ q.job # "prepare"
      BY <1>1, <1>2 DEF LoadPrepared
    <3>3. OpenExclusive(o, p, f) /\ ~f.whole /\ ~f.synced
      BY <2>1, <2>2, <3>1
    <3>4. /\ Acts(o) /\ AccountInv' /\ InOrder' /\ Follows
          /\ proc'[o].pc = "write" /\ proc'[o].path = p /\ proc'[o].out = f
          /\ proc'[o].job = q.job /\ proc'[o].new = q.new
          /\ proc'[o].signer = q.signer /\ proc'[o].held = q.held
          /\ \A x \in Path : disk'[x] = IF x = p THEN f ELSE disk[x]
          /\ [disk' EXCEPT ![p] = Absent] \in survivors'
      BY <1>1, <3>1, <3>2, <3>3, OpenLone
    <3> QED
      BY <3>1, <3>4
  <2>4. /\ disk'[Account] = disk[Account] /\ disk'[Bundle(q.new)] = disk[Bundle(q.new)]
        /\ disk'[Retired(q.new)] = f /\ disk'[Pending(q.new)] = disk[Pending(q.new)]
    BY <1>1, <2>3, NameFacts, PathFacts
  <2>5. LoneProc(proc[o])'
    BY <1>1, <1>2, <2>1, <2>3, <2>4, NameFacts DEF LoneProc, Writing, LoadPrepared
  <2> QED
    BY <2>3, <2>5
<1>5. CASE RetiredDiffers(o)
  BY <1>1, <1>5, QuietEndLone DEF RetiredDiffers
<1> QED
  BY <1>3, <1>4, <1>5 DEF Retire

LEMMA StageLone ==
    ASSUME RolloverInv, AccountInv, InOrder, NEW o \in Operator, LoneProc(proc[o]), Stage(o)
    PROVE  Acts(o) /\ LoneProc(proc[o])' /\ AccountInv' /\ InOrder' /\ Follows
<1> DEFINE q == proc[o]
<1>1. /\ q.pc = "stage" /\ q.job = "execute" /\ q.new \in Key
      /\ q.held \in File /\ UNCHANGED <<caKeys, inflight, origin, loose>>
  BY Facts DEF Stage, ProcInv, Process
<1>2. /\ LoadPrepared(q.new) /\ disk[Account].key = q.signer /\ q.held = disk[Account]
      /\ SameBytes(disk[Retired(q.new)], q.held)
  BY <1>1 DEF LoneProc, Writing
<1>3. CASE PendingExists(o)
  BY <1>1, <1>3, QuietEndLone DEF PendingExists
<1>4. CASE PendingMissing(o)
  <2>1. PICK n \in Nonce : OpenExclusive(o, Pending(q.new), NewFile(q.new, n))
    BY <1>4 DEF PendingMissing
  <2>2. PICK f \in File : f = NewFile(q.new, n) /\ ~f.whole /\ ~f.synced
    BY <1>1, NewFacts
  <2>3. /\ Acts(o) /\ AccountInv' /\ InOrder' /\ Follows
        /\ proc'[o].pc = "write" /\ proc'[o].path = Pending(q.new) /\ proc'[o].out = f
        /\ proc'[o].job = q.job /\ proc'[o].new = q.new
        /\ proc'[o].signer = q.signer /\ proc'[o].held = q.held
        /\ \A x \in Path : disk'[x] = IF x = Pending(q.new) THEN f ELSE disk[x]
        /\ [disk' EXCEPT ![Pending(q.new)] = Absent] \in survivors'
    <3>1. PICK p \in Path : p = Pending(q.new) /\ p # Account /\ \A k \in Key : p # Bundle(k)
      BY <1>1, NameFacts
    <3>2. disk[Account].whole /\ q.job # "prepare"
      BY <1>1, <1>2 DEF LoadPrepared
    <3>3. OpenExclusive(o, p, f) /\ ~f.whole /\ ~f.synced
      BY <2>1, <2>2, <3>1
    <3>4. /\ Acts(o) /\ AccountInv' /\ InOrder' /\ Follows
          /\ proc'[o].pc = "write" /\ proc'[o].path = p /\ proc'[o].out = f
          /\ proc'[o].job = q.job /\ proc'[o].new = q.new
          /\ proc'[o].signer = q.signer /\ proc'[o].held = q.held
          /\ \A x \in Path : disk'[x] = IF x = p THEN f ELSE disk[x]
          /\ [disk' EXCEPT ![p] = Absent] \in survivors'
      BY <1>1, <3>1, <3>2, <3>3, OpenLone
    <3> QED
      BY <3>1, <3>4
  <2>4. /\ disk'[Account] = disk[Account] /\ disk'[Bundle(q.new)] = disk[Bundle(q.new)]
        /\ disk'[Pending(q.new)] = f /\ disk'[Retired(q.new)] = disk[Retired(q.new)]
    BY <1>1, <2>3, NameFacts, PathFacts
  <2>5. LoneProc(proc[o])'
    BY <1>1, <1>2, <2>2, <2>3, <2>4, NameFacts DEF LoneProc, Writing, LoadPrepared
  <2> QED
    BY <2>3, <2>5
<1> QED
  BY <1>3, <1>4 DEF Stage

LEMMA WriteBundleLone ==
    ASSUME RolloverInv, AccountInv, InOrder, NEW o \in Operator, LoneProc(proc[o]), WriteBundle(o)
    PROVE  Acts(o) /\ LoneProc(proc[o])' /\ AccountInv' /\ InOrder' /\ Follows
<1> DEFINE q == proc[o]
           p == Bundle(q.new)
<1>1. /\ q.pc = "bundle" /\ q.job = "prepare" /\ q.new \in Key /\ q.signer \in Key
      /\ origin[q.new] = "prepared" /\ disk[Account].whole
      /\ UNCHANGED <<caKeys, inflight, origin, loose>>
  BY Facts DEF WriteBundle, ProcInv, Process, LoneProc, Writing
<1>2. PICK f \in File : f = NewFile(q.signer, 0) /\ ~f.whole /\ ~f.synced /\ f.key = q.signer
  <2>1. PICK k \in Key : k = q.signer
    BY <1>1
  <2>2. NewFile(k, 0) \in File /\ NewFile(k, 0).key = k
        /\ NewFile(k, 0).whole = FALSE /\ NewFile(k, 0).synced = FALSE
    BY NewFacts
  <2> QED
    BY <2>1, <2>2
<1>3. PICK d \in [Path -> File] : d = [disk EXCEPT ![p] = f]
  BY StateFacts
<1>4. p \in Path /\ p # Account /\ \A x \in Path : d[x] = IF x = p THEN f ELSE disk[x]
  BY <1>1, <1>3, StateFacts, PathFacts
<1>5. disk' = d /\ survivors' = survivors \cup {d} /\ disk[p] = Absent
  BY <1>2, <1>3 DEF WriteBundle, OpenExclusive, SetDir
<1>6. proc'[o] = [q EXCEPT !.pc = "write", !.path = p, !.out = f]
  BY <1>2, StateFacts DEF WriteBundle, OpenExclusive
<1>7. /\ proc'[o].pc = "write" /\ proc'[o].path = p /\ proc'[o].out = f
      /\ proc'[o].job = "prepare" /\ proc'[o].new = q.new /\ proc'[o].signer = q.signer
  BY <1>1, <1>6, StateFacts DEF Process
<1>8. Acts(o) /\ Prepares(o)
  BY <1>1, <1>7, StateFacts DEF WriteBundle, OpenExclusive, Acts, Prepares
<1>9. AccountInv'
  BY <1>1, <1>4, <1>5, AbsentFacts, PathFacts, AccountLone DEF Kept
<1>10. InOrder'
  <2>1. PICK age \in [Key -> Nat], n \in Nat : Ordered(age, n)
    BY DEF InOrder
  <2>2. Used(q.signer) /\ Used(q.new) /\ age[q.signer] < age[q.new]
    BY <1>1, <2>1 DEF Ordered, Used
  <2>3. \A k \in Key : d[Bundle(k)].key \in Key =>
           Used(k) /\ Used(d[Bundle(k)].key) /\ age[d[Bundle(k)].key] < age[k]
    <3> SUFFICES ASSUME NEW k \in Key, d[Bundle(k)].key \in Key
                 PROVE  Used(k) /\ Used(d[Bundle(k)].key) /\ age[d[Bundle(k)].key] < age[k]
      OBVIOUS
    <3>1. CASE k = q.new
      BY <1>2, <1>4, <2>2, <3>1
    <3>2. CASE k # q.new
      <4>1. d[Bundle(k)] = disk[Bundle(k)]
        BY <1>1, <1>4, <3>2, PathFacts
      <4> QED
        BY <2>1, <4>1, StateFacts DEF Ordered
    <3> QED
      BY <3>1, <3>2
  <2>4. \A r \in inflight : d[Account].key \in Key => age[r[1]] <= age[d[Account].key]
    BY <1>4, <2>1, StateFacts, PathFacts DEF Ordered
  <2>5. \A x \in survivors', k \in Key : x[Bundle(k)].key \in Key =>
           Used(k)' /\ Used(x[Bundle(k)].key)' /\ age[x[Bundle(k)].key] < age[k]
    BY <1>1, <1>5, <2>1, <2>3 DEF Ordered, Used
  <2>6. \A r \in inflight' : Used(r[1])' /\
           \A x \in survivors' : x[Account].key \in Key => age[r[1]] <= age[x[Account].key]
    BY <1>1, <1>5, <2>1, <2>4 DEF Ordered, Used
  <2>7. \A u \in Operator : proc'[u].job = "prepare" =>
           origin'[proc'[u].signer] # "unused" /\ age[proc'[u].signer] < age[proc'[u].new]
    BY <1>1, <1>8, <2>1 DEF Ordered, Used, Prepares, Acts
  <2>8. Ordered(age, n)'
    BY <1>1, <2>1, <2>5, <2>6, <2>7 DEF Ordered, Used
  <2> QED
    BY <2>8 DEF InOrder
<1>11. Follows
  BY <1>4, <1>5, PathFacts, StateFacts DEF Follows, FollowsCA, StaysWhole, Kept
<1>12. [disk' EXCEPT ![p] = Absent] \in survivors'
  <2>1. [disk' EXCEPT ![p] = Absent] = disk
    BY <1>3, <1>5, StateFacts
  <2> QED
    BY <1>5, <2>1, StateFacts
<1>13. LoneProc(proc[o])'
  BY <1>1, <1>2, <1>4, <1>5, <1>7, <1>12, PathFacts DEF LoneProc, Writing
<1> QED
  BY <1>8, <1>9, <1>10, <1>11, <1>13

\* The bytes or the sync of the file a lone command has opened, still under its name.
LEMMA ThroughLone ==
    ASSUME RolloverInv, AccountInv, InOrder, NEW o \in Operator, LoneProc(proc[o]),
           NEW pc \in {"fsync", "flush"}, NEW f \in File,
           proc[o].pc \in {"write", "fsync"}, pc = "fsync" <=> proc[o].pc = "write",
           f.key = proc[o].out.key, f.nonce = proc[o].out.nonce, f.whole,
           f.synced <=> pc = "flush",
           SetDir(Through(o, f)), proc' = [proc EXCEPT ![o].pc = pc, ![o].out = f],
           UNCHANGED <<caKeys, inflight, origin, loose>>
    PROVE  /\ Acts(o) /\ LoneProc(proc[o])' /\ AccountInv' /\ InOrder' /\ Follows
           /\ \A x \in Path : disk'[x] = IF x = proc[o].path THEN f ELSE disk[x]
           /\ proc'[o].path = proc[o].path /\ proc'[o].pc = pc
<1> DEFINE q == proc[o]
<1>1. /\ q.job \in {"create", "prepare", "execute", "old", "new"}
      /\ q.path \in Path /\ q.held \in File /\ q.out \in File /\ q.out.key \in Key
  BY Facts DEF ProcInv, Process
<1>2. /\ [disk EXCEPT ![q.path] = Absent] \in survivors
      /\ disk[q.path] = q.out /\ ~Kept(q.out)
      /\ q.path # Account => disk[Account].whole
  BY <1>1 DEF LoneProc, Writing, Kept
<1>3. PICK p \in Path : p = q.path
  BY <1>1
<1>5. PICK d \in [Path -> File] : d = [disk EXCEPT ![p] = f]
  BY StateFacts
<1>6. \A x \in Path : d[x] = IF x = p THEN f ELSE disk[x]
  BY <1>5, StateFacts
<1>a. ASSUME NEW k \in Key, p = Pending(k) PROVE disk[Account].key # q.out.key
  <2>1. q.job = "execute" /\ q.new = k
    <3>a. q.job = "create" => p = Account
      BY <1>3, Facts DEF ProcInv
    <3>b. q.job = "prepare" => q.new \in Key /\ p = Bundle(q.new)
      BY <1>3, Facts DEF ProcInv
    <3>1. q.job # "create"
      BY <1>a, <3>a, NameFacts
    <3>2. q.job # "prepare"
      BY <1>a, <3>b, NameFacts
    <3>3. q.new \in Key /\ p \in {Retired(q.new), Pending(q.new)}
          /\ (q.job # "execute" => p = Retired(q.new))
      BY <1>1, <1>3, <3>1, <3>2, Facts DEF ProcInv
    <3> QED
      BY <1>1, <1>a, <3>1, <3>2, <3>3, PathFacts
  <2>2. q.out.key = k
    BY <1>1, <1>2, <1>3, <1>a, Facts, RolloverAssumption DEF DirInv
  <2>3. LoadPrepared(k)
    BY <2>1 DEF LoneProc, Writing
  <2>4. PICK age \in [Key -> Nat], n \in Nat : Ordered(age, n)
    BY DEF InOrder
  <2>5. disk[Account].key \in Key /\ disk[Bundle(k)].key = disk[Account].key /\ disk \in survivors
    BY <2>3, StateFacts, PathFacts DEF LoadPrepared, RolloverInv, DirInv
  <2>6. age[disk[Account].key] < age[k]
    BY <2>4, <2>5 DEF Ordered
  <2> QED
    BY <2>2, <2>5, <2>6
<1>7. disk' = d /\ survivors' = survivors \cup {d}
  <2>1. \A x \in Names(p) : disk[x] = q.out => x = p
    BY <1>a DEF Names
  <2>2. p \in Names(p)
    BY DEF Names
  <2>3. Through(o, f) = d
    BY <1>2, <1>3, <1>5, <2>1, <2>2, StateFacts DEF Through
  <2> QED
    BY <2>3 DEF SetDir
<1>b. proc'[o] = [q EXCEPT !.pc = pc, !.out = f]
  BY StateFacts
<1>8. /\ proc'[o].pc = pc /\ proc'[o].job = q.job /\ proc'[o].new = q.new
      /\ proc'[o].signer = q.signer /\ proc'[o].held = q.held /\ proc'[o].path = p
      /\ proc'[o].out = f
      /\ \A u \in Operator \ {o} : proc'[u] = proc[u]
  BY <1>3, <1>b, StateFacts DEF Process
<1>9. Acts(o) /\ Prepares(o)
  BY <1>8 DEF Acts, Prepares
<1>10. d[Account].key = disk[Account].key /\ (disk[Account].whole => d[Account].whole)
  BY <1>2, <1>3, <1>6, PathFacts
<1>11. AccountInv'
  BY <1>1, <1>2, <1>3, <1>6, <1>7, <1>10, AccountLone
<1>12. InOrder'
  <2>1. \A k \in Key : d[Bundle(k)].key = disk[Bundle(k)].key
    BY <1>2, <1>3, <1>6, PathFacts
  <2> QED
    BY <1>1, <1>7, <1>8, <1>9, <1>10, <2>1, OrderLone
<1>13. Follows
  BY <1>7, <1>10, StateFacts DEF Follows, FollowsCA, StaysWhole, Kept
<1>14. [disk' EXCEPT ![p] = Absent] \in survivors'
  <2>1. [disk' EXCEPT ![p] = Absent] = [disk EXCEPT ![p] = Absent]
    BY <1>5, <1>7, StateFacts
  <2> QED
    BY <1>2, <1>3, <1>7, <2>1
<1>c. /\ d[p] = f /\ (f.whole <=> pc # "write") /\ (f.synced <=> pc = "flush")
      /\ p # Account => d[Account].whole
  BY <1>2, <1>3, <1>6, <1>10 DEF File
<1>15. CASE q.job \in {"create", "prepare"}
  <2>1. q.job = "prepare" => disk[Account].whole
    BY DEF LoneProc, Writing
  <2>2. q.job = "prepare" => d[Account].whole
    BY <1>10, <2>1
  <2>a. q.job = "create" => p = Account
    BY <1>3, <1>15, Facts DEF ProcInv
  <2>b. q.job = "prepare" => q.new \in Key /\ p = Bundle(q.new)
    BY <1>3, <1>15, Facts DEF ProcInv
  <2>c. p # Pending(q.new)
    BY <1>15, <2>a, <2>b, PathFacts DEF Account, Pending
  <2>3. LoneProc(proc[o])'
    BY <1>7, <1>8, <1>14, <1>c, <1>15, <2>2, <2>c DEF LoneProc, Writing, Pending
  <2> QED
    BY <1>3, <1>6, <1>7, <1>8, <1>9, <1>11, <1>12, <1>13, <2>3
<1>16. CASE q.job \in {"execute", "old", "new"}
  <2>1. q.new \in Key /\ p \in {Retired(q.new), Pending(q.new)} /\ (q.job # "execute" => p = Retired(q.new))
    BY <1>1, <1>3, <1>16, Facts DEF ProcInv
  <2>2. /\ LoadPrepared(q.new) /\ disk[Account].key = q.signer /\ q.held = disk[Account]
        /\ p = Retired(q.new) => q.out.key = q.held.key /\ q.out.nonce = q.held.nonce
        /\ p = Pending(q.new) => SameBytes(disk[Retired(q.new)], q.held)
        /\ q.job \in {"old", "new"} => disk[Pending(q.new)].whole
        /\ q.job = "new" => q.new \in caKeys
    BY <1>1, <1>3, <1>16 DEF LoneProc, Writing
  <2>3. d[Account] = disk[Account] /\ d[Bundle(q.new)] = disk[Bundle(q.new)]
    BY <1>6, <2>1, NameFacts, PathFacts
  <2>4. p = Pending(q.new) => SameBytes(d[Retired(q.new)], q.held)
    BY <1>6, <2>1, <2>2, NameFacts
  <2>5. q.job \in {"old", "new"} => d[Pending(q.new)].whole
    BY <1>6, <1>16, <2>1, <2>2, NameFacts
  <2>6. disk[Account].whole /\ p # Account
    BY <1>6, <2>1, <2>2, NameFacts DEF LoadPrepared
  <2>7. LoneProc(proc[o])'
    <3>1. LoadPrepared(q.new)'
      BY <1>7, <1>8, <2>2, <2>3 DEF LoadPrepared
    <3>2. disk'[Account].key = q.signer /\ q.held = disk'[Account]
      BY <1>7, <2>2, <2>3
    <3>3. p = Retired(q.new) => f.key = q.held.key /\ f.nonce = q.held.nonce
      BY <2>2
    <3>4. /\ [disk' EXCEPT ![proc'[o].path] = Absent] \in survivors'
          /\ disk'[proc'[o].path] = proc'[o].out
          /\ (proc'[o].out.whole <=> proc'[o].pc # "write")
          /\ (proc'[o].out.synced <=> proc'[o].pc = "flush")
          /\ disk'[Account].whole
      BY <1>7, <1>8, <1>14, <1>c, <2>6
    <3>5. /\ proc'[o].pc \in {"fsync", "flush"} /\ proc'[o].job \in {"execute", "old", "new"}
          /\ disk'[Account].key = proc'[o].signer /\ proc'[o].held = disk'[Account]
          /\ proc'[o].path = Retired(proc'[o].new) =>
                proc'[o].out.key = proc'[o].held.key /\ proc'[o].out.nonce = proc'[o].held.nonce
          /\ proc'[o].path = Pending(proc'[o].new) =>
                SameBytes(disk'[Retired(proc'[o].new)], proc'[o].held)
          /\ proc'[o].job \in {"old", "new"} => disk'[Pending(proc'[o].new)].whole
          /\ proc'[o].job = "new" => proc'[o].new \in caKeys'
      BY <1>7, <1>8, <1>16, <2>2, <2>4, <2>5, <3>2, <3>3
    <3> QED
      BY <1>8, <3>1, <3>4, <3>5 DEF LoneProc, Writing
  <2> QED
    BY <1>3, <1>6, <1>7, <1>8, <1>9, <1>11, <1>12, <1>13, <2>7
<1> QED
  BY <1>1, <1>15, <1>16

\* The file as its Write and its file.Sync leave it.
LEMMA WriteFileLone ==
    ASSUME RolloverInv, AccountInv, InOrder, NEW o \in Operator, LoneProc(proc[o]), WriteFile(o)
    PROVE  /\ Acts(o) /\ LoneProc(proc[o])' /\ AccountInv' /\ InOrder' /\ Follows
           /\ \A x \in Path : x # proc[o].path => disk'[x] = disk[x]
           /\ proc'[o].path = proc[o].path /\ proc'[o].pc = "fsync"
<1>1. proc[o].pc = "write" /\ proc[o].out \in File
  BY Facts DEF WriteFile, Process
<1>2. ~proc[o].out.synced
  BY <1>1 DEF LoneProc, Writing
<1>3. PICK f \in File : f = [proc[o].out EXCEPT !.whole = TRUE]
  BY <1>1 DEF File
<1>4. f.key = proc[o].out.key /\ f.nonce = proc[o].out.nonce /\ f.whole /\ f.synced = FALSE
  BY <1>1, <1>2, <1>3 DEF File
<1>5. /\ SetDir(Through(o, f)) /\ proc' = [proc EXCEPT ![o].pc = "fsync", ![o].out = f]
      /\ UNCHANGED <<caKeys, inflight, origin, loose>>
  BY <1>3 DEF WriteFile
<1>6. /\ Acts(o) /\ LoneProc(proc[o])' /\ AccountInv' /\ InOrder' /\ Follows
      /\ \A x \in Path : disk'[x] = IF x = proc[o].path THEN f ELSE disk[x]
      /\ proc'[o].path = proc[o].path /\ proc'[o].pc = "fsync"
  BY <1>1, <1>4, <1>5, ThroughLone
<1> QED
  BY <1>6

LEMMA SyncFileLone ==
    ASSUME RolloverInv, AccountInv, InOrder, NEW o \in Operator, LoneProc(proc[o]), SyncFile(o)
    PROVE  /\ Acts(o) /\ LoneProc(proc[o])' /\ AccountInv' /\ InOrder' /\ Follows
           /\ \A x \in Path : disk'[x] = disk[x] \/ disk'[x].synced
           /\ disk'[proc[o].path].synced
<1>1. proc[o].pc = "fsync" /\ proc[o].out \in File /\ proc[o].path \in Path
  BY Facts DEF SyncFile, Process
<1>2. proc[o].out.whole
  BY <1>1 DEF LoneProc, Writing
<1>3. PICK f \in File : f = [proc[o].out EXCEPT !.synced = TRUE]
  BY <1>1 DEF File
<1>4. f.key = proc[o].out.key /\ f.nonce = proc[o].out.nonce /\ f.whole /\ f.synced = TRUE
  BY <1>1, <1>2, <1>3 DEF File
<1>5. /\ SetDir(Through(o, f)) /\ proc' = [proc EXCEPT ![o].pc = "flush", ![o].out = f]
      /\ UNCHANGED <<caKeys, inflight, origin, loose>>
  BY <1>3 DEF SyncFile
<1>6. /\ Acts(o) /\ LoneProc(proc[o])' /\ AccountInv' /\ InOrder' /\ Follows
      /\ \A x \in Path : disk'[x] = IF x = proc[o].path THEN f ELSE disk[x]
  BY <1>1, <1>4, <1>5, ThroughLone
<1> QED
  BY <1>1, <1>4, <1>6

\* Fewer directories can survive: a sync, or a file that is removed as it was made.
LEMMA SubLone ==
    ASSUME RolloverInv, AccountInv, InOrder, NEW o \in Operator,
           \A u \in Operator \ {o} : proc'[u] = proc[u], Prepares(o),
           survivors' \subseteq survivors, disk' \in survivors,
           UNCHANGED <<caKeys, inflight, origin, loose>>
    PROVE  AccountInv' /\ InOrder'
<1>1. AccountInv'
  BY DEF AccountInv, WithinReach, Recoverable
<1>2. InOrder'
  BY StateFacts, OrderLone
<1> QED
  BY <1>1, <1>2

LEMMA WriteFailsLone ==
    ASSUME RolloverInv, AccountInv, InOrder, NEW o \in Operator, LoneProc(proc[o]), WriteFails(o)
    PROVE  Acts(o) /\ LoneProc(proc[o])' /\ AccountInv' /\ InOrder' /\ Follows
<1>1. /\ proc[o].pc \in Writing /\ proc[o].pc # "idle" /\ End(o) /\ UNCHANGED <<caKeys, inflight, origin, loose>>
      /\ disk' \in survivors /\ survivors' = survivors
  BY DEF WriteFails, SetDir, LoneProc, Writing
<1>2. Acts(o) /\ LoneProc(proc[o])' /\ Prepares(o)
  BY <1>1, EndLone DEF Prepares
<1>3. Follows
  <2>1. faults' # faults
    BY StateFacts, RolloverAssumption DEF WriteFails, Fault
  <2> QED
    BY <1>1, <2>1 DEF Follows, FollowsCA, StaysWhole, Kept
<1> QED
  BY <1>1, <1>2, <1>3, SubLone DEF Acts

LEMMA FlushLone ==
    ASSUME RolloverInv, AccountInv, InOrder, NEW o \in Operator, LoneProc(proc[o]), Flush(o)
    PROVE  Acts(o) /\ LoneProc(proc[o])' /\ AccountInv' /\ InOrder' /\ Follows
<1> DEFINE q == proc[o]
<1>1. /\ q.pc = "flush" /\ UNCHANGED <<caKeys, inflight, origin, loose>>
      /\ disk' = disk /\ survivors' = {disk} /\ disk \in survivors /\ survivors' \subseteq survivors
  BY StateFacts DEF Flush, SyncDirectory
<1>2. Follows
  BY <1>1 DEF Follows, FollowsCA, StaysWhole, Kept
<1>3. CASE End(o)
  <2>1. Acts(o) /\ LoneProc(proc[o])' /\ Prepares(o)
    BY <1>1, <1>3, EndLone DEF Prepares
  <2> QED
    BY <1>1, <1>2, <2>1, SubLone DEF Acts
<1>4. CASE ~End(o)
  <2>1. PICK pc \in {"stage", "call", "resolve"} :
           /\ proc' = [proc EXCEPT ![o].pc = pc]
           /\ pc = "resolve" => q.job \in {"old", "new"}
           /\ pc # "resolve" => q.job = "execute"
           /\ pc = "call" => q.path # Retired(q.new)
    BY <1>4 DEF Flush
  <2>2. /\ proc'[o].pc = pc /\ proc'[o].job = q.job /\ proc'[o].new = q.new
        /\ proc'[o].signer = q.signer /\ proc'[o].held = q.held
        /\ \A u \in Operator \ {o} : proc'[u] = proc[u]
    BY <2>1, GotoLone
  <2>3. q.job \in {"execute", "old", "new"}
    BY <2>1
  <2>4. /\ LoadPrepared(q.new) /\ disk[Account].key = q.signer /\ q.held = disk[Account]
        /\ q.path = Retired(q.new) => q.out.key = q.held.key /\ q.out.nonce = q.held.nonce
        /\ q.path = Pending(q.new) => SameBytes(disk[Retired(q.new)], q.held)
        /\ q.job \in {"old", "new"} => disk[Pending(q.new)].whole
        /\ q.job = "new" => q.new \in caKeys
        /\ disk[q.path] = q.out /\ q.out.whole /\ q.out.synced
    BY <1>1, <2>3 DEF LoneProc, Writing
  <2>5. q.path \in {Retired(q.new), Pending(q.new)}
    BY <1>1, <2>3, Facts DEF ProcInv
  <2>6. pc = "call" => disk[Pending(q.new)].whole /\ disk[Pending(q.new)].synced
    BY <2>1, <2>4, <2>5
  <2>a. SameBytes(disk[Retired(q.new)], q.held)
    <3>1. q.held.whole = TRUE /\ q.out.whole = TRUE
      BY <2>4, Facts DEF LoadPrepared, Process, File
    <3> QED
      BY <2>4, <2>5, <3>1 DEF SameBytes
  <2>7. ASSUME pc = "stage" PROVE LoneProc(proc[o])'
    BY <1>1, <2>1, <2>2, <2>4, <2>a, <2>7 DEF LoneProc, LoadPrepared, Writing
  <2>8. ASSUME pc = "call" PROVE LoneProc(proc[o])'
    BY <1>1, <2>1, <2>2, <2>4, <2>6, <2>8, <2>a DEF LoneProc, LoadPrepared, Writing
  <2>9. ASSUME pc = "resolve" PROVE LoneProc(proc[o])'
    BY <1>1, <2>1, <2>2, <2>4, <2>9 DEF LoneProc, LoadPrepared, Writing
  <2>10. LoneProc(proc[o])' /\ Acts(o) /\ Prepares(o)
    BY <1>1, <2>1, <2>2, <2>3, <2>7, <2>8, <2>9 DEF Acts, Prepares
  <2> QED
    BY <1>1, <1>2, <2>10, SubLone DEF Acts
<1> QED
  BY <1>3, <1>4

LEMMA SyncLone ==
    ASSUME RolloverInv, AccountInv, InOrder, NEW o \in Operator, Sync(o)
    PROVE  Acts(o) /\ LoneProc(proc[o])' /\ AccountInv' /\ InOrder' /\ Follows
<1>1. /\ proc[o].pc = "sync" /\ End(o) /\ UNCHANGED <<caKeys, inflight, origin, loose>>
      /\ disk' = disk /\ disk \in survivors /\ survivors' \subseteq survivors
  BY StateFacts DEF Sync, SyncDirectory
<1>2. Acts(o) /\ LoneProc(proc[o])' /\ Prepares(o)
  BY <1>1, EndLone DEF Prepares
<1>3. Follows
  BY <1>1 DEF Follows, FollowsCA, StaysWhole, Kept
<1> QED
  BY <1>1, <1>2, <1>3, SubLone DEF Acts

-----------------------------------------------------------------------------
(* The replacement or removal of the pending envelope by a lone command.   *)

\* A key whose bundle is not stale is younger than the active key, so that no key
\* change it signed can still be carried out.
LEMMA NoLateSigner ==
    ASSUME RolloverInv, InOrder, NEW k \in Key, LoadPrepared(k)
    PROVE  \A r \in inflight : r[1] # k
<1>1. PICK age \in [Key -> Nat], n \in Nat : Ordered(age, n)
  BY DEF InOrder
<1>2. disk[Account].key \in Key /\ disk[Bundle(k)].key = disk[Account].key /\ disk \in survivors
  BY StateFacts, PathFacts DEF LoadPrepared, RolloverInv, DirInv
<1>3. age[disk[Account].key] < age[k]
  BY <1>1, <1>2 DEF Ordered
<1>4. \A r \in inflight : age[r[1]] <= age[disk[Account].key]
  BY <1>1, <1>2 DEF Ordered
<1> QED
  BY <1>2, <1>3, <1>4

LEMMA PromoteLone ==
    ASSUME RolloverInv, AccountInv, InOrder, NEW o \in Operator, NEW k \in Key, k \in caKeys,
           LoadPrepared(k), disk[Pending(k)].whole, loose = {} => disk[Pending(k)].synced,
           SetDir(Promoted(k)),
           \A u \in Operator \ {o} : proc'[u] = proc[u], Prepares(o),
           UNCHANGED <<caKeys, inflight, origin, loose>>
    PROVE  AccountInv' /\ InOrder' /\ Follows
<1>1. PICK d \in [Path -> File] : d = Promoted(k)
  BY StateFacts, AbsentFacts, PathFacts DEF Promoted
<1>2. \A x \in Path : d[x] = IF x = Pending(k) THEN Absent
                             ELSE IF x = Account THEN disk[Pending(k)] ELSE disk[x]
  BY <1>1, StateFacts, PathFacts DEF Promoted
<1>3. disk' = d /\ survivors' = survivors \cup {d} /\ disk \in survivors
  BY <1>1, StateFacts DEF SetDir
<1>4. disk[Pending(k)].key = k
  BY StateFacts, PathFacts, RolloverAssumption DEF RolloverInv, DirInv
<1>5. /\ d[Account].whole /\ d[Account].key = k /\ (loose = {} => Kept(d[Account]))
      /\ \A l \in Key : d[Bundle(l)] = disk[Bundle(l)]
  BY <1>2, <1>4, PathFacts DEF Kept
<1>6. \A r \in inflight : r[1] # k
  BY NoLateSigner
<1>7. AccountInv'
  <2>1. caKeys' # {}
    OBVIOUS
  <2>2. WithinReach'
    BY <1>3, <1>5 DEF AccountInv, WithinReach, Recoverable
  <2>3. \A r \in inflight' : ~(caKeys' \subseteq {r[1]})
    BY <1>6
  <2> QED
    BY <2>1, <2>2, <2>3 DEF AccountInv
<1>8. InOrder'
  <2>1. PICK age \in [Key -> Nat], n \in Nat : Ordered(age, n)
    BY DEF InOrder
  <2>2. disk[Account].key \in Key /\ disk[Bundle(k)].key = disk[Account].key
    BY StateFacts, PathFacts DEF LoadPrepared, RolloverInv, DirInv
  <2>3. age[disk[Account].key] < age[k]
    BY <1>3, <2>1, <2>2 DEF Ordered
  <2>4. \A r \in inflight : r[1] \in Key /\ age[r[1]] <= age[k]
    <3> SUFFICES ASSUME NEW r \in inflight PROVE r[1] \in Key /\ age[r[1]] <= age[k]
      OBVIOUS
    <3>1. r[1] \in Key
      BY StateFacts
    <3>2. age[r[1]] <= age[disk[Account].key]
      BY <1>3, <2>1, <2>2 DEF Ordered
    <3> QED
      BY <2>2, <2>3, <3>1, <3>2
  <2>5. \A x \in survivors', l \in Key : x[Bundle(l)].key \in Key =>
           Used(l)' /\ Used(x[Bundle(l)].key)' /\ age[x[Bundle(l)].key] < age[l]
    BY <1>3, <1>5, <2>1 DEF Ordered, Used
  <2>6. \A r \in inflight' : Used(r[1])' /\
           \A x \in survivors' : x[Account].key \in Key => age[r[1]] <= age[x[Account].key]
    BY <1>3, <1>5, <2>1, <2>4 DEF Ordered, Used
  <2>7. \A u \in Operator : proc'[u].job = "prepare" =>
           origin'[proc'[u].signer] # "unused" /\ age[proc'[u].signer] < age[proc'[u].new]
    BY <2>1 DEF Ordered, Used, Prepares
  <2>8. Ordered(age, n)'
    BY <2>1, <2>5, <2>6, <2>7 DEF Ordered, Used
  <2> QED
    BY <2>8 DEF InOrder
<1>9. Follows
  BY <1>3, <1>5 DEF Follows, FollowsCA, StaysWhole, Kept
<1> QED
  BY <1>7, <1>8, <1>9

\* A step that leaves the active envelope, the bundles and the retired copies alone.
LEMMA SameLone ==
    ASSUME RolloverInv, AccountInv, NEW d \in [Path -> File], d[Account] = disk[Account],
           \A k \in Key : d[Bundle(k)] = disk[Bundle(k)] /\ d[Retired(k)] = disk[Retired(k)],
           survivors' \subseteq survivors \cup {d}, UNCHANGED <<caKeys, inflight, loose>>,
           \A k \in Key : Used(k) => origin'[k] = origin[k]
    PROVE  AccountInv'
<1>1. disk \in survivors /\ \A k \in caKeys : k \in Key /\ Used(k)
  BY StateFacts, UsedFacts DEF RolloverInv
<1>2. \A x \in survivors', k \in Key : x[Account].key = k => Used(k)
  BY <1>1, UsedFacts
<1>3. \A x \in survivors' : \E y \in survivors :
         /\ y[Account] = x[Account]
         /\ \A k \in Key : y[Bundle(k)] = x[Bundle(k)] /\ y[Retired(k)] = x[Retired(k)]
  BY <1>1
<1>4. caKeys' = {} =>
         \A x \in survivors' : x[Account].key \in Key => origin'[x[Account].key] = "created"
  BY <1>2, <1>3 DEF AccountInv
<1>5. WithinReach'
  BY <1>1, <1>3 DEF AccountInv, WithinReach, Recoverable
<1>6. loose' = {} => \A r \in inflight' : caKeys' \subseteq {r[1]} =>
         \A x \in survivors' : Kept(x[Account]) /\ x[Account].key = r[1] /\ Recoverable(r[2], x)'
  <2>1. \A r \in inflight : r[2] \in Key
    BY StateFacts
  <2> QED
    BY <1>3, <2>1 DEF AccountInv, Recoverable
<1> QED
  BY <1>4, <1>5, <1>6 DEF AccountInv

\* The removal of a pending envelope.
LEMMA RemoveFacts ==
    ASSUME RolloverInv, NEW k \in Key, SetDir([disk EXCEPT ![Pending(k)] = Absent])
    PROVE  /\ disk' \in [Path -> File] /\ survivors' = survivors \cup {disk'}
           /\ disk'[Account] = disk[Account]
           /\ \A l \in Key : disk'[Bundle(l)] = disk[Bundle(l)] /\ disk'[Retired(l)] = disk[Retired(l)]
<1>1. disk' = [disk EXCEPT ![Pending(k)] = Absent] /\ survivors' = survivors \cup {disk'}
  BY DEF SetDir
<1>2. \A x \in Path : disk'[x] = IF x = Pending(k) THEN Absent ELSE disk[x]
  BY <1>1, StateFacts
<1>3. disk' \in [Path -> File]
  BY <1>1, StateFacts, AbsentFacts
<1> QED
  BY <1>1, <1>2, <1>3, PathFacts

\* Between the file operations of a lone command everything it can read is synced, unless
\* some file was left behind before it could be.
Synced == loose = {} => \A p \in Path : disk[p].whole => disk[p].synced

LEMMA ActivateLone ==
    ASSUME RolloverInv, AccountInv, InOrder, NEW o \in Operator, LoneProc(proc[o]), Synced, Activate(o)
    PROVE  Acts(o) /\ LoneProc(proc[o])' /\ AccountInv' /\ InOrder' /\ Follows
<1>1. /\ proc[o].pc = "activate" /\ proc[o].job = "execute"
      /\ UNCHANGED <<caKeys, inflight, origin, loose>>
  BY Facts DEF Activate, ProcInv
<1>2. PICK k \in Key : k = proc[o].new
  BY <1>1, Facts DEF ProcInv
<1>3. /\ k \in caKeys /\ LoadPrepared(k) /\ disk[Pending(k)].whole
      /\ loose = {} => disk[Pending(k)].synced
  BY <1>1, <1>2, PathFacts DEF LoneProc, Writing, Synced
<1>4. SetDir(Promoted(k)) /\ proc' = [proc EXCEPT ![o].pc = "sync"]
  BY <1>2, <1>3, AbsentFacts DEF Activate
<1>5. LoneProc(proc[o])' /\ Acts(o) /\ Prepares(o)
  <2>1. /\ proc'[o].pc = "sync" /\ proc'[o].job = proc[o].job
        /\ \A u \in Operator \ {o} : proc'[u] = proc[u]
    BY <1>4, GotoLone
  <2>2. LoneProc(proc[o])'
    BY <1>1, <2>1 DEF LoneProc, Writing
  <2> QED
    BY <1>1, <2>1, <2>2 DEF Acts, Prepares
<1> QED
  BY <1>1, <1>3, <1>4, <1>5, PromoteLone DEF Acts

LEMMA ResolveLone ==
    ASSUME RolloverInv, AccountInv, InOrder, NEW o \in Operator, LoneProc(proc[o]), Synced, Resolve(o)
    PROVE  Acts(o) /\ LoneProc(proc[o])' /\ AccountInv' /\ InOrder' /\ Follows
<1>1. /\ proc[o].pc = "resolve" /\ proc[o].job \in {"old", "new"}
      /\ UNCHANGED <<caKeys, inflight, origin, loose>>
  BY Facts DEF Resolve, ProcInv
<1>2. PICK k \in Key : k = proc[o].new
  BY <1>1, Facts DEF ProcInv
<1>3. /\ LoadPrepared(k) /\ disk[Pending(k)].whole /\ (proc[o].job = "new" => k \in caKeys)
      /\ loose = {} => disk[Pending(k)].synced
  BY <1>1, <1>2, PathFacts DEF LoneProc, Writing, Synced
<1>4. proc' = [proc EXCEPT ![o].pc = "sync"]
  BY <1>2, <1>3, AbsentFacts DEF Resolve
<1>5. LoneProc(proc[o])' /\ Acts(o) /\ Prepares(o)
  <2>1. /\ proc'[o].pc = "sync" /\ proc'[o].job = proc[o].job
        /\ \A u \in Operator \ {o} : proc'[u] = proc[u]
    BY <1>4, GotoLone
  <2>2. LoneProc(proc[o])'
    BY <1>1, <2>1 DEF LoneProc, Writing
  <2> QED
    BY <1>1, <2>1, <2>2 DEF Acts, Prepares
<1>6. CASE proc[o].job = "new"
  <2>1. SetDir(Promoted(k))
    BY <1>2, <1>3, <1>6, AbsentFacts DEF Resolve
  <2> QED
    BY <1>1, <1>3, <1>5, <1>6, <2>1, PromoteLone DEF Acts
<1>7. CASE proc[o].job = "old"
  <2>1. SetDir([disk EXCEPT ![Pending(k)] = Absent])
    BY <1>2, <1>3, <1>7, AbsentFacts DEF Resolve
  <2>2. PICK d \in [Path -> File] :
           /\ disk' = d /\ survivors' = survivors \cup {d} /\ d[Account] = disk[Account]
           /\ \A l \in Key : d[Bundle(l)] = disk[Bundle(l)] /\ d[Retired(l)] = disk[Retired(l)]
    BY <2>1, RemoveFacts
  <2>3. AccountInv'
    BY <1>1, <2>2, SameLone
  <2>4. InOrder'
    BY <1>1, <1>5, <2>2, OrderLone DEF Acts
  <2>5. Follows
    BY <2>2, StateFacts DEF Follows, FollowsCA, StaysWhole, Kept
  <2> QED
    BY <1>5, <2>3, <2>4, <2>5
<1> QED
  BY <1>1, <1>6, <1>7

-----------------------------------------------------------------------------
(* New keys.                                                               *)

\* A generated key is the youngest.
LEMMA FreshLone ==
    ASSUME RolloverInv, InOrder, NEW o \in Operator, NEW k \in Key, origin[k] = "unused",
           NEW c \in {"created", "prepared"}, origin' = [origin EXCEPT ![k] = c],
           \A u \in Operator \ {o} : proc'[u] = proc[u],
           proc'[o].job = "prepare" =>
              proc'[o].new = k /\ proc'[o].signer = disk[Account].key /\ disk[Account].key \in Key,
           NEW d \in [Path -> File], survivors' \subseteq survivors \cup {d},
           \A l \in Key : d[Bundle(l)].key \in Key => d[Bundle(l)].key = disk[Bundle(l)].key,
           d[Account].key \in Key => d[Account].key \in {disk[Account].key, k},
           inflight' = inflight
    PROVE  InOrder'
<1>1. PICK age \in [Key -> Nat], n \in Nat : Ordered(age, n)
  BY DEF InOrder
<1> DEFINE new == [age EXCEPT ![k] = n]
<1>2. new \in [Key -> Nat] /\ new[k] = n /\ \A l \in Key : l # k => new[l] = age[l]
  OBVIOUS
<1>3. \A l \in Key : Used(l) => l # k /\ Used(l)' /\ new[l] = age[l] /\ age[l] < n
  BY <1>1, <1>2, StateFacts DEF Used, Ordered
<1>4. disk \in survivors /\ \A x \in survivors : x[Account].key \in Key => Used(x[Account].key)
  BY StateFacts, UsedFacts
<1>5. \A l \in Key : Used(l)' => new[l] < n + 1
  <2> SUFFICES ASSUME NEW l \in Key, Used(l)' PROVE new[l] < n + 1
    OBVIOUS
  <2>1. CASE l = k
    BY <1>2, <2>1
  <2>2. CASE l # k
    <3>1. Used(l)
      BY <2>2, StateFacts DEF Used
    <3> QED
      BY <1>2, <1>3, <3>1
  <2> QED
    BY <2>1, <2>2
<1>6. \A x \in survivors \cup {d}, l \in Key : x[Bundle(l)].key \in Key =>
         Used(l) /\ Used(x[Bundle(l)].key) /\ age[x[Bundle(l)].key] < age[l]
  BY <1>1, <1>4 DEF Ordered
<1>7. \A x \in survivors', l \in Key : x[Bundle(l)].key \in Key =>
         Used(l)' /\ Used(x[Bundle(l)].key)' /\ new[x[Bundle(l)].key] < new[l]
  BY <1>3, <1>6
<1>8. \A r \in inflight' : Used(r[1])' /\
         \A x \in survivors' : x[Account].key \in Key => new[r[1]] <= new[x[Account].key]
  <2> SUFFICES ASSUME NEW r \in inflight PROVE Used(r[1])' /\
                  \A x \in survivors' : x[Account].key \in Key => new[r[1]] <= new[x[Account].key]
    OBVIOUS
  <2>1. r[1] \in Key /\ Used(r[1])
    BY <1>1, StateFacts DEF Ordered
  <2>2. new[r[1]] = age[r[1]] /\ age[r[1]] < n /\ Used(r[1])'
    BY <1>3, <2>1
  <2>3. ASSUME NEW x \in survivors', x[Account].key \in Key PROVE new[r[1]] <= new[x[Account].key]
    <3>1. CASE x[Account].key = k
      BY <1>2, <2>1, <2>2, <3>1
    <3>2. CASE x[Account].key # k
      <4>1. PICK y \in survivors : y[Account].key = x[Account].key
        BY <1>4, <2>3, <3>2
      <4>2. age[r[1]] <= age[y[Account].key]
        BY <1>1, <2>3, <4>1 DEF Ordered
      <4> QED
        BY <1>2, <2>2, <2>3, <3>2, <4>1, <4>2
    <3> QED
      BY <3>1, <3>2
  <2> QED
    BY <2>2, <2>3
<1>9. ASSUME NEW u \in Operator, proc'[u].job = "prepare"
      PROVE  origin'[proc'[u].signer] # "unused" /\ new[proc'[u].signer] < new[proc'[u].new]
  <2>1. CASE u = o
    <3>1. Used(disk[Account].key) /\ disk[Account].key \in Key
      BY <1>4, <1>9, <2>1
    <3> QED
      BY <1>2, <1>3, <1>9, <2>1, <3>1 DEF Used
  <2>2. CASE u # o
    <3>1. /\ proc[u].new \in Key /\ proc[u].signer \in Key /\ Used(proc[u].new) /\ Used(proc[u].signer)
          /\ age[proc[u].signer] < age[proc[u].new]
      BY <1>1, <1>9, <2>2, Facts DEF Ordered, ProcInv, Used
    <3> QED
      BY <1>3, <1>9, <2>2, <3>1 DEF Used
  <2> QED
    BY <2>1, <2>2
<1> HIDE DEF new
<1>10. Ordered(new, n + 1)'
  BY <1>5, <1>7, <1>8, <1>9 DEF Ordered, Used
<1> QED
  BY <1>2, <1>10 DEF InOrder

LEMMA CreateKeyLone ==
    ASSUME RolloverInv, AccountInv, InOrder, NEW o \in Operator, CreateKey(o)
    PROVE  Acts(o) /\ LoneProc(proc[o])' /\ AccountInv' /\ InOrder' /\ Follows
<1>1. PICK k \in Key, m \in Nonce :
         LET f == NewFile(k, m) IN
         /\ origin[k] = "unused"
         /\ origin' = [origin EXCEPT ![k] = "created"]
         /\ SetDir([disk EXCEPT ![Account] = f])
         /\ proc' = [proc EXCEPT ![o].job = "create", ![o].pc = "write",
                                 ![o].path = Account, ![o].out = f]
  BY DEF CreateKey
<1>2. PICK f \in File : f = NewFile(k, m) /\ ~f.whole /\ ~f.synced /\ f.key = k
  BY NewFacts
<1>3. PICK d \in [Path -> File] : d = [disk EXCEPT ![Account] = f]
  BY StateFacts, PathFacts
<1>4. Account \in Path /\ \A x \in Path : d[x] = IF x = Account THEN f ELSE disk[x]
  BY <1>3, StateFacts, PathFacts
<1>5. /\ disk' = d /\ survivors' = survivors \cup {d} /\ disk[Account] = Absent
      /\ UNCHANGED <<caKeys, inflight, loose>>
  BY <1>1, <1>2, <1>3 DEF CreateKey, SetDir
<1>6. proc'[o] = [proc[o] EXCEPT !.job = "create", !.pc = "write", !.path = Account, !.out = f]
  BY <1>1, <1>2, StateFacts
<1>7. /\ proc'[o].job = "create" /\ proc'[o].pc = "write"
      /\ proc'[o].path = Account /\ proc'[o].out = f
  BY <1>6, StateFacts DEF Process
<1>8. Acts(o)
  BY <1>1, <1>7, StateFacts DEF Acts
<1>9. origin'[k] = "created" /\ \A l \in Key : Used(l) => origin'[l] = origin[l]
  BY <1>1, StateFacts DEF Used
<1>10. AccountInv'
  BY <1>2, <1>4, <1>5, <1>9, AbsentFacts, AccountLone DEF Kept
<1>11. InOrder'
  <2>1. \A l \in Key : d[Bundle(l)].key = disk[Bundle(l)].key
    BY <1>4, PathFacts
  <2>2. d[Account].key = k
    BY <1>2, <1>4
  <2> QED
    BY <1>1, <1>5, <1>7, <1>8, <2>1, <2>2, FreshLone DEF Acts
<1>12. Follows
  BY <1>5, AbsentFacts, StateFacts DEF Follows, FollowsCA, StaysWhole, Kept
<1>13. [disk' EXCEPT ![Account] = Absent] \in survivors'
  <2>1. [disk' EXCEPT ![Account] = Absent] = disk
    BY <1>3, <1>5, StateFacts, PathFacts
  <2> QED
    BY <1>5, <2>1, StateFacts
<1>14. disk'[Account] = f
  BY <1>4, <1>5
<1>15. LoneProc(proc[o])'
  BY <1>2, <1>7, <1>13, <1>14, NameFacts DEF LoneProc, Writing, Pending, Account
<1> QED
  BY <1>8, <1>10, <1>11, <1>12, <1>15

LEMMA StartPrepareLone ==
    ASSUME RolloverInv, AccountInv, InOrder, NEW o \in Operator, StartPrepare(o)
    PROVE  Acts(o) /\ LoneProc(proc[o])' /\ AccountInv' /\ InOrder' /\ Follows
<1>1. PICK k \in Key :
         /\ origin[k] = "unused"
         /\ origin' = [origin EXCEPT ![k] = "prepared"]
         /\ proc' = [proc EXCEPT ![o].job = "prepare", ![o].pc = "bundle",
                                 ![o].new = k, ![o].signer = disk[Account].key]
  BY DEF StartPrepare
<1>2. disk[Account].whole /\ UNCHANGED <<disk, survivors, caKeys, inflight, loose>>
  BY DEF StartPrepare
<1>3. proc'[o] = [proc[o] EXCEPT !.job = "prepare", !.pc = "bundle", !.new = k, !.signer = disk[Account].key]
  BY <1>1, StateFacts
<1>4. /\ proc'[o].job = "prepare" /\ proc'[o].pc = "bundle"
      /\ proc'[o].new = k /\ proc'[o].signer = disk[Account].key
  BY <1>3, StateFacts DEF Process
<1>5. Acts(o)
  BY <1>1, <1>4, StateFacts DEF Acts
<1>6. LoneProc(proc[o])'
  BY <1>2, <1>4 DEF LoneProc, Writing
<1>7. PICK d \in [Path -> File] : d = disk
  BY StateFacts
<1>8. \A l \in Key : Used(l) => origin'[l] = origin[l]
  BY <1>1, StateFacts DEF Used
<1>9. AccountInv'
  BY <1>2, <1>7, <1>8, SameLone
<1>10. InOrder'
  <2>1. disk[Account].key \in Key
    BY <1>2, WholeFacts
  <2> QED
    BY <1>1, <1>2, <1>4, <1>5, <1>7, <2>1, FreshLone DEF Acts
<1>11. Follows
  BY <1>2, StateFacts DEF Follows, FollowsCA, StaysWhole, Kept
<1> QED
  BY <1>5, <1>6, <1>9, <1>10, <1>11

-----------------------------------------------------------------------------
(* The CA.                                                                 *)

LEMMA RegisterLone ==
    ASSUME RolloverInv, AccountInv, InOrder, NEW o \in Operator, LoneProc(proc[o]), Register(o)
    PROVE  Acts(o) /\ LoneProc(proc[o])' /\ AccountInv' /\ InOrder' /\ Follows
<1>1. /\ proc[o].pc = "register" /\ End(o) /\ UNCHANGED <<disk, survivors, inflight, origin, loose>>
      /\ caKeys' = caKeys \cup {proc[o].signer} /\ proc[o].signer \in Key
  BY Facts DEF Register, ProcInv
<1>2. disk[Account].whole /\ disk[Account].key = proc[o].signer /\ disk \in survivors
  BY <1>1, StateFacts DEF LoneProc, Writing
<1>3. Acts(o) /\ LoneProc(proc[o])' /\ Prepares(o)
  BY <1>1, EndLone DEF Prepares
<1>4. AccountInv'
  <2>1. WithinReach'
    <3> SUFFICES ASSUME loose = {}, NEW k \in Key, caKeys' = {k}, origin[k] = "prepared", NEW d \in survivors
                 PROVE  Kept(d[Account]) /\ (d[Account].key = k \/ Recoverable(k, d))
      BY <1>1 DEF WithinReach, Recoverable
    <3>1. k = proc[o].signer /\ caKeys \subseteq {k}
      BY <1>1
    <3>2. caKeys # {}
      BY <1>2, <3>1 DEF AccountInv
    <3>3. caKeys = {k}
      BY <3>1, <3>2
    <3> QED
      BY <3>3 DEF AccountInv, WithinReach
  <2>2. loose' = {} => \A r \in inflight' : caKeys' \subseteq {r[1]} =>
           \A d \in survivors' : Kept(d[Account]) /\ d[Account].key = r[1] /\ Recoverable(r[2], d)'
    BY <1>1 DEF AccountInv, Recoverable
  <2> QED
    BY <1>1, <2>1, <2>2 DEF AccountInv
<1>5. InOrder'
  BY <1>1, <1>3, StateFacts, OrderLone DEF Acts
<1>6. Follows
  BY <1>1, StateFacts DEF Follows, FollowsCA, StaysWhole, Kept
<1> QED
  BY <1>3, <1>4, <1>5, <1>6

LEMMA CAConfirmsLone ==
    ASSUME RolloverInv, AccountInv, InOrder, NEW o \in Operator, LoneProc(proc[o]), Synced, CAConfirms(o)
    PROVE  Acts(o) /\ LoneProc(proc[o])' /\ AccountInv' /\ InOrder' /\ Follows
<1>1. /\ proc[o].pc = "call" /\ proc[o].job = "execute"
      /\ proc' = [proc EXCEPT ![o].pc = "activate"]
      /\ UNCHANGED <<disk, survivors, inflight, origin, loose>>
  BY Facts DEF CAConfirms, ProcInv
<1>2. PICK k \in Key : k = proc[o].new
  BY <1>1, Facts DEF ProcInv
<1>3. k \in caKeys' /\ k \notin caKeys /\ caKeys' = (caKeys \ {proc[o].signer}) \cup {k}
  BY <1>2 DEF CAConfirms, Acceptable, Rolled
<1>4. /\ LoadPrepared(k) /\ disk[Account].key = proc[o].signer /\ proc[o].held = disk[Account]
      /\ SameBytes(disk[Retired(k)], disk[Account]) /\ survivors = {disk} /\ disk[Pending(k)].whole
  BY <1>1, <1>2 DEF LoneProc, Writing
<1>5. /\ proc'[o].pc = "activate" /\ proc'[o].job = "execute" /\ proc'[o].new = k
      /\ proc'[o].signer = proc[o].signer /\ \A u \in Operator \ {o} : proc'[u] = proc[u]
  BY <1>1, <1>2, GotoLone
<1>6. LoneProc(proc[o])'
  BY <1>1, <1>3, <1>4, <1>5 DEF LoneProc, Writing, LoadPrepared
<1>7. Acts(o) /\ Prepares(o)
  BY <1>5 DEF Acts, Prepares
<1>8. AccountInv'
  <2>a. loose = {} => Kept(disk[Account]) /\ Recoverable(k, disk)
    BY <1>4, PathFacts DEF Synced, Recoverable, LoadPrepared, Kept, SameBytes
  <2>1. WithinReach'
    BY <1>1, <1>3, <1>4, <2>a DEF WithinReach, Recoverable
  <2>2. \A r \in inflight' : ~(caKeys' \subseteq {r[1]})
    BY <1>1, <1>3, <1>4, NoLateSigner
  <2> QED
    BY <1>3, <2>1, <2>2 DEF AccountInv
<1>9. InOrder'
  BY <1>1, <1>5, <1>7, StateFacts, OrderLone
<1>10. Follows
  BY <1>1, StateFacts DEF Follows, FollowsCA, StaysWhole, Kept
<1> QED
  BY <1>6, <1>7, <1>8, <1>9, <1>10

\* Directory x has what directory y has for good, and names the keys that y names.
Shadows(x, y) ==
    \A p \in Path : x[p].key = y[p].key /\ (Kept(y[p]) => x[p] = y[p])

\* A key change that nobody waits for any more was staged before it was sent.
LEMMA AbandonLone ==
    ASSUME RolloverInv, AccountInv, InOrder, NEW S \in SUBSET Operator,
           \A o \in S : LoneProc(proc[o]),
           (\E o \in S : proc[o].pc = "call") => Synced,
           inflight' \subseteq inflight \cup Abandoned(S),
           \A x \in survivors' : \E y \in survivors : Shadows(x, y),
           \A u \in Operator : proc'[u] = proc[u] \/ proc'[u].job = "none",
           loose \subseteq loose', UNCHANGED <<caKeys, origin>>
    PROVE  AccountInv' /\ InOrder'
<1>1. ASSUME NEW r \in Abandoned(S)
      PROVE  /\ r[1] \in Key /\ r[2] \in Key
             /\ \A d \in survivors : d[Account].key = r[1]
             /\ loose = {} => \A d \in survivors : Kept(d[Account]) /\ Recoverable(r[2], d)
  <2>1. PICK o \in S : proc[o].pc = "call" /\ r = <<proc[o].signer, proc[o].new>>
    BY <1>1 DEF Abandoned
  <2>2. proc[o].job = "execute" /\ proc[o].signer \in Key /\ proc[o].new \in Key
    BY <2>1, Facts DEF ProcInv
  <2>3. /\ LoadPrepared(proc[o].new) /\ disk[Account].key = proc[o].signer
        /\ SameBytes(disk[Retired(proc[o].new)], disk[Account]) /\ survivors = {disk}
    BY <2>1, <2>2 DEF LoneProc, Writing
  <2>4. loose = {} => Kept(disk[Account]) /\ Recoverable(proc[o].new, disk)
    BY <2>1, <2>2, <2>3, PathFacts DEF Synced, Recoverable, LoadPrepared, Kept, SameBytes
  <2> QED
    BY <2>1, <2>2, <2>3, <2>4
<1>a. ASSUME NEW x, NEW y, Shadows(x, y), NEW k \in Key, Kept(y[Account])
      PROVE  x[Account] = y[Account] /\ (Recoverable(k, y) => Recoverable(k, x))
  BY <1>a, PathFacts DEF Shadows, Recoverable
<1>b. \A x \in survivors' : \E y \in survivors : Shadows(x, y) /\ x[Account].key = y[Account].key
  BY PathFacts DEF Shadows
<1>2. AccountInv'
  <2>a. caKeys' = {} =>
           \A d \in survivors' : d[Account].key \in Key => origin'[d[Account].key] = "created"
    BY <1>b DEF AccountInv
  <2>1. ASSUME loose' = {}, NEW r \in inflight', caKeys' \subseteq {r[1]}, NEW x \in survivors'
        PROVE  Kept(x[Account]) /\ x[Account].key = r[1] /\ Recoverable(r[2], x)
    <3>1. PICK y \in survivors : Shadows(x, y)
      OBVIOUS
    <3>2. loose = {} /\ r[2] \in Key
      BY <1>1, <2>1, StateFacts
    <3>3. Kept(y[Account]) /\ y[Account].key = r[1] /\ Recoverable(r[2], y)
      BY <1>1, <2>1, <3>2 DEF AccountInv
    <3> QED
      BY <1>a, <3>1, <3>2, <3>3
  <2>2. WithinReach'
    <3> SUFFICES ASSUME loose' = {}, NEW k \in Key, caKeys = {k}, origin[k] = "prepared",
                        NEW x \in survivors'
                 PROVE  Kept(x[Account]) /\ (x[Account].key = k \/ Recoverable(k, x))
      BY DEF WithinReach, Recoverable
    <3>1. PICK y \in survivors : Shadows(x, y)
      OBVIOUS
    <3>2. Kept(y[Account]) /\ (y[Account].key = k \/ Recoverable(k, y))
      BY DEF AccountInv, WithinReach
    <3> QED
      BY <1>a, <3>1, <3>2
  <2> QED
    BY <2>a, <2>1, <2>2 DEF AccountInv, Recoverable
<1>3. InOrder'
  <2>1. PICK age \in [Key -> Nat], n \in Nat : Ordered(age, n)
    BY DEF InOrder
  <2>2. ASSUME NEW r \in Abandoned(S)
        PROVE  Used(r[1]) /\ \A d \in survivors : age[r[1]] <= age[d[Account].key]
    <3>1. Used(r[1])
      BY <1>1, StateFacts, UsedFacts
    <3> QED
      BY <1>1, <3>1
  <2>3. \A r \in inflight' : Used(r[1])' /\
           \A d \in survivors' : d[Account].key \in Key => age[r[1]] <= age[d[Account].key]
    BY <1>b, <2>1, <2>2 DEF Ordered, Used
  <2>4. \A u \in Operator : proc'[u].job = "prepare" =>
           origin'[proc'[u].signer] # "unused" /\ age[proc'[u].signer] < age[proc'[u].new]
    BY <2>1 DEF Ordered, Used
  <2>a. \A x \in survivors', k \in Key : x[Bundle(k)].key \in Key =>
           Used(k)' /\ Used(x[Bundle(k)].key)' /\ age[x[Bundle(k)].key] < age[k]
    <3> SUFFICES ASSUME NEW x \in survivors', NEW k \in Key, x[Bundle(k)].key \in Key
                 PROVE  Used(k)' /\ Used(x[Bundle(k)].key)' /\ age[x[Bundle(k)].key] < age[k]
      OBVIOUS
    <3>1. PICK y \in survivors : Shadows(x, y)
      OBVIOUS
    <3>2. y[Bundle(k)].key = x[Bundle(k)].key
      BY <3>1, PathFacts DEF Shadows
    <3> QED
      BY <2>1, <3>2 DEF Ordered, Used
  <2>5. Ordered(age, n)'
    BY <2>1, <2>3, <2>4, <2>a DEF Ordered, Used
  <2> QED
    BY <2>5 DEF InOrder
<1> QED
  BY <1>2, <1>3

LEMMA AbortLone ==
    ASSUME RolloverInv, AccountInv, InOrder, NEW o \in Operator, LoneProc(proc[o]),
           proc[o].pc = "call" => Synced, Abort(o)
    PROVE  Acts(o) /\ LoneProc(proc[o])' /\ AccountInv' /\ InOrder' /\ Follows
<1>1. /\ proc[o].pc # "idle" /\ End(o) /\ UNCHANGED <<disk, survivors, caKeys, origin>>
      /\ inflight' \subseteq inflight \cup Abandoned({o}) /\ loose \subseteq loose'
  BY DEF Abort
<1>2. Acts(o) /\ LoneProc(proc[o])' /\ proc'[o].job = "none"
  BY <1>1, EndLone
<1>a. \A x \in survivors' : \E y \in survivors : Shadows(x, y)
  BY <1>1 DEF Shadows
<1>3. AccountInv' /\ InOrder'
  BY <1>1, <1>2, <1>a, AbandonLone DEF Acts
<1>4. Follows
  BY <1>1, StateFacts DEF Follows, FollowsCA, StaysWhole, Kept
<1> QED
  BY <1>2, <1>3, <1>4

-----------------------------------------------------------------------------
(* Every step of commands one at a time.                                   *)

LEMMA CommandLone ==
    ASSUME RolloverInv, AccountInv, InOrder, NEW o \in Operator, LoneProc(proc[o]),
           proc[o].pc \in {"call", "activate", "resolve"} => Synced,
           Run(o) \/ Start(o) \/ WriteFails(o) \/ Abort(o)
    PROVE  Acts(o) /\ LoneProc(proc[o])' /\ AccountInv' /\ InOrder' /\ Follows
<1>1. CASE Run(o)
  <2>1. CASE CAConfirms(o) \/ Activate(o) \/ Resolve(o)
    <3>1. Synced
      BY <2>1 DEF CAConfirms, Activate, Resolve
    <3> QED
      BY <2>1, <3>1, CAConfirmsLone, ActivateLone, ResolveLone
  <2> QED
    BY <1>1, <2>1, WriteFileLone, SyncFileLone, FlushLone, RegisterLone, WriteBundleLone,
       ExecuteLoadLone, RetireLone, StageLone, CARejectsLone, SyncLone, ProbeOldLone, ProbeNewLone,
       RereadLone DEF Run
<1>2. CASE Start(o)
  BY <1>2, CreateKeyLone, StartRegisterLone, StartPrepareLone, StartExecuteLone, StartRecoverLone
     DEF Start
<1> QED
  BY <1>1, <1>2, WriteFailsLone, AbortLone

\* What a step of operator o may do to the files for all to be synced, or left behind, that
\* are not being written.
LEMMA StoredStep ==
    ASSUME NEW o \in Operator, \A u \in Operator \ {o} : proc'[u] = proc[u],
           \A p \in Path : Stored(p), loose \subseteq loose',
           proc[o].pc = "fsync" =>
              \/ proc[o].path \in loose'
              \/ disk'[proc[o].path].whole => disk'[proc[o].path].synced,
           \A p \in Path : \/ disk'[p] = disk[p] \/ ~disk'[p].whole \/ disk'[p].synced
                           \/ proc'[o].pc = "fsync" /\ proc'[o].path = p
                           \/ p = Account /\ loose' # {}
    PROVE  \A p \in Path : Stored(p)'
<1> SUFFICES ASSUME NEW p \in Path, disk'[p].whole, ~disk'[p].synced, p \notin loose',
                    ~(p = Account /\ loose' # {}), ~(proc'[o].pc = "fsync" /\ proc'[o].path = p)
             PROVE  \E u \in Operator : proc'[u].pc = "fsync" /\ proc'[u].path = p
  BY DEF Stored
<1>1. disk'[p] = disk[p]
  OBVIOUS
<1>2. PICK u \in Operator : proc[u].pc = "fsync" /\ proc[u].path = p
  BY <1>1 DEF Stored
<1>3. u # o
  BY <1>2
<1> QED
  BY <1>2, <1>3

\* A step that leaves the files alone.
LEMMA SameStored ==
    ASSUME NEW o \in Operator, \A u \in Operator \ {o} : proc'[u] = proc[u],
           \A p \in Path : Stored(p), UNCHANGED <<disk, loose>>, proc[o].pc # "fsync"
    PROVE  \A p \in Path : Stored(p)'
BY StoredStep

\* The exclusive creation of a file.
LEMMA OpenStored ==
    ASSUME RolloverInv, NEW o \in Operator, \A u \in Operator \ {o} : proc'[u] = proc[u],
           \A p \in Path : Stored(p), loose' = loose, proc[o].pc # "fsync",
           NEW x \in Path, NEW f, ~f.whole, disk' = [disk EXCEPT ![x] = f]
    PROVE  \A p \in Path : Stored(p)'
<1>1. \A p \in Path : disk'[p] = disk[p] \/ ~disk'[p].whole
  BY StateFacts
<1> QED
  BY <1>1, StoredStep

\* The rename of a pending envelope over the account, and its removal.
LEMMA MoveStored ==
    ASSUME RolloverInv, NEW o \in Operator, \A u \in Operator \ {o} : proc'[u] = proc[u],
           \A p \in Path : Stored(p), loose' = loose, proc[o].pc # "fsync", Synced,
           NEW k \in Key,
           disk' \in {Promoted(k), [disk EXCEPT ![Pending(k)] = Absent]}
    PROVE  \A p \in Path : Stored(p)'
<1>1. CASE disk' = [disk EXCEPT ![Pending(k)] = Absent]
  BY <1>1, OpenStored, AbsentFacts, PathFacts
<1>2. CASE disk' = Promoted(k)
  <2>1. \A x \in Path : disk'[x] = IF x = Pending(k) THEN Absent
                                  ELSE IF x = Account THEN disk[Pending(k)] ELSE disk[x]
    BY <1>2, StateFacts, PathFacts DEF Promoted
  <2>2. disk[Pending(k)].whole => disk[Pending(k)].synced \/ loose # {}
    BY PathFacts DEF Synced
  <2>3. \A p \in Path : disk'[p] = disk[p] \/ ~disk'[p].whole \/ disk'[p].synced
                        \/ (p = Account /\ loose' # {})
    BY <2>1, <2>2, AbsentFacts
  <2> QED
    BY <2>3, StoredStep
<1> QED
  BY <1>1, <1>2

LEMMA CommandStored ==
    ASSUME RolloverInv, AccountInv, InOrder, NEW o \in Operator, LoneProc(proc[o]), Acts(o),
           \A p \in Path : Stored(p),
           proc[o].pc \in {"call", "activate", "resolve"} => Synced,
           Run(o) \/ Start(o) \/ WriteFails(o) \/ Abort(o)
    PROVE  \A p \in Path : Stored(p)'
<1>1. /\ \A u \in Operator \ {o} : proc'[u] = proc[u]
      /\ proc[o].path \in Path
  BY Facts DEF Acts, Process
<1>2. CASE UNCHANGED <<disk, loose>> /\ proc[o].pc # "fsync"
  BY <1>1, <1>2, SameStored
<1>3. CASE WriteFile(o)
  <2>1. loose' = loose /\ proc[o].pc = "write"
    BY <1>3 DEF WriteFile
  <2> QED
    BY <1>1, <1>3, <2>1, WriteFileLone, StoredStep
<1>4. CASE SyncFile(o)
  <2>1. loose' = loose /\ proc[o].pc = "fsync"
    BY <1>4 DEF SyncFile
  <2> QED
    BY <1>1, <1>4, <2>1, SyncFileLone, StoredStep
<1>5. ASSUME NEW x \in Path, NEW f \in File, ~f.whole, OpenExclusive(o, x, f), proc[o].pc # "fsync",
             loose' = loose
      PROVE  \A p \in Path : Stored(p)'
  BY <1>1, <1>5, OpenStored DEF OpenExclusive, SetDir
<1>6. CASE WriteBundle(o)
  <2>1. /\ proc[o].new \in Key /\ proc[o].signer \in Key /\ proc[o].pc = "bundle" /\ loose' = loose
        /\ OpenExclusive(o, Bundle(proc[o].new), NewFile(proc[o].signer, 0))
    BY <1>6, Facts DEF WriteBundle, ProcInv
  <2> QED
    BY <1>5, <2>1, PathFacts, NewFacts
<1>7. CASE Retire(o)
  <2>1. /\ proc[o].new \in Key /\ proc[o].held.key \in Key /\ proc[o].held.nonce \in Nonce \cup {0}
        /\ proc[o].pc = "retire" /\ loose' = loose
    BY <1>7, Facts DEF Retire, ProcInv, Process, File
  <2>2. CASE RetiredMissing(o)
    BY <1>5, <2>1, <2>2, PathFacts, NewFacts DEF RetiredMissing
  <2> QED
    BY <1>2, <1>7, <2>1, <2>2 DEF Retire, RetiredMatches, RetiredDiffers
<1>8. CASE Stage(o)
  <2>1. proc[o].new \in Key /\ proc[o].pc = "stage" /\ loose' = loose
    BY <1>8, Facts DEF Stage, ProcInv
  <2>2. CASE PendingMissing(o)
    BY <1>5, <2>1, <2>2, PathFacts, NewFacts DEF PendingMissing
  <2> QED
    BY <1>2, <1>8, <2>1, <2>2 DEF Stage, PendingExists
<1>9. CASE Activate(o)
  <2>1. /\ proc[o].new \in Key /\ proc[o].pc = "activate" /\ Synced /\ loose' = loose
        /\ disk' = disk \/ disk' = Promoted(proc[o].new)
    BY <1>9, Facts DEF Activate, ProcInv, SetDir
  <2> QED
    BY <1>1, <1>2, <2>1, MoveStored
<1>10. CASE Resolve(o)
  <2>1. /\ proc[o].new \in Key /\ proc[o].pc = "resolve" /\ Synced /\ loose' = loose
        /\ \/ disk' = disk
           \/ disk' \in {Promoted(proc[o].new), [disk EXCEPT ![Pending(proc[o].new)] = Absent]}
    BY <1>10, Facts DEF Resolve, ProcInv, SetDir
  <2> QED
    BY <1>1, <1>2, <2>1, MoveStored
<1>11. CASE CreateKey(o)
  <2>1. PICK k \in Key, n \in Nonce : disk' = [disk EXCEPT ![Account] = NewFile(k, n)]
    BY <1>11 DEF CreateKey, SetDir
  <2>2. proc[o].pc = "idle" /\ loose' = loose
    BY <1>11 DEF CreateKey
  <2>3. ~NewFile(k, n).whole
    BY NewFacts
  <2> QED
    BY <1>1, <2>1, <2>2, <2>3, OpenStored, PathFacts
<1>12. CASE WriteFails(o)
  <2>1. /\ disk' = [disk EXCEPT ![proc[o].path] = Absent] /\ loose' = loose
    BY <1>12 DEF WriteFails, SetDir
  <2>2. \A p \in Path : disk'[p] = IF p = proc[o].path THEN Absent ELSE disk[p]
    BY <2>1, StateFacts
  <2>3. disk'[proc[o].path] = Absent
    BY <1>1, <2>2
  <2>4. \A p \in Path : disk'[p] = disk[p] \/ ~disk'[p].whole
    BY <2>2, AbsentFacts
  <2> QED
    BY <1>1, <2>1, <2>3, <2>4, AbsentFacts, StoredStep
<1>13. CASE Abort(o)
  <2>1. /\ disk' = disk /\ loose \subseteq loose'
        /\ proc[o].pc = "fsync" => proc[o].path \in loose'
    BY <1>13 DEF Abort
  <2> QED
    BY <1>1, <2>1, StoredStep
<1>14. CASE \/ Flush(o) \/ Register(o) \/ ExecuteLoad(o) \/ CAConfirms(o) \/ CARejects(o)
           \/ Sync(o) \/ ProbeOld(o) \/ ProbeNew(o) \/ Reread(o)
           \/ StartRegister(o) \/ StartPrepare(o)
  BY <1>2, <1>14 DEF Flush, Register, ExecuteLoad, CAConfirms, CARejects, Sync, SyncDirectory,
     ProbeOld, ProbeNew, Reread, StartRegister, StartPrepare
<1>15. ASSUME NEW k \in Key, StartExecute(o, k) PROVE \A p \in Path : Stored(p)'
  BY <1>2, <1>15 DEF StartExecute
<1>16. ASSUME NEW k \in Key, NEW outcome \in {"old", "new"}, StartRecover(o, k, outcome)
       PROVE  \A p \in Path : Stored(p)'
  BY <1>2, <1>16 DEF StartRecover
<1> QED
  BY <1>3, <1>4, <1>6, <1>7, <1>8, <1>9, <1>10, <1>11, <1>12, <1>13, <1>14, <1>15, <1>16
     DEF Run, Start

\* While a lone command takes a step, everybody else is idle.
LEMMA LoneStep ==
    ASSUME LoneInv, alone, \A a, u \in Busy' : a = u, NEW o \in Operator, Acts(o),
           LoneProc(proc[o])', AccountInv', InOrder', \A p \in Path : Stored(p)'
    PROVE  LoneInv'
<1>1. Idle.pc = "idle" /\ Idle.job = "none"
  BY DEF Idle
<1>2. o \in Busy \/ o \in Busy'
  BY <1>1 DEF Acts, Busy
<1>3. \A u \in Operator \ {o} : proc'[u] = Idle
  BY <1>2 DEF Acts, Busy, LoneInv
<1>4. \A u \in Operator \ {o} : LoneProc(proc[u])'
  BY <1>1, <1>3 DEF LoneProc, Writing
<1> QED
  BY <1>4 DEF LoneInv

\* A lone command that is not writing finds what it reads synced.
LEMMA LoneSynced ==
    ASSUME LoneInv, alone, NEW o \in Operator, proc[o].pc \notin {"idle", "fsync"}
    PROVE  Synced
<1>1. Idle.pc = "idle"
  BY DEF Idle
<1>2. \A u \in Operator : proc[u].pc # "fsync"
  BY <1>1 DEF LoneInv, Busy
<1> QED
  BY <1>2 DEF LoneInv, Stored, Synced

LEMMA PowerLossLone ==
    ASSUME RolloverInv, LoneInv, alone, PowerLoss
    PROVE  LoneInv' /\ Follows
<1>1. /\ survivors' = {disk'} /\ proc' = [o \in Operator |-> Idle] /\ loose' = loose
      /\ inflight' \subseteq inflight \cup Abandoned(Operator) /\ UNCHANGED <<caKeys, origin>>
  BY DEF PowerLoss
<1>2. Idle.pc = "idle" /\ Idle.job = "none"
  BY DEF Idle
<1>a. PICK c \in survivors : \E torn \in SUBSET Volatile(c) : disk' = After(c, torn)
  BY DEF PowerLoss
<1>b. PICK torn \in SUBSET Volatile(c) : disk' = After(c, torn)
  BY <1>a
<1>c. c \in [Path -> File]
  BY StateFacts
<1>d. Shadows(disk', c)
  BY <1>b, <1>c, AfterFacts, AfterKept DEF Shadows
<1>e. \A x \in survivors' : \E y \in survivors : Shadows(x, y)
  BY <1>1, <1>d
<1>f. (\E o \in Operator : proc[o].pc = "call") => Synced
  BY LoneSynced
<1>3. AccountInv' /\ InOrder'
  BY <1>1, <1>2, <1>e, <1>f, AbandonLone DEF LoneInv
<1>4. (\A o \in Operator : LoneProc(proc[o])') /\ Busy' = {}
  BY <1>1, <1>2 DEF LoneProc, Busy, Writing
<1>5. Follows
  <2>1. faults' # faults
    BY StateFacts, RolloverAssumption DEF PowerLoss, Fault
  <2> QED
    BY <1>a, <1>d, <2>1, PathFacts DEF Follows, FollowsCA, StaysWhole, Shadows, Kept
<1>6. \A p \in Path : Stored(p)'
  <2>1. \A p \in Path : disk'[p].synced = disk'[p].whole
    BY <1>b, <1>c, AfterFacts
  <2> QED
    BY <2>1 DEF Stored
<1> QED
  BY <1>3, <1>4, <1>5, <1>6 DEF LoneInv

LEMMA RemoveTornPendingLone ==
    ASSUME RolloverInv, LoneInv, alone, NEW k \in Key, RemoveTornPending(k)
    PROVE  LoneInv' /\ Follows
<1>1. /\ \A o \in Operator : proc[o].pc = "idle"
      /\ SetDir([disk EXCEPT ![Pending(k)] = Absent])
      /\ UNCHANGED <<caKeys, inflight, origin, proc, loose>>
  BY DEF RemoveTornPending
<1>2. PICK d \in [Path -> File] :
         /\ disk' = d /\ survivors' = survivors \cup {d} /\ d[Account] = disk[Account]
         /\ \A l \in Key : d[Bundle(l)] = disk[Bundle(l)] /\ d[Retired(l)] = disk[Retired(l)]
  BY <1>1, RemoveFacts
<1>3. AccountInv'
  BY <1>1, <1>2, SameLone DEF LoneInv
<1>4. InOrder'
  <2>1. PICK age \in [Key -> Nat], n \in Nat : Ordered(age, n)
    BY DEF LoneInv, InOrder
  <2>2. Ordered(age, n)'
    BY <1>1, <1>2, <2>1, StateFacts DEF Ordered, Used
  <2> QED
    BY <2>2 DEF InOrder
<1>5. ASSUME NEW o \in Operator PROVE LoneProc(proc[o])'
  <2>1. LoneProc(proc[o]) /\ proc[o].pc = "idle" /\ proc' = proc
    BY <1>1 DEF LoneInv
  <2>2. proc[o].job \notin {"prepare", "execute", "old", "new"} \/ proc[o].new \in Key
    BY Facts DEF ProcInv
  <2> QED
    BY <1>2, <2>1, <2>2 DEF LoneProc, LoadPrepared, Writing
<1>6. Follows
  BY <1>2, StateFacts DEF Follows, FollowsCA, StaysWhole, Kept
<1>7. ASSUME NEW p \in Path PROVE Stored(p)'
  <2>1. disk'[p] = disk[p] \/ disk'[p] = Absent
    BY <1>1, StateFacts DEF SetDir
  <2> QED
    BY <1>1, <2>1, AbsentFacts DEF LoneInv, Stored
<1> QED
  BY <1>1, <1>3, <1>4, <1>5, <1>6, <1>7 DEF LoneInv, Busy

LEMMA LateArrivalLone ==
    ASSUME RolloverInv, LoneInv, alone, LateArrival
    PROVE  LoneInv' /\ Follows
<1>1. PICK r \in inflight :
         /\ inflight' = inflight \ {r}
         /\ caKeys' = IF Acceptable(r[1], r[2]) THEN Rolled(r[1], r[2]) ELSE caKeys
  BY DEF LateArrival
<1>2. UNCHANGED <<disk, survivors, origin, proc, loose>>
  BY DEF LateArrival
<1>3. r[1] \in Key /\ r[2] \in Key /\ disk \in survivors /\ AccountInv /\ InOrder
  BY StateFacts DEF LoneInv
<1>4. Follows
  BY <1>2, StateFacts DEF Follows, FollowsCA, StaysWhole, Kept
<1>5. InOrder'
  <2>1. PICK age \in [Key -> Nat], n \in Nat : Ordered(age, n)
    BY <1>3 DEF InOrder
  <2>2. Ordered(age, n)'
    BY <1>1, <1>2, <2>1 DEF Ordered, Used
  <2> QED
    BY <2>2 DEF InOrder
<1>a. \A p \in Path : Stored(p)'
  BY <1>2 DEF LoneInv, Stored
<1>6. CASE ~Acceptable(r[1], r[2])
  <2>1. caKeys' = caKeys
    BY <1>1, <1>6
  <2>2. AccountInv'
    BY <1>1, <1>2, <1>3, <2>1 DEF AccountInv, WithinReach, Recoverable
  <2>3. \A o \in Operator : LoneProc(proc[o])'
    BY <1>2, <2>1 DEF LoneInv, LoneProc, Writing, LoadPrepared
  <2> QED
    BY <1>2, <1>4, <1>5, <1>a, <2>2, <2>3 DEF LoneInv, Busy
<1>7. CASE Acceptable(r[1], r[2])
  <2>1. caKeys' = (caKeys \ {r[1]}) \cup {r[2]} /\ r[2] \notin caKeys
    BY <1>1, <1>7 DEF Acceptable, Rolled
  <2>2. loose = {} /\ caKeys \subseteq {r[1]} =>
           \A d \in survivors : Kept(d[Account]) /\ d[Account].key = r[1] /\ Recoverable(r[2], d)
    BY <1>3 DEF AccountInv
  <2>3. WithinReach'
    BY <1>2, <2>1, <2>2 DEF WithinReach, Recoverable
  <2>4. ASSUME loose = {}, NEW s \in inflight, caKeys' \subseteq {s[1]} PROVE FALSE
    <3>1. s[1] = r[2] /\ caKeys \subseteq {r[1]}
      BY <2>1, <2>4
    <3>2. LoadPrepared(r[2])
      BY <1>3, <2>2, <2>4, <3>1 DEF LoadPrepared, Recoverable, Kept
    <3> QED
      BY <1>3, <3>1, <3>2, NoLateSigner
  <2>5. AccountInv'
    BY <1>1, <1>2, <2>1, <2>3, <2>4 DEF AccountInv
  <2>6. ASSUME NEW o \in Operator PROVE LoneProc(proc[o])'
    <3>1. LoneProc(proc[o])
      BY DEF LoneInv
    <3>2. CASE /\ proc[o].job \in {"execute", "new"}
               /\ proc[o].pc \in {"activate", "reread", "retire", "resolve"} \cup Writing
      <4>1. PICK k \in Key : k = proc[o].new
        BY <3>2, Facts DEF ProcInv
      <4>2. k # r[1]
        BY <1>3, <3>1, <3>2, <4>1, NoLateSigner DEF LoneProc, Writing
      <4>3. k \in caKeys => k \in caKeys'
        BY <2>1, <4>2
      <4> QED
        BY <1>2, <3>1, <3>2, <4>1, <4>3 DEF LoneProc, Writing, LoadPrepared
    <3>3. CASE ~(/\ proc[o].job \in {"execute", "new"}
                 /\ proc[o].pc \in {"activate", "reread", "retire", "resolve"} \cup Writing)
      <4>1. proc[o].pc # "activate" /\
            ~(proc[o].job = "new" /\ proc[o].pc \in {"reread", "retire", "resolve"} \cup Writing)
        BY <3>3, Facts DEF ProcInv
      <4> QED
        BY <1>2, <3>1, <4>1 DEF LoneProc, Writing, LoadPrepared
    <3> QED
      BY <3>2, <3>3
  <2> QED
    BY <1>2, <1>4, <1>5, <1>a, <2>5, <2>6 DEF LoneInv, Busy
<1> QED
  BY <1>6, <1>7

LEMMA LoneNext ==
    ASSUME RolloverInv, LoneInv, [ModesNext]_<<vars, alone>>
    PROVE  RolloverInv' /\ LoneInv' /\ [alone => Follows]_<<vars, alone>>
<1>1. RolloverInv'
  BY NextInv DEF ModesNext, vars
<1>2. CASE UNCHANGED <<vars, alone>>
  <2>1. alone' = alone /\ vars' = vars
    BY <1>2
  <2>2. Busy' = Busy
    BY <2>1 DEF vars, Busy
  <2>3. ASSUME NEW o \in Operator, LoneProc(proc[o])
        PROVE  LoneProc(proc[o])'
    BY <2>1, <2>3 DEF vars, LoneProc, Writing, LoadPrepared
  <2>4. AccountInv => AccountInv'
    BY <2>1 DEF vars, AccountInv, WithinReach, Recoverable
  <2>5. ASSUME InOrder
        PROVE  InOrder'
    <3>1. PICK age \in [Key -> Nat], n \in Nat : Ordered(age, n)
      BY <2>5 DEF InOrder
    <3>2. Ordered(age, n)'
      BY <2>1, <3>1 DEF vars, Ordered, Used
    <3> QED
      BY <3>2 DEF InOrder
  <2>a. ASSUME NEW p \in Path, Stored(p) PROVE Stored(p)'
    BY <2>1, <2>a DEF vars, Stored
  <2>6. LoneInv'
    BY <2>1, <2>2, <2>3, <2>4, <2>5, <2>a DEF LoneInv
  <2> QED
    BY <1>1, <1>2, <2>6
<1>3. CASE ModesNext /\ ~alone
  BY <1>1, <1>3 DEF ModesNext, LoneInv
<1>4. CASE ModesNext /\ alone
  <2>1. Next /\ alone' /\ (\A a, u \in Busy' : a = u) /\ alone
    BY <1>4 DEF ModesNext
  <2>2. LoneInv' /\ Follows
    <3>1. ASSUME NEW o \in Operator, Run(o) \/ Start(o) \/ WriteFails(o) \/ Abort(o)
          PROVE  LoneInv' /\ Follows
      <4>1. LoneProc(proc[o]) /\ AccountInv /\ InOrder /\ \A p \in Path : Stored(p)
        BY <2>1 DEF LoneInv
      <4>a. proc[o].pc \in {"call", "activate", "resolve"} => Synced
        BY <2>1, LoneSynced
      <4>2. Acts(o) /\ LoneProc(proc[o])' /\ AccountInv' /\ InOrder' /\ Follows
        BY <3>1, <4>1, <4>a, CommandLone
      <4>3. \A p \in Path : Stored(p)'
        BY <3>1, <4>1, <4>a, <4>2, CommandStored
      <4> QED
        BY <2>1, <4>2, <4>3, LoneStep
    <3> QED
      BY <2>1, <3>1, PowerLossLone, RemoveTornPendingLone, LateArrivalLone DEF Next
  <2> QED
    BY <1>1, <2>2
<1> QED
  BY <1>2, <1>3, <1>4

\* What holds when commands do not overlap: a lone command finds the directory as it
\* left it, the account's key is at hand, and keys are only ever replaced by younger ones.
THEOREM LoneAlwaysInv == ModesSpec => [](RolloverInv /\ LoneInv)
<1>1. ModesInit => RolloverInv /\ LoneInv
  <2> SUFFICES ASSUME ModesInit PROVE RolloverInv /\ LoneInv
    OBVIOUS
  <2>1. RolloverInv
    BY InitInv DEF ModesInit
  <2>2. Idle.pc = "idle" /\ Idle.job = "none"
    BY DEF Idle
  <2>3. (\A o, u \in Busy : o = u) /\ \A o \in Operator : LoneProc(proc[o])
    BY <2>2 DEF ModesInit, Init, Busy, LoneProc, Writing
  <2>4. AccountInv
    BY AbsentFacts, PathFacts, RolloverAssumption DEF ModesInit, Init, AccountInv, WithinReach
  <2>5. InOrder
    <3>1. PICK age \in [Key -> Nat] : age = [k \in Key |-> 0]
      OBVIOUS
    <3>2. Ordered(age, 0)
      BY <2>2, AbsentFacts, PathFacts, RolloverAssumption DEF ModesInit, Init, Ordered, Used
    <3> QED
      BY <3>2 DEF InOrder
  <2>6. \A p \in Path : Stored(p)
    BY AbsentFacts DEF ModesInit, Init, Stored
  <2> QED
    BY <2>1, <2>3, <2>4, <2>5, <2>6 DEF LoneInv
<1>2. RolloverInv /\ LoneInv /\ [ModesNext]_<<vars, alone>> => (RolloverInv /\ LoneInv)'
  BY LoneNext
<1> QED
  BY <1>1, <1>2, PTL DEF ModesSpec

\* rollover-execute and rollover-recover, when commands do not overlap: whatever dies, is
\* lost or comes late, the key of the one account is in the active envelope, or the bundle
\* and the retired copy that execute and recover ask for survive any power loss; but for
\* what a command killed between Write and file.Sync may have left unsynced.
THEOREM AlwaysWithinReach == ModesSpec => []AloneWithinReach
<1>1. LoneInv => AloneWithinReach
  BY DEF LoneInv, AccountInv, AloneWithinReach
<1> QED
  BY <1>1, LoneAlwaysInv, PTL

\* executePreparedACMEAccountKeyRollover, when commands do not overlap: what recovery
\* needs is durable before the CA is asked to change the key, but for a retired copy or a
\* bundle that was found, and whose writer was killed between Write and file.Sync.
THEOREM AlwaysStagedBeforeCall == ModesSpec => []AloneStagedBeforeCall
<1>1. RolloverInv /\ LoneInv => AloneStagedBeforeCall
  <2> SUFFICES ASSUME RolloverInv, LoneInv, alone, NEW o \in Operator, proc[o].pc = "call",
                      NEW d \in survivors
               PROVE  /\ SameBytes(d[Retired(proc[o].new)], d[Account])
                      /\ d[Account].key = proc[o].signer
                      /\ d[Account].whole /\ d[Bundle(proc[o].new)].whole
                      /\ Kept(d[Pending(proc[o].new)])
                      /\ \A p \in {Retired(proc[o].new), Bundle(proc[o].new)} \ loose : Kept(d[p])
    BY DEF AloneStagedBeforeCall, StagedBeforeCall
  <2>1. LoneProc(proc[o]) /\ proc[o].job = "execute" /\ proc[o].new \in Key
    BY Facts DEF LoneInv, ProcInv
  <2>2. /\ d = disk /\ LoadPrepared(proc[o].new) /\ disk[Account].key = proc[o].signer
        /\ SameBytes(disk[Retired(proc[o].new)], disk[Account])
        /\ disk[Pending(proc[o].new)].whole /\ disk[Pending(proc[o].new)].synced
    BY <2>1 DEF LoneProc, Writing
  <2>3. \A u \in Operator : proc[u].pc # "fsync"
    <3>1. Idle.pc = "idle"
      BY DEF Idle
    <3> QED
      BY <3>1 DEF LoneInv, Busy
  <2>4. \A p \in Path \ loose : p # Account /\ disk[p].whole => disk[p].synced
    BY <2>3 DEF LoneInv, Stored
  <2>5. disk[Account].whole /\ disk[Bundle(proc[o].new)].whole /\ disk[Retired(proc[o].new)].whole
    BY <2>2 DEF LoadPrepared, SameBytes
  <2> QED
    BY <2>1, <2>2, <2>4, <2>5, PathFacts DEF Kept
<1> QED
  BY <1>1, LoneAlwaysInv, PTL

\* activateRolledAccount and rollover-recover, when commands do not overlap: the gateway is
\* only ever given an account key the CA recognises at that moment.
THEOREM ActiveAlwaysFollowsCA == ModesSpec => ActiveFollowsCA
<1>1. RolloverInv /\ LoneInv /\ [ModesNext]_<<vars, alone>> => [alone => FollowsCA]_<<vars, alone>>
  BY LoneNext DEF Follows
<1> QED
  BY <1>1, LoneAlwaysInv, PTL DEF ModesSpec, ActiveFollowsCA

\* The active envelope, once it is durable, is replaced whole and never removed, when
\* commands do not overlap.
THEOREM ActiveAlwaysStaysWhole == ModesSpec => ActiveStaysWhole
<1>1. RolloverInv /\ LoneInv /\ [ModesNext]_<<vars, alone>> => [alone => StaysWhole]_<<vars, alone>>
  BY LoneNext DEF Follows
<1> QED
  BY <1>1, LoneAlwaysInv, PTL DEF ModesSpec, ActiveStaysWhole

=============================================================================
