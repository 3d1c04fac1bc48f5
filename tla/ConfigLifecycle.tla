--------------------------- MODULE ConfigLifecycle --------------------------
(***************************************************************************)
(* Staging, activation, snapshot and restore of the gateway configuration  *)
(* (internal/config/activation.go and recovery.go, driven by               *)
(* cmd/gateway-recovery).  The functions share one lifecycle root and one  *)
(* active file; they take no lock, so calls of several processes, and      *)
(* people editing the file, interleave between any two file operations.    *)
(*                                                                         *)
(* A configuration is a model value.  SHA-256 is taken to be injective, so *)
(* the digest of a content is the content itself.  atomicWrite syncs the   *)
(* file and not its directory: a rename or a new directory entry may be    *)
(* gone after a power loss, a file that is there is whole.                 *)
(***************************************************************************)
EXTENDS Naturals

CONSTANTS
    Process,         \* calls that may run at the same time
    Config,          \* file contents
    Valid,           \* the contents that decode and pass Config.Validate
    NoConfig,
    Dir,             \* directories below staged/ and snapshots/ (a bound)
    EditsRace,       \* whether people edit the active file while a call runs
    MaxEdits,        \* bound on such edits
    MaxFaults,       \* bound on I/O errors and process deaths
    MaxPowerLosses   \* bound on power losses

ASSUME LifecycleAssumption ==
    /\ Valid \subseteq Config
    /\ NoConfig \notin Config
    /\ EditsRace \in BOOLEAN
    /\ MaxEdits \in Nat /\ MaxFaults \in Nat /\ MaxPowerLosses \in Nat

Content == Config \cup {NoConfig}

(* A revision directory: its gateway.json and the digest in its manifest.  *)
Revision == [kind : {"free", "staged", "snapshot"}, config : Content, digest : Content]

Free == [kind |-> "free", config |-> NoConfig, digest |-> NoConfig]

Job == {"none", "stage", "snapshot", "activate", "restore"}

PC == {"idle", "compare", "load", "read", "mkdir", "config", "manifest",
       "install", "verifyLoad", "verifyRead", "undo"}

(* A call: its arguments (expected digest), the bytes it holds (new: what  *)
(* it installs; current: what it compared and would put back; copy: what   *)
(* goes into the revision directory dir it makes).                         *)
Call == [job : Job, pc : PC, expected : Content, new : Content, current : Content,
         copy : Content, dir : Dir \cup {NoConfig}]

NoCall == [job |-> "none", pc |-> "idle", expected |-> NoConfig, new |-> NoConfig,
           current |-> NoConfig, copy |-> NoConfig, dir |-> NoConfig]

VARIABLES
    active,     \* the active configuration file
    earlier,    \* contents it may have after a power loss
    dirs,       \* the revision directories
    call,       \* the call each process is in
    edited,     \* contents people have written into the active file
    receipts,   \* receipts returned
    edits, faults, losses

vars == <<active, earlier, dirs, call, edited, receipts, edits, faults, losses>>

\* The type invariant; what is there now may also be there after a power loss.
TypeOK ==
    /\ active \in Config
    /\ earlier \subseteq Config
    /\ active \in earlier
    /\ dirs \in [Dir -> Revision]
    /\ call \in [Process -> Call]
    /\ edited \subseteq Config
    /\ receipts \subseteq [previous : Config, installed : Config]
    /\ edits \in 0..MaxEdits /\ faults \in 0..MaxFaults /\ losses \in 0..MaxPowerLosses

Init ==
    /\ active \in Valid
    /\ earlier = {active}
    /\ dirs = [d \in Dir |-> Free]
    /\ call = [p \in Process |-> NoCall]
    /\ edited = {}
    /\ receipts = {}
    /\ edits = 0 /\ faults = 0 /\ losses = 0

-----------------------------------------------------------------------------
(* Steps shared by the functions.                                          *)

\* atomicWrite of the active file: a rename, not followed by a directory sync.
AtomicWrite(c) ==
    /\ active' = c
    /\ earlier' = earlier \cup {c}

Goto(p, pc) == call' = [call EXCEPT ![p].pc = pc]

Return(p) == call' = [call EXCEPT ![p] = NoCall]

\* Mutant: the manifest is trusted, the configuration beside it is not checked.
MutUsable(d, kind) ==
    /\ dirs[d].kind = kind
    /\ dirs[d].digest # NoConfig

\* What Activate and Restore require of a directory before they use it: its
\* manifest decodes, the configuration is there, has the digest and is valid.
Usable(d, kind) ==
    /\ dirs[d].kind = kind
    /\ dirs[d].digest # NoConfig
    /\ dirs[d].config = dirs[d].digest
    /\ dirs[d].config \in Valid

Bounds == <<edits, faults, losses>>

-----------------------------------------------------------------------------
(* StageRevision and CreateRecoverySnapshot: the starts, and the directory *)
(* they both make, with its configuration first and its manifest last.     *)

\* Mutant: any content can be staged.
MutStageRevision(p) ==
    /\ call[p].pc = "idle"
    /\ \E c \in Config :
          call' = [call EXCEPT ![p].job = "stage", ![p].pc = "mkdir", ![p].copy = c]
    /\ UNCHANGED <<active, earlier, dirs, edited, receipts, Bounds>>

StageRevision(p) ==
    /\ call[p].pc = "idle"
    /\ \E c \in Valid :
          call' = [call EXCEPT ![p].job = "stage", ![p].pc = "mkdir", ![p].copy = c]
    /\ UNCHANGED <<active, earlier, dirs, edited, receipts, Bounds>>

CreateRecoverySnapshot(p) ==
    /\ call[p].pc = "idle"
    /\ call' = [call EXCEPT ![p].job = "snapshot", ![p].pc = "load"]
    /\ UNCHANGED <<active, earlier, dirs, edited, receipts, Bounds>>

\* Load(active) validates one reading of the file ...
LoadActive(p) ==
    /\ call[p].pc = "load"
    /\ IF active \in Valid THEN Goto(p, "read") ELSE Return(p)
    /\ UNCHANGED <<active, earlier, dirs, edited, receipts, Bounds>>

\* Mutant: an activation's snapshot is made of the new bytes.
MutReadActive(p) ==
    /\ call[p].pc = "read"
    /\ call' = [call EXCEPT ![p].pc = "mkdir",
                   ![p].copy = IF call[p].job = "activate" THEN call[p].new ELSE active]
    /\ UNCHANGED <<active, earlier, dirs, edited, receipts, Bounds>>

\* ... and readRegularNoSymlink(active) is the reading that is copied.
ReadActive(p) ==
    /\ call[p].pc = "read"
    /\ call' = [call EXCEPT ![p].pc = "mkdir", ![p].copy = active]
    /\ UNCHANGED <<active, earlier, dirs, edited, receipts, Bounds>>

KindOf(job) == IF job = "stage" THEN "staged" ELSE "snapshot"

\* Mutant: os.MkdirAll, which accepts a directory that is there already.
MutMakeDirectory(p) ==
    /\ call[p].pc = "mkdir"
    /\ \E d \in Dir :
          /\ dirs[d].kind \in {"free", KindOf(call[p].job)}
          /\ dirs' = [dirs EXCEPT ![d].kind = KindOf(call[p].job)]
          /\ call' = [call EXCEPT ![p].pc = "config", ![p].dir = d]
    /\ UNCHANGED <<active, earlier, edited, receipts, Bounds>>

\* os.Mkdir of a name made of the time and the digest: it must be new ...
MakeDirectory(p) ==
    /\ call[p].pc = "mkdir"
    /\ \E d \in Dir :
          /\ dirs[d] = Free
          /\ dirs' = [dirs EXCEPT ![d].kind = KindOf(call[p].job)]
          /\ call' = [call EXCEPT ![p].pc = "config", ![p].dir = d]
    /\ UNCHANGED <<active, earlier, edited, receipts, Bounds>>

\* ... and the call returns if it is taken or cannot be made.
MakeDirectoryFails(p) ==
    /\ call[p].pc = "mkdir"
    /\ Return(p)
    /\ UNCHANGED <<active, earlier, dirs, edited, receipts, Bounds>>

WriteConfig(p) ==
    /\ call[p].pc = "config"
    /\ dirs' = [dirs EXCEPT ![call[p].dir].config = call[p].copy]
    /\ Goto(p, "manifest")
    /\ UNCHANGED <<active, earlier, edited, receipts, Bounds>>

\* Mutant: the manifest's digest is taken of the active file.
MutWriteManifest(p) ==
    /\ call[p].pc = "manifest"
    /\ dirs' = [dirs EXCEPT ![call[p].dir].digest = active]
    /\ IF call[p].job = "activate" THEN Goto(p, "install") ELSE Return(p)
    /\ UNCHANGED <<active, earlier, edited, receipts, Bounds>>

WriteManifest(p) ==
    /\ call[p].pc = "manifest"
    /\ dirs' = [dirs EXCEPT ![call[p].dir].digest = call[p].copy]
    /\ IF call[p].job = "activate" THEN Goto(p, "install") ELSE Return(p)
    /\ UNCHANGED <<active, earlier, edited, receipts, Bounds>>

-----------------------------------------------------------------------------
(* ActivateStagedRevision and RestoreRecoverySnapshot.                     *)

\* The checks of the staged revision, or of the snapshot, and of the digest
\* argument, which the caller read from the file, or was given, at some time.
ActivateStagedRevision(p, d) ==
    /\ call[p].pc = "idle"
    /\ Usable(d, "staged")
    /\ \E e \in Config :
          call' = [call EXCEPT ![p].job = "activate", ![p].pc = "compare",
                               ![p].expected = e, ![p].new = dirs[d].config]
    /\ UNCHANGED <<active, earlier, dirs, edited, receipts, Bounds>>

RestoreRecoverySnapshot(p, d) ==
    /\ call[p].pc = "idle"
    /\ Usable(d, "snapshot")
    /\ \E e \in Config :
          call' = [call EXCEPT ![p].job = "restore", ![p].pc = "compare",
                               ![p].expected = e, ![p].new = dirs[d].config]
    /\ UNCHANGED <<active, earlier, dirs, edited, receipts, Bounds>>

\* Mutant: the expected digest is not compared.
MutCompareNothing(p) ==
    /\ call[p].pc = "compare"
    /\ IF call[p].job = "activate" => active \in Valid /\ active # call[p].new
         THEN call' = [call EXCEPT ![p].current = active,
                          ![p].pc = IF call[p].job = "activate" THEN "load" ELSE "install"]
         ELSE Return(p)
    /\ UNCHANGED <<active, earlier, dirs, edited, receipts, Bounds>>

\* Mutant: the bytes that were compared are not kept for the undo.
MutCompareForgets(p) ==
    /\ call[p].pc = "compare"
    /\ IF /\ active = call[p].expected
          /\ call[p].job = "activate" => active \in Valid /\ active # call[p].new
         THEN Goto(p, IF call[p].job = "activate" THEN "load" ELSE "install")
         ELSE Return(p)
    /\ UNCHANGED <<active, earlier, dirs, edited, receipts, Bounds>>

\* The active file is read and compared.  Activation also validates it and
\* refuses a staged content that is already active; restore does neither.
Compare(p) ==
    /\ call[p].pc = "compare"
    /\ IF /\ active = call[p].expected
          /\ call[p].job = "activate" => active \in Valid /\ active # call[p].new
         THEN call' = [call EXCEPT ![p].current = active,
                          ![p].pc = IF call[p].job = "activate" THEN "load" ELSE "install"]
         ELSE Return(p)
    /\ UNCHANGED <<active, earlier, dirs, edited, receipts, Bounds>>

Install(p) ==
    /\ call[p].pc = "install"
    /\ AtomicWrite(call[p].new)
    /\ Goto(p, "verifyLoad")
    /\ UNCHANGED <<dirs, edited, receipts, Bounds>>

VerifyLoad(p) ==
    /\ call[p].pc = "verifyLoad"
    /\ Goto(p, IF active \in Valid THEN "verifyRead" ELSE "undo")
    /\ UNCHANGED <<active, earlier, dirs, edited, receipts, Bounds>>

VerifyRead(p) ==
    /\ call[p].pc = "verifyRead"
    /\ IF active = call[p].new
         THEN /\ receipts' = receipts \cup {[previous |-> call[p].current,
                                             installed |-> active]}
              /\ Return(p)
         ELSE Goto(p, "undo") /\ UNCHANGED receipts
    /\ UNCHANGED <<active, earlier, dirs, edited, Bounds>>

\* A read error while verifying is a failed verification too.
VerifyFails(p) ==
    /\ call[p].pc \in {"verifyLoad", "verifyRead"}
    /\ faults < MaxFaults
    /\ faults' = faults + 1
    /\ Goto(p, "undo")
    /\ UNCHANGED <<active, earlier, dirs, edited, receipts, edits, losses>>

\* _ = atomicWrite(active, currentBytes, 0o600), without another comparison.
Undo(p) ==
    /\ call[p].pc = "undo"
    /\ AtomicWrite(call[p].current)
    /\ Return(p)
    /\ UNCHANGED <<dirs, edited, receipts, Bounds>>

-----------------------------------------------------------------------------
(* Faults, and people.                                                     *)

\* An error return of an operation that changed nothing, or process death.
Abort(p) ==
    /\ call[p].pc # "idle"
    /\ faults < MaxFaults
    /\ faults' = faults + 1
    /\ Return(p)
    /\ UNCHANGED <<active, earlier, dirs, edited, receipts, edits, losses>>

\* What may be left of a directory: any of its entries, or nothing of it.
Remains(r) ==
    {Free} \cup [kind : {r.kind}, config : {r.config, NoConfig}, digest : {r.digest, NoConfig}]

PowerLoss ==
    /\ losses < MaxPowerLosses
    /\ losses' = losses + 1
    /\ active' \in earlier
    /\ earlier' = {active'}
    /\ \E left \in [Dir -> UNION {Remains(dirs[d]) : d \in Dir}] :
          /\ \A d \in Dir : left[d] \in Remains(dirs[d])
          /\ dirs' = left
    /\ call' = [p \in Process |-> NoCall]
    /\ UNCHANGED <<edited, receipts, edits, faults>>

\* Somebody replaces the active file by other means, with any content.
Edit ==
    /\ edits < MaxEdits
    /\ EditsRace \/ \A p \in Process : call[p].pc = "idle"
    /\ edits' = edits + 1
    /\ \E c \in Config : AtomicWrite(c) /\ edited' = edited \cup {c}
    /\ UNCHANGED <<dirs, call, receipts, faults, losses>>

-----------------------------------------------------------------------------
Next ==
    \/ \E p \in Process :
          \/ StageRevision(p) \/ CreateRecoverySnapshot(p)
          \/ \E d \in Dir : ActivateStagedRevision(p, d) \/ RestoreRecoverySnapshot(p, d)
          \/ LoadActive(p) \/ ReadActive(p)
          \/ MakeDirectory(p) \/ MakeDirectoryFails(p) \/ WriteConfig(p) \/ WriteManifest(p)
          \/ Compare(p) \/ Install(p) \/ VerifyLoad(p) \/ VerifyRead(p)
          \/ VerifyFails(p) \/ Undo(p) \/ Abort(p)
    \/ PowerLoss
    \/ Edit

Spec == Init /\ [][Next]_vars

-----------------------------------------------------------------------------
(* Properties.                                                             *)

\* Whatever races, fails or is lost, a content that did not pass Validate is in
\* the active file only if somebody put that content there by hand: neither a
\* half-made revision directory nor an undo brings any other one in.
ActiveAccounted == active \in Valid \cup edited

\* A directory that has both its files is what its digest says, in spite of
\* calls dying between the two writes and of entries lost in a power loss; a
\* staged one is a configuration that passed validateConfigBytes.
RevisionsWhole ==
    \A d \in Dir : dirs[d].digest # NoConfig /\ dirs[d].config # NoConfig =>
       /\ dirs[d].config = dirs[d].digest
       /\ dirs[d].kind = "staged" => dirs[d].config \in Valid

\* A revision directory, once it has both its files, is never changed again
\* except by a power loss ("immutable, digest-bound staged revision").
RevisionsImmutable ==
    [][ losses' = losses =>
          \A d \in Dir : dirs[d].digest # NoConfig /\ dirs[d].config # NoConfig
             => dirs'[d] = dirs[d] ]_vars

\* The contents of the complete snapshots.
Saved ==
    {dirs[d].config : d \in {e \in Dir : /\ dirs[e].kind = "snapshot"
                                        /\ dirs[e].digest # NoConfig
                                        /\ dirs[e].config # NoConfig}}

\* The request of a call, open from its start to the rename.
RequestOf(q) ==
    IF q.job \in {"activate", "restore"}
      THEN [kind     |-> q.job,
            status   |-> IF q.pc \in {"verifyLoad", "verifyRead", "undo"} THEN "done" ELSE "open",
            expected |-> q.expected,
            new      |-> q.new]
      ELSE [kind |-> "none", status |-> "open", expected |-> NoConfig, new |-> NoConfig]

Register == INSTANCE ConfigRegister WITH
    saved <- Saved, request <- [p \in Process |-> RequestOf(call[p])]

\* With one call at a time, no edit during a call and no power loss, the lifecycle
\* implements the compare-and-swap register: the file operations of an activation
\* or a restore, its undo and its receipt look like one atomic swap.
ImplementsRegister == Register!RegSpec

-----------------------------------------------------------------------------
(* The inductive invariants.                                               *)

Building(q) == q.pc \in {"config", "manifest"}

\* The contents a call holds.
Holds(q) ==
    /\ q.job \in {"activate", "restore"} => q.new \in Valid
    /\ q.pc \in {"install", "verifyLoad", "verifyRead", "undo"} =>
          q.job \in {"activate", "restore"} /\ q.current \in Valid \cup edited
    /\ q.job = "activate" /\ q.pc # "compare" => q.current \in Valid \cup edited
    /\ q.pc = "compare" => q.job \in {"activate", "restore"}
    /\ q.pc \in {"mkdir", "config", "manifest"} => q.copy \in Config
    /\ q.job = "stage" => q.pc \in {"mkdir", "config", "manifest"} /\ q.copy \in Valid

\* The directory a call is making: incomplete, and no other call's.
Owns(p) ==
    LET q == call[p] IN
    Building(q) =>
       /\ q.dir \in Dir
       /\ dirs[q.dir].kind = KindOf(q.job)
       /\ dirs[q.dir].digest = NoConfig
       /\ q.pc = "manifest" => dirs[q.dir].config = q.copy
       /\ \A r \in Process \ {p} : Building(call[r]) => call[r].dir # q.dir

LifecycleInv ==
    /\ TypeOK
    /\ earlier \subseteq Valid \cup edited
    /\ RevisionsWhole
    /\ \A p \in Process : Holds(call[p]) /\ Owns(p)

\* What one call at a time adds: nothing changes under a call.
SoloCall(q) ==
    /\ q.pc = "idle" => q = NoCall
    /\ q.pc \in {"load", "read", "mkdir", "config", "manifest"}
          => q.job \in {"stage", "snapshot", "activate"}
    /\ q.pc = "install" \/ (q.job = "activate" /\ q.pc \in {"load", "read", "mkdir", "config", "manifest"})
          => active = q.current
    /\ q.job \in {"activate", "restore"} /\ q.pc # "compare" => q.current = q.expected
    /\ q.job \in {"activate", "snapshot"} /\ q.pc \in {"mkdir", "config", "manifest"} => q.copy = active
    /\ q.job = "activate" /\ q.pc = "install"
          => \E d \in Dir : /\ dirs[d].kind = "snapshot"
                            /\ dirs[d].config = active /\ dirs[d].digest = active

SoloInv == \A p \in Process : SoloCall(call[p])

\* One operator who waits for each call to end and edits the file in between.
OneAtATime == (\A p, q \in Process : p = q) /\ EditsRace = FALSE

-----------------------------------------------------------------------------
(* What the comments say and the code does not do when calls race.         *)

\* recovery.go:108-109, "This compare-and-swap boundary prevents rollback from
\* overwriting a newer state".
NoNewerStateOverwritten ==
    [][ \A p \in Process : call[p].job = "restore" /\ call[p].pc \in {"install", "undo"}
          /\ call'[p] # call[p] /\ active' # active
             => active = IF call[p].pc = "install" THEN call[p].current ELSE call[p].new ]_vars

=============================================================================
