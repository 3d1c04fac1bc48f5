---------------------------- MODULE AcmeRollover ----------------------------
(***************************************************************************)
(* The ACME account-key store and the account-key rollover transaction     *)
(* (internal/tlsconfig/acme_account_*.go), driven by the commands of       *)
(* cmd/gateway-acme-account: create-key, register, rollover-prepare,       *)
(* rollover-execute and rollover-recover.  rollover-probe and plan are the *)
(* read-only prefixes of recover and register and change nothing.          *)
(*                                                                         *)
(* One state directory, one CA directory URL.  Every command is a process  *)
(* of its own; no lock is taken, so commands started by several operators  *)
(* interleave.  A process may die or return an error at any point, the     *)
(* machine may lose power, and a CA request whose answer never came may    *)
(* still be carried out later.                                             *)
(***************************************************************************)
EXTENDS Naturals

CONSTANTS
    Operator,   \* command processes that may run at the same time
    Key,        \* account keys that can be generated (a bound on prepares)
    NoKey,
    Nonce,      \* GCM nonces: two envelopes of one key differ in bytes
    MaxFaults   \* bound on process deaths, I/O errors, lost answers, power losses

ASSUME RolloverAssumption ==
    /\ NoKey \notin Key
    /\ Nonce \subseteq Nat \ {0}
    /\ MaxFaults \in Nat

-----------------------------------------------------------------------------
(* The state directory.  Retired envelopes and pending envelopes are named *)
(* after the new key of their bundle; a bundle fixes its old key, so the   *)
(* "<old>-to-<new>" part of a retired name adds nothing.                   *)

Account    == <<"account", NoKey>>
Bundle(k)  == <<"rollover", k>>
Pending(k) == <<"pending", k>>
Retired(k) == <<"retired", k>>

Path == {Account} \cup ({"rollover", "pending", "retired"} \X Key)

(* A file: the fingerprint it records (for a bundle, the OLD key; its new  *)
(* key is in the path), the nonce that makes its bytes unique, whether its *)
(* bytes are all there, and whether a file.Sync has put them on the disk.  *)
(* A file that is not whole fails to decode; a power loss may tear one     *)
(* that is not synced, whatever was done to its directory.                 *)
File == [key : Key \cup {NoKey}, nonce : Nonce \cup {0}, whole : BOOLEAN, synced : BOOLEAN]

NewFile(k, n) == [key |-> k, nonce |-> n, whole |-> FALSE, synced |-> FALSE]

Absent == NewFile(NoKey, 0)

\* The contents as a process reads them.
SameBytes(f, g) == f.key = g.key /\ f.nonce = g.nonce /\ f.whole = g.whole

\* A file that a power loss leaves as it is.
Kept(f) == f.whole /\ f.synced

VARIABLES
    disk,       \* the state directory as every process sees it
    survivors,  \* the directories a power loss may leave (POSIX: any since the last sync of it)
    caKeys,     \* keys the CA recognises, one per account
    inflight,   \* <<signer, new>> key changes whose sender no longer waits
    origin,     \* how each key came to be
    proc,       \* the command each operator is running
    loose,      \* history: files whose writer ended between its Write and its file.Sync
    faults

vars == <<disk, survivors, caKeys, inflight, origin, proc, loose, faults>>

Job == {"none", "create", "register", "prepare", "execute", "old", "new"}

PC == {"idle", "register", "bundle", "load", "retire", "stage", "write", "fsync",
       "flush", "call", "activate", "sync", "probeOld", "probeNew", "reread", "resolve"}

Process == [job : Job, pc : PC, new : Key \cup {NoKey}, signer : Key \cup {NoKey},
            held : File, path : Path, out : File]

Idle == [job |-> "none", pc |-> "idle", new |-> NoKey, signer |-> NoKey,
         held |-> Absent, path |-> Account, out |-> Absent]

\* The type invariant; the current directory is always one that can survive.
TypeOK ==
    /\ disk \in [Path -> File]
    /\ survivors \subseteq [Path -> File]
    /\ disk \in survivors
    /\ caKeys \subseteq Key
    /\ inflight \subseteq Key \X Key
    /\ origin \in [Key -> {"unused", "created", "prepared"}]
    /\ proc \in [Operator -> Process]
    /\ loose \subseteq Path
    /\ faults \in 0..MaxFaults

Init ==
    /\ disk = [p \in Path |-> Absent]
    /\ survivors = {disk}
    /\ caKeys = {}
    /\ inflight = {}
    /\ origin = [k \in Key |-> "unused"]
    /\ proc = [o \in Operator |-> Idle]
    /\ loose = {}
    /\ faults = 0

-----------------------------------------------------------------------------
(* Steps shared by the commands.                                           *)

SetDir(d) ==
    /\ disk' = d
    /\ survivors' = survivors \cup {d}

\* Mutant: the directory is never synced.
MutSyncDirectory == UNCHANGED <<disk, survivors>>

SyncDirectory ==
    /\ survivors' = {disk}
    /\ UNCHANGED disk

\* LoadEncryptedACMEAccountKey: the account envelope is there, decodes and decrypts.
LoadAccount == disk[Account].whole

\* readActiveAccountEnvelopeBytes: the envelope at path p is there and decodes.
Readable(p) == disk[p].whole

End(o) == proc' = [proc EXCEPT ![o] = Idle]

Fault ==
    /\ faults < MaxFaults
    /\ faults' = faults + 1

\* A nonce no existing envelope of key k was sealed with: the first such one,
\* as nonces are only ever compared for equality.
UsedNonces(k) ==
    {n \in Nonce : \/ \E d \in survivors, p \in Path : d[p].key = k /\ d[p].nonce = n
                  \/ \E o \in Operator : proc[o].held.key = k /\ proc[o].held.nonce = n}

FreshNonce(k, n) ==
    /\ n \in Nonce \ UsedNonces(k)
    /\ \A m \in Nonce \ UsedNonces(k) : n <= m

\* writeExclusivePrivateFile, up to O_CREATE|O_EXCL: the name exists, the bytes do not.
OpenExclusive(o, p, f) ==
    /\ disk[p] = Absent
    /\ SetDir([disk EXCEPT ![p] = f])
    /\ proc' = [proc EXCEPT ![o].pc = "write", ![o].path = p, ![o].out = f]

\* Names the file opened at path p may have by now: a concurrent rename moves a pending
\* envelope to the account name.
Names(p) == IF \E k \in Key : p = Pending(k) THEN {p, Account} ELSE {p}

\* ... its Write and its file.Sync make the open file f.
Through(o, f) ==
    [p \in Path |-> IF p \in Names(proc[o].path) /\ disk[p] = proc[o].out
                    THEN f ELSE disk[p]]

WriteFile(o) ==
    LET f == [proc[o].out EXCEPT !.whole = TRUE] IN
    /\ proc[o].pc = "write"
    /\ SetDir(Through(o, f))
    /\ proc' = [proc EXCEPT ![o].pc = "fsync", ![o].out = f]
    /\ UNCHANGED <<caKeys, inflight, origin, loose, faults>>

\* Mutant: the file is closed without file.Sync.
MutSyncFile(o) ==
    /\ proc[o].pc = "fsync"
    /\ proc' = [proc EXCEPT ![o].pc = "flush"]
    /\ UNCHANGED <<disk, survivors, caKeys, inflight, origin, loose, faults>>

SyncFile(o) ==
    LET f == [proc[o].out EXCEPT !.synced = TRUE] IN
    /\ proc[o].pc = "fsync"
    /\ SetDir(Through(o, f))
    /\ proc' = [proc EXCEPT ![o].pc = "flush", ![o].out = f]
    /\ UNCHANGED <<caKeys, inflight, origin, loose, faults>>

\* ... its directory sync, which says nothing of other files' contents; each caller then
\* goes on to its own next step.
Flush(o) ==
    /\ proc[o].pc = "flush"
    /\ SyncDirectory
    /\ \/ /\ proc[o].job \in {"create", "prepare"}
          /\ End(o)
       \/ /\ proc[o].job = "execute"
          /\ proc' = [proc EXCEPT ![o].pc =
                         IF proc[o].path = Retired(proc[o].new) THEN "stage" ELSE "call"]
       \/ /\ proc[o].job \in {"old", "new"}
          /\ proc' = [proc EXCEPT ![o].pc = "resolve"]
    /\ UNCHANGED <<caKeys, inflight, origin, loose, faults>>

\* ... its error path: whatever now has the name is removed, and not synced.
WriteFails(o) ==
    /\ proc[o].pc \in {"write", "fsync", "flush"}
    /\ Fault
    /\ SetDir([disk EXCEPT ![proc[o].path] = Absent])
    /\ End(o)
    /\ UNCHANGED <<caKeys, inflight, origin, loose>>

-----------------------------------------------------------------------------
(* create-key and register.                                                *)

\* Mutant: the account file is opened without O_EXCL.
MutCreateKey(o) ==
    /\ proc[o].pc = "idle"
    /\ \E k \in Key, n \in Nonce :
          LET f == NewFile(k, n) IN
          /\ origin[k] = "unused"
          /\ FreshNonce(k, n)
          /\ origin' = [origin EXCEPT ![k] = "created"]
          /\ SetDir([disk EXCEPT ![Account] = f])
          /\ proc' = [proc EXCEPT ![o].job = "create", ![o].pc = "write",
                                  ![o].path = Account, ![o].out = f]
    /\ UNCHANGED <<caKeys, inflight, loose, faults>>

CreateKey(o) ==
    /\ proc[o].pc = "idle"
    /\ disk[Account] = Absent
    /\ \E k \in Key, n \in Nonce :
          LET f == NewFile(k, n) IN
          /\ origin[k] = "unused"
          /\ FreshNonce(k, n)
          /\ origin' = [origin EXCEPT ![k] = "created"]
          /\ SetDir([disk EXCEPT ![Account] = f])
          /\ proc' = [proc EXCEPT ![o].job = "create", ![o].pc = "write",
                                  ![o].path = Account, ![o].out = f]
    /\ UNCHANGED <<caKeys, inflight, loose, faults>>

\* Mutant: a failed load of the account key is ignored.
MutStartRegister(o) ==
    /\ proc[o].pc = "idle"
    /\ proc' = [proc EXCEPT ![o].job = "register", ![o].pc = "register",
                            ![o].signer = disk[Account].key]
    /\ UNCHANGED <<disk, survivors, caKeys, inflight, origin, loose, faults>>

StartRegister(o) ==
    /\ proc[o].pc = "idle"
    /\ LoadAccount
    /\ proc' = [proc EXCEPT ![o].job = "register", ![o].pc = "register",
                            ![o].signer = disk[Account].key]
    /\ UNCHANGED <<disk, survivors, caKeys, inflight, origin, loose, faults>>

\* Refused when the CA already knows the key; else newAccount makes an account of it.
Register(o) ==
    /\ proc[o].pc = "register"
    /\ caKeys' = caKeys \cup {proc[o].signer}
    /\ End(o)
    /\ UNCHANGED <<disk, survivors, inflight, origin, loose, faults>>

-----------------------------------------------------------------------------
(* rollover-prepare.                                                       *)

StartPrepare(o) ==
    /\ proc[o].pc = "idle"
    /\ LoadAccount
    /\ \E k \in Key :
          /\ origin[k] = "unused"
          /\ origin' = [origin EXCEPT ![k] = "prepared"]
          /\ proc' = [proc EXCEPT ![o].job = "prepare", ![o].pc = "bundle",
                                  ![o].new = k, ![o].signer = disk[Account].key]
    /\ UNCHANGED <<disk, survivors, caKeys, inflight, loose, faults>>

WriteBundle(o) ==
    /\ proc[o].pc = "bundle"
    /\ OpenExclusive(o, Bundle(proc[o].new), NewFile(proc[o].signer, 0))
    /\ UNCHANGED <<caKeys, inflight, origin, loose, faults>>

-----------------------------------------------------------------------------
(* rollover-execute.                                                       *)

\* Mutant: a bundle that does not decode is accepted for its name.
MutLoadPrepared(k) ==
    /\ LoadAccount
    /\ disk[Bundle(k)].key = disk[Account].key

\* LoadPreparedACMEAccountKeyRollover: the bundle decodes and is not stale.
LoadPrepared(k) ==
    /\ LoadAccount
    /\ disk[Bundle(k)].whole
    /\ disk[Bundle(k)].key = disk[Account].key

\* rollover-prepare prints the bundle's path when it is done: until then, or
\* until it died, no operator has a path to pass to another command.
PathKnown(k) == \A o \in Operator : ~(proc[o].job = "prepare" /\ proc[o].new = k)

\* The command's own load, and the load of the key the CA client signs with.
StartExecute(o, k) ==
    /\ proc[o].pc = "idle"
    /\ PathKnown(k)
    /\ LoadPrepared(k)
    /\ proc' = [proc EXCEPT ![o].job = "execute", ![o].pc = "load",
                            ![o].new = k, ![o].signer = disk[Account].key]
    /\ UNCHANGED <<disk, survivors, caKeys, inflight, origin, loose, faults>>

\* The transaction loads bundle and active envelope again and keeps the bytes.
ExecuteLoad(o) ==
    /\ proc[o].pc = "load"
    /\ IF LoadPrepared(proc[o].new)
         THEN proc' = [proc EXCEPT ![o].pc = "retire", ![o].held = disk[Account]]
         ELSE End(o)
    /\ UNCHANGED <<disk, survivors, caKeys, inflight, origin, loose, faults>>

\* Mutant: an existing retired copy is taken without comparing its bytes.
MutRetiredMatches(o) ==
    /\ disk[Retired(proc[o].new)] # Absent
    /\ proc' = [proc EXCEPT ![o].pc = IF proc[o].job = "execute" THEN "stage" ELSE "resolve"]
    /\ UNCHANGED <<disk, survivors>>

\* ensureEncryptedRetiredAccountSnapshot, in execute and in recover: a copy with the
\* same bytes is taken as it is, synced or not.
RetiredMatches(o) ==
    /\ SameBytes(disk[Retired(proc[o].new)], proc[o].held)
    /\ proc' = [proc EXCEPT ![o].pc = IF proc[o].job = "execute" THEN "stage" ELSE "resolve"]
    /\ UNCHANGED <<disk, survivors>>

RetiredMissing(o) ==
    OpenExclusive(o, Retired(proc[o].new), NewFile(proc[o].held.key, proc[o].held.nonce))

RetiredDiffers(o) ==
    /\ disk[Retired(proc[o].new)] # Absent
    /\ ~SameBytes(disk[Retired(proc[o].new)], proc[o].held)
    /\ End(o)
    /\ UNCHANGED <<disk, survivors>>

Retire(o) ==
    /\ proc[o].pc = "retire"
    /\ RetiredMatches(o) \/ RetiredMissing(o) \/ RetiredDiffers(o)
    /\ UNCHANGED <<caKeys, inflight, origin, loose, faults>>

\* Mutant: a retry goes on with the pending envelope it finds.
MutPendingExists(o) ==
    /\ disk[Pending(proc[o].new)] # Absent
    /\ proc' = [proc EXCEPT ![o].pc = "call"]
    /\ UNCHANGED <<disk, survivors>>

\* The pending envelope: refused if its name is taken, else sealed and written.
PendingExists(o) ==
    /\ disk[Pending(proc[o].new)] # Absent
    /\ End(o)
    /\ UNCHANGED <<disk, survivors>>

PendingMissing(o) ==
    \E n \in Nonce :
       /\ FreshNonce(proc[o].new, n)
       /\ OpenExclusive(o, Pending(proc[o].new), NewFile(proc[o].new, n))

Stage(o) ==
    /\ proc[o].pc = "stage"
    /\ PendingExists(o) \/ PendingMissing(o)
    /\ UNCHANGED <<caKeys, inflight, origin, loose, faults>>

-----------------------------------------------------------------------------
(* The CA's side of a key change (RFC 8555, 7.3.5).                        *)

Acceptable(signer, new) == signer \in caKeys /\ new \notin caKeys

Rolled(signer, new) == (caKeys \ {signer}) \cup {new}

CAConfirms(o) ==
    /\ proc[o].pc = "call"
    /\ Acceptable(proc[o].signer, proc[o].new)
    /\ caKeys' = Rolled(proc[o].signer, proc[o].new)
    /\ proc' = [proc EXCEPT ![o].pc = "activate"]
    /\ UNCHANGED <<disk, survivors, inflight, origin, loose, faults>>

\* Mutant: the CA's error is not looked at.
MutCARejects(o) ==
    /\ proc[o].pc = "call"
    /\ ~Acceptable(proc[o].signer, proc[o].new)
    /\ proc' = [proc EXCEPT ![o].pc = "activate"]
    /\ UNCHANGED <<disk, survivors, caKeys, inflight, origin, loose, faults>>

\* The error return: the pending envelope is retained.
CARejects(o) ==
    /\ proc[o].pc = "call"
    /\ ~Acceptable(proc[o].signer, proc[o].new)
    /\ End(o)
    /\ UNCHANGED <<disk, survivors, caKeys, inflight, origin, loose, faults>>

\* A request nobody waits for any more reaches the CA, or is dropped.
LateArrival ==
    /\ \E r \in inflight :
          /\ inflight' = inflight \ {r}
          /\ caKeys' = IF Acceptable(r[1], r[2]) THEN Rolled(r[1], r[2]) ELSE caKeys
    /\ UNCHANGED <<disk, survivors, origin, proc, loose, faults>>

-----------------------------------------------------------------------------
(* Local activation after a confirmed key change.                          *)

Promoted(k) == [disk EXCEPT ![Account] = disk[Pending(k)], ![Pending(k)] = Absent]

Activate(o) ==
    /\ proc[o].pc = "activate"
    /\ IF disk[Pending(proc[o].new)] = Absent
         THEN End(o) /\ UNCHANGED <<disk, survivors>>
         ELSE /\ SetDir(Promoted(proc[o].new))
              /\ proc' = [proc EXCEPT ![o].pc = "sync"]
    /\ UNCHANGED <<caKeys, inflight, origin, loose, faults>>

\* syncDirectory; recover then reloads the account, which changes nothing.
Sync(o) ==
    /\ proc[o].pc = "sync"
    /\ SyncDirectory
    /\ End(o)
    /\ UNCHANGED <<caKeys, inflight, origin, loose, faults>>

-----------------------------------------------------------------------------
(* rollover-recover, expecting the outcome old-authoritative or            *)
(* new-authoritative; the job is the outcome.                              *)

\* loadACMEAccountRolloverProbeState.
StartRecover(o, k, outcome) ==
    /\ proc[o].pc = "idle"
    /\ PathKnown(k)
    /\ LoadPrepared(k)
    /\ Readable(Pending(k))
    /\ proc' = [proc EXCEPT ![o].job = outcome, ![o].pc = "probeOld",
                            ![o].new = k, ![o].signer = disk[Account].key]
    /\ UNCHANGED <<disk, survivors, caKeys, inflight, origin, loose, faults>>

\* The two GetReg calls of probeACMEAccountRolloverAuthority are separate
\* requests; only the answers of the expected outcome let recovery go on.
ProbeOld(o) ==
    /\ proc[o].pc = "probeOld"
    /\ IF (proc[o].signer \in caKeys) = (proc[o].job = "old")
         THEN proc' = [proc EXCEPT ![o].pc = "probeNew"]
         ELSE End(o)
    /\ UNCHANGED <<disk, survivors, caKeys, inflight, origin, loose, faults>>

ProbeNew(o) ==
    /\ proc[o].pc = "probeNew"
    /\ IF (proc[o].new \in caKeys) = (proc[o].job = "new")
         THEN proc' = [proc EXCEPT ![o].pc = "reread"]
         ELSE End(o)
    /\ UNCHANGED <<disk, survivors, caKeys, inflight, origin, loose, faults>>

\* Active and pending are read again after the probe.
Reread(o) ==
    /\ proc[o].pc = "reread"
    /\ IF /\ Readable(Account)
          /\ disk[Account].key = proc[o].signer
          /\ Readable(Pending(proc[o].new))
         THEN proc' = [proc EXCEPT ![o].pc = "retire", ![o].held = disk[Account]]
         ELSE End(o)
    /\ UNCHANGED <<disk, survivors, caKeys, inflight, origin, loose, faults>>

\* Mutant: the pending envelope is discarded for either outcome.
MutResolve(o) ==
    /\ proc[o].pc = "resolve"
    /\ IF disk[Pending(proc[o].new)] = Absent
         THEN End(o) /\ UNCHANGED <<disk, survivors>>
         ELSE /\ SetDir([disk EXCEPT ![Pending(proc[o].new)] = Absent])
              /\ proc' = [proc EXCEPT ![o].pc = "sync"]
    /\ UNCHANGED <<caKeys, inflight, origin, loose, faults>>

\* os.Remove or os.Rename of the pending envelope; both fail if it is gone.
Resolve(o) ==
    /\ proc[o].pc = "resolve"
    /\ IF disk[Pending(proc[o].new)] = Absent
         THEN End(o) /\ UNCHANGED <<disk, survivors>>
         ELSE /\ SetDir(IF proc[o].job = "new"
                          THEN Promoted(proc[o].new)
                          ELSE [disk EXCEPT ![Pending(proc[o].new)] = Absent])
              /\ proc' = [proc EXCEPT ![o].pc = "sync"]
    /\ UNCHANGED <<caKeys, inflight, origin, loose, faults>>

-----------------------------------------------------------------------------
(* Faults and the operator's manual repair.                                *)

\* The key-change request of a process that stops waiting may be lost, or late.
Abandoned(S) == {<<proc[o].signer, proc[o].new>> : o \in {p \in S : proc[p].pc = "call"}}

\* Any error return without cleanup, a timeout of a CA call, or process death.
Abort(o) ==
    /\ proc[o].pc # "idle"
    /\ Fault
    /\ End(o)
    /\ \E lost \in SUBSET Abandoned({o}) : inflight' = inflight \cup lost
    /\ loose' = IF proc[o].pc = "fsync" THEN loose \cup {proc[o].path} ELSE loose
    /\ UNCHANGED <<disk, survivors, caKeys, origin>>

\* The files of directory d that only the page cache has in full.
Volatile(d) == {p \in Path : d[p].whole /\ ~d[p].synced}

\* Directory d after a power loss: some of them are torn, the others reached the disk.
After(d, torn) ==
    [p \in Path |-> [d[p] EXCEPT !.whole = d[p].whole /\ p \notin torn,
                                !.synced = d[p].whole /\ p \notin torn]]

PowerLoss ==
    /\ Fault
    /\ \E d \in survivors : \E torn \in SUBSET Volatile(d) : disk' = After(d, torn)
    /\ survivors' = {disk'}
    /\ proc' = [o \in Operator |-> Idle]
    /\ \E late \in SUBSET Abandoned(Operator) : inflight' = inflight \cup late
    /\ UNCHANGED <<caKeys, origin, loose>>

\* "recover or remove it": a pending file that does not decode blocks both
\* execute and recover for its bundle until the operator deletes it by hand.
RemoveTornPending(k) ==
    /\ \A o \in Operator : proc[o].pc = "idle"
    /\ disk[Pending(k)] # Absent
    /\ ~disk[Pending(k)].whole
    /\ SetDir([disk EXCEPT ![Pending(k)] = Absent])
    /\ UNCHANGED <<caKeys, inflight, origin, proc, loose, faults>>

-----------------------------------------------------------------------------
\* The steps a started command takes by itself until it ends.
Run(o) ==
    \/ WriteFile(o) \/ SyncFile(o) \/ Flush(o) \/ Register(o) \/ WriteBundle(o)
    \/ ExecuteLoad(o) \/ Retire(o) \/ Stage(o) \/ CAConfirms(o) \/ CARejects(o)
    \/ Activate(o) \/ Sync(o)
    \/ ProbeOld(o) \/ ProbeNew(o) \/ Reread(o) \/ Resolve(o)

Start(o) ==
    \/ CreateKey(o) \/ StartRegister(o) \/ StartPrepare(o)
    \/ \E k \in Key : StartExecute(o, k)
    \/ \E k \in Key, outcome \in {"old", "new"} : StartRecover(o, k, outcome)

Next ==
    \/ \E o \in Operator : Run(o) \/ Start(o) \/ WriteFails(o) \/ Abort(o)
    \/ \E k \in Key : RemoveTornPending(k)
    \/ LateArrival
    \/ PowerLoss

Spec == Init /\ [][Next]_vars

(* A started command runs to its end; an operator who keeps working        *)
(* eventually tries, for a prepared bundle, to execute it and to recover   *)
(* it as new-authoritative, and deletes an undecodable pending file.       *)
Fairness ==
    /\ \A o \in Operator : WF_vars(Run(o))
    /\ \A o \in Operator, k \in Key :
          SF_vars(StartExecute(o, k)) /\ SF_vars(StartRecover(o, k, "new"))
    /\ \A k \in Key : SF_vars(RemoveTornPending(k))

FairSpec == Spec /\ Fairness

-----------------------------------------------------------------------------
(* Properties.                                                             *)

\* Whatever a power loss leaves can still decrypt key k.
Durable(k) == \A d \in survivors : Kept(d[Bundle(k)])

\* rollover never loses the account: a replacement key that the CA recognises,
\* whether its answer arrived, was lost or is still to come, can be decrypted
\* from a bundle that survives any process death and any power loss, however
\* many operators work at once (acme_account_rollover_transaction.go: "Before
\* any CA mutation, Gateway writes two recoverable local artifacts").  The one
\* exception is the bundle of a rollover-prepare that was killed between its Write
\* and its file.Sync: execute uses it without syncing it.
RolledKeyHeld ==
    \A k \in caKeys : origin[k] = "prepared" /\ Bundle(k) \notin loose => Durable(k)

\* What keeps execute and recover of k's bundle from refusing, in directory d and in
\* what a power loss makes of it.
Recoverable(k, d) ==
    /\ Kept(d[Bundle(k)]) /\ Kept(d[Retired(k)])
    /\ d[Bundle(k)].key = d[Account].key
    /\ SameBytes(d[Retired(k)], d[Account])

\* With one account and one operator at a time, the account's key is in the
\* active envelope, or execute and recover of its bundle are not refused, whatever
\* a power loss leaves: recover promotes the pending envelope if it is there; if a
\* recover as old-authoritative removed it before the CA changed the key after all,
\* execute stages it again, is refused by the CA, and leaves it to recover.  Only a
\* command killed between Write and file.Sync can spoil this.
WithinReach ==
    loose = {} =>
       \A k \in Key : caKeys = {k} /\ origin[k] = "prepared" =>
          \A d \in survivors :
             /\ Kept(d[Account])
             /\ d[Account].key = k \/ Recoverable(k, d)

\* executePreparedACMEAccountKeyRollover, steps before client.AccountKeyRollover:
\* when the CA is called by the only operator, the retired copy of the very
\* envelope that signs, the bundle and the pending envelope are there whatever a power
\* loss does; but for a copy or a bundle whose writer was killed between Write and
\* file.Sync, which the transaction takes as it finds it.
StagedBeforeCall ==
    \A o \in Operator : proc[o].pc = "call" =>
       \A d \in survivors :
          /\ SameBytes(d[Retired(proc[o].new)], d[Account])
          /\ d[Account].key = proc[o].signer
          /\ d[Account].whole /\ d[Bundle(proc[o].new)].whole
          /\ Kept(d[Pending(proc[o].new)])
          /\ \A p \in {Retired(proc[o].new), Bundle(proc[o].new)} \ loose : Kept(d[p])

\* A step that gives the gateway another account key gives it one the CA
\* recognises at that moment; only a fault, a power loss, may bring an earlier key back.
FollowsCA ==
    disk[Account].whole /\ disk'[Account].key # disk[Account].key /\ faults' = faults
       => disk'[Account].whole /\ disk'[Account].key \in caKeys

\* The active envelope is replaced, never removed or left half-written, once it
\* is in place and durable, by the steps of a single operator.
StaysWhole == (\A d \in survivors : Kept(d[Account])) => disk'[Account].whole

\* Whatever fails and however late a key change is carried out, an operator who
\* keeps following the recovery procedure ends with an active key the CA knows, unless
\* a command was killed between Write and file.Sync.
Converges ==
    (\E k \in caKeys : origin[k] = "prepared")
       ~> (loose # {} \/ (disk[Account].whole /\ disk[Account].key \in caKeys))

(* What the documents say and the code does not do.                        *)

\* docs/security/acme-dns01-issuer.md:102, "refuses to call the CA if
\* unresolved pending activation state already exists".
NoCallWhilePending ==
    \A o \in Operator : proc[o].pc = "call" =>
       \A k \in Key : disk[Pending(k)] # Absent => k = proc[o].new

-----------------------------------------------------------------------------
(* The inductive invariant behind RolledKeyHeld.                           *)

\* A bundle nobody can take back any more.
Settled(k) ==
    /\ PathKnown(k)
    /\ origin[k] = "prepared"
    /\ Bundle(k) \in loose \/ Durable(k)

\* A bundle a command may have loaded, perhaps before its directory was synced.
Loaded(k) ==
    /\ PathKnown(k)
    /\ origin[k] = "prepared"
    /\ Bundle(k) \in loose \/ Kept(disk[Bundle(k)])

\* A key that may be used as the account's: made by create-key, or settled.
Known(k) == origin[k] = "created" \/ Settled(k)

\* What any directory that can survive looks like.
DirInv(d) ==
    /\ \A p \in Path : d[p].whole => d[p].key \in Key
    /\ \A k \in Key : d[Bundle(k)].whole => origin[k] = "prepared"
    /\ \A k \in Key : d[Pending(k)].key \in {k, NoKey}
    /\ d[Account].key \in Key => Known(d[Account].key)

\* What a process at each point of its command relies on.
ProcInv(q) ==
    /\ q.pc = "register" => q.signer \in Key /\ Known(q.signer)
    /\ q.job = "prepare" =>
          /\ q.pc \in {"bundle", "write", "fsync", "flush"}
          /\ q.new \in Key /\ origin[q.new] = "prepared"
          /\ q.signer \in Key
          /\ q.pc # "bundle" => q.path = Bundle(q.new)
    /\ q.job = "create" => q.pc \in {"write", "fsync", "flush"} /\ q.path = Account
    /\ q.job \in {"execute", "old", "new"} =>
          /\ q.new \in Key /\ q.signer \in Key /\ Loaded(q.new)
          /\ q.pc \in {"write", "fsync", "flush"} => q.path \in {Retired(q.new), Pending(q.new)}
    /\ q.job \in {"old", "new"} /\ q.pc \in {"write", "fsync", "flush"} => q.path = Retired(q.new)
    /\ q.job = "new" /\ q.pc \notin {"probeOld", "probeNew"} => Settled(q.new)
    /\ q.pc \in {"call", "activate"} => Settled(q.new)
    /\ q.pc \in {"write", "fsync", "flush"} => q.job \in {"create", "prepare", "execute", "old", "new"}
    /\ q.pc \in {"write", "fsync"} => q.out.key \in Key
    /\ q.pc = "bundle" => q.job = "prepare"
    /\ q.pc \in {"load", "stage", "call", "activate"} => q.job = "execute"
    /\ q.pc = "retire" => q.job \in {"execute", "old", "new"} /\ q.held.key \in Key
    /\ q.pc \in {"probeOld", "probeNew", "reread", "resolve"} => q.job \in {"old", "new"}

\* What rollover-prepare has made of its bundle so far.
PrepareInv(q) ==
    /\ q.pc \in {"bundle", "write"} => ~disk[Bundle(q.new)].whole
    /\ q.pc # "bundle" => disk[Bundle(q.new)] = q.out
    /\ q.pc = "flush" => q.out.synced

\* Prepares have keys of their own, and a bundle whose prepare is over is synced, or was
\* left behind before it could be.
BundleInv ==
    /\ \A o, u \in Operator :
          proc[o].job = "prepare" /\ proc[u].job = "prepare" /\ proc[o].new = proc[u].new => o = u
    /\ \A o \in Operator : proc[o].job = "prepare" => PrepareInv(proc[o])
    /\ \A k \in Key :
          PathKnown(k) /\ disk[Bundle(k)].whole => disk[Bundle(k)].synced \/ Bundle(k) \in loose

\* Inductive: every key the CA knows, may yet be told, or that is active, is Known.
RolloverInv ==
    /\ TypeOK
    /\ \A d \in survivors : DirInv(d)
    /\ \A k \in caKeys : Known(k)
    /\ \A r \in inflight : Settled(r[2])
    /\ \A o \in Operator : ProcInv(proc[o])
    /\ BundleInv

=============================================================================
