------------------------- MODULE RenewalPublication -------------------------
(***************************************************************************)
(* Publication of a renewed certificate (internal/tlsconfig/renewal_*.go   *)
(* and reloader.go): staging, the plan, the two-file replacement of the    *)
(* live pair with its backup, the explicit restore, and the activation in  *)
(* the TLS runtime; and the reload the gateway does on SIGHUP.             *)
(*                                                                         *)
(* A certificate and its private key are both named by the certificate's   *)
(* serial, so a pair of files is accepted by tls.X509KeyPair when the two  *)
(* serials are equal.  Certificate and key are separate files, read and    *)
(* renamed one after the other; no lock is taken, so calls interleave      *)
(* between any two file operations.  Operations may fail and processes may *)
(* die; power losses are not modelled (see README).                        *)
(***************************************************************************)
EXTENDS Naturals

CONSTANTS
    Process,     \* calls that may run at the same time
    Serial,      \* certificates that can be issued (a bound)
    Initial,     \* the certificate that is live at first
    NoSerial,
    MaxErrors,   \* bound on failing file operations
    MaxDeaths    \* bound on dying processes

ASSUME RenewalAssumption ==
    /\ Initial \in Serial
    /\ NoSerial \notin Serial
    /\ MaxErrors \in Nat /\ MaxDeaths \in Nat

Some == Serial \cup {NoSerial}

Job == {"none", "renew", "publish", "restore", "activate", "revert", "reload"}

PC == {"idle", "stage", "readCert", "readKey", "backup", "key", "cert", "chmod", "uncert",
       "unkey", "verifyCert", "verifyKey", "checkCert", "checkKey", "holdCert", "holdKey",
       "loadCert", "loadKey", "reloadCert", "reloadKey"}

(* A call: prev and cand are the serials of its plan or receipt; seen is   *)
(* the certificate it has read and not yet compared with a key; to is the  *)
(* pair the replacement writes, backCert and backKey what it puts back.    *)
Call == [job : Job, pc : PC, prev : Some, cand : Some, seen : Some,
         to : Some, backCert : Some, backKey : Some]

NoCall == [job |-> "none", pc |-> "idle", prev |-> NoSerial, cand |-> NoSerial,
           seen |-> NoSerial, to |-> NoSerial, backCert |-> NoSerial, backKey |-> NoSerial]

Receipt == [prev : Serial, cand : Serial]

VARIABLES
    liveCert, liveKey,   \* the two files the certificate profile names
    staged,              \* staged bundle of each serial: the serial it is to replace
    planned,             \* bundles a publication plan was prepared for
    backup,              \* backup of each pair: the candidate its manifest names
    runtime,             \* the pair the TLS listener serves
    receipts,            \* publication receipts returned
    call, errors, deaths

vars == <<liveCert, liveKey, staged, planned, backup, runtime, receipts, call, errors, deaths>>

disk == <<liveCert, liveKey, staged, planned, backup>>
counts == <<errors, deaths>>

\* The type invariant.
TypeOK ==
    /\ liveCert \in Serial /\ liveKey \in Serial
    /\ staged \in [Serial -> Some]
    /\ planned \subseteq Serial
    /\ backup \in [Serial -> Some]
    /\ runtime \in Serial
    /\ receipts \subseteq Receipt
    /\ call \in [Process -> Call]
    /\ errors \in 0..MaxErrors /\ deaths \in 0..MaxDeaths

Init ==
    /\ liveCert = Initial /\ liveKey = Initial
    /\ staged = [s \in Serial |-> NoSerial]
    /\ planned = {}
    /\ backup = [s \in Serial |-> NoSerial]
    /\ runtime = Initial
    /\ receipts = {}
    /\ call = [p \in Process |-> NoCall]
    /\ errors = 0 /\ deaths = 0

Goto(p, pc) == call' = [call EXCEPT ![p].pc = pc]

Return(p) == call' = [call EXCEPT ![p] = NoCall]

\* One file is read into the call; the other one will be read later.
ReadCert(p, pc) == call' = [call EXCEPT ![p].seen = liveCert, ![p].pc = pc]

\* tls.X509KeyPair on the certificate read before and the key read now.
PairIs(p, s) == call[p].seen = s /\ liveKey = s

-----------------------------------------------------------------------------
(* Renewal and staging; the plan.                                          *)

\* A renewal request names the certificate that is live when it is built.
BuildRenewalRequest(p) ==
    /\ call[p].pc = "idle"
    /\ call' = [call EXCEPT ![p].job = "renew", ![p].pc = "stage", ![p].prev = liveCert]
    /\ UNCHANGED <<disk, runtime, receipts, counts>>

\* IssueValidateAndStageRenewal: a new certificate with a new key, whose bundle
\* appears under its name by one rename.
IssueValidateAndStageRenewal(p) ==
    /\ call[p].pc = "stage"
    /\ \E s \in Serial \ {Initial, call[p].prev} :
          /\ staged[s] = NoSerial
          /\ staged' = [staged EXCEPT ![s] = call[p].prev]
    /\ Return(p)
    /\ UNCHANGED <<liveCert, liveKey, planned, backup, runtime, receipts, counts>>

\* The issuer fails, or its answer is not a valid candidate for the request.
IssuanceFails(p) ==
    /\ call[p].pc = "stage"
    /\ Return(p)
    /\ UNCHANGED <<disk, runtime, receipts, counts>>

\* VerifyStagedRenewal: the bundle is there and its files agree with its manifest.
VerifyStagedRenewal(s) == staged[s] # NoSerial

\* PrepareRenewalPublication changes nothing but hands out a plan.
PrepareRenewalPublication(s) ==
    /\ VerifyStagedRenewal(s)
    /\ liveCert = staged[s] /\ liveKey = staged[s]
    /\ planned' = planned \cup {s}
    /\ UNCHANGED <<liveCert, liveKey, staged, backup, runtime, receipts, call, counts>>

-----------------------------------------------------------------------------
(* ExecuteRenewalPublication up to the backup.                             *)

ExecuteRenewalPublication(p, s) ==
    /\ call[p].pc = "idle"
    /\ s \in planned
    /\ VerifyStagedRenewal(s)
    /\ call' = [call EXCEPT ![p].job = "publish", ![p].pc = "readCert",
                            ![p].prev = staged[s], ![p].cand = s, ![p].to = s,
                            ![p].backCert = staged[s], ![p].backKey = staged[s]]
    /\ UNCHANGED <<disk, runtime, receipts, counts>>

ReadLiveCert(p) ==
    /\ call[p].pc = "readCert"
    /\ ReadCert(p, "readKey")
    /\ UNCHANGED <<disk, runtime, receipts, counts>>

ReadLiveKey(p) ==
    /\ call[p].pc = "readKey"
    /\ IF PairIs(p, call[p].prev) THEN Goto(p, "backup") ELSE Return(p)
    /\ UNCHANGED <<disk, runtime, receipts, counts>>

\* Mutant: an existing backup of the pair is written over.
MutOverwriteBackup(p) ==
    /\ call[p].pc = "backup"
    /\ backup' = [backup EXCEPT ![call[p].prev] = call[p].cand]
    /\ Goto(p, "key")
    /\ UNCHANGED <<liveCert, liveKey, staged, planned, runtime, receipts, counts>>

\* Mutant: the pair is replaced without a backup.
MutNoBackup(p) ==
    /\ call[p].pc = "backup"
    /\ Goto(p, "key")
    /\ UNCHANGED <<disk, runtime, receipts, counts>>

\* createRenewalBackup: the name is made of the pair, and must not be taken.
CreateRenewalBackup(p) ==
    /\ call[p].pc = "backup"
    /\ IF backup[call[p].prev] = NoSerial
         THEN /\ backup' = [backup EXCEPT ![call[p].prev] = call[p].cand]
              /\ Goto(p, "key")
         ELSE Return(p) /\ UNCHANGED backup
    /\ UNCHANGED <<liveCert, liveKey, staged, planned, runtime, receipts, counts>>

-----------------------------------------------------------------------------
(* replaceRenewalLivePair: the key, then the certificate.                  *)

RenameKey(p) ==
    /\ call[p].pc = "key"
    /\ liveKey' = call[p].to
    /\ Goto(p, "cert")
    /\ UNCHANGED <<liveCert, staged, planned, backup, runtime, receipts, counts>>

RenameCert(p) ==
    /\ call[p].pc = "cert"
    /\ liveCert' = call[p].to
    /\ Goto(p, "chmod")
    /\ UNCHANGED <<liveKey, staged, planned, backup, runtime, receipts, counts>>

\* A publication then verifies.  After a restore, and after a rollback, only
\* the error returned still depends on what is read.
Chmod(p) ==
    /\ call[p].pc = "chmod"
    /\ IF call[p].job = "publish" /\ call[p].to = call[p].cand
         THEN Goto(p, "verifyCert")
         ELSE Return(p)
    /\ UNCHANGED <<disk, runtime, receipts, counts>>

\* Mutant: the error path restores the certificate and forgets the key.
MutRestoreCert(p) ==
    /\ call[p].pc = "uncert"
    /\ liveCert' = call[p].backCert
    /\ Return(p)
    /\ UNCHANGED <<liveKey, staged, planned, backup, runtime, receipts, counts>>

RestoreCert(p) ==
    /\ call[p].pc = "uncert"
    /\ liveCert' = call[p].backCert
    /\ Goto(p, "unkey")
    /\ UNCHANGED <<liveKey, staged, planned, backup, runtime, receipts, counts>>

RestoreKey(p) ==
    /\ call[p].pc = "unkey"
    /\ liveKey' = call[p].backKey
    /\ Return(p)
    /\ UNCHANGED <<liveCert, staged, planned, backup, runtime, receipts, counts>>

VerifyCert(p) ==
    /\ call[p].pc = "verifyCert"
    /\ ReadCert(p, "verifyKey")
    /\ UNCHANGED <<disk, runtime, receipts, counts>>

\* The rollback is the same replacement with the two pairs exchanged.
Rollback(p) ==
    call' = [call EXCEPT ![p].pc = "key", ![p].to = call[p].prev,
                         ![p].backCert = call[p].cand, ![p].backKey = call[p].cand]

VerifyKey(p) ==
    /\ call[p].pc = "verifyKey"
    /\ IF PairIs(p, call[p].cand)
         THEN /\ receipts' = receipts \cup {[prev |-> call[p].prev, cand |-> call[p].cand]}
              /\ Return(p)
         ELSE Rollback(p) /\ UNCHANGED receipts
    /\ UNCHANGED <<disk, runtime, counts>>

-----------------------------------------------------------------------------
(* RestoreRenewalPublicationBackup.                                        *)

RestoreRenewalPublicationBackup(p, r) ==
    /\ call[p].pc = "idle"
    /\ call' = [call EXCEPT ![p].job = "restore", ![p].pc = "checkCert",
                            ![p].prev = r.prev, ![p].cand = r.cand, ![p].to = r.prev]
    /\ UNCHANGED <<disk, runtime, receipts, counts>>

CheckCert(p) ==
    /\ call[p].pc = "checkCert"
    /\ ReadCert(p, "checkKey")
    /\ UNCHANGED <<disk, runtime, receipts, counts>>

\* Mutant: the live pair is compared with the receipt's previous serial.
MutCheckKey(p) ==
    /\ call[p].pc = "checkKey"
    /\ IF PairIs(p, call[p].prev) /\ backup[call[p].prev] = call[p].cand
         THEN Goto(p, "holdCert") ELSE Return(p)
    /\ UNCHANGED <<disk, runtime, receipts, counts>>

\* The live pair is the receipt's candidate and the backup is the receipt's.
CheckKey(p) ==
    /\ call[p].pc = "checkKey"
    /\ IF PairIs(p, call[p].cand) /\ backup[call[p].prev] = call[p].cand
         THEN Goto(p, "holdCert") ELSE Return(p)
    /\ UNCHANGED <<disk, runtime, receipts, counts>>

\* The live files are read again, for the replacement's own error path.
HoldCert(p) ==
    /\ call[p].pc = "holdCert"
    /\ call' = [call EXCEPT ![p].backCert = liveCert, ![p].pc = "holdKey"]
    /\ UNCHANGED <<disk, runtime, receipts, counts>>

\* Mutant: the live key is not kept for the error path.
MutHoldKey(p) ==
    /\ call[p].pc = "holdKey"
    /\ Goto(p, "key")
    /\ UNCHANGED <<disk, runtime, receipts, counts>>

HoldKey(p) ==
    /\ call[p].pc = "holdKey"
    /\ call' = [call EXCEPT ![p].backKey = liveKey, ![p].pc = "key"]
    /\ UNCHANGED <<disk, runtime, receipts, counts>>

-----------------------------------------------------------------------------
(* ActivateRenewalPublication, and the reload on SIGHUP.                   *)

ActivateRenewalPublication(p, r) ==
    /\ call[p].pc = "idle"
    /\ call' = [call EXCEPT ![p].job = "activate", ![p].pc = "loadCert",
                            ![p].prev = r.prev, ![p].cand = r.cand, ![p].to = r.prev]
    /\ UNCHANGED <<disk, runtime, receipts, counts>>

LoadCert(p) ==
    /\ call[p].pc = "loadCert"
    /\ ReadCert(p, "loadKey")
    /\ UNCHANGED <<disk, runtime, receipts, counts>>

\* Mutant: any pair that loads is activated.
MutLoadKey(p) ==
    /\ call[p].pc = "loadKey"
    /\ Goto(p, "reloadCert")
    /\ UNCHANGED <<disk, runtime, receipts, counts>>

LoadKey(p) ==
    /\ call[p].pc = "loadKey"
    /\ IF PairIs(p, call[p].cand) THEN Goto(p, "reloadCert") ELSE Return(p)
    /\ UNCHANGED <<disk, runtime, receipts, counts>>

Reload(p) ==
    /\ call[p].pc = "idle"
    /\ call' = [call EXCEPT ![p].job = "reload", ![p].pc = "reloadCert"]
    /\ UNCHANGED <<disk, runtime, receipts, counts>>

ReloadCert(p) ==
    /\ call[p].pc = "reloadCert"
    /\ ReadCert(p, "reloadKey")
    /\ UNCHANGED <<disk, runtime, receipts, counts>>

\* A rejected reload keeps the last known-good runtime; an activation then
\* restores the files, on a reload it is the end.
ReloadRejected(p) ==
    IF call[p].job = "activate"
      THEN call' = [call EXCEPT ![p].job = "revert", ![p].pc = "checkCert"]
      ELSE Return(p)

ReloadKey(p) ==
    /\ call[p].pc = "reloadKey"
    /\ IF PairIs(p, call[p].seen)
         THEN runtime' = call[p].seen /\ Return(p)
         ELSE ReloadRejected(p) /\ UNCHANGED runtime
    /\ UNCHANGED <<disk, receipts, counts>>

-----------------------------------------------------------------------------
(* Failing operations and dying processes.                                 *)

\* What the code does when the next file operation of a call fails.
Fails(p) ==
    /\ call[p].pc # "idle"
    /\ errors < MaxErrors
    /\ errors' = errors + 1
    /\ CASE call[p].pc = "cert"                          -> Goto(p, "unkey")
         [] call[p].pc = "chmod"                         -> Goto(p, "uncert")
         [] call[p].pc = "uncert"                        -> Goto(p, "unkey")
         [] call[p].pc \in {"verifyCert", "verifyKey"}   -> Rollback(p)
         [] call[p].pc \in {"reloadCert", "reloadKey"}   -> ReloadRejected(p)
         [] OTHER                                        -> Return(p)
    /\ UNCHANGED <<disk, runtime, receipts, deaths>>

Dies(p) ==
    /\ call[p].pc # "idle"
    /\ deaths < MaxDeaths
    /\ deaths' = deaths + 1
    /\ Return(p)
    /\ UNCHANGED <<disk, runtime, receipts, errors>>

-----------------------------------------------------------------------------
Next ==
    \/ \E p \in Process :
          \/ BuildRenewalRequest(p) \/ IssueValidateAndStageRenewal(p) \/ IssuanceFails(p)
          \/ \E s \in Serial : ExecuteRenewalPublication(p, s)
          \/ ReadLiveCert(p) \/ ReadLiveKey(p) \/ CreateRenewalBackup(p)
          \/ RenameKey(p) \/ RenameCert(p) \/ Chmod(p) \/ RestoreCert(p) \/ RestoreKey(p)
          \/ VerifyCert(p) \/ VerifyKey(p)
          \/ \E r \in receipts :
                RestoreRenewalPublicationBackup(p, r) \/ ActivateRenewalPublication(p, r)
          \/ CheckCert(p) \/ CheckKey(p) \/ HoldCert(p) \/ HoldKey(p)
          \/ LoadCert(p) \/ LoadKey(p) \/ Reload(p) \/ ReloadCert(p) \/ ReloadKey(p)
          \/ Fails(p) \/ Dies(p)
    \/ \E s \in Serial : PrepareRenewalPublication(s)

Spec == Init /\ [][Next]_vars

-----------------------------------------------------------------------------
(* Properties.                                                             *)

Replacing == {"key", "cert", "chmod", "uncert", "unkey", "verifyCert", "verifyKey"}

Live(s) == liveCert = s /\ liveKey = s
BecomesLive(s) == liveCert' = s /\ liveKey' = s

\* Whatever races, fails or dies, no operation destroys the only copy of a private
\* key in use: the key of the live certificate and of the certificate the listener
\* serves is in the live file, in a backup or in a staged bundle.
KeyRetained ==
    \A s \in {liveCert, runtime} : liveKey = s \/ backup[s] # NoSerial \/ staged[s] # NoSerial

\* A receipt stays restorable: the backup it names is the one its own publication
\* made, so a pair is rotated out at most once, however many publications race.
RollbackKept == \A r \in receipts : backup[r.prev] = r.cand

\* "restores the previous pair if any replacement or post-write verification step
\* fails": with one call at a time and at most one failing operation, a
\* publication that began to replace the pair returns with the candidate live and
\* a receipt, or with the previous pair live.
PublishesOrRestores(p) ==
    call[p].job = "publish" /\ call[p].pc \in Replacing /\ call'[p] = NoCall
    /\ deaths' = deaths /\ errors' <= 1
       => \/ BecomesLive(call[p].cand) /\ [prev |-> call[p].prev, cand |-> call[p].cand] \in receipts'
          \/ BecomesLive(call[p].prev)

\* "If runtime reload fails, the pre-publication on-disk backup is restored while
\* Reloader retains its previous last-known-good runtime": so it is, with one call
\* at a time and no other failing operation.
RevertsFailedActivation(p) ==
    call[p].job = "revert" /\ call'[p] = NoCall /\ deaths' = deaths /\ errors' <= 1
       => BecomesLive(call[p].prev) /\ runtime' = runtime

\* With one call at a time, an activation that returns a receipt leaves the
\* listener serving the candidate it names, though the files are read twice.
ActivatesCandidate(p) ==
    call[p].job = "activate" /\ call[p].pc = "reloadKey" /\ call'[p] = NoCall
    /\ deaths' = deaths => runtime' = call[p].cand /\ BecomesLive(call[p].cand)

-----------------------------------------------------------------------------
(* The inductive invariant behind KeyRetained and RollbackKept.            *)

\* A serial that exists: the first one, or one that was issued and staged.
Known(s) == s = Initial \/ (s \in Serial /\ staged[s] # NoSerial)

Restoring == {"checkCert", "checkKey", "holdCert", "holdKey"}

\* A call that is far from replacing a file, or about to back the first pair up.
Early(q) == q.pc \notin Replacing \cup Restoring /\ (q.pc = "backup" => q.prev = Initial)

\* Before the first backup nothing has been replaced and nobody is replacing.
FirstBackupFirst ==
    backup[Initial] = NoSerial =>
       /\ Live(Initial)
       /\ receipts = {}
       /\ \A p \in Process : Early(call[p])

\* What a call at each point relies on.
CallInv(q) ==
    /\ q.seen # NoSerial => Known(q.seen)
    /\ q.pc \in {"readKey", "verifyKey", "checkKey", "loadKey", "reloadKey"} => q.seen # NoSerial
    /\ q.pc \in {"readCert", "readKey", "backup", "verifyCert", "verifyKey"} => q.job = "publish"
    /\ q.pc \in Replacing => q.job \in {"publish", "restore", "revert"}
    /\ q.pc \in Restoring => q.job \in {"restore", "revert"}
    /\ q.pc = "stage" => Known(q.prev)
    /\ q.job \in {"publish", "restore", "activate", "revert"} =>
          Known(q.prev) /\ Known(q.cand) /\ Known(q.to)
    /\ q.job = "publish" => Known(q.backCert) /\ Known(q.backKey)
    /\ q.job = "publish" /\ q.pc \in Replacing => backup[q.prev] = q.cand
    /\ q.job \in {"restore", "activate", "revert"} => [prev |-> q.prev, cand |-> q.cand] \in receipts
    /\ q.pc \in {"holdKey"} \cup Replacing => Known(q.backCert)
    /\ q.pc \in Replacing => Known(q.backKey)

RenewalInv ==
    /\ TypeOK
    /\ \A s \in Serial : staged[s] # NoSerial => Known(staged[s])
    /\ planned \subseteq {s \in Serial : staged[s] # NoSerial}
    /\ Known(liveCert) /\ Known(liveKey) /\ Known(runtime)
    /\ \A r \in receipts : Known(r.prev) /\ Known(r.cand)
    /\ RollbackKept
    /\ FirstBackupFirst
    /\ \A p \in Process : CallInv(call[p])

=============================================================================
