# GoreeCloud Gateway: a TLA+ verification project

GoreeCloud Gateway is a Go reverse proxy with the tools that manage its
configuration, its certificates and its ACME account. This directory models the
parts of it where order, concurrency and failure matter, checks them with TLC on
small instances, and proves the most important results with TLAPS for every
instance. `PROJECT.json` is the index: which lines each definition models, which
properties each run checks, which mutation of the code each property catches.

    tlc -workers 2 -config AcmeRollover_modes.cfg MCAcmeRolloverModes
    tlapm AcmeRolloverProofs.tla

## 1. The system

| Part | State | Operations | Hard because |
|---|---|---|---|
| ACME account store and key rollover (`internal/tlsconfig/acme_account_*.go`, `cmd/gateway-acme-account`) | account envelope, rollover bundles, pending and retired envelopes in one directory; the CA's accounts | create-key, register, rollover-prepare, -execute, -probe, -recover | a transaction over a local directory and a remote CA with no lock: deaths, power loss, lost and late CA answers, several operators |
| Configuration lifecycle (`internal/config/activation.go`, `recovery.go`, `cmd/gateway-recovery`) | active file, staged revisions, recovery snapshots | StageRevision, ActivateStagedRevision, CreateRecoverySnapshot, RestoreRecoverySnapshot | compare and replace are separate file operations; undo; renames without directory sync |
| Certificate renewal (`internal/tlsconfig/renewal_*.go`, `reloader.go`, `runtime.go`) | live certificate and key (two files), staged bundles, backups, receipts, the served pair | request, issue and stage, prepare, publish, restore, activate; reload on SIGHUP | two files replaced one after the other; rollback of a part; files read twice |
| Proxy runtime (`internal/proxy/handler.go`, `backend_limiter.go`, `internal/health`) | configuration pointer, health table, round-robin counter, slots per authority | ServeHTTP with failover, health loop, Reload | every request, the loop and Reload run at once; slots must be given back on all paths |
| ACME DNS-01 issuer and Porkbun provider (`acme_issuer.go`, `porkbun_dns01.go`) | orders and authorizations at the CA, TXT records at the provider | IssueRenewal: lookup, order, Present, WaitTXT, Accept, WaitAuthorization, Cleanup, finalize | lost, resent and late provider requests, cancellation, several records under one name, authorizations the CA reuses |
| Account registration (`acme_account_registration.go`, `cmd/gateway-acme-account`) | plan, acceptance and receipt files, the CA's directory and account | plan, register | the directory, the account and the clock change between the commands and within them |
| Gateway process (`cmd/gateway`) | signal channel, handler, TLS runtime, two servers | start, SIGHUP, SIGTERM, exit on a listener's error | a reload in two swaps of which the first may be refused; a full channel; one deadline for two servers |
| Validation, routing, trusted proxies, parity (`internal/config`, `internal/routing`, `trusted_proxy_policy.go`, `cmd/gateway-migration-verify`) | none | pure functions of a configuration and a request | the fingerprint rewrites what routing reads as written |
| Readiness, status, header policy | none | pure functions | boundaries of the inputs |

The parts meet at few points. The gateway process reads the active file of the
configuration lifecycle and the live pair of certificate renewal, on start and on
SIGHUP, and hands both to the TLS reloader and to the proxy's `Reload`. The issuer
uses the account that registration made, with the key of the account store, and
gives renewal its pairs. The lifecycle, renewal
and account tools are separate processes that share only the file system (and the
CA) with each other, which is why the models split a function wherever another
process can see or change a file between two of its operations.

What makes each part correct:

- account: the key of the CA account is never lost, and the active envelope comes
  to hold it again;
- lifecycle: nothing unvalidated becomes active, revisions are immutable, and a
  replacement is a compare-and-swap;
- renewal: the live pair is the candidate or the previous one, its key is never
  destroyed, a receipt stays restorable, the listener serves what was activated;
- proxy: slots are conserved, nothing is replayed that must not be, verdicts that
  are wrong do not stay, and a client that leaves is not waited for;
- registration: an account agrees only to terms the operator accepted by name, and a
  receipt tells of the account that exists;
- issuance: no certificate while one of its challenge records is out, no record left
  behind unless the provider did not confirm the last request, no record of another challenge removed;
- process: handler and certificates do not stay apart, every accepted signal has its
  effect, and a configuration that passed verification behaves as the reviewed one.

## 2. Modules

| Module | Content |
|---|---|
| `AcmeRollover`, `MCAcmeRollover`, `MCAcmeRolloverModes`, `AcmeRolloverProofs` | account store and key rollover |
| `ConfigLifecycle`, `MCConfigLifecycle`, `ConfigLifecycleProofs` | configuration lifecycle |
| `ConfigRegister` | what the lifecycle promises: an atomic compare-and-swap register |
| `RenewalPublication`, `MCRenewalPublication`, `RenewalPublicationProofs` | certificate renewal and activation |
| `ProxyRuntime`, `MCProxyRuntime`, `ProxyRuntimeProofs` | the data plane |
| `AccountRegistration`, `AccountRegistrationProofs` | plan and registration of the ACME account |
| `Dns01Issuer`, `Dns01IssuerProofs` | issuance through DNS-01 challenges |
| `AcmeIssuance`, `MCAcmeIssuance`, `AcmeIssuanceProofs` | both composed: the issuer looks up the account that registration made |
| `GatewayConfig` | what a configuration means: validation, certificates by host, routing, client address, parity fingerprint |
| `GatewayProcess`, `MCGatewayProcess`, `GatewayProcessProofs` | the process, and the verification of the configuration it starts with |

The `MC` modules add symmetry sets and the values of the small instances. Two of them,
`MCAcmeRolloverModes` and `MCRenewalPublication`, add a constant-valued variable
`alone`, chosen at the start: commands run one at a time with many faults, or interleave
with few. A property that holds for commands one at a time (`Alone...`,
`PublishedOrRestored`, ...) is conditional on it; the invariants that hold always are
checked in both. Operators named
`Mut...` are mutations of the definition that follows them; no specification uses
them. A run checks a property of the model, and the mutant shows that the property
notices a plausible mistake in the code the definition stands for.

### AcmeRollover

`disk` is the state directory. A file records the fingerprint it is about, a nonce
(two encryptions of one key differ, and the retired copy is compared byte for byte),
whether it is whole, and whether a `file.Sync` put its bytes on the disk (`synced`).
`survivors` is the set of directories a power loss may
leave: every directory since the last `syncDirectory`, which makes it a singleton
again. A synced directory says nothing of the contents of its files: a power loss takes one
of the survivors and tears any of its files that are whole and not synced (`Volatile`,
`After`). `loose` is a history variable: the paths of files whose writer ended
between its `Write` and its `file.Sync`. `caKeys` are the keys the CA recognises, `inflight` the key changes whose
sender no longer waits and which the CA may still carry out (`LateArrival`).
`proc[o]` is the command operator `o` runs, with a program counter; a command is
split at each file operation and each CA call:

- `writeExclusivePrivateFile` is `OpenExclusive`, `WriteFile`, `SyncFile`, `Flush`
  (the directory), `WriteFails`;
- `executePreparedACMEAccountKeyRollover` is `StartExecute`, `ExecuteLoad`,
  `Retire`, `Stage`, `CAConfirms`/`CARejects`, `Activate`;
- `recoverLoadedACMEAccountKeyRollover` is `StartRecover`, `ProbeOld`, `ProbeNew`,
  `Reread`, `Retire`, `Resolve`, `Sync`.

The CA is external: it accepts a key change signed by a key it knows to one it does
not. `PathKnown` is an assumption about people: a command is given the path of a
bundle only after the prepare that prints it has ended or died.
`RemoveTornPending` is the manual removal the error message asks for.

What the code makes durable has one gap, and the properties name it. A command that is
killed between `Write` and `file.Sync` (`acme_account_store.go:349`, `:352`) leaves a file
that reads whole and is not on the disk. Later commands take it as it is: a bundle because
it decodes, a retired copy because its bytes are equal
(`acme_account_rollover_transaction.go:254-265`). Nothing syncs it any more, the CA is
called, and a power loss may still tear it. So `RolledKeyHeld` exempts a key whose bundle is
`loose`, `StagedBeforeCall` the retired copy or bundle that is, and `WithinReach` and
`Converges`, which rest on both files staying readable, hold while `loose` is empty.

`WithinReach` is what "recoverable" comes to. The account's key is active, or its bundle is
not stale and its retired copy equals the active envelope, so that neither execute nor recover
refuses it. It does not ask for a pending envelope: a recovery as old-authoritative
removes it, and a late key change may follow. Then rollover-recover cannot start by itself;
rollover-execute stages the envelope again, the CA refuses a change it has made
already, the envelope is retained, and recover promotes it. `Converges` shows that this way
is taken to its end.

### ConfigLifecycle and ConfigRegister

A configuration is a model value, some of which are `Valid`; a digest stands for the
content it is of (SHA-256 is taken to be injective). `earlier` holds the contents the
active file may have after a power loss, as `atomicWrite` does not sync the
directory. A call is split between comparison and replacement, between validation
and the second read, between the two files of a revision, and around verification
and undo. People edit the active file too: `EditsRace` says whether they may while a
call is under way.

`ConfigRegister` is the abstract specification: `Swap` replaces the content if it is
the expected one (and, for an activation, saved), `Revert` takes it back, `Return`
issues a receipt only after a swap. The refinement mapping is in `ConfigLifecycle`
(`Register`): a request is open until the rename, the saved contents are those of
complete snapshots (`Saved`, `RequestOf`). `OneAtATime` names the condition under which it is a
refinement.

### RenewalPublication

Certificate and key are named by one serial, so a pair is accepted when both files
have the same serial. `replaceRenewalLivePair` is `RenameKey`, `RenameCert`,
`Chmod`, and its error paths `RestoreCert`, `RestoreKey`; reads of the pair are two
steps each. `Fails` says what the code does when the next operation of a call fails,
`Dies` ends a process. Issuance is one step that yields a fresh pair or fails;
`Dns01Issuer` is what happens in it.

### ProxyRuntime

A request is a record with a program counter: `Reject`/`Route`; `Look`,
`CheckUnknown`, `StoreUnknown`, `Reread` for `healthyCandidates`; `Choose` for the
rotation; `Acquire`, `GiveUp`, `SendFails`, `Unavailable`, `Respond`, `CloseBody`
for the failover and limiter transports. `Tick`, `LoopCheck`, `LoopStore` are the
health loop, `StoreRuntimeState` and `ClearHealth` the two halves of `Reload`.
Verdicts are kept by backend ID, checks and slots go by authority, as in the code. A
check that fails for whatever reason is a server that is not `up` at that moment
(`Flip`). `era` and `sent` are history variables that the properties use. A reload
whose trusted-proxy policy is rejected returns before it stores anything and is no
step. `Close` ends with the process and is left out.

### Dns01Issuer

A run is one call of `IssueRenewal`; several interleave. A token stands for an
authorization, its dns-01 challenge and the TXT value, which are in one-to-one
correspondence. `authz` is the CA's view of it; a CA may put one it already has, pending
or valid, into another order (`Offered`). `zone` holds the provider's records, each with
its identifier and, as a ghost, the run that made it; `dns` is what resolvers answer,
which follows the zone at any moment (`Propagate`).

A call to the provider is two steps or more. The request arrives (`CreateArrives`,
`DeleteArrives`), perhaps again, since the `Idempotency-Key` header makes Go's transport
resend a POST whose connection broke; the provider remembers keys (`created`, `deleted`)
for longer than a request is under way (`Forget`), answers a repeated one as before, and
refuses to delete what it does not have. Then the answer is received (`Presented`,
`Deleted`), or it is an error, or none comes in time (`CallFails`, `CleanupFails`): the
code does the same in all these cases, whether the record is still there or not
(`porkbun_dns01.go:178-206`). This is how the
provider is taken to work from how the code uses it. A request that arrives after its
sender gave up is not modelled: its run is `unconfirmed` already, and the provider's memory
outlives it.

`Fails` is the way out of each step: after `Present` returned, through the deferred
cleanup, which does not inherit the cancellation (`context.WithoutCancel`) and has a
timeout of its own. `unconfirmed` marks, as a ghost, a run that died or whose last request
to the provider was answered with an error or not at all. The code makes one attempt to
delete and keeps nothing by which such a record could be found again, so `NothingLeft`
exempts it. `CertAfterCleanup` has no exemption.

### AccountRegistration and AcmeIssuance

Each invocation of `gateway-acme-account` is a command. `plan` is `PlanDiscover`,
`PlanLookup`; `register` is `StartRegister` (all checks that precede the network),
`Rediscover`, `RegisterLookup` (which also sends the request) and the answer,
`NewAccount`, which the CA may give after the command has gone (`CommandFails`). A
directory has terms, a requirement of an external account binding and `verbatim`: whether
the URL of its terms is written as `url.URL.String` writes it. The plan has the rewritten
URL; the prompt is shown the CA's own, and `acme.Client` sends the request whether the
prompt agrees or not, so `Register` finds out afterwards (`PrintsReceipt`). `consent`
and `served` in a request are ghosts for `ConsentNamesTerms`.

`AcmeIssuance` composes the two through the one fact the issuer reads, that the account
exists. Registrations are explored in full; the issuer's runs start from two
representative ends of a registration (`Explored`), with an account and without.

### GatewayConfig and GatewayProcess

A configuration is a record whose routes keep the order and the spelling that the code is
sensitive to. Texts that some function trims (identifiers, host names, prefixes, methods)
are sequences of pieces, blanks among them: `Trim` is `strings.TrimSpace`, `HostName` also
strips the dot, and an empty text is a field left out. The fingerprint and the certificate
inventory trim; `Validate` trims some texts and not others; routing compares everything as
written. So a profile named `"p "` passes `Validate` and is refused by `NewInventory`, and
a route for `"x "` has the fingerprint of one for `"x"` and takes no request. `Validate`, `ValidInventory`, `Loads`, `ResolveCandidates`,
`ResolveClientAddress`, `ConfigParityFingerprint` and `Accepts` are what the functions
of these names compute; `trusted` is a set of addresses instead of prefixes.

`GatewayProcess` has two phases. In the first, any reviewed configuration and any file
are compared by `Verify`. In the second, after `Boot`, the loop of `main` takes signals
from a channel of two (`Hangup` and `Terminate` drop what finds no room) and reloads in
three steps: `Load`, `ReloadTls`, `ReloadHandler`; or stops: `Stop`, `DrainHttp`,
`DrainTls`, with one `Deadline`. Meanwhile files and certificates change, requests begin
and end, and a listener may fail. `RenewalPublication` has the reading of one pair file
by file, and `ProxyRuntime` the inside of the handler's `Reload`.

## 3. Runs

| Run | Instance | Shows |
|---|---|---|
| `rollover` | 3 keys; 2 operators at once with 1 fault, or one at a time with 3 | `RolledKeyHeld` and its inductive invariant hold always; `AloneWithinReach`, `AloneStagedBeforeCall`, `ActiveFollowsCA`, `ActiveStaysWhole` for commands one at a time, with deaths, power losses, failing writes and late key changes |
| `rollover_liveness` | 1 operator, 2 keys, 3 faults, fairness | `Converges` |
| `rollover_pending` | 1 operator, 3 keys, no fault | violation, finding 1 |
| `config_register` | 1 call at a time, 3 contents (one invalid), 3 directories, 2 faults, 1 edit between calls | the lifecycle implements `ConfigRegister`; `RevisionsImmutable`; `SoloInv` |
| `config_race` | 2 calls, 2 directories, 1 racing edit, 1 fault, 1 power loss | `ActiveAccounted`, `RevisionsWhole`, `LifecycleInv` |
| `config_rollback` | 2 calls, no fault | violation, finding 2 |
| `renewal` | 4 serials, 2 errors, 1 death; 2 calls at once with 2 renewals, or one at a time with 3 | `KeyRetained`, `RollbackKept`, `RenewalInv` always; `PublishedOrRestored`, `FailedActivationReverts`, `ActivationServesCandidate` for calls one at a time |
| `proxy_safety` | 2 requests (one not retryable), 2 backends, 1 slot each, 1 reload, 1 server change | `SlotsMatch`, `NoReplay`, `RefusedOnlyByVerdict`, `ProxyInv` |
| `proxy_liveness` | 2 requests, 1 backend, 1 slot, 1 reload, servers up or down from the start, fairness | `LeaversFree`, `HealthConverges` |
| `issuance` | 3 registration commands, 3 directories, 2 instants; 2 renewals, for `x` and `*.x` and for `x` | `ConsentNamesTerms`, `ReceiptsTrue`; `CertAfterCleanup`, `NothingLeft`, `RecordStands`, `CancelledReturns`; `IssuanceInv` |
| `gateway` | about 220 candidate configurations of two routes, pairwise; 3 to run, with 2 profiles | `VerifiedRoutesAlike`; `ReloadWhole`, `DrainedOrDeadline`, `SignalsServed`, `ClientAddressStable`; `ProcessInv` |
| `migration_parity` | the same candidates | violation, finding 3 |

Why the bounds are enough for the cases that matter: three keys are the account's
first key, a replacement and a second replacement prepared while the first is
unresolved; three faults allow a lost answer, a power loss and a failure of the
recovery; two processes are enough for every check-then-act race, and the proofs
cover any number; three contents are the two valid ones a swap needs and one that
must be kept out; four serials allow a publication, one after it, and one that is
staged meanwhile; two backends with one slot each make requests wait for each other,
fail over and meet at an authority after the reload that moves one of them. Three
commands are a plan and two registrations that race; a plan of lifetime 0 and a second
instant make it expire; the directories differ in terms, in the binding and in how the
URL is written. Two tokens, one for a name and one for its wildcard, give an order of two
authorizations, a second order that shares one of them, and two records under one name.
The candidates differ in everything the fingerprint rewrites or leaves out: the order of
the routes, an omitted prefix, a dot, blanks around host, prefix, method and service, methods, whether a route is enabled, trusted
proxies. Deadlock checking is off where the system may stop: all keys are used up
(AcmeRollover), all commands and runs are over (AcmeIssuance), the process has ended or
was not started (GatewayProcess).

**Fairness.** `rollover_liveness`: a started command runs to its end (weak
fairness); the operator, whenever it stays possible again and again, executes a
bundle, recovers it as new-authoritative and removes a torn pending file (strong
fairness), which is what the runbook in `docs/security/acme-dns01-issuer.md` tells
people to do. Faults are bounded, as nobody converges under faults without end.
`proxy_liveness`: goroutines run; a check ends by its two-second timeout; the base
transport returns by `ResponseHeaderTimeout` or by the context; the ticker ticks; a
body is closed once its client has gone. Nothing is assumed of a stream whose client
stays, nor that a waiting request ever gets a slot: the code guarantees neither.
`issuance`: a call returns once its context is cancelled, and the cleanup ends by its
timeout; nothing is assumed of the CA, the provider or DNS. `gateway`: main's goroutine
runs when it can (weak fairness of `Main`), and the timer of the shutdown fires; nothing
is assumed of requests, which may last for ever.

### Where code and documents differ

1. `NoCallWhilePending`: the pending file is looked up under the fingerprint of the
   new key (`acme_account_rollover_transaction.go:134`). With two prepared bundles, the second is
   sent to the CA while the first is unresolved, which
   `docs/security/acme-dns01-issuer.md:102` excludes. `RolledKeyHeld` still holds.
2. `NoNewerStateOverwritten`: `RestoreRecoverySnapshot` compares (`recovery.go:171`)
   and renames (`:175`) without a lock, so its comment about compare-and-swap
   (`:108-109`) holds only if calls do not overlap, which is what `config_register`
   shows. `RestoreRenewalPublicationBackup` has the same form
   (`renewal_transaction.go:143` and `:174`).
3. `VerifiedBehavesAlike`: the fingerprint (`parity.go:86-142`) leaves out
   `trusted_proxies` and the order of routes, and rewrites an omitted prefix, a
   trailing dot and blanks around host names, prefixes, methods and identifiers, while
   routing reads routes in order, sorts by the length of the prefix as written and compares
   hosts, prefixes and methods as written (`router.go:35-42`): a route for `x.` takes the
   requests for `x.` only. So
   `gateway-migration-verify` may accept a configuration that treats requests
   differently, where the comment at `parity.go:74-77` speaks of an identity of the
   complete configuration and of its semantics. `VerifiedRoutesAlike` shows what does
   hold: if texts have no blanks around them, all routes have a prefix and no dot, and no
   two enabled routes of a host have the same prefix, routing is the same.

Three more, seen while modelling and without a run of their own: `CreateRecoverySnapshot`
validates one read of the active file and copies another (`recovery.go:61`, `:64`), so an
edit in between is saved unvalidated, while its comment (`:44`) speaks of one validated
configuration; a bundle or retired copy of a command killed between `Write` and
`file.Sync` is used without ever being synced (see AcmeRollover above), while the
comment above `ExecutePreparedACMEAccountKeyRollover` speaks of "two recoverable local
artifacts" written before any CA mutation; and the log line "reloaded atomically" (`main.go:81`) follows two swaps,
between which a handshake may be served by the new certificates and its request by the
old routes (`ReloadWhole` says how far the two can be apart).

## 4. Proofs

A theorem `Spec => []P` is proved from an inductive invariant, an action property
`Spec => [][A]_vars` from the same invariant, the refinement step by step. TLC checks
the invariants as well, each in a run (`RolloverInv`, `LifecycleInv`, `SoloInv`,
`RenewalInv`, `ProxyInv`, `IssuanceInv`, `ProcessInv`), so that a failing proof step was
known to be the proof's fault. The assumptions are the `ASSUME`s of the component
modules: types of the constants, that values standing for nothing (`NoKey`, `NoClient`,
...) are none of the others, that the set of requests of `ProxyRuntime` is finite;
nothing about sizes. Where a theorem needs more, it says so (`ConstantsTyped`, `OneAtATime`).

- **Account store.** `RolloverAlwaysInv`, `RolledKeyNeverLost` (`RolledKeyHeld`),
  `TypeCorrect`. `RolledKeyHeld` speaks only of what the CA knows now. The invariant adds
  what it may be told: every change in flight and every command at its CA call has a
  *settled* bundle, one that no power loss can tear in any of the `survivors` (or that is
  `loose`) and that no prepare can still take back (`WriteFails` removes a file that its
  writer could not finish); a bundle whose prepare is over is synced or loose (`BundleInv`);
  and every key that is active in any surviving directory is created or settled, as
  it is what signs next.
- **Account store, one command at a time.** `LoneAlwaysInv`, `AlwaysWithinReach`
  (`AloneWithinReach`), `AlwaysStagedBeforeCall` (`AloneStagedBeforeCall`),
  `ActiveAlwaysFollowsCA` (`ActiveFollowsCA`), `ActiveAlwaysStaysWhole`
  (`ActiveStaysWhole`): at most one command is under way at any moment, with any number of
  deaths, power losses, failing writes and late key changes. The invariant `LoneInv` has
  four parts. `LoneProc` says what a command can count on at each step: the directory is
  what it last read or wrote, the retired copy equals what it holds, pending is whole
  before the call. `Stored` says that a file which is whole and not synced is being written
  at this moment or is `loose`. `AccountInv` relates the CA to every directory that may survive,
  now and after each key change still in flight. None of them is inductive without the
  fourth, `InOrder`: a late key change could hand the account back to a key that has been
  replaced since, unless keys are only ever replaced by younger ones. It says there are ages
  for the keys (when each was generated) by which no change in flight is signed by a
  key younger than the active one and every bundle's old key is older than its new one.
- **Lifecycle, any calls at once.** `LifecycleAlwaysInv`, `TypeCorrect`,
  `ActiveAlwaysAccounted`, `RevisionsAlwaysWhole`, `RevisionsNeverChange`. Each call's
  held bytes are valid or hand-written (`Holds`), and a directory under construction
  belongs to one call and has no manifest (`Owns`); so a death or a power loss
  between two files leaves nothing that looks complete, and no call writes into a
  directory that does.
- **Lifecycle, one call at a time.** `AloneNothingChanges` (`SoloInv`) and
  `AloneImplementsRegister` (`ImplementsRegister`), under `OneAtATime`: one process, no
  edit during a call; the refinement also without power loss, which may take a saved
  snapshot away. `SoloInv` says what a call relies on between its steps: the active file
  is still what it compared, and its snapshot is of that. With it `Install` is a `Swap`,
  `Undo` a `Revert`, the manifest of a snapshot a `Save`, and all else is a start, a
  return or invisible. `config_rollback` shows that the condition is needed.
- **Renewal.** `RenewalAlwaysInv`, `KeyAlwaysRetained`, `RollbackAlwaysKept`. Every serial
  in use was staged, or is the first one; and nothing has been replaced before the first
  pair has its backup (`FirstBackupFirst`). That a backup directory is created
  exclusively makes the backup of a receipt the one its publication wrote.
- **Renewal, one call at a time.** `LoneAlwaysInv`, `AlwaysPublishedOrRestored`
  (`PublishedOrRestored`), `FailedActivationAlwaysReverts` (`FailedActivationReverts`),
  `ActivationAlwaysServesCandidate` (`ActivationServesCandidate`): at most one call is under
  way at any moment. These compare a call's end with its beginning, so `LoneInv` keeps what happened in
  between: the live files are what the call last read or wrote (`LoneCall`), and a call that
  undoes a replacement, or the replacement that undid it, has met one failure more for each
  (`Replaces`). With at most one failing operation no undo can itself have failed.
- **Proxy.** `ProxyAlwaysInv`, `SlotsAlwaysMatch`, `NeverReplayed`: a request at attempt
  `n` has called at most `n` backends, fewer while it waits for a slot, and `n` passes 1
  only for a retryable one; the count of a channel changes with exactly one holder.
  `RefusedAlwaysByVerdict` rests on a second invariant, `VerdictInv`: for a request no
  clear has overtaken, a backend it does not check has a verdict in what it read, and one
  it has checked has a verdict in the table, since only `Reload` takes verdicts away.
- **Issuer.** `Dns01AlwaysInv`, `RecordsAlwaysCleaned`, by `Dns01Inv`: which records a run
  may own at each program counter (`HeldInv`), that identifiers are not used again for
  another value or record (`IdInv`), and that what was created stands until a run that
  was given its authorization comes to its cleanup (`StandsInv`).
- **Registration.** `RegistrationAlwaysInv`, by `RegistrationInv`: what a command knows at
  each step of the plan and of the directory, and that a request in the CA's hands carries
  its sender's consent. `ConstantsTyped` restates the types of the constants, as the
  module is used through `INSTANCE`.
- **Composition.** `IssuanceAlwaysInv` puts the two together: a step of either component
  is a step or a stutter of the other, and the issuer's flag is true exactly if an account
  exists. `ConsentAlwaysNamed`, `ReceiptsAlwaysTrue`, `CertAlwaysAfterCleanup`,
  `NothingEverLeft` and `RecordAlwaysStands` follow for the composed specification, for any
  number of commands, runs, tokens and directories.
- **Process.** `ProcessAlwaysInv`, `ReloadAlwaysWhole`, `AlwaysDrainedOrDeadline` by
  `ProcessInv`: what was loaded and validated at each point of the reload (`ConfigInv`,
  `TlsInv`), which servers may still have requests while draining (`DrainInv`), what a
  verification compared (`ReviewInv`). `VerifiedAlwaysRoutesAlike` and `ClientAddressAlwaysStable` are
  at heart lemmas about pure functions, for all configurations: equal fingerprints of
  plain configurations match up their routes (`RoutesAlike`), so the least route of the
  sort is the same one (`FirstTaker`, `SameRoute`); and `ResolveClientAddress` depends on
  the last untrusted entry only (`LastPosition`, `ClientAddressFacts`).

Only model-checked: the liveness properties (`Converges`, `LeaversFree`,
`HealthConverges`, `CancelledReturns`, `SignalsServed`; fairness is outside the prover's
reach). `InOrder` quantifies over all natural numbers, so TLC checked `LoneInv` of the
rollover with ages 0 to 2 for the instance of the run and no cfg lists it.

## 5. Not modelled

- Cryptography, encodings, X.509 and file permissions, beyond whether a file decodes
  and what it is about.
- Power loss in RenewalPublication: no directory is synced on its path, so any of its
  renames may be undone on its own, and no document promises anything about it; the model
  has process deaths only.
- Hijacked connections at shutdown, and a signal that arrives before `signal.Notify`.
- X-Forwarded-For in several header lines: the code reads the first (`handler.go:226`),
  and the model has one chain. Which headers are removed (`request_header_policy.go`) and
  the parsing of addresses and prefixes are not modelled.
- Steps taken as one because nothing else tells them apart: the read of the key and the
  swap of the runtime in `ReloadKey` (the rest happens under the reloader's mutex); the reads
  of the two live files in `PrepareRenewalPublication` (execute reads both again, in two
  steps). A request on a connection accepted before `Shutdown` closed the listener counts
  as begun then (`RequestBegins`).
- The syntax that `Validate`, the manifest and the plan require of URLs, identifiers,
  timestamps and schemas: inputs that fail it are refused before anything happens.
- Status endpoint, readiness evaluation, scripts and preflight: read-only, or outside
  the program.

## 6. Plan

1. Done: the component modules above and their runs. Every invariant and every
   safety action property that a passing run checks is a theorem, and so is the refinement.
2. Next: power loss for the lifecycle's refinement (a register that may lose its newest
   snapshot), and the renewal readiness evaluation as a pure function.
