------------------------ MODULE MCRenewalPublication ------------------------
(***************************************************************************)
(* RenewalPublication with one call at a time and many failures (alone),   *)
(* and with calls that interleave and fewer certificates, in one run.      *)
(***************************************************************************)
EXTENDS RenewalPublication, FiniteSets, TLC

CONSTANT FewStaged  \* bound on the renewals while calls interleave

ASSUME FewAssumption == FewStaged \in Nat

VARIABLE alone

Busy == {p \in Process : call[p] # NoCall}

Staged == {s \in Serial : staged[s] # NoSerial}

ModesInit == Init /\ alone \in BOOLEAN

ModesNext ==
    /\ Next
    /\ UNCHANGED alone
    /\ IF alone THEN \A p, o \in Busy' : p = o
       ELSE Cardinality(Staged') <= FewStaged

ModesSpec == ModesInit /\ [][ModesNext]_<<vars, alone>>

\* With one call at a time and at most one failure, a publication ends with the candidate
\* live and a receipt, or with the previous pair.
PublishedOrRestored == [][alone => \A p \in Process : PublishesOrRestores(p)]_<<vars, alone>>

\* With one call at a time, a failed activation restores the pair and keeps the runtime.
FailedActivationReverts == [][alone => \A p \in Process : RevertsFailedActivation(p)]_<<vars, alone>>

\* With one call at a time, the listener serves the candidate an activation reports.
ActivationServesCandidate == [][alone => \A p \in Process : ActivatesCandidate(p)]_<<vars, alone>>

-----------------------------------------------------------------------------
(* The inductive invariant behind the three, beside RenewalInv.            *)

\* The replacement of the pair s that the lone call q is in, which began after n failures
\* and has met more of them once it undoes what it did.
Replaces(q, s, n) ==
    /\ errors >= n
    /\ q.backCert = s /\ q.backKey = s
    /\ q.pc = "key" => Live(s)
    /\ q.pc = "cert" => liveCert = s /\ liveKey = q.to
    /\ q.pc \in {"chmod", "uncert"} => Live(q.to)
    /\ q.pc \in {"uncert", "unkey"} => errors > n
    /\ q.pc = "unkey" => liveCert = s \/ errors > n + 1

Writing == Replacing \ {"verifyCert", "verifyKey"}

\* What a lone call knows: the files are still what it last read or wrote.
LoneCall(q) ==
    /\ q.pc \in {"readKey", "verifyKey", "checkKey", "loadKey", "reloadKey"} => q.seen = liveCert
    /\ q.job = "publish" =>
          /\ q.pc \in {"readCert", "readKey", "backup"} \cup Replacing
          /\ q.pc \notin Replacing => q.backCert = q.prev /\ q.backKey = q.prev
          /\ q.to # q.cand => q.to = q.prev /\ q.pc \in Writing
          /\ q.pc = "backup" => Live(q.prev)
          /\ q.pc \in {"verifyCert", "verifyKey"} => Live(q.cand)
          /\ q.pc \in Writing => IF q.to = q.cand THEN Replaces(q, q.prev, 0) ELSE Replaces(q, q.cand, 1)
    /\ q.job = "activate" =>
          /\ q.to = q.prev
          /\ q.pc \in {"loadCert", "loadKey", "reloadCert", "reloadKey"}
          /\ q.pc \in {"reloadCert", "reloadKey"} => Live(q.cand)
    /\ q.job = "revert" =>
          /\ q.to = q.prev /\ errors >= 1
          /\ q.pc \in Restoring \cup Writing
          /\ q.pc \in Restoring => Live(q.cand)
          /\ q.pc = "holdKey" => q.backCert = q.cand
          /\ q.pc \in Writing => Replaces(q, q.cand, 1)

LoneInv ==
    alone => /\ \A p, o \in Busy : p = o
             /\ \A p \in Process : LoneCall(call[p])

\* Calls, and the certificates that are not live at first, are interchangeable.
Symmetry == Permutations(Process) \cup Permutations(Serial \ {Initial})

=============================================================================
