---------------------- MODULE RenewalPublicationProofs ----------------------
(* Proofs about RenewalPublication for any calls, certificates and faults. *)
EXTENDS MCRenewalPublication, TLAPS

LEMMA NoCallFacts == NoCall \in Call /\ CallInv(NoCall) /\ Early(NoCall)
BY DEF NoCall, Call, CallInv, Early, Job, PC, Some, Replacing, Restoring

LEMMA InitInv == Init => RenewalInv
<1> SUFFICES ASSUME Init PROVE RenewalInv
  OBVIOUS
<1>1. TypeOK
  BY NoCallFacts, RenewalAssumption DEF Init, TypeOK, Some
<1>2. \A p \in Process : CallInv(call[p]) /\ Early(call[p])
  BY NoCallFacts DEF Init
<1> QED
  BY <1>1, <1>2, RenewalAssumption DEF Init, RenewalInv, Known, RollbackKept, FirstBackupFirst, Live

-----------------------------------------------------------------------------
(* The step of one call that touches no bundle, backup or receipt.         *)

Frame ==
    /\ UNCHANGED <<staged, planned, backup, receipts>>
    /\ Known(liveCert') /\ Known(liveKey') /\ Known(runtime')
    /\ backup[Initial] = NoSerial => liveCert' = Initial /\ liveKey' = Initial
    /\ errors' \in 0..MaxErrors /\ deaths' \in 0..MaxDeaths

\* A call may go on as q.
Sound(q) == CallInv(q) /\ (backup[Initial] = NoSerial => Early(q))

LEMMA CallFacts ==
    ASSUME RenewalInv, NEW p \in Process
    PROVE  call \in [Process -> Call] /\ call[p] \in Call /\ Sound(call[p])
BY DEF RenewalInv, TypeOK, Sound, FirstBackupFirst

LEMMA Step ==
    ASSUME RenewalInv, NEW p \in Process, NEW q \in Call, Sound(q), Frame,
           call' = [call EXCEPT ![p] = q]
    PROVE  RenewalInv'
<1>1. TypeOK'
  BY RenewalAssumption DEF RenewalInv, TypeOK, Frame, Known
<1>2. \A s : Known(s)' <=> Known(s)
  BY DEF Frame, Known
<1>3. Known(liveCert)' /\ Known(liveKey)' /\ Known(runtime)'
  BY DEF Frame, Known
<1>4. /\ (\A s \in Serial : staged[s] # NoSerial => Known(staged[s]))'
      /\ (planned \subseteq {s \in Serial : staged[s] # NoSerial})'
      /\ (\A r \in receipts : Known(r.prev) /\ Known(r.cand))'
      /\ RollbackKept'
  BY DEF RenewalInv, Frame, Known, RollbackKept
<1>5. \A r \in Process : call'[r] = IF r = p THEN q ELSE call[r]
  BY CallFacts
<1>6. \A r \in Process : CallInv(call[r])'
  BY <1>5 DEF Frame, RenewalInv, CallInv, Known, Sound
<1>7. FirstBackupFirst'
  BY <1>5 DEF RenewalInv, FirstBackupFirst, Live, Frame, Sound, Early
<1> QED
  BY <1>1, <1>3, <1>4, <1>6, <1>7 DEF RenewalInv

LEMMA StillFrame ==
    ASSUME RenewalInv, UNCHANGED <<disk, runtime, receipts, counts>>
    PROVE  Frame
BY DEF RenewalInv, TypeOK, FirstBackupFirst, Live, Frame, disk, counts

LEMMA ReturnStep ==
    ASSUME RenewalInv, NEW p \in Process, Return(p), Frame PROVE RenewalInv'
<1>1. PICK q \in Call : q = NoCall
  BY NoCallFacts
<1>2. Sound(q) /\ call' = [call EXCEPT ![p] = q]
  BY <1>1, NoCallFacts DEF Return, Sound
<1> QED
  BY <1>2, Step

\* A call that goes on with the same values at another point.
LEMMA GotoFacts ==
    ASSUME RenewalInv, NEW p \in Process, NEW pc \in PC, Goto(p, pc)
    PROVE  \E q \in Call : /\ call' = [call EXCEPT ![p] = q]
                           /\ q.pc = pc /\ q.job = call[p].job
                           /\ q.prev = call[p].prev /\ q.cand = call[p].cand
                           /\ q.seen = call[p].seen /\ q.to = call[p].to
                           /\ q.backCert = call[p].backCert /\ q.backKey = call[p].backKey
<1>1. PICK q \in Call : q = [call[p] EXCEPT !.pc = pc]
  BY CallFacts DEF Call
<1>2. call' = [call EXCEPT ![p] = q]
  BY <1>1, CallFacts DEF Goto, Call
<1> QED
  BY <1>1, <1>2, CallFacts DEF Call

\* A call that has read the live certificate.
LEMMA ReadCertFacts ==
    ASSUME RenewalInv, NEW p \in Process, NEW pc \in PC, ReadCert(p, pc)
    PROVE  \E q \in Call : /\ call' = [call EXCEPT ![p] = q]
                           /\ q.pc = pc /\ q.job = call[p].job
                           /\ q.prev = call[p].prev /\ q.cand = call[p].cand
                           /\ q.seen = liveCert /\ q.to = call[p].to
                           /\ q.backCert = call[p].backCert /\ q.backKey = call[p].backKey
<1>1. PICK q \in Call : q = [call[p] EXCEPT !.seen = liveCert, !.pc = pc]
  BY CallFacts DEF Call, RenewalInv, TypeOK, Some
<1>2. call' = [call EXCEPT ![p] = q]
  BY <1>1, CallFacts DEF ReadCert, Call
<1> QED
  BY <1>1, <1>2, CallFacts DEF Call

LEMMA LiveFacts ==
    ASSUME RenewalInv
    PROVE  /\ Known(liveCert) /\ Known(liveKey) /\ Known(runtime)
           /\ liveCert # NoSerial /\ liveKey # NoSerial
           /\ backup[Initial] = NoSerial => liveCert = Initial /\ liveKey = Initial
BY RenewalAssumption DEF RenewalInv, TypeOK, FirstBackupFirst, Live

-----------------------------------------------------------------------------
(* The steps that read one file.                                           *)

LEMMA ReadingStep ==
    ASSUME RenewalInv, NEW p \in Process,
           \/ ReadLiveCert(p) \/ VerifyCert(p) \/ CheckCert(p) \/ LoadCert(p) \/ ReloadCert(p)
    PROVE  RenewalInv'
<1>1. Frame
  BY StillFrame DEF ReadLiveCert, VerifyCert, CheckCert, LoadCert, ReloadCert
<1>2. PICK pc \in {"readKey", "verifyKey", "checkKey", "loadKey", "reloadKey"} :
         /\ ReadCert(p, pc)
         /\ call[p].pc = CASE pc = "readKey" -> "readCert" [] pc = "verifyKey" -> "verifyCert"
                           [] pc = "checkKey" -> "checkCert" [] pc = "loadKey" -> "loadCert"
                           [] OTHER -> "reloadCert"
  BY DEF ReadLiveCert, VerifyCert, CheckCert, LoadCert, ReloadCert
<1>3. PICK q \in Call : /\ call' = [call EXCEPT ![p] = q]
                        /\ q.pc = pc /\ q.job = call[p].job
                        /\ q.prev = call[p].prev /\ q.cand = call[p].cand
                        /\ q.seen = liveCert /\ q.to = call[p].to
                        /\ q.backCert = call[p].backCert /\ q.backKey = call[p].backKey
  BY <1>2, ReadCertFacts DEF PC
<1>4. CallInv(q)
  BY <1>2, <1>3, CallFacts, LiveFacts DEF Sound, CallInv, Replacing, Restoring
<1>5. backup[Initial] = NoSerial => Early(q)
  BY <1>2, <1>3, CallFacts DEF Sound, Early, Replacing, Restoring
<1> QED
  BY <1>1, <1>3, <1>4, <1>5, Step DEF Sound

-----------------------------------------------------------------------------
(* The steps that decide after reading the other file.                     *)

LEMMA ReadLiveKeyInv == ASSUME RenewalInv, NEW p \in Process, ReadLiveKey(p) PROVE RenewalInv'
<1>1. Frame
  BY StillFrame DEF ReadLiveKey
<1>2. CASE Return(p)
  BY <1>1, <1>2, ReturnStep
<1>3. CASE ~Return(p)
  <2>1. call[p].pc = "readKey" /\ Goto(p, "backup") /\ liveKey = call[p].prev
    BY <1>3 DEF ReadLiveKey, PairIs
  <2>2. PICK q \in Call : /\ call' = [call EXCEPT ![p] = q]
                          /\ q.pc = "backup" /\ q.job = call[p].job
                          /\ q.prev = call[p].prev /\ q.cand = call[p].cand
                          /\ q.seen = call[p].seen /\ q.to = call[p].to
                          /\ q.backCert = call[p].backCert /\ q.backKey = call[p].backKey
    BY <2>1, GotoFacts DEF PC
  <2>3. CallInv(q)
    BY <2>1, <2>2, CallFacts DEF Sound, CallInv, Replacing, Restoring
  <2>4. backup[Initial] = NoSerial => Early(q)
    BY <2>1, <2>2, CallFacts, LiveFacts DEF Sound, Early, Replacing, Restoring
  <2> QED
    BY <1>1, <2>2, <2>3, <2>4, Step DEF Sound
<1> QED
  BY <1>2, <1>3

LEMMA CheckKeyInv == ASSUME RenewalInv, NEW p \in Process, CheckKey(p) PROVE RenewalInv'
<1>1. Frame
  BY StillFrame DEF CheckKey
<1>2. CASE Return(p)
  BY <1>1, <1>2, ReturnStep
<1>3. CASE ~Return(p)
  <2>1. call[p].pc = "checkKey" /\ Goto(p, "holdCert")
    BY <1>3 DEF CheckKey, PairIs
  <2>2. PICK q \in Call : /\ call' = [call EXCEPT ![p] = q]
                          /\ q.pc = "holdCert" /\ q.job = call[p].job
                          /\ q.prev = call[p].prev /\ q.cand = call[p].cand
                          /\ q.seen = call[p].seen /\ q.to = call[p].to
                          /\ q.backCert = call[p].backCert /\ q.backKey = call[p].backKey
    BY <2>1, GotoFacts DEF PC
  <2>3. CallInv(q)
    BY <2>1, <2>2, CallFacts DEF Sound, CallInv, Replacing, Restoring
  <2>4. backup[Initial] = NoSerial => Early(q)
    BY <2>1, <2>2, CallFacts, LiveFacts DEF Sound, Early, Replacing, Restoring
  <2> QED
    BY <1>1, <2>2, <2>3, <2>4, Step DEF Sound
<1> QED
  BY <1>2, <1>3

LEMMA LoadKeyInv == ASSUME RenewalInv, NEW p \in Process, LoadKey(p) PROVE RenewalInv'
<1>1. Frame
  BY StillFrame DEF LoadKey
<1>2. CASE Return(p)
  BY <1>1, <1>2, ReturnStep
<1>3. CASE ~Return(p)
  <2>1. call[p].pc = "loadKey" /\ Goto(p, "reloadCert")
    BY <1>3 DEF LoadKey, PairIs
  <2>2. PICK q \in Call : /\ call' = [call EXCEPT ![p] = q]
                          /\ q.pc = "reloadCert" /\ q.job = call[p].job
                          /\ q.prev = call[p].prev /\ q.cand = call[p].cand
                          /\ q.seen = call[p].seen /\ q.to = call[p].to
                          /\ q.backCert = call[p].backCert /\ q.backKey = call[p].backKey
    BY <2>1, GotoFacts DEF PC
  <2>3. CallInv(q)
    BY <2>1, <2>2, CallFacts DEF Sound, CallInv, Replacing, Restoring
  <2>4. backup[Initial] = NoSerial => Early(q)
    BY <2>1, <2>2, CallFacts, LiveFacts DEF Sound, Early, Replacing, Restoring
  <2> QED
    BY <1>1, <2>2, <2>3, <2>4, Step DEF Sound
<1> QED
  BY <1>2, <1>3

-----------------------------------------------------------------------------
(* The replacement of the live pair.                                       *)

\* A replacing call may write a known pair: the first backup has been made.
LEMMA WriteFrame ==
    ASSUME RenewalInv, NEW p \in Process, call[p].pc \in Replacing, NEW s, Known(s),
           liveCert' \in {liveCert, s}, liveKey' \in {liveKey, s},
           UNCHANGED <<staged, planned, backup, runtime, receipts, counts>>
    PROVE  Frame
<1>1. backup[Initial] # NoSerial
  BY CallFacts DEF Sound, Early
<1> QED
  BY <1>1, LiveFacts DEF Frame, RenewalInv, TypeOK, counts

LEMMA RenameKeyInv == ASSUME RenewalInv, NEW p \in Process, RenameKey(p) PROVE RenewalInv'
<1>0. call[p].pc \in Replacing /\ Known(call[p].to)
  BY CallFacts DEF RenameKey, Sound, CallInv, Replacing
<1>1. Frame
  BY <1>0, WriteFrame DEF RenameKey
<1>2. call[p].pc = "key" /\ Goto(p, "cert")
  BY DEF RenameKey
<1>3. PICK q \in Call : /\ call' = [call EXCEPT ![p] = q]
                        /\ q.pc = "cert" /\ q.job = call[p].job
                        /\ q.prev = call[p].prev /\ q.cand = call[p].cand
                        /\ q.seen = call[p].seen /\ q.to = call[p].to
                        /\ q.backCert = call[p].backCert /\ q.backKey = call[p].backKey
  BY <1>2, GotoFacts DEF PC
<1>4. CallInv(q)
  BY <1>2, <1>3, CallFacts DEF Sound, CallInv, Replacing, Restoring
<1>5. backup[Initial] = NoSerial => Early(q)
  BY <1>2, <1>3, CallFacts DEF Sound, Early, Replacing, Restoring
<1> QED
  BY <1>1, <1>3, <1>4, <1>5, Step DEF Sound

LEMMA RenameCertInv == ASSUME RenewalInv, NEW p \in Process, RenameCert(p) PROVE RenewalInv'
<1>0. call[p].pc \in Replacing /\ Known(call[p].to)
  BY CallFacts DEF RenameCert, Sound, CallInv, Replacing
<1>1. Frame
  BY <1>0, WriteFrame DEF RenameCert
<1>2. call[p].pc = "cert" /\ Goto(p, "chmod")
  BY DEF RenameCert
<1>3. PICK q \in Call : /\ call' = [call EXCEPT ![p] = q]
                        /\ q.pc = "chmod" /\ q.job = call[p].job
                        /\ q.prev = call[p].prev /\ q.cand = call[p].cand
                        /\ q.seen = call[p].seen /\ q.to = call[p].to
                        /\ q.backCert = call[p].backCert /\ q.backKey = call[p].backKey
  BY <1>2, GotoFacts DEF PC
<1>4. CallInv(q)
  BY <1>2, <1>3, CallFacts DEF Sound, CallInv, Replacing, Restoring
<1>5. backup[Initial] = NoSerial => Early(q)
  BY <1>2, <1>3, CallFacts DEF Sound, Early, Replacing, Restoring
<1> QED
  BY <1>1, <1>3, <1>4, <1>5, Step DEF Sound

LEMMA RestoreCertInv == ASSUME RenewalInv, NEW p \in Process, RestoreCert(p) PROVE RenewalInv'
<1>0. call[p].pc \in Replacing /\ Known(call[p].backCert)
  BY CallFacts DEF RestoreCert, Sound, CallInv, Replacing
<1>1. Frame
  BY <1>0, WriteFrame DEF RestoreCert
<1>2. call[p].pc = "uncert" /\ Goto(p, "unkey")
  BY DEF RestoreCert
<1>3. PICK q \in Call : /\ call' = [call EXCEPT ![p] = q]
                        /\ q.pc = "unkey" /\ q.job = call[p].job
                        /\ q.prev = call[p].prev /\ q.cand = call[p].cand
                        /\ q.seen = call[p].seen /\ q.to = call[p].to
                        /\ q.backCert = call[p].backCert /\ q.backKey = call[p].backKey
  BY <1>2, GotoFacts DEF PC
<1>4. CallInv(q)
  BY <1>2, <1>3, CallFacts DEF Sound, CallInv, Replacing, Restoring
<1>5. backup[Initial] = NoSerial => Early(q)
  BY <1>2, <1>3, CallFacts DEF Sound, Early, Replacing, Restoring
<1> QED
  BY <1>1, <1>3, <1>4, <1>5, Step DEF Sound

LEMMA ChmodInv == ASSUME RenewalInv, NEW p \in Process, Chmod(p) PROVE RenewalInv'
<1>1. Frame
  BY StillFrame DEF Chmod
<1>2. CASE Return(p)
  BY <1>1, <1>2, ReturnStep
<1>3. CASE ~Return(p)
  <2>1. call[p].pc = "chmod" /\ Goto(p, "verifyCert") /\ call[p].job = "publish"
    BY <1>3 DEF Chmod, PairIs
  <2>2. PICK q \in Call : /\ call' = [call EXCEPT ![p] = q]
                          /\ q.pc = "verifyCert" /\ q.job = call[p].job
                          /\ q.prev = call[p].prev /\ q.cand = call[p].cand
                          /\ q.seen = call[p].seen /\ q.to = call[p].to
                          /\ q.backCert = call[p].backCert /\ q.backKey = call[p].backKey
    BY <2>1, GotoFacts DEF PC
  <2>3. CallInv(q)
    BY <2>1, <2>2, CallFacts DEF Sound, CallInv, Replacing, Restoring
  <2>4. backup[Initial] = NoSerial => Early(q)
    BY <2>1, <2>2, CallFacts, LiveFacts DEF Sound, Early, Replacing, Restoring
  <2> QED
    BY <1>1, <2>2, <2>3, <2>4, Step DEF Sound
<1> QED
  BY <1>2, <1>3

LEMMA RestoreKeyInv == ASSUME RenewalInv, NEW p \in Process, RestoreKey(p) PROVE RenewalInv'
<1>1. call[p].pc \in Replacing /\ Known(call[p].backKey)
  BY CallFacts DEF RestoreKey, Sound, CallInv, Replacing
<1>2. Frame /\ Return(p)
  BY <1>1, WriteFrame DEF RestoreKey
<1> QED
  BY <1>2, ReturnStep

\* The rollback of a publication that could not be verified.
LEMMA RollbackStep ==
    ASSUME RenewalInv, NEW p \in Process, call[p].pc \in {"verifyCert", "verifyKey"},
           Rollback(p), Frame
    PROVE  RenewalInv'
<1>1. PICK q \in Call : q = [call[p] EXCEPT !.pc = "key", !.to = call[p].prev,
                                           !.backCert = call[p].cand, !.backKey = call[p].cand]
  BY CallFacts DEF Call, PC
<1>2. /\ q.pc = "key" /\ q.job = call[p].job /\ q.prev = call[p].prev /\ q.cand = call[p].cand
      /\ q.seen = call[p].seen /\ q.to = call[p].prev
      /\ q.backCert = call[p].cand /\ q.backKey = call[p].cand
  BY <1>1, CallFacts DEF Call
<1>3. call' = [call EXCEPT ![p] = q]
  BY <1>1, CallFacts DEF Rollback, Call
<1>4. CallInv(q)
  BY <1>2, CallFacts DEF Sound, CallInv, Replacing, Restoring
<1>5. backup[Initial] = NoSerial => Early(q)
  BY <1>2, CallFacts DEF Sound, Early, Replacing
<1> QED
  BY <1>3, <1>4, <1>5, Step DEF Sound

LEMMA HoldCertInv == ASSUME RenewalInv, NEW p \in Process, HoldCert(p) PROVE RenewalInv'
<1>1. Frame /\ call[p].pc = "holdCert"
  BY StillFrame DEF HoldCert
<1>2. PICK q \in Call : q = [call[p] EXCEPT !.backCert = liveCert, !.pc = "holdKey"]
  BY CallFacts DEF Call, PC, RenewalInv, TypeOK, Some
<1>3. /\ q.pc = "holdKey" /\ q.job = call[p].job /\ q.prev = call[p].prev /\ q.cand = call[p].cand
      /\ q.seen = call[p].seen /\ q.to = call[p].to
      /\ q.backCert = liveCert /\ q.backKey = call[p].backKey
  BY <1>2, CallFacts DEF Call
<1>4. call' = [call EXCEPT ![p] = q]
  BY <1>2, CallFacts DEF HoldCert, Call
<1>5. CallInv(q)
  BY <1>1, <1>3, CallFacts, LiveFacts DEF Sound, CallInv, Replacing, Restoring
<1>6. backup[Initial] = NoSerial => Early(q)
  BY <1>1, <1>3, CallFacts DEF Sound, Early, Restoring
<1> QED
  BY <1>1, <1>4, <1>5, <1>6, Step DEF Sound

LEMMA HoldKeyInv == ASSUME RenewalInv, NEW p \in Process, HoldKey(p) PROVE RenewalInv'
<1>1. Frame /\ call[p].pc = "holdKey"
  BY StillFrame DEF HoldKey
<1>2. PICK q \in Call : q = [call[p] EXCEPT !.backKey = liveKey, !.pc = "key"]
  BY CallFacts DEF Call, PC, RenewalInv, TypeOK, Some
<1>3. /\ q.pc = "key" /\ q.job = call[p].job /\ q.prev = call[p].prev /\ q.cand = call[p].cand
      /\ q.seen = call[p].seen /\ q.to = call[p].to
      /\ q.backCert = call[p].backCert /\ q.backKey = liveKey
  BY <1>2, CallFacts DEF Call
<1>4. call' = [call EXCEPT ![p] = q]
  BY <1>2, CallFacts DEF HoldKey, Call
<1>5. CallInv(q)
  BY <1>1, <1>3, CallFacts, LiveFacts DEF Sound, CallInv, Replacing, Restoring
<1>6. backup[Initial] = NoSerial => Early(q)
  BY <1>1, <1>3, CallFacts DEF Sound, Early, Restoring
<1> QED
  BY <1>1, <1>4, <1>5, <1>6, Step DEF Sound

-----------------------------------------------------------------------------
(* The starts of the calls.                                                *)

LEMMA BuildRenewalRequestInv ==
    ASSUME RenewalInv, NEW p \in Process, BuildRenewalRequest(p) PROVE RenewalInv'
<1>1. Frame /\ call[p].pc = "idle"
  BY StillFrame DEF BuildRenewalRequest
<1>2. liveCert \in Some
  BY DEF RenewalInv, TypeOK, Some
<1>3. PICK q \in Call : q = [call[p] EXCEPT !.job = "renew", !.pc = "stage", !.prev = liveCert]
  BY <1>2, CallFacts DEF Call, Job, PC
<1>4. /\ q.pc = "stage" /\ q.job = "renew" /\ q.prev = liveCert /\ q.cand = call[p].cand
      /\ q.seen = call[p].seen /\ q.to = call[p].to /\ q.backCert = call[p].backCert /\ q.backKey = call[p].backKey
  BY <1>3, CallFacts DEF Call
<1>5. call' = [call EXCEPT ![p] = q]
  BY <1>3, CallFacts DEF BuildRenewalRequest, Call
<1>6. CallInv(q)
  BY <1>1, <1>4, CallFacts, LiveFacts DEF Sound, CallInv, Replacing, Restoring
<1>7. backup[Initial] = NoSerial => Early(q)
  BY <1>1, <1>4, CallFacts DEF Sound, Early, Replacing, Restoring
<1> QED
  BY <1>1, <1>5, <1>6, <1>7, Step DEF Sound

LEMMA ExecuteRenewalPublicationInv ==
    ASSUME RenewalInv, NEW p \in Process, NEW s \in Serial, ExecuteRenewalPublication(p, s) PROVE RenewalInv'
<1>1. Frame /\ call[p].pc = "idle"
  BY StillFrame DEF ExecuteRenewalPublication
<1>2. Known(s) /\ Known(staged[s]) /\ s \in Some /\ staged[s] \in Some
  BY RenewalAssumption DEF Some, TypeOK, ExecuteRenewalPublication, RenewalInv, Known
<1>3. PICK q \in Call : q = [call[p] EXCEPT !.job = "publish", !.pc = "readCert",
                                           !.prev = staged[s], !.cand = s, !.to = s,
                                           !.backCert = staged[s], !.backKey = staged[s]]
  BY <1>2, CallFacts DEF Call, Job, PC
<1>4. /\ q.pc = "readCert" /\ q.job = "publish" /\ q.prev = staged[s] /\ q.cand = s
      /\ q.seen = call[p].seen /\ q.to = s /\ q.backCert = staged[s] /\ q.backKey = staged[s]
  BY <1>3, CallFacts DEF Call
<1>5. call' = [call EXCEPT ![p] = q]
  BY <1>3, CallFacts DEF ExecuteRenewalPublication, Call
<1>6. CallInv(q)
  BY <1>2, <1>1, <1>4, CallFacts, LiveFacts DEF Sound, CallInv, Replacing, Restoring
<1>7. backup[Initial] = NoSerial => Early(q)
  BY <1>2, <1>1, <1>4, CallFacts DEF Sound, Early, Replacing, Restoring
<1> QED
  BY <1>1, <1>5, <1>6, <1>7, Step DEF Sound

LEMMA RestoreRenewalPublicationBackupInv ==
    ASSUME RenewalInv, NEW p \in Process, NEW r \in receipts, RestoreRenewalPublicationBackup(p, r) PROVE RenewalInv'
<1>1. Frame /\ call[p].pc = "idle"
  BY StillFrame DEF RestoreRenewalPublicationBackup
<1>2. /\ Known(r.prev) /\ Known(r.cand) /\ [prev |-> r.prev, cand |-> r.cand] \in receipts
      /\ r.prev \in Some /\ r.cand \in Some
  BY DEF RenewalInv, TypeOK, Receipt, Some
<1>3. PICK q \in Call : q = [call[p] EXCEPT !.job = "restore", !.pc = "checkCert",
                                           !.prev = r.prev, !.cand = r.cand, !.to = r.prev]
  BY <1>2, CallFacts DEF Call, Job, PC
<1>4. /\ q.pc = "checkCert" /\ q.job = "restore" /\ q.prev = r.prev /\ q.cand = r.cand
      /\ q.seen = call[p].seen /\ q.to = r.prev /\ q.backCert = call[p].backCert /\ q.backKey = call[p].backKey
  BY <1>3, CallFacts DEF Call
<1>5. call' = [call EXCEPT ![p] = q]
  BY <1>3, CallFacts DEF RestoreRenewalPublicationBackup, Call
<1>6. CallInv(q)
  BY <1>2, <1>1, <1>4, CallFacts, LiveFacts DEF Sound, CallInv, Replacing, Restoring
<1>7. backup[Initial] = NoSerial => Early(q)
  BY <1>2 DEF RenewalInv, FirstBackupFirst
<1> QED
  BY <1>1, <1>5, <1>6, <1>7, Step DEF Sound

LEMMA ActivateRenewalPublicationInv ==
    ASSUME RenewalInv, NEW p \in Process, NEW r \in receipts, ActivateRenewalPublication(p, r) PROVE RenewalInv'
<1>1. Frame /\ call[p].pc = "idle"
  BY StillFrame DEF ActivateRenewalPublication
<1>2. /\ Known(r.prev) /\ Known(r.cand) /\ [prev |-> r.prev, cand |-> r.cand] \in receipts
      /\ r.prev \in Some /\ r.cand \in Some
  BY DEF RenewalInv, TypeOK, Receipt, Some
<1>3. PICK q \in Call : q = [call[p] EXCEPT !.job = "activate", !.pc = "loadCert",
                                           !.prev = r.prev, !.cand = r.cand, !.to = r.prev]
  BY <1>2, CallFacts DEF Call, Job, PC
<1>4. /\ q.pc = "loadCert" /\ q.job = "activate" /\ q.prev = r.prev /\ q.cand = r.cand
      /\ q.seen = call[p].seen /\ q.to = r.prev /\ q.backCert = call[p].backCert /\ q.backKey = call[p].backKey
  BY <1>3, CallFacts DEF Call
<1>5. call' = [call EXCEPT ![p] = q]
  BY <1>3, CallFacts DEF ActivateRenewalPublication, Call
<1>6. CallInv(q)
  BY <1>2, <1>1, <1>4, CallFacts, LiveFacts DEF Sound, CallInv, Replacing, Restoring
<1>7. backup[Initial] = NoSerial => Early(q)
  BY <1>2, <1>1, <1>4, CallFacts DEF Sound, Early, Replacing, Restoring
<1> QED
  BY <1>1, <1>5, <1>6, <1>7, Step DEF Sound

LEMMA ReloadInv ==
    ASSUME RenewalInv, NEW p \in Process, Reload(p) PROVE RenewalInv'
<1>1. Frame /\ call[p].pc = "idle"
  BY StillFrame DEF Reload
<1>3. PICK q \in Call : q = [call[p] EXCEPT !.job = "reload", !.pc = "reloadCert"]
  BY CallFacts DEF Call, Job, PC
<1>4. /\ q.pc = "reloadCert" /\ q.job = "reload" /\ q.prev = call[p].prev /\ q.cand = call[p].cand
      /\ q.seen = call[p].seen /\ q.to = call[p].to /\ q.backCert = call[p].backCert /\ q.backKey = call[p].backKey
  BY <1>3, CallFacts DEF Call
<1>5. call' = [call EXCEPT ![p] = q]
  BY <1>3, CallFacts DEF Reload, Call
<1>6. CallInv(q)
  BY <1>1, <1>4, CallFacts, LiveFacts DEF Sound, CallInv, Replacing, Restoring
<1>7. backup[Initial] = NoSerial => Early(q)
  BY <1>1, <1>4, CallFacts DEF Sound, Early, Replacing, Restoring
<1> QED
  BY <1>1, <1>5, <1>6, <1>7, Step DEF Sound

-----------------------------------------------------------------------------
(* The reload of the runtime.                                              *)

LEMMA ReloadRejectedStep ==
    ASSUME RenewalInv, NEW p \in Process, call[p].pc \in {"reloadCert", "reloadKey"},
           ReloadRejected(p), Frame
    PROVE  RenewalInv'
<1>1. CASE call[p].job # "activate"
  BY <1>1, ReturnStep DEF ReloadRejected
<1>2. CASE call[p].job = "activate"
  <2>1. PICK q \in Call : q = [call[p] EXCEPT !.job = "revert", !.pc = "checkCert"]
    BY CallFacts DEF Call, Job, PC
  <2>2. /\ q.pc = "checkCert" /\ q.job = "revert" /\ q.prev = call[p].prev /\ q.cand = call[p].cand
        /\ q.seen = call[p].seen /\ q.to = call[p].to
        /\ q.backCert = call[p].backCert /\ q.backKey = call[p].backKey
    BY <2>1, CallFacts DEF Call
  <2>3. call' = [call EXCEPT ![p] = q]
    BY <1>2, <2>1, CallFacts DEF ReloadRejected, Call
  <2>4. CallInv(q)
    BY <1>2, <2>2, CallFacts DEF Sound, CallInv, Replacing, Restoring
  <2>5. backup[Initial] # NoSerial
    BY <1>2, CallFacts DEF Sound, CallInv, RenewalInv, FirstBackupFirst
  <2> QED
    BY <2>3, <2>4, <2>5, Step DEF Sound
<1> QED
  BY <1>1, <1>2

LEMMA ReloadKeyInv == ASSUME RenewalInv, NEW p \in Process, ReloadKey(p) PROVE RenewalInv'
<1>1. call[p].pc = "reloadKey" /\ Known(call[p].seen)
  BY CallFacts DEF ReloadKey, Sound, CallInv
<1>2. Frame
  BY <1>1, LiveFacts DEF ReloadKey, Frame, RenewalInv, TypeOK, disk, counts
<1>3. Return(p) \/ ReloadRejected(p)
  BY DEF ReloadKey
<1> QED
  BY <1>1, <1>2, <1>3, ReturnStep, ReloadRejectedStep

-----------------------------------------------------------------------------
(* The steps that add a bundle, a plan, a backup or a receipt.             *)

LEMMA IssueInv ==
    ASSUME RenewalInv, NEW p \in Process, IssueValidateAndStageRenewal(p) PROVE RenewalInv'
<1>1. PICK s \in Serial : staged[s] = NoSerial /\ staged' = [staged EXCEPT ![s] = call[p].prev]
  BY DEF IssueValidateAndStageRenewal
<1>2. Known(call[p].prev) /\ call[p].prev \in Serial
  BY CallFacts, RenewalAssumption DEF IssueValidateAndStageRenewal, Sound, CallInv, Known
<1>3. \A t : Known(t) => Known(t)'
  BY <1>1, <1>2, RenewalAssumption DEF Known, RenewalInv, TypeOK
<1>4. call' \in [Process -> Call] /\ \A r \in Process : call'[r] = IF r = p THEN NoCall ELSE call[r]
  BY CallFacts, NoCallFacts DEF IssueValidateAndStageRenewal, Return
<1>5. UNCHANGED <<liveCert, liveKey, planned, backup, runtime, receipts, errors, deaths>>
  BY DEF IssueValidateAndStageRenewal, counts
<1>6. TypeOK'
  BY <1>1, <1>2, <1>4, <1>5 DEF RenewalInv, TypeOK, Some
<1>7. (\A t \in Serial : staged[t] # NoSerial => Known(staged[t]))'
  BY <1>1, <1>2, <1>3 DEF RenewalInv, TypeOK, Known
<1>8. (planned \subseteq {t \in Serial : staged[t] # NoSerial})'
  BY <1>1, <1>5 DEF RenewalInv, TypeOK
<1>9. CallInv(NoCall)'
  BY DEF NoCall, CallInv, Replacing, Restoring
<1>10. ASSUME NEW r \in Process PROVE CallInv(call[r])'
  <2>1. CASE r = p
    BY <1>4, <1>9, <2>1
  <2>2. CASE r # p
    <3>1. call'[r] = call[r] /\ CallInv(call[r])
      BY <1>4, <2>2 DEF RenewalInv
    <3> QED
      BY <3>1, <1>3, <1>5 DEF CallInv
  <2> QED
    BY <2>1, <2>2
<1>11. FirstBackupFirst'
  BY <1>4, <1>5, NoCallFacts DEF RenewalInv, FirstBackupFirst, Live, Early
<1>12. (Known(liveCert) /\ Known(liveKey) /\ Known(runtime))'
  BY <1>3, <1>5 DEF RenewalInv
<1>13. (\A r \in receipts : Known(r.prev) /\ Known(r.cand))'
  BY <1>3, <1>5 DEF RenewalInv
<1>14. RollbackKept'
  BY <1>5 DEF RenewalInv, RollbackKept
<1> QED
  BY <1>6, <1>7, <1>8, <1>10, <1>11, <1>12, <1>13, <1>14 DEF RenewalInv

LEMMA PrepareInv ==
    ASSUME RenewalInv, NEW s \in Serial, PrepareRenewalPublication(s) PROVE RenewalInv'
<1>1. /\ staged[s] # NoSerial /\ planned' = planned \cup {s}
      /\ UNCHANGED <<liveCert, liveKey, staged, backup, runtime, receipts, call, errors, deaths>>
  BY DEF PrepareRenewalPublication, VerifyStagedRenewal, counts
<1>2. TypeOK' /\ (planned \subseteq {t \in Serial : staged[t] # NoSerial})'
  BY <1>1 DEF RenewalInv, TypeOK
<1>3. FirstBackupFirst' /\ RollbackKept'
  BY <1>1 DEF RenewalInv, FirstBackupFirst, Live, RollbackKept
<1>4. \A p \in Process : CallInv(call[p])'
  BY <1>1 DEF RenewalInv, CallInv, Known
<1> QED
  BY <1>1, <1>2, <1>3, <1>4 DEF RenewalInv, Known

LEMMA CreateRenewalBackupInv ==
    ASSUME RenewalInv, NEW p \in Process, CreateRenewalBackup(p) PROVE RenewalInv'
<1>1. CASE backup[call[p].prev] # NoSerial
  <2>1. UNCHANGED <<disk, runtime, receipts, counts>> /\ Return(p)
    BY <1>1 DEF CreateRenewalBackup, disk
  <2> QED
    BY <2>1, StillFrame, ReturnStep
<1>2. CASE backup[call[p].prev] = NoSerial
  <2>1. /\ call[p].pc = "backup" /\ call[p].job = "publish"
        /\ Known(call[p].prev) /\ Known(call[p].cand)
        /\ call[p].prev \in Serial /\ call[p].cand \in Serial
    BY CallFacts, RenewalAssumption DEF CreateRenewalBackup, Sound, CallInv, Known
  <2>2. /\ backup' = [backup EXCEPT ![call[p].prev] = call[p].cand] /\ Goto(p, "key")
        /\ UNCHANGED <<liveCert, liveKey, staged, planned, runtime, receipts, errors, deaths>>
    BY <1>2 DEF CreateRenewalBackup, counts
  <2>3. \A s \in Serial : backup[s] # NoSerial => backup'[s] = backup[s]
    BY <1>2, <2>1, <2>2 DEF RenewalInv, TypeOK
  <2>4. PICK q \in Call : /\ call' = [call EXCEPT ![p] = q]
                          /\ q.pc = "key" /\ q.job = call[p].job
                          /\ q.prev = call[p].prev /\ q.cand = call[p].cand
                          /\ q.seen = call[p].seen /\ q.to = call[p].to
                          /\ q.backCert = call[p].backCert /\ q.backKey = call[p].backKey
    BY <2>2, GotoFacts DEF PC
  <2>5. \A r \in Process : call'[r] = IF r = p THEN q ELSE call[r]
    BY <2>4, CallFacts
  <2>6. backup' \in [Serial -> Some] /\ backup'[call[p].prev] = call[p].cand
    BY <2>1, <2>2 DEF RenewalInv, TypeOK, Some
  <2>7. TypeOK'
    BY <2>2, <2>4, <2>6 DEF RenewalInv, TypeOK
  <2>8. RollbackKept'
    BY <2>2, <2>3, RenewalAssumption DEF RenewalInv, RollbackKept, TypeOK, Receipt
  <2>9. backup'[Initial] # NoSerial
    <3>1. CASE backup[Initial] = NoSerial
      BY <2>1, <2>6, <3>1, CallFacts, RenewalAssumption DEF Sound, Early
    <3>2. CASE backup[Initial] # NoSerial
      BY <2>3, <3>2, RenewalAssumption
    <3> QED
      BY <3>1, <3>2
  <2>10. CallInv(q)'
    BY <2>1, <2>2, <2>4, <2>6, CallFacts DEF Sound, CallInv, Known, Replacing, Restoring
  <2>11. ASSUME NEW r \in Process PROVE CallInv(call[r])'
    <3>1. CASE r = p
      BY <2>5, <2>10, <3>1
    <3>2. CASE r # p
      <4>1. call'[r] = call[r] /\ CallInv(call[r])
        BY <2>5, <3>2 DEF RenewalInv
      <4>2. call[r].job = "publish" /\ call[r].pc \in Replacing =>
              /\ call[r].prev \in Serial /\ call[r].cand # NoSerial
              /\ backup[call[r].prev] = call[r].cand
        BY <4>1, RenewalAssumption DEF CallInv, Known
      <4> QED
        BY <2>2, <2>3, <4>1, <4>2 DEF CallInv, Known
    <3> QED
      BY <3>1, <3>2
  <2>12. FirstBackupFirst'
    BY <2>9 DEF FirstBackupFirst
  <2>13. /\ (\A s \in Serial : staged[s] # NoSerial => Known(staged[s]))'
         /\ (planned \subseteq {s \in Serial : staged[s] # NoSerial})'
         /\ (Known(liveCert) /\ Known(liveKey) /\ Known(runtime))'
         /\ (\A r \in receipts : Known(r.prev) /\ Known(r.cand))'
    BY <2>2 DEF RenewalInv, Known
  <2> QED
    BY <2>7, <2>8, <2>11, <2>12, <2>13 DEF RenewalInv
<1> QED
  BY <1>1, <1>2

LEMMA VerifyKeyInv == ASSUME RenewalInv, NEW p \in Process, VerifyKey(p) PROVE RenewalInv'
<1>1. CASE Rollback(p) /\ UNCHANGED receipts
  <2>1. Frame /\ call[p].pc = "verifyKey"
    BY <1>1, StillFrame DEF VerifyKey
  <2> QED
    BY <1>1, <2>1, RollbackStep
<1>2. CASE receipts' = receipts \cup {[prev |-> call[p].prev, cand |-> call[p].cand]} /\ Return(p)
  <2>1. /\ call[p].pc = "verifyKey" /\ call[p].job = "publish"
        /\ Known(call[p].prev) /\ Known(call[p].cand)
        /\ call[p].prev \in Serial /\ call[p].cand \in Serial
        /\ backup[call[p].prev] = call[p].cand /\ backup[Initial] # NoSerial
    BY CallFacts, RenewalAssumption DEF VerifyKey, Sound, CallInv, Known, Early, Replacing
  <2>2. UNCHANGED <<liveCert, liveKey, staged, planned, backup, runtime, errors, deaths>>
    BY DEF VerifyKey, disk, counts
  <2>3. call' \in [Process -> Call] /\ \A r \in Process : call'[r] = IF r = p THEN NoCall ELSE call[r]
    BY <1>2, CallFacts, NoCallFacts DEF Return
  <2>4. TypeOK'
    BY <1>2, <2>1, <2>2, <2>3 DEF RenewalInv, TypeOK, Receipt
  <2>5. RollbackKept' /\ (\A r \in receipts : Known(r.prev) /\ Known(r.cand))'
    BY <1>2, <2>1, <2>2 DEF RenewalInv, RollbackKept, Known
  <2>6. CallInv(NoCall)'
    BY DEF NoCall, CallInv, Replacing, Restoring
  <2>7. ASSUME NEW r \in Process PROVE CallInv(call[r])'
    BY <1>2, <2>2, <2>3, <2>6 DEF RenewalInv, CallInv, Known
  <2>8. FirstBackupFirst'
    BY <2>1, <2>2 DEF FirstBackupFirst
  <2> QED
    BY <2>2, <2>4, <2>5, <2>7, <2>8 DEF RenewalInv, Known
<1> QED
  BY <1>1, <1>2 DEF VerifyKey

-----------------------------------------------------------------------------
(* Faults.                                                                 *)

LEMMA FailsInv == ASSUME RenewalInv, NEW p \in Process, Fails(p) PROVE RenewalInv'
<1>1. Frame
  BY LiveFacts, RenewalAssumption DEF Fails, Frame, RenewalInv, TypeOK, disk
<1>2. CASE call[p].pc \in {"cert", "chmod", "uncert"}
  <2>1. PICK pc \in {"unkey", "uncert"} : Goto(p, pc)
    BY <1>2 DEF Fails
  <2>2. PICK q \in Call : /\ call' = [call EXCEPT ![p] = q]
                          /\ q.pc = pc /\ q.job = call[p].job
                          /\ q.prev = call[p].prev /\ q.cand = call[p].cand
                          /\ q.seen = call[p].seen /\ q.to = call[p].to
                          /\ q.backCert = call[p].backCert /\ q.backKey = call[p].backKey
    BY <2>1, GotoFacts DEF PC
  <2>3. CallInv(q)
    BY <1>2, <2>2, CallFacts DEF Sound, CallInv, Replacing, Restoring
  <2>4. backup[Initial] = NoSerial => Early(q)
    BY <1>2, <2>2, CallFacts DEF Sound, Early, Replacing
  <2> QED
    BY <1>1, <2>2, <2>3, <2>4, Step DEF Sound
<1>3. CASE call[p].pc \in {"verifyCert", "verifyKey"}
  <2>1. Rollback(p)
    BY <1>3 DEF Fails
  <2> QED
    BY <1>1, <1>3, <2>1, RollbackStep
<1>4. CASE call[p].pc \in {"reloadCert", "reloadKey"}
  <2>1. ReloadRejected(p)
    BY <1>4 DEF Fails
  <2> QED
    BY <1>1, <1>4, <2>1, ReloadRejectedStep
<1>5. CASE call[p].pc \notin {"cert", "chmod", "uncert", "verifyCert", "verifyKey",
                             "reloadCert", "reloadKey"}
  <2>1. Return(p)
    BY <1>5 DEF Fails
  <2> QED
    BY <1>1, <2>1, ReturnStep
<1> QED
  BY <1>2, <1>3, <1>4, <1>5

LEMMA DiesInv == ASSUME RenewalInv, NEW p \in Process, Dies(p) PROVE RenewalInv'
<1>1. Frame /\ Return(p)
  BY LiveFacts, RenewalAssumption DEF Dies, Frame, RenewalInv, TypeOK, disk
<1> QED
  BY <1>1, ReturnStep

LEMMA IssuanceFailsInv == ASSUME RenewalInv, NEW p \in Process, IssuanceFails(p) PROVE RenewalInv'
<1>1. Frame /\ Return(p)
  BY StillFrame DEF IssuanceFails
<1> QED
  BY <1>1, ReturnStep

-----------------------------------------------------------------------------
LEMMA NextInv == RenewalInv /\ [Next]_vars => RenewalInv'
<1> SUFFICES ASSUME RenewalInv, [Next]_vars PROVE RenewalInv'
  OBVIOUS
<1>1. CASE UNCHANGED vars
  BY <1>1 DEF vars, RenewalInv, TypeOK, Known, RollbackKept, FirstBackupFirst, Live, CallInv, Early
<1>2. ASSUME NEW p \in Process,
             \/ BuildRenewalRequest(p) \/ IssueValidateAndStageRenewal(p) \/ IssuanceFails(p)
             \/ \E s \in Serial : ExecuteRenewalPublication(p, s)
             \/ ReadLiveCert(p) \/ ReadLiveKey(p) \/ CreateRenewalBackup(p)
             \/ RenameKey(p) \/ RenameCert(p) \/ Chmod(p) \/ RestoreCert(p) \/ RestoreKey(p)
             \/ VerifyCert(p) \/ VerifyKey(p)
             \/ \E r \in receipts :
                   RestoreRenewalPublicationBackup(p, r) \/ ActivateRenewalPublication(p, r)
             \/ CheckCert(p) \/ CheckKey(p) \/ HoldCert(p) \/ HoldKey(p)
             \/ LoadCert(p) \/ LoadKey(p) \/ Reload(p) \/ ReloadCert(p) \/ ReloadKey(p)
             \/ Fails(p) \/ Dies(p)
      PROVE  RenewalInv'
  BY <1>2, BuildRenewalRequestInv, IssueInv, IssuanceFailsInv, ExecuteRenewalPublicationInv,
     ReadingStep, ReadLiveKeyInv, CreateRenewalBackupInv, RenameKeyInv, RenameCertInv, ChmodInv,
     RestoreCertInv, RestoreKeyInv, VerifyKeyInv, RestoreRenewalPublicationBackupInv,
     ActivateRenewalPublicationInv, CheckKeyInv, HoldCertInv, HoldKeyInv, LoadKeyInv, ReloadInv,
     ReloadKeyInv, FailsInv, DiesInv
<1> QED
  BY <1>1, <1>2, PrepareInv DEF Next

\* What publication, restore and activation rely on at each of their steps, for any
\* number of concurrent calls: whose the files, the backups and the held bytes are.
THEOREM RenewalAlwaysInv == Spec => []RenewalInv
BY InitInv, NextInv, PTL DEF Spec

\* Publication, restore and activation never destroy the only copy of the private
\* key of the live or the served certificate, however calls race, fail or die.
THEOREM KeyAlwaysRetained == Spec => []KeyRetained
<1>1. RenewalInv => KeyRetained
  BY RenewalAssumption DEF RenewalInv, KeyRetained, FirstBackupFirst, Live, Known
<1> QED
  BY <1>1, RenewalAlwaysInv, PTL

\* A publication receipt stays restorable: its backup is never another one's.
THEOREM RollbackAlwaysKept == Spec => []RollbackKept
<1>1. RenewalInv => RollbackKept
  BY DEF RenewalInv
<1> QED
  BY <1>1, RenewalAlwaysInv, PTL

-----------------------------------------------------------------------------
(* One call at a time: what a lone call read is still what the files are.  *)

\* The step of call p, which was under way or has begun.
Acts(p) ==
    /\ \A o \in Process \ {p} : call'[o] = call[o]
    /\ call[p].pc # "idle" \/ call'[p].pc # "idle"

\* What the three properties say of a step of p.
Ends(p) == PublishesOrRestores(p) /\ RevertsFailedActivation(p) /\ ActivatesCandidate(p)

LEMMA GotoLone ==
    ASSUME RenewalInv, NEW p \in Process, NEW pc, Goto(p, pc)
    PROVE  /\ \A o \in Process \ {p} : call'[o] = call[o]
           /\ call'[p].pc = pc /\ call'[p].job = call[p].job
           /\ call'[p].prev = call[p].prev /\ call'[p].cand = call[p].cand
           /\ call'[p].seen = call[p].seen /\ call'[p].to = call[p].to
           /\ call'[p].backCert = call[p].backCert /\ call'[p].backKey = call[p].backKey
BY CallFacts DEF Goto, Call

LEMMA ReadLone ==
    ASSUME RenewalInv, NEW p \in Process, NEW pc, ReadCert(p, pc)
    PROVE  /\ \A o \in Process \ {p} : call'[o] = call[o]
           /\ call'[p].pc = pc /\ call'[p].job = call[p].job
           /\ call'[p].prev = call[p].prev /\ call'[p].cand = call[p].cand
           /\ call'[p].seen = liveCert /\ call'[p].to = call[p].to
           /\ call'[p].backCert = call[p].backCert /\ call'[p].backKey = call[p].backKey
BY CallFacts DEF ReadCert, Call

LEMMA ReturnLone ==
    ASSUME RenewalInv, NEW p \in Process, Return(p), call[p].pc # "idle"
    PROVE  Acts(p) /\ LoneCall(call[p])' /\ call'[p] = NoCall
<1>1. call'[p] = NoCall /\ \A o \in Process \ {p} : call'[o] = call[o]
  BY CallFacts DEF Return
<1>2. NoCall.pc = "idle" /\ NoCall.job = "none"
  BY DEF NoCall
<1> QED
  BY <1>1, <1>2 DEF Acts, LoneCall, Replacing, Writing

\* A call that has not returned has broken no promise.
LEMMA GoesOn ==
    ASSUME NEW p \in Process, call'[p].pc # "idle"
    PROVE  Ends(p)
BY DEF Ends, PublishesOrRestores, RevertsFailedActivation, ActivatesCandidate, NoCall

LEMMA ErrorsNat == RenewalInv => errors \in Nat /\ deaths \in Nat
BY RenewalAssumption DEF RenewalInv, TypeOK

LEMMA LoneReading ==
    ASSUME RenewalInv, NEW p \in Process, LoneCall(call[p]),
           \/ ReadLiveCert(p) \/ VerifyCert(p) \/ CheckCert(p) \/ LoadCert(p) \/ ReloadCert(p)
    PROVE  Acts(p) /\ LoneCall(call[p])' /\ Ends(p)
<1>1. UNCHANGED <<liveCert, liveKey, errors>>
  BY DEF ReadLiveCert, VerifyCert, CheckCert, LoadCert, ReloadCert, disk, counts
<1>2. PICK pc \in {"readKey", "verifyKey", "checkKey", "loadKey", "reloadKey"} :
         /\ ReadCert(p, pc)
         /\ call[p].pc = CASE pc = "readKey" -> "readCert" [] pc = "verifyKey" -> "verifyCert"
                           [] pc = "checkKey" -> "checkCert" [] pc = "loadKey" -> "loadCert"
                           [] OTHER -> "reloadCert"
  BY DEF ReadLiveCert, VerifyCert, CheckCert, LoadCert, ReloadCert
<1>3. LoneCall(call[p])'
  BY <1>1, <1>2, ReadLone DEF LoneCall, Live, Replacing, Restoring, Writing
<1> QED
  BY <1>2, <1>3, ReadLone, GoesOn DEF Acts

\* A call that only goes to another point, or returns: ReadLiveKey, CheckKey, LoadKey.
LEMMA LoneReadLiveKey ==
    ASSUME RenewalInv, NEW p \in Process, LoneCall(call[p]), ReadLiveKey(p)
    PROVE  Acts(p) /\ LoneCall(call[p])' /\ Ends(p)
<1>1. call[p].pc = "readKey" /\ call[p].job = "publish" /\ UNCHANGED <<liveCert, liveKey, errors>>
  BY CallFacts DEF ReadLiveKey, disk, counts, Sound, CallInv
<1>2. CASE PairIs(p, call[p].prev)
  <2>1. Goto(p, "backup")
    BY <1>2 DEF ReadLiveKey
  <2>2. LoneCall(call[p])'
    BY <1>1, <1>2, <2>1, GotoLone DEF LoneCall, Live, PairIs, Replacing, Writing
  <2> QED
    BY <1>1, <2>1, <2>2, GotoLone, GoesOn DEF Acts
<1>3. CASE ~PairIs(p, call[p].prev)
  <2>1. Return(p)
    BY <1>3 DEF ReadLiveKey
  <2>2. Ends(p)
    BY <1>1 DEF Ends, PublishesOrRestores, RevertsFailedActivation, ActivatesCandidate, Replacing
  <2> QED
    BY <1>1, <2>1, <2>2, ReturnLone
<1> QED
  BY <1>2, <1>3

LEMMA LoneCheckKey ==
    ASSUME RenewalInv, NEW p \in Process, LoneCall(call[p]), CheckKey(p)
    PROVE  Acts(p) /\ LoneCall(call[p])' /\ Ends(p)
<1>1. /\ call[p].pc = "checkKey" /\ call[p].job \in {"restore", "revert"}
      /\ UNCHANGED <<liveCert, liveKey, errors>>
  BY CallFacts DEF CheckKey, disk, counts, Sound, CallInv, Restoring
<1>2. CASE PairIs(p, call[p].cand) /\ backup[call[p].prev] = call[p].cand
  <2>1. Goto(p, "holdCert")
    BY <1>2 DEF CheckKey
  <2>2. LoneCall(call[p])'
    BY <1>1, <2>1, GotoLone DEF LoneCall, Live, Replacing, Restoring, Writing
  <2> QED
    BY <1>1, <2>1, <2>2, GotoLone, GoesOn DEF Acts
<1>3. CASE ~(PairIs(p, call[p].cand) /\ backup[call[p].prev] = call[p].cand)
  <2>1. Return(p)
    BY <1>3 DEF CheckKey
  <2>2. call[p].job = "revert" => backup[call[p].prev] = call[p].cand
    BY CallFacts DEF RenewalInv, RollbackKept, Sound, CallInv
  <2>3. call[p].job # "revert"
    BY <1>1, <1>3, <2>2 DEF LoneCall, Live, PairIs, Restoring
  <2>4. Ends(p)
    BY <1>1, <2>3 DEF Ends, PublishesOrRestores, RevertsFailedActivation, ActivatesCandidate
  <2> QED
    BY <1>1, <2>1, <2>4, ReturnLone
<1> QED
  BY <1>2, <1>3

LEMMA LoneLoadKey ==
    ASSUME RenewalInv, NEW p \in Process, LoneCall(call[p]), LoadKey(p)
    PROVE  Acts(p) /\ LoneCall(call[p])' /\ Ends(p)
<1>1. call[p].pc = "loadKey" /\ UNCHANGED <<liveCert, liveKey, errors>>
  BY DEF LoadKey, disk, counts
<1>2. call[p].job \notin {"publish", "revert"}
  BY <1>1 DEF LoneCall, Restoring, Replacing, Writing
<1>3. CASE PairIs(p, call[p].cand)
  <2>1. Goto(p, "reloadCert")
    BY <1>3 DEF LoadKey
  <2>2. LoneCall(call[p])'
    BY <1>1, <1>2, <1>3, <2>1, GotoLone DEF LoneCall, Live, PairIs
  <2> QED
    BY <1>1, <2>1, <2>2, GotoLone, GoesOn DEF Acts
<1>4. CASE ~PairIs(p, call[p].cand)
  <2>1. Return(p)
    BY <1>4 DEF LoadKey
  <2>2. Ends(p)
    BY <1>1, <1>2 DEF Ends, PublishesOrRestores, RevertsFailedActivation, ActivatesCandidate
  <2> QED
    BY <1>1, <2>1, <2>2, ReturnLone
<1> QED
  BY <1>3, <1>4

LEMMA LoneCreateRenewalBackup ==
    ASSUME RenewalInv, NEW p \in Process, LoneCall(call[p]), CreateRenewalBackup(p)
    PROVE  Acts(p) /\ LoneCall(call[p])' /\ Ends(p)
<1>1. call[p].pc = "backup" /\ call[p].job = "publish" /\ UNCHANGED <<liveCert, liveKey, errors>>
  BY CallFacts DEF CreateRenewalBackup, counts, Sound, CallInv
<1>2. CASE Goto(p, "key")
  <2>1. LoneCall(call[p])'
    BY <1>1, <1>2, GotoLone, ErrorsNat DEF LoneCall, Live, Replaces, Replacing, Writing
  <2> QED
    BY <1>1, <1>2, <2>1, GotoLone, GoesOn DEF Acts
<1>3. CASE Return(p)
  <2>1. Ends(p)
    BY <1>1 DEF Ends, PublishesOrRestores, RevertsFailedActivation, ActivatesCandidate, Replacing
  <2> QED
    BY <1>1, <1>3, <2>1, ReturnLone
<1> QED
  BY <1>2, <1>3 DEF CreateRenewalBackup

-----------------------------------------------------------------------------
(* The replacement by a lone call.                                         *)

LEMMA LoneRename ==
    ASSUME RenewalInv, NEW p \in Process, LoneCall(call[p]), RenameKey(p) \/ RenameCert(p)
    PROVE  Acts(p) /\ LoneCall(call[p])' /\ Ends(p)
<1>1. call[p].job \in {"publish", "restore", "revert"} /\ errors' = errors
  BY CallFacts DEF RenameKey, RenameCert, counts, Sound, CallInv, Replacing
<1>2. CASE RenameKey(p)
  <2>1. LoneCall(call[p])'
    BY <1>1, <1>2, GotoLone, ErrorsNat DEF RenameKey, LoneCall, Live, Replaces, Replacing, Restoring, Writing
  <2> QED
    BY <1>2, <2>1, GotoLone, GoesOn DEF RenameKey, Acts
<1>3. CASE RenameCert(p)
  <2>1. LoneCall(call[p])'
    BY <1>1, <1>3, GotoLone, ErrorsNat DEF RenameCert, LoneCall, Live, Replaces, Replacing, Restoring, Writing
  <2> QED
    BY <1>3, <2>1, GotoLone, GoesOn DEF RenameCert, Acts
<1> QED
  BY <1>2, <1>3

LEMMA LoneChmod ==
    ASSUME RenewalInv, NEW p \in Process, LoneCall(call[p]), Chmod(p)
    PROVE  Acts(p) /\ LoneCall(call[p])' /\ Ends(p)
<1>1. /\ call[p].pc = "chmod" /\ call[p].job \in {"publish", "restore", "revert"}
      /\ UNCHANGED <<liveCert, liveKey, runtime, errors>>
  BY CallFacts DEF Chmod, disk, counts, Sound, CallInv, Replacing
<1>2. CASE call[p].job = "publish" /\ call[p].to = call[p].cand
  <2>1. Goto(p, "verifyCert")
    BY <1>2 DEF Chmod
  <2>2. LoneCall(call[p])'
    BY <1>1, <1>2, <2>1, GotoLone DEF LoneCall, Live, Replaces, Replacing, Writing
  <2> QED
    BY <1>1, <2>1, <2>2, GotoLone, GoesOn DEF Acts
<1>3. CASE ~(call[p].job = "publish" /\ call[p].to = call[p].cand)
  <2>1. Return(p)
    BY <1>3 DEF Chmod
  <2>2. call[p].job \in {"publish", "revert"} => Live(call[p].prev)
    BY <1>1, <1>3 DEF LoneCall, Replaces, Replacing, Restoring, Writing
  <2>3. Ends(p)
    BY <1>1, <2>2 DEF Ends, PublishesOrRestores, RevertsFailedActivation, ActivatesCandidate, BecomesLive, Live
  <2> QED
    BY <1>1, <2>1, <2>3, ReturnLone
<1> QED
  BY <1>2, <1>3

LEMMA LoneRestoreCert ==
    ASSUME RenewalInv, NEW p \in Process, LoneCall(call[p]), RestoreCert(p)
    PROVE  Acts(p) /\ LoneCall(call[p])' /\ Ends(p)
<1>1. call[p].job \in {"publish", "restore", "revert"} /\ errors' = errors
  BY CallFacts DEF RestoreCert, counts, Sound, CallInv, Replacing
<1>2. LoneCall(call[p])'
  BY <1>1, GotoLone, ErrorsNat DEF RestoreCert, LoneCall, Live, Replaces, Replacing, Restoring, Writing
<1> QED
  BY <1>2, GotoLone, GoesOn DEF RestoreCert, Acts

LEMMA LoneRestoreKey ==
    ASSUME RenewalInv, NEW p \in Process, LoneCall(call[p]), RestoreKey(p)
    PROVE  Acts(p) /\ LoneCall(call[p])' /\ Ends(p)
<1>1. /\ call[p].pc = "unkey" /\ call[p].job \in {"publish", "restore", "revert"}
      /\ Return(p) /\ errors' = errors /\ liveCert' = liveCert /\ liveKey' = call[p].backKey
  BY CallFacts DEF RestoreKey, counts, Sound, CallInv, Replacing
<1>2. call[p].job = "revert" => errors > 1
  BY <1>1, ErrorsNat DEF LoneCall, Replaces, Replacing, Restoring, Writing
<1>3. call[p].job = "publish" => errors > 1 \/ (liveCert = call[p].prev /\ call[p].backKey = call[p].prev)
  BY <1>1, ErrorsNat DEF LoneCall, Replaces, Replacing, Restoring, Writing
<1>4. Ends(p)
  BY <1>1, <1>2, <1>3, ErrorsNat DEF Ends, PublishesOrRestores, RevertsFailedActivation, ActivatesCandidate, BecomesLive
<1> QED
  BY <1>1, <1>4, ReturnLone

LEMMA LoneRollback ==
    ASSUME RenewalInv, NEW p \in Process, LoneCall(call[p]), Rollback(p),
           call[p].pc \in {"verifyCert", "verifyKey"}, UNCHANGED <<liveCert, liveKey>>,
           errors' \in Nat, errors' > 0
    PROVE  Acts(p) /\ LoneCall(call[p])' /\ Ends(p)
<1>1. call[p].job = "publish"
  BY CallFacts DEF Sound, CallInv
<1>2. /\ \A o \in Process \ {p} : call'[o] = call[o]
      /\ call'[p].pc = "key" /\ call'[p].job = "publish" /\ call'[p].to = call[p].prev
      /\ call'[p].prev = call[p].prev /\ call'[p].cand = call[p].cand
      /\ call'[p].backCert = call[p].cand /\ call'[p].backKey = call[p].cand
  BY <1>1, CallFacts DEF Rollback, Call
<1>3. LoneCall(call[p])'
  BY <1>1, <1>2 DEF LoneCall, Live, Replaces, Replacing, Writing
<1> QED
  BY <1>2, <1>3, GoesOn DEF Acts

LEMMA LoneVerifyKey ==
    ASSUME RenewalInv, NEW p \in Process, LoneCall(call[p]), VerifyKey(p)
    PROVE  Acts(p) /\ LoneCall(call[p])' /\ Ends(p)
<1>1. /\ call[p].pc = "verifyKey" /\ call[p].job = "publish"
      /\ UNCHANGED <<liveCert, liveKey, errors>>
  BY CallFacts DEF VerifyKey, disk, counts, Sound, CallInv
<1>2. Live(call[p].cand) /\ PairIs(p, call[p].cand)
  BY <1>1 DEF LoneCall, Live, PairIs
<1>3. Return(p) /\ [prev |-> call[p].prev, cand |-> call[p].cand] \in receipts'
  BY <1>2 DEF VerifyKey
<1>4. Ends(p)
  BY <1>1, <1>2, <1>3 DEF Ends, PublishesOrRestores, RevertsFailedActivation, ActivatesCandidate, BecomesLive, Live
<1> QED
  BY <1>1, <1>3, <1>4, ReturnLone

LEMMA LoneHold ==
    ASSUME RenewalInv, NEW p \in Process, LoneCall(call[p]), HoldCert(p) \/ HoldKey(p)
    PROVE  Acts(p) /\ LoneCall(call[p])' /\ Ends(p)
<1>1. /\ call[p].job \in {"restore", "revert"} /\ UNCHANGED <<liveCert, liveKey, errors>>
      /\ \A o \in Process \ {p} : call'[o] = call[o]
      /\ call'[p].job = call[p].job /\ call'[p].to = call[p].to
      /\ call'[p].prev = call[p].prev /\ call'[p].cand = call[p].cand
  BY CallFacts DEF HoldCert, HoldKey, disk, counts, Sound, CallInv, Restoring, Call
<1>2. CASE HoldCert(p)
  <2>1. call[p].pc = "holdCert" /\ call'[p].pc = "holdKey" /\ call'[p].backCert = liveCert
    BY <1>2, CallFacts DEF HoldCert, Call
  <2>2. LoneCall(call[p])'
    BY <1>1, <2>1 DEF LoneCall, Live, Replacing, Restoring, Writing
  <2> QED
    BY <1>1, <2>1, <2>2, GoesOn DEF Acts
<1>3. CASE HoldKey(p)
  <2>1. /\ call[p].pc = "holdKey" /\ call'[p].pc = "key" /\ call'[p].backKey = liveKey
        /\ call'[p].backCert = call[p].backCert
    BY <1>3, CallFacts DEF HoldKey, Call
  <2>2. LoneCall(call[p])'
    BY <1>1, <2>1, ErrorsNat DEF LoneCall, Live, Replaces, Replacing, Restoring, Writing
  <2> QED
    BY <1>1, <2>1, <2>2, GoesOn DEF Acts
<1> QED
  BY <1>2, <1>3

-----------------------------------------------------------------------------
(* The reload by a lone call.                                              *)

LEMMA LoneReloadKey ==
    ASSUME RenewalInv, NEW p \in Process, LoneCall(call[p]), ReloadKey(p)
    PROVE  Acts(p) /\ LoneCall(call[p])' /\ Ends(p)
<1>1. call[p].pc = "reloadKey" /\ UNCHANGED <<liveCert, liveKey, errors>>
  BY DEF ReloadKey, disk, counts
<1>2. call[p].job \notin {"publish", "revert"}
  BY <1>1 DEF LoneCall, Replacing, Restoring, Writing
<1>3. call[p].job = "activate" => Live(call[p].cand) /\ call[p].seen = call[p].cand /\ PairIs(p, call[p].seen)
  BY <1>1 DEF LoneCall, Live, PairIs
<1>4. Return(p)
  BY <1>3 DEF ReloadKey, ReloadRejected
<1>5. Ends(p)
  BY <1>1, <1>2, <1>3 DEF Ends, PublishesOrRestores, RevertsFailedActivation, ActivatesCandidate,
     BecomesLive, Live, ReloadKey
<1> QED
  BY <1>1, <1>4, <1>5, ReturnLone

LEMMA LoneRejected ==
    ASSUME RenewalInv, NEW p \in Process, LoneCall(call[p]), ReloadRejected(p),
           call[p].pc \in {"reloadCert", "reloadKey"}, UNCHANGED <<liveCert, liveKey>>,
           errors' \in Nat, errors' > 0
    PROVE  Acts(p) /\ LoneCall(call[p])' /\ Ends(p)
<1>1. call[p].job \notin {"publish", "revert"}
  BY DEF LoneCall, Replacing, Restoring, Writing
<1>2. CASE call[p].job = "activate"
  <2>1. /\ \A o \in Process \ {p} : call'[o] = call[o]
        /\ call'[p].pc = "checkCert" /\ call'[p].job = "revert" /\ call'[p].to = call[p].to
        /\ call'[p].prev = call[p].prev /\ call'[p].cand = call[p].cand
    BY <1>2, CallFacts DEF ReloadRejected, Call
  <2>2. LoneCall(call[p])'
    BY <1>2, <2>1 DEF LoneCall, Live, Replacing, Restoring, Writing
  <2> QED
    BY <2>1, <2>2, GoesOn DEF Acts
<1>3. CASE call[p].job # "activate"
  <2>1. Return(p)
    BY <1>3 DEF ReloadRejected
  <2>2. Ends(p)
    BY <1>1, <1>3 DEF Ends, PublishesOrRestores, RevertsFailedActivation, ActivatesCandidate
  <2> QED
    BY <2>1, <2>2, ReturnLone
<1> QED
  BY <1>2, <1>3

-----------------------------------------------------------------------------
(* The beginnings of a call, failures and deaths.                          *)

LEMMA LoneBegins ==
    ASSUME RenewalInv, NEW p \in Process, LoneCall(call[p]),
           \/ BuildRenewalRequest(p) \/ Reload(p)
           \/ \E s \in Serial : ExecuteRenewalPublication(p, s)
           \/ \E r \in receipts :
                 RestoreRenewalPublicationBackup(p, r) \/ ActivateRenewalPublication(p, r)
    PROVE  Acts(p) /\ LoneCall(call[p])' /\ Ends(p)
<1>1. \A o \in Process \ {p} : call'[o] = call[o]
  BY CallFacts DEF BuildRenewalRequest, Reload, ExecuteRenewalPublication,
     RestoreRenewalPublicationBackup, ActivateRenewalPublication
<1>2. CASE BuildRenewalRequest(p) \/ Reload(p) \/ \E r \in receipts : RestoreRenewalPublicationBackup(p, r)
  <2>1. /\ call'[p].pc \in {"stage", "reloadCert", "checkCert"}
        /\ call'[p].job \in {"renew", "reload", "restore"}
    <3>1. CASE BuildRenewalRequest(p)
      <4>1. call'[p] = [call[p] EXCEPT !.job = "renew", !.pc = "stage", !.prev = liveCert]
        BY <3>1, CallFacts DEF BuildRenewalRequest
      <4> QED
        BY <4>1, CallFacts DEF Call
    <3>2. CASE Reload(p)
      <4>1. call'[p] = [call[p] EXCEPT !.job = "reload", !.pc = "reloadCert"]
        BY <3>2, CallFacts DEF Reload
      <4> QED
        BY <4>1, CallFacts DEF Call
    <3>3. ASSUME NEW r \in receipts, RestoreRenewalPublicationBackup(p, r)
          PROVE  call'[p].pc = "checkCert" /\ call'[p].job = "restore"
      <4>1. call'[p] = [call[p] EXCEPT !.job = "restore", !.pc = "checkCert",
                                       !.prev = r.prev, !.cand = r.cand, !.to = r.prev]
        BY <3>3, CallFacts DEF RestoreRenewalPublicationBackup
      <4> QED
        BY <4>1, CallFacts DEF Call
    <3> QED
      BY <1>2, <3>1, <3>2, <3>3
  <2> QED
    BY <1>1, <2>1, GoesOn DEF Acts, LoneCall
<1>3. ASSUME NEW s \in Serial, ExecuteRenewalPublication(p, s)
      PROVE  Acts(p) /\ LoneCall(call[p])' /\ Ends(p)
  <2>1. /\ call'[p].pc = "readCert" /\ call'[p].job = "publish" /\ call'[p].to = call'[p].cand
        /\ call'[p].backCert = call'[p].prev /\ call'[p].backKey = call'[p].prev
    <3>1. call'[p] = [call[p] EXCEPT !.job = "publish", !.pc = "readCert",
                                     !.prev = staged[s], !.cand = s, !.to = s,
                                     !.backCert = staged[s], !.backKey = staged[s]]
      BY <1>3, CallFacts DEF ExecuteRenewalPublication
    <3> QED
      BY <3>1, CallFacts DEF Call
  <2>2. LoneCall(call[p])'
    BY <2>1 DEF LoneCall, Replacing, Writing
  <2> QED
    BY <1>1, <2>1, <2>2, GoesOn DEF Acts
<1>4. ASSUME NEW r \in receipts, ActivateRenewalPublication(p, r)
      PROVE  Acts(p) /\ LoneCall(call[p])' /\ Ends(p)
  <2>1. call'[p].pc = "loadCert" /\ call'[p].job = "activate" /\ call'[p].to = call'[p].prev
    <3>1. call'[p] = [call[p] EXCEPT !.job = "activate", !.pc = "loadCert",
                                     !.prev = r.prev, !.cand = r.cand, !.to = r.prev]
      BY <1>4, CallFacts DEF ActivateRenewalPublication
    <3> QED
      BY <3>1, CallFacts DEF Call
  <2>2. LoneCall(call[p])'
    BY <2>1 DEF LoneCall
  <2> QED
    BY <1>1, <2>1, <2>2, GoesOn DEF Acts
<1> QED
  BY <1>2, <1>3, <1>4

LEMMA LoneStages ==
    ASSUME RenewalInv, NEW p \in Process, LoneCall(call[p]),
           IssueValidateAndStageRenewal(p) \/ IssuanceFails(p) \/ Dies(p)
    PROVE  Acts(p) /\ LoneCall(call[p])' /\ Ends(p)
<1>1. Return(p) /\ call[p].pc # "idle"
  BY DEF IssueValidateAndStageRenewal, IssuanceFails, Dies
<1>2. CASE Dies(p)
  <2>1. deaths' # deaths
    BY <1>2, ErrorsNat DEF Dies
  <2> QED
    BY <1>1, <2>1, ReturnLone DEF Ends, PublishesOrRestores, RevertsFailedActivation, ActivatesCandidate
<1>3. CASE call[p].pc = "stage"
  <2>1. call[p].job # "revert"
    BY <1>3 DEF LoneCall, Restoring, Replacing, Writing
  <2> QED
    BY <1>1, <1>3, <2>1, ReturnLone DEF Ends, PublishesOrRestores, RevertsFailedActivation,
       ActivatesCandidate, Replacing
<1> QED
  BY <1>2, <1>3 DEF IssueValidateAndStageRenewal, IssuanceFails

LEMMA LoneFails ==
    ASSUME RenewalInv, NEW p \in Process, LoneCall(call[p]), Fails(p)
    PROVE  Acts(p) /\ LoneCall(call[p])' /\ Ends(p)
<1>1. /\ call[p].pc # "idle" /\ errors' = errors + 1 /\ UNCHANGED <<liveCert, liveKey, runtime>>
      /\ errors' \in Nat /\ errors' > 0
  BY ErrorsNat DEF Fails, disk
<1>2. CASE call[p].pc \in {"cert", "chmod", "uncert"}
  <2>1. PICK pc \in {"unkey", "uncert"} : Goto(p, pc) /\ (pc = "uncert" <=> call[p].pc = "chmod")
    BY <1>2 DEF Fails
  <2>2. call[p].job \in {"publish", "restore", "revert"}
    BY <1>2, CallFacts DEF Sound, CallInv, Replacing
  <2>3. LoneCall(call[p])'
    BY <1>1, <1>2, <2>1, <2>2, GotoLone, ErrorsNat
       DEF LoneCall, Live, Replaces, Replacing, Restoring, Writing
  <2> QED
    BY <1>1, <2>1, <2>3, GotoLone, GoesOn DEF Acts
<1>3. CASE call[p].pc \in {"verifyCert", "verifyKey"}
  <2>1. Rollback(p)
    BY <1>3 DEF Fails
  <2> QED
    BY <1>1, <1>3, <2>1, LoneRollback
<1>4. CASE call[p].pc \in {"reloadCert", "reloadKey"}
  <2>1. ReloadRejected(p)
    BY <1>4 DEF Fails
  <2> QED
    BY <1>1, <1>4, <2>1, LoneRejected
<1>5. CASE call[p].pc \notin {"cert", "chmod", "uncert", "verifyCert", "verifyKey",
                             "reloadCert", "reloadKey"}
  <2>1. Return(p)
    BY <1>5 DEF Fails
  <2>2. PublishesOrRestores(p)
    BY <1>1, <1>5, ErrorsNat DEF PublishesOrRestores, BecomesLive, LoneCall, Live, Replaces, Replacing, Writing
  <2>3. RevertsFailedActivation(p) /\ ActivatesCandidate(p)
    BY <1>1, <1>5, ErrorsNat DEF RevertsFailedActivation, ActivatesCandidate, LoneCall
  <2> QED
    BY <1>1, <2>1, <2>2, <2>3, ReturnLone DEF Ends
<1> QED
  BY <1>2, <1>3, <1>4, <1>5

-----------------------------------------------------------------------------
\* Nobody else is under way while a lone call acts.
LEMMA LoneStep ==
    ASSUME RenewalInv, RenewalInv', LoneInv, alone, \A a, o \in Busy' : a = o,
           NEW p \in Process, Acts(p), LoneCall(call[p])', Ends(p)
    PROVE  LoneInv' /\ \A o \in Process : Ends(o)
<1>1. \A o \in Process : call[o].pc # "idle" => call[o] # NoCall
  BY DEF NoCall
<1>2. \A o \in Process : call'[o].pc # "idle" => call'[o] # NoCall
  BY DEF NoCall
<1>3. p \in Busy \/ p \in Busy'
  BY <1>1, <1>2 DEF Acts, Busy
<1>4. \A o \in Process \ {p} : call[o] = NoCall /\ call'[o] = NoCall
  BY <1>3 DEF Acts, Busy, LoneInv
<1>5. NoCall.pc = "idle" /\ NoCall.job = "none"
  BY DEF NoCall
<1>6. \A o \in Process \ {p} : LoneCall(call[o])'
  BY <1>4, <1>5 DEF LoneCall
<1>7. \A o \in Process \ {p} : Ends(o)
  BY <1>4, <1>5 DEF Ends, PublishesOrRestores, RevertsFailedActivation, ActivatesCandidate
<1> QED
  BY <1>6, <1>7 DEF LoneInv

LEMMA LoneNext ==
    ASSUME RenewalInv, LoneInv, [ModesNext]_<<vars, alone>>
    PROVE  /\ RenewalInv' /\ LoneInv'
           /\ ModesNext /\ alone => \A p \in Process : Ends(p)
<1>1. RenewalInv'
  BY NextInv DEF ModesNext, vars
<1>2. CASE UNCHANGED <<vars, alone>> /\ ~ModesNext
  BY <1>1, <1>2 DEF vars, LoneInv, Busy, LoneCall, Live, Replaces
<1>3. CASE ModesNext /\ ~alone
  BY <1>1, <1>3 DEF ModesNext, LoneInv
<1>4. CASE ModesNext /\ alone
  <2>1. Next /\ alone' /\ \A a, o \in Busy' : a = o
    BY <1>4 DEF ModesNext
  <2>2. \A p \in Process : LoneCall(call[p])
    BY <1>4 DEF LoneInv
  <2>3. CASE \E s \in Serial : PrepareRenewalPublication(s)
    <3>1. UNCHANGED <<call, liveCert, liveKey, errors>>
      BY <2>3 DEF PrepareRenewalPublication, counts
    <3>2. LoneInv'
      <4>1. \A p \in Process : LoneCall(call[p])'
        BY <2>2, <3>1 DEF LoneCall, Live, Replaces
      <4> QED
        BY <2>1, <4>1 DEF LoneInv
    <3>3. NoCall.pc = "idle" /\ NoCall.job = "none"
      BY DEF NoCall
    <3>4. \A p \in Process : Ends(p)
      BY <3>1, <3>3 DEF Ends, PublishesOrRestores, RevertsFailedActivation, ActivatesCandidate
    <3> QED
      BY <1>1, <3>2, <3>4
  <2>4. CASE ~\E s \in Serial : PrepareRenewalPublication(s)
    <3>1. PICK p \in Process : Acts(p) /\ LoneCall(call[p])' /\ Ends(p)
      BY <2>1, <2>2, <2>4, LoneReading, LoneReadLiveKey, LoneCheckKey, LoneLoadKey,
         LoneCreateRenewalBackup, LoneRename, LoneChmod, LoneRestoreCert, LoneRestoreKey,
         LoneVerifyKey, LoneHold, LoneReloadKey, LoneBegins, LoneStages, LoneFails DEF Next
    <3> QED
      BY <1>1, <1>4, <2>1, <3>1, LoneStep
  <2> QED
    BY <2>3, <2>4
<1> QED
  BY <1>2, <1>3, <1>4

\* The invariant of calls one at a time: the files are what the lone call last read or
\* wrote, and it has met the failures its point implies.
THEOREM LoneAlwaysInv == ModesSpec => [](RenewalInv /\ LoneInv)
<1>1. ModesInit => RenewalInv /\ LoneInv
  <2>1. NoCall.pc = "idle" /\ NoCall.job = "none"
    BY DEF NoCall
  <2> QED
    BY <2>1, InitInv DEF ModesInit, Init, LoneInv, Busy, LoneCall
<1>2. RenewalInv /\ LoneInv /\ [ModesNext]_<<vars, alone>> => (RenewalInv /\ LoneInv)'
  BY LoneNext
<1> QED
  BY <1>1, <1>2, PTL DEF ModesSpec

\* "restores the previous pair if any replacement or post-write verification step
\* fails": for any serials and processes, a lone publication that began to replace the
\* pair and met at most one failure ends with the candidate live and a receipt, or with
\* the previous pair live.
THEOREM AlwaysPublishedOrRestored == ModesSpec => PublishedOrRestored
<1>1. RenewalInv /\ LoneInv /\ [ModesNext]_<<vars, alone>>
        => [alone => \A p \in Process : PublishesOrRestores(p)]_<<vars, alone>>
  BY LoneNext DEF Ends
<1> QED
  BY <1>1, LoneAlwaysInv, PTL DEF ModesSpec, PublishedOrRestored

\* A lone activation whose reload is rejected restores the pair the publication
\* replaced and keeps the runtime, unless a second operation fails.
THEOREM FailedActivationAlwaysReverts == ModesSpec => FailedActivationReverts
<1>1. RenewalInv /\ LoneInv /\ [ModesNext]_<<vars, alone>>
        => [alone => \A p \in Process : RevertsFailedActivation(p)]_<<vars, alone>>
  BY LoneNext DEF Ends
<1> QED
  BY <1>1, LoneAlwaysInv, PTL DEF ModesSpec, FailedActivationReverts

\* A lone activation that succeeds leaves the listener serving the candidate, though
\* the pair it checked and the pair it loads are read one after the other.
THEOREM ActivationAlwaysServesCandidate == ModesSpec => ActivationServesCandidate
<1>1. RenewalInv /\ LoneInv /\ [ModesNext]_<<vars, alone>>
        => [alone => \A p \in Process : ActivatesCandidate(p)]_<<vars, alone>>
  BY LoneNext DEF Ends
<1> QED
  BY <1>1, LoneAlwaysInv, PTL DEF ModesSpec, ActivationServesCandidate

=============================================================================
