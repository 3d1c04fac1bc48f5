------------------------ MODULE ConfigLifecycleProofs -----------------------
(* Proofs about ConfigLifecycle for any processes, contents and directories. *)
EXTENDS ConfigLifecycle, TLAPS

LEMMA FreeFacts ==
    /\ Free \in Revision
    /\ Free.kind = "free" /\ Free.config = NoConfig /\ Free.digest = NoConfig
BY DEF Free, Revision, Content

LEMMA NoCallFacts == NoCall \in Call /\ Holds(NoCall) /\ ~Building(NoCall)
BY DEF NoCall, Call, Holds, Building, Job, PC, Content

LEMMA InitInv == Init => LifecycleInv
<1> SUFFICES ASSUME Init PROVE LifecycleInv
  OBVIOUS
<1>1. TypeOK
  BY FreeFacts, NoCallFacts, LifecycleAssumption DEF Init, TypeOK
<1>2. RevisionsWhole
  BY FreeFacts DEF Init, RevisionsWhole
<1>3. \A p \in Process : Holds(call[p]) /\ Owns(p)
  BY NoCallFacts DEF Init, Owns
<1> QED
  BY <1>1, <1>2, <1>3 DEF Init, LifecycleInv

-----------------------------------------------------------------------------
(* The step of one call that leaves the revision directories alone.        *)

\* What such a step does to the rest of the state.
Sound ==
    /\ active' \in earlier'
    /\ earlier' \subseteq earlier \cup Valid \cup edited
    /\ receipts' \subseteq [previous : Config, installed : Config]
    /\ edits' \in 0..MaxEdits /\ faults' \in 0..MaxFaults /\ losses' \in 0..MaxPowerLosses

LEMMA QuietStep ==
    ASSUME LifecycleInv, NEW p \in Process, NEW q \in Call, Holds(q), ~Building(q),
           call' = [call EXCEPT ![p] = q], UNCHANGED <<dirs, edited>>, Sound
    PROVE  LifecycleInv'
<1>1. TypeOK'
  BY LifecycleAssumption DEF LifecycleInv, TypeOK, Sound
<1>2. (earlier \subseteq Valid \cup edited)'
  BY DEF LifecycleInv, Sound
<1>3. RevisionsWhole'
  BY DEF LifecycleInv, RevisionsWhole
<1>4. ASSUME NEW r \in Process PROVE call'[r] = IF r = p THEN q ELSE call[r]
  BY DEF LifecycleInv, TypeOK
<1>5. ASSUME NEW r \in Process PROVE Holds(call[r])'
  BY <1>4 DEF LifecycleInv, Holds
<1>6. ASSUME NEW r \in Process PROVE Owns(r)'
  BY <1>4 DEF LifecycleInv, Owns, Building
<1> QED
  BY <1>1, <1>2, <1>3, <1>5, <1>6 DEF LifecycleInv

\* The fields of a call after one of its fields changed.
LEMMA CallFacts ==
    ASSUME LifecycleInv, NEW p \in Process
    PROVE  call \in [Process -> Call] /\ call[p] \in Call /\ Holds(call[p]) /\ Owns(p)
BY DEF LifecycleInv, TypeOK

LEMMA ReturnFacts ==
    ASSUME LifecycleInv, NEW p \in Process, Return(p), UNCHANGED <<dirs, edited>>, Sound
    PROVE  LifecycleInv'
<1>1. PICK q \in Call : q = NoCall
  BY NoCallFacts
<1>2. Holds(q) /\ ~Building(q)
  BY <1>1, NoCallFacts
<1>3. call' = [call EXCEPT ![p] = q]
  BY <1>1 DEF Return
<1> QED
  BY <1>2, <1>3, QuietStep

LEMMA GotoStep ==
    ASSUME LifecycleInv, NEW p \in Process, NEW pc \in {"read", "verifyLoad", "verifyRead", "undo"},
           Goto(p, pc),
           call[p].pc \in IF pc = "read" THEN {"load"} ELSE {"install", "verifyLoad", "verifyRead"},
           UNCHANGED <<dirs, edited>>, Sound
    PROVE  LifecycleInv'
<1>1. PICK q \in Call : q = [call[p] EXCEPT !.pc = pc]
  BY CallFacts DEF Call, PC
<1>2. /\ q.pc = pc /\ q.job = call[p].job /\ q.new = call[p].new
      /\ q.current = call[p].current /\ q.copy = call[p].copy
  BY <1>1, CallFacts DEF Call
<1>3. Holds(q) /\ ~Building(q)
  BY <1>2, CallFacts DEF Holds, Building
<1>4. call' = [call EXCEPT ![p] = q]
  BY <1>1, CallFacts DEF Goto, Call
<1> QED
  BY <1>3, <1>4, QuietStep

LEMMA SoundStutter ==
    ASSUME LifecycleInv, UNCHANGED <<active, earlier, receipts, Bounds>>
    PROVE  Sound
BY DEF LifecycleInv, TypeOK, Sound, Bounds

LEMMA SoundFault ==
    ASSUME LifecycleInv, faults < MaxFaults, faults' = faults + 1,
           UNCHANGED <<active, earlier, receipts, edits, losses>>
    PROVE  Sound
BY LifecycleAssumption DEF LifecycleInv, TypeOK, Sound

LEMMA SoundWrite ==
    ASSUME LifecycleInv, NEW c \in Valid \cup edited, AtomicWrite(c), UNCHANGED <<receipts, Bounds>>
    PROVE  Sound
BY DEF LifecycleInv, TypeOK, Sound, AtomicWrite, Bounds

-----------------------------------------------------------------------------
(* The steps that leave the revision directories alone, one by one.        *)

LEMMA StageRevisionInv ==
    ASSUME LifecycleInv, NEW p \in Process, StageRevision(p) PROVE LifecycleInv'
<1>1. PICK c \in Valid :
         call' = [call EXCEPT ![p].job = "stage", ![p].pc = "mkdir", ![p].copy = c]
  BY DEF StageRevision
<1>2. c \in Config
  BY LifecycleAssumption
<1>3. PICK q \in Call : q = [call[p] EXCEPT !.job = "stage", !.pc = "mkdir", !.copy = c]
  BY <1>2, CallFacts DEF Call, Job, PC, Content
<1>4. q.job = "stage" /\ q.pc = "mkdir" /\ q.copy = c
  BY <1>3, CallFacts DEF Call
<1>5. Holds(q) /\ ~Building(q)
  BY <1>2, <1>4 DEF Holds, Building
<1>6. call' = [call EXCEPT ![p] = q]
  BY <1>1, <1>3, CallFacts DEF Call
<1>7. UNCHANGED <<dirs, edited>> /\ Sound
  BY SoundStutter DEF StageRevision
<1> QED
  BY <1>5, <1>6, <1>7, QuietStep

LEMMA CreateRecoverySnapshotInv ==
    ASSUME LifecycleInv, NEW p \in Process, CreateRecoverySnapshot(p) PROVE LifecycleInv'
<1>1. PICK q \in Call : q = [call[p] EXCEPT !.job = "snapshot", !.pc = "load"]
  BY CallFacts DEF Call, Job, PC
<1>2. q.job = "snapshot" /\ q.pc = "load"
  BY <1>1, CallFacts DEF Call
<1>3. Holds(q) /\ ~Building(q)
  BY <1>2 DEF Holds, Building
<1>4. call' = [call EXCEPT ![p] = q]
  BY <1>1, CallFacts DEF CreateRecoverySnapshot, Call
<1>5. UNCHANGED <<dirs, edited>> /\ Sound
  BY SoundStutter DEF CreateRecoverySnapshot
<1> QED
  BY <1>3, <1>4, <1>5, QuietStep

LEMMA LoadActiveInv ==
    ASSUME LifecycleInv, NEW p \in Process, LoadActive(p) PROVE LifecycleInv'
<1>1. UNCHANGED <<dirs, edited>> /\ Sound /\ call[p].pc = "load"
  BY SoundStutter DEF LoadActive
<1>2. Goto(p, "read") \/ Return(p)
  BY DEF LoadActive
<1> QED
  BY <1>1, <1>2, GotoStep, ReturnFacts

LEMMA ReadActiveInv ==
    ASSUME LifecycleInv, NEW p \in Process, ReadActive(p) PROVE LifecycleInv'
<1>1. active \in Config
  BY DEF LifecycleInv, TypeOK
<1>2. PICK q \in Call : q = [call[p] EXCEPT !.pc = "mkdir", !.copy = active]
  BY <1>1, CallFacts DEF Call, PC, Content
<1>3. /\ q.pc = "mkdir" /\ q.copy = active /\ q.job = call[p].job
      /\ q.new = call[p].new /\ q.current = call[p].current
  BY <1>2, CallFacts DEF Call
<1>4. call[p].pc = "read" /\ call[p].job # "stage"
  BY CallFacts DEF ReadActive, Holds
<1>5. Holds(q) /\ ~Building(q)
  BY <1>1, <1>3, <1>4, CallFacts DEF Holds, Building
<1>6. call' = [call EXCEPT ![p] = q]
  BY <1>2, CallFacts DEF ReadActive, Call
<1>7. UNCHANGED <<dirs, edited>> /\ Sound
  BY SoundStutter DEF ReadActive
<1> QED
  BY <1>5, <1>6, <1>7, QuietStep

LEMMA ActivateStagedRevisionInv ==
    ASSUME LifecycleInv, NEW p \in Process, NEW d \in Dir, ActivateStagedRevision(p, d)
    PROVE  LifecycleInv'
<1>1. dirs[d].config \in Valid
  BY DEF ActivateStagedRevision, Usable
<1>2. PICK e \in Config :
         call' = [call EXCEPT ![p].job = "activate", ![p].pc = "compare",
                              ![p].expected = e, ![p].new = dirs[d].config]
  BY DEF ActivateStagedRevision
<1>3. PICK q \in Call : q = [call[p] EXCEPT !.job = "activate", !.pc = "compare",
                                           !.expected = e, !.new = dirs[d].config]
  BY <1>1, CallFacts, LifecycleAssumption DEF Call, Job, PC, Content
<1>4. q.job = "activate" /\ q.pc = "compare" /\ q.new = dirs[d].config
  BY <1>3, CallFacts DEF Call
<1>5. Holds(q) /\ ~Building(q)
  BY <1>1, <1>4 DEF Holds, Building
<1>6. call' = [call EXCEPT ![p] = q]
  BY <1>2, <1>3, CallFacts DEF Call
<1>7. UNCHANGED <<dirs, edited>> /\ Sound
  BY SoundStutter DEF ActivateStagedRevision
<1> QED
  BY <1>5, <1>6, <1>7, QuietStep

LEMMA RestoreRecoverySnapshotInv ==
    ASSUME LifecycleInv, NEW p \in Process, NEW d \in Dir, RestoreRecoverySnapshot(p, d)
    PROVE  LifecycleInv'
<1>1. dirs[d].config \in Valid
  BY DEF RestoreRecoverySnapshot, Usable
<1>2. PICK e \in Config :
         call' = [call EXCEPT ![p].job = "restore", ![p].pc = "compare",
                              ![p].expected = e, ![p].new = dirs[d].config]
  BY DEF RestoreRecoverySnapshot
<1>3. PICK q \in Call : q = [call[p] EXCEPT !.job = "restore", !.pc = "compare",
                                           !.expected = e, !.new = dirs[d].config]
  BY <1>1, CallFacts, LifecycleAssumption DEF Call, Job, PC, Content
<1>4. q.job = "restore" /\ q.pc = "compare" /\ q.new = dirs[d].config
  BY <1>3, CallFacts DEF Call
<1>5. Holds(q) /\ ~Building(q)
  BY <1>1, <1>4 DEF Holds, Building
<1>6. call' = [call EXCEPT ![p] = q]
  BY <1>2, <1>3, CallFacts DEF Call
<1>7. UNCHANGED <<dirs, edited>> /\ Sound
  BY SoundStutter DEF RestoreRecoverySnapshot
<1> QED
  BY <1>5, <1>6, <1>7, QuietStep

LEMMA CompareInv ==
    ASSUME LifecycleInv, NEW p \in Process, Compare(p) PROVE LifecycleInv'
<1>1. UNCHANGED <<dirs, edited>> /\ Sound /\ call[p].pc = "compare"
  BY SoundStutter DEF Compare
<1>2. CASE Return(p)
  BY <1>1, <1>2, ReturnFacts
<1>3. ASSUME NEW pc \in {"load", "install"}, pc = "install" => call[p].job # "activate",
             call' = [call EXCEPT ![p].current = active, ![p].pc = pc]
      PROVE  LifecycleInv'
  <2>1. active \in Config /\ active \in Valid \cup edited
    BY DEF LifecycleInv, TypeOK
  <2>2. PICK q \in Call : q = [call[p] EXCEPT !.current = active, !.pc = pc]
    BY <2>1, CallFacts DEF Call, PC, Content
  <2>3. /\ q.pc = pc /\ q.current = active /\ q.job = call[p].job
        /\ q.new = call[p].new /\ q.copy = call[p].copy
    BY <2>2, CallFacts DEF Call
  <2>4. Holds(q) /\ ~Building(q)
    BY <1>1, <2>1, <2>3, CallFacts DEF Holds, Building
  <2>5. call' = [call EXCEPT ![p] = q]
    BY <1>3, <2>2, CallFacts DEF Call
  <2> QED
    BY <1>1, <2>4, <2>5, QuietStep
<1>4. Return(p) \/ call' = [call EXCEPT ![p].current = active,
                          ![p].pc = IF call[p].job = "activate" THEN "load" ELSE "install"]
  BY DEF Compare
<1>5. PICK pc \in {"load", "install"} : pc = IF call[p].job = "activate" THEN "load" ELSE "install"
  OBVIOUS
<1> QED
  BY <1>2, <1>3, <1>4, <1>5

LEMMA InstallInv ==
    ASSUME LifecycleInv, NEW p \in Process, Install(p) PROVE LifecycleInv'
<1>1. call[p].pc = "install" /\ call[p].new \in Valid
  BY CallFacts DEF Install, Holds
<1>2. UNCHANGED <<dirs, edited>> /\ Sound /\ Goto(p, "verifyLoad")
  BY <1>1, SoundWrite DEF Install
<1> QED
  BY <1>1, <1>2, GotoStep

LEMMA VerifyLoadInv ==
    ASSUME LifecycleInv, NEW p \in Process, VerifyLoad(p) PROVE LifecycleInv'
<1>1. UNCHANGED <<dirs, edited>> /\ Sound /\ call[p].pc = "verifyLoad"
  BY SoundStutter DEF VerifyLoad
<1>2. Goto(p, "verifyRead") \/ Goto(p, "undo")
  BY DEF VerifyLoad
<1> QED
  BY <1>1, <1>2, GotoStep

LEMMA VerifyReadInv ==
    ASSUME LifecycleInv, NEW p \in Process, VerifyRead(p) PROVE LifecycleInv'
<1>1. UNCHANGED <<dirs, edited>> /\ call[p].pc = "verifyRead"
  BY DEF VerifyRead
<1>2. active \in Config /\ call[p].current \in Config
  BY CallFacts, <1>1, LifecycleAssumption DEF LifecycleInv, TypeOK, Holds
<1>3. Sound
  BY <1>2 DEF VerifyRead, Sound, LifecycleInv, TypeOK, Bounds
<1>4. Return(p) \/ Goto(p, "undo")
  BY DEF VerifyRead
<1> QED
  BY <1>1, <1>3, <1>4, GotoStep, ReturnFacts

LEMMA VerifyFailsInv ==
    ASSUME LifecycleInv, NEW p \in Process, VerifyFails(p) PROVE LifecycleInv'
<1>1. UNCHANGED <<dirs, edited>> /\ Sound /\ Goto(p, "undo")
  BY SoundFault DEF VerifyFails
<1>2. call[p].pc \in {"verifyLoad", "verifyRead"}
  BY DEF VerifyFails
<1> QED
  BY <1>1, <1>2, GotoStep

LEMMA UndoInv ==
    ASSUME LifecycleInv, NEW p \in Process, Undo(p) PROVE LifecycleInv'
<1>1. call[p].current \in Valid \cup edited
  BY CallFacts DEF Undo, Holds
<1>2. UNCHANGED <<dirs, edited>> /\ Sound /\ Return(p)
  BY <1>1, SoundWrite DEF Undo
<1> QED
  BY <1>2, ReturnFacts

LEMMA AbortInv ==
    ASSUME LifecycleInv, NEW p \in Process, Abort(p) PROVE LifecycleInv'
<1>1. UNCHANGED <<dirs, edited>> /\ Sound /\ Return(p)
  BY SoundFault DEF Abort
<1> QED
  BY <1>1, ReturnFacts

LEMMA MakeDirectoryFailsInv ==
    ASSUME LifecycleInv, NEW p \in Process, MakeDirectoryFails(p) PROVE LifecycleInv'
<1>1. UNCHANGED <<dirs, edited>> /\ Sound /\ Return(p)
  BY SoundStutter DEF MakeDirectoryFails
<1> QED
  BY <1>1, ReturnFacts

-----------------------------------------------------------------------------
(* The steps that make a revision directory.                               *)

\* A directory that, if complete, is what its digest says.
Sealed(r) ==
    r.digest # NoConfig /\ r.config # NoConfig =>
       r.config = r.digest /\ (r.kind = "staged" => r.config \in Valid)

\* The directory d, now with content r, is as far as the call q says.
Fits(q, d, r) ==
    Building(q) => /\ q.dir = d /\ r.kind = KindOf(q.job) /\ r.digest = NoConfig
                   /\ q.pc = "manifest" => r.config = q.copy

\* A directory that no other call is making changes, and stays what its digest says.
LEMMA BuildStep ==
    ASSUME LifecycleInv, NEW p \in Process, NEW q \in Call, Holds(q),
           call' = [call EXCEPT ![p] = q],
           NEW d \in Dir, NEW r \in Revision, dirs' = [dirs EXCEPT ![d] = r],
           \A o \in Process \ {p} : Building(call[o]) => call[o].dir # d,
           Sealed(r), Fits(q, d, r),
           UNCHANGED <<active, earlier, edited, receipts, Bounds>>
    PROVE  LifecycleInv'
<1>1. TypeOK'
  BY DEF LifecycleInv, TypeOK, Bounds
<1>2. (earlier \subseteq Valid \cup edited)'
  BY DEF LifecycleInv
<1>3. ASSUME NEW e \in Dir PROVE dirs'[e] = IF e = d THEN r ELSE dirs[e]
  BY DEF LifecycleInv, TypeOK
<1>4. RevisionsWhole'
  BY <1>3 DEF LifecycleInv, RevisionsWhole, Sealed
<1>5. ASSUME NEW o \in Process PROVE call'[o] = IF o = p THEN q ELSE call[o]
  BY DEF LifecycleInv, TypeOK
<1>6. ASSUME NEW o \in Process PROVE Holds(call[o])'
  BY <1>5 DEF LifecycleInv, Holds
<1>7. ASSUME NEW o \in Process PROVE Owns(o)'
  <2>1. Owns(o)
    BY DEF LifecycleInv
  <2>2. CASE o = p
    BY <1>3, <1>5, <2>2 DEF Owns, Building, Fits
  <2>3. CASE o # p
    <3>1. call'[o] = call[o]
      BY <1>5, <2>3
    <3>2. Building(call[o]) => call[o].dir # d
      BY <2>3
    <3>3. ASSUME NEW s \in Process \ {o}, Building(call'[s]), Building(call[o])
          PROVE  call'[s].dir # call[o].dir
      BY <1>5, <2>1, <2>3, <3>2, <3>3 DEF Owns, Building, Fits
    <3> QED
      BY <1>3, <2>1, <3>1, <3>2, <3>3 DEF Owns, Building
  <2> QED
    BY <2>2, <2>3
<1> QED
  BY <1>1, <1>2, <1>4, <1>6, <1>7 DEF LifecycleInv

LEMMA RevisionFacts ==
    ASSUME LifecycleInv, NEW d \in Dir
    PROVE  dirs \in [Dir -> Revision] /\ dirs[d] \in Revision
BY DEF LifecycleInv, TypeOK

LEMMA MakeDirectoryInv ==
    ASSUME LifecycleInv, NEW p \in Process, MakeDirectory(p) PROVE LifecycleInv'
<1>1. PICK d \in Dir :
         /\ dirs[d] = Free
         /\ dirs' = [dirs EXCEPT ![d].kind = KindOf(call[p].job)]
         /\ call' = [call EXCEPT ![p].pc = "config", ![p].dir = d]
  BY DEF MakeDirectory
<1>2. PICK q \in Call : q = [call[p] EXCEPT !.pc = "config", !.dir = d]
  BY CallFacts DEF Call, PC
<1>3. /\ q.pc = "config" /\ q.dir = d /\ q.job = call[p].job
      /\ q.new = call[p].new /\ q.current = call[p].current /\ q.copy = call[p].copy
  BY <1>2, CallFacts DEF Call
<1>4. Holds(q)
  BY <1>3, CallFacts DEF Holds, MakeDirectory
<1>5. call' = [call EXCEPT ![p] = q]
  BY <1>1, <1>2, CallFacts DEF Call
<1>6. PICK r \in Revision : r = [dirs[d] EXCEPT !.kind = KindOf(call[p].job)]
  BY RevisionFacts DEF Revision, KindOf
<1>7. r.kind = KindOf(q.job) /\ r.digest = NoConfig /\ r.config = NoConfig
  BY <1>1, <1>3, <1>6, FreeFacts, RevisionFacts DEF Revision
<1>8. dirs' = [dirs EXCEPT ![d] = r]
  BY <1>1, <1>6, RevisionFacts DEF Revision
<1>9. ASSUME NEW o \in Process, Building(call[o]) PROVE call[o].dir # d
  <2>1. dirs[call[o].dir].kind = KindOf(call[o].job)
    BY <1>9, CallFacts DEF Owns
  <2> QED
    BY <1>1, <2>1, FreeFacts DEF KindOf
<1>10. UNCHANGED <<active, earlier, edited, receipts, Bounds>>
  BY DEF MakeDirectory
<1>11. Sealed(r)
  BY <1>7 DEF Sealed
<1>12. Fits(q, d, r)
  BY <1>3, <1>7 DEF Fits
<1> QED
  BY <1>4, <1>5, <1>8, <1>9, <1>10, <1>11, <1>12, BuildStep

LEMMA WriteConfigInv ==
    ASSUME LifecycleInv, NEW p \in Process, WriteConfig(p) PROVE LifecycleInv'
<1>1. /\ call[p].pc = "config" /\ call[p].copy \in Config
      /\ Building(call[p]) /\ call[p].dir \in Dir
      /\ dirs[call[p].dir].kind = KindOf(call[p].job)
      /\ dirs[call[p].dir].digest = NoConfig
      /\ \A o \in Process \ {p} : Building(call[o]) => call[o].dir # call[p].dir
  BY CallFacts DEF WriteConfig, Owns, Holds, Building
<1>2. PICK d \in Dir : d = call[p].dir
  BY <1>1
<1>3. PICK q \in Call : q = [call[p] EXCEPT !.pc = "manifest"]
  BY CallFacts DEF Call, PC
<1>4. /\ q.pc = "manifest" /\ q.dir = d /\ q.job = call[p].job
      /\ q.new = call[p].new /\ q.current = call[p].current /\ q.copy = call[p].copy
  BY <1>2, <1>3, CallFacts DEF Call
<1>5. Holds(q)
  BY <1>1, <1>4, CallFacts DEF Holds
<1>6. call' = [call EXCEPT ![p] = q]
  BY <1>3, CallFacts DEF WriteConfig, Goto, Call
<1>7. PICK r \in Revision : r = [dirs[d] EXCEPT !.config = call[p].copy]
  BY <1>1, RevisionFacts DEF Revision, Content
<1>8. r.kind = dirs[d].kind /\ r.digest = dirs[d].digest /\ r.config = call[p].copy
  BY <1>7, RevisionFacts DEF Revision
<1>9. dirs' = [dirs EXCEPT ![d] = r]
  BY <1>2, <1>7, RevisionFacts DEF WriteConfig, Revision
<1>10. UNCHANGED <<active, earlier, edited, receipts, Bounds>>
  BY DEF WriteConfig
<1>11. Sealed(r)
  BY <1>1, <1>2, <1>8 DEF Sealed
<1>12. Fits(q, d, r)
  BY <1>1, <1>2, <1>4, <1>8 DEF Fits
<1>13. \A o \in Process \ {p} : Building(call[o]) => call[o].dir # d
  BY <1>1, <1>2
<1> QED
  BY <1>5, <1>6, <1>9, <1>10, <1>11, <1>12, <1>13, BuildStep

LEMMA WriteManifestInv ==
    ASSUME LifecycleInv, NEW p \in Process, WriteManifest(p) PROVE LifecycleInv'
<1>1. /\ call[p].pc = "manifest" /\ call[p].copy \in Config
      /\ Building(call[p]) /\ call[p].dir \in Dir
      /\ dirs[call[p].dir].kind = KindOf(call[p].job)
      /\ dirs[call[p].dir].config = call[p].copy
      /\ \A o \in Process \ {p} : Building(call[o]) => call[o].dir # call[p].dir
      /\ call[p].job = "stage" => call[p].copy \in Valid
  BY CallFacts DEF WriteManifest, Owns, Holds, Building
<1>2. PICK d \in Dir : d = call[p].dir
  BY <1>1
<1>3. PICK r \in Revision : r = [dirs[d] EXCEPT !.digest = call[p].copy]
  BY <1>1, RevisionFacts DEF Revision, Content
<1>4. r.kind = dirs[d].kind /\ r.config = dirs[d].config /\ r.digest = call[p].copy
  BY <1>3, RevisionFacts DEF Revision
<1>5. dirs' = [dirs EXCEPT ![d] = r]
  BY <1>2, <1>3, RevisionFacts DEF WriteManifest, Revision
<1>6. r.kind = "staged" => r.config \in Valid
  BY <1>1, <1>2, <1>4 DEF KindOf
<1>7. UNCHANGED <<active, earlier, edited, receipts, Bounds>>
  BY DEF WriteManifest
<1>8. PICK q \in Call : q = IF call[p].job = "activate" THEN [call[p] EXCEPT !.pc = "install"] ELSE NoCall
  BY CallFacts, NoCallFacts DEF Call, PC
<1>9. Holds(q) /\ ~Building(q)
  <2>1. CASE call[p].job = "activate"
    <3>1. q.pc = "install" /\ q.job = "activate" /\ q.new = call[p].new /\ q.current = call[p].current
      BY <1>8, <2>1, CallFacts DEF Call
    <3> QED
      BY <1>1, <2>1, <3>1, CallFacts DEF Holds, Building
  <2>2. CASE call[p].job # "activate"
    BY <1>8, <2>2, NoCallFacts
  <2> QED
    BY <2>1, <2>2
<1>10. call' = [call EXCEPT ![p] = q]
  BY <1>8, CallFacts DEF WriteManifest, Goto, Return, Call
<1>11. Sealed(r)
  BY <1>1, <1>2, <1>4, <1>6 DEF Sealed
<1>12. \A o \in Process \ {p} : Building(call[o]) => call[o].dir # d
  BY <1>1, <1>2
<1>13. Fits(q, d, r)
  BY <1>9 DEF Fits
<1> QED
  BY <1>5, <1>7, <1>9, <1>10, <1>11, <1>12, <1>13, BuildStep

-----------------------------------------------------------------------------
LEMMA EditInv == ASSUME LifecycleInv, Edit PROVE LifecycleInv'
<1>1. PICK c \in Config : AtomicWrite(c) /\ edited' = edited \cup {c}
  BY DEF Edit
<1>2. TypeOK'
  BY <1>1, LifecycleAssumption DEF Edit, AtomicWrite, LifecycleInv, TypeOK
<1>3. (earlier \subseteq Valid \cup edited)'
  BY <1>1 DEF AtomicWrite, LifecycleInv
<1>4. RevisionsWhole'
  BY DEF Edit, LifecycleInv, RevisionsWhole
<1>5. \A p \in Process : (Holds(call[p]) /\ Owns(p))'
  BY <1>1 DEF Edit, LifecycleInv, Holds, Owns
<1> QED
  BY <1>2, <1>3, <1>4, <1>5 DEF LifecycleInv

\* What is left of a directory is a directory that is still what its digest says.
LEMMA RemainsFacts ==
    ASSUME NEW r \in Revision, NEW s \in Remains(r)
    PROVE  /\ s \in Revision
           /\ s.digest # NoConfig => s.digest = r.digest
           /\ s.config # NoConfig => s.config = r.config /\ s.kind = r.kind
BY FreeFacts DEF Remains, Revision, Content

LEMMA PowerLossInv == ASSUME LifecycleInv, PowerLoss PROVE LifecycleInv'
<1>1. /\ DOMAIN dirs' = Dir /\ dirs' = [d \in Dir |-> dirs'[d]]
      /\ \A d \in Dir : dirs'[d] \in Remains(dirs[d])
  BY DEF PowerLoss
<1>2. \A d \in Dir : dirs[d] \in Revision
  BY RevisionFacts
<1>3. \A d \in Dir : /\ dirs'[d] \in Revision
                     /\ dirs'[d].digest # NoConfig => dirs'[d].digest = dirs[d].digest
                     /\ dirs'[d].config # NoConfig =>
                           dirs'[d].config = dirs[d].config /\ dirs'[d].kind = dirs[d].kind
  BY <1>1, <1>2, RemainsFacts
<1>4. dirs' \in [Dir -> Revision]
  BY <1>1, <1>3
<1>5. call' \in [Process -> Call] /\ \A p \in Process : call'[p] = NoCall
  BY NoCallFacts DEF PowerLoss
<1>6. TypeOK'
  BY <1>4, <1>5, LifecycleAssumption DEF PowerLoss, LifecycleInv, TypeOK
<1>7. (earlier \subseteq Valid \cup edited)'
  BY DEF PowerLoss, LifecycleInv
<1>8. RevisionsWhole'
  BY <1>3 DEF LifecycleInv, RevisionsWhole
<1>9. Holds(NoCall)'
  BY DEF Holds, NoCall
<1>10. \A p \in Process : (Holds(call[p]) /\ Owns(p))'
  BY <1>5, <1>9, NoCallFacts DEF Owns
<1> QED
  BY <1>6, <1>7, <1>8, <1>10 DEF LifecycleInv

LEMMA NextInv == LifecycleInv /\ [Next]_vars => LifecycleInv'
<1> SUFFICES ASSUME LifecycleInv, [Next]_vars PROVE LifecycleInv'
  OBVIOUS
<1>1. CASE UNCHANGED vars
  BY <1>1 DEF vars, LifecycleInv, TypeOK, RevisionsWhole, Holds, Owns
<1>2. ASSUME NEW p \in Process,
             \/ StageRevision(p) \/ CreateRecoverySnapshot(p)
             \/ \E d \in Dir : ActivateStagedRevision(p, d) \/ RestoreRecoverySnapshot(p, d)
             \/ LoadActive(p) \/ ReadActive(p)
             \/ MakeDirectory(p) \/ MakeDirectoryFails(p) \/ WriteConfig(p) \/ WriteManifest(p)
             \/ Compare(p) \/ Install(p) \/ VerifyLoad(p) \/ VerifyRead(p)
             \/ VerifyFails(p) \/ Undo(p) \/ Abort(p)
      PROVE  LifecycleInv'
  BY <1>2, StageRevisionInv, CreateRecoverySnapshotInv, ActivateStagedRevisionInv,
     RestoreRecoverySnapshotInv, LoadActiveInv, ReadActiveInv, MakeDirectoryInv,
     MakeDirectoryFailsInv, WriteConfigInv, WriteManifestInv, CompareInv, InstallInv,
     VerifyLoadInv, VerifyReadInv, VerifyFailsInv, UndoInv, AbortInv
<1> QED
  BY <1>1, <1>2, PowerLossInv, EditInv DEF Next

\* What the functions of internal/config rely on at each of their steps, for any
\* number of concurrent calls: a directory under construction is its maker's alone,
\* and everything that may be in the active file is valid or was put there by hand.
THEOREM LifecycleAlwaysInv == Spec => []LifecycleInv
BY InitInv, NextInv, PTL DEF Spec

\* Type correctness of the active file, the revision directories and the calls.
THEOREM TypeCorrect == Spec => []TypeOK
<1>1. LifecycleInv => TypeOK
  BY DEF LifecycleInv
<1> QED
  BY <1>1, LifecycleAlwaysInv, PTL

\* Whatever calls race, die or lose power, the functions of internal/config never
\* put a configuration that failed Validate into the active file, other than one
\* that somebody had written there by hand.
THEOREM ActiveAlwaysAccounted == Spec => []ActiveAccounted
<1>1. LifecycleInv => ActiveAccounted
  BY DEF LifecycleInv, TypeOK, ActiveAccounted
<1> QED
  BY <1>1, LifecycleAlwaysInv, PTL

\* A staged revision or snapshot that has both its files is what its manifest's
\* digest says, for any interleaving of calls, deaths and power losses.
THEOREM RevisionsAlwaysWhole == Spec => []RevisionsWhole
<1>1. LifecycleInv => RevisionsWhole
  BY DEF LifecycleInv
<1> QED
  BY <1>1, LifecycleAlwaysInv, PTL

-----------------------------------------------------------------------------
(* Complete revisions never change.                                        *)

Complete(r) == r.digest # NoConfig /\ r.config # NoConfig

\* The step of one call changes at most the directory it makes, which is incomplete.
LEMMA CompleteKept ==
    ASSUME LifecycleInv, NEW p \in Process, NEW d \in Dir, Complete(dirs[d]),
           MakeDirectory(p) \/ WriteConfig(p) \/ WriteManifest(p)
    PROVE  dirs'[d] = dirs[d]
<1>1. CASE MakeDirectory(p)
  <2>1. PICK e \in Dir : dirs[e] = Free /\ dirs' = [dirs EXCEPT ![e].kind = KindOf(call[p].job)]
    BY <1>1 DEF MakeDirectory
  <2>2. d # e
    BY <2>1, FreeFacts DEF Complete
  <2> QED
    BY <2>1, <2>2, RevisionFacts
<1>2. CASE WriteConfig(p) \/ WriteManifest(p)
  <2>1. call[p].dir # d
    BY <1>2, CallFacts DEF WriteConfig, WriteManifest, Owns, Building, Complete
  <2> QED
    BY <1>2, <2>1, RevisionFacts DEF WriteConfig, WriteManifest
<1> QED
  BY <1>1, <1>2

LEMMA ImmutableStep ==
    LifecycleInv /\ [Next]_vars =>
       (losses' = losses => \A d \in Dir : dirs[d].digest # NoConfig /\ dirs[d].config # NoConfig
                                              => dirs'[d] = dirs[d])
<1> SUFFICES ASSUME LifecycleInv, [Next]_vars, losses' = losses, NEW d \in Dir, Complete(dirs[d])
             PROVE  dirs'[d] = dirs[d]
  BY DEF Complete
<1>1. CASE dirs' = dirs
  BY <1>1
<1>2. ASSUME NEW p \in Process, MakeDirectory(p) \/ WriteConfig(p) \/ WriteManifest(p)
      PROVE  dirs'[d] = dirs[d]
  BY <1>2, CompleteKept
<1>3. ~PowerLoss
  BY DEF PowerLoss, LifecycleInv, TypeOK
<1>4. \/ dirs' = dirs
      \/ \E p \in Process : MakeDirectory(p) \/ WriteConfig(p) \/ WriteManifest(p)
  <2>1. CASE Edit
    BY <2>1 DEF Edit
  <2>2. CASE UNCHANGED vars
    BY <2>2 DEF vars
  <2>3. ASSUME NEW p \in Process,
               \/ StageRevision(p) \/ CreateRecoverySnapshot(p)
               \/ \E e \in Dir : ActivateStagedRevision(p, e) \/ RestoreRecoverySnapshot(p, e)
               \/ LoadActive(p) \/ ReadActive(p) \/ MakeDirectoryFails(p)
               \/ Compare(p) \/ Install(p) \/ VerifyLoad(p) \/ VerifyRead(p)
               \/ VerifyFails(p) \/ Undo(p) \/ Abort(p)
        PROVE  dirs' = dirs
    BY <2>3 DEF StageRevision, CreateRecoverySnapshot, ActivateStagedRevision,
         RestoreRecoverySnapshot, LoadActive, ReadActive, MakeDirectoryFails, Compare,
         Install, VerifyLoad, VerifyRead, VerifyFails, Undo, Abort
  <2> QED
    BY <1>3, <2>1, <2>2, <2>3 DEF Next
<1> QED
  BY <1>1, <1>2, <1>4

\* The "immutable, digest-bound staged revision" of activation.go: for any calls that
\* race or die, a revision directory that has both its files never changes again,
\* short of a power loss.
THEOREM RevisionsNeverChange == Spec => RevisionsImmutable
<1>1. LifecycleInv /\ [Next]_vars =>
         [losses' = losses =>
            \A d \in Dir : dirs[d].digest # NoConfig /\ dirs[d].config # NoConfig
               => dirs'[d] = dirs[d]]_vars
  BY ImmutableStep
<1> QED
  BY <1>1, LifecycleAlwaysInv, PTL DEF Spec, RevisionsImmutable

-----------------------------------------------------------------------------
(* One call at a time: nothing changes under a call.                       *)

LEMMA SoloFacts ==
    ASSUME SoloInv, NEW p \in Process PROVE SoloCall(call[p])
BY DEF SoloInv

LEMMA SoloStep ==
    ASSUME OneAtATime, LifecycleInv, NEW p \in Process, NEW q \in Call,
           call' = [call EXCEPT ![p] = q], SoloCall(q)'
    PROVE  SoloInv'
<1>1. ASSUME NEW r \in Process PROVE call'[r] = q
  BY CallFacts DEF OneAtATime
<1> QED
  BY <1>1 DEF SoloInv, SoloCall

LEMMA SoloReturn ==
    ASSUME OneAtATime, LifecycleInv, NEW p \in Process, Return(p)
    PROVE  SoloInv'
<1>1. PICK q \in Call : q = NoCall
  BY NoCallFacts
<1>2. call' = [call EXCEPT ![p] = q]
  BY <1>1 DEF Return
<1>3. q.pc = "idle" /\ q.job = "none"
  BY <1>1 DEF NoCall
<1>4. SoloCall(q)'
  BY <1>1, <1>3 DEF SoloCall
<1> QED
  BY <1>2, <1>4, SoloStep

\* A call that goes on with the bytes it holds, in a state that is as it was.
LEMMA SoloGoto ==
    ASSUME OneAtATime, LifecycleInv, SoloInv, NEW p \in Process, NEW pc \in PC, Goto(p, pc),
           \/ call[p].pc = "load" /\ pc = "read" /\ UNCHANGED active
           \/ call[p].pc = "config" /\ pc = "manifest" /\ UNCHANGED active
           \/ call[p].pc \in {"install", "verifyLoad", "verifyRead"}
                 /\ pc \in {"verifyLoad", "verifyRead", "undo"}
    PROVE  SoloInv'
<1>1. PICK q \in Call : q = [call[p] EXCEPT !.pc = pc]
  BY CallFacts DEF Call
<1>2. /\ q.pc = pc /\ q.job = call[p].job /\ q.expected = call[p].expected
      /\ q.current = call[p].current /\ q.copy = call[p].copy
  BY <1>1, CallFacts DEF Call
<1>3. call' = [call EXCEPT ![p] = q]
  BY <1>1, CallFacts DEF Goto, Call
<1>4. SoloCall(q)'
  BY <1>2, SoloFacts DEF SoloCall
<1> QED
  BY <1>3, <1>4, SoloStep

LEMMA SoloStart ==
    ASSUME OneAtATime, LifecycleInv, SoloInv, NEW p \in Process,
           \/ StageRevision(p) \/ CreateRecoverySnapshot(p)
           \/ \E d \in Dir : ActivateStagedRevision(p, d) \/ RestoreRecoverySnapshot(p, d)
    PROVE  SoloInv'
<1>1. CASE StageRevision(p)
  <2>1. PICK c \in Valid :
           call' = [call EXCEPT ![p].job = "stage", ![p].pc = "mkdir", ![p].copy = c]
    BY <1>1 DEF StageRevision
  <2>2. PICK q \in Call : q = [call[p] EXCEPT !.job = "stage", !.pc = "mkdir", !.copy = c]
    BY CallFacts, LifecycleAssumption DEF Call, Job, PC, Content
  <2>3. q.job = "stage" /\ q.pc = "mkdir"
    BY <2>2, CallFacts DEF Call
  <2>4. SoloCall(q)'
    BY <2>3 DEF SoloCall
  <2>5. call' = [call EXCEPT ![p] = q]
    BY <2>1, <2>2, CallFacts DEF Call
  <2> QED
    BY <2>4, <2>5, SoloStep
<1>2. CASE CreateRecoverySnapshot(p)
  <2>1. PICK q \in Call : q = [call[p] EXCEPT !.job = "snapshot", !.pc = "load"]
    BY CallFacts DEF Call, Job, PC
  <2>2. q.job = "snapshot" /\ q.pc = "load"
    BY <2>1, CallFacts DEF Call
  <2>3. SoloCall(q)'
    BY <2>2 DEF SoloCall
  <2>4. call' = [call EXCEPT ![p] = q]
    BY <1>2, <2>1, CallFacts DEF CreateRecoverySnapshot, Call
  <2> QED
    BY <2>3, <2>4, SoloStep
<1>3. ASSUME NEW d \in Dir, ActivateStagedRevision(p, d) \/ RestoreRecoverySnapshot(p, d)
      PROVE  SoloInv'
  <2>1. PICK e \in Config, job \in {"activate", "restore"} :
           call' = [call EXCEPT ![p].job = job, ![p].pc = "compare",
                                ![p].expected = e, ![p].new = dirs[d].config]
    BY <1>3 DEF ActivateStagedRevision, RestoreRecoverySnapshot
  <2>2. dirs[d].config \in Content
    BY RevisionFacts DEF Revision
  <2>3. PICK q \in Call : q = [call[p] EXCEPT !.job = job, !.pc = "compare",
                                             !.expected = e, !.new = dirs[d].config]
    BY <2>2, CallFacts DEF Call, Job, PC, Content
  <2>4. q.job = job /\ q.pc = "compare"
    BY <2>3, CallFacts DEF Call
  <2>5. SoloCall(q)'
    BY <2>4 DEF SoloCall
  <2>6. call' = [call EXCEPT ![p] = q]
    BY <2>1, <2>3, CallFacts DEF Call
  <2> QED
    BY <2>5, <2>6, SoloStep
<1> QED
  BY <1>1, <1>2, <1>3

LEMMA SoloReadActive ==
    ASSUME OneAtATime, LifecycleInv, SoloInv, NEW p \in Process, ReadActive(p) PROVE SoloInv'
<1>1. active \in Config /\ active' = active /\ call[p].pc = "read"
  BY DEF LifecycleInv, TypeOK, ReadActive
<1>2. PICK q \in Call : q = [call[p] EXCEPT !.pc = "mkdir", !.copy = active]
  BY <1>1, CallFacts DEF Call, PC, Content
<1>3. /\ q.pc = "mkdir" /\ q.copy = active /\ q.job = call[p].job
      /\ q.expected = call[p].expected /\ q.current = call[p].current
  BY <1>2, CallFacts DEF Call
<1>4. SoloCall(q)'
  BY <1>1, <1>3, SoloFacts DEF SoloCall
<1>5. call' = [call EXCEPT ![p] = q]
  BY <1>2, CallFacts DEF ReadActive, Call
<1> QED
  BY <1>4, <1>5, SoloStep

LEMMA SoloMakeDirectory ==
    ASSUME OneAtATime, LifecycleInv, SoloInv, NEW p \in Process, MakeDirectory(p) PROVE SoloInv'
<1>1. active' = active /\ call[p].pc = "mkdir"
  BY DEF MakeDirectory
<1>2. PICK d \in Dir : call' = [call EXCEPT ![p].pc = "config", ![p].dir = d]
  BY DEF MakeDirectory
<1>3. PICK q \in Call : q = [call[p] EXCEPT !.pc = "config", !.dir = d]
  BY CallFacts DEF Call, PC
<1>4. /\ q.pc = "config" /\ q.copy = call[p].copy /\ q.job = call[p].job
      /\ q.expected = call[p].expected /\ q.current = call[p].current
  BY <1>3, CallFacts DEF Call
<1>5. SoloCall(q)'
  BY <1>1, <1>4, SoloFacts DEF SoloCall
<1>6. call' = [call EXCEPT ![p] = q]
  BY <1>2, <1>3, CallFacts DEF Call
<1> QED
  BY <1>5, <1>6, SoloStep

\* The snapshot of an activation is complete, and of the active content, before the rename.
LEMMA SoloWriteManifest ==
    ASSUME OneAtATime, LifecycleInv, SoloInv, NEW p \in Process, WriteManifest(p) PROVE SoloInv'
<1>1. CASE call[p].job # "activate"
  BY <1>1, SoloReturn DEF WriteManifest
<1>2. CASE call[p].job = "activate"
  <2>1. /\ call[p].pc = "manifest" /\ call[p].dir \in Dir
        /\ dirs[call[p].dir].kind = "snapshot" /\ dirs[call[p].dir].config = call[p].copy
    BY <1>2, CallFacts DEF WriteManifest, Owns, Building, KindOf
  <2>2. PICK d \in Dir : d = call[p].dir
    BY <2>1
  <2>3. active' = active /\ call[p].copy = active
    BY <1>2, <2>1, SoloFacts DEF WriteManifest, SoloCall
  <2>4. dirs'[d].kind = "snapshot" /\ dirs'[d].config = active' /\ dirs'[d].digest = active'
    BY <2>1, <2>2, <2>3, RevisionFacts DEF WriteManifest, Revision
  <2>5. PICK q \in Call : q = [call[p] EXCEPT !.pc = "install"]
    BY CallFacts DEF Call, PC
  <2>6. /\ q.pc = "install" /\ q.job = call[p].job
        /\ q.expected = call[p].expected /\ q.current = call[p].current
    BY <2>5, CallFacts DEF Call
  <2>7. SoloCall(q)'
    BY <1>2, <2>1, <2>3, <2>4, <2>6, SoloFacts DEF SoloCall
  <2>8. call' = [call EXCEPT ![p] = q]
    BY <1>2, <2>5, CallFacts DEF WriteManifest, Goto, Call
  <2> QED
    BY <2>7, <2>8, SoloStep
<1> QED
  BY <1>1, <1>2

LEMMA SoloCompare ==
    ASSUME OneAtATime, LifecycleInv, SoloInv, NEW p \in Process, Compare(p) PROVE SoloInv'
<1>1. CASE Return(p)
  BY <1>1, SoloReturn
<1>2. CASE ~Return(p)
  <2>1. /\ call[p].pc = "compare" /\ active' = active /\ active = call[p].expected
        /\ active \in Config
    BY <1>2 DEF Compare, LifecycleInv, TypeOK
  <2>2. PICK pc \in {"load", "install"} :
           /\ pc = IF call[p].job = "activate" THEN "load" ELSE "install"
           /\ call' = [call EXCEPT ![p].current = active, ![p].pc = pc]
    BY <1>2 DEF Compare
  <2>3. PICK q \in Call : q = [call[p] EXCEPT !.current = active, !.pc = pc]
    BY <2>1, CallFacts DEF Call, PC, Content
  <2>4. /\ q.pc = pc /\ q.current = active /\ q.job = call[p].job
        /\ q.expected = call[p].expected
    BY <2>3, CallFacts DEF Call
  <2>5. SoloCall(q)'
    BY <2>1, <2>2, <2>4 DEF SoloCall
  <2>6. call' = [call EXCEPT ![p] = q]
    BY <2>2, <2>3, CallFacts DEF Call
  <2> QED
    BY <2>5, <2>6, SoloStep
<1> QED
  BY <1>1, <1>2

LEMMA SoloElsewhere ==
    ASSUME OneAtATime, LifecycleInv, SoloInv, PowerLoss \/ Edit \/ UNCHANGED vars PROVE SoloInv'
<1>1. CASE UNCHANGED vars
  BY <1>1 DEF vars, SoloInv, SoloCall
<1>2. CASE PowerLoss
  <2>1. \A p \in Process : call'[p] = NoCall
    BY <1>2 DEF PowerLoss
  <2> QED
    BY <2>1 DEF SoloInv, SoloCall, NoCall
<1>3. CASE Edit
  <2>1. call' = call /\ \A p \in Process : call[p].pc = "idle"
    BY <1>3 DEF Edit, OneAtATime
  <2>2. \A p \in Process : call'[p] = NoCall
    BY <2>1, SoloFacts DEF SoloCall
  <2> QED
    BY <2>2 DEF SoloInv, SoloCall, NoCall
<1> QED
  BY <1>1, <1>2, <1>3

LEMMA SoloNext == OneAtATime /\ LifecycleInv /\ SoloInv /\ [Next]_vars => SoloInv'
<1> SUFFICES ASSUME OneAtATime, LifecycleInv, SoloInv, [Next]_vars PROVE SoloInv'
  OBVIOUS
<1>1. ASSUME NEW p \in Process, LoadActive(p) \/ WriteConfig(p) PROVE SoloInv'
  BY <1>1, SoloGoto, SoloReturn DEF LoadActive, WriteConfig, PC
<1>2. ASSUME NEW p \in Process, Install(p) \/ VerifyLoad(p) \/ VerifyRead(p) \/ VerifyFails(p)
      PROVE  SoloInv'
  <2>1. \/ Return(p)
        \/ \E pc \in {"verifyLoad", "verifyRead", "undo"} : Goto(p, pc)
    BY <1>2 DEF Install, VerifyLoad, VerifyRead, VerifyFails
  <2>2. call[p].pc \in {"install", "verifyLoad", "verifyRead"}
    BY <1>2 DEF Install, VerifyLoad, VerifyRead, VerifyFails
  <2> QED
    BY <2>1, <2>2, SoloGoto, SoloReturn DEF PC
<1>3. ASSUME NEW p \in Process, MakeDirectoryFails(p) \/ Undo(p) \/ Abort(p) PROVE SoloInv'
  BY <1>3, SoloReturn DEF MakeDirectoryFails, Undo, Abort
<1> QED
  BY <1>1, <1>2, <1>3, SoloStart, SoloReadActive, SoloMakeDirectory, SoloWriteManifest,
     SoloCompare, SoloElsewhere DEF Next

\* recovery.go and activation.go by themselves, with any contents and directories: if
\* one operator makes one call at a time, the file a call compared is still there when
\* it renames over it, and an activation has it in a complete snapshot by then.
THEOREM AloneNothingChanges == OneAtATime => (Spec => []SoloInv)
<1> SUFFICES ASSUME OneAtATime PROVE Spec => []SoloInv
  OBVIOUS
<1>1. Init => SoloInv
  <2>1. NoCall.pc = "idle" /\ NoCall.job = "none"
    BY DEF NoCall
  <2>2. SoloCall(NoCall)
    BY <2>1 DEF SoloCall
  <2>3. Init => \A p \in Process : call[p] = NoCall
    BY DEF Init
  <2> QED
    BY <2>2, <2>3 DEF SoloInv
<1>2. LifecycleInv /\ SoloInv /\ [Next]_vars => SoloInv'
  BY SoloNext
<1> QED
  BY <1>1, <1>2, LifecycleAlwaysInv, PTL DEF Spec

-----------------------------------------------------------------------------
(* The lifecycle implements the compare-and-swap register.                 *)

NoRequest == [kind |-> "none", status |-> "open", expected |-> NoConfig, new |-> NoConfig]

Requests == [p \in Process |-> RequestOf(call[p])]

\* A step of the register, or none.
RegStep == Register!RegNext \/ UNCHANGED <<active, Saved, Requests, receipts>>

LEMMA RequestFacts ==
    ASSUME NEW q \in Call
    PROVE  /\ q.job \notin {"activate", "restore"} => RequestOf(q) = NoRequest
           /\ q.job \in {"activate", "restore"} =>
                 /\ RequestOf(q).kind = q.job /\ RequestOf(q) # NoRequest
                 /\ RequestOf(q).expected = q.expected /\ RequestOf(q).new = q.new
                 /\ RequestOf(q).status =
                       IF q.pc \in {"verifyLoad", "verifyRead", "undo"} THEN "done" ELSE "open"
BY DEF RequestOf, NoRequest

LEMMA RequestsStep ==
    ASSUME LifecycleInv, NEW p \in Process, NEW q \in Call, call' = [call EXCEPT ![p] = q]
    PROVE  /\ Requests' = [Requests EXCEPT ![p] = RequestOf(q)]
           /\ Requests[p] = RequestOf(call[p])
<1>1. ASSUME NEW r \in Process
      PROVE  RequestOf(call'[r]) = IF r = p THEN RequestOf(q) ELSE RequestOf(call[r])
  <2>1. call'[r] = IF r = p THEN q ELSE call[r]
    BY CallFacts
  <2> QED
    BY <2>1
<1>2. Requests' = [r \in Process |-> RequestOf(call'[r])]
  BY DEF Requests, RequestOf
<1>3. Requests' = [r \in Process |-> IF r = p THEN RequestOf(q) ELSE RequestOf(call[r])]
  BY <1>1, <1>2
<1> QED
  BY <1>3 DEF Requests

\* A step that the request does not show.
LEMMA HiddenStep ==
    ASSUME LifecycleInv, NEW p \in Process, NEW q \in Call, call' = [call EXCEPT ![p] = q],
           RequestOf(q) = RequestOf(call[p])
    PROVE  Requests' = Requests
BY RequestsStep DEF Requests

LEMMA SavedSame == ASSUME dirs' = dirs PROVE Saved' = Saved
BY DEF Saved

\* The call returns without a receipt: the request is dropped, if there was one.
LEMMA RegReturn ==
    ASSUME LifecycleInv, NEW p \in Process, Return(p), Saved' = Saved, UNCHANGED <<active, receipts>>
    PROVE  RegStep
<1>1. PICK q \in Call : q = NoCall
  BY NoCallFacts
<1>2. call' = [call EXCEPT ![p] = q] /\ RequestOf(q) = NoRequest
  BY <1>1, RequestFacts DEF Return, NoCall
<1>3. Requests' = [Requests EXCEPT ![p] = NoRequest] /\ Requests[p] = RequestOf(call[p])
  BY <1>2, RequestsStep
<1>4. CASE Requests[p] = NoRequest
  BY <1>3, <1>4 DEF RegStep, Requests
<1>5. CASE Requests[p] # NoRequest
  <2>1. Register!Return(p)
    BY <1>3, <1>5 DEF Register!Return, Register!NoRequest, NoRequest, Requests
  <2> QED
    BY <2>1 DEF RegStep, Register!RegNext
<1> QED
  BY <1>4, <1>5

\* The call goes on and its request stays as it is.
LEMMA RegGoto ==
    ASSUME LifecycleInv, NEW p \in Process, NEW pc \in PC, Goto(p, pc),
           pc \in {"verifyLoad", "verifyRead", "undo"}
              <=> call[p].pc \in {"verifyLoad", "verifyRead", "undo"}
    PROVE  Requests' = Requests
<1>1. PICK q \in Call : q = [call[p] EXCEPT !.pc = pc]
  BY CallFacts DEF Call
<1>2. q.pc = pc /\ q.job = call[p].job /\ q.expected = call[p].expected /\ q.new = call[p].new
  BY <1>1, CallFacts DEF Call
<1>3. call' = [call EXCEPT ![p] = q]
  BY <1>1, CallFacts DEF Goto, Call
<1>4. RequestOf(q) = RequestOf(call[p])
  BY <1>2 DEF RequestOf
<1> QED
  BY <1>3, <1>4, HiddenStep

LEMMA RegStart ==
    ASSUME LifecycleInv, SoloInv, NEW p \in Process,
           StageRevision(p) \/ CreateRecoverySnapshot(p)
    PROVE  RegStep
<1>1. PICK q \in Call, job \in {"stage", "snapshot"} :
         q.job = job /\ call' = [call EXCEPT ![p] = q]
  <2>1. CASE StageRevision(p)
    <3>1. PICK c \in Valid :
             call' = [call EXCEPT ![p].job = "stage", ![p].pc = "mkdir", ![p].copy = c]
      BY <2>1 DEF StageRevision
    <3>2. PICK q \in Call : q = [call[p] EXCEPT !.job = "stage", !.pc = "mkdir", !.copy = c]
      BY CallFacts, LifecycleAssumption DEF Call, Job, PC, Content
    <3> QED
      BY <3>1, <3>2, CallFacts DEF Call
  <2>2. CASE CreateRecoverySnapshot(p)
    <3>1. PICK q \in Call : q = [call[p] EXCEPT !.job = "snapshot", !.pc = "load"]
      BY CallFacts DEF Call, Job, PC
    <3> QED
      BY <2>2, <3>1, CallFacts DEF CreateRecoverySnapshot, Call
  <2> QED
    BY <2>1, <2>2
<1>2. call[p].job = "none"
  BY SoloFacts DEF StageRevision, CreateRecoverySnapshot, SoloCall, NoCall
<1>3. RequestOf(q) = RequestOf(call[p])
  BY <1>1, <1>2, CallFacts, RequestFacts
<1>4. Requests' = Requests
  BY <1>1, <1>3, HiddenStep
<1>5. UNCHANGED <<active, dirs, receipts>>
  BY DEF StageRevision, CreateRecoverySnapshot
<1> QED
  BY <1>4, <1>5, SavedSame DEF RegStep

LEMMA RegSubmit ==
    ASSUME LifecycleInv, SoloInv, NEW p \in Process, NEW d \in Dir,
           ActivateStagedRevision(p, d) \/ RestoreRecoverySnapshot(p, d)
    PROVE  RegStep
<1>1. PICK e \in Config, job \in {"activate", "restore"} :
         call' = [call EXCEPT ![p].job = job, ![p].pc = "compare",
                              ![p].expected = e, ![p].new = dirs[d].config]
  BY DEF ActivateStagedRevision, RestoreRecoverySnapshot
<1>2. PICK n \in Valid : n = dirs[d].config
  BY DEF ActivateStagedRevision, RestoreRecoverySnapshot, Usable
<1>3. PICK q \in Call : q = [call[p] EXCEPT !.job = job, !.pc = "compare",
                                           !.expected = e, !.new = n]
  BY CallFacts, LifecycleAssumption DEF Call, Job, PC, Content
<1>4. q.job = job /\ q.pc = "compare" /\ q.expected = e /\ q.new = n
  BY <1>3, CallFacts DEF Call
<1>5. call' = [call EXCEPT ![p] = q]
  BY <1>1, <1>2, <1>3, CallFacts DEF Call
<1>6. RequestOf(q) = [kind |-> job, status |-> "open", expected |-> e, new |-> n]
  BY <1>4 DEF RequestOf
<1>7. call[p].job = "none"
  <2>1. call[p].pc = "idle"
    BY DEF ActivateStagedRevision, RestoreRecoverySnapshot
  <2>2. call[p] = NoCall
    BY <2>1, SoloFacts DEF SoloCall
  <2> QED
    BY <2>2 DEF NoCall
<1>8. Requests[p] = NoRequest
  BY <1>5, <1>7, RequestsStep, RequestFacts, CallFacts
<1>9. Requests' = [Requests EXCEPT ![p] = [kind |-> job, status |-> "open", expected |-> e, new |-> n]]
  BY <1>5, <1>6, RequestsStep
<1>10. UNCHANGED <<active, Saved, receipts>>
  BY SavedSame DEF ActivateStagedRevision, RestoreRecoverySnapshot
<1>11. Register!Submit(p)
  BY <1>8, <1>9, <1>10 DEF Register!Submit, Register!NoRequest, NoRequest, Requests
<1> QED
  BY <1>11 DEF RegStep, Register!RegNext

LEMMA RegReadActive ==
    ASSUME LifecycleInv, NEW p \in Process, ReadActive(p) PROVE RegStep
<1>1. active \in Config /\ call[p].pc = "read" /\ UNCHANGED <<active, dirs, receipts>>
  BY DEF LifecycleInv, TypeOK, ReadActive
<1>2. PICK q \in Call : q = [call[p] EXCEPT !.pc = "mkdir", !.copy = active]
  BY <1>1, CallFacts DEF Call, PC, Content
<1>3. q.pc = "mkdir" /\ q.job = call[p].job /\ q.expected = call[p].expected /\ q.new = call[p].new
  BY <1>2, CallFacts DEF Call
<1>4. call' = [call EXCEPT ![p] = q]
  BY <1>2, CallFacts DEF ReadActive, Call
<1>5. RequestOf(q) = RequestOf(call[p])
  BY <1>1, <1>3 DEF RequestOf
<1> QED
  BY <1>1, <1>4, <1>5, HiddenStep, SavedSame DEF RegStep

LEMMA RegLoadActive ==
    ASSUME LifecycleInv, NEW p \in Process, LoadActive(p) PROVE RegStep
<1>1. UNCHANGED <<active, dirs, receipts>> /\ call[p].pc = "load"
  BY DEF LoadActive
<1>2. CASE Goto(p, "read")
  <2>1. Requests' = Requests
    BY <1>1, <1>2, RegGoto DEF PC
  <2> QED
    BY <1>1, <2>1, SavedSame DEF RegStep
<1> QED
  BY <1>1, <1>2, SavedSame, RegReturn DEF LoadActive

LEMMA RegCompare ==
    ASSUME LifecycleInv, NEW p \in Process, Compare(p) PROVE RegStep
<1>1. active \in Config /\ call[p].pc = "compare" /\ UNCHANGED <<active, dirs, receipts>>
  BY DEF LifecycleInv, TypeOK, Compare
<1>2. CASE Return(p)
  BY <1>1, <1>2, SavedSame, RegReturn
<1>3. CASE ~Return(p)
  <2>1. PICK pc \in {"load", "install"} :
           call' = [call EXCEPT ![p].current = active, ![p].pc = pc]
    BY <1>3 DEF Compare
  <2>2. PICK q \in Call : q = [call[p] EXCEPT !.current = active, !.pc = pc]
    BY <1>1, CallFacts DEF Call, PC, Content
  <2>3. q.pc = pc /\ q.job = call[p].job /\ q.expected = call[p].expected /\ q.new = call[p].new
    BY <2>2, CallFacts DEF Call
  <2>4. call' = [call EXCEPT ![p] = q]
    BY <2>1, <2>2, CallFacts DEF Call
  <2>5. RequestOf(q) = RequestOf(call[p])
    BY <1>1, <2>3 DEF RequestOf
  <2> QED
    BY <1>1, <2>4, <2>5, HiddenStep, SavedSame DEF RegStep
<1> QED
  BY <1>2, <1>3

\* The contents saved once directory d is r.
Keeps(r) == r.kind = "snapshot" /\ r.digest # NoConfig /\ r.config # NoConfig

LEMMA SavedStep ==
    ASSUME LifecycleInv, NEW d \in Dir, NEW r \in Revision, dirs' = [dirs EXCEPT ![d] = r],
           ~Keeps(dirs[d])
    PROVE  Saved' = Saved \cup (IF Keeps(r) THEN {r.config} ELSE {})
<1>1. \A e \in Dir : dirs'[e] = IF e = d THEN r ELSE dirs[e]
  BY RevisionFacts
<1>2. \A c : c \in Saved <=> \E e \in Dir : Keeps(dirs[e]) /\ c = dirs[e].config
  BY DEF Saved, Keeps
<1>3. \A c : c \in Saved' <=> \E e \in Dir : Keeps(dirs'[e]) /\ c = dirs'[e].config
  BY DEF Saved, Keeps
<1>4. ASSUME NEW c PROVE c \in Saved' <=> c \in Saved \/ (Keeps(r) /\ c = r.config)
  <2>1. ASSUME c \in Saved' PROVE c \in Saved \/ (Keeps(r) /\ c = r.config)
    <3>1. PICK e \in Dir : Keeps(dirs'[e]) /\ c = dirs'[e].config
      BY <1>3, <2>1
    <3>2. CASE e = d
      BY <1>1, <3>1, <3>2
    <3>3. CASE e # d
      BY <1>1, <1>2, <3>1, <3>3
    <3> QED
      BY <3>2, <3>3
  <2>2. ASSUME c \in Saved PROVE c \in Saved'
    <3>1. PICK e \in Dir : Keeps(dirs[e]) /\ c = dirs[e].config
      BY <1>2, <2>2
    <3>2. dirs'[e] = dirs[e]
      BY <1>1, <3>1
    <3> QED
      BY <1>3, <3>1, <3>2
  <2>3. ASSUME Keeps(r), c = r.config PROVE c \in Saved'
    <3>1. dirs'[d] = r
      BY <1>1
    <3> QED
      BY <1>3, <2>3, <3>1
  <2> QED
    BY <2>1, <2>2, <2>3
<1> QED
  BY <1>4

LEMMA RegMakeDirectory ==
    ASSUME LifecycleInv, NEW p \in Process, MakeDirectory(p) PROVE RegStep
<1>1. PICK d \in Dir :
         /\ dirs[d] = Free
         /\ dirs' = [dirs EXCEPT ![d].kind = KindOf(call[p].job)]
         /\ call' = [call EXCEPT ![p].pc = "config", ![p].dir = d]
  BY DEF MakeDirectory
<1>2. PICK q \in Call : q = [call[p] EXCEPT !.pc = "config", !.dir = d]
  BY CallFacts DEF Call, PC
<1>3. q.pc = "config" /\ q.job = call[p].job /\ q.expected = call[p].expected /\ q.new = call[p].new
  BY <1>2, CallFacts DEF Call
<1>4. call' = [call EXCEPT ![p] = q]
  BY <1>1, <1>2, CallFacts DEF Call
<1>5. RequestOf(q) = RequestOf(call[p])
  BY <1>3 DEF RequestOf, MakeDirectory
<1>6. PICK r \in Revision : r = [dirs[d] EXCEPT !.kind = KindOf(call[p].job)]
  BY RevisionFacts DEF Revision, KindOf
<1>7. dirs' = [dirs EXCEPT ![d] = r]
  BY <1>1, <1>6, RevisionFacts DEF Revision
<1>8. ~Keeps(r) /\ ~Keeps(dirs[d])
  BY <1>1, <1>6, FreeFacts, RevisionFacts DEF Revision, Keeps
<1>9. Saved' = Saved
  BY <1>7, <1>8, SavedStep
<1>10. UNCHANGED <<active, receipts>>
  BY DEF MakeDirectory
<1> QED
  BY <1>4, <1>5, <1>9, <1>10, HiddenStep DEF RegStep

LEMMA RegWriteConfig ==
    ASSUME LifecycleInv, NEW p \in Process, WriteConfig(p) PROVE RegStep
<1>1. /\ call[p].pc = "config" /\ call[p].copy \in Config /\ call[p].dir \in Dir
      /\ dirs[call[p].dir].digest = NoConfig
  BY CallFacts DEF WriteConfig, Owns, Holds, Building
<1>2. PICK d \in Dir : d = call[p].dir
  BY <1>1
<1>3. PICK r \in Revision : r = [dirs[d] EXCEPT !.config = call[p].copy]
  BY <1>1, RevisionFacts DEF Revision, Content
<1>4. dirs' = [dirs EXCEPT ![d] = r]
  BY <1>2, <1>3, RevisionFacts DEF WriteConfig, Revision
<1>5. ~Keeps(r) /\ ~Keeps(dirs[d])
  BY <1>1, <1>2, <1>3, RevisionFacts DEF Revision, Keeps
<1>6. Saved' = Saved
  BY <1>4, <1>5, SavedStep
<1>7. Requests' = Requests
  BY <1>1, RegGoto DEF WriteConfig, PC
<1> QED
  BY <1>6, <1>7 DEF RegStep, WriteConfig

\* The manifest completes the directory: a snapshot is saved from now on.
LEMMA RegWriteManifest ==
    ASSUME LifecycleInv, SoloInv, NEW p \in Process, WriteManifest(p) PROVE RegStep
<1>1. /\ call[p].pc = "manifest" /\ call[p].copy \in Config /\ call[p].dir \in Dir
      /\ dirs[call[p].dir].kind = KindOf(call[p].job)
      /\ dirs[call[p].dir].config = call[p].copy
      /\ dirs[call[p].dir].digest = NoConfig
  BY CallFacts DEF WriteManifest, Owns, Holds, Building
<1>2. PICK d \in Dir : d = call[p].dir
  BY <1>1
<1>3. PICK r \in Revision : r = [dirs[d] EXCEPT !.digest = call[p].copy]
  BY <1>1, RevisionFacts DEF Revision, Content
<1>4. r.kind = dirs[d].kind /\ r.config = dirs[d].config /\ r.digest = call[p].copy
  BY <1>3, RevisionFacts DEF Revision
<1>5. dirs' = [dirs EXCEPT ![d] = r]
  BY <1>2, <1>3, RevisionFacts DEF WriteManifest, Revision
<1>6. Saved' = Saved \cup (IF Keeps(r) THEN {r.config} ELSE {})
  BY <1>1, <1>2, <1>5, SavedStep DEF Keeps
<1>7. call[p].job \in {"stage", "snapshot", "activate"}
  BY <1>1, SoloFacts DEF SoloCall
<1>8. UNCHANGED <<active, receipts>>
  BY DEF WriteManifest
<1>9. CASE call[p].job = "stage"
  <2>1. Saved' = Saved
    BY <1>1, <1>2, <1>4, <1>6, <1>9 DEF Keeps, KindOf
  <2> QED
    BY <1>8, <1>9, <2>1, RegReturn DEF WriteManifest
<1>10. CASE call[p].job # "stage"
  <2>1. call[p].copy = active
    BY <1>1, <1>7, <1>10, SoloFacts DEF SoloCall
  <2>2. Keeps(r) /\ r.config = active
    BY <1>1, <1>2, <1>4, <1>10, <2>1, LifecycleAssumption DEF Keeps, KindOf
  <2>3. Saved' = Saved \cup {active}
    BY <1>6, <2>2
  <2>4. Requests' = Requests
    <3>1. CASE call[p].job = "activate"
      BY <1>1, <3>1, RegGoto DEF WriteManifest, PC
    <3>2. CASE call[p].job = "snapshot"
      <4>1. PICK q \in Call : q = NoCall
        BY NoCallFacts
      <4>2. call' = [call EXCEPT ![p] = q] /\ RequestOf(q) = NoRequest
        BY <3>2, <4>1, RequestFacts DEF WriteManifest, Return, NoCall
      <4>3. RequestOf(call[p]) = NoRequest
        BY <3>2, CallFacts, RequestFacts
      <4> QED
        BY <4>2, <4>3, HiddenStep
    <3> QED
      BY <1>7, <1>10, <3>1, <3>2
  <2>5. Register!Save
    BY <1>8, <2>3, <2>4 DEF Register!Save, Requests
  <2> QED
    BY <2>5 DEF RegStep, Register!RegNext
<1> QED
  BY <1>9, <1>10

\* The rename is the swap: the active content is the expected one, and saved.
LEMMA RegInstall ==
    ASSUME LifecycleInv, SoloInv, NEW p \in Process, Install(p) PROVE RegStep
<1>1. /\ call[p].pc = "install" /\ call[p].job \in {"activate", "restore"}
      /\ active = call[p].expected
  BY CallFacts, SoloFacts DEF Install, Holds, SoloCall
<1>2. call[p].job = "activate" => active \in Saved
  <2>1. active # NoConfig
    BY LifecycleAssumption DEF LifecycleInv, TypeOK
  <2> QED
    BY <1>1, <2>1, SoloFacts DEF SoloCall, Saved
<1>3. PICK q \in Call : q = [call[p] EXCEPT !.pc = "verifyLoad"]
  BY CallFacts DEF Call, PC
<1>4. /\ q.pc = "verifyLoad" /\ q.job = call[p].job
      /\ q.expected = call[p].expected /\ q.new = call[p].new
  BY <1>3, CallFacts DEF Call
<1>5. call' = [call EXCEPT ![p] = q]
  BY <1>3, CallFacts DEF Install, Goto, Call
<1>6. RequestOf(q) = [RequestOf(call[p]) EXCEPT !.status = "done"]
  BY <1>1, <1>4 DEF RequestOf
<1>7. Requests' = [Requests EXCEPT ![p].status = "done"] /\ Requests[p] = RequestOf(call[p])
  BY <1>5, <1>6, RequestsStep DEF Requests
<1>8. /\ Requests[p].kind = call[p].job /\ Requests[p].status = "open"
      /\ Requests[p].expected = call[p].expected /\ Requests[p].new = call[p].new
  BY <1>1, <1>7, RequestFacts, CallFacts
<1>9. active' = call[p].new /\ UNCHANGED <<Saved, receipts>>
  BY SavedSame DEF Install, AtomicWrite
<1>10. Register!Swap(p)
  BY <1>1, <1>2, <1>7, <1>8, <1>9 DEF Register!Swap, Requests
<1> QED
  BY <1>10 DEF RegStep, Register!RegNext

LEMMA RegVerify ==
    ASSUME LifecycleInv, SoloInv, NEW p \in Process, VerifyLoad(p) \/ VerifyRead(p) \/ VerifyFails(p)
    PROVE  RegStep
<1>1. call[p].pc \in {"verifyLoad", "verifyRead"} /\ UNCHANGED <<active, dirs>>
  BY DEF VerifyLoad, VerifyRead, VerifyFails
<1>2. CASE (Goto(p, "verifyRead") \/ Goto(p, "undo")) /\ UNCHANGED receipts
  <2>1. Requests' = Requests
    BY <1>1, <1>2, RegGoto DEF PC
  <2> QED
    BY <1>1, <1>2, <2>1, SavedSame DEF RegStep
<1>3. CASE /\ Return(p)
           /\ active = call[p].new
           /\ receipts' = receipts \cup {[previous |-> call[p].current, installed |-> active]}
  <2>1. PICK q \in Call : q = NoCall
    BY NoCallFacts
  <2>2. call' = [call EXCEPT ![p] = q] /\ RequestOf(q) = NoRequest
    BY <1>3, <2>1, RequestFacts DEF Return, NoCall
  <2>3. Requests' = [Requests EXCEPT ![p] = NoRequest] /\ Requests[p] = RequestOf(call[p])
    BY <2>2, RequestsStep
  <2>4. call[p].job \in {"activate", "restore"} /\ call[p].current = call[p].expected
    BY <1>1, CallFacts, SoloFacts DEF Holds, SoloCall
  <2>5. /\ Requests[p] # NoRequest /\ Requests[p].status = "done"
        /\ Requests[p].expected = call[p].current /\ Requests[p].new = active
    BY <1>1, <1>3, <2>3, <2>4, RequestFacts, CallFacts
  <2>6. Register!Return(p)
    BY <1>1, <1>3, <2>3, <2>5, SavedSame DEF Register!Return, Register!NoRequest, NoRequest, Requests
  <2> QED
    BY <2>6 DEF RegStep, Register!RegNext
<1> QED
  BY <1>2, <1>3 DEF VerifyLoad, VerifyRead, VerifyFails, Bounds

\* The undo takes the swap back.
LEMMA RegUndo ==
    ASSUME LifecycleInv, SoloInv, NEW p \in Process, Undo(p) PROVE RegStep
<1>1. /\ call[p].pc = "undo" /\ call[p].job \in {"activate", "restore"}
      /\ call[p].current = call[p].expected
  BY CallFacts, SoloFacts DEF Undo, Holds, SoloCall
<1>2. PICK q \in Call : q = NoCall
  BY NoCallFacts
<1>3. call' = [call EXCEPT ![p] = q] /\ RequestOf(q) = NoRequest
  BY <1>2, RequestFacts DEF Undo, Return, NoCall
<1>4. Requests' = [Requests EXCEPT ![p] = NoRequest] /\ Requests[p] = RequestOf(call[p])
  BY <1>3, RequestsStep
<1>5. Requests[p].status = "done" /\ Requests[p].expected = call[p].current
  BY <1>1, <1>4, RequestFacts, CallFacts
<1>6. active' = call[p].current /\ UNCHANGED <<Saved, receipts>>
  BY SavedSame DEF Undo, AtomicWrite
<1>7. Register!Revert(p)
  BY <1>4, <1>5, <1>6 DEF Register!Revert, Register!NoRequest, NoRequest, Requests
<1> QED
  BY <1>7 DEF RegStep, Register!RegNext

LEMMA RegEdit ==
    ASSUME OneAtATime, LifecycleInv, SoloInv, Edit PROVE RegStep
<1>1. \A p \in Process : call[p].pc = "idle"
  BY DEF Edit, OneAtATime
<1>2. \A p \in Process : call[p] = NoCall
  BY <1>1, SoloFacts DEF SoloCall
<1>3. RequestOf(NoCall) = NoRequest
  BY DEF RequestOf, NoRequest, NoCall
<1>4. \A p \in Process : Requests[p] = NoRequest
  BY <1>2, <1>3 DEF Requests
<1>5. Requests' = Requests /\ UNCHANGED <<Saved, receipts>> /\ active' \in Config
  BY SavedSame DEF Edit, AtomicWrite, Requests
<1>6. Register!Overwrite
  BY <1>4, <1>5 DEF Register!Overwrite, Register!NoRequest, NoRequest, Requests
<1> QED
  BY <1>6 DEF RegStep, Register!RegNext

LEMMA RegInitMaps == Init => Register!RegInit
<1> SUFFICES ASSUME Init PROVE Register!RegInit
  OBVIOUS
<1>1. Saved = {}
  BY FreeFacts DEF Init, Saved
<1>2. RequestOf(NoCall) = NoRequest
  BY DEF RequestOf, NoRequest, NoCall
<1>3. Requests = [p \in Process |-> NoRequest]
  BY <1>2 DEF Init, Requests
<1> QED
  BY <1>1, <1>3 DEF Init, Register!RegInit, Register!NoRequest, NoRequest, Requests

LEMMA RegNextMaps ==
    ASSUME OneAtATime, MaxPowerLosses = 0, LifecycleInv, SoloInv, [Next]_vars
    PROVE  [Register!RegNext]_<<active, Saved, Requests, receipts>>
<1> SUFFICES RegStep
  BY DEF RegStep
<1>1. CASE UNCHANGED vars
  BY <1>1, SavedSame DEF vars, RegStep, Requests
<1>2. ~PowerLoss
  BY LifecycleAssumption DEF PowerLoss, LifecycleInv, TypeOK
<1>3. ASSUME NEW p \in Process, MakeDirectoryFails(p) \/ Abort(p) PROVE RegStep
  BY <1>3, RegReturn, SavedSame DEF MakeDirectoryFails, Abort
<1> QED
  BY <1>1, <1>2, <1>3, RegStart, RegSubmit, RegLoadActive, RegReadActive, RegMakeDirectory,
     RegWriteConfig, RegWriteManifest, RegCompare, RegInstall, RegVerify, RegUndo, RegEdit DEF Next

\* The compare-and-swap of recovery.go, for any contents, directories, errors and
\* deaths: seen from outside, the calls of one operator, their undo and their receipts
\* are those of a register that is compared and replaced in one step.  (With racing
\* calls it is not: NoNewerStateOverwritten.)
THEOREM AloneImplementsRegister ==
    OneAtATime /\ MaxPowerLosses = 0 => (Spec => ImplementsRegister)
<1> SUFFICES ASSUME OneAtATime, MaxPowerLosses = 0 PROVE Spec => ImplementsRegister
  OBVIOUS
<1>1. LifecycleInv /\ SoloInv /\ [Next]_vars => [Register!RegNext]_(Register!regVars)
  BY RegNextMaps DEF Register!regVars, Requests
<1>2. Spec => []SoloInv
  BY AloneNothingChanges
<1> QED
  BY <1>1, <1>2, RegInitMaps, LifecycleAlwaysInv, PTL DEF Spec, ImplementsRegister, Register!RegSpec

=============================================================================
