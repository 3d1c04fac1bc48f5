------------------------ MODULE MCAcmeRolloverModes ------------------------
(***************************************************************************)
(* AcmeRollover with one operator at a time and many faults (alone), and   *)
(* with operators that interleave and few faults, in one run.              *)
(***************************************************************************)
EXTENDS AcmeRollover, TLC

CONSTANT FewFaults  \* bound on faults while operators interleave

ASSUME FewFaultsAssumption == FewFaults \in Nat

VARIABLE alone

Busy == {o \in Operator : proc[o] # Idle}

ModesInit == Init /\ alone \in BOOLEAN

ModesNext ==
    /\ Next
    /\ UNCHANGED alone
    /\ IF alone THEN \A o, u \in Busy' : o = u ELSE faults' <= FewFaults

ModesSpec == ModesInit /\ [][ModesNext]_<<vars, alone>>

\* WithinReach when commands do not overlap: the account's key is active, or the recovery
\* procedure is not refused.
AloneWithinReach == alone => WithinReach

\* StagedBeforeCall when commands do not overlap: what recovery needs is durable before
\* the CA is asked to change the key.
AloneStagedBeforeCall == alone => StagedBeforeCall

\* A new active key is one the CA recognises, when commands do not overlap.
ActiveFollowsCA == [][alone => FollowsCA]_<<vars, alone>>

\* The active envelope stays whole, when commands do not overlap.
ActiveStaysWhole == [][alone => StaysWhole]_<<vars, alone>>

-----------------------------------------------------------------------------
(* The inductive invariant behind the four, beside RolloverInv.            *)

Writing == {"write", "fsync", "flush"}

\* What a lone command knows: the directory is what it last read or wrote.
LoneProc(q) ==
    /\ q.pc = "register" => disk[Account].whole /\ disk[Account].key = q.signer
    /\ q.job = "prepare" => disk[Account].whole
    /\ q.pc \in Writing =>
          /\ [disk EXCEPT ![q.path] = Absent] \in survivors
          /\ disk[q.path] = q.out
          /\ (q.out.whole <=> q.pc # "write") /\ (q.out.synced <=> q.pc = "flush")
          /\ q.path # Account => disk[Account].whole
    /\ q.job \in {"execute", "old", "new"} /\ q.pc # "sync" =>
          /\ LoadPrepared(q.new) /\ disk[Account].key = q.signer
          /\ q.pc \in {"retire", "stage", "call"} \cup Writing => q.held = disk[Account]
          /\ q.pc \in Writing /\ q.path = Retired(q.new) =>
                q.out.key = q.held.key /\ q.out.nonce = q.held.nonce
    /\ q.pc \in {"stage", "call"} => SameBytes(disk[Retired(q.new)], q.held)
    /\ q.pc \in Writing /\ q.path = Pending(q.new) => SameBytes(disk[Retired(q.new)], q.held)
    /\ q.pc = "call" => survivors = {disk} /\ disk[Pending(q.new)].synced
    /\ q.pc \in {"call", "activate", "resolve"} => disk[Pending(q.new)].whole
    /\ q.job \in {"old", "new"} /\ q.pc \in {"retire"} \cup Writing =>
          disk[Pending(q.new)].whole
    /\ q.pc = "activate" => q.new \in caKeys
    /\ q.job = "new" /\ q.pc \in {"reread", "retire", "resolve"} \cup Writing =>
          q.new \in caKeys

\* A file that is not synced is being written, or was left behind before it could be; the
\* active one may have been left behind as a pending one.
Stored(p) ==
    disk[p].whole => \/ disk[p].synced \/ p \in loose \/ (p = Account /\ loose # {})
                     \/ \E o \in Operator : proc[o].pc = "fsync" /\ proc[o].path = p

\* The CA against the directories that can survive: the account's key before the first
\* registration, after a key change, and while one may still be carried out.
AccountInv ==
    /\ caKeys = {} =>
          \A d \in survivors : d[Account].key \in Key => origin[d[Account].key] = "created"
    /\ WithinReach
    /\ loose = {} =>
          \A r \in inflight : caKeys \subseteq {r[1]} =>
             \A d \in survivors : Kept(d[Account]) /\ d[Account].key = r[1] /\ Recoverable(r[2], d)

Used(k) == origin[k] # "unused"

\* age orders the keys by when they were generated, and the next one is n: a bundle's old
\* key is older than its new one, and the active key never older than the signer of a key
\* change that may still be carried out.
Ordered(age, n) ==
    /\ \A k \in Key : Used(k) => age[k] < n
    /\ \A d \in survivors, k \in Key : d[Bundle(k)].key \in Key =>
          Used(k) /\ Used(d[Bundle(k)].key) /\ age[d[Bundle(k)].key] < age[k]
    /\ \A o \in Operator : proc[o].job = "prepare" =>
          Used(proc[o].signer) /\ age[proc[o].signer] < age[proc[o].new]
    /\ \A r \in inflight : Used(r[1]) /\
          \A d \in survivors : d[Account].key \in Key => age[r[1]] <= age[d[Account].key]

InOrder == \E age \in [Key -> Nat], n \in Nat : Ordered(age, n)

LoneInv ==
    alone => /\ \A o, u \in Busy : o = u
             /\ \A o \in Operator : LoneProc(proc[o])
             /\ \A p \in Path : Stored(p)
             /\ AccountInv
             /\ InOrder

Symmetry == Permutations(Key) \cup Permutations(Operator)

=============================================================================
