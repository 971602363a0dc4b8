---------------------------- MODULE RestoreProofs ----------------------------
(***************************************************************************)
(* Proofs about Restore, for any number of restorers, restores and         *)
(* transactions.  The inductive invariant follows a restore step by step:  *)
(* what its staging file holds, that the WAL is empty or a warning was     *)
(* given once the checkpoint is past, and that what is live is in a backup *)
(* once the copy is made, although other restores swap, copy and rotate.   *)
(***************************************************************************)
EXTENDS Restore, FiniteSetTheorems, SequenceTheorems, TLAPS

Staging  == {"validate", "checkpoint", "copy", "final", "swap"}
Accepted == {"checkpoint", "copy", "final", "swap"}

(* What a process knows of its own restore. *)
JobOK(r) ==
    /\ pc[r] = "opened" => job[r].fd \in Run
    /\ pc[r] \in Staging \cup {"opened", "stage"} => job[r].source \in Source
    /\ pc[r] \in Staging =>
         /\ job[r].staged \in File /\ job[r].staged.sound
         /\ job[r].staged.txns \subseteq job[r].source \cup Txn
         /\ env.concurrent = {} => job[r].staged.txns = job[r].source
    /\ pc[r] \in Accepted => job[r].source \notin Invalid
    /\ pc[r] \in {"copy", "sidecars"} => live # None

FilesOK ==
    /\ wal # None => live # None /\ wal.txns \subseteq Txn
    /\ RefusedNeverLive

Alone ==
    ~env.parallel =>
        \A r, s \in Restorer : pc[r] # "idle" /\ pc[s] # "idle" => r = s

(* Without disturbance: the files, and what each restore has done to them. *)
WholeNow ==
    /\ live # None => live.sound
    /\ Fits(live, wal) \/ (env.readers /\ \E r \in Restorer : pc[r] = "sidecars")

LiveSaved == live = None \/ live.txns \cap Txn \subseteq UnionOf(backups)

Tidy(r) ==
    /\ pc[r] \in {"copy", "final", "swap", "sidecars"} /\ ~env.readers => wal = None
    /\ pc[r] \in {"copy", "final", "swap"} => wal = None \/ job[r].warned
    /\ pc[r] \in {"final", "swap"} => LiveSaved \/ job[r].warned
    /\ ~env.readers => ~job[r].warned

TidyAll == Undisturbed => WholeNow /\ \A r \in Restorer : Tidy(r)

(* A restore makes at most one backup. *)
BeforeCopy ==
    {r \in Restorer : pc[r] \in {"opened", "stage", "validate", "checkpoint", "copy"}}

Counted ==
    IsFiniteSet(BeforeCopy) /\ Len(backups) + Cardinality(BeforeCopy) <= runs

IInv ==
    /\ TypeOK /\ FilesOK /\ Alone /\ TidyAll /\ Counted /\ NothingLost
    /\ \A r \in Restorer : JobOK(r)

-----------------------------------------------------------------------------
(* Backups, rotated. *)
Rotated(txns) ==
    LET all == <<txns>> \o backups
    IN  SubSeq(all, 1, IF Len(all) > Keep THEN Keep ELSE Len(all))

LEMMA Rotation ==
    ASSUME NEW S, NEW txns \in S, backups \in Seq(S), Len(backups) <= Keep
    PROVE  /\ Rotated(txns) \in Seq(S) /\ Len(Rotated(txns)) <= Keep
           /\ Len(Rotated(txns)) <= Len(backups) + 1
           /\ txns \subseteq UnionOf(Rotated(txns))
           /\ Len(backups) < Keep =>
                 UnionOf(backups) \subseteq UnionOf(Rotated(txns))
<1>. DEFINE all == <<txns>> \o backups
            n   == IF Len(all) > Keep THEN Keep ELSE Len(all)
            new == SubSeq(all, 1, n)
<1>1. /\ <<txns>> \in Seq(S) /\ Len(<<txns>>) = 1 /\ <<txns>>[1] = txns
      /\ Len(backups) \in Nat /\ Keep = 3
  BY DEF Keep
<1>2. /\ all \in Seq(S) /\ Len(all) = Len(backups) + 1 /\ all[1] = txns
      /\ \A j \in 1 .. Len(backups) : all[j + 1] = backups[j]
  BY <1>1, ConcatProperties
<1>. HIDE DEF all
<1>3. n \in 1 .. Len(all) /\ n \in Int /\ n <= Keep
  BY <1>1, <1>2
<1>. HIDE DEF n
<1>4. \A j \in 1 .. n : all[j] \in S
  BY <1>2, <1>3, ElementOfSeq
<1>5. /\ new \in Seq(S) /\ Len(new) = n
      /\ \A j \in 1 .. n : new[j] = all[j]
  BY <1>3, <1>4, SubSeqProperties
<1>6. Rotated(txns) = new
  BY DEF Rotated, all, n
<1>. HIDE DEF new
<1>7. txns \subseteq UnionOf(new)
  BY <1>2, <1>3, <1>5 DEF UnionOf
<1>8. ASSUME Len(backups) < Keep PROVE UnionOf(backups) \subseteq UnionOf(new)
  <2>1. n = Len(backups) + 1
    BY <1>1, <1>2, <1>8 DEF n
  <2>2. \A j \in 1 .. Len(backups) : j + 1 \in 1 .. n /\ new[j + 1] = backups[j]
    BY <1>1, <1>2, <1>5, <2>1
  <2>. QED BY <1>5, <2>2 DEF UnionOf
<1>. QED BY <1>2, <1>3, <1>5, <1>6, <1>7, <1>8

-----------------------------------------------------------------------------
(* Types. *)
PCs  == {"idle", "opened", "stage", "validate", "checkpoint", "copy", "final",
         "swap", "sidecars", "unlock", "unlink"}
Jobs == [run : 0 .. MaxRestores, fd : Run \cup {None}, source : Source \cup {{}},
         staged : File \cup {None}, warned : BOOLEAN]

FileTypes ==
    /\ live \in File \cup {None} /\ wal \in Wal \cup {None}
    /\ backups \in Seq(SUBSET Contents) /\ Len(backups) <= Keep

LockTypes ==
    /\ lockPath \in Run \cup {None} /\ holder \in [Run -> Restorer \cup {None}]
    /\ pc \in [Restorer -> PCs] /\ job \in [Restorer -> Jobs]
    /\ runs \in 0 .. env.restores /\ acked \subseteq Txn /\ env \in Env

LEMMA Types ==
    (TypeOK <=> FileTypes /\ LockTypes) /\ (TypeOK' <=> FileTypes' /\ LockTypes')
BY DEF TypeOK, FileTypes, LockTypes, PCs, Jobs

LEMMA JobEdits ==
    ASSUME LockTypes, NEW r \in Restorer
    PROVE  /\ \A file \in File \cup {None} :
                 [job EXCEPT ![r].staged = file] \in [Restorer -> Jobs]
           /\ [job EXCEPT ![r].warned = TRUE] \in [Restorer -> Jobs]
<1>1. job \in [Restorer -> Jobs]
  BY DEF LockTypes
<1>2. \A file \in File \cup {None} : [job[r] EXCEPT !.staged = file] \in Jobs
  BY <1>1 DEF Jobs
<1>3. [job[r] EXCEPT !.warned = TRUE] \in Jobs
  BY <1>1 DEF Jobs
<1>. QED BY <1>1, <1>2, <1>3

LEMMA EnvTypes ==
    ASSUME TypeOK
    PROVE  /\ env.restores \in 0 .. MaxRestores /\ runs \in Nat
           /\ runs <= MaxRestores /\ env.readers \in BOOLEAN
           /\ env.crashes \in BOOLEAN /\ env.parallel \in BOOLEAN
BY RestoreAssumption DEF TypeOK, Env

(* Connections. *)
LEMMA Merging ==
    ASSUME TypeOK, NEW file \in File
    PROVE  /\ Merged(file, wal) \in File /\ Merged(file, wal).id = file.id
           /\ Merged(file, wal).txns = Visible(file, wal)
           /\ Merged(file, wal).sound = (file.sound /\ Fits(file, wal))
           /\ Visible(Merged(file, wal), None) = Visible(file, wal)
<1>1. Visible(file, wal) \in SUBSET Contents
  BY NoneAssumption DEF Visible, File, Wal, TypeOK
<1>2. (file.sound /\ Fits(file, wal)) \in BOOLEAN
  BY DEF Fits, File
<1>. DEFINE v == Visible(file, wal)
            b == file.sound /\ Fits(file, wal)
<1>3. Merged(file, wal) = [file EXCEPT !.txns = v, !.sound = b]
  BY DEF Merged
<1>4. v \in SUBSET Contents /\ b \in BOOLEAN
  BY <1>1, <1>2
<1>. HIDE DEF v, b
<1>5. /\ Merged(file, wal) \in File /\ Merged(file, wal).id = file.id
      /\ Merged(file, wal).txns = v /\ Merged(file, wal).sound = b
  BY <1>3, <1>4 DEF File
<1>6. Visible(Merged(file, wal), None) = v
  BY <1>5, NoneAssumption DEF Visible
<1>. QED BY <1>5, <1>6 DEF v, b

LEMMA NewFile ==
    ASSUME TypeOK
    PROVE  LiveOrNew \in File /\ LiveOrNew # None /\ (live # None => LiveOrNew = live)
<1>1. [id |-> 0, txns |-> {}, sound |-> TRUE] \in File
  BY RestoreAssumption DEF File
<1>. QED BY <1>1, NoneAssumption DEF LiveOrNew, TypeOK

(* Every step but a command's and the four that move files. *)
Plain(r) ==
    \/ \E from \in Source : OpenLock(r, from)
    \/ Flock(r) \/ Stage(r) \/ Fail(r) \/ FailBeforeTry(r)
    \/ Unlock(r) \/ Unlink(r) \/ Exit(r) \/ Crash(r)
    \/ Validate(r, "validate", "checkpoint") \/ Validate(r, "final", "swap")

LEMMA PlainFiles ==
    ASSUME NEW r \in Restorer, Plain(r)
    PROVE  UNCHANGED <<live, wal, backups, acked, env>>
BY DEF Plain, OpenLock, Flock, Stage, Fail, FailBeforeTry, Unlock, Unlink, Exit, Crash,
       Validate, files

LEMMA PlainTypes ==
    ASSUME IInv, NEW r \in Restorer, Plain(r) PROVE TypeOK'
<1>. USE DEF LockTypes
<1>1. FileTypes /\ LockTypes /\ JobOK(r)
  BY Types DEF IInv
<1>2. FileTypes' /\ UNCHANGED <<acked, env>>
  BY <1>1, PlainFiles DEF FileTypes
<1>3. /\ job[r] \in Jobs /\ job[r].run \in 0 .. MaxRestores
      /\ job[r].fd \in Run \cup {None} /\ job[r].source \in Source \cup {{}}
      /\ runs \in Nat /\ env.restores \in Nat /\ env.restores <= MaxRestores
  BY <1>1, EnvTypes DEF Jobs, IInv
<1>4. ASSUME NEW from \in Source, OpenLock(r, from) PROVE LockTypes'
  <2>1. runs' \in 0 .. env.restores /\ runs' \in Run
    BY <1>3, <1>4, RestoreAssumption DEF OpenLock, Run
  <2>2. lockPath' \in Run \cup {None}
    BY <1>1, <1>4, <2>1 DEF OpenLock
  <2>3. [NoJob EXCEPT !.run = runs', !.fd = lockPath', !.source = from] \in Jobs
    <3>1. NoJob \in Jobs
      BY RestoreAssumption DEF NoJob, Jobs
    <3>2. runs' \in 0 .. MaxRestores
      BY <2>1 DEF Run
    <3>. QED BY <2>2, <3>1, <3>2 DEF Jobs
  <2>. QED BY <1>1, <1>2, <1>4, <2>1, <2>2, <2>3 DEF OpenLock, Goto, PCs
<1>5. ASSUME Flock(r) PROVE LockTypes'
  BY <1>1, <1>2, <1>5 DEF Flock, Goto, PCs
<1>6. ASSUME Stage(r) PROVE LockTypes'
  <2>1. job[r].source \subseteq Contents
    BY <1>3 DEF Contents
  <2>2. [id |-> job[r].run, txns |-> job[r].source, sound |-> TRUE] \in File
    BY <1>3, <2>1 DEF File
  <2>. QED BY <1>1, <1>2, <1>6, <2>2, JobEdits DEF Stage, Goto, PCs, locks
<1>7. ASSUME Fail(r) PROVE LockTypes'
  BY <1>1, <1>2, <1>7, JobEdits DEF Fail, PCs, locks
<1>8. ASSUME Unlock(r) PROVE LockTypes'
  BY <1>1, <1>2, <1>8 DEF Unlock, Released, Goto, PCs
<1>9. ASSUME Unlink(r) PROVE LockTypes'
  BY <1>1, <1>2, <1>9 DEF Unlink, Goto, PCs
<1>10. ASSUME Crash(r) PROVE LockTypes'
  BY <1>1, <1>2, <1>10, JobEdits DEF Crash, Released, PCs
<1>11. ASSUME FailBeforeTry(r) \/ Exit(r) PROVE LockTypes'
  BY <1>1, <1>2, <1>11 DEF FailBeforeTry, Exit, Released, Goto, PCs, locks
<1>12. ASSUME NEW from, NEW to \in PCs, Validate(r, from, to) PROVE LockTypes'
  BY <1>1, <1>2, <1>12 DEF Validate, Goto, locks
<1>13. LockTypes'
  <2>1. "checkpoint" \in PCs /\ "swap" \in PCs
    BY DEF PCs
  <2>. QED BY <2>1, <1>4, <1>5, <1>6, <1>7, <1>8, <1>9, <1>10, <1>11,
             <1>12 DEF Plain
<1>. QED BY <1>2, <1>13, Types

LEMMA FileStepTypes ==
    ASSUME IInv, NEW r \in Restorer,
           Checkpoint(r) \/ CopyLive(r) \/ Swap(r) \/ RemoveSidecars(r)
    PROVE  TypeOK'
<1>1. FileTypes /\ LockTypes /\ JobOK(r)
  BY Types DEF IInv
<1>2. CASE Checkpoint(r)
  <2>1. live # None => Merged(live, wal) \in File
    BY <1>1, Merging DEF IInv, FileTypes
  <2>2. job' = job \/ job' = [job EXCEPT ![r].warned = TRUE]
    BY <1>2 DEF Checkpoint
  <2>3. job' \in [Restorer -> Jobs]
    BY <1>1, <2>2, JobEdits DEF LockTypes
  <2>4. pc' \in [Restorer -> PCs]
    BY <1>1, <1>2 DEF Checkpoint, Goto, LockTypes, PCs
  <2>5. /\ live' \in File \cup {None} /\ wal' \in Wal \cup {None}
        /\ UNCHANGED <<backups, lockPath, holder, runs, acked, env>>
    BY <1>1, <1>2, <2>1 DEF Checkpoint, FileTypes, locks
  <2>. QED BY <1>1, <2>3, <2>4, <2>5, Types DEF FileTypes, LockTypes
<1>3. CASE CopyLive(r)
  <2>1. live.txns \in SUBSET Contents
    BY <1>1, <1>3 DEF CopyLive, Goto, JobOK, FileTypes, File
  <2>2. backups' = Rotated(live.txns)
    BY <1>3 DEF CopyLive, Rotated
  <2>3. FileTypes'
    BY <1>1, <1>3, <2>1, <2>2, Rotation DEF CopyLive, FileTypes
  <2>4. LockTypes'
    BY <1>1, <1>3 DEF CopyLive, Goto, LockTypes, PCs, locks
  <2>. QED BY <2>3, <2>4, Types
<1>4. CASE Swap(r)
  <2>1. live' \in File \cup {None} /\ job' \in [Restorer -> Jobs]
    BY <1>1, <1>4, JobEdits DEF Swap, LockTypes, Jobs
  <2>. QED BY <1>1, <1>4, <2>1, Types DEF Swap, Goto, FileTypes, LockTypes, PCs, locks
<1>5. CASE RemoveSidecars(r)
  BY <1>1, <1>5, Types DEF RemoveSidecars, Goto, FileTypes, LockTypes, PCs, locks
<1>. QED BY <1>2, <1>3, <1>4, <1>5

LEMMA CommandTypes == ASSUME IInv, Command PROVE TypeOK'
<1>1. FileTypes /\ LockTypes
  BY Types DEF IInv
<1>2. ASSUME NEW t \in Txn, CommandOnLive(t, TRUE) PROVE TypeOK'
  <2>1. [of |-> LiveOrNew.id, txns |-> {t}] \in Wal
    BY NewFile DEF IInv, File, Wal, Contents
  <2>2. wal # None => [wal EXCEPT !.txns = @ \cup {t}] \in Wal
    BY <1>1 DEF FileTypes, Wal, Contents
  <2>3. live' \in File /\ wal' \in Wal
    BY <1>2, <2>1, <2>2, NewFile DEF CommandOnLive, IInv
  <2>. QED BY <1>1, <1>2, <2>3, Types
          DEF CommandOnLive, FileTypes, LockTypes, locks
<1>3. ASSUME NEW t \in Txn, CommandOnLive(t, FALSE) PROVE TypeOK'
  <2>. DEFINE merged == Merged(LiveOrNew, wal)
  <2>1. merged \in File
    BY NewFile, Merging DEF IInv
  <2>2. live' = [merged EXCEPT !.txns = @ \cup {t}] /\ wal' = None
    BY <1>3 DEF CommandOnLive
  <2>. HIDE DEF merged
  <2>3. live' \in File
    BY <2>1, <2>2 DEF File, Contents
  <2>. QED BY <1>1, <1>3, <2>2, <2>3, Types
          DEF CommandOnLive, FileTypes, LockTypes, locks
<1>4. ASSUME NEW t \in Txn, NEW r \in Restorer, CommandOnStaged(t, r) PROVE TypeOK'
  <2>1. pc[r] \in Staging
    BY <1>4 DEF CommandOnStaged, Redirected, Staging
  <2>2. job[r].staged \in File
    BY <2>1 DEF IInv, JobOK
  <2>3. [job[r].staged EXCEPT !.txns = @ \cup {t}] \in File
    BY <2>2 DEF File, Contents
  <2>4. job' = [job EXCEPT ![r].staged = [job[r].staged EXCEPT !.txns = @ \cup {t}]]
    BY <1>4 DEF CommandOnStaged
  <2>5. job' \in [Restorer -> Jobs]
    BY <1>1, <2>3, <2>4, JobEdits
  <2>. QED BY <1>1, <1>4, <2>5, Types
          DEF CommandOnStaged, FileTypes, LockTypes, files, locks
<1>. QED BY <1>2, <1>3, <1>4 DEF Command

-----------------------------------------------------------------------------
(* What a step of r does not touch. *)
LEMMA OthersUntouched ==
    ASSUME TypeOK, NEW r \in Restorer, Restore(r)
    PROVE  /\ \A q \in Restorer \ {r} : pc'[q] = pc[q] /\ job'[q] = job[q]
           /\ acked' = acked /\ env' = env
<1>1. pc \in [Restorer -> PCs] /\ job \in [Restorer -> Jobs]
  BY Types DEF LockTypes
<1>2. CASE \E from \in Source : OpenLock(r, from)
  BY <1>1, <1>2 DEF OpenLock, Goto
<1>3. CASE \/ Flock(r) \/ Stage(r) \/ Fail(r) \/ FailBeforeTry(r)
           \/ Unlock(r) \/ Unlink(r) \/ Exit(r) \/ Crash(r)
  BY <1>1, <1>3 DEF Flock, Stage, Fail, FailBeforeTry, Unlock, Unlink, Exit, Crash, Goto
<1>4. CASE Validate(r, "validate", "checkpoint") \/ Validate(r, "final", "swap")
  BY <1>1, <1>4 DEF Validate, Goto
<1>5. CASE Checkpoint(r) \/ CopyLive(r) \/ Swap(r) \/ RemoveSidecars(r)
  BY <1>1, <1>5 DEF Checkpoint, CopyLive, Swap, RemoveSidecars, Goto
<1>. QED BY <1>2, <1>3, <1>4, <1>5 DEF Restore

(* What r itself knows after its own step. *)
LEMMA OwnJob ==
    ASSUME IInv, NEW r \in Restorer, Restore(r) PROVE JobOK(r)'
<1>1. pc \in [Restorer -> PCs] /\ job \in [Restorer -> Jobs] /\ JobOK(r)
  BY Types DEF LockTypes, IInv
<1>2. runs \in Nat /\ env' = env
  BY EnvTypes, OthersUntouched DEF IInv
<1>3. ASSUME NEW from \in Source, OpenLock(r, from) PROVE JobOK(r)'
  <2>1. /\ pc'[r] = "opened" /\ job'[r].fd = lockPath' /\ job'[r].source = from
    BY <1>1, <1>3 DEF OpenLock, Goto, NoJob
  <2>2. lockPath' \in Run
    <3>1. TypeOK /\ lockPath \in Run \cup {None}
      BY DEF IInv, TypeOK
    <3>2. runs' \in Run
      BY <1>3, <3>1, EnvTypes, RestoreAssumption DEF OpenLock, Run
    <3>. QED BY <1>3, <3>1, <3>2 DEF OpenLock
  <2>. QED BY <2>1, <2>2 DEF JobOK, Staging, Accepted
<1>4. ASSUME Flock(r) PROVE JobOK(r)'
  BY <1>1, <1>4 DEF Flock, Goto, JobOK, Staging, Accepted
<1>5. ASSUME Stage(r) PROVE JobOK(r)'
  <2>1. /\ pc'[r] = "validate" /\ job'[r].source = job[r].source
        /\ job'[r].staged = [id |-> job[r].run, txns |-> job[r].source,
                             sound |-> TRUE]
        /\ job[r].source \in Source
    BY <1>1, <1>5 DEF Stage, Goto, Jobs, JobOK
  <2>2. job'[r].staged \in File
    BY <1>1, <2>1 DEF File, Contents, Jobs
  <2>. QED BY <2>1, <2>2 DEF JobOK, Staging, Accepted
<1>6. ASSUME \/ Fail(r) \/ FailBeforeTry(r) \/ Unlock(r) \/ Unlink(r)
             \/ Exit(r) \/ Crash(r)
      PROVE  JobOK(r)'
  <2>1. pc'[r] \in {"unlock", "unlink", "idle"}
    BY <1>1, <1>6 DEF Fail, FailBeforeTry, Unlock, Unlink, Exit, Crash, Goto
  <2>. QED BY <2>1 DEF JobOK, Staging, Accepted
<1>7. ASSUME Validate(r, "validate", "checkpoint") \/ Validate(r, "final", "swap")
      PROVE  JobOK(r)'
  BY <1>1, <1>2, <1>7 DEF Validate, Goto, JobOK, Staging, Accepted
<1>8. ASSUME Checkpoint(r) PROVE JobOK(r)'
  <2>1. /\ pc[r] = "checkpoint" /\ pc'[r] \in {"copy", "final"}
        /\ job'[r].source = job[r].source /\ job'[r].staged = job[r].staged
    BY <1>1, <1>8 DEF Checkpoint, Goto, Jobs
  <2>2. pc'[r] = "copy" => live' # None
    <3>1. live # None => Merged(live, wal) # None
      BY Merging, NoneAssumption DEF IInv, TypeOK
    <3>. QED BY <1>1, <1>8, <3>1 DEF Checkpoint, Goto
  <2>. QED BY <1>1, <1>2, <2>1, <2>2 DEF JobOK, Staging, Accepted
<1>9. ASSUME CopyLive(r) PROVE JobOK(r)'
  BY <1>1, <1>2, <1>9 DEF CopyLive, Goto, JobOK, Staging, Accepted
<1>10. ASSUME Swap(r) PROVE JobOK(r)'
  <2>1. pc'[r] = "sidecars" /\ live' \in File
    BY <1>1, <1>10 DEF Swap, Goto, JobOK, Staging
  <2>. QED BY <2>1, NoneAssumption DEF JobOK, Staging, Accepted
<1>11. ASSUME RemoveSidecars(r) PROVE JobOK(r)'
  <2>1. pc'[r] = "unlock"
    BY <1>1, <1>11 DEF RemoveSidecars, Goto
  <2>. QED BY <2>1 DEF JobOK, Staging, Accepted
<1>. QED BY <1>3, <1>4, <1>5, <1>6, <1>7, <1>8, <1>9, <1>10, <1>11 DEF Restore

(* The live database is never removed. *)
LEMMA LiveStays ==
    ASSUME IInv, NEW r \in Restorer, Restore(r), live # None PROVE live' # None
<1>1. JobOK(r) /\ TypeOK
  BY DEF IInv
<1>2. CASE Plain(r)
  BY <1>2, PlainFiles
<1>3. CASE Checkpoint(r)
  BY <1>1, <1>3, Merging, NoneAssumption DEF Checkpoint, TypeOK
<1>4. CASE Swap(r)
  BY <1>1, <1>4, NoneAssumption DEF Swap, Goto, JobOK, Staging
<1>5. CASE CopyLive(r) \/ RemoveSidecars(r)
  BY <1>5 DEF CopyLive, RemoveSidecars
<1>. QED BY <1>2, <1>3, <1>4, <1>5 DEF Restore, Plain

LEMMA JobsKept ==
    ASSUME IInv, NEW r \in Restorer, Restore(r)
    PROVE  \A q \in Restorer : JobOK(q)'
<1>. SUFFICES ASSUME NEW q \in Restorer \ {r} PROVE JobOK(q)'
  BY OwnJob
<1>1. pc'[q] = pc[q] /\ job'[q] = job[q] /\ env' = env /\ JobOK(q)
  BY OthersUntouched DEF IInv
<1>. QED BY <1>1, LiveStays DEF JobOK

(* A single restore stays single. *)
LEMMA AloneKept ==
    ASSUME IInv, NEW r \in Restorer, Restore(r) PROVE Alone'
<1>1. /\ \A q \in Restorer \ {r} : pc'[q] = pc[q]
      /\ env' = env
  BY OthersUntouched DEF IInv
<1>2. CASE \E from \in Source : OpenLock(r, from)
  BY <1>1, <1>2 DEF OpenLock, Idle, Alone
<1>3. CASE pc[r] # "idle" \/ Exit(r)
  BY <1>1, <1>3 DEF Alone, Exit, IInv
<1>4. pc[r] # "idle" \/ Exit(r) \/ \E from \in Source : OpenLock(r, from)
  BY DEF Restore, Flock, Stage, Fail, FailBeforeTry, Unlock, Unlink, Crash, Validate, Checkpoint,
         CopyLive, Swap, RemoveSidecars, Goto
<1>. QED BY <1>2, <1>3, <1>4

(* Files that come from other files. *)
LEMMA FilesKept ==
    ASSUME IInv, NEW r \in Restorer, Restore(r) PROVE FilesOK'
<1>1. JobOK(r) /\ TypeOK /\ FilesOK
  BY DEF IInv
<1>2. CASE Plain(r)
  BY <1>1, <1>2, PlainFiles DEF FilesOK, RefusedNeverLive
<1>3. CASE Checkpoint(r)
  <2>1. CASE live = None
    BY <1>1, <1>3, <2>1 DEF Checkpoint, FilesOK, RefusedNeverLive
  <2>2. CASE live # None /\ live' = Merged(live, wal) /\ wal' = None
    <3>1. live'.txns = Visible(live, wal)
      BY <1>1, <2>2, Merging DEF TypeOK
    <3>2. Txn \cap UNION Invalid = {}
      BY RestoreAssumption
    <3>. QED BY <1>1, <2>2, <3>1, <3>2 DEF FilesOK, RefusedNeverLive, Visible
  <2>3. CASE UNCHANGED <<live, wal>>
    BY <1>1, <2>3 DEF FilesOK, RefusedNeverLive
  <2>. QED BY <1>3, <2>1, <2>2, <2>3 DEF Checkpoint
<1>4. CASE Swap(r)
  <2>1. /\ live' = job[r].staged /\ wal' = wal /\ job[r].staged # None
        /\ job[r].staged.txns \subseteq job[r].source \cup Txn
        /\ job[r].source \in Source /\ job[r].source \notin Invalid
    BY <1>1, <1>4, NoneAssumption DEF Swap, Goto, JobOK, Staging, Accepted
  <2>2. (job[r].source \cup Txn) \cap UNION Invalid = {}
    BY <2>1, RestoreAssumption
  <2>. QED BY <1>1, <2>1, <2>2 DEF FilesOK, RefusedNeverLive
<1>5. CASE CopyLive(r)
  BY <1>1, <1>5 DEF CopyLive, FilesOK, RefusedNeverLive
<1>6. CASE RemoveSidecars(r)
  BY <1>1, <1>6 DEF RemoveSidecars, FilesOK, RefusedNeverLive
<1>. QED BY <1>2, <1>3, <1>4, <1>5, <1>6 DEF Restore, Plain

(* A restore that has not made its backup counts for one. *)
LEMMA CountKept ==
    ASSUME IInv, NEW r \in Restorer, Restore(r) PROVE Counted'
<1>1. /\ \A q \in Restorer \ {r} : pc'[q] = pc[q]
      /\ pc \in [Restorer -> PCs] /\ pc' \in [Restorer -> PCs]
  <2>1. TypeOK'
    BY PlainTypes, FileStepTypes DEF Restore, Plain
  <2>. QED BY <2>1, OthersUntouched, Types DEF IInv, LockTypes
<1>2. /\ IsFiniteSet(BeforeCopy) /\ Cardinality(BeforeCopy) \in Nat
      /\ Len(backups) + Cardinality(BeforeCopy) <= runs /\ runs \in Nat
      /\ backups \in Seq(SUBSET Contents) /\ Len(backups) <= Keep
      /\ Len(backups) \in Nat
  BY FS_CardinalityType, EnvTypes DEF IInv, Counted, TypeOK
<1>3. CASE \E from \in Source : OpenLock(r, from)
  <2>1. /\ runs' = runs + 1 /\ backups' = backups
        /\ BeforeCopy' = BeforeCopy \cup {r} /\ r \notin BeforeCopy
    BY <1>1, <1>3 DEF OpenLock, Goto, BeforeCopy, files
  <2>2. /\ IsFiniteSet(BeforeCopy')
        /\ Cardinality(BeforeCopy') = Cardinality(BeforeCopy) + 1
    BY <1>2, <2>1, FS_AddElement
  <2>3. Len(backups') = Len(backups)
    BY <2>1
  <2>. QED BY <1>2, <2>1, <2>2, <2>3 DEF Counted
<1>4. CASE CopyLive(r)
  <2>1. r \in BeforeCopy /\ BeforeCopy' = BeforeCopy \ {r} /\ runs' = runs
    BY <1>1, <1>4 DEF CopyLive, Goto, BeforeCopy
  <2>2. live.txns \in SUBSET Contents /\ backups' = Rotated(live.txns)
    BY <1>4 DEF CopyLive, Goto, IInv, JobOK, TypeOK, File, Rotated
  <2>3. Len(backups') \in Nat /\ Len(backups') <= Len(backups) + 1
    BY <1>2, <2>2, Rotation
  <2>4. /\ IsFiniteSet(BeforeCopy')
        /\ Cardinality(BeforeCopy') = Cardinality(BeforeCopy) - 1
    BY <1>2, <2>1, FS_RemoveElement
  <2>. QED BY <1>2, <2>1, <2>3, <2>4 DEF Counted
<1>5. ASSUME BeforeCopy' \subseteq BeforeCopy, runs' = runs, backups' = backups
      PROVE  Counted'
  <2>1. IsFiniteSet(BeforeCopy') /\ Cardinality(BeforeCopy') <= Cardinality(BeforeCopy)
    BY <1>2, <1>5, FS_Subset
  <2>2. Cardinality(BeforeCopy') \in Nat
    BY <2>1, FS_CardinalityType
  <2>. QED BY <1>2, <1>5, <2>1, <2>2 DEF Counted
<1>6. CASE \/ Flock(r) \/ Stage(r) \/ Fail(r) \/ FailBeforeTry(r)
           \/ Unlock(r) \/ Unlink(r) \/ Exit(r) \/ Crash(r)
           \/ Checkpoint(r) \/ Swap(r) \/ RemoveSidecars(r)
  <2>1. runs' = runs /\ backups' = backups
    BY <1>6 DEF Flock, Stage, Fail, FailBeforeTry, Unlock, Unlink, Exit, Crash,
                Checkpoint, Swap,
                RemoveSidecars, files
  <2>2. r \in BeforeCopy' => r \in BeforeCopy
    BY <1>1, <1>6 DEF Flock, Stage, Fail, FailBeforeTry, Unlock, Unlink, Exit, Crash,
                Checkpoint, Swap,
                      RemoveSidecars, Goto, BeforeCopy
  <2>3. BeforeCopy' \subseteq BeforeCopy
    BY <1>1, <2>2 DEF BeforeCopy
  <2>. QED BY <1>5, <2>1, <2>3
<1>7. CASE Validate(r, "validate", "checkpoint") \/ Validate(r, "final", "swap")
  <2>1. runs' = runs /\ backups' = backups
    BY <1>7 DEF Validate, files
  <2>2. BeforeCopy' \subseteq BeforeCopy
    BY <1>1, <1>7 DEF Validate, Goto, BeforeCopy
  <2>. QED BY <1>5, <2>1, <2>2
<1>. QED BY <1>3, <1>4, <1>6, <1>7 DEF Restore

(* A restore that has yet to copy leaves room for its backup. *)
LEMMA RoomToCopy ==
    ASSUME IInv, NEW r \in Restorer, pc[r] = "copy", runs <= Keep
    PROVE  Len(backups) < Keep
<1>1. IsFiniteSet(BeforeCopy) /\ BeforeCopy # {}
  BY DEF IInv, Counted, BeforeCopy
<1>2. Cardinality(BeforeCopy) \in Nat /\ Cardinality(BeforeCopy) # 0
  BY <1>1, FS_CardinalityType, FS_EmptySet
<1>3. Len(backups) \in Nat /\ runs \in Nat
  BY EnvTypes DEF IInv, TypeOK
<1>. QED BY <1>2, <1>3 DEF IInv, Counted, Keep

-----------------------------------------------------------------------------
(* Without disturbance. *)
LEMMA StagedClean ==
    ASSUME IInv, Undisturbed, NEW r \in Restorer, pc[r] \in Staging
    PROVE  /\ job[r].staged \in File /\ job[r].staged.sound
           /\ job[r].staged.txns \cap Txn = {} /\ job[r].staged # None
BY RestoreAssumption, NoneAssumption DEF IInv, JobOK, Undisturbed

LEMMA TidyPlain ==
    ASSUME IInv, NEW r \in Restorer, Plain(r) PROVE TidyAll'
<1>. SUFFICES ASSUME Undisturbed PROVE WholeNow' /\ \A q \in Restorer : Tidy(q)'
  BY PlainFiles DEF TidyAll, Undisturbed
<1>1. /\ UNCHANGED <<live, wal, backups, env>>
      /\ \A q \in Restorer \ {r} : pc'[q] = pc[q] /\ job'[q] = job[q]
      /\ pc \in [Restorer -> PCs] /\ job \in [Restorer -> Jobs]
  BY PlainFiles, OthersUntouched, Types DEF IInv, LockTypes, Plain, Restore
<1>2. WholeNow /\ \A q \in Restorer : Tidy(q)
  BY DEF IInv, TidyAll
<1>3. pc[r] = "sidecars" => ~env.readers
  BY <1>1 DEF Plain, OpenLock, Flock, Stage, Fail, FailBeforeTry, Unlock, Unlink,
              Exit, Crash, Validate,
              Goto, Undisturbed
<1>4. WholeNow'
  BY <1>1, <1>2, <1>3 DEF WholeNow, Fits
<1>5. \A q \in Restorer \ {r} : Tidy(q)'
  BY <1>1, <1>2 DEF Tidy, LiveSaved
<1>6. job'[r].warned = job[r].warned \/ ~job'[r].warned
  <2>1. ASSUME NEW from \in Source, OpenLock(r, from) PROVE ~job'[r].warned
    BY <1>1, <2>1 DEF OpenLock, NoJob
  <2>2. CASE Stage(r) \/ Fail(r) \/ Crash(r)
    BY <1>1, <2>2 DEF Stage, Fail, Crash, Jobs
  <2>3. CASE \/ Flock(r) \/ Unlock(r) \/ Unlink(r)
             \/ Validate(r, "validate", "checkpoint") \/ Validate(r, "final", "swap")
    <3>1. job' = job
      BY <2>3 DEF Flock, Unlock, Unlink, Validate
    <3>. QED BY <3>1
  <2>4. CASE FailBeforeTry(r) \/ Exit(r)
    BY <2>4 DEF FailBeforeTry, Exit
  <2>. QED BY <2>1, <2>2, <2>3, <2>4 DEF Plain
<1>7. \/ pc'[r] \notin {"copy", "final", "swap", "sidecars"}
      \/ pc[r] = "final" /\ pc'[r] = "swap" /\ job'[r].warned = job[r].warned
  BY <1>1 DEF Plain, OpenLock, Flock, Stage, Fail, FailBeforeTry, Unlock, Unlink,
              Exit, Crash, Validate,
              Goto
<1>8. Tidy(r)'
  BY <1>1, <1>2, <1>6, <1>7 DEF Tidy, LiveSaved
<1>. QED BY <1>4, <1>5, <1>8

LEMMA TidyCheckpoint ==
    ASSUME IInv, NEW r \in Restorer, Checkpoint(r) PROVE TidyAll'
<1>. SUFFICES ASSUME Undisturbed PROVE WholeNow' /\ \A q \in Restorer : Tidy(q)'
  BY DEF Checkpoint, TidyAll, Undisturbed
<1>1. /\ backups' = backups /\ env' = env
      /\ \A q \in Restorer \ {r} : pc'[q] = pc[q] /\ job'[q] = job[q]
      /\ pc \in [Restorer -> PCs] /\ job \in [Restorer -> Jobs]
      /\ pc[r] = "checkpoint" /\ pc'[r] = (IF live = None THEN "final" ELSE "copy")
  BY OthersUntouched, Types DEF IInv, LockTypes, Restore, Checkpoint, Goto
<1>2. WholeNow /\ (\A q \in Restorer : Tidy(q)) /\ TypeOK /\ FilesOK
  BY DEF IInv, TidyAll
<1>3. env.readers => \A q \in Restorer \ {r} : pc[q] = "idle"
  BY <1>1 DEF IInv, Alone, Undisturbed
<1>4. Fits(live, wal)
  BY <1>1, <1>2, <1>3 DEF WholeNow
<1>5. CASE /\ live' = IF live = None THEN None ELSE Merged(live, wal)
           /\ wal' = IF live = None THEN wal ELSE None
           /\ job' = job
  <2>1. wal' = None
    BY <1>2, <1>5 DEF FilesOK
  <2>2. live' # None => live'.sound
    BY <1>2, <1>4, <1>5, Merging DEF WholeNow, TypeOK
  <2>3. ASSUME wal = None
        PROVE  live' = None \/ (live # None /\ live'.txns = live.txns)
    BY <1>2, <1>5, <2>3, Merging DEF Visible, TypeOK
  <2>4. ASSUME NEW q \in Restorer \ {r} PROVE Tidy(q)'
    <3>1. CASE env.readers
      <4>1. pc'[q] = "idle"
        BY <1>1, <1>3, <3>1
      <4>. QED BY <1>1, <3>1, <4>1 DEF Tidy
    <3>2. CASE ~env.readers
      <4>1. pc[q] \in {"final", "swap"} => LiveSaved'
        BY <1>1, <1>2, <2>3, <3>2 DEF Tidy, LiveSaved
      <4>. QED BY <1>1, <1>2, <2>1, <3>2, <4>1 DEF Tidy
    <3>. QED BY <3>1, <3>2
  <2>5. Tidy(r)'
    <3>1. pc'[r] = "final" => LiveSaved'
      BY <1>1, <1>5 DEF LiveSaved
    <3>. QED BY <1>1, <1>2, <1>5, <2>1, <3>1 DEF Tidy
  <2>. QED BY <2>1, <2>2, <2>4, <2>5 DEF WholeNow, Fits
<1>6. CASE /\ env.readers /\ live # None
           /\ job' = [job EXCEPT ![r].warned = TRUE] /\ UNCHANGED <<live, wal>>
  <2>1. WholeNow'
    BY <1>2, <1>4, <1>6 DEF WholeNow, Fits
  <2>2. job'[r].warned
    BY <1>1, <1>6 DEF Jobs
  <2>3. \A q \in Restorer \ {r} : Tidy(q)'
    BY <1>1, <1>3, <1>6 DEF Tidy
  <2>4. Tidy(r)'
    BY <1>1, <1>6, <2>2 DEF Tidy
  <2>. QED BY <2>1, <2>3, <2>4
<1>. QED BY <1>5, <1>6 DEF Checkpoint

LEMMA TidyCopy ==
    ASSUME IInv, NEW r \in Restorer, CopyLive(r) PROVE TidyAll'
<1>. SUFFICES ASSUME Undisturbed PROVE WholeNow' /\ \A q \in Restorer : Tidy(q)'
  BY DEF CopyLive, TidyAll, Undisturbed
<1>1. /\ live' = live /\ wal' = wal /\ job' = job /\ env' = env
      /\ backups' = Rotated(live.txns)
      /\ \A q \in Restorer \ {r} : pc'[q] = pc[q]
      /\ pc[r] = "copy" /\ pc'[r] = "final"
  BY Types, OthersUntouched DEF IInv, LockTypes, Restore, CopyLive, Goto, Rotated
<1>2. live.txns \in SUBSET Contents
  BY <1>1 DEF IInv, JobOK, TypeOK, File
<1>3. LiveSaved'
  BY <1>1, <1>2, Rotation DEF LiveSaved, IInv, TypeOK
<1>. QED BY <1>1, <1>3 DEF IInv, TidyAll, WholeNow, Fits, Tidy

LEMMA TidySwap ==
    ASSUME IInv, NEW r \in Restorer, Swap(r) PROVE TidyAll'
<1>. SUFFICES ASSUME Undisturbed PROVE WholeNow' /\ \A q \in Restorer : Tidy(q)'
  BY DEF Swap, TidyAll, Undisturbed
<1>1. /\ live' = job[r].staged /\ wal' = wal /\ backups' = backups /\ env' = env
      /\ \A q \in Restorer \ {r} : pc'[q] = pc[q] /\ job'[q] = job[q]
      /\ pc[r] = "swap" /\ pc'[r] = "sidecars"
      /\ job'[r].warned = job[r].warned
  BY Types, OthersUntouched DEF IInv, LockTypes, Jobs, Restore, Swap, Goto
<1>2. live'.sound /\ live'.txns \cap Txn = {}
  BY <1>1, StagedClean DEF Staging
<1>3. LiveSaved'
  BY <1>2 DEF LiveSaved
<1>4. \A q \in Restorer : Tidy(q)
  BY DEF IInv, TidyAll
<1>5. WholeNow'
  BY <1>1, <1>2, <1>4 DEF WholeNow, Fits, Tidy
<1>. QED BY <1>1, <1>3, <1>4, <1>5 DEF Tidy

LEMMA TidySidecars ==
    ASSUME IInv, NEW r \in Restorer, RemoveSidecars(r) PROVE TidyAll'
<1>1. /\ live' = live /\ wal' = None /\ backups' = backups /\ env' = env
      /\ job' = job /\ \A q \in Restorer \ {r} : pc'[q] = pc[q]
      /\ pc'[r] = "unlock"
  BY Types, OthersUntouched DEF IInv, LockTypes, Restore, RemoveSidecars, Goto
<1>. QED BY <1>1 DEF IInv, TidyAll, Undisturbed, WholeNow, Fits, Tidy, LiveSaved

LEMMA TidyKept ==
    ASSUME IInv, NEW r \in Restorer, Restore(r) PROVE TidyAll'
BY TidyPlain, TidyCheckpoint, TidyCopy, TidySwap, TidySidecars DEF Restore, Plain

(* What is committed stays somewhere. *)
LEMMA KeptByRestore ==
    ASSUME IInv, NEW r \in Restorer, Restore(r) PROVE NothingLost'
<1>. SUFFICES ASSUME Undisturbed, ~env.readers, runs' <= Keep
              PROVE  acked' \subseteq Visible(live', wal') \cup UnionOf(backups')
  BY OthersUntouched DEF NothingLost, Undisturbed, IInv
<1>1. acked' = acked /\ TypeOK /\ FilesOK /\ acked \subseteq Txn
  BY OthersUntouched DEF IInv, TypeOK
<1>2. runs <= Keep
  <2>1. runs \in Nat /\ (runs' = runs \/ runs' = runs + 1)
    BY EnvTypes DEF IInv, Restore, OpenLock, Flock, Stage, Fail, FailBeforeTry, Validate,
           Checkpoint, CopyLive, Swap, RemoveSidecars, Unlock, Unlink, Exit, Crash
  <2>. QED BY <2>1 DEF Keep
<1>3. acked \subseteq Visible(live, wal) \cup UnionOf(backups)
  BY <1>2 DEF IInv, NothingLost
<1>4. Tidy(r)
  BY DEF IInv, TidyAll
<1>5. CASE Plain(r)
  BY <1>1, <1>3, <1>5, PlainFiles
<1>6. CASE Checkpoint(r)
  <2>1. Visible(live', wal') = Visible(live, wal) /\ backups' = backups
    BY <1>1, <1>6, Merging DEF Checkpoint, TypeOK
  <2>. QED BY <1>1, <1>3, <2>1
<1>7. CASE CopyLive(r)
  <2>1. live' = live /\ wal' = wal /\ backups' = Rotated(live.txns) /\ pc[r] = "copy"
    BY <1>7 DEF CopyLive, Goto, Rotated
  <2>2. live.txns \in SUBSET Contents
    BY <1>1, <2>1 DEF IInv, JobOK, TypeOK, File
  <2>3. UnionOf(backups) \subseteq UnionOf(backups')
    BY <1>1, <1>2, <2>1, <2>2, Rotation, RoomToCopy DEF TypeOK
  <2>. QED BY <1>1, <1>3, <2>1, <2>3
<1>8. CASE Swap(r)
  <2>1. wal = None /\ LiveSaved /\ backups' = backups
    BY <1>4, <1>8 DEF Swap, Goto, Tidy
  <2>2. Visible(live, wal) \cap Txn \subseteq UnionOf(backups)
    BY <2>1 DEF Visible, LiveSaved
  <2>. QED BY <1>1, <1>3, <2>1, <2>2
<1>9. CASE RemoveSidecars(r)
  BY <1>1, <1>3, <1>4, <1>9 DEF RemoveSidecars, Goto, Tidy
<1>. QED BY <1>5, <1>6, <1>7, <1>8, <1>9 DEF Restore, Plain

-----------------------------------------------------------------------------
(* Commands. *)
LEMMA CommandFiles ==
    ASSUME IInv, NEW t \in Txn, NEW lingers \in BOOLEAN, CommandOnLive(t, lingers)
    PROVE  /\ live' # None /\ live'.id = LiveOrNew.id
           /\ live'.txns \subseteq Visible(live, wal) \cup {t}
           /\ Visible(live', wal') = Visible(live, wal) \cup {t}
           /\ wal' # None => wal'.txns \subseteq Txn
           /\ wal' # None => wal'.of = (IF wal = None THEN live'.id ELSE wal.of)
           /\ LiveOrNew.sound /\ Fits(live, wal) => live'.sound
<1>1. TypeOK /\ FilesOK /\ LiveOrNew \in File
  BY NewFile DEF IInv
<1>2. Visible(LiveOrNew, wal) = Visible(live, wal)
  BY <1>1, NoneAssumption DEF LiveOrNew, Visible, FilesOK, TypeOK
<1>3. Fits(live, wal) => Fits(LiveOrNew, wal)
  BY NewFile DEF Fits, IInv
<1>4. CASE lingers
  <2>1. live' = LiveOrNew
    BY <1>4 DEF CommandOnLive
  <2>2. CASE wal = None
    <3>1. wal' = [of |-> LiveOrNew.id, txns |-> {t}]
      BY <1>4, <2>2 DEF CommandOnLive
    <3>2. wal' # None
      <4>1. wal' \in Wal
        BY <1>1, <3>1 DEF File, Wal, Contents
      <4>. QED BY <4>1, NoneAssumption
    <3>. QED BY <1>1, <1>2, <2>1, <2>2, <3>1, <3>2, NewFile DEF Visible
  <2>3. CASE wal # None
    <3>1. wal' = [wal EXCEPT !.txns = @ \cup {t}] /\ wal \in Wal
      BY <1>1, <1>4, <2>3 DEF CommandOnLive, TypeOK
    <3>2. wal' \in Wal /\ wal'.txns = wal.txns \cup {t} /\ wal'.of = wal.of
      BY <3>1 DEF Wal, Contents
    <3>. QED BY <1>1, <1>2, <2>1, <2>3, <3>2, NewFile, NoneAssumption
            DEF Visible, FilesOK
  <2>. QED BY <2>2, <2>3
<1>5. CASE ~lingers
  <2>. DEFINE merged == Merged(LiveOrNew, wal)
  <2>1. /\ merged \in File /\ merged.id = LiveOrNew.id
        /\ merged.txns = Visible(live, wal)
        /\ merged.sound = (LiveOrNew.sound /\ Fits(LiveOrNew, wal))
    BY <1>1, <1>2, Merging
  <2>2. live' = [merged EXCEPT !.txns = @ \cup {t}] /\ wal' = None
    BY <1>5 DEF CommandOnLive
  <2>. HIDE DEF merged
  <2>3. /\ live' \in File /\ live'.txns = merged.txns \cup {t}
        /\ live'.id = merged.id /\ live'.sound = merged.sound
    BY <2>1, <2>2 DEF File, Contents
  <2>4. Visible(live', wal') = live'.txns /\ live' # None
    BY <2>2, <2>3, NoneAssumption DEF Visible
  <2>. QED BY <1>3, <2>1, <2>2, <2>3, <2>4
<1>. QED BY <1>4, <1>5

LEMMA LiveCommand ==
    ASSUME IInv, NEW t \in Txn, NEW lingers \in BOOLEAN, CommandOnLive(t, lingers)
    PROVE  IInv'
<1>1. UNCHANGED <<backups, pc, job, runs, env>> /\ acked' = acked \cup {t}
  BY DEF CommandOnLive
<1>2. TypeOK /\ FilesOK /\ acked \subseteq Txn
  BY DEF IInv, TypeOK
<1>3. TypeOK'
  BY CommandTypes DEF Command
<1>4. FilesOK'
  <2>1. Visible(live, wal) \subseteq (IF live = None THEN {} ELSE live.txns) \cup Txn
    BY <1>2 DEF Visible, FilesOK
  <2>2. (Visible(live, wal) \cup {t}) \cap UNION Invalid = {}
    BY <1>2, <2>1, RestoreAssumption DEF FilesOK, RefusedNeverLive
  <2>. QED BY <2>2, CommandFiles DEF FilesOK, RefusedNeverLive
<1>5. Alone' /\ Counted'
  BY <1>1 DEF IInv, Alone, Counted, BeforeCopy
<1>6. \A r \in Restorer : JobOK(r)'
  BY <1>1, CommandFiles DEF IInv, JobOK
<1>7. ASSUME Undisturbed PROVE WholeNow' /\ \A r \in Restorer : Tidy(r)'
  <2>1. Idle
    BY <1>7 DEF Undisturbed, CommandOnLive
  <2>2. WholeNow /\ \A r \in Restorer : Tidy(r)
    BY <1>7 DEF IInv, TidyAll
  <2>3. Fits(live, wal) /\ LiveOrNew.sound
    BY <2>1, <2>2 DEF WholeNow, Idle, LiveOrNew
  <2>4. WholeNow'
    BY <1>2, <2>3, CommandFiles, NewFile DEF WholeNow, Fits, FilesOK
  <2>5. \A r \in Restorer : Tidy(r)'
    BY <1>1, <2>1, <2>2 DEF Tidy, Idle
  <2>. QED BY <2>4, <2>5
<1>8. TidyAll'
  BY <1>1, <1>7 DEF TidyAll, Undisturbed
<1>9. NothingLost'
  BY <1>1, CommandFiles DEF IInv, NothingLost, Undisturbed
<1>. QED BY <1>3, <1>4, <1>5, <1>6, <1>8, <1>9 DEF IInv

LEMMA StagedCommand ==
    ASSUME IInv, NEW t \in Txn, NEW r \in Restorer, CommandOnStaged(t, r)
    PROVE  IInv'
<1>1. /\ UNCHANGED <<live, wal, backups, pc, runs, env>>
      /\ "thread" \in env.concurrent /\ pc[r] \in Staging
      /\ job' = [job EXCEPT ![r].staged = [job[r].staged EXCEPT !.txns = @ \cup {t}]]
  BY DEF CommandOnStaged, Redirected, Staging, files
<1>2. job \in [Restorer -> Jobs] /\ JobOK(r)
  BY Types DEF IInv, LockTypes
<1>3. TypeOK'
  BY CommandTypes DEF Command
<1>4. FilesOK' /\ Alone' /\ Counted'
  BY <1>1 DEF IInv, FilesOK, RefusedNeverLive, Alone, Counted, BeforeCopy
<1>5. TidyAll' /\ NothingLost'
  BY <1>1 DEF TidyAll, NothingLost, Undisturbed
<1>6. JobOK(r)'
  <2>1. /\ job'[r].staged = [job[r].staged EXCEPT !.txns = @ \cup {t}]
        /\ job'[r].source = job[r].source /\ job'[r].fd = job[r].fd
    BY <1>1, <1>2 DEF Jobs
  <2>2. job[r].staged \in File /\ job[r].staged.sound
    BY <1>1, <1>2 DEF JobOK
  <2>3. /\ job'[r].staged \in File /\ job'[r].staged.sound
        /\ job'[r].staged.txns = job[r].staged.txns \cup {t}
    BY <2>1, <2>2 DEF File, Contents
  <2>. QED BY <1>1, <1>2, <2>1, <2>3 DEF JobOK
<1>7. \A q \in Restorer \ {r} : JobOK(q)'
  BY <1>1, <1>2 DEF IInv, JobOK
<1>. QED BY <1>3, <1>4, <1>5, <1>6, <1>7 DEF IInv

-----------------------------------------------------------------------------
LEMMA InitIInv == Init => IInv
<1>. SUFFICES ASSUME Init PROVE IInv
  OBVIOUS
<1>1. runs = 0 /\ acked = {} /\ live = None /\ wal = None /\ backups = <<>>
  BY DEF Init
<1>2. /\ \A r \in Restorer : pc[r] = "idle" /\ job[r] = NoJob
      /\ env \in Env /\ env.restores \in Nat
  BY RestoreAssumption DEF Init, Env
<1>3. TypeOK
  <2>1. NoJob \in Jobs
    BY RestoreAssumption DEF NoJob, Jobs
  <2>2. backups \in Seq(SUBSET Contents) /\ Len(backups) <= Keep
    BY <1>1 DEF Keep
  <2>3. 0 \in 0 .. env.restores
    BY <1>2
  <2>. QED BY <1>1, <1>2, <2>1, <2>2, <2>3 DEF Init, TypeOK, Jobs
<1>4. FilesOK /\ Alone /\ TidyAll /\ NothingLost /\ \A r \in Restorer : JobOK(r)
  BY <1>1, <1>2 DEF FilesOK, RefusedNeverLive, Alone, TidyAll, WholeNow, Fits, Tidy,
                    NothingLost, JobOK, Staging, Accepted, NoJob
<1>5. Counted
  <2>1. BeforeCopy = {}
    BY <1>2 DEF BeforeCopy
  <2>. QED BY <1>1, <2>1, FS_EmptySet DEF Counted
<1>. QED BY <1>3, <1>4, <1>5 DEF IInv

LEMMA StepIInv == IInv /\ [Next]_vars => IInv'
<1>. SUFFICES ASSUME IInv, [Next]_vars PROVE IInv'
  OBVIOUS
<1>1. ASSUME NEW r \in Restorer, Restore(r) PROVE IInv'
  <2>1. TypeOK'
    BY <1>1, PlainTypes, FileStepTypes DEF Restore, Plain
  <2>. QED BY <1>1, <2>1, FilesKept, AloneKept, TidyKept, CountKept, KeptByRestore,
              JobsKept DEF IInv
<1>2. CASE Command
  BY <1>2, LiveCommand, StagedCommand DEF Command
<1>3. CASE UNCHANGED vars
  BY <1>3 DEF IInv, TypeOK, FilesOK, RefusedNeverLive, Alone, TidyAll, WholeNow, Fits,
              Tidy, LiveSaved, Counted, BeforeCopy, NothingLost, JobOK, Undisturbed,
              Visible, UnionOf, vars, files, locks
<1>. QED BY <1>1, <1>2, <1>3 DEF Next

LEMMA Invariance == Spec => []IInv
BY InitIInv, StepIInv, PTL DEF Spec

(* The variables keep their types. *)
THEOREM RestoreTypes == Spec => []TypeOK
<1>1. IInv => TypeOK
  BY DEF IInv
<1>. QED BY <1>1, Invariance, PTL

(* Restores that die and race for the lock, and readers that block a       *)
(* checkpoint, leave no WAL beside the file that it does not belong to.    *)
THEOREM SwapIsAtomic == Spec => []WholeUndisturbed
<1>1. IInv => WholeUndisturbed
  BY DEF IInv, TidyAll, WholeNow, WholeUndisturbed, Whole
<1>. QED BY <1>1, Invariance, PTL

(* What was committed is live or in one of the backups kept.               *)
THEOREM NothingIsLost == Spec => []NothingLost
<1>1. IInv => NothingLost
  BY DEF IInv
<1>. QED BY <1>1, Invariance, PTL

(* What validation refuses is never live, whatever runs beside a restore.  *)
THEOREM RefusedStaysOut == Spec => []RefusedNeverLive
<1>1. IInv => RefusedNeverLive
  BY DEF IInv, FilesOK
<1>. QED BY <1>1, Invariance, PTL

(* A restore changes what connections see in its last two file steps only. *)
THEOREM SwapAloneShows == Spec => OnlySwapShows
<1>. DEFINE Reason == \/ Visible(live', wal') = Visible(live, wal)
                      \/ acked' # acked
                      \/ \E r \in Restorer : <<pc[r], pc'[r]>> \in
                           {<<"swap", "sidecars">>, <<"sidecars", "unlock">>}
<1>1. IInv /\ [Next]_vars => [Reason]_vars
  <2>. SUFFICES ASSUME IInv, Next PROVE Reason
    OBVIOUS
  <2>1. TypeOK /\ pc \in [Restorer -> PCs]
    BY Types DEF IInv, LockTypes
  <2>2. CASE Command
    BY <2>2 DEF Command, CommandOnLive, CommandOnStaged
  <2>3. ASSUME NEW r \in Restorer, Restore(r) PROVE Reason
    <3>1. CASE Plain(r) \/ CopyLive(r)
      BY <3>1, PlainFiles DEF CopyLive
    <3>2. CASE Checkpoint(r)
      BY <2>1, <3>2, Merging DEF Checkpoint, TypeOK
    <3>3. CASE Swap(r) \/ RemoveSidecars(r)
      BY <2>1, <3>3 DEF Swap, RemoveSidecars, Goto
    <3>. QED BY <2>3, <3>1, <3>2, <3>3 DEF Restore, Plain
  <2>. QED BY <2>2, <2>3 DEF Next
<1>2. Spec => [][Reason]_vars
  BY <1>1, Invariance, PTL DEF Spec
<1>. QED BY <1>2 DEF OnlySwapShows

(* At the swap the live database is in a backup, or a warning was printed. *)
THEOREM LossIsAnnounced == Spec => LossIsWarned
<1>. DEFINE Warned == \A r \in Restorer :
                        Undisturbed /\ pc[r] = "swap" /\ pc'[r] = "sidecars" =>
                          \/ Visible(live, wal) \cap Txn \subseteq UnionOf(backups)
                          \/ job[r].warned
<1>1. IInv => Warned
  BY DEF IInv, TidyAll, Tidy, LiveSaved, Visible
<1>2. Spec => [][Warned]_vars
  BY <1>1, Invariance, PTL DEF Spec
<1>. QED BY <1>2 DEF LossIsWarned
-----------------------------------------------------------------------------
(* The lock: every restore that is past flock and has not released it      *)
(* holds it, on the inode it opened.  Not the other way round: a failure   *)
(* before the `try' leaves a lock that no restore works under.             *)

Locked(r, inode) == pc[r] \in Critical /\ job[r].fd = inode

Guarded ==
    /\ \A r \in Restorer : pc[r] \in Critical => job[r].fd \in Run
    /\ \A r \in Restorer, inode \in Run : Locked(r, inode) => holder[inode] = r

(* Steps that leave the lock alone and take no restore past it. *)
LEMMA LockKept ==
    ASSUME IInv, Guarded, holder' = holder,
           \A q \in Restorer :
              /\ pc'[q] \in Critical => pc[q] \in Critical
              /\ pc[q] \in Critical => job'[q].fd = job[q].fd
    PROVE  Guarded'
BY DEF Guarded, Locked

LEMMA GuardedStep == IInv /\ Guarded /\ [Next]_vars => Guarded'
<1>. SUFFICES ASSUME IInv, Guarded, [Next]_vars PROVE Guarded'
  OBVIOUS
<1>1. /\ pc \in [Restorer -> PCs] /\ job \in [Restorer -> Jobs]
      /\ holder \in [Run -> Restorer \cup {None}] /\ \A r \in Restorer : JobOK(r)
  BY Types DEF IInv, LockTypes
<1>2. ASSUME NEW r \in Restorer, Restore(r) PROVE Guarded'
  <2>1. \A q \in Restorer \ {r} : pc'[q] = pc[q] /\ job'[q] = job[q]
    BY <1>2, OthersUntouched DEF IInv
  <2>2. CASE \E from \in Source : OpenLock(r, from)
    <3>1. pc[r] \notin Critical /\ pc'[r] \notin Critical /\ holder' = holder
      BY <1>1, <2>2 DEF OpenLock, Goto, Critical
    <3>. QED BY <2>1, <3>1, LockKept
  <2>3. CASE Flock(r)
    <3>1. job' = job /\ job[r].fd \in Run /\ pc[r] = "opened"
      BY <1>1, <2>3 DEF Flock, Goto, JobOK
    <3>2. CASE holder[job[r].fd] = None
      <4>1. pc'[r] = "stage" /\ holder' = [holder EXCEPT ![job[r].fd] = r]
        BY <1>1, <2>3, <3>2 DEF Flock, Goto
      <4>2. \A q \in Restorer : ~Locked(q, job[r].fd)
        BY <3>1, <3>2, NoneAssumption DEF Guarded
      <4>. QED BY <1>1, <2>1, <3>1, <4>1, <4>2 DEF Guarded, Locked, Critical
    <3>3. CASE holder[job[r].fd] # None
      <4>1. pc'[r] = "idle" /\ holder' = holder
        BY <1>1, <2>3, <3>3 DEF Flock, Goto
      <4>. QED BY <2>1, <3>1, <4>1, LockKept DEF Critical
    <3>. QED BY <3>2, <3>3
  <2>4. CASE Unlock(r) \/ Exit(r) \/ Crash(r)
    <3>1. pc'[r] \notin Critical /\ holder' = Released(r)
      BY <1>1, <2>4 DEF Unlock, Exit, Crash, Goto, Critical
    <3>2. \A inode \in Run, q \in Restorer \ {r} :
             holder[inode] = q => holder'[inode] = q
      BY <3>1 DEF Released
    <3>. QED BY <2>1, <3>1, <3>2 DEF Guarded, Locked
  <2>5. CASE Stage(r) \/ Fail(r) \/ Checkpoint(r) \/ Swap(r)
    <3>1. /\ pc[r] \in Critical /\ pc'[r] \in Critical /\ holder' = holder
          /\ job'[r].fd = job[r].fd
      BY <1>1, <2>5 DEF Stage, Fail, Checkpoint, Swap, Goto, Critical, locks, Jobs
    <3>. QED BY <2>1, <3>1, LockKept
  <2>6. CASE \/ Validate(r, "validate", "checkpoint") \/ Validate(r, "final", "swap")
             \/ CopyLive(r) \/ RemoveSidecars(r)
    <3>1. pc[r] \in Critical /\ pc'[r] \in Critical /\ holder' = holder /\ job' = job
      BY <1>1, <2>6 DEF Validate, CopyLive, RemoveSidecars, Goto, Critical, locks
    <3>. QED BY <2>1, <3>1, LockKept
  <2>7. CASE Unlink(r)
    <3>1. pc[r] \notin Critical /\ pc'[r] \notin Critical /\ holder' = holder
      BY <1>1, <2>7 DEF Unlink, Goto, Critical
    <3>. QED BY <2>1, <3>1, LockKept
  <2>8. CASE FailBeforeTry(r)
    <3>1. pc'[r] \notin Critical /\ holder' = holder /\ job' = job
      BY <1>1, <2>8 DEF FailBeforeTry, Goto, Critical, locks
    <3>. QED BY <2>1, <3>1, LockKept
  <2>. QED BY <1>2, <2>2, <2>3, <2>4, <2>5, <2>6, <2>7, <2>8 DEF Restore
<1>3. ASSUME NEW t \in Txn, NEW lingers \in BOOLEAN, CommandOnLive(t, lingers)
      PROVE  Guarded'
  BY <1>3, LockKept DEF CommandOnLive, locks
<1>4. ASSUME NEW t \in Txn, NEW r \in Restorer, CommandOnStaged(t, r) PROVE Guarded'
  <2>1. job' = [job EXCEPT ![r].staged = [job[r].staged EXCEPT !.txns = @ \cup {t}]]
    BY <1>4 DEF CommandOnStaged
  <2>2. \A q \in Restorer : job'[q].fd = job[q].fd
    BY <1>1, <2>1 DEF Jobs
  <2>. QED BY <1>4, <2>2, LockKept DEF CommandOnStaged, locks
<1>5. CASE UNCHANGED vars
  BY <1>5, LockKept DEF vars, locks
<1>. QED BY <1>2, <1>3, <1>4, <1>5 DEF Next, Command

(* The lock is never shared: two restores past it have opened different    *)
(* files, whatever locks failed restores have left behind.                 *)
THEOREM LockFileExcludes == Spec => [](Guarded /\ FlockExcludes)
<1>1. Init => Guarded
  BY NoneAssumption DEF Init, Guarded, Locked, Critical
<1>2. Guarded => FlockExcludes
  BY DEF Guarded, Locked, FlockExcludes
<1>. QED BY <1>1, <1>2, GuardedStep, Invariance, PTL DEF Spec

(* How far OneRestore is from the code: while no more than two restores    *)
(* were started, those that run have opened the same lock file.            *)
Busy == {r \in Restorer : pc[r] # "idle"}

Few ==
    /\ runs = 0 => Busy = {}
    /\ runs = 1 => \A r, s \in Busy : /\ r = s /\ lockPath # None
                                     /\ job[r].fd = lockPath
    /\ runs = 2 => \A r, s \in Busy : job[r].fd = job[s].fd

LEMMA FewStay ==
    ASSUME Few, runs' = runs, Busy' \subseteq Busy,
           \A q \in Busy' : job'[q].fd = job[q].fd,
           lockPath' = lockPath \/ \E r \in Busy : r \notin Busy'
    PROVE  Few'
BY DEF Few

LEMMA FewStep == IInv /\ Few /\ [Next]_vars => Few'
<1>. SUFFICES ASSUME IInv, Few, [Next]_vars PROVE Few'
  OBVIOUS
<1>1. /\ pc \in [Restorer -> PCs] /\ job \in [Restorer -> Jobs] /\ runs \in Nat
  BY Types DEF IInv, LockTypes
<1>2. ASSUME NEW r \in Restorer, Restore(r) PROVE Few'
  <2>1. \A q \in Restorer \ {r} : pc'[q] = pc[q] /\ job'[q] = job[q]
    BY <1>2, OthersUntouched DEF IInv
  <2>2. CASE \E from \in Source : OpenLock(r, from)
    <3>1. /\ runs' = runs + 1 /\ Busy' = Busy \cup {r} /\ r \notin Busy
          /\ job'[r].fd = lockPath'
          /\ lockPath' = IF lockPath = None THEN runs' ELSE lockPath
      BY <1>1, <2>1, <2>2 DEF OpenLock, Goto, Busy, NoJob
    <3>0. lockPath' # None
      <4>1. runs < env.restores /\ env.restores \in 0 .. MaxRestores
        BY <2>2, Types DEF OpenLock, IInv, LockTypes, Env
      <4>2. runs' \in Run
        BY <1>1, <3>1, <4>1, RestoreAssumption DEF Run
      <4>. QED BY <3>1, <4>2, NoneAssumption
    <3>2. \A q \in Busy : job'[q].fd = job[q].fd
      BY <2>1, <3>1 DEF Busy
    <3>3. CASE runs = 0
      BY <3>0, <3>1, <3>3 DEF Few
    <3>4. CASE runs = 1
      <4>1. \A q \in Busy : job[q].fd = lockPath /\ lockPath # None
        BY <1>1, <3>4 DEF Few
      <4>. QED BY <3>1, <3>2, <3>4, <4>1 DEF Few
    <3>5. CASE runs > 1
      BY <1>1, <3>1, <3>5 DEF Few
    <3>. QED BY <1>1, <3>3, <3>4, <3>5
  <2>3. CASE Flock(r) \/ Unlock(r) \/ Crash(r) \/ Stage(r) \/ Fail(r)
             \/ Checkpoint(r) \/ Swap(r)
    <3>1. /\ runs' = runs /\ lockPath' = lockPath /\ pc[r] # "idle"
          /\ job'[r].fd = job[r].fd
      BY <1>1, <2>3 DEF Flock, Unlock, Crash, Stage, Fail, Checkpoint, Swap, Goto,
                        locks, Jobs
    <3>. QED BY <2>1, <3>1, FewStay DEF Busy
  <2>4. CASE \/ Validate(r, "validate", "checkpoint") \/ Validate(r, "final", "swap")
             \/ CopyLive(r) \/ RemoveSidecars(r)
    <3>1. runs' = runs /\ lockPath' = lockPath /\ pc[r] # "idle" /\ job' = job
      BY <1>1, <2>4 DEF Validate, CopyLive, RemoveSidecars, Goto, locks
    <3>. QED BY <2>1, <3>1, FewStay DEF Busy
  <2>5. CASE Unlink(r)
    <3>1. runs' = runs /\ r \in Busy /\ r \notin Busy' /\ job' = job
      BY <1>1, <2>5 DEF Unlink, Goto, Busy
    <3>. QED BY <2>1, <3>1, FewStay DEF Busy
  <2>6. CASE FailBeforeTry(r) \/ Exit(r)
    <3>1. /\ runs' = runs /\ lockPath' = lockPath /\ job' = job
          /\ r \in Busy' => r \in Busy
      BY <1>1, <2>6 DEF FailBeforeTry, Exit, Goto, locks, Busy
    <3>2. Busy' \subseteq Busy
      BY <2>1, <3>1 DEF Busy
    <3>. QED BY <3>1, <3>2, FewStay
  <2>. QED BY <1>2, <2>2, <2>3, <2>4, <2>5, <2>6 DEF Restore
<1>3. ASSUME NEW t \in Txn, NEW lingers \in BOOLEAN, CommandOnLive(t, lingers)
      PROVE  Few'
  BY <1>3, FewStay DEF CommandOnLive, locks, Busy
<1>4. ASSUME NEW t \in Txn, NEW r \in Restorer, CommandOnStaged(t, r) PROVE Few'
  <2>1. job' = [job EXCEPT ![r].staged = [job[r].staged EXCEPT !.txns = @ \cup {t}]]
    BY <1>4 DEF CommandOnStaged
  <2>2. \A q \in Restorer : job'[q].fd = job[q].fd
    BY <1>1, <2>1 DEF Jobs
  <2>. QED BY <1>4, <2>2, FewStay DEF CommandOnStaged, locks, Busy
<1>5. CASE UNCHANGED vars
  BY <1>5, FewStay DEF vars, locks, Busy
<1>. QED BY <1>2, <1>3, <1>4, <1>5 DEF Next, Command

(* The first two restores never work at the same time, wherever they stop: *)
(* it takes a third for one to be let in by a lock file made anew.         *)
THEOREM TwoRestoresExclude == Spec => [](runs <= 2 => OneRestore)
<1>1. Init => Few
  BY DEF Init, Few, Busy
<1>2. IInv /\ Few /\ FlockExcludes => (runs <= 2 => OneRestore)
  <2>. SUFFICES ASSUME IInv, Few, FlockExcludes, runs <= 2,
                       NEW r \in Restorer, NEW s \in Restorer,
                       pc[r] \in Critical, pc[s] \in Critical
                PROVE  r = s
    BY DEF OneRestore
  <2>1. r \in Busy /\ s \in Busy
    BY DEF Busy, Critical
  <2>2. runs \in Nat
    BY Types DEF IInv, LockTypes
  <2>3. runs = 0 \/ runs = 1 \/ runs = 2
    BY <2>2
  <2>4. job[r].fd = job[s].fd
    BY <2>1, <2>3 DEF Few
  <2>. QED BY <2>4 DEF FlockExcludes
<1>. QED BY <1>1, <1>2, FewStep, Invariance, LockFileExcludes, PTL DEF Spec
-----------------------------------------------------------------------------
(* Refinement.  What a step of r leaves of what is asked and shown.        *)

LEMMA WhatIsAsked ==
    \A r \in Restorer : /\ Asked[r]  = IF pc[r] \in Pending THEN {job[r].source} ELSE {}
                        /\ Asked'[r] = IF pc'[r] \in Pending THEN {job'[r].source} ELSE {}
BY DEF Asked

LEMMA AskedByOthers ==
    ASSUME NEW r \in Restorer,
           \A q \in Restorer \ {r} : pc'[q] = pc[q] /\ job'[q] = job[q]
    PROVE  /\ Asked' = [Asked EXCEPT ![r] = Asked'[r]]
           /\ Asked'[r] = Asked[r] => Asked' = Asked
<1>1. \A q \in Restorer \ {r} : Asked'[q] = Asked[q]
  BY WhatIsAsked
<1>2. /\ Asked  = [q \in Restorer |-> Asked[q]]
      /\ Asked' = [q \in Restorer |-> Asked'[q]]
  BY DEF Asked
<1>. QED BY <1>1, <1>2

(* No step of a restore changes what the database shows but the swap. *)
LEMMA ShownStays ==
    ASSUME IInv, Undisturbed, NEW r \in Restorer, Restore(r), ~Swap(r)
    PROVE  Shown' = Shown
<1>1. /\ \A q \in Restorer \ {r} : pc'[q] = pc[q] /\ job'[q] = job[q]
      /\ \A q \in Restorer : Tidy(q) /\ (pc[q] = "sidecars" => live # None)
      /\ pc \in [Restorer -> PCs] /\ env.readers \in BOOLEAN /\ TypeOK
  BY OthersUntouched, Types, EnvTypes DEF IInv, TidyAll, JobOK, LockTypes
<1>2. CASE RemoveSidecars(r)
  <2>1. pc[r] = "sidecars" /\ live' = live /\ wal' = None
    BY <1>2 DEF RemoveSidecars, Goto
  <2>. QED BY <1>1, <2>1 DEF Shown, Visible
<1>3. CASE Crash(r) /\ pc[r] = "sidecars"
  <2>1. wal = None /\ live' = live /\ wal' = wal
    BY <1>1, <1>3 DEF Crash, Undisturbed, Tidy, files
  <2>. QED BY <1>1, <1>3, <2>1 DEF Shown, Visible
<1>4. CASE pc[r] # "sidecars"
  <2>1. pc'[r] # "sidecars"
    BY <1>1, <1>4 DEF Restore, OpenLock, Flock, Stage, Fail, FailBeforeTry,
                      Validate, Checkpoint, CopyLive, RemoveSidecars, Unlock,
                      Unlink, Exit, Crash, Goto
  <2>2. (\E q \in Restorer : pc'[q] = "sidecars") <=> \E q \in Restorer : pc[q] = "sidecars"
    BY <1>1, <1>4, <2>1
  <2>3. CASE Plain(r) \/ CopyLive(r)
    BY <2>2, <2>3, PlainFiles DEF CopyLive, Shown
  <2>4. CASE Checkpoint(r)
    <3>1. Visible(live', wal') = Visible(live, wal)
      BY <1>1, <2>4, Merging DEF Checkpoint, TypeOK
    <3>2. ASSUME NEW q \in Restorer, pc[q] = "sidecars" PROVE live'.txns = live.txns
      <4>1. pc[r] = "checkpoint" /\ q # r
        BY <2>4, <3>2 DEF Checkpoint, Goto
      <4>2. wal = None /\ live # None
        BY <1>1, <3>2, <4>1 DEF IInv, Alone, Undisturbed, Tidy
      <4>. QED BY <1>1, <2>4, <4>2, Merging DEF Checkpoint, TypeOK, Visible
    <3>. QED BY <2>2, <3>1, <3>2 DEF Shown
  <2>. QED BY <1>4, <2>3, <2>4 DEF Restore, Plain, RemoveSidecars, Goto
<1>. QED BY <1>2, <1>3, <1>4
         DEF Restore, OpenLock, Flock, Stage, Fail, FailBeforeTry, Validate,
             Checkpoint, CopyLive, Unlock, Unlink, Exit, Crash, Goto

(* Each step of a restore, as the abstract specification sees it. *)
LEMMA RestoreAsReplacement ==
    ASSUME IInv, Undisturbed, NEW r \in Restorer, Restore(r)
    PROVE  \/ \E from \in Source : Replacement!Ask(r, from)
           \/ Replacement!Replace(r) \/ Replacement!GiveUp(r)
           \/ UNCHANGED <<Shown, Asked>>
<1>1. /\ \A q \in Restorer \ {r} : pc'[q] = pc[q] /\ job'[q] = job[q]
      /\ pc \in [Restorer -> PCs] /\ job \in [Restorer -> Jobs] /\ JobOK(r)
  BY OthersUntouched, Types DEF IInv, LockTypes
<1>2. /\ Asked' = [Asked EXCEPT ![r] = Asked'[r]]
      /\ Asked'[r] = Asked[r] => Asked' = Asked
  BY <1>1, AskedByOthers
<1>3. ASSUME NEW from \in Source, OpenLock(r, from) PROVE Replacement!Ask(r, from)
  <2>1. Asked[r] = {} /\ Asked'[r] = {from}
    BY <1>1, <1>3, WhatIsAsked DEF OpenLock, Goto, NoJob, Pending
  <2>2. Shown' = Shown
    BY <1>3, ShownStays DEF OpenLock, Swap, Goto
  <2>. QED BY <1>2, <2>1, <2>2 DEF Replacement!Ask
<1>4. CASE Swap(r)
  <2>1. /\ pc[r] = "swap" /\ pc'[r] = "sidecars" /\ live' = job[r].staged
        /\ job[r].staged.txns = job[r].source
        /\ job[r].source \in Source \ Invalid
    BY <1>1, <1>4 DEF Swap, Goto, JobOK, Staging, Accepted, Undisturbed
  <2>2. Asked[r] = {job[r].source} /\ Asked'[r] = {}
    BY <2>1, WhatIsAsked DEF Pending
  <2>3. Shown' = job[r].source
    BY <2>1 DEF Shown
  <2>. QED BY <1>2, <2>1, <2>2, <2>3 DEF Replacement!Replace, Replacement!Answer
<1>5. CASE ~Swap(r) /\ pc[r] \in Pending /\ pc'[r] \notin Pending
  <2>1. Asked[r] = {job[r].source} /\ Asked'[r] = {}
    BY <1>5, WhatIsAsked
  <2>. QED BY <1>2, <1>5, <2>1, ShownStays DEF Replacement!GiveUp, Replacement!Answer
<1>6. CASE /\ ~Swap(r) /\ (pc[r] \in Pending <=> pc'[r] \in Pending)
           /\ pc[r] \in Pending => job'[r].source = job[r].source
  BY <1>2, <1>6, ShownStays, WhatIsAsked
<1>7. CASE Stage(r) \/ Checkpoint(r)
  <2>1. /\ pc[r] \in Pending /\ pc'[r] \in Pending /\ ~Swap(r)
        /\ job'[r].source = job[r].source
    BY <1>1, <1>7 DEF Stage, Checkpoint, Swap, Goto, Pending, Jobs
  <2>. QED BY <1>6, <2>1
<1>8. CASE Flock(r) \/ Validate(r, "validate", "checkpoint") \/ CopyLive(r)
           \/ Validate(r, "final", "swap") \/ RemoveSidecars(r) \/ Unlock(r) \/ Unlink(r)
  <2>1. job' = job /\ ~Swap(r)
    BY <1>8 DEF Flock, Validate, CopyLive, RemoveSidecars, Unlock, Unlink, Swap, Goto
  <2>2. pc'[r] \in Pending => pc[r] \in Pending
    BY <1>1, <1>8 DEF Flock, Validate, CopyLive, RemoveSidecars, Unlock, Unlink, Goto,
                      Pending
  <2>. QED BY <1>5, <1>6, <2>1, <2>2
<1>9. CASE Fail(r) \/ FailBeforeTry(r) \/ Exit(r) \/ Crash(r)
  <2>1. pc'[r] \notin Pending /\ ~Swap(r)
    BY <1>1, <1>9 DEF Fail, FailBeforeTry, Exit, Crash, Swap, Goto, Pending
  <2>. QED BY <1>5, <1>6, <2>1
<1>. QED BY <1>3, <1>4, <1>7, <1>8, <1>9 DEF Restore

LEMMA ReplacementStep ==
    ASSUME IInv, [Next]_vars
    PROVE  [Replacement!Next]_<<Shown, Asked, Undisturbed>>
<1>1. ASSUME NEW r \in Restorer, Restore(r) PROVE UNCHANGED Undisturbed
  BY <1>1, OthersUntouched DEF IInv, Undisturbed
<1>2. CASE Undisturbed
  <2>1. ASSUME NEW r \in Restorer, Restore(r)
        PROVE  [Replacement!Next]_<<Shown, Asked, Undisturbed>>
    BY <1>1, <1>2, <2>1, RestoreAsReplacement DEF Replacement!Next
  <2>2. ASSUME NEW t \in Txn, NEW lingers \in BOOLEAN, CommandOnLive(t, lingers)
        PROVE  Replacement!Next
    <3>1. Idle /\ pc' = pc /\ job' = job /\ env' = env
      BY <1>2, <2>2 DEF CommandOnLive, Undisturbed
    <3>2. Shown = Visible(live, wal) /\ Shown' = Visible(live', wal')
      BY <3>1 DEF Idle, Shown
    <3>3. Shown' = Shown \cup {t} /\ Asked' = Asked
      BY <2>2, <3>1, <3>2, CommandFiles DEF Asked
    <3>. QED BY <3>1, <3>3 DEF Replacement!Next, Replacement!Commit, Undisturbed
  <2>3. ASSUME NEW t \in Txn, NEW r \in Restorer, CommandOnStaged(t, r) PROVE FALSE
    BY <1>2, <2>3 DEF CommandOnStaged, Undisturbed
  <2>4. CASE UNCHANGED vars
    BY <2>4 DEF vars, files, Shown, Visible, Asked, Undisturbed
  <2>. QED BY <2>1, <2>2, <2>3, <2>4 DEF Next, Command
<1>3. CASE ~Undisturbed
  <2>1. env' = env
    BY OthersUntouched DEF IInv, Next, Command, CommandOnLive, CommandOnStaged, vars
  <2>. QED BY <1>3, <2>1 DEF Replacement!Next, Undisturbed
<1>. QED BY <1>2, <1>3

(* Undisturbed, a restore is one atomic replacement: whatever it races     *)
(* with and wherever it dies, the next connection sees exactly the backup, *)
(* or exactly what it would have seen without the restore.                 *)
THEOREM RestoreIsReplacement == Spec => ImplementsReplacement
<1>1. Init => Replacement!Init
  <2>. SUFFICES ASSUME Init PROVE Replacement!Init
    OBVIOUS
  <2>1. Shown = {}
    BY DEF Init, Shown, Visible
  <2>2. Asked = [r \in Restorer |-> {}]
    BY DEF Init, Asked, Pending
  <2>3. Undisturbed \in BOOLEAN
    BY DEF Undisturbed
  <2>. QED BY <2>1, <2>2, <2>3 DEF Replacement!Init
<1>2. IInv /\ [Next]_vars => [Replacement!Next]_<<Shown, Asked, Undisturbed>>
  BY ReplacementStep
<1>. QED BY <1>1, <1>2, Invariance, PTL DEF Spec, ImplementsReplacement, Replacement!Spec
=============================================================================
