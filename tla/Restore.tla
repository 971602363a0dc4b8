------------------------------ MODULE Restore ------------------------------
(***************************************************************************)
(* `wgpl db restore' (restore.py): lock file, staging file, validation,    *)
(* backup of the live database, swap, removal of SQLite's sidecar files;   *)
(* several restores, commands that use the database meanwhile, and a crash *)
(* between any two steps.                                                  *)
(*                                                                         *)
(* A database file is the set of transactions whose effects it holds.      *)
(* SQLite is external: in WAL mode a commit first goes to the sidecar      *)
(* <path>-wal, which the last connection to close copies into the file and *)
(* removes, unless its process dies or another connection still reads.     *)
(* Whoever opens <path> takes the frames of <path>-wal as belonging to it. *)
(***************************************************************************)
EXTENDS Naturals, Sequences, FiniteSets

CONSTANTS
    Restorer,       \* processes that run restores, one at a time each
    Txn,            \* transactions that commands commit
    Source,         \* the backup files offered, as sets of transactions
    Invalid,        \* those of them that validation refuses
    None,           \* no file, no holder, no restore
    Environments,   \* what may happen beside the steps of restores, see Env
    MaxRestores     \* bound on the restores started

(* What a behaviour may be disturbed by, and its own bound on restores.    *)
Env == [concurrent : SUBSET {"process", "thread"},  \* commands during a restore,
                                \* of another process or of a restorer's threads
        readers : BOOLEAN,      \* connections that keep the WAL from being copied
        crashes : BOOLEAN,      \* the death of a restore
        parallel : BOOLEAN,     \* restores started while another one runs
        restores : 0 .. MaxRestores]

Keep == 3           \* _rotate_backups
Run  == 1 .. MaxRestores

Contents == Txn \cup UNION Source
File     == [id : 0 .. MaxRestores, txns : SUBSET Contents, sound : BOOLEAN]
Wal      == [of : 0 .. MaxRestores, txns : SUBSET Contents]

(* What a refused backup holds is in nothing else, to tell it by. *)
ASSUME RestoreAssumption ==
    /\ \A from \in Source : from \cap Txn = {}
    /\ Invalid \subseteq Source
    /\ \A from \in Source \ Invalid : from \cap UNION Invalid = {}
    /\ MaxRestores \in Nat
    /\ Environments \subseteq Env
ASSUME NoneAssumption == None \notin File \cup Wal \cup Run \cup Restorer

VARIABLES
    live,       \* the file at db_path: [id, txns, sound], or None
    wal,        \* the file at db_path-wal: [of, txns], or None
    backups,    \* the files db_path.bak.*, newest first
    lockPath,   \* the inode at db_path.restore.lock, or None
    holder,     \* inode -> the restorer with flock on it, or None
    pc, job,    \* of each restorer: [run, fd, source, staged, warned]
    runs,       \* restores started; numbers files and inodes
    acked,      \* history: transactions committed
    env         \* the environment, chosen once

files == <<live, wal, backups>>
locks == <<lockPath, holder>>
vars  == <<files, locks, pc, job, runs, acked, env>>

UnionOf(seq) == UNION {seq[k] : k \in 1 .. Len(seq)}

(* What a connection opened now would see. *)
Visible(file, log) == (IF file = None THEN {} ELSE file.txns) \cup
                      (IF log = None THEN {} ELSE log.txns)

(* Frames written for another file are applied all the same. *)
Fits(file, log) == log = None \/ (file # None /\ log.of = file.id)

Merged(file, log) ==
    [file EXCEPT !.txns = Visible(file, log), !.sound = @ /\ Fits(file, log)]

Idle == \A r \in Restorer : pc[r] = "idle"

(* While os.environ["WGPL_DB_PATH"] names the staging file, which it does  *)
(* for all the threads of the process.                                     *)
Redirected(r) == pc[r] \in {"validate", "final"}

-----------------------------------------------------------------------------
NoJob == [run |-> 0, fd |-> None, source |-> {}, staged |-> None, warned |-> FALSE]

Init ==
    /\ live = None /\ wal = None /\ backups = <<>>
    /\ lockPath = None /\ holder = [inode \in Run |-> None]
    /\ pc = [r \in Restorer |-> "idle"] /\ job = [r \in Restorer |-> NoJob]
    /\ runs = 0 /\ acked = {}
    /\ env \in Environments

(* Commands.  One that lingers leaves its frames in the WAL. *)

LiveOrNew == IF live = None THEN [id |-> 0, txns |-> {}, sound |-> TRUE] ELSE live

CommandOnLive(t, lingers) ==
    /\ \/ Idle \/ "process" \in env.concurrent
       \/ "thread" \in env.concurrent /\ ~\E r \in Restorer : Redirected(r)
    /\ t \notin acked /\ acked' = acked \cup {t}
    /\ IF lingers
       THEN /\ live' = LiveOrNew
            /\ wal'  = IF wal = None THEN [of |-> LiveOrNew.id, txns |-> {t}]
                       ELSE [wal EXCEPT !.txns = @ \cup {t}]
       ELSE /\ live' = [Merged(LiveOrNew, wal) EXCEPT !.txns = @ \cup {t}]
            /\ wal'  = None
    /\ UNCHANGED <<env, backups, locks, pc, job, runs>>

CommandOnStaged(t, r) ==
    /\ "thread" \in env.concurrent /\ Redirected(r)
    /\ t \notin acked /\ acked' = acked \cup {t}
    /\ job' = [job EXCEPT ![r].staged.txns = @ \cup {t}]
    /\ UNCHANGED <<env, files, locks, pc, runs>>

Goto(r, from, to) == pc[r] = from /\ pc' = [pc EXCEPT ![r] = to]

(* _acquire_restore_lock: open, then flock without waiting. *)

OpenLock(r, from) ==
    /\ Goto(r, "idle", "opened")
    /\ runs < env.restores                      \* bound of the model
    /\ env.parallel \/ Idle
    /\ runs' = runs + 1
    /\ lockPath' = IF lockPath = None THEN runs' ELSE lockPath
    /\ job' = [job EXCEPT ![r] =
                 [NoJob EXCEPT !.run = runs', !.fd = lockPath', !.source = from]]
    /\ UNCHANGED <<env, files, holder, acked>>

FlockShared(r) ==               \* fault: the lock is shared, or not looked at
    /\ Goto(r, "opened", "stage")
    /\ holder' = [holder EXCEPT ![job[r].fd] = r]
    /\ UNCHANGED <<env, files, lockPath, job, runs, acked>>

Flock(r) ==
    LET inode == job[r].fd
    IN  /\ Goto(r, "opened", IF holder[inode] = None THEN "stage" ELSE "idle")
        /\ holder' = [holder EXCEPT ![inode] = IF @ = None THEN r ELSE @]
        /\ UNCHANGED <<env, files, lockPath, job, runs, acked>>

(* The source is copied into a file of its own. *)
Stage(r) ==
    /\ Goto(r, "stage", "validate")
    /\ job' = [job EXCEPT ![r].staged =
                 [id |-> job[r].run, txns |-> job[r].source, sound |-> TRUE]]
    /\ UNCHANGED <<env, files, locks, runs, acked>>

(* init_db and _validate_restored_data, and a second time before the swap. *)
ValidateSchema(r, from, to) ==  \* fault: rows are not looked at
    /\ Goto(r, from, to)
    /\ UNCHANGED <<env, files, locks, job, runs, acked>>

Validate(r, from, to) ==
    /\ job[r].source \notin Invalid
    /\ Goto(r, from, to)
    /\ UNCHANGED <<env, files, locks, job, runs, acked>>

(* An exception inside the `try' and before the swap, a refused source in  *)
(* particular: the staging file is removed, a backup already made stays.   *)
Fail(r) ==
    /\ pc[r] \in {"stage", "validate", "checkpoint", "copy", "final", "swap"}
    /\ pc'  = [pc EXCEPT ![r] = "unlock"]
    /\ job' = [job EXCEPT ![r].staged = None]
    /\ UNCHANGED <<env, files, locks, runs, acked>>

(* The name of the staging file is allocated after the lock is taken and   *)
(* before the `try': an exception there leaves the lock file and flock.    *)
FailBeforeTry(r) ==
    /\ Goto(r, "stage", "idle")
    /\ UNCHANGED <<env, files, locks, job, runs, acked>>

CheckpointSkipped(r) ==         \* fault: PRAGMA wal_checkpoint left out
    /\ Goto(r, "checkpoint", IF live = None THEN "final" ELSE "copy")
    /\ UNCHANGED <<env, files, locks, job, runs, acked>>

WalRemoved(r) ==                \* fault: -wal is removed, not checkpointed
    /\ Goto(r, "checkpoint", IF live = None THEN "final" ELSE "copy")
    /\ wal' = None
    /\ UNCHANGED <<env, live, backups, locks, job, runs, acked>>

(* wal_checkpoint(TRUNCATE) on the live database, if there is one; a       *)
(* reader of an older snapshot blocks it, which is only a warning.         *)
Checkpoint(r) ==
    /\ Goto(r, "checkpoint", IF live = None THEN "final" ELSE "copy")
    /\ \/ /\ live' = IF live = None THEN None ELSE Merged(live, wal)
          /\ wal'  = IF live = None THEN wal ELSE None
          /\ UNCHANGED job
       \/ /\ env.readers /\ live # None /\ wal # None
          /\ job' = [job EXCEPT ![r].warned = TRUE]
          /\ UNCHANGED <<live, wal>>
    /\ UNCHANGED <<env, backups, locks, runs, acked>>

CopyNotRotated(r) ==            \* fault: old backups are never removed
    /\ Goto(r, "copy", "final")
    /\ backups' = <<live.txns>> \o backups
    /\ UNCHANGED <<env, live, wal, locks, job, runs, acked>>

(* copy_regular_file takes db_path without its WAL; then _rotate_backups.  *)
CopyLive(r) ==
    /\ Goto(r, "copy", "final")
    /\ LET all == <<live.txns>> \o backups
       IN  backups' = SubSeq(all, 1, IF Len(all) > Keep THEN Keep ELSE Len(all))
    /\ UNCHANGED <<env, live, wal, locks, job, runs, acked>>

(* os.replace *)
Swap(r) ==
    /\ Goto(r, "swap", "sidecars")
    /\ live' = job[r].staged
    /\ job'  = [job EXCEPT ![r].staged = None]
    /\ UNCHANGED <<env, wal, backups, locks, runs, acked>>

SidecarsLeft(r) ==              \* fault: db_path-wal is not removed
    /\ Goto(r, "sidecars", "unlock")
    /\ UNCHANGED <<env, files, locks, job, runs, acked>>

RemoveSidecars(r) ==
    /\ Goto(r, "sidecars", "unlock")
    /\ wal' = None
    /\ UNCHANGED <<env, live, backups, locks, job, runs, acked>>

Released(r) ==
    [inode \in Run |-> IF holder[inode] = r THEN None ELSE holder[inode]]

(* _release_restore_lock: unlock and close, then unlink by name. *)
Unlock(r) ==
    /\ Goto(r, "unlock", "unlink")
    /\ holder' = Released(r)
    /\ UNCHANGED <<env, files, lockPath, job, runs, acked>>

Unlink(r) ==
    /\ Goto(r, "unlink", "idle")
    /\ lockPath' = None
    /\ UNCHANGED <<env, files, holder, job, runs, acked>>

(* The process ends, and with it the flock of a failure before the `try'.  *)
Exit(r) ==
    /\ pc[r] = "idle" /\ \E inode \in Run : holder[inode] = r
    /\ holder' = Released(r)
    /\ UNCHANGED <<env, files, lockPath, pc, job, runs, acked>>

(* The system releases flock; files stay where they are. *)
Crash(r) ==
    /\ env.crashes /\ pc[r] # "idle"
    /\ pc' = [pc EXCEPT ![r] = "idle"]
    /\ job' = [job EXCEPT ![r].staged = None]
    /\ holder' = Released(r)
    /\ UNCHANGED <<env, files, lockPath, runs, acked>>

-----------------------------------------------------------------------------
Command ==
    \E t \in Txn : \/ \E lingers \in BOOLEAN : CommandOnLive(t, lingers)
                   \/ \E r \in Restorer : CommandOnStaged(t, r)

Restore(r) ==
    \/ \E from \in Source : OpenLock(r, from)
    \/ Flock(r) \/ Stage(r) \/ Fail(r) \/ FailBeforeTry(r)
    \/ Validate(r, "validate", "checkpoint") \/ Validate(r, "final", "swap")
    \/ Checkpoint(r) \/ CopyLive(r) \/ Swap(r) \/ RemoveSidecars(r)
    \/ Unlock(r) \/ Unlink(r) \/ Exit(r) \/ Crash(r)

Next == Command \/ \E r \in Restorer : Restore(r)

Spec == Init /\ [][Next]_vars

-----------------------------------------------------------------------------
(* Properties. *)

(* The types of the variables. *)
TypeOK ==
    /\ live \in File \cup {None}
    /\ wal \in Wal \cup {None}
    /\ backups \in Seq(SUBSET Contents) /\ Len(backups) <= Keep
    /\ lockPath \in Run \cup {None}
    /\ holder \in [Run -> Restorer \cup {None}]
    /\ pc \in [Restorer -> {"idle", "opened", "stage", "validate", "checkpoint",
                  "copy", "final", "swap", "sidecars", "unlock", "unlink"}]
    /\ job \in [Restorer -> [run : 0 .. MaxRestores, fd : Run \cup {None},
                  source : Source \cup {{}}, staged : File \cup {None},
                  warned : BOOLEAN]]
    /\ runs \in 0 .. env.restores /\ acked \subseteq Txn /\ env \in Env

(* The database is whole: no connection has applied, or will apply, WAL    *)
(* frames of another file to it, except between the swap and the removal   *)
(* of the sidecar by the restore that is still running.                    *)
Whole ==
    /\ live # None => live.sound
    /\ Fits(live, wal) \/ \E r \in Restorer : pc[r] = "sidecars"

(* Restores run beside no command, and a reader only beside a restore      *)
(* that is alone and does not die.                                         *)
Undisturbed ==
    /\ env.concurrent = {}
    /\ env.readers => ~env.crashes /\ ~env.parallel

(* A swap is atomic for whoever opens the database later, whether restores *)
(* die and race for the lock or readers block their checkpoints.           *)
WholeUndisturbed == Undisturbed => Whole

(* A transaction once committed is in the live database or in a backup     *)
(* that was kept, wherever a restore stopped and whatever was left in the  *)
(* WAL by a command that died.                                             *)
NothingLost ==
    Undisturbed /\ ~env.readers /\ runs <= Keep
        => acked \subseteq Visible(live, wal) \cup UnionOf(backups)

(* A backup that validation refuses never becomes the live database,       *)
(* whatever runs beside the restore and wherever it stops.                 *)
RefusedNeverLive ==
    live # None => live.txns \cap UNION Invalid = {}

(* Only a command, or the last two steps of a restore, change what the     *)
(* live database shows: one that is refused, fails or crashes earlier does *)
(* not, although it may have copied the WAL into the file.                 *)
OnlySwapShows ==
    [][\/ Visible(live', wal') = Visible(live, wal)
       \/ acked' # acked
       \/ \E r \in Restorer : <<pc[r], pc'[r]>> \in
             {<<"swap", "sidecars">>, <<"sidecars", "unlock">>}]_vars

(* A swap that leaves a committed transaction in no backup was warned of.  *)
LossIsWarned ==
    [][\A r \in Restorer : Undisturbed /\ pc[r] = "swap" /\ pc'[r] = "sidecars" =>
          \/ Visible(live, wal) \cap Txn \subseteq UnionOf(backups)
          \/ job[r].warned]_vars

Critical == {"stage", "validate", "checkpoint", "copy", "final", "swap",
             "sidecars", "unlock"}

(* The lock file itself excludes: two restores that are past the lock hold *)
(* it on different inodes, whoever crashed and whatever was unlinked.  The *)
(* unlinking alone is what lets two in, see OneRestore.                    *)
FlockExcludes ==
    \A r, s \in Restorer :
        pc[r] \in Critical /\ pc[s] \in Critical /\ job[r].fd = job[s].fd => r = s

-----------------------------------------------------------------------------
(* Abstraction: between the swap and the removal of the old sidecar the    *)
(* restore is not done, and what counts is the file it has put in place.   *)

Shown == IF \E r \in Restorer : pc[r] = "sidecars" THEN live.txns
         ELSE Visible(live, wal)

Pending == {"opened", "stage", "validate", "checkpoint", "copy", "final", "swap"}

Asked == [r \in Restorer |-> IF pc[r] \in Pending THEN {job[r].source} ELSE {}]

Replacement ==
    INSTANCE AtomicRestore
       WITH Offered <- Source, Accepted <- Source \ Invalid,
            shown <- Shown, asked <- Asked, promised <- Undisturbed

(* Undisturbed restores are atomic: whatever they race with, wherever they *)
(* stop and whatever WAL was left behind, the database shows the backup    *)
(* that was asked for, all of it and nothing else, or what it did before.  *)
ImplementsReplacement == Replacement!Spec

-----------------------------------------------------------------------------
(* What documentation and comments say, and the code does not do.          *)

(* restore.py, _acquire_restore_lock: an exclusive lock for restores.      *)
OneRestore ==
    \A r, s \in Restorer : pc[r] \in Critical /\ pc[s] \in Critical => r = s

(* SECURITY.md, `db restore': it replaces the live database atomically.    *)
ReplacedAtomically == Whole
=============================================================================
