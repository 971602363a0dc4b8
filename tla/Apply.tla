------------------------------- MODULE Apply -------------------------------
(***************************************************************************)
(* Commands and the kernel: the write transactions of db.py with their     *)
(* lock, retries and rollback, the read snapshot behind every export, and  *)
(* `wgpl apply', which projects a snapshot and hands it to `wg syncconf'.  *)
(*                                                                         *)
(* What is committed is a log of versions, of which only one thing is      *)
(* known: whether `validate' accepts it (Topology reaches versions it does *)
(* not, by widening a pool).  SQLite's lock and snapshot isolation, and    *)
(* the kernel, which takes a configuration at once or not at all, are      *)
(* external.                                                               *)
(***************************************************************************)
EXTENDS Naturals, Sequences

CONSTANTS
    Writer,         \* processes that run mutating commands
    Applier,        \* processes that run `wgpl apply'
    Timers,         \* those of them that a timer starts, see Timer
    MaxRetries,     \* max_retries of transaction(): 10 in the code
    Crashes,        \* whether processes may die
    None,           \* nobody holds the lock
    MaxVersions     \* bound on the versions committed

ASSUME ApplyAssumption ==
    /\ Writer \cap Applier = {} /\ None \notin Writer /\ Timers \subseteq Applier
    /\ MaxRetries \in Nat \ {0} /\ MaxVersions \in Nat \ {0}
    /\ Crashes \in BOOLEAN

VARIABLES
    log,        \* committed versions: whether each one validates
    locker,     \* the writer in an exclusive transaction, or None
    pc,         \* where each process is
    attempt,    \* of a writer that begins: the current attempt, from 1
    seen,       \* of a process: the version its connection reads, or 0
    rendered,   \* of an applier: the version its configuration shows, or 0
    kernel      \* the version last given to the kernel, 0 for none

vars == <<log, locker, pc, attempt, seen, rendered, kernel>>

Process == Writer \cup Applier
Latest  == Len(log)

Init ==
    /\ log = <<TRUE>>                   \* the empty database
    /\ locker = None
    /\ pc = [p \in Process |-> "idle"]
    /\ attempt = [w \in Writer |-> 1]
    /\ seen = [p \in Process |-> 0]
    /\ rendered = [a \in Applier |-> 0]
    /\ kernel = 0

Goto(p, from, to) == pc[p] = from /\ pc' = [pc EXCEPT ![p] = to]

(* What a process has read is forgotten with its connection. *)
Close(p) == seen' = [seen EXCEPT ![p] = 0]

-----------------------------------------------------------------------------
(* transaction() *)

Start(w) ==
    /\ Goto(w, "idle", "begin")
    /\ UNCHANGED <<log, locker, attempt, seen, rendered, kernel>>

BeginDeferred(w) ==     \* fault: BEGIN takes no lock
    /\ Goto(w, "begin", "body")
    /\ attempt' = [attempt EXCEPT ![w] = 1]
    /\ UNCHANGED <<log, locker, seen, rendered, kernel>>

(* BEGIN EXCLUSIVE *)
Begin(w) ==
    /\ locker = None
    /\ Goto(w, "begin", "body")
    /\ locker' = w
    /\ attempt' = [attempt EXCEPT ![w] = 1]
    /\ UNCHANGED <<log, seen, rendered, kernel>>

BusyForever(w) ==       \* fault: attempts are not counted
    /\ locker # None
    /\ pc[w] = "begin"
    /\ UNCHANGED vars

BusyOnceMore(w) ==      \* fault: the limit is off by one
    /\ locker # None
    /\ Goto(w, "begin", IF attempt[w] > MaxRetries THEN "idle" ELSE "begin")
    /\ attempt' = [attempt EXCEPT ![w] = IF @ > MaxRetries THEN 1 ELSE @ + 1]
    /\ UNCHANGED <<log, locker, seen, rendered, kernel>>

(* `database is locked' after the busy timeout: retried, or raised. *)
Busy(w) ==
    /\ locker # None
    /\ Goto(w, "begin", IF attempt[w] = MaxRetries THEN "idle" ELSE "begin")
    /\ attempt' = [attempt EXCEPT ![w] = IF @ = MaxRetries THEN 1 ELSE @ + 1]
    /\ UNCHANGED <<log, locker, seen, rendered, kernel>>

(* The body reads the tables it checks and is going to write. *)
Body(w) ==
    /\ Goto(w, "body", "commit")
    /\ seen' = [seen EXCEPT ![w] = Latest]
    /\ UNCHANGED <<log, locker, attempt, rendered, kernel>>

Commit(w) ==
    /\ Goto(w, "commit", "idle")
    /\ Latest < MaxVersions                             \* bound of the model
    /\ \E valid \in BOOLEAN : log' = Append(log, valid)
    /\ locker' = None
    /\ Close(w)
    /\ UNCHANGED <<attempt, rendered, kernel>>

RaiseOnly(w) ==         \* fault: the connection is neither rolled back nor closed
    /\ pc[w] \in {"body", "commit"}
    /\ pc' = [pc EXCEPT ![w] = "idle"]
    /\ UNCHANGED <<log, locker, attempt, seen, rendered, kernel>>

(* A refused command, or any other exception: rollback and close. *)
Raise(w) ==
    /\ pc[w] \in {"body", "commit"}
    /\ pc' = [pc EXCEPT ![w] = "idle"]
    /\ locker' = None
    /\ Close(w)
    /\ UNCHANGED <<log, attempt, rendered, kernel>>

-----------------------------------------------------------------------------
(* sync_interface: read_snapshot(), the projection, `wg syncconf'. *)

StartApply(a) ==
    /\ Goto(a, "idle", "validate")
    /\ UNCHANGED <<log, locker, attempt, seen, rendered, kernel>>

(* assert_database_valid.  BEGIN DEFERRED: the first read pins the version. *)
Validate(a) ==
    /\ Goto(a, "validate", IF log[Latest] THEN "collect" ELSE "idle")
    /\ seen' = [seen EXCEPT ![a] = IF log[Latest] THEN Latest ELSE 0]
    /\ UNCHANGED <<log, locker, attempt, rendered, kernel>>

CollectAfresh(a) ==     \* fault: peers are read by a connection of their own
    /\ Goto(a, "collect", "sync")
    /\ rendered' = [rendered EXCEPT ![a] = Latest]
    /\ Close(a)
    /\ UNCHANGED <<log, locker, attempt, kernel>>

(* _build_server_snapshot lists the peers, on the same connection. *)
Collect(a) ==
    /\ Goto(a, "collect", "sync")
    /\ rendered' = [rendered EXCEPT ![a] = seen[a]]
    /\ Close(a)
    /\ UNCHANGED <<log, locker, attempt, kernel>>

SyncIfNew(a) ==         \* fault: a kernel that has a configuration is left alone
    /\ Goto(a, "sync", "idle")
    /\ kernel' = IF kernel = 0 THEN rendered[a] ELSE kernel
    /\ rendered' = [rendered EXCEPT ![a] = 0]
    /\ UNCHANGED <<log, locker, attempt, seen>>

Sync(a) ==
    /\ Goto(a, "sync", "idle")
    /\ kernel' = rendered[a]
    /\ rendered' = [rendered EXCEPT ![a] = 0]
    /\ UNCHANGED <<log, locker, attempt, seen>>

(* No `wg' binary, or no such interface in the kernel. *)
SyncFails(a) ==
    /\ Goto(a, "sync", "idle")
    /\ rendered' = [rendered EXCEPT ![a] = 0]
    /\ UNCHANGED <<log, locker, attempt, seen, kernel>>

-----------------------------------------------------------------------------
(* SQLite rolls the transaction of a dead process back. *)
Crash(p) ==
    /\ Crashes /\ pc[p] # "idle"
    /\ pc' = [pc EXCEPT ![p] = "idle"]
    /\ locker' = IF locker = p THEN None ELSE locker
    /\ Close(p)
    /\ attempt' = [w \in Writer |-> IF w = p THEN 1 ELSE attempt[w]]
    /\ rendered' = [a \in Applier |-> IF a = p THEN 0 ELSE rendered[a]]
    /\ UNCHANGED <<log, kernel>>

WriterStep(w)  == Begin(w) \/ Busy(w) \/ Body(w) \/ Commit(w) \/ Raise(w)
ApplierStep(a) == Validate(a) \/ Collect(a) \/ Sync(a) \/ SyncFails(a)

Next ==
    \/ \E w \in Writer : Start(w) \/ WriterStep(w)
    \/ \E a \in Applier : StartApply(a) \/ ApplierStep(a)
    \/ \E p \in Process : Crash(p)

(* A command that was started runs on: none of its steps waits for more    *)
(* than a timeout.  Nobody has to start one.                               *)
Running ==
    /\ \A w \in Writer : WF_vars(WriterStep(w))
    /\ \A a \in Applier : WF_vars(ApplierStep(a))

Spec == Init /\ [][Next]_vars /\ Running

(* The timer of docs/runbook.md: apply is run again and again, and not     *)
(* every run of it dies or finds `wg' failing.  Of an apply that somebody  *)
(* starts by hand nothing is assumed but that it runs on.                  *)
Timer ==
    \A a \in Timers : /\ WF_vars(StartApply(a)) /\ SF_vars(Validate(a))
                       /\ SF_vars(Collect(a)) /\ SF_vars(Sync(a))

TimerSpec == Spec /\ Timer

-----------------------------------------------------------------------------
(* Properties. *)

(* The types of the variables. *)
TypeOK ==
    /\ log \in Seq(BOOLEAN) /\ Latest \in 1 .. MaxVersions
    /\ locker \in Writer \cup {None}
    /\ pc \in [Process -> {"idle", "begin", "body", "commit",
                           "validate", "collect", "sync"}]
    /\ attempt \in [Writer -> 1 .. MaxRetries]
    /\ seen \in [Process -> 0 .. MaxVersions]
    /\ rendered \in [Applier -> 0 .. MaxVersions]
    /\ kernel \in 0 .. MaxVersions

(* A command commits on top of exactly what it checked: no other command   *)
(* commits between its reads and its commit.                               *)
NoLostUpdate ==
    [][\A w \in Writer : pc[w] = "commit" /\ log' # log /\ pc'[w] # "commit"
          => seen[w] = Latest]_vars

(* The kernel is only ever given a version that passed validation, though  *)
(* commands commit between the validation and the listing of the peers.    *)
KernelValidated == kernel # 0 => log[kernel]

(* Abstraction: a command holds the version it has checked, an applier the *)
(* one it has validated and then rendered; nobody else sees the difference *)
(* between their steps and atomic ones.                                    *)
Holding ==
    [p \in Process |-> CASE pc[p] \in {"commit", "collect"} -> seen[p]
                         [] pc[p] = "sync" -> rendered[p]
                         [] OTHER -> 0]

Store == INSTANCE VersionStore
            WITH Committer <- Writer, Reader <- Applier, holds <- Holding

(* Commands and applies are atomic although neither is one step: a command *)
(* adds to the version it checked, and what an applier gives the kernel is *)
(* a version that was the last one, and valid, at some time of its run.    *)
ImplementsStore == Store!Spec

(* Every command ends, done or refused, however often it finds the         *)
(* database locked.                                                        *)
Termination == \A p \in Process : (pc[p] # "idle") ~> (pc[p] = "idle")

(* No transaction outlives its command: the lock is always released.       *)
LockReleased == (locker # None) ~> (locker = None)

(* With a timer that applies again and again, the kernel ends up with the  *)
(* last version committed, when it is a valid one: an apply that overtakes *)
(* it, or that it overtakes, may put an older version back, but not for    *)
(* good.                                                                   *)
CatchesUp == <>[](log[Latest] => kernel = Latest)
=============================================================================
