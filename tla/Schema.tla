------------------------------- MODULE Schema -------------------------------
(***************************************************************************)
(* How the database comes into being (db.py).  There is no separate        *)
(* installation step: a command that finds no file creates it, statement   *)
(* by statement, each committed on its own, while other commands may       *)
(* already find the file; every connection then checks the schema, one     *)
(* query after another, before it is used.  Any of them may crash.         *)
(*                                                                         *)
(* The schema is the set of objects that exist: the file, the tables, the  *)
(* indexes, the two triggers of the audit log and the version stamp.       *)
(* Nothing but WGPL creates objects here, so the tests for unauthorised    *)
(* ones are left out; what is in the rows is Topology's matter.            *)
(***************************************************************************)
EXTENDS Naturals, Sequences

CONSTANTS
    Proc,           \* processes, one command at a time each
    Kinds,          \* what they run, out of Kind
    Crashes,        \* whether a process may die, or give up on a busy lock
    MaxCommands     \* bound on the commands started

Adds == {"interface", "node", "peer"}       \* add_interface, add_node, add_peer
Kind == Adds \cup {"repair", "init"}        \* db doctor --repair, ensure_database

ASSUME SchemaAssumption ==
    Kinds \subseteq Kind /\ Crashes \in BOOLEAN /\ MaxCommands \in Nat

Tables   == {"interfaces", "nodes", "peers", "audit_events"}
Unique   == {"idx_peers_active_ip", "idx_peers_active_node"}
Indexes  == Unique \cup {"idx_audit_entity", "idx_audit_interface"}
Triggers == {"trg_update", "trg_delete"}
Complete == {"file", "version"} \cup Tables \cup Indexes \cup Triggers

VARIABLES
    schema,     \* the objects that exist
    rows,       \* kinds of rows that exist
    pc,         \* where each process is
    job,        \* its command: [kind, step, alone]
    commands,   \* commands started
    crashed     \* history: some process died

vars == <<schema, rows, pc, job, commands, crashed>>

-----------------------------------------------------------------------------
Ensure(object) == [op |-> "ensure", object |-> object]  \* IF NOT EXISTS
Create(object) == [op |-> "create", object |-> object]  \* an error if it exists
Drop(object)   == [op |-> "drop",   object |-> object]  \* IF EXISTS

EarlyAudit ==       \* fault: the log's table is created with the others
    <<Ensure("file"), Ensure("interfaces"), Ensure("nodes"), Ensure("peers"),
      Ensure("audit_events"), Ensure("idx_peers_active_ip"),
      Ensure("idx_peers_active_node"), Ensure("idx_audit_entity"),
      Ensure("idx_audit_interface"),
      Drop("trg_update"), Drop("trg_delete"),
      Create("trg_update"), Create("trg_delete"), Ensure("version")>>

TriggersEarly ==    \* fault: the log's triggers come with its table
    <<Ensure("file"), Ensure("interfaces"), Ensure("nodes"), Ensure("peers"),
      Ensure("idx_peers_active_ip"), Ensure("idx_peers_active_node"),
      Ensure("audit_events"), Drop("trg_update"), Drop("trg_delete"),
      Create("trg_update"), Create("trg_delete"),
      Ensure("idx_audit_entity"), Ensure("idx_audit_interface"),
      Ensure("version")>>

(* init_db, with enforce_audit_immutability at its end. *)
Statements ==
    <<Ensure("file"), Ensure("interfaces"), Ensure("nodes"), Ensure("peers"),
      Ensure("idx_peers_active_ip"), Ensure("idx_peers_active_node"),
      Ensure("audit_events"), Ensure("idx_audit_entity"),
      Ensure("idx_audit_interface"),
      Drop("trg_update"), Drop("trg_delete"),
      Create("trg_update"), Create("trg_delete"), Ensure("version")>>

(* assert_trusted_connection: names of tables, indexes and triggers, then  *)
(* the body of each trigger, one query each.                               *)
Checks == <<Tables, Indexes, Triggers, {"trg_update"}, {"trg_delete"}>>

-----------------------------------------------------------------------------
Idle == [kind |-> "init", step |-> 1, alone |-> TRUE]

Init ==
    /\ schema = {} /\ rows = {}
    /\ pc = [p \in Proc |-> "idle"]
    /\ job = [p \in Proc |-> Idle]
    /\ commands = 0 /\ crashed = FALSE

(* p's command moves on; no other process is alone any more. *)
Continue(p, to, record) ==
    /\ pc'  = [pc EXCEPT ![p] = to]
    /\ job' = [q \in Proc |-> IF q = p THEN record
                              ELSE [job[q] EXCEPT !.alone = FALSE]]

AfterInit(kind) == CASE kind = "init"   -> "done"
                     [] kind = "repair" -> "repair"
                     [] OTHER           -> "trust"

StartIfNeeded(p, kind) ==   \* fault: init_db returns when tables exist
    /\ pc[p] = "idle" /\ commands < MaxCommands
    /\ commands' = commands + 1
    /\ Continue(p, IF "interfaces" \notin schema THEN "init" ELSE AfterInit(kind),
                [Idle EXCEPT !.kind = kind, !.alone = \A q \in Proc \ {p} : pc[q] = "idle"])
    /\ UNCHANGED <<schema, rows, crashed>>

(* _create_connection asks whether the file exists; ensure_database calls  *)
(* init_db whether it does or not.                                         *)
Start(p, kind) ==
    /\ pc[p] = "idle" /\ commands < MaxCommands     \* bound of the model
    /\ commands' = commands + 1
    /\ Continue(p, IF kind = "init" \/ "file" \notin schema THEN "init"
                   ELSE AfterInit(kind),
                [Idle EXCEPT !.kind = kind, !.alone = \A q \in Proc \ {p} : pc[q] = "idle"])
    /\ UNCHANGED <<schema, rows, crashed>>

AfterStatementLate(p) ==    \* fault: one statement too many
    IF job[p].step > Len(Statements)
    THEN Continue(p, AfterInit(job[p].kind), [job[p] EXCEPT !.step = 1])
    ELSE Continue(p, "init", [job[p] EXCEPT !.step = @ + 1])

AfterStatement(p) ==
    IF job[p].step = Len(Statements)
    THEN Continue(p, AfterInit(job[p].kind), [job[p] EXCEPT !.step = 1])
    ELSE Continue(p, "init", [job[p] EXCEPT !.step = @ + 1])

Exec(p) ==
    LET s == Statements[job[p].step]
    IN  /\ pc[p] = "init"
        /\ ~(s.op = "create" /\ s.object \in schema)
        /\ schema' = IF s.op = "drop" THEN schema \ {s.object}
                     ELSE schema \cup {s.object}
        /\ AfterStatement(p)
        /\ UNCHANGED <<rows, commands, crashed>>

(* "already exists": init_db raises, and the command with it. *)
ExecFails(p) ==
    LET s == Statements[job[p].step]
    IN  /\ pc[p] = "init" /\ s.op = "create" /\ s.object \in schema
        /\ Continue(p, "failed", job[p])
        /\ UNCHANGED <<schema, rows, commands, crashed>>

(* _is_database_initialized: a file without tables is trusted as it is. *)
Trust(p) ==
    /\ pc[p] = "trust"
    /\ Continue(p, IF "interfaces" \in schema THEN "check" ELSE "operate", job[p])
    /\ UNCHANGED <<schema, rows, commands, crashed>>

Check(p) ==
    LET last == job[p].step = Len(Checks)
    IN  /\ pc[p] = "check"
        /\ IF ~(Checks[job[p].step] \subseteq schema) THEN Continue(p, "failed", job[p])
           ELSE IF last THEN Continue(p, "operate", job[p])
           ELSE Continue(p, "check", [job[p] EXCEPT !.step = @ + 1])
        /\ UNCHANGED <<schema, rows, commands, crashed>>

(* The tables a command's transaction touches; a peer needs an interface   *)
(* and a node to attach to.                                                *)
TablesOf(kind) ==
    {"audit_events"} \cup CASE kind = "interface" -> {"interfaces"}
                            [] kind = "node"      -> {"nodes"}
                            [] kind = "peer"      -> Tables

Operable(p) ==
    /\ TablesOf(job[p].kind) \subseteq schema
    /\ job[p].kind = "peer" => {"interface", "node"} \subseteq rows

Operate(p) ==
    /\ pc[p] = "operate" /\ Operable(p)
    /\ rows' = rows \cup {job[p].kind}
    /\ Continue(p, "done", job[p])
    /\ UNCHANGED <<schema, commands, crashed>>

OperateFails(p) ==
    /\ pc[p] = "operate" /\ ~Operable(p)
    /\ Continue(p, "failed", job[p])
    /\ UNCHANGED <<schema, rows, commands, crashed>>

(* repair_database: one transaction on a connection that is not verified. *)
Repair(p) ==
    /\ pc[p] = "repair"
    /\ IF {"peers", "audit_events"} \subseteq schema
       THEN schema' = schema \cup Triggers /\ Continue(p, "done", job[p])
       ELSE schema' = schema /\ Continue(p, "failed", job[p])
    /\ UNCHANGED <<rows, commands, crashed>>

(* The exit of a process, and its death, which leaves what it committed. *)
Exit(p) ==
    /\ pc[p] \in {"done", "failed"}
    /\ Continue(p, "idle", Idle)
    /\ UNCHANGED <<schema, rows, commands, crashed>>

Crash(p) ==
    /\ Crashes /\ pc[p] \in {"init", "trust", "check", "operate", "repair"}
    /\ Continue(p, "idle", Idle)
    /\ crashed' = TRUE
    /\ UNCHANGED <<schema, rows, commands>>

Step(p) ==
    \/ \E kind \in Kinds : Start(p, kind)
    \/ Exec(p) \/ ExecFails(p) \/ Trust(p) \/ Check(p)
    \/ Operate(p) \/ OperateFails(p) \/ Repair(p) \/ Exit(p) \/ Crash(p)

Next == \E p \in Proc : Step(p)

Spec == Init /\ [][Next]_vars

-----------------------------------------------------------------------------
(* Properties. *)

(* The types of the variables. *)
TypeOK ==
    /\ schema \subseteq Complete /\ rows \subseteq Adds
    /\ pc \in [Proc -> {"idle", "init", "trust", "check", "operate", "repair",
                        "done", "failed"}]
    /\ job \in [Proc -> [kind : Kind, step : 1 .. Len(Statements), alone : BOOLEAN]]
    /\ commands \in 0 .. MaxCommands /\ crashed \in BOOLEAN

(* Nothing is stored while an index that keeps peers' addresses and nodes  *)
(* unique is missing, not even by commands that were let in unchecked in   *)
(* the middle of a creation: the log's table, which they need, comes later. *)
StoredUnderIndexes == rows # {} => Unique \subseteq schema

Quiet == ~crashed /\ \A p \in Proc : pc[p] = "idle"

(* When nobody dies, commands that create the database or repair it at the *)
(* same time may fail, but together they leave at least all the tables and *)
(* indexes: what may be missing, `db doctor --repair' can reinstall.       *)
QuietMeansRepairable ==
    Quiet /\ schema # {}
        => {"file"} \cup Tables \cup Indexes \subseteq schema

(* Whatever a crash left behind, an init_db that runs alone completes it.  *)
SoloInitRepairs ==
    \A p \in Proc :
        pc[p] = "done" /\ job[p].kind = "init" /\ job[p].alone => schema = Complete

-----------------------------------------------------------------------------
(* What documentation and comments say, and the code does not do.          *)

=============================================================================
