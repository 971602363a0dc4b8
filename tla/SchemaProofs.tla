---------------------------- MODULE SchemaProofs ----------------------------
(***************************************************************************)
(* Proofs about Schema, for any number of processes and commands, whether  *)
(* or not processes die.  The inductive invariant says what a process that *)
(* has come to a statement of init_db knows to exist: all that the earlier *)
(* statements ensured, since nothing but triggers is ever dropped, and the *)
(* triggers too while it is alone.                                         *)
(***************************************************************************)
EXTENDS Schema, TLAPS

Core == {"file"} \cup Tables \cup Indexes

(* What the statements before step k have ensured, and created. *)
Before(k, op) ==
    {Statements[j].object : j \in {m \in 1 .. (k - 1) : Statements[m].op = op}}

Durable == schema \ schema' \subseteq Triggers

ProcOK(p) ==
    /\ pc[p] \in {"trust", "check", "operate"} => job[p].kind \in Adds
    /\ pc[p] = "repair" => job[p].kind = "repair"
    /\ pc[p] = "trust" => job[p].step = 1
    /\ pc[p] = "check" => job[p].step \in 1 .. 5
    /\ pc[p] = "init" => Before(job[p].step, "ensure") \subseteq schema
    /\ job[p].alone => 
         /\ pc[p] = "init" => Before(job[p].step, "create") \subseteq schema
         /\ pc[p] = "done" /\ job[p].kind = "init" => schema = Complete

(* The log's table comes after the unique indexes, and rows after it. *)
LogLast ==
    /\ "audit_events" \in schema => Unique \subseteq schema
    /\ rows # {} => "audit_events" \in schema

(* As long as nobody dies, an unfinished schema has somebody finishing it. *)
Finishing ==
    ~crashed /\ schema # {} =>
        Core \subseteq schema \/ \E p \in Proc : pc[p] = "init"

IInv == TypeOK /\ (\A p \in Proc : ProcOK(p)) /\ LogLast /\ Finishing

-----------------------------------------------------------------------------
(* The statements, one by one. *)
LEMMA StatementList ==
    /\ Len(Statements) = 14
    /\ Statements[1] = Ensure("file") /\ Statements[2] = Ensure("interfaces")
    /\ Statements[3] = Ensure("nodes") /\ Statements[4] = Ensure("peers")
    /\ Statements[5] = Ensure("idx_peers_active_ip")
    /\ Statements[6] = Ensure("idx_peers_active_node")
    /\ Statements[7] = Ensure("audit_events")
    /\ Statements[8] = Ensure("idx_audit_entity")
    /\ Statements[9] = Ensure("idx_audit_interface")
    /\ Statements[10] = Drop("trg_update") /\ Statements[11] = Drop("trg_delete")
    /\ Statements[12] = Create("trg_update")
    /\ Statements[13] = Create("trg_delete") /\ Statements[14] = Ensure("version")
BY DEF Statements

LEMMA StatementTypes ==
    \A k \in 1 .. 14 : /\ Statements[k].op \in {"ensure", "create", "drop"}
                       /\ Statements[k].object \in Complete
                       /\ Statements[k].op = "drop" => Statements[k].object \in Triggers
BY StatementList DEF Ensure, Create, Drop, Complete, Tables, Indexes, Unique, Triggers

(* What a step adds to Before. *)
LEMMA BeforeNext ==
    ASSUME NEW k \in 1 .. 14, NEW op
    PROVE  /\ Before(1, op) = {}
           /\ Before(k + 1, op) =
                 Before(k, op) \cup (IF Statements[k].op = op
                                     THEN {Statements[k].object} ELSE {})
BY DEF Before

(* Before the unique indexes' successors, before the triggers, at the end. *)
LEMMA Milestones ==
    /\ Unique \subseteq Before(7, "ensure")
    /\ \A k \in 12 .. 15 : Core \subseteq Before(k, "ensure")
    /\ Complete = Before(15, "ensure") \cup Before(15, "create")
    /\ \A k \in 1 .. 14 : Before(k, "ensure") \cap Triggers = {}
<1>1. \A k \in 12 .. 15 : Core \subseteq Before(k, "ensure")
  BY StatementList
     DEF Before, Core, Tables, Indexes, Unique, Ensure
<1>2. Unique \subseteq Before(7, "ensure")
  BY StatementList DEF Before, Unique, Ensure
<1>3. Complete \subseteq Before(15, "ensure") \cup Before(15, "create")
  <2>1. "version" \in Before(15, "ensure")
    BY StatementList DEF Before, Ensure
  <2>2. Triggers \subseteq Before(15, "create")
    BY StatementList DEF Before, Create, Triggers
  <2>. QED BY <1>1, <2>1, <2>2 DEF Complete, Core
<1>4. Before(15, "ensure") \cup Before(15, "create") \subseteq Complete
  BY StatementTypes DEF Before
<1>5. \A k \in 1 .. 14 : Before(k, "ensure") \cap Triggers = {}
  BY StatementList DEF Before, Triggers, Ensure, Create, Drop
<1>. QED BY <1>1, <1>2, <1>3, <1>4, <1>5

-----------------------------------------------------------------------------
Jobs   == [kind : Kind, step : 1 .. 14, alone : BOOLEAN]
States == {"idle", "init", "trust", "check", "operate", "repair", "done", "failed"}

(* What Continue does to the process that moves and to the others. *)
LEMMA Moves ==
    ASSUME TypeOK, NEW p \in Proc, NEW to \in States, NEW record \in Jobs,
           Continue(p, to, record)
    PROVE  /\ pc' \in [Proc -> States] /\ job' \in [Proc -> Jobs]
           /\ pc'[p] = to /\ job'[p] = record
           /\ \A q \in Proc \ {p} :
                 /\ pc'[q] = pc[q] /\ job'[q].kind = job[q].kind
                 /\ job'[q].step = job[q].step /\ ~job'[q].alone
BY StatementList DEF TypeOK, Continue, Jobs, States

(* A process keeps what it knows while another one moves. *)
LEMMA Others ==
    ASSUME IInv, Durable, NEW p \in Proc, NEW to \in States, NEW record \in Jobs,
           Continue(p, to, record)
    PROVE  \A q \in Proc \ {p} : ProcOK(q)'
<1>1. \A q \in Proc \ {p} :
         /\ pc'[q] = pc[q] /\ job'[q].kind = job[q].kind
         /\ job'[q].step = job[q].step /\ ~job'[q].alone
  BY Moves DEF IInv
<1>. SUFFICES ASSUME NEW q \in Proc \ {p} PROVE ProcOK(q)'
  OBVIOUS
<1>2. job[q].step \in 1 .. 14
  BY StatementList DEF IInv, TypeOK
<1>3. pc[q] = "init" => Before(job[q].step, "ensure") \subseteq schema'
  BY <1>2, Milestones DEF IInv, ProcOK, Durable
<1>4. Before(job'[q].step, "ensure") = Before(job[q].step, "ensure")
  BY <1>1
<1>. QED BY <1>1, <1>3, <1>4 DEF ProcOK, IInv

(* A step that changes no object: it is enough to look at who moves. *)
LEMMA Frame ==
    ASSUME IInv, NEW p \in Proc, NEW to \in States, NEW record \in Jobs,
           Continue(p, to, record), ProcOK(p)', schema' = schema, rows' = rows,
           commands' \in 0 .. MaxCommands, crashed' \in BOOLEAN,
           pc[p] = "init" /\ to # "init" => Core \subseteq schema \/ crashed',
           crashed => crashed'
    PROVE  IInv'
<1>1. Durable
  BY DEF Durable
<1>2. \A q \in Proc : ProcOK(q)'
  BY <1>1, Others
<1>3. TypeOK'
  BY Moves, StatementList DEF IInv, TypeOK, Jobs, States
<1>4. Finishing'
  BY Moves DEF IInv, Finishing
<1>. QED BY <1>2, <1>3, <1>4 DEF IInv, LogLast

LEMMA IdleType == Idle \in Jobs
<1>1. "init" \in Kind
  BY DEF Kind
<1>. QED BY <1>1 DEF Idle, Jobs

LEMMA NewJobType ==
    ASSUME NEW kind \in Kind, NEW alone \in BOOLEAN
    PROVE  LET record == [Idle EXCEPT !.kind = kind, !.alone = alone]
           IN  record \in Jobs /\ record.kind = kind /\ record.step = 1
<1>1. Idle.step = 1
  BY DEF Idle
<1>. QED BY <1>1, IdleType DEF Jobs

LEMMA InitIInv == Init => IInv
<1>. SUFFICES ASSUME Init PROVE IInv
  OBVIOUS
<1>1. TypeOK
  <2>1. commands \in 0 .. MaxCommands
    BY SchemaAssumption DEF Init
  <2>. QED BY <2>1, IdleType, StatementList DEF Init, TypeOK, Jobs
<1>2. \A p \in Proc : ProcOK(p)
  BY DEF Init, ProcOK
<1>. QED BY <1>1, <1>2 DEF Init, IInv, LogLast, Finishing

LEMMA JobTypes ==
    ASSUME IInv, NEW p \in Proc
    PROVE  /\ pc[p] \in States /\ job[p] \in Jobs
           /\ job[p].kind \in Kind /\ job[p].step \in 1 .. 14
           /\ commands \in 0 .. MaxCommands /\ crashed \in BOOLEAN
BY StatementList DEF IInv, TypeOK, Jobs, States

-----------------------------------------------------------------------------
(* The statements of init_db. *)
LEMMA ExecStep == ASSUME IInv, NEW p \in Proc, Exec(p) PROVE IInv'
<1>. DEFINE k == job[p].step
            s == Statements[k]
<1>1. /\ pc[p] = "init" /\ ~(s.op = "create" /\ s.object \in schema)
      /\ schema' = IF s.op = "drop" THEN schema \ {s.object}
                   ELSE schema \cup {s.object}
      /\ AfterStatement(p) /\ rows' = rows /\ commands' = commands
      /\ crashed' = crashed
  BY DEF Exec
<1>2. k \in 1 .. 14 /\ job[p] \in Jobs /\ job[p].kind \in Kind
  BY JobTypes
<1>3. /\ s.op \in {"ensure", "create", "drop"} /\ s.object \in Complete
      /\ s.op = "drop" => s.object \in Triggers
  BY <1>2, StatementTypes
<1>4. Durable /\ schema' \subseteq Complete
  BY <1>1, <1>3 DEF Durable, IInv, TypeOK
<1>5. Before(k + 1, "ensure") \subseteq schema'
  <2>1. Before(k, "ensure") \subseteq schema'
    BY <1>1, <1>2, <1>4, Milestones DEF IInv, ProcOK, Durable
  <2>. QED BY <1>1, <1>2, <2>1, BeforeNext
<1>6. job[p].alone => Before(k + 1, "create") \subseteq schema'
  <2>1. s.op = "drop" => Before(k, "create") = {}
    BY <1>2, StatementList DEF Before, Ensure, Drop, Create
  <2>2. job[p].alone => Before(k, "create") \subseteq schema
    BY <1>1 DEF IInv, ProcOK
  <2>. QED BY <1>1, <1>2, <2>1, <2>2, BeforeNext
<1>7. LogLast'
  <2>1. "audit_events" \in schema' => Unique \subseteq schema'
    <3>1. CASE "audit_events" \in schema
      BY <1>4, <3>1 DEF IInv, LogLast, Durable, Unique, Triggers
    <3>2. CASE "audit_events" \notin schema /\ s.object = "audit_events"
      <4>1. k = 7
        BY <1>2, <3>2, StatementList DEF Ensure, Drop, Create
      <4>. QED BY <1>1, <1>4, <4>1, Milestones DEF IInv, ProcOK, Durable, Unique, Triggers
    <3>3. CASE "audit_events" \notin schema /\ s.object # "audit_events"
      BY <1>1, <3>3
    <3>. QED BY <3>1, <3>2, <3>3
  <2>2. rows' # {} => "audit_events" \in schema'
    BY <1>1, <1>4 DEF IInv, LogLast, Durable, Triggers
  <2>. QED BY <2>1, <2>2 DEF LogLast
<1>. HIDE DEF s
<1>8. CASE k = 14
  <2>. DEFINE to     == AfterInit(job[p].kind)
              record == [job[p] EXCEPT !.step = 1]
  <2>1. Continue(p, to, record)
    BY <1>1, <1>8, StatementList DEF AfterStatement
  <2>2. to \in {"done", "repair", "trust"} /\ record \in Jobs
    BY <1>2 DEF AfterInit, Jobs, Kind
  <2>3. Core \subseteq schema'
    BY <1>5, <1>8, Milestones
  <2>4. ProcOK(p)'
    <3>1. pc'[p] = to /\ job'[p] = record
      BY <2>1, <2>2, Moves DEF IInv, States
    <3>2. /\ record.kind = job[p].kind /\ record.alone = job[p].alone
          /\ record.step = 1
      BY <1>2 DEF Jobs
    <3>3. record.alone => schema' = Complete
      BY <1>4, <1>5, <1>6, <1>8, <3>2, Milestones
    <3>4. /\ to = "trust" => record.kind \in Adds
          /\ to = "repair" => record.kind = "repair"
      BY <1>2, <3>2 DEF AfterInit, Kind
    <3>. HIDE DEF to, record
    <3>. QED BY <2>2, <3>1, <3>2, <3>3, <3>4 DEF ProcOK
  <2>5. TypeOK'
    BY <1>1, <1>4, <2>1, <2>2, Moves, StatementList DEF IInv, TypeOK, Jobs, States
  <2>6. \A q \in Proc : ProcOK(q)'
    BY <1>4, <2>1, <2>2, <2>4, Others DEF States
  <2>. QED BY <1>7, <2>3, <2>5, <2>6 DEF IInv, Finishing
<1>9. CASE k # 14
  <2>. DEFINE record == [job[p] EXCEPT !.step = @ + 1]
  <2>1. Continue(p, "init", record)
    BY <1>1, <1>9, StatementList DEF AfterStatement
  <2>2. /\ record \in Jobs /\ record.step = k + 1
        /\ record.alone = job[p].alone
    BY <1>2, <1>9 DEF Jobs
  <2>. HIDE DEF record
  <2>3. pc'[p] = "init" /\ job'[p] = record
    BY <2>1, <2>2, Moves DEF IInv, States
  <2>4. ProcOK(p)'
    BY <1>5, <1>6, <2>2, <2>3 DEF ProcOK
  <2>5. TypeOK'
    BY <1>1, <1>4, <2>1, <2>2, Moves, StatementList DEF IInv, TypeOK, Jobs, States
  <2>6. \A q \in Proc : ProcOK(q)'
    BY <1>4, <2>1, <2>2, <2>4, Others DEF States
  <2>7. Finishing'
    BY <2>3 DEF Finishing
  <2>. QED BY <1>7, <2>5, <2>6, <2>7 DEF IInv
<1>. QED BY <1>8, <1>9

-----------------------------------------------------------------------------
(* The steps that change no object, or only add triggers. *)
LEMMA StartStep ==
    ASSUME IInv, NEW p \in Proc, NEW kind \in Kinds, Start(p, kind) PROVE IInv'
<1>. DEFINE to     == IF kind = "init" \/ "file" \notin schema THEN "init"
                      ELSE AfterInit(kind)
            record == [Idle EXCEPT !.kind = kind,
                                   !.alone = \A q \in Proc \ {p} : pc[q] = "idle"]
<1>1. /\ pc[p] = "idle" /\ commands < MaxCommands /\ commands' = commands + 1
      /\ Continue(p, to, record)
      /\ schema' = schema /\ rows' = rows /\ crashed' = crashed
  BY DEF Start
<1>2. kind \in Kind
  BY SchemaAssumption
<1>3. record \in Jobs /\ record.kind = kind /\ record.step = 1
  <2>. DEFINE alone == \A q \in Proc \ {p} : pc[q] = "idle"
  <2>1. alone \in BOOLEAN
    OBVIOUS
  <2>. HIDE DEF alone
  <2>2. record = [Idle EXCEPT !.kind = kind, !.alone = alone]
    BY DEF alone
  <2>. HIDE DEF record
  <2>. QED BY <1>2, <2>1, <2>2, NewJobType
<1>4. /\ to \in {"init", "repair", "trust"}
      /\ to = "trust" => kind \in Adds
      /\ to = "repair" => kind = "repair"
  BY <1>2 DEF AfterInit, Kind
<1>. HIDE DEF to, record
<1>5. ProcOK(p)'
  BY <1>1, <1>3, <1>4, Moves, BeforeNext DEF IInv, ProcOK, States
<1>6. commands' \in 0 .. MaxCommands /\ crashed' \in BOOLEAN
  BY <1>1, SchemaAssumption DEF IInv, TypeOK
<1>. QED BY <1>1, <1>3, <1>4, <1>5, <1>6, Frame DEF States

LEMMA CheckSteps ==
    ASSUME IInv, NEW p \in Proc, ExecFails(p) \/ Trust(p) \/ Check(p) PROVE IInv'
<1>1. PICK to \in {"failed", "check", "operate"}, record \in {job[p], [job[p] EXCEPT !.step = @ + 1]} :
         /\ Continue(p, to, record) /\ record \in Jobs
         /\ to \in {"check", "operate"} => job[p].kind \in Adds
         /\ to = "check" => record.step \in 1 .. 5
         /\ pc[p] = "init" => Core \subseteq schema
  <2>1. CASE ExecFails(p)
    <3>1. Core \subseteq schema
      BY <2>1, JobTypes, StatementList, Milestones
         DEF ExecFails, IInv, ProcOK, Ensure, Create, Drop
    <3>. QED BY <2>1, <3>1, JobTypes DEF ExecFails
  <2>2. CASE Trust(p)
    BY <2>2, JobTypes DEF Trust, IInv, ProcOK
  <2>3. CASE Check(p)
    <3>1. Len(Checks) = 5
      BY DEF Checks
    <3>2. \/ Continue(p, "failed", job[p]) \/ Continue(p, "operate", job[p])
          \/ /\ Continue(p, "check", [job[p] EXCEPT !.step = @ + 1])
             /\ [job[p] EXCEPT !.step = @ + 1] \in Jobs
             /\ [job[p] EXCEPT !.step = @ + 1].step \in 1 .. 5
      BY <2>3, <3>1, JobTypes DEF Check, Jobs, IInv, ProcOK
    <3>. QED BY <2>3, <3>2, JobTypes DEF Check, IInv, ProcOK
  <2>. QED BY <2>1, <2>2, <2>3
<1>2. /\ schema' = schema /\ rows' = rows /\ commands' = commands
      /\ crashed' = crashed
  BY DEF ExecFails, Trust, Check
<1>3. record.kind = job[p].kind
  BY <1>1, JobTypes DEF Jobs
<1>4. ProcOK(p)'
  BY <1>1, <1>3, Moves DEF IInv, ProcOK, States
<1>. QED BY <1>1, <1>2, <1>4, JobTypes, Frame DEF States

LEMMA OperateStep ==
    ASSUME IInv, NEW p \in Proc, Operate(p) PROVE IInv'
<1>1. /\ pc[p] = "operate" /\ Continue(p, "done", job[p]) /\ schema' = schema
      /\ rows' = rows \cup {job[p].kind} /\ "audit_events" \in schema
      /\ commands' = commands /\ crashed' = crashed
  BY DEF Operate, Operable, TablesOf
<1>2. job[p].kind \in Adds /\ job[p] \in Jobs
  BY <1>1, JobTypes DEF IInv, ProcOK
<1>3. ProcOK(p)'
  BY <1>1, <1>2, Moves DEF IInv, ProcOK, States, Adds
<1>4. TypeOK'
  BY <1>1, <1>2, Moves, StatementList DEF IInv, TypeOK, Jobs, States
<1>5. \A q \in Proc : ProcOK(q)'
  BY <1>1, <1>2, <1>3, Others DEF Durable, States
<1>6. Finishing'
  BY <1>1, <1>2, Moves DEF IInv, Finishing, States
<1>. QED BY <1>1, <1>4, <1>5, <1>6 DEF IInv, LogLast

LEMMA RepairStep ==
    ASSUME IInv, NEW p \in Proc, Repair(p) PROVE IInv'
<1>1. PICK to \in {"done", "failed"} :
         /\ pc[p] = "repair" /\ Continue(p, to, job[p])
         /\ schema' \in {schema, schema \cup Triggers}
         /\ rows' = rows /\ commands' = commands /\ crashed' = crashed
         /\ schema' # schema => schema # {}
  BY DEF Repair
<1>2. job[p].kind = "repair" /\ job[p] \in Jobs
  BY <1>1, JobTypes DEF IInv, ProcOK
<1>3. ProcOK(p)'
  BY <1>1, <1>2, Moves DEF IInv, ProcOK, States
<1>4. TypeOK'
  BY <1>1, <1>2, Moves, StatementList DEF IInv, TypeOK, Jobs, States, Complete
<1>5. \A q \in Proc : ProcOK(q)'
  BY <1>1, <1>2, <1>3, Others DEF Durable, States
<1>6. Finishing'
  BY <1>1, <1>2, Moves DEF IInv, Finishing, States
<1>7. LogLast'
  BY <1>1 DEF IInv, LogLast, Triggers
<1>. QED BY <1>4, <1>5, <1>6, <1>7 DEF IInv

LEMMA EndSteps ==
    ASSUME IInv, NEW p \in Proc, OperateFails(p) \/ Exit(p) \/ Crash(p) PROVE IInv'
<1>1. PICK to \in {"failed", "idle"}, record \in {job[p], Idle} :
         /\ Continue(p, to, record) /\ schema' = schema /\ rows' = rows
         /\ commands' = commands /\ crashed' \in BOOLEAN
         /\ crashed => crashed'
         /\ pc[p] = "init" => crashed'
  <2>1. CASE OperateFails(p) \/ Exit(p)
    <3>1. crashed' = crashed
      BY <2>1 DEF OperateFails, Exit
    <3>2. crashed' \in BOOLEAN /\ (crashed => crashed')
      BY <3>1, JobTypes
    <3>. QED BY <2>1, <3>2 DEF OperateFails, Exit
  <2>2. CASE Crash(p)
    BY <2>2 DEF Crash
  <2>. QED BY <2>1, <2>2
<1>2. record \in Jobs
  BY <1>1, JobTypes, IdleType
<1>3. ProcOK(p)'
  BY <1>1, <1>2, Moves DEF IInv, ProcOK, States
<1>4. commands' \in 0 .. MaxCommands /\ to \in States
  BY <1>1, JobTypes DEF States
<1>. QED BY <1>1, <1>2, <1>3, <1>4, Frame

LEMMA StepIInv == IInv /\ [Next]_vars => IInv'
<1>. SUFFICES ASSUME IInv, [Next]_vars PROVE IInv'
  OBVIOUS
<1>1. CASE UNCHANGED vars
  <2>. USE <1>1 DEF vars
  <2>1. TypeOK'
    BY DEF IInv, TypeOK
  <2>2. \A p \in Proc : ProcOK(p)'
    BY DEF IInv, ProcOK
  <2>. QED BY <2>1, <2>2 DEF IInv, LogLast, Finishing
<1>2. ASSUME NEW p \in Proc, Step(p) PROVE IInv'
  BY <1>2, ExecStep, StartStep, CheckSteps, OperateStep, RepairStep, EndSteps DEF Step
<1>. QED BY <1>1, <1>2 DEF Next

-----------------------------------------------------------------------------
LEMMA Invariance == Spec => []IInv
BY InitIInv, StepIInv, PTL DEF Spec

(* The variables keep their types: no statement beyond the last is run. *)
THEOREM SchemaTypes == Spec => []TypeOK
<1>1. IInv => TypeOK
  BY DEF IInv
<1>. QED BY <1>1, Invariance, PTL

(* However many commands create the database at once and whichever of them *)
(* die, nothing is stored without the unique indexes.                      *)
THEOREM RowsNeedIndexes == Spec => []StoredUnderIndexes
<1>1. IInv => StoredUnderIndexes
  BY DEF IInv, LogLast, StoredUnderIndexes
<1>. QED BY <1>1, Invariance, PTL

(* When nobody dies, all tables and indexes are there in the end. *)
THEOREM RepairableWhenQuiet == Spec => []QuietMeansRepairable
<1>1. IInv => QuietMeansRepairable
  BY DEF IInv, Finishing, QuietMeansRepairable, Quiet, Core
<1>. QED BY <1>1, Invariance, PTL

(* An init_db that nobody disturbs completes whatever schema it finds. *)
THEOREM SoloInitIsEnough == Spec => []SoloInitRepairs
<1>1. IInv => SoloInitRepairs
  BY DEF IInv, ProcOK, SoloInitRepairs
<1>. QED BY <1>1, Invariance, PTL
=============================================================================
