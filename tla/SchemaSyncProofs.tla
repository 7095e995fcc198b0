-------------------------- MODULE SchemaSyncProofs --------------------------
(***************************************************************************)
(* Theorems about schema sync: what its runs do to the schema and the data *)
(* steps (SchemaSync), and the DDL of a run (DdlOrder).                    *)
(*                                                                         *)
(* The schema, for any runs, schema versions, tables, data steps, adapters *)
(* and bounds.                                                             *)
(*                                                                         *)
(* The DDL, for any schema changes and bounds: topoOrder gives every       *)
(* finite graph a right order, no settled hash lies about the database,    *)
(* and no statement takes what the change does not concern.                *)
(***************************************************************************)
EXTENDS SchemaSyncInvariant, DdlOrderInvariant, FiniteSetTheorems, SequenceTheorems, WellFoundedInduction, TLAPS

-----------------------------------------------------------------------------
(* Types *)

USE DEF schema

LEMMA ConstantTypes ==
  /\ Desired \in [Versions -> [Tables -> SUBSET Columns]]
  /\ Carries \in [Runs -> Versions]
  /\ Before \in Versions
  /\ Early \subseteq StepIds
  /\ \A r \in Runs : Inventory(r) \subseteq Tables /\ Desired[Carries[r]] \in [Tables -> SUBSET Columns]
  /\ \A v \in Versions, t \in Tables : WantedKeys(v, t) \in SUBSET KeyNames
BY ModelAssumption DEF Columns, Inventory, WantedKeys

(* A run's own step changes its program counter, its job and its status.   *)
LEMMA RunStepType ==
  ASSUME TypeOK, NEW r \in Runs, NEW p \in Locations, NEW j \in Jobs,
         Goto(r, p), SetJob(r, j), p = "table" <=> j.ops # {}
  PROVE  /\ pc' \in [Runs -> Locations] /\ job' \in [Runs -> Jobs]
         /\ \A q \in Runs : pc'[q] = "table" <=> job'[q].ops # {}
BY DEF TypeOK, Goto, SetJob

LEMMA ReportType ==
  ASSUME TypeOK, NEW r \in Runs, NEW s \in Statuses, NEW p \in Locations \ {"table"},
         Report(r, s, p), UNCHANGED job, job[r].ops = {}
  PROVE  /\ pc' \in [Runs -> Locations] /\ job' \in [Runs -> Jobs]
         /\ status' \in [Runs -> Statuses]
         /\ \A q \in Runs : pc'[q] = "table" <=> job'[q].ops # {}
BY DEF TypeOK, Report, Goto

LEMMA AbortsType ==
  ASSUME TypeOK, NEW r \in Runs, Aborts(r), job[r].ops = {}
  PROVE  /\ pc' \in [Runs -> Locations] /\ job' \in [Runs -> Jobs]
         /\ status' \in [Runs -> Statuses]
         /\ \A q \in Runs : pc'[q] = "table" <=> job'[q].ops # {}
BY ReportType DEF Aborts, Locations, Statuses

LEMMA InitType == Init => TypeOK
<1> SUFFICES ASSUME Init PROVE TypeOK
  OBVIOUS
<1>1. NewJob \in Jobs
  BY DEF NewJob, Jobs
<1>2. live \in [Tables -> SUBSET Columns] /\ tracked \in SUBSET Tables
  BY ConstantTypes DEF Init
<1>3. /\ indexed \in [Tables -> Versions \cup {"none"}] /\ snapshot \in [Tables -> Versions \cup {"none"}]
      /\ keyed \in [Tables -> SUBSET KeyNames]
  BY ConstantTypes DEF Init
<1>4. job \in [Runs -> Jobs]
  BY <1>1 DEF Init
<1>5. \A r \in Runs : pc[r] = "start" /\ job[r].ops = {}
  BY DEF Init, NewJob
<1>6. <<realTx, keying>> \in Adapters
  <2>1. PICK a \in Adapters : realTx = a[1] /\ keying = a[2]
    BY DEF Init
  <2>2. a \in BOOLEAN \X Keyings
    BY ModelAssumption
  <2> QED BY <2>1, <2>2
<1> QED BY <1>2, <1>3, <1>4, <1>5, <1>6, ConstantTypes, BoundsAssumption
     DEF Init, TypeOK, Locations, Statuses

LEMMA AcquireType ==
  ASSUME TypeOK, NEW r \in Runs, AcquireLock(r)
  PROVE  TypeOK'
BY ZenonT(60) DEF TypeOK, AcquireLock, QuickHash, QuickSteps, TryAcquire, LockWait, PeerHash, PeerSteps,
       Goto, Report, Locations, Statuses, Succeeded, steps, counters

LEMMA DoubleCheckType ==
  ASSUME TypeOK, NEW r \in Runs, DoubleCheck(r)
  PROVE  TypeOK'
<1>1. job[r] \in Jobs /\ job[r].ops = {}
  BY DEF TypeOK, DoubleCheck
<1>2. PICK q \in job[r].unread :
        LET j == [job[r] EXCEPT
             !.unread = @ \ {q},
             !.todo = IF q = "steps" THEN StepIds \ recorded ELSE @,
             !.match = IF q = "hash" THEN r \notin ForceRuns /\ hash = Carries[r] ELSE @]
       IN  /\ SetJob(r, j)
           /\ Goto(r, IF j.unread # {} THEN "check" ELSE IF j.match THEN "steps" ELSE "tracking")
  BY DEF DoubleCheck
<1> DEFINE j == [job[r] EXCEPT
             !.unread = @ \ {q},
             !.todo = IF q = "steps" THEN StepIds \ recorded ELSE @,
             !.match = IF q = "hash" THEN r \notin ForceRuns /\ hash = Carries[r] ELSE @]
           p == IF j.unread # {} THEN "check" ELSE IF j.match THEN "steps" ELSE "tracking"
<1>3. j \in Jobs /\ j.ops = {}
  BY ZenonT(60), <1>1 DEF Jobs
<1>4. p \in Locations /\ p # "table" /\ SetJob(r, j) /\ Goto(r, p)
  BY <1>2 DEF Locations
<1> HIDE DEF j, p
<1> QED BY <1>3, <1>4, RunStepType DEF TypeOK, DoubleCheck, steps, counters

LEMMA DiscoverType ==
  ASSUME TypeOK, NEW r \in Runs, DiscoverTracked(r) \/ Introspect(r)
  PROVE  TypeOK'
<1>1. job[r] \in Jobs /\ job[r].ops = {}
  BY DEF TypeOK, DiscoverTracked, Introspect
<1>2. CASE DiscoverTracked(r)
  <2>1. [job[r] EXCEPT !.prev = tracked] \in Jobs /\ [job[r] EXCEPT !.prev = tracked].ops = {}
    BY <1>1 DEF TypeOK, Jobs
  <2> QED BY <1>1, <1>2, <2>1, RunStepType DEF TypeOK, DiscoverTracked, Locations, steps, counters
<1>3. CASE Introspect(r)
  <2>1. CASE UNCHANGED job /\ \E s \in {"aborted", "refused"} : Report(r, s, "finally")
    <3>1. PICK s \in {"aborted", "refused"} : Report(r, s, "finally")
      BY <2>1
    <3>2. s \in Statuses /\ "finally" \in Locations \ {"table"}
      BY DEF Statuses, Locations
    <3>3. /\ pc' \in [Runs -> Locations] /\ job' \in [Runs -> Jobs]
          /\ status' \in [Runs -> Statuses]
          /\ \A q \in Runs : pc'[q] = "table" <=> job'[q].ops # {}
      BY <1>1, <2>1, <3>1, <3>2, ReportType
    <3> QED BY <1>3, <3>3 DEF TypeOK, Introspect, steps, counters
  <2> DEFINE j == [OrderedSteps(r) EXCEPT !.seen = live, !.stored = snapshot, !.phase = "early"]
  <2>2. CASE SetJob(r, j) /\ Goto(r, "walk") /\ UNCHANGED status
    <3>1. OrderedSteps(r) \in Jobs /\ OrderedSteps(r).ops = {}
      BY <1>1, ConstantTypes DEF Jobs, OrderedSteps
    <3>2. j \in Jobs /\ j.ops = {}
      BY <3>1 DEF TypeOK, Jobs
    <3> HIDE DEF j
    <3> QED BY <1>3, <2>2, <3>2, RunStepType DEF TypeOK, Introspect, Locations, steps, counters
  <2> QED BY <1>3, <2>1, <2>2 DEF Introspect, Aborts
<1> QED BY <1>2, <1>3

LEMMA TableFailsType ==
  ASSUME TypeOK, NEW r \in Runs, NEW t \in Tables, TableFails(r, t)
  PROVE  /\ pc' \in [Runs -> Locations] /\ job' \in [Runs -> Jobs]
         /\ \A q \in Runs : pc'[q] = "table" <=> job'[q].ops # {}
<1>1. job[r] \in Jobs
  BY DEF TypeOK
<1>2. [job[r] EXCEPT !.failed = @ \cup {t}, !.ops = {}, !.tables = @ \ {t}] \in Jobs
  BY <1>1 DEF Jobs
<1>3. [job[r] EXCEPT !.failed = @ \cup {t}, !.ops = {}, !.tables = @ \ {t}].ops = {}
  BY <1>1 DEF Jobs
<1> QED BY <1>2, <1>3, RunStepType DEF TableFails, Locations

LEMMA ColumnsDoneType ==
  ASSUME TypeOK, NEW r \in Runs, NEW t \in Tables, NEW j \in Jobs, j.ops = {},
         ColumnsDone(r, t, j)
  PROVE  /\ pc' \in [Runs -> Locations] /\ job' \in [Runs -> Jobs]
         /\ \A q \in Runs : pc'[q] = "table" <=> job'[q].ops # {}
<1>1. [j EXCEPT !.deferred = @ \cup {t}, !.tables = @ \ {t}] \in Jobs
  BY DEF Jobs
<1>2. [j EXCEPT !.deferred = @ \cup {t}, !.tables = @ \ {t}].ops = {}
  BY DEF Jobs
<1> QED BY <1>1, <1>2, RunStepType DEF ColumnsDone, Locations

LEMMA OpsType ==
  ASSUME NEW r \in Runs, NEW t \in Tables, job[r] \in Jobs
  PROVE  ColumnOps(r, t) \subseteq Statements
<1>1. Desired[Carries[r]][t] \subseteq Columns /\ job[r].seen[t] \subseteq Columns
  BY ConstantTypes DEF Jobs
<1> QED BY <1>1 DEF ColumnOps, Statements

LEMMA BeginTableType ==
  ASSUME TypeOK, NEW r \in Runs, BeginTable(r)
  PROVE  TypeOK'
<1>1. job[r] \in Jobs /\ job[r].ops = {}
  BY DEF TypeOK, BeginTable
<1>2. CASE Aborts(r)
  BY <1>1, <1>2, AbortsType DEF TypeOK, BeginTable, steps, counters
<1>3. CASE ~Aborts(r)
  <2>1. PICK t \in Tables : LET ops == ColumnOps(r, t)
                IN  IF ops = {} THEN ColumnsDone(r, t, job[r])
                    ELSE SetJob(r, [job[r] EXCEPT !.ops = ops]) /\ Goto(r, "table")
    BY <1>3 DEF BeginTable
  <2>2. UNCHANGED status
    BY <1>3 DEF BeginTable
  <2>3. CASE ColumnOps(r, t) = {}
    BY <1>1, <2>1, <2>2, <2>3, ColumnsDoneType DEF TypeOK, BeginTable, steps, counters
  <2>4. CASE ColumnOps(r, t) # {}
    <3>1. [job[r] EXCEPT !.ops = ColumnOps(r, t)] \in Jobs
      BY <1>1, OpsType DEF Jobs
    <3>2. [job[r] EXCEPT !.ops = ColumnOps(r, t)].ops # {}
      BY <1>1, <2>4 DEF Jobs
    <3> QED BY <2>1, <2>2, <2>4, <3>1, <3>2, RunStepType
         DEF TypeOK, BeginTable, Locations, steps, counters
  <2> QED BY <2>3, <2>4
<1> QED BY <1>2, <1>3

LEMMA EffectType ==
  ASSUME TypeOK, NEW r \in Runs, NEW t \in Tables, NEW op \in Statements, Executes(t, op), Effect(r, t, op)
  PROVE  /\ live' \in [Tables -> SUBSET Columns] /\ keyed' \in [Tables -> SUBSET KeyNames]
         /\ indexed' \in [Tables -> Versions \cup {"none"}]
<1> DEFINE built == op[1] = "recreate" \/ (op[1] = "create" /\ live[t] = {})
<1>1. Desired[Carries[r]][t] \subseteq Columns /\ live[t] \subseteq Columns /\ keyed[t] \subseteq KeyNames
      /\ WantedKeys(Carries[r], t) \subseteq KeyNames
  BY ConstantTypes DEF TypeOK
<1>2. op[1] = "add" => op[2] \in Columns
  BY DEF Statements
<1>3. CASE built
  BY <1>1, <1>3 DEF TypeOK, Effect
<1>4. CASE ~built /\ op[1] = "add"
  BY <1>1, <1>2, <1>4 DEF TypeOK, Effect
<1>5. CASE ~built /\ op[1] # "add"
  BY <1>1, <1>5 DEF TypeOK, Effect
<1> QED BY <1>3, <1>4, <1>5

LEMMA TableStatementType ==
  ASSUME TypeOK, NEW r \in Runs, TableStatement(r)
  PROVE  TypeOK'
<1>1. job[r] \in Jobs
  BY DEF TypeOK
<1>2. PICK t \in Tables, op \in job[r].ops :
       LET j == [job[r] EXCEPT !.ops = @ \ {op}]
       IN  \/ /\ Executes(t, op) /\ Effect(r, t, op)
              /\ IF j.ops = {} THEN ColumnsDone(r, t, j) ELSE SetJob(r, j) /\ Goto(r, "table")
              /\ UNCHANGED ddlFails
           \/ ~Executes(t, op) /\ TableFails(r, t) /\ UNCHANGED <<live, keyed, indexed, ddlFails>>
           \/ /\ ddlFails < MaxDdlFails /\ ddlFails' = ddlFails + 1
              /\ TableFails(r, t) /\ UNCHANGED <<live, keyed, indexed>>
  BY DEF TableStatement
<1> DEFINE j == [job[r] EXCEPT !.ops = @ \ {op}]
<1>3. j \in Jobs /\ op \in Statements
  BY <1>1 DEF Jobs
<1>5. CASE TableFails(r, t) /\ UNCHANGED <<live, keyed, indexed>> /\ ddlFails' \in 0..MaxDdlFails
  BY <1>5, TableFailsType DEF TypeOK, TableStatement, steps
<1>6. CASE /\ Executes(t, op) /\ Effect(r, t, op)
           /\ IF j.ops = {} THEN ColumnsDone(r, t, j) ELSE SetJob(r, j) /\ Goto(r, "table")
           /\ UNCHANGED ddlFails
  <2> HIDE DEF j
  <2>3. /\ pc' \in [Runs -> Locations] /\ job' \in [Runs -> Jobs]
        /\ \A q \in Runs : pc'[q] = "table" <=> job'[q].ops # {}
    BY <1>3, <1>6, ColumnsDoneType, RunStepType DEF Locations
  <2> QED BY <1>3, <1>6, <2>3, EffectType DEF TypeOK, TableStatement, steps
<1> QED BY <1>2, <1>5, <1>6, BoundsAssumption DEF TypeOK

LEMMA ConstraintsType ==
  ASSUME TypeOK, NEW r \in Runs, NEW t \in Tables, SyncConstraints(r, t, TRUE, TRUE)
  PROVE  /\ indexed' \in [Tables -> Versions \cup {"none"}] /\ keyed' \in [Tables -> SUBSET KeyNames]
         /\ ddlFails' \in 0..MaxDdlFails
<1>1. Carries[r] \in Versions /\ keyed[t] \subseteq KeyNames /\ Keys[Carries[r]][t] \subseteq KeyNames
  BY ConstantTypes, ModelAssumption DEF TypeOK
<1>2. KeysAltered(Carries[r], t) => keyed' \in [Tables -> SUBSET KeyNames]
  BY <1>1 DEF TypeOK, KeysAltered
<1>3. KeysHalfAltered(Carries[r], t) => keyed' \in [Tables -> SUBSET KeyNames]
  BY <1>1 DEF TypeOK, KeysHalfAltered
<1> QED BY <1>1, <1>2, <1>3, BoundsAssumption DEF TypeOK, SyncConstraints

LEMMA TableConstraintsType ==
  ASSUME TypeOK, NEW r \in Runs, TableConstraints(r)
  PROVE  TypeOK'
<1>1. job[r] \in Jobs /\ job[r].ops = {}
  BY DEF TypeOK, TableConstraints
<1>2. PICK t \in Tables :
        SyncConstraints(r, t,
          SetJob(r, [job[r] EXCEPT !.tables = @ \ {t}]) /\ Goto(r, "walk"),
          TableFails(r, t))
  BY DEF TableConstraints
<1>3. /\ (SetJob(r, [job[r] EXCEPT !.tables = @ \ {t}]) /\ Goto(r, "walk")) \/ TableFails(r, t)
      /\ indexed' \in [Tables -> Versions \cup {"none"}] /\ keyed' \in [Tables -> SUBSET KeyNames]
      /\ ddlFails' \in 0..MaxDdlFails
  <2>1. SyncConstraints(r, t, TRUE, TRUE)
    BY <1>2 DEF SyncConstraints
  <2> QED BY <1>2, <2>1, ConstraintsType DEF SyncConstraints
<1>4. [job[r] EXCEPT !.tables = @ \ {t}] \in Jobs /\ [job[r] EXCEPT !.tables = @ \ {t}].ops = {}
  BY <1>1 DEF Jobs
<1>5. /\ pc' \in [Runs -> Locations] /\ job' \in [Runs -> Jobs]
      /\ \A q \in Runs : pc'[q] = "table" <=> job'[q].ops # {}
  BY <1>3, <1>4, TableFailsType, RunStepType DEF Locations
<1> QED BY <1>3, <1>5 DEF TypeOK, TableConstraints, steps

LEMMA DeferredType ==
  ASSUME TypeOK, NEW r \in Runs, BeginDeferred(r) \/ DeferredConstraints(r)
  PROVE  TypeOK'
<1>1. job[r] \in Jobs /\ job[r].ops = {}
  BY DEF TypeOK, BeginDeferred, DeferredConstraints
<1>2. [job[r] EXCEPT !.pass = FALSE] \in Jobs /\ [job[r] EXCEPT !.pass = FALSE].ops = {}
  BY <1>1 DEF Jobs
<1>3. CASE Aborts(r) /\ UNCHANGED <<keyed, indexed, ddlFails>>
  BY <1>1, <1>3, AbortsType DEF TypeOK, BeginDeferred, DeferredConstraints, steps, counters
<1>4. CASE BeginDeferred(r) /\ ~Aborts(r)
  <2>1. /\ pc' \in [Runs -> Locations] /\ job' \in [Runs -> Jobs]
        /\ \A q \in Runs : pc'[q] = "table" <=> job'[q].ops # {}
    <3>1. CASE EarlyTodo(r) = {}
      BY <1>2, <1>4, <3>1, RunStepType DEF BeginDeferred, Locations
    <3>2. CASE EarlyTodo(r) # {}
      BY <1>1, <1>4, <3>2 DEF TypeOK, BeginDeferred, Goto, Locations
    <3> QED BY <3>1, <3>2
  <2> QED BY <1>4, <2>1 DEF TypeOK, BeginDeferred, steps, counters
<1>5. CASE DeferredConstraints(r) /\ ~(Aborts(r) /\ UNCHANGED <<keyed, indexed, ddlFails>>)
  <2>1. CASE SetJob(r, [job[r] EXCEPT !.pass = FALSE]) /\ Goto(r, "walk")
             /\ UNCHANGED <<status, keyed, indexed, ddlFails>>
    BY <1>2, <1>5, <2>1, RunStepType DEF TypeOK, DeferredConstraints, Locations, steps
  <2>2. CASE Goto(r, "deferred") /\ UNCHANGED status /\ \E t \in Tables :
               LET j == [job[r] EXCEPT !.deferred = @ \ {t}]
               IN  SyncConstraints(r, t, SetJob(r, j), SetJob(r, [j EXCEPT !.failed = @ \cup {t}]))
    <3>1. PICK t \in Tables :
               LET j == [job[r] EXCEPT !.deferred = @ \ {t}]
               IN  SyncConstraints(r, t, SetJob(r, j), SetJob(r, [j EXCEPT !.failed = @ \cup {t}]))
      BY <2>2
    <3> DEFINE j == [job[r] EXCEPT !.deferred = @ \ {t}]
    <3>2. /\ SetJob(r, j) \/ SetJob(r, [j EXCEPT !.failed = @ \cup {t}])
          /\ indexed' \in [Tables -> Versions \cup {"none"}] /\ keyed' \in [Tables -> SUBSET KeyNames]
          /\ ddlFails' \in 0..MaxDdlFails
      <4>1. SyncConstraints(r, t, TRUE, TRUE)
        BY <3>1 DEF SyncConstraints
      <4> QED BY <3>1, <4>1, ConstraintsType DEF SyncConstraints
    <3>3. j \in Jobs /\ j.ops = {}
      BY <1>1 DEF Jobs
    <3> HIDE DEF j
    <3>4. [j EXCEPT !.failed = @ \cup {t}] \in Jobs /\ [j EXCEPT !.failed = @ \cup {t}].ops = {}
      BY <3>3 DEF Jobs
    <3>5. /\ pc' \in [Runs -> Locations] /\ job' \in [Runs -> Jobs]
          /\ \A q \in Runs : pc'[q] = "table" <=> job'[q].ops # {}
      BY <2>2, <3>2, <3>3, <3>4, RunStepType DEF Locations
    <3> QED BY <1>5, <2>2, <3>2, <3>5 DEF TypeOK, DeferredConstraints, steps
  <2> QED BY <1>5, <2>1, <2>2 DEF DeferredConstraints
<1> QED BY <1>3, <1>4, <1>5 DEF BeginDeferred, counters

LEMMA DropRemovedType ==
  ASSUME TypeOK, NEW r \in Runs, DropRemoved(r)
  PROVE  TypeOK'
<1>1. job[r] \in Jobs /\ job[r].ops = {}
  BY DEF TypeOK, DropRemoved
<1>2. CASE Aborts(r) /\ UNCHANGED <<live, keyed, indexed, ddlFails>>
  BY <1>1, <1>2, AbortsType DEF TypeOK, DropRemoved, steps, counters
<1>3. CASE ~(Aborts(r) /\ UNCHANGED <<live, keyed, indexed, ddlFails>>)
  <2>1. PICK t \in Tables :
          /\ UNCHANGED status /\ Goto(r, "walk")
          /\ \/ /\ SetJob(r, [job[r] EXCEPT !.drops = @ \ {t}])
                /\ live' = [live EXCEPT ![t] = {}] /\ keyed' = [keyed EXCEPT ![t] = {}]
                /\ indexed' = [indexed EXCEPT ![t] = "none"] /\ UNCHANGED ddlFails
             \/ /\ SetJob(r, [[job[r] EXCEPT !.drops = @ \ {t}] EXCEPT !.retained = @ \cup {t}])
                /\ UNCHANGED <<live, keyed, indexed, ddlFails>>
             \/ /\ ddlFails < MaxDdlFails /\ ddlFails' = ddlFails + 1
                /\ SetJob(r, [[[job[r] EXCEPT !.drops = @ \ {t}] EXCEPT !.retained = @ \cup {t}]
                               EXCEPT !.failed = @ \cup {t}])
                /\ UNCHANGED <<live, keyed, indexed>>
    BY <1>3 DEF DropRemoved
  <2> DEFINE j == [job[r] EXCEPT !.drops = @ \ {t}]
             keep == [j EXCEPT !.retained = @ \cup {t}]
             fail == [keep EXCEPT !.failed = @ \cup {t}]
  <2>2. j \in Jobs /\ j.ops = {}
    BY <1>1 DEF Jobs
  <2> HIDE DEF j
  <2>3. keep \in Jobs /\ keep.ops = {}
    BY <2>2 DEF Jobs
  <2> HIDE DEF keep
  <2>4. fail \in Jobs /\ fail.ops = {}
    BY <2>3 DEF Jobs
  <2> HIDE DEF fail
  <2>5. Goto(r, "walk") /\ (SetJob(r, j) \/ SetJob(r, keep) \/ SetJob(r, fail))
    BY <2>1 DEF j, keep, fail
  <2>6. /\ pc' \in [Runs -> Locations] /\ job' \in [Runs -> Jobs]
        /\ \A q \in Runs : pc'[q] = "table" <=> job'[q].ops # {}
    BY <2>2, <2>3, <2>4, <2>5, RunStepType DEF Locations
  <2>7. live' \in [Tables -> SUBSET Columns] /\ keyed' \in [Tables -> SUBSET KeyNames] /\ indexed' \in [Tables -> Versions \cup {"none"}]
        /\ ddlFails' \in 0..MaxDdlFails /\ UNCHANGED status
    BY <2>1, BoundsAssumption DEF TypeOK
  <2> QED BY <2>6, <2>7 DEF TypeOK, DropRemoved, steps
<1> QED BY <1>2, <1>3

LEMMA PersistType ==
  ASSUME TypeOK, NEW r \in Runs, EndWalk(r) \/ WriteSnapshot(r) \/ WriteTracked(r) \/ WriteHash(r)
  PROVE  TypeOK'
<1>1. job[r] \in Jobs /\ job[r].ops = {} /\ job[r].retained \subseteq Tables
  BY DEF TypeOK, EndWalk, WriteSnapshot, WriteTracked, WriteHash, Jobs
<1>2. CASE EndWalk(r)
  <2>1. CASE Aborts(r)
    BY <1>1, <1>2, <2>1, AbortsType DEF TypeOK, EndWalk, steps, counters
  <2>2. CASE ~Aborts(r)
    <3> DEFINE j == [job[r] EXCEPT !.unsaved =
             (Inventory(r) \ job[r].failed) \cup (job[r].prev \ (Inventory(r) \cup job[r].retained))]
    <3>1. j \in Jobs /\ j.ops = {}
      BY <1>1, ConstantTypes DEF Jobs
    <3>2. SetJob(r, j) /\ Goto(r, "snapshots")
      BY <1>2, <2>2 DEF EndWalk
    <3> HIDE DEF j
    <3> QED BY <1>2, <2>2, <3>1, <3>2, RunStepType DEF TypeOK, EndWalk, Locations, steps, counters
  <2> QED BY <2>1, <2>2
<1>6. CASE WriteSnapshot(r)
  <2>1. CASE job[r].unsaved = {} /\ Goto(r, "track") /\ UNCHANGED <<snapshot, job>>
    BY <1>1, <1>6, <2>1 DEF TypeOK, WriteSnapshot, Goto, Locations, steps, counters
  <2>2. CASE ~(job[r].unsaved = {} /\ Goto(r, "track") /\ UNCHANGED <<snapshot, job>>)
    <3>1. PICK t \in Tables :
            /\ snapshot' = [snapshot EXCEPT ![t] = IF t \in Inventory(r) THEN Carries[r] ELSE "none"]
            /\ SetJob(r, [job[r] EXCEPT !.unsaved = @ \ {t}]) /\ UNCHANGED pc
      BY <1>6, <2>2 DEF WriteSnapshot
    <3>2. snapshot' \in [Tables -> Versions \cup {"none"}]
      BY <3>1, ConstantTypes DEF TypeOK
    <3>3. [job[r] EXCEPT !.unsaved = @ \ {t}] \in Jobs
          /\ [job[r] EXCEPT !.unsaved = @ \ {t}].ops = {}
      BY <1>1 DEF Jobs
    <3> QED BY <1>1, <1>6, <3>1, <3>2, <3>3 DEF TypeOK, WriteSnapshot, SetJob, steps, counters
  <2> QED BY <2>1, <2>2
<1>3. ASSUME AfterExecute(r)
      PROVE  /\ pc' \in [Runs -> Locations] /\ job' \in [Runs -> Jobs]
             /\ status' \in [Runs -> Statuses]
             /\ \A q \in Runs : pc'[q] = "table" <=> job'[q].ops # {}
  <2> DEFINE j == [job[r] EXCEPT !.phase = "late", !.todo = LateTodo(r)]
  <2>1. j \in Jobs /\ j.ops = {}
    BY <1>1 DEF Jobs, LateTodo
  <2>2. CASE SetJob(r, j) /\ Goto(r, "steps") /\ UNCHANGED status
    <3> HIDE DEF j
    <3> QED BY <2>1, <2>2, RunStepType DEF TypeOK, Locations
  <2>3. CASE UNCHANGED job /\ \E s \in {"step failed", "failed"} : Report(r, s, "finally")
    BY <1>1, <2>3, ReportType DEF Locations, Statuses
  <2> QED BY <1>3, <2>2, <2>3 DEF AfterExecute
<1>4. CASE WriteTracked(r)
  <2>1. tracked' \in SUBSET Tables
    BY <1>1, <1>4, ConstantTypes DEF WriteTracked
  <2>2. CASE AfterExecute(r)
    BY <1>3, <1>4, <2>1, <2>2 DEF TypeOK, WriteTracked, steps, counters
  <2>3. CASE Goto(r, "hash") /\ UNCHANGED <<job, status>>
    BY <1>1, <1>4, <2>1, <2>3 DEF TypeOK, WriteTracked, Goto, Locations, steps, counters
  <2> QED BY <1>4, <2>2, <2>3 DEF WriteTracked
<1>5. CASE WriteHash(r)
  BY <1>3, <1>5, ConstantTypes DEF TypeOK, WriteHash, steps, counters
<1> QED BY <1>2, <1>4, <1>5, <1>6

LEMMA StepSettledType ==
  ASSUME TypeOK, NEW r \in Runs, NEW s \in StepIds, StepSettled(r, s), job[r].ops = {}
  PROVE  /\ pc' \in [Runs -> Locations] /\ job' \in [Runs -> Jobs]
         /\ \A q \in Runs : pc'[q] = "table" <=> job'[q].ops # {}
<1>1. job[r] \in Jobs
  BY DEF TypeOK
<1>2. [job[r] EXCEPT !.todo = @ \ {s}] \in Jobs /\ [job[r] EXCEPT !.todo = @ \ {s}].ops = {}
  BY <1>1 DEF Jobs
<1> QED BY <1>2, RunStepType DEF StepSettled, Locations

LEMMA StepThrowsType ==
  ASSUME TypeOK, NEW r \in Runs, StepThrows(r), job[r].ops = {}
  PROVE  /\ pc' \in [Runs -> Locations] /\ job' \in [Runs -> Jobs]
         /\ status' \in [Runs -> Statuses]
         /\ \A q \in Runs : pc'[q] = "table" <=> job'[q].ops # {}
<1> DEFINE j == [job[r] EXCEPT !.stepError = TRUE, !.deferred = {}, !.pass = FALSE,
                               !.failed = @ \cup job[r].deferred]
<1>1. job[r] \in Jobs
  BY DEF TypeOK
<1>2. j \in Jobs /\ j.ops = {}
  BY <1>1 DEF Jobs
<1>3. CASE SetJob(r, j) /\ Goto(r, "walk") /\ UNCHANGED status
  <2> HIDE DEF j
  <2> QED BY <1>2, <1>3, RunStepType DEF TypeOK, Locations
<1>4. CASE Report(r, "step failed", "finally") /\ UNCHANGED job
  BY <1>4, ReportType DEF Locations, Statuses
<1> QED BY <1>3, <1>4 DEF StepThrows

LEMMA DataStepsType ==
  ASSUME TypeOK, NEW r \in Runs, ApplyDataSteps(r)
  PROVE  TypeOK'
<1>1. job[r].ops = {}
  BY DEF TypeOK, ApplyDataSteps, StepsDone, StepBegin, StepRun, StepRecord
<1>2. CASE StepsDone(r)
  <2>1. CASE Goto(r, "deferred") /\ UNCHANGED status
    BY <1>1, <1>2, <2>1 DEF TypeOK, StepsDone, Goto, Locations, steps, counters
  <2>2. CASE Report(r, "synced", "finally")
    <3>1. "synced" \in Statuses /\ "finally" \in Locations \ {"table"}
      BY DEF Statuses, Succeeded, Locations
    <3>2. UNCHANGED job
      BY <1>2 DEF StepsDone
    <3> QED BY <1>1, <1>2, <2>2, <3>1, <3>2, ReportType DEF TypeOK, StepsDone, steps, counters
  <2> QED BY <1>2, <2>1, <2>2 DEF StepsDone
<1>3. CASE StepBegin(r)
  <2>1. PICK s \in StepIds :
          \/ Aborts(r) /\ UNCHANGED claim
          \/ StepSettled(r, s) /\ UNCHANGED <<claim, status>>
          \/ /\ claim' = IF realTx THEN [claim EXCEPT ![s] = r] ELSE claim
             /\ Goto(r, "fn") /\ UNCHANGED <<job, status>>
    BY <1>3 DEF StepBegin
  <2>2. CASE Aborts(r) /\ UNCHANGED claim
    BY <1>1, <1>3, <2>2, AbortsType DEF TypeOK, StepBegin, counters
  <2>3. CASE StepSettled(r, s) /\ UNCHANGED <<claim, status>>
    BY <1>1, <1>3, <2>3, StepSettledType DEF TypeOK, StepBegin, counters
  <2>4. CASE /\ claim' = IF realTx THEN [claim EXCEPT ![s] = r] ELSE claim
             /\ Goto(r, "fn") /\ UNCHANGED <<job, status>>
    BY <1>1, <1>3, <2>4 DEF TypeOK, StepBegin, Goto, Locations, counters
  <2> QED BY <2>1, <2>2, <2>3, <2>4
<1>4. CASE StepRun(r)
  <2>1. PICK s \in StepIds :
          /\ claim' = IF realTx THEN [claim EXCEPT ![s] = NoRun] ELSE claim
          /\ \/ /\ applied' = [applied EXCEPT ![s] = @ + 1]
                /\ IF realTx THEN recorded' = recorded \cup {s} /\ StepSettled(r, s)
                   ELSE UNCHANGED <<recorded, job>> /\ Goto(r, "record")
                /\ UNCHANGED <<status, stepFails>>
             \/ /\ stepFails < MaxStepFails /\ stepFails' = stepFails + 1
                /\ StepThrows(r) /\ UNCHANGED <<applied, recorded>>
    BY <1>4 DEF StepRun
  <2>2. claim' \in [StepIds -> Runs \cup {NoRun}]
    BY <2>1 DEF TypeOK
  <2>3. CASE StepThrows(r) /\ UNCHANGED <<applied, recorded>> /\ stepFails' \in 0..MaxStepFails
    BY <1>1, <1>4, <2>2, <2>3, StepThrowsType DEF TypeOK, StepRun
  <2>4. CASE applied' = [applied EXCEPT ![s] = @ + 1] /\ UNCHANGED <<status, stepFails>>
    <3>1. applied' \in [StepIds -> Nat]
      BY <2>4 DEF TypeOK
    <3>2. CASE recorded' = recorded \cup {s} /\ StepSettled(r, s)
      BY <1>1, <1>4, <2>2, <2>4, <3>1, <3>2, StepSettledType DEF TypeOK, StepRun
    <3>3. CASE UNCHANGED <<recorded, job>> /\ Goto(r, "record")
      BY <1>1, <1>4, <2>2, <2>4, <3>1, <3>3 DEF TypeOK, StepRun, Goto, Locations
    <3>4. CASE StepThrows(r) /\ UNCHANGED recorded
      BY <1>1, <1>4, <2>2, <2>4, <3>1, <3>4, StepThrowsType DEF TypeOK, StepRun
    <3> QED BY <2>1, <3>2, <3>3, <3>4
  <2> QED BY <2>1, <2>3, <2>4, BoundsAssumption DEF TypeOK
<1>5. CASE StepRecord(r)
  BY <1>1, <1>5, StepSettledType DEF TypeOK, StepRecord, counters
<1> QED BY <1>2, <1>3, <1>4, <1>5 DEF ApplyDataSteps

LEMMA EnvironmentType ==
  ASSUME TypeOK,
         LeaseExpires \/ \E r \in Runs : Finally(r) \/ NoticeLoss(r) \/ Crash(r)
  PROVE  TypeOK'
<1>1. CASE LeaseExpires
  BY <1>1, BoundsAssumption DEF TypeOK, LeaseExpires, steps
<1>0. NewJob \in Jobs /\ NewJob.ops = {}
  BY DEF NewJob, Jobs
<1>2. CASE \E r \in Runs : Finally(r)
  BY <1>0, <1>2, RunStepType DEF TypeOK, Finally, Locations, steps, counters
<1>3. CASE \E r \in Runs : NoticeLoss(r)
  <2>1. PICK r \in Runs : NoticeLoss(r)
    BY <1>3
  <2>2. job[r] \in Jobs
    BY DEF TypeOK
  <2>3. [job[r] EXCEPT !.abort = TRUE] \in Jobs /\ [job[r] EXCEPT !.abort = TRUE].ops = job[r].ops
    BY <2>2 DEF Jobs
  <2> QED BY <2>1, <2>3 DEF TypeOK, NoticeLoss, SetJob, steps, counters
<1>4. CASE \E r \in Runs : Crash(r)
  BY <1>0, <1>4, RunStepType DEF TypeOK, Crash, Locations, counters
<1> QED BY <1>1, <1>2, <1>3, <1>4

LEMMA StepType == TypeOK /\ [Next]_vars => TypeOK'
<1> SUFFICES ASSUME TypeOK, [Next]_vars
             PROVE  TypeOK'
  OBVIOUS
<1>1. CASE UNCHANGED vars
  BY <1>1 DEF TypeOK, vars, steps, counters
<1>2. CASE LeaseExpires \/ \E r \in Runs : Finally(r) \/ NoticeLoss(r) \/ Crash(r)
  BY <1>2, EnvironmentType
<1>3. ASSUME NEW r \in Runs, Run(r), ~Finally(r)
      PROVE  TypeOK'
  BY <1>3, AcquireType, DoubleCheckType, DiscoverType, BeginTableType, TableStatementType,
     TableConstraintsType, DeferredType, DropRemovedType, PersistType, DataStepsType
     DEF Run, Execute
<1> QED BY <1>1, <1>2, <1>3 DEF Next

(* Every variable keeps its type, whatever fails, crashes or is taken over *)
(* (schema-sync.ts run).                                                   *)
THEOREM TypeCorrect == Spec => []TypeOK
BY InitType, StepType, PTL DEF Spec

-----------------------------------------------------------------------------
(* Order *)

LEMMA PositionIsOrder ==
  ASSUME NEW S, NEW seq \in Seq(S), NEW x \in ToSet(seq)
  PROVE  Position(seq, x) \in Nat /\ seq[Position(seq, x)] = x
<1>1. \E i \in DOMAIN seq : seq[i] = x
  BY DEF ToSet
<1>2. Position(seq, x) \in DOMAIN seq /\ seq[Position(seq, x)] = x
  BY <1>1 DEF Position
<1> QED BY <1>2

LEMMA FirstIsUnique ==
  ASSUME NEW S, NEW seq \in Seq(S), NEW U, U \subseteq ToSet(seq),
         NEW x, NEW y, IsFirst(seq, x, U), IsFirst(seq, y, U)
  PROVE  x = y
<1>1. x \in ToSet(seq) /\ y \in ToSet(seq)
  BY DEF IsFirst
<1>2. Position(seq, x) \in Nat /\ Position(seq, y) \in Nat
  BY <1>1, PositionIsOrder
<1> QED BY <1>2 DEF IsFirst

LEMMA OneTable ==
  ASSUME TypeOK, NEW r \in Runs, NEW t, NEW u, AtTable(r, t), AtTable(r, u)
  PROVE  t = u
<1>1. job[r].tables \subseteq ToSet(Order) /\ Order \in Seq(Tables)
  BY ModelAssumption DEF TypeOK, Jobs, Tables
<1> QED BY <1>1, FirstIsUnique DEF AtTable

(* The step a run is at is one of its list, and there is one such step.    *)
LEMMA OneStep ==
  ASSUME TypeOK, NEW r \in Runs, NEW s, AtStep(r, s)
  PROVE  s \in Due(r) /\ s \in job[r].todo /\ s \in StepIds /\ \A u : AtStep(r, u) => u = s
<1>1. Due(r) \subseteq job[r].todo /\ job[r].todo \subseteq ToSet(Steps)
  BY DEF Due, TypeOK, Jobs, StepIds
<1>2. Steps \in Seq(StepIds)
  BY ModelAssumption
<1>3. \A u : AtStep(r, u) => u = s
  <2>1. CASE Due(r) \cap Early = {}
    BY <1>1, <1>2, <2>1, FirstIsUnique DEF AtStep
  <2>2. CASE Due(r) \cap Early # {}
    BY <1>1, <1>2, <2>2, FirstIsUnique DEF AtStep
  <2> QED BY <2>1, <2>2
<1> QED BY <1>1, <1>3 DEF AtStep, IsFirst, StepIds

-----------------------------------------------------------------------------
(* Where a run is *)

(* A run's step leaves the other runs where they are.                      *)
LEMMA OthersStay ==
  ASSUME TypeOK, NEW r \in Runs, Run(r) \/ NoticeLoss(r) \/ Crash(r),
         NEW q \in Runs, q # r
  PROVE  pc'[q] = pc[q] /\ job'[q] = job[q] /\ status'[q] = status[q]
<1>1. CASE NoticeLoss(r) \/ Crash(r)
  BY <1>1 DEF TypeOK, NoticeLoss, Crash, Goto, SetJob
<1>2. CASE AcquireLock(r)
  <2>1. CASE QuickHash(r) \/ TryAcquire(r) \/ PeerHash(r)
    BY <2>1 DEF TypeOK, QuickHash, TryAcquire, PeerHash, Goto
  <2>2. CASE QuickSteps(r) \/ PeerSteps(r) \/ LockWait(r)
    BY <2>2 DEF TypeOK, QuickSteps, PeerSteps, LockWait, Report, Goto
  <2> QED BY <1>2, <2>1, <2>2 DEF AcquireLock
<1>3. CASE DoubleCheck(r) \/ DiscoverTracked(r) \/ Introspect(r) \/ Finally(r)
  <2>1. CASE DoubleCheck(r)
    BY <2>1 DEF TypeOK, DoubleCheck, Goto, SetJob
  <2>2. CASE DiscoverTracked(r) \/ Finally(r)
    BY <2>2 DEF TypeOK, DiscoverTracked, Finally, Goto, SetJob
  <2>3. CASE Introspect(r)
    BY <2>3 DEF TypeOK, Introspect, Aborts, Report, Goto, SetJob
  <2> QED BY <1>3, <2>1, <2>2, <2>3
<1>4. CASE BeginTable(r) \/ TableStatement(r)
  <2>1. CASE BeginTable(r)
    BY <2>1 DEF TypeOK, BeginTable, Aborts, Report, Goto, SetJob, ColumnsDone
  <2>2. CASE TableStatement(r)
    BY <2>2 DEF TypeOK, TableStatement, Goto, SetJob, ColumnsDone, TableFails
  <2> QED BY <1>4, <2>1, <2>2
<1>5. CASE TableConstraints(r) \/ BeginDeferred(r) \/ DeferredConstraints(r)
  BY <1>5 DEF TypeOK, TableConstraints, BeginDeferred, DeferredConstraints, SyncConstraints,
              Aborts, Report, Goto, SetJob, TableFails
<1>6. CASE DropRemoved(r) \/ EndWalk(r) \/ WriteSnapshot(r) \/ WriteTracked(r) \/ WriteHash(r)
  BY <1>6 DEF TypeOK, DropRemoved, EndWalk, WriteSnapshot, WriteTracked, WriteHash, AfterExecute,
              Aborts, Report, Goto, SetJob
<1>7. CASE ApplyDataSteps(r)
  BY <1>7 DEF TypeOK, ApplyDataSteps, StepsDone, StepBegin, StepRun, StepRecord, StepSettled,
              StepThrows, Aborts, Report, Goto, SetJob
<1> QED BY <1>1, <1>2, <1>3, <1>4, <1>5, <1>6, <1>7 DEF Run, Execute

LEMMA LocalInit == Init => LocalInv /\ ListInv
BY DEF Init, LocalInv, ListInv, NewJob, PhaseOK, WalkOK, BeforeCheck, InWalk, InSteps

(* Places where nothing is claimed of the job but what holds of every job. *)
LEMMA EndsLocal ==
  ASSUME NEW r \in Runs, NEW p, NEW j, PhaseOK(p, j), WalkOK(r, p, j),
         NEW e \in {"finally", "done", "dead"}
  PROVE  PhaseOK(e, j) /\ WalkOK(r, e, j)
BY DEF PhaseOK, WalkOK, BeforeCheck, InWalk, InSteps

LEMMA NewJobLocal ==
  ASSUME NEW r \in Runs, NEW p \in BeforeCheck \cup {"done", "dead"}
  PROVE  PhaseOK(p, NewJob) /\ WalkOK(r, p, NewJob)
BY DEF NewJob, PhaseOK, WalkOK, BeforeCheck, InWalk, InSteps

LEMMA AcquireLocal ==
  ASSUME TypeOK, LocalInv, NEW r \in Runs, AcquireLock(r)
  PROVE  PhaseOK(pc'[r], job'[r]) /\ WalkOK(r, pc'[r], job'[r])
<1>1. /\ job' = job /\ pc[r] \in BeforeCheck
      /\ pc'[r] \in BeforeCheck \cup {"done"}
  BY DEF TypeOK, AcquireLock, QuickHash, QuickSteps, TryAcquire, LockWait, PeerHash, PeerSteps,
         Report, Goto, BeforeCheck
<1> QED BY <1>1 DEF LocalInv, PhaseOK, WalkOK, BeforeCheck, InWalk, InSteps

LEMMA DoubleCheckLocal ==
  ASSUME TypeOK, LocalInv, NEW r \in Runs, DoubleCheck(r)
  PROVE  PhaseOK(pc'[r], job'[r]) /\ WalkOK(r, pc'[r], job'[r])
<1>1. job[r] \in Jobs /\ pc[r] = "check" /\ PhaseOK("check", job[r]) /\ WalkOK(r, "check", job[r])
  BY DEF TypeOK, LocalInv, DoubleCheck
<1>2. PICK q \in job[r].unread :
        LET j == [job[r] EXCEPT
             !.unread = @ \ {q},
             !.todo = IF q = "steps" THEN StepIds \ recorded ELSE @,
             !.match = IF q = "hash" THEN r \notin ForceRuns /\ hash = Carries[r] ELSE @]
       IN  /\ SetJob(r, j)
           /\ Goto(r, IF j.unread # {} THEN "check" ELSE IF j.match THEN "steps" ELSE "tracking")
  BY DEF DoubleCheck
<1> DEFINE j == [job[r] EXCEPT
             !.unread = @ \ {q},
             !.todo = IF q = "steps" THEN StepIds \ recorded ELSE @,
             !.match = IF q = "hash" THEN r \notin ForceRuns /\ hash = Carries[r] ELSE @]
<1>3. /\ job'[r] = j
      /\ pc'[r] = IF j.unread # {} THEN "check" ELSE IF j.match THEN "steps" ELSE "tracking"
  BY <1>2 DEF TypeOK, SetJob, Goto
<1>4. /\ j.phase = job[r].phase /\ j.tables = job[r].tables /\ j.drops = job[r].drops
      /\ j.pass = job[r].pass /\ j.deferred = job[r].deferred
  BY <1>1 DEF Jobs
<1> HIDE DEF j
<1> QED BY <1>1, <1>3, <1>4 DEF PhaseOK, WalkOK, BeforeCheck, InWalk, InSteps

LEMMA DiscoverLocal ==
  ASSUME TypeOK, LocalInv, NEW r \in Runs, DiscoverTracked(r) \/ Introspect(r)
  PROVE  PhaseOK(pc'[r], job'[r]) /\ WalkOK(r, pc'[r], job'[r])
<1>1. job[r] \in Jobs /\ PhaseOK(pc[r], job[r]) /\ WalkOK(r, pc[r], job[r])
  BY DEF TypeOK, LocalInv
<1>2. CASE DiscoverTracked(r)
  <2>1. pc'[r] = "introspect" /\ job'[r] = [job[r] EXCEPT !.prev = tracked] /\ pc[r] = "tracking"
    BY <1>2 DEF TypeOK, DiscoverTracked, Goto, SetJob
  <2> QED BY <1>1, <2>1 DEF Jobs, PhaseOK, WalkOK, BeforeCheck, InWalk, InSteps
<1>3. CASE Introspect(r) /\ pc'[r] = "finally" /\ job' = job
  BY <1>1, <1>3, EndsLocal
<1>4. CASE Introspect(r) /\ ~(pc'[r] = "finally" /\ job' = job)
  <2>1. /\ pc'[r] = "walk" /\ pc[r] = "introspect"
        /\ job'[r] = [OrderedSteps(r) EXCEPT !.seen = live, !.stored = snapshot, !.phase = "early"]
    BY <1>4 DEF TypeOK, Introspect, Aborts, Report, Goto, SetJob
  <2>2. /\ job'[r].phase = "early" /\ job'[r].unread = job[r].unread /\ job'[r].match = job[r].match
        /\ job'[r].tables = Inventory(r) /\ job'[r].drops = job[r].prev \ Inventory(r)
        /\ job'[r].pass /\ job'[r].deferred = job[r].deferred /\ job'[r].todo = job[r].todo
    BY <1>1, <2>1 DEF Jobs, OrderedSteps
  <2> QED BY <1>1, <2>1, <2>2 DEF PhaseOK, WalkOK, BeforeCheck, InWalk, InSteps
<1> QED BY <1>2, <1>3, <1>4

LEMMA ColumnsDoneLocal ==
  ASSUME TypeOK, NEW r \in Runs, NEW t, NEW ops, NEW p \in {"walk", "table"},
         PhaseOK(p, job[r]), WalkOK(r, p, job[r]), t \in job[r].tables,
         ColumnsDone(r, t, [job[r] EXCEPT !.ops = ops])
  PROVE  PhaseOK(pc'[r], job'[r]) /\ WalkOK(r, pc'[r], job'[r])
<1>1. job[r] \in Jobs
  BY DEF TypeOK
<1>2. CASE EarlyTodo(r) # {}
  <2>1. /\ pc'[r] = "walk"
        /\ job'[r] = [[job[r] EXCEPT !.ops = ops] EXCEPT
                        !.deferred = @ \cup {t}, !.tables = @ \ {t}]
    BY <1>2 DEF TypeOK, ColumnsDone, Goto, SetJob
  <2> QED BY <1>1, <1>2, <2>1 DEF Jobs, EarlyTodo, PhaseOK, WalkOK, BeforeCheck, InWalk, InSteps
<1>3. CASE EarlyTodo(r) = {}
  <2>1. pc'[r] = "constraints" /\ job'[r] = [job[r] EXCEPT !.ops = ops]
    BY <1>3 DEF TypeOK, ColumnsDone, Goto, SetJob
  <2> QED BY <1>1, <1>3, <2>1 DEF Jobs, EarlyTodo, PhaseOK, WalkOK, BeforeCheck, InWalk, InSteps
<1> QED BY <1>2, <1>3

LEMMA TableFailsLocal ==
  ASSUME TypeOK, NEW r \in Runs, NEW t, NEW p \in {"table", "constraints"},
         PhaseOK(p, job[r]), WalkOK(r, p, job[r]), t \in job[r].tables, TableFails(r, t)
  PROVE  PhaseOK(pc'[r], job'[r]) /\ WalkOK(r, pc'[r], job'[r])
<1>1. job[r] \in Jobs
  BY DEF TypeOK
<1>2. /\ pc'[r] = "walk"
      /\ job'[r] = [job[r] EXCEPT !.failed = @ \cup {t}, !.ops = {}, !.tables = @ \ {t}]
  BY DEF TypeOK, TableFails, Goto, SetJob
<1> QED BY <1>1, <1>2 DEF Jobs, PhaseOK, WalkOK, BeforeCheck, InWalk, InSteps

LEMMA TableLocal ==
  ASSUME TypeOK, LocalInv, NEW r \in Runs, BeginTable(r) \/ TableStatement(r) \/ TableConstraints(r)
  PROVE  PhaseOK(pc'[r], job'[r]) /\ WalkOK(r, pc'[r], job'[r])
<1>1. job[r] \in Jobs /\ PhaseOK(pc[r], job[r]) /\ WalkOK(r, pc[r], job[r])
  BY DEF TypeOK, LocalInv
<1>2. \A ops : (pc[r] \in {"walk", "table"} /\ job'[r] = [job[r] EXCEPT !.ops = ops] /\ pc'[r] = "table")
        => PhaseOK(pc'[r], job'[r]) /\ WalkOK(r, pc'[r], job'[r])
  BY <1>1 DEF Jobs, PhaseOK, WalkOK, BeforeCheck, InWalk, InSteps
<1>3. CASE BeginTable(r)
  <2>1. CASE Aborts(r)
    <3>1. pc'[r] = "finally" /\ job' = job
      BY <2>1 DEF TypeOK, Aborts, Report, Goto
    <3> QED BY <1>1, <3>1, EndsLocal
  <2>2. CASE ~Aborts(r)
    <3>1. PICK t \in Tables :
            /\ AtTable(r, t)
            /\ LET ops == ColumnOps(r, t)
               IN  IF ops = {} THEN ColumnsDone(r, t, job[r])
                   ELSE SetJob(r, [job[r] EXCEPT !.ops = ops]) /\ Goto(r, "table")
      BY <1>3, <2>2 DEF BeginTable
    <3>2. pc[r] = "walk" /\ job[r] = [job[r] EXCEPT !.ops = {}]
      <4>1. pc[r] = "walk"
        BY <1>3 DEF BeginTable
      <4>2. job[r].ops = {}
        BY <4>1 DEF TypeOK
      <4> QED BY <1>1, <4>1, <4>2 DEF Jobs
    <3>5. t \in job[r].tables
      BY <3>1 DEF AtTable, IsFirst
    <3>3. CASE ColumnOps(r, t) = {}
      BY <1>1, <3>1, <3>2, <3>3, <3>5, ColumnsDoneLocal
    <3>4. CASE ColumnOps(r, t) # {}
      <4>1. job'[r] = [job[r] EXCEPT !.ops = ColumnOps(r, t)] /\ pc'[r] = "table"
        BY <3>1, <3>4 DEF TypeOK, SetJob, Goto
      <4> QED BY <1>2, <3>2, <4>1
    <3> QED BY <3>3, <3>4
  <2> QED BY <2>1, <2>2
<1>4. CASE TableStatement(r)
  <2>1. PICK t \in Tables, op \in job[r].ops :
          /\ AtTable(r, t)
          /\ LET j == [job[r] EXCEPT !.ops = @ \ {op}]
             IN  \/ IF j.ops = {} THEN ColumnsDone(r, t, j) ELSE SetJob(r, j) /\ Goto(r, "table")
                 \/ TableFails(r, t)
    BY <1>4 DEF TableStatement
  <2>2. t \in job[r].tables /\ pc[r] = "table"
    BY <1>4, <2>1 DEF AtTable, IsFirst, TableStatement
  <2>3. [job[r] EXCEPT !.ops = @ \ {op}] = [job[r] EXCEPT !.ops = job[r].ops \ {op}]
    OBVIOUS
  <2>4. CASE TableFails(r, t)
    BY <1>1, <2>2, <2>4, TableFailsLocal
  <2>5. CASE ColumnsDone(r, t, [job[r] EXCEPT !.ops = job[r].ops \ {op}])
    BY <1>1, <2>2, <2>5, ColumnsDoneLocal
  <2>6. CASE SetJob(r, [job[r] EXCEPT !.ops = job[r].ops \ {op}]) /\ Goto(r, "table")
    BY <1>2, <2>2, <2>6 DEF TypeOK, SetJob, Goto
  <2> QED BY <2>1, <2>3, <2>4, <2>5, <2>6
<1>5. CASE TableConstraints(r)
  <2>1. PICK t \in Tables :
          /\ AtTable(r, t)
          /\ \/ SetJob(r, [job[r] EXCEPT !.tables = @ \ {t}]) /\ Goto(r, "walk")
             \/ TableFails(r, t)
    BY <1>5 DEF TableConstraints, SyncConstraints
  <2>2. t \in job[r].tables /\ pc[r] = "constraints"
    BY <1>5, <2>1 DEF AtTable, IsFirst, TableConstraints
  <2>3. CASE TableFails(r, t)
    BY <1>1, <2>2, <2>3, TableFailsLocal
  <2>4. CASE SetJob(r, [job[r] EXCEPT !.tables = @ \ {t}]) /\ Goto(r, "walk")
    <3>1. pc'[r] = "walk" /\ job'[r] = [job[r] EXCEPT !.tables = @ \ {t}]
      BY <2>4 DEF TypeOK, SetJob, Goto
    <3> QED BY <1>1, <2>2, <3>1 DEF Jobs, PhaseOK, WalkOK, BeforeCheck, InWalk, InSteps
  <2> QED BY <2>1, <2>3, <2>4
<1> QED BY <1>3, <1>4, <1>5

LEMMA DeferredLocal ==
  ASSUME TypeOK, LocalInv, NEW r \in Runs, BeginDeferred(r) \/ DeferredConstraints(r)
  PROVE  PhaseOK(pc'[r], job'[r]) /\ WalkOK(r, pc'[r], job'[r])
<1>1. job[r] \in Jobs /\ PhaseOK(pc[r], job[r]) /\ WalkOK(r, pc[r], job[r])
  BY DEF TypeOK, LocalInv
<1>2. CASE Aborts(r)
  <2>1. pc'[r] = "finally" /\ job' = job
    BY <1>2 DEF TypeOK, Aborts, Report, Goto
  <2> QED BY <1>1, <2>1, EndsLocal
<1>3. CASE BeginDeferred(r) /\ ~Aborts(r)
  <2>1. CASE EarlyTodo(r) = {}
    <3>1. pc[r] = "walk" /\ pc'[r] = "walk" /\ job'[r] = [job[r] EXCEPT !.pass = FALSE]
      BY <1>3, <2>1 DEF TypeOK, BeginDeferred, SetJob, Goto
    <3>2. job[r].tables = {} /\ job[r].pass
      BY <1>3 DEF BeginDeferred, AtPass
    <3> QED BY <1>1, <2>1, <3>1, <3>2 DEF Jobs, EarlyTodo, PhaseOK, WalkOK, BeforeCheck, InWalk, InSteps
  <2>2. CASE EarlyTodo(r) # {}
    <3>1. /\ pc[r] = "walk" /\ job' = job /\ AtPass(r)
          /\ pc'[r] = IF job[r].failed = {} THEN "steps" ELSE "deferred"
      BY <1>3, <2>2 DEF TypeOK, BeginDeferred, Goto
    <3> QED BY <1>1, <3>1 DEF AtPass, PhaseOK, WalkOK, BeforeCheck, InWalk, InSteps
  <2> QED BY <2>1, <2>2
<1>4. CASE DeferredConstraints(r) /\ ~Aborts(r)
  <2>1. pc[r] = "deferred"
    BY <1>4 DEF DeferredConstraints
  <2>2. CASE job[r].deferred = {} /\ SetJob(r, [job[r] EXCEPT !.pass = FALSE]) /\ Goto(r, "walk")
    <3>1. pc'[r] = "walk" /\ job'[r] = [job[r] EXCEPT !.pass = FALSE]
      BY <2>2 DEF TypeOK, SetJob, Goto
    <3> QED BY <1>1, <2>1, <2>2, <3>1 DEF Jobs, PhaseOK, WalkOK, BeforeCheck, InWalk, InSteps
  <2>3. CASE Goto(r, "deferred") /\ \E t \in Tables :
               \/ SetJob(r, [job[r] EXCEPT !.deferred = @ \ {t}])
               \/ SetJob(r, [[job[r] EXCEPT !.deferred = @ \ {t}] EXCEPT !.failed = @ \cup {t}])
    <3>1. PICK t \in Tables :
               \/ job'[r] = [job[r] EXCEPT !.deferred = @ \ {t}]
               \/ job'[r] = [[job[r] EXCEPT !.deferred = @ \ {t}] EXCEPT !.failed = @ \cup {t}]
      BY <2>3 DEF TypeOK, SetJob
    <3>2. pc'[r] = "deferred"
      BY <2>3 DEF TypeOK, Goto
    <3>3. /\ job'[r].failed = {} => job[r].failed = {}
          /\ job'[r].tables = job[r].tables /\ job'[r].drops = job[r].drops
          /\ job'[r].pass = job[r].pass /\ job'[r].todo = job[r].todo
          /\ job'[r].unread = job[r].unread /\ job'[r].match = job[r].match
          /\ job'[r].phase = job[r].phase
      <4>1. CASE job'[r] = [job[r] EXCEPT !.deferred = @ \ {t}]
        BY <1>1, <4>1 DEF Jobs
      <4>2. CASE job'[r] = [[job[r] EXCEPT !.deferred = @ \ {t}] EXCEPT !.failed = @ \cup {t}]
        <5>1. t \in job'[r].failed
          BY <1>1, <4>2 DEF Jobs
        <5> QED BY <1>1, <4>2, <5>1 DEF Jobs
      <4> QED BY <3>1, <4>1, <4>2
    <3> QED BY <1>1, <2>1, <3>2, <3>3 DEF PhaseOK, WalkOK, BeforeCheck, InWalk, InSteps
  <2> QED BY <1>4, <2>2, <2>3 DEF DeferredConstraints, SyncConstraints
<1> QED BY <1>2, <1>3, <1>4

LEMMA DropLocal ==
  ASSUME TypeOK, LocalInv, NEW r \in Runs, DropRemoved(r)
  PROVE  PhaseOK(pc'[r], job'[r]) /\ WalkOK(r, pc'[r], job'[r])
<1>1. job[r] \in Jobs /\ PhaseOK(pc[r], job[r]) /\ WalkOK(r, pc[r], job[r])
  BY DEF TypeOK, LocalInv
<1>2. CASE Aborts(r)
  <2>1. pc'[r] = "finally" /\ job' = job
    BY <1>2 DEF TypeOK, Aborts, Report, Goto
  <2> QED BY <1>1, <2>1, EndsLocal
<1>3. CASE ~Aborts(r)
  <2>1. PICK t \in Tables :
          /\ ~job[r].pass
          /\ \/ job'[r] = [job[r] EXCEPT !.drops = @ \ {t}]
             \/ job'[r] = [[job[r] EXCEPT !.drops = @ \ {t}] EXCEPT !.retained = @ \cup {t}]
             \/ job'[r] = [[[job[r] EXCEPT !.drops = @ \ {t}] EXCEPT !.retained = @ \cup {t}]
                             EXCEPT !.failed = @ \cup {t}]
    BY <1>3 DEF TypeOK, DropRemoved, AtDrop, SetJob
  <2>2. pc[r] = "walk" /\ pc'[r] = "walk"
    BY <1>3 DEF TypeOK, DropRemoved, Goto
  <2>3. /\ job'[r].drops \subseteq job[r].drops /\ job'[r].tables = job[r].tables
        /\ job'[r].deferred = job[r].deferred /\ job[r].failed \subseteq job'[r].failed
        /\ job'[r].pass = job[r].pass /\ job'[r].todo = job[r].todo
        /\ job'[r].unread = job[r].unread /\ job'[r].match = job[r].match
        /\ job'[r].phase = job[r].phase /\ job'[r].stepError = job[r].stepError
    <3>1. CASE job'[r] = [job[r] EXCEPT !.drops = @ \ {t}]
      BY <1>1, <3>1 DEF Jobs
    <3>2. CASE job'[r] = [[job[r] EXCEPT !.drops = @ \ {t}] EXCEPT !.retained = @ \cup {t}]
      BY <1>1, <3>2 DEF Jobs
    <3>3. CASE job'[r] = [[[job[r] EXCEPT !.drops = @ \ {t}] EXCEPT !.retained = @ \cup {t}]
                            EXCEPT !.failed = @ \cup {t}]
      BY <1>1, <3>3 DEF Jobs
    <3> QED BY <2>1, <3>1, <3>2, <3>3
  <2> QED BY <1>1, <2>1, <2>2, <2>3 DEF PhaseOK, WalkOK, BeforeCheck, InWalk, InSteps
<1> QED BY <1>2, <1>3

LEMMA AfterExecuteLocal ==
  ASSUME TypeOK, NEW r \in Runs, NEW p \in {"track", "hash"},
         PhaseOK(p, job[r]), WalkOK(r, p, job[r]), AfterExecute(r)
  PROVE  PhaseOK(pc'[r], job'[r]) /\ WalkOK(r, pc'[r], job'[r])
<1>1. job[r] \in Jobs
  BY DEF TypeOK
<1>2. CASE job[r].failed = {} /\ ~job[r].stepError
  <2>1. pc'[r] = "steps" /\ job'[r] = [job[r] EXCEPT !.phase = "late", !.todo = LateTodo(r)]
    BY <1>2 DEF TypeOK, AfterExecute, SetJob, Goto
  <2>2. /\ job'[r].phase = "late" /\ job'[r].todo = LateTodo(r)
        /\ job'[r].unread = job[r].unread /\ job'[r].match = job[r].match
        /\ job'[r].tables = job[r].tables /\ job'[r].drops = job[r].drops
        /\ job'[r].deferred = job[r].deferred /\ job'[r].pass = job[r].pass
    BY <1>1, <2>1 DEF Jobs
  <2> QED BY <2>1, <2>2 DEF LateTodo, PhaseOK, WalkOK, BeforeCheck, InWalk, InSteps
<1>3. CASE ~(job[r].failed = {} /\ ~job[r].stepError)
  <2>1. pc'[r] = "finally" /\ job' = job
    BY <1>3 DEF TypeOK, AfterExecute, Report, Goto
  <2> QED BY <2>1, EndsLocal
<1> QED BY <1>2, <1>3

LEMMA PersistLocal ==
  ASSUME TypeOK, LocalInv, NEW r \in Runs,
         EndWalk(r) \/ WriteSnapshot(r) \/ WriteTracked(r) \/ WriteHash(r)
  PROVE  PhaseOK(pc'[r], job'[r]) /\ WalkOK(r, pc'[r], job'[r])
<1>0. job[r] \in Jobs
  BY DEF TypeOK
<1>1. PhaseOK(pc[r], job[r]) /\ WalkOK(r, pc[r], job[r])
  BY DEF LocalInv
<1>2. CASE Aborts(r)
  <2>1. pc'[r] = "finally" /\ job' = job
    BY <1>2 DEF TypeOK, Aborts, Report, Goto
  <2> QED BY <1>1, <2>1, EndsLocal
<1>3. CASE EndWalk(r) /\ ~Aborts(r)
  <2>1. /\ pc[r] = "walk" /\ pc'[r] = "snapshots" /\ AtEnd(r)
        /\ job'[r] = [job[r] EXCEPT !.unsaved =
             (Inventory(r) \ job[r].failed) \cup (job[r].prev \ (Inventory(r) \cup job[r].retained))]
    BY <1>3 DEF TypeOK, EndWalk, Goto, SetJob
  <2>2. /\ job'[r].unread = job[r].unread /\ job'[r].match = job[r].match
        /\ job'[r].phase = job[r].phase /\ job'[r].tables = job[r].tables
        /\ job'[r].drops = job[r].drops /\ job'[r].pass = job[r].pass
        /\ job'[r].deferred = job[r].deferred /\ job'[r].failed = job[r].failed
        /\ job'[r].stepError = job[r].stepError /\ job'[r].todo = job[r].todo
    BY <1>0, <2>1 DEF Jobs
  <2>4. job'[r].unsaved \cap job[r].failed \cap Inventory(r) = {}
    BY <1>0, <2>1 DEF Jobs
  <2> QED BY <1>1, <2>1, <2>2, <2>4 DEF AtEnd, PhaseOK, WalkOK, BeforeCheck, InWalk, InSteps
<1>6. CASE WriteSnapshot(r)
  <2>1. CASE job[r].unsaved = {} /\ pc'[r] = "track" /\ job' = job
    BY <1>1, <1>6, <2>1 DEF WriteSnapshot, PhaseOK, WalkOK, BeforeCheck, InWalk, InSteps
  <2>2. CASE \E t : job'[r] = [job[r] EXCEPT !.unsaved = @ \ {t}] /\ pc' = pc
    <3>1. PICK t : job'[r] = [job[r] EXCEPT !.unsaved = @ \ {t}] /\ pc'[r] = "snapshots"
      BY <1>6, <2>2 DEF WriteSnapshot
    <3> QED BY <1>0, <1>1, <1>6, <3>1 DEF WriteSnapshot, Jobs, PhaseOK, WalkOK, BeforeCheck, InWalk, InSteps
  <2>3. CASE job[r].unsaved = {} /\ Goto(r, "track") /\ UNCHANGED <<snapshot, job>>
    BY <2>1, <2>3 DEF TypeOK, Goto
  <2>4. ASSUME NEW t \in Tables, SetJob(r, [job[r] EXCEPT !.unsaved = @ \ {t}]), UNCHANGED pc
        PROVE  PhaseOK(pc'[r], job'[r]) /\ WalkOK(r, pc'[r], job'[r])
    BY <2>2, <2>4 DEF TypeOK, SetJob
  <2> QED BY <1>6, <2>3, <2>4 DEF WriteSnapshot
<1>4. CASE WriteTracked(r) /\ job[r].failed = {}
  <2>1. pc[r] = "track" /\ pc'[r] = "hash" /\ job' = job
    BY <1>4 DEF TypeOK, WriteTracked, Goto
  <2> QED BY <1>1, <1>4, <2>1 DEF PhaseOK, WalkOK, BeforeCheck, InWalk, InSteps
<1>5. CASE (WriteTracked(r) /\ job[r].failed # {}) \/ WriteHash(r)
  <2>1. pc[r] \in {"track", "hash"} /\ AfterExecute(r)
    BY <1>5 DEF WriteTracked, WriteHash
  <2> QED BY <1>1, <2>1, AfterExecuteLocal
<1> QED BY <1>2, <1>3, <1>4, <1>5, <1>6

LEMMA StepSettledLocal ==
  ASSUME TypeOK, NEW r \in Runs, NEW s, NEW p \in InSteps,
         PhaseOK(p, job[r]), WalkOK(r, p, job[r]), StepSettled(r, s)
  PROVE  PhaseOK(pc'[r], job'[r]) /\ WalkOK(r, pc'[r], job'[r])
<1>1. job[r] \in Jobs /\ pc'[r] = "steps" /\ job'[r] = [job[r] EXCEPT !.todo = @ \ {s}]
  BY DEF TypeOK, StepSettled, SetJob, Goto
<1> QED BY <1>1 DEF Jobs, PhaseOK, WalkOK, BeforeCheck, InWalk, InSteps

LEMMA StepThrowsLocal ==
  ASSUME TypeOK, NEW r \in Runs, NEW p \in InSteps,
         PhaseOK(p, job[r]), WalkOK(r, p, job[r]), StepThrows(r)
  PROVE  PhaseOK(pc'[r], job'[r]) /\ WalkOK(r, pc'[r], job'[r])
<1>1. job[r] \in Jobs
  BY DEF TypeOK
<1>2. CASE job[r].phase = "early" /\ ~job[r].match
  <2>1. /\ pc'[r] = "walk"
        /\ job'[r] = [job[r] EXCEPT !.stepError = TRUE, !.deferred = {}, !.pass = FALSE,
                       !.failed = @ \cup job[r].deferred]
    BY <1>2 DEF TypeOK, StepThrows, SetJob, Goto
  <2>2. /\ job'[r].stepError /\ job'[r].deferred = {} /\ ~job'[r].pass
        /\ job'[r].tables = job[r].tables /\ job'[r].drops = job[r].drops
        /\ job'[r].phase = job[r].phase /\ job'[r].match = job[r].match
        /\ job'[r].unread = job[r].unread
    BY <1>1, <2>1 DEF Jobs
  <2> QED BY <1>2, <2>1, <2>2 DEF PhaseOK, WalkOK, BeforeCheck, InWalk, InSteps
<1>3. CASE ~(job[r].phase = "early" /\ ~job[r].match)
  <2>1. pc'[r] = "finally" /\ job' = job
    BY <1>3 DEF TypeOK, StepThrows, Report, Goto
  <2> QED BY <2>1, EndsLocal
<1> QED BY <1>2, <1>3

LEMMA DataStepsLocal ==
  ASSUME TypeOK, LocalInv, NEW r \in Runs, ApplyDataSteps(r)
  PROVE  PhaseOK(pc'[r], job'[r]) /\ WalkOK(r, pc'[r], job'[r])
<1>1. pc[r] \in InSteps /\ PhaseOK(pc[r], job[r]) /\ WalkOK(r, pc[r], job[r])
  BY DEF LocalInv, ApplyDataSteps, StepsDone, StepBegin, StepRun, StepRecord, InSteps
<1>2. CASE pc'[r] = "finally" /\ job' = job
  BY <1>1, <1>2, EndsLocal
<1>3. CASE pc'[r] \in InSteps /\ job' = job
  BY <1>1, <1>3 DEF PhaseOK, WalkOK, BeforeCheck, InWalk, InSteps
<1>4. CASE \E s : StepSettled(r, s)
  BY <1>1, <1>4, StepSettledLocal
<1>5. CASE StepThrows(r)
  BY <1>1, <1>5, StepThrowsLocal
<1>6. CASE StepsDone(r)
  <2>1. CASE job[r].phase = "early" /\ ~job[r].match
    <3>1. pc'[r] = "deferred" /\ job' = job /\ job[r].todo \cap Early = {} /\ pc[r] = "steps"
      BY <1>6, <2>1 DEF TypeOK, StepsDone, Goto, Due
    <3> QED BY <1>1, <2>1, <3>1 DEF PhaseOK, WalkOK, BeforeCheck, InWalk, InSteps
  <2>2. CASE ~(job[r].phase = "early" /\ ~job[r].match)
    BY <1>2, <1>6, <2>2 DEF TypeOK, StepsDone, Report, Goto
  <2> QED BY <2>1, <2>2
<1>7. CASE StepBegin(r)
  <2>1. CASE Aborts(r)
    BY <1>2, <2>1 DEF TypeOK, Aborts, Report, Goto
  <2>2. CASE ~Aborts(r)
    BY <1>3, <1>4, <1>7, <2>2 DEF TypeOK, StepBegin, Goto, InSteps
  <2> QED BY <2>1, <2>2
<1>8. CASE StepRun(r)
  BY <1>3, <1>4, <1>5, <1>8 DEF TypeOK, StepRun, Goto, InSteps
<1>9. CASE StepRecord(r)
  BY <1>4, <1>9 DEF StepRecord
<1> QED BY <1>6, <1>7, <1>8, <1>9 DEF ApplyDataSteps

LEMMA EnvironmentLocal ==
  ASSUME TypeOK, LocalInv, NEW r \in Runs,
         LeaseExpires \/ UNCHANGED vars \/ Finally(r) \/ NoticeLoss(r) \/ Crash(r)
  PROVE  PhaseOK(pc'[r], job'[r]) /\ WalkOK(r, pc'[r], job'[r])
<1>1. job[r] \in Jobs /\ PhaseOK(pc[r], job[r]) /\ WalkOK(r, pc[r], job[r])
  BY DEF TypeOK, LocalInv
<1>2. CASE LeaseExpires \/ UNCHANGED vars
  BY <1>1, <1>2 DEF LeaseExpires, vars
<1>3. CASE Finally(r) \/ Crash(r)
  <2>1. pc'[r] \in {"done", "dead"} /\ job'[r] = NewJob
    BY <1>3 DEF TypeOK, Finally, Crash, Goto, SetJob
  <2> QED BY <2>1, NewJobLocal
<1>4. CASE NoticeLoss(r)
  <2>1. pc' = pc /\ job'[r] = [job[r] EXCEPT !.abort = TRUE]
    BY <1>4 DEF TypeOK, NoticeLoss, SetJob
  <2> QED BY <1>1, <2>1 DEF Jobs, PhaseOK, WalkOK, BeforeCheck, InWalk, InSteps
<1> QED BY <1>2, <1>3, <1>4

LEMMA LocalStep == TypeOK /\ LocalInv /\ [Next]_vars => LocalInv'
<1> SUFFICES ASSUME TypeOK, LocalInv, [Next]_vars, NEW q \in Runs
             PROVE  PhaseOK(pc'[q], job'[q]) /\ WalkOK(q, pc'[q], job'[q])
  BY DEF LocalInv, WalkOK, Inventory
<1>1. CASE LeaseExpires \/ UNCHANGED vars
  BY <1>1, EnvironmentLocal
<1>2. ASSUME NEW r \in Runs, Run(r) \/ NoticeLoss(r) \/ Crash(r), q # r
      PROVE  PhaseOK(pc'[q], job'[q]) /\ WalkOK(q, pc'[q], job'[q])
  BY <1>2, OthersStay DEF LocalInv
<1>3. CASE Run(q) \/ NoticeLoss(q) \/ Crash(q)
  BY <1>3, EnvironmentLocal, AcquireLocal, DoubleCheckLocal, DiscoverLocal, TableLocal,
     DeferredLocal, DropLocal, PersistLocal, DataStepsLocal DEF Run, Execute
<1> QED BY <1>1, <1>2, <1>3 DEF Next

-----------------------------------------------------------------------------
(* The column statements *)

(* What the steps of a run leave alone: all of them the adapter's kind and *)
(* the lost leases, all but four the tables, all but one the snapshots.    *)
LEMMA QuietSchema ==
  ASSUME NEW r \in Runs, Run(r) \/ NoticeLoss(r) \/ Crash(r)
  PROVE  /\ keying' = keying /\ lost' = lost
         /\ \/ UNCHANGED <<live, keyed, indexed>>
            \/ TableStatement(r) \/ TableConstraints(r) \/ DeferredConstraints(r) \/ DropRemoved(r)
         /\ snapshot' = snapshot \/ WriteSnapshot(r)
         /\ hash' = hash \/ WriteHash(r)
<1>1. CASE AcquireLock(r) \/ DoubleCheck(r) \/ DiscoverTracked(r) \/ Introspect(r)
           \/ Finally(r) \/ NoticeLoss(r) \/ Crash(r)
  BY <1>1 DEF AcquireLock, QuickHash, QuickSteps, TryAcquire, LockWait, PeerHash, PeerSteps,
              DoubleCheck, DiscoverTracked, Introspect, Finally, NoticeLoss, Crash, counters
<1>2. CASE BeginTable(r) \/ TableStatement(r) \/ TableConstraints(r) \/ BeginDeferred(r)
           \/ DeferredConstraints(r) \/ DropRemoved(r)
  BY <1>2 DEF BeginTable, TableStatement, TableConstraints, BeginDeferred, DeferredConstraints,
              DropRemoved, counters
<1>3. CASE EndWalk(r) \/ WriteSnapshot(r) \/ WriteTracked(r) \/ WriteHash(r)
  BY <1>3 DEF EndWalk, WriteSnapshot, WriteTracked, WriteHash, counters
<1>4. CASE ApplyDataSteps(r)
  BY <1>4 DEF ApplyDataSteps, StepsDone, StepBegin, StepRun, StepRecord, counters
<1> QED BY <1>1, <1>2, <1>3, <1>4 DEF Run, Execute

LEMMA QuietEnvironment ==
  ASSUME LeaseExpires \/ UNCHANGED vars
  PROVE  UNCHANGED <<hash, tracked, snapshot, schema, keying, live, keyed, indexed, steps, recorded, pc, job, status>>
BY DEF LeaseExpires, vars, steps

LEMMA SameOps ==
  ASSUME NEW r \in Runs, NEW t, keying' = keying,
         job'[r].seen = job[r].seen, job'[r].stored = job[r].stored
  PROVE  ColumnOps(r, t)' = ColumnOps(r, t)
BY DEF ColumnOps, KeysDiffer, StaleKeys

LEMMA OpsOfRun ==
  ASSUME TypeOK, NEW r \in Runs, Run(r) \/ NoticeLoss(r) \/ Crash(r), OpsInv, pc'[r] = "table",
         keying' = keying, NEW t \in Tables, AtTable(r, t)'
  PROVE  job'[r].ops \subseteq ColumnOps(r, t)'
<1>1. job[r] \in Jobs
  BY DEF TypeOK
<1>2. \A ops : job'[r] = [job[r] EXCEPT !.ops = ops] =>
        /\ job'[r].tables = job[r].tables /\ job'[r].ops = ops
        /\ ColumnOps(r, t)' = ColumnOps(r, t)
  <2>1. ASSUME NEW ops, job'[r] = [job[r] EXCEPT !.ops = ops]
        PROVE  /\ job'[r].tables = job[r].tables /\ job'[r].ops = ops
               /\ job'[r].seen = job[r].seen /\ job'[r].stored = job[r].stored
    BY <1>1, <2>1 DEF Jobs
  <2> QED BY <2>1, SameOps
<1>3. CASE BeginTable(r)
  <2>1. PICK u \in Tables : AtTable(r, u) /\ job'[r] = [job[r] EXCEPT !.ops = ColumnOps(r, u)]
    BY <1>3 DEF TypeOK, BeginTable, ColumnsDone, Aborts, Report, Goto, SetJob
  <2>2. AtTable(r, t)
    BY <1>2, <2>1 DEF AtTable
  <2>3. u = t
    BY <2>1, <2>2, OneTable
  <2> QED BY <1>2, <2>1, <2>3
<1>4. CASE TableStatement(r)
  <2>1. PICK u \in Tables, o \in job[r].ops :
          LET j == [job[r] EXCEPT !.ops = job[r].ops \ {o}]
          IN  \/ IF j.ops = {} THEN ColumnsDone(r, u, j) ELSE SetJob(r, j) /\ Goto(r, "table")
              \/ TableFails(r, u)
    BY <1>4 DEF TableStatement
  <2>2. job'[r] = [job[r] EXCEPT !.ops = job[r].ops \ {o}]
    BY <2>1 DEF TypeOK, ColumnsDone, TableFails, Goto, SetJob
  <2>3. AtTable(r, t)
    BY <1>2, <2>2 DEF AtTable
  <2> QED BY <1>2, <1>4, <2>2, <2>3 DEF OpsInv, TableStatement
<1>5. CASE NoticeLoss(r)
  <2>1. job'[r] = [job[r] EXCEPT !.abort = TRUE] /\ pc' = pc
    BY <1>5 DEF TypeOK, NoticeLoss, SetJob
  <2>2. /\ job'[r].tables = job[r].tables /\ job'[r].ops = job[r].ops
        /\ job'[r].seen = job[r].seen /\ job'[r].stored = job[r].stored
    BY <1>1, <2>1 DEF Jobs
  <2>3. AtTable(r, t)
    BY <2>2 DEF AtTable
  <2>4. ColumnOps(r, t)' = ColumnOps(r, t)
    BY <2>2, SameOps
  <2>5. job[r].ops \subseteq ColumnOps(r, t)
    BY <2>1, <2>3 DEF OpsInv
  <2> QED BY <2>2, <2>4, <2>5
<1>6. ASSUME AcquireLock(r) \/ DoubleCheck(r) \/ DiscoverTracked(r) \/ Introspect(r) \/ Finally(r) \/ Crash(r)
      PROVE  FALSE
  BY <1>6 DEF TypeOK, AcquireLock, QuickHash, QuickSteps, TryAcquire, LockWait, PeerHash, PeerSteps,
       DoubleCheck, DiscoverTracked, Introspect, Finally, Crash, Aborts, Report, Goto
<1>7. ASSUME TableConstraints(r) \/ BeginDeferred(r) \/ DeferredConstraints(r) \/ DropRemoved(r)
               \/ EndWalk(r) \/ WriteSnapshot(r) \/ WriteTracked(r) \/ WriteHash(r)
      PROVE  FALSE
  BY <1>7 DEF TypeOK, TableConstraints, BeginDeferred, DeferredConstraints, DropRemoved, EndWalk,
       WriteSnapshot, WriteTracked, WriteHash, AfterExecute, SyncConstraints, TableFails, Aborts, Report, Goto
<1>8. ASSUME ApplyDataSteps(r)
      PROVE  FALSE
  BY <1>8 DEF TypeOK, ApplyDataSteps, StepsDone, StepBegin, StepRun, StepRecord, StepSettled,
       StepThrows, Aborts, Report, Goto
<1> QED BY <1>3, <1>4, <1>5, <1>6, <1>7, <1>8 DEF Run, Execute

LEMMA OpsStep == TypeOK /\ OpsInv /\ [Next]_vars => OpsInv'
<1> SUFFICES ASSUME TypeOK, OpsInv, [Next]_vars, NEW q \in Runs, pc'[q] = "table",
                    NEW t \in Tables, AtTable(q, t)'
             PROVE  job'[q].ops \subseteq ColumnOps(q, t)'
  BY DEF OpsInv
<1>1. keying' = keying
  BY QuietSchema, QuietEnvironment DEF Next
<1>2. CASE pc'[q] = pc[q] /\ job'[q] = job[q]
  <2>1. ColumnOps(q, t)' = ColumnOps(q, t) /\ AtTable(q, t)
    BY <1>1, <1>2, SameOps DEF AtTable
  <2> QED BY <1>2, <2>1 DEF OpsInv
<1>3. CASE LeaseExpires \/ UNCHANGED vars
  BY <1>2, <1>3, QuietEnvironment
<1>4. ASSUME NEW r \in Runs, Run(r) \/ NoticeLoss(r) \/ Crash(r)
      PROVE  job'[q].ops \subseteq ColumnOps(q, t)'
  BY <1>1, <1>2, <1>4, OthersStay, OpsOfRun
<1> QED BY <1>3, <1>4 DEF Next

LEMMA StatementOf ==
  ASSUME OpsInv, NEW r \in Runs, TableStatement(r)
  PROVE  \E t \in Tables : \E op \in ColumnOps(r, t) :
           AtTable(r, t) /\ ((Executes(t, op) /\ Effect(r, t, op)) \/ UNCHANGED <<live, keyed, indexed>>)
BY DEF OpsInv, TableStatement

-----------------------------------------------------------------------------
(* What a step keeps *)

(* Between two jobs of a run that walks its tables: what it has read stays,*)
(* what is left to do shrinks, what has gone wrong grows.                  *)
Walked(j, k) ==
  /\ k.unread = j.unread /\ k.match = j.match /\ k.todo = j.todo /\ k.phase = j.phase
  /\ k.prev = j.prev /\ k.seen = j.seen /\ k.stored = j.stored /\ k.stepError = j.stepError
  /\ k.tables \subseteq j.tables /\ k.drops \subseteq j.drops
  /\ j.failed \subseteq k.failed /\ j.retained \subseteq k.retained

(* Visiting the tables it wants, it also keeps the removed ones.           *)
Visited(j, k) == Walked(j, k) /\ k.drops = j.drops /\ k.retained = j.retained

LEMMA ColumnsDoneKeeps ==
  ASSUME TypeOK, NEW r \in Runs, NEW t, NEW ops, ColumnsDone(r, t, [job[r] EXCEPT !.ops = ops])
  PROVE  Visited(job[r], job'[r])
<1>1. job[r] \in Jobs
  BY DEF TypeOK
<1>2. CASE EarlyTodo(r) # {}
  <2>1. job'[r] = [[job[r] EXCEPT !.ops = ops] EXCEPT !.deferred = @ \cup {t}, !.tables = @ \ {t}]
    BY <1>2 DEF TypeOK, ColumnsDone, SetJob
  <2> QED BY <1>1, <2>1 DEF Jobs, Visited, Walked
<1>3. CASE EarlyTodo(r) = {}
  <2>1. job'[r] = [job[r] EXCEPT !.ops = ops]
    BY <1>3 DEF TypeOK, ColumnsDone, SetJob
  <2> QED BY <1>1, <2>1 DEF Jobs, Visited, Walked
<1> QED BY <1>2, <1>3

LEMMA TableFailsKeeps ==
  ASSUME TypeOK, NEW r \in Runs, NEW t, TableFails(r, t)
  PROVE  Visited(job[r], job'[r])
<1>1. job[r] \in Jobs
  BY DEF TypeOK
<1>2. job'[r] = [job[r] EXCEPT !.failed = @ \cup {t}, !.ops = {}, !.tables = @ \ {t}]
  BY DEF TypeOK, TableFails, SetJob
<1> QED BY <1>1, <1>2 DEF Jobs, Visited, Walked

LEMMA TableKeeps ==
  ASSUME TypeOK, NEW r \in Runs, BeginTable(r) \/ TableStatement(r) \/ TableConstraints(r)
  PROVE  Visited(job[r], job'[r])
<1>1. job[r] \in Jobs
  BY DEF TypeOK
<1>2. \A ops : SetJob(r, [job[r] EXCEPT !.ops = ops]) =>
        Visited(job[r], job'[r])
  BY <1>1 DEF TypeOK, SetJob, Jobs, Visited, Walked
<1>3. CASE BeginTable(r)
  <2>1. CASE Aborts(r)
    BY <2>1 DEF Aborts, Visited, Walked
  <2>2. CASE ~Aborts(r)
    <3>1. PICK t \in Tables :
            LET ops == ColumnOps(r, t)
            IN  IF ops = {} THEN ColumnsDone(r, t, job[r])
                ELSE SetJob(r, [job[r] EXCEPT !.ops = ops])
      BY <1>3, <2>2 DEF BeginTable
    <3>2. job[r] = [job[r] EXCEPT !.ops = {}]
      BY <1>1, <1>3 DEF BeginTable, TypeOK, Jobs
    <3> QED BY <1>2, <3>1, <3>2, ColumnsDoneKeeps
  <2> QED BY <2>1, <2>2
<1>4. CASE TableStatement(r)
  <2>1. PICK t \in Tables, op \in job[r].ops :
          LET j == [job[r] EXCEPT !.ops = job[r].ops \ {op}]
          IN  \/ ColumnsDone(r, t, j) \/ SetJob(r, j) \/ TableFails(r, t)
    BY <1>4 DEF TableStatement
  <2> QED BY <1>2, <2>1, ColumnsDoneKeeps, TableFailsKeeps
<1>5. CASE TableConstraints(r)
  <2>1. PICK t \in Tables :
          SetJob(r, [job[r] EXCEPT !.tables = @ \ {t}]) \/ TableFails(r, t)
    BY <1>5 DEF TableConstraints, SyncConstraints
  <2>2. CASE SetJob(r, [job[r] EXCEPT !.tables = @ \ {t}])
    BY <1>1, <2>2 DEF TypeOK, SetJob, Jobs, Visited, Walked
  <2> QED BY <2>1, <2>2, TableFailsKeeps
<1> QED BY <1>3, <1>4, <1>5

LEMMA DeferredKeeps ==
  ASSUME TypeOK, NEW r \in Runs, BeginDeferred(r) \/ DeferredConstraints(r)
  PROVE  Visited(job[r], job'[r])
<1>1. job[r] \in Jobs
  BY DEF TypeOK
<1>2. CASE UNCHANGED job
  BY <1>2 DEF Visited, Walked
<1>3. CASE SetJob(r, [job[r] EXCEPT !.pass = FALSE])
  BY <1>1, <1>3 DEF TypeOK, SetJob, Jobs, Visited, Walked
<1>4. ASSUME NEW t, SetJob(r, [job[r] EXCEPT !.deferred = @ \ {t}])
      PROVE  Visited(job[r], job'[r])
  BY <1>1, <1>4 DEF TypeOK, SetJob, Jobs, Visited, Walked
<1>5. ASSUME NEW t, SetJob(r, [[job[r] EXCEPT !.deferred = @ \ {t}] EXCEPT !.failed = @ \cup {t}])
      PROVE  Visited(job[r], job'[r])
  BY <1>1, <1>5 DEF TypeOK, SetJob, Jobs, Visited, Walked
<1>6. CASE BeginDeferred(r)
  BY <1>2, <1>3, <1>6 DEF BeginDeferred, Aborts
<1>7. CASE DeferredConstraints(r)
  BY <1>2, <1>3, <1>4, <1>5, <1>7 DEF DeferredConstraints, SyncConstraints, Aborts
<1> QED BY <1>6, <1>7

LEMMA DropKeeps ==
  ASSUME TypeOK, NEW r \in Runs, DropRemoved(r)
  PROVE  /\ Walked(job[r], job'[r])
         /\ \A t \in job[r].drops : t \in job'[r].drops \cup job'[r].retained \/ live'[t] = {}
<1>1. job[r] \in Jobs
  BY DEF TypeOK
<1>2. PICK t \in Tables :
        /\ t \in job[r].drops
        /\ \/ UNCHANGED job
           \/ /\ job'[r] = [job[r] EXCEPT !.drops = @ \ {t}]
              /\ live'[t] = {}
           \/ job'[r] = [[job[r] EXCEPT !.drops = @ \ {t}] EXCEPT !.retained = @ \cup {t}]
           \/ job'[r] = [[[job[r] EXCEPT !.drops = @ \ {t}] EXCEPT !.retained = @ \cup {t}]
                           EXCEPT !.failed = @ \cup {t}]
  BY ZenonT(60) DEF TypeOK, DropRemoved, AtDrop, IsLast, SetJob, Aborts
<1>3. CASE UNCHANGED job
  BY <1>3 DEF Walked
<1>4. CASE job'[r] = [job[r] EXCEPT !.drops = @ \ {t}] /\ live'[t] = {}
  BY <1>1, <1>4 DEF Jobs, Walked
<1>5. CASE job'[r] = [[job[r] EXCEPT !.drops = @ \ {t}] EXCEPT !.retained = @ \cup {t}]
  BY <1>1, <1>5 DEF Jobs, Walked
<1>6. CASE job'[r] = [[[job[r] EXCEPT !.drops = @ \ {t}] EXCEPT !.retained = @ \cup {t}]
                         EXCEPT !.failed = @ \cup {t}]
  BY <1>1, <1>6 DEF Jobs, Walked
<1> QED BY <1>2, <1>3, <1>4, <1>5, <1>6

(* A record is never removed (sync-store.ts runOnce).                      *)
LEMMA RecordsStay == TypeOK /\ [Next]_vars => recorded \subseteq recorded'
<1> SUFFICES ASSUME TypeOK, [Next]_vars
             PROVE  recorded \subseteq recorded'
  OBVIOUS
<1>1. CASE LeaseExpires \/ UNCHANGED vars
  BY <1>1 DEF LeaseExpires, vars, steps
<1>2. ASSUME NEW r \in Runs, AcquireLock(r) \/ DoubleCheck(r) \/ DiscoverTracked(r) \/ Introspect(r)
      PROVE  recorded \subseteq recorded'
  BY <1>2 DEF AcquireLock, QuickHash, QuickSteps, TryAcquire, LockWait, PeerHash, PeerSteps,
              DoubleCheck, DiscoverTracked, Introspect, steps
<1>3. ASSUME NEW r \in Runs, Execute(r)
      PROVE  recorded \subseteq recorded'
  BY <1>3 DEF Execute, BeginTable, TableStatement, TableConstraints, BeginDeferred,
              DeferredConstraints, DropRemoved, EndWalk, WriteSnapshot, WriteTracked, WriteHash, steps
<1>4. ASSUME NEW r \in Runs, ApplyDataSteps(r)
      PROVE  recorded \subseteq recorded'
  BY <1>4 DEF ApplyDataSteps, StepsDone, StepBegin, StepRun, StepRecord, steps
<1>5. ASSUME NEW r \in Runs, Finally(r) \/ NoticeLoss(r) \/ Crash(r)
      PROVE  recorded \subseteq recorded'
  BY <1>5 DEF Finally, NoticeLoss, Crash, steps
<1> QED BY <1>1, <1>2, <1>3, <1>4, <1>5 DEF Next, Run

(* A run's list loses a step only once it is recorded.                     *)
LEMMA ListOfRun ==
  ASSUME TypeOK, LocalInv, ListInv, NEW r \in Runs, Run(r) \/ NoticeLoss(r) \/ Crash(r),
         recorded \subseteq recorded', "steps" \notin job'[r].unread
  PROVE  StepIds \subseteq recorded' \cup job'[r].todo
<1>1. job[r] \in Jobs /\ WalkOK(r, pc[r], job[r])
  BY DEF TypeOK, LocalInv
<1>2. CASE job'[r].unread = job[r].unread /\ job'[r].todo = job[r].todo
  BY <1>2 DEF ListInv
<1>3. ASSUME NEW s \in recorded', StepSettled(r, s)
      PROVE  StepIds \subseteq recorded' \cup job'[r].todo
  <2>1. job'[r] = [job[r] EXCEPT !.todo = @ \ {s}]
    BY <1>3 DEF TypeOK, StepSettled, SetJob
  <2>2. job'[r].unread = job[r].unread /\ job'[r].todo = job[r].todo \ {s}
    BY <1>1, <2>1 DEF Jobs
  <2> QED BY <1>3, <2>2 DEF ListInv
<1>4. CASE AcquireLock(r)
  BY <1>2, <1>4 DEF AcquireLock, QuickHash, QuickSteps, TryAcquire, LockWait, PeerHash, PeerSteps
<1>12. CASE Finally(r) \/ Crash(r)
  <2>1. job'[r] = NewJob
    BY <1>12 DEF TypeOK, Finally, Crash, SetJob
  <2> QED BY <2>1 DEF NewJob
<1>5. CASE DoubleCheck(r)
  <2>1. PICK q \in job[r].unread : job'[r] = [job[r] EXCEPT
             !.unread = @ \ {q},
             !.todo = IF q = "steps" THEN StepIds \ recorded ELSE @,
             !.match = IF q = "hash" THEN r \notin ForceRuns /\ hash = Carries[r] ELSE @]
    BY <1>5 DEF DoubleCheck, TypeOK, SetJob
  <2>2. /\ job'[r].unread = job[r].unread \ {q}
        /\ job'[r].todo = IF q = "steps" THEN StepIds \ recorded ELSE job[r].todo
    BY <1>1, <2>1 DEF Jobs
  <2> QED BY <2>2 DEF ListInv
<1>6. CASE DiscoverTracked(r) \/ Introspect(r) \/ NoticeLoss(r)
  <2>1. CASE UNCHANGED job
    BY <1>2, <2>1
  <2>2. CASE \/ job'[r] = [job[r] EXCEPT !.prev = tracked]
             \/ job'[r] = [OrderedSteps(r) EXCEPT !.seen = live, !.stored = snapshot, !.phase = "early"]
             \/ job'[r] = [job[r] EXCEPT !.abort = TRUE]
    BY ZenonT(60), <1>1, <1>2, <2>2 DEF OrderedSteps, Jobs
  <2> QED BY <1>6, <2>1, <2>2 DEF TypeOK, DiscoverTracked, Introspect, NoticeLoss, Aborts, SetJob
<1>7. CASE BeginTable(r) \/ TableStatement(r) \/ TableConstraints(r) \/ BeginDeferred(r)
           \/ DeferredConstraints(r) \/ DropRemoved(r)
  BY <1>2, <1>7, TableKeeps, DeferredKeeps, DropKeeps DEF Visited, Walked
<1>8. ASSUME AfterExecute(r), pc[r] \in {"track", "hash"}
      PROVE  StepIds \subseteq recorded' \cup job'[r].todo
  <2>1. CASE job[r].failed = {} /\ ~job[r].stepError
    <3>1. job'[r] = [job[r] EXCEPT !.phase = "late", !.todo = LateTodo(r)]
      BY <1>8, <2>1 DEF TypeOK, AfterExecute, SetJob
    <3>2. LateTodo(r) = job[r].todo
      BY <1>1, <1>8, <2>1 DEF WalkOK, LateTodo
    <3> QED BY <1>1, <1>2, <3>1, <3>2 DEF Jobs
  <2>2. CASE ~(job[r].failed = {} /\ ~job[r].stepError)
    BY <1>2, <1>8, <2>2 DEF AfterExecute
  <2> QED BY <2>1, <2>2
<1>13. ASSUME NEW S, SetJob(r, [job[r] EXCEPT !.unsaved = S])
       PROVE  StepIds \subseteq recorded' \cup job'[r].todo
  BY <1>1, <1>2, <1>13 DEF TypeOK, SetJob, Jobs
<1>14. CASE EndWalk(r) \/ WriteSnapshot(r)
  BY <1>2, <1>13, <1>14 DEF EndWalk, WriteSnapshot, Aborts
<1>9. CASE WriteTracked(r) \/ WriteHash(r)
  BY <1>2, <1>8, <1>9 DEF WriteTracked, WriteHash
<1>10. ASSUME StepThrows(r)
       PROVE  StepIds \subseteq recorded' \cup job'[r].todo
  <2>1. CASE UNCHANGED job
    BY <1>2, <2>1
  <2>2. CASE job'[r] = [job[r] EXCEPT !.stepError = TRUE, !.deferred = {}, !.pass = FALSE,
                          !.failed = @ \cup job[r].deferred]
    BY <1>1, <1>2, <2>2 DEF Jobs
  <2> QED BY <1>10, <2>1, <2>2 DEF TypeOK, StepThrows, SetJob
<1>11. CASE ApplyDataSteps(r)
  <2>1. CASE UNCHANGED job
    BY <1>2, <2>1
  <2>2. CASE StepThrows(r) \/ \E s \in recorded' : StepSettled(r, s)
    BY <1>3, <1>10, <2>2
  <2> QED BY <1>11, <2>1, <2>2 DEF ApplyDataSteps, StepsDone, StepBegin, StepRun, StepRecord, Aborts
<1> QED BY <1>4, <1>5, <1>6, <1>7, <1>9, <1>11, <1>12, <1>14 DEF Run, Execute

LEMMA ListStep == TypeOK /\ LocalInv /\ ListInv /\ [Next]_vars => ListInv'
<1> SUFFICES ASSUME TypeOK, LocalInv, ListInv, [Next]_vars, NEW q \in Runs, "steps" \notin job'[q].unread
             PROVE  StepIds \subseteq recorded' \cup job'[q].todo
  BY DEF ListInv
<1>1. recorded \subseteq recorded'
  BY RecordsStay
<1>2. CASE LeaseExpires \/ UNCHANGED vars
  BY <1>1, <1>2 DEF LeaseExpires, vars, ListInv
<1>3. ASSUME NEW r \in Runs, Run(r) \/ NoticeLoss(r) \/ Crash(r), q # r
      PROVE  StepIds \subseteq recorded' \cup job'[q].todo
  BY <1>1, <1>3, OthersStay DEF ListInv
<1> QED BY <1>1, <1>2, <1>3, ListOfRun DEF Next

LEMMA RunsAreWhereTheyAre == Spec => [](TypeOK /\ LocalInv /\ ListInv /\ OpsInv)
<1>1. Init => TypeOK /\ LocalInv /\ ListInv /\ OpsInv
  BY InitType, LocalInit DEF Init, OpsInv
<1>2. (TypeOK /\ LocalInv /\ ListInv /\ OpsInv) /\ [Next]_vars => (TypeOK /\ LocalInv /\ ListInv /\ OpsInv)'
  BY StepType, LocalStep, ListStep, OpsStep
<1> QED BY <1>1, <1>2, PTL DEF Spec

-----------------------------------------------------------------------------
(* The early steps *)

(* The statements of a table give keys only to a table they create or      *)
(* rebuild.                                                                *)
LEMMA StatementKeys ==
  ASSUME TypeOK, OpsInv, NEW r \in Runs, TableStatement(r), NEW u \in Tables
  PROVE  /\ indexed'[u] \in {indexed[u], "none"}
         /\ keyed'[u] \subseteq keyed[u] \/ live[u] = {} \/ (keying = "recreate" /\ indexed'[u] = "none")
<1>0. PICK t \in Tables : \E op \in ColumnOps(r, t) :
        Effect(r, t, op) \/ UNCHANGED <<live, keyed, indexed>>
  BY StatementOf
<1>1. PICK op \in ColumnOps(r, t) : Effect(r, t, op) \/ UNCHANGED <<live, keyed, indexed>>
  BY <1>0
<1>2. CASE UNCHANGED <<live, keyed, indexed>>
  BY <1>2
<1>3. CASE Effect(r, t, op)
  <2>1. op[1] = "recreate" => keying = "recreate"
    BY DEF ColumnOps
  <2>2. indexed' = [indexed EXCEPT ![t] = IF op[1] = "recreate" THEN "none" ELSE @]
    BY <1>3 DEF Effect
  <2>3. CASE op[1] = "recreate"
    BY <1>3, <2>1, <2>2, <2>3 DEF TypeOK, Effect
  <2>4. CASE op[1] = "create" /\ live[t] = {}
    BY <1>3, <2>2, <2>4 DEF TypeOK, Effect
  <2>5. CASE op[1] # "recreate" /\ ~(op[1] = "create" /\ live[t] = {})
    <3>1. \/ keyed' = [keyed EXCEPT ![t] = @ \ StaleKeys(r, t)]
          \/ keyed' = [keyed EXCEPT ![t] = @]
      BY <1>3, <2>5 DEF Effect
    <3> QED BY <2>2, <2>5, <3>1 DEF TypeOK
  <2> QED BY <2>3, <2>4, <2>5
<1> QED BY <1>1, <1>2, <1>3

LEMMA EarlyFirstStep ==
  ASSUME TypeOK, LocalInv, ListInv, OpsInv, [Next]_vars, \A r \in Runs : job[r].failed = {},
         NEW u \in Tables
  PROVE  \/ Early \subseteq recorded
         \/ /\ indexed'[u] \in {indexed[u], "none"}
            /\ keyed'[u] \subseteq keyed[u] \/ live[u] = {} \/ (keying = "recreate" /\ indexed'[u] = "none")
<1>1. ASSUME NEW r \in Runs, job[r].todo \cap Early = {}, job[r].unread = {}
      PROVE  Early \subseteq recorded
  BY <1>1, ConstantTypes DEF ListInv
<1>2. CASE UNCHANGED <<live, keyed, indexed>>
  BY <1>2
<1>3. ASSUME NEW r \in Runs, TableConstraints(r) \/ DeferredConstraints(r)
      PROVE  Early \subseteq recorded
  BY <1>1, <1>3 DEF LocalInv, WalkOK, PhaseOK, TableConstraints, DeferredConstraints, InWalk
<1>4. ASSUME NEW r \in Runs, DropRemoved(r)
      PROVE  indexed'[u] \in {indexed[u], "none"} /\ keyed'[u] \subseteq keyed[u]
  BY <1>4 DEF TypeOK, DropRemoved
<1> QED BY <1>2, <1>3, <1>4, StatementKeys, QuietSchema, QuietEnvironment DEF Next

(* With no errored table, no table gets the indexes of a version, nor a    *)
(* key it had not, before every beforeConstraints step is recorded, unless *)
(* sync creates the table or rebuilds it (schema-sync.ts:1862-1892,        *)
(* sync-executor.ts:322, 350).                                             *)
THEOREM EarlyFirst == Spec => EarlyStepsFirstUnlessFailed
<1>1. TypeOK /\ LocalInv /\ ListInv /\ OpsInv /\ [Next]_vars =>
        [(\A r \in Runs : job[r].failed = {}) =>
           \A t \in Tables :
             /\ indexed'[t] \notin {indexed[t], "none"} => Early \subseteq recorded
             /\ keyed'[t] \subseteq keyed[t] \/ Early \subseteq recorded
                  \/ live[t] = {} \/ (keying = "recreate" /\ indexed'[t] = "none")]_vars
  BY EarlyFirstStep
<1> QED BY <1>1, RunsAreWhereTheyAre, PTL DEF Spec, EarlyStepsFirstUnlessFailed

-----------------------------------------------------------------------------
(* Removed tables *)

(* A foreign table is never created or filled.                             *)
LEMMA ForeignShrinks ==
  ASSUME TypeOK, LocalInv, [Next]_vars, NEW t \in Foreign
  PROVE  live'[t] # {} => live'[t] = live[t]
<1>1. t \in Tables /\ \A r \in Runs : t \notin job[r].tables
  BY DEF Foreign, LocalInv, WalkOK
<1>3. ASSUME NEW r \in Runs, TableStatement(r)
      PROVE  live'[t] # {} => live'[t] = live[t]
  BY <1>1, <1>3 DEF TypeOK, TableStatement, Effect, AtTable, IsFirst
<1>4. ASSUME NEW r \in Runs, DropRemoved(r)
      PROVE  live'[t] # {} => live'[t] = live[t]
  BY <1>1, <1>4 DEF TypeOK, DropRemoved
<1>5. ASSUME NEW r \in Runs, TableConstraints(r) \/ DeferredConstraints(r)
      PROVE  live' = live
  BY <1>5 DEF TableConstraints, DeferredConstraints
<1> QED BY <1>3, <1>4, <1>5, QuietSchema, QuietEnvironment DEF Next

LEMMA RunRemembers ==
  ASSUME TypeOK, LocalInv, NEW r \in Runs, Run(r) \/ NoticeLoss(r) \/ Crash(r),
         NEW t \in Foreign, live'[t] # {}, t \in tracked, Remembers(pc[r], job[r], t)
  PROVE  t \in tracked' /\ Remembers(pc'[r], job'[r], t)
<1>1. /\ job[r] \in Jobs /\ PhaseOK(pc[r], job[r]) /\ WalkOK(r, pc[r], job[r])
      /\ t \in Tables /\ t \notin Inventory(r)
  BY DEF TypeOK, LocalInv, Foreign
<1>2. CASE AcquireLock(r)
  BY ZenonT(60), <1>1, <1>2 DEF TypeOK, AcquireLock, QuickHash, QuickSteps, TryAcquire, LockWait, PeerHash,
                    PeerSteps, Report, Goto, Remembers, InSteps
<1>3. CASE Finally(r) \/ Crash(r)
  BY <1>3 DEF TypeOK, Finally, Crash, Goto, Remembers, InSteps
<1>4. CASE DoubleCheck(r)
  <2>1. PICK q \in job[r].unread :
          LET j == [job[r] EXCEPT
             !.unread = @ \ {q},
             !.todo = IF q = "steps" THEN StepIds \ recorded ELSE @,
             !.match = IF q = "hash" THEN r \notin ForceRuns /\ hash = Carries[r] ELSE @]
          IN  job'[r] = j /\ pc'[r] \in {"check", "steps", "tracking"}
    BY <1>4 DEF TypeOK, DoubleCheck, SetJob, Goto
  <2>2. job'[r].phase = "late"
    BY <1>1, <1>4, <2>1 DEF Jobs, PhaseOK, BeforeCheck, DoubleCheck
  <2> QED BY <1>4, <2>1, <2>2 DEF Remembers, InSteps, DoubleCheck
<1>5. CASE DiscoverTracked(r)
  BY <1>1, <1>5 DEF TypeOK, DiscoverTracked, SetJob, Goto, Jobs, Remembers, InSteps
<1>6. CASE pc'[r] = "finally" /\ UNCHANGED tracked
  BY <1>6 DEF Remembers, InSteps
<1>7. CASE Introspect(r) /\ pc'[r] # "finally"
  <2>1. /\ pc'[r] = "walk" /\ pc[r] = "introspect"
        /\ job'[r] = [OrderedSteps(r) EXCEPT !.seen = live, !.stored = snapshot, !.phase = "early"]
    BY <1>7 DEF TypeOK, Introspect, Aborts, Report, Goto, SetJob
  <2>2. job'[r].drops = job[r].prev \ Inventory(r)
    BY <1>1, <2>1 DEF Jobs, OrderedSteps
  <2> QED BY <1>1, <1>7, <2>1, <2>2 DEF Remembers, InSteps, Introspect
<1>8. CASE BeginTable(r) \/ TableStatement(r) \/ TableConstraints(r) \/ BeginDeferred(r)
           \/ DeferredConstraints(r)
  <2>1. CASE pc'[r] = "finally"
    BY <1>6, <1>8, <2>1 DEF BeginTable, TableStatement, TableConstraints, BeginDeferred, DeferredConstraints
  <2>2. CASE pc'[r] # "finally"
    <3>1. /\ pc[r] \in {"walk", "table", "constraints", "deferred"} /\ tracked' = tracked
          /\ pc'[r] \in {"walk", "table", "constraints", "deferred", "steps"}
      BY <1>8, <2>2 DEF TypeOK, BeginTable, TableStatement, TableConstraints, BeginDeferred,
           DeferredConstraints, Aborts, Report, ColumnsDone, TableFails, SyncConstraints, Goto
    <3>2. /\ job'[r].drops \cup job'[r].retained = job[r].drops \cup job[r].retained
      <4>1. job'[r].drops = job[r].drops /\ job'[r].retained = job[r].retained
        BY <1>8, TableKeeps, DeferredKeeps DEF Visited
      <4> QED BY <4>1
    <3> QED BY <3>1, <3>2 DEF Remembers, InSteps
  <2> QED BY <2>1, <2>2
<1>9. CASE DropRemoved(r)
  <2>1. CASE pc'[r] = "finally"
    BY <1>6, <1>9, <2>1 DEF DropRemoved
  <2>2. CASE pc'[r] # "finally"
    <3>1. pc[r] = "walk" /\ pc'[r] = "walk" /\ tracked' = tracked
      BY <1>9, <2>2 DEF TypeOK, DropRemoved, Aborts, Report, Goto
    <3> QED BY <1>9, <3>1, DropKeeps DEF Remembers, InSteps, Walked
  <2> QED BY <2>1, <2>2
<1>10. CASE (EndWalk(r) /\ pc'[r] # "finally") \/ WriteSnapshot(r)
  <2>1. ASSUME NEW S, SetJob(r, [job[r] EXCEPT !.unsaved = S])
        PROVE  job'[r].retained = job[r].retained
    BY <1>1, <2>1 DEF TypeOK, SetJob, Jobs
  <2>2. CASE EndWalk(r) /\ pc'[r] # "finally"
    <3>1. /\ pc[r] = "walk" /\ pc'[r] = "snapshots" /\ job[r].drops = {} /\ tracked' = tracked
          /\ job'[r].retained = job[r].retained
      BY <2>1, <2>2 DEF TypeOK, EndWalk, Aborts, Report, Goto, AtEnd
    <3> QED BY <3>1 DEF Remembers, InSteps
  <2>3. CASE WriteSnapshot(r)
    <3>1. /\ pc[r] = "snapshots" /\ pc'[r] \in {"snapshots", "track"} /\ tracked' = tracked
      BY <2>3 DEF TypeOK, WriteSnapshot, Goto
    <3>2. job'[r].retained = job[r].retained
      BY <2>1, <2>3 DEF WriteSnapshot
    <3> QED BY <3>1, <3>2 DEF Remembers, InSteps
  <2> QED BY <1>10, <2>2, <2>3
<1>11. ASSUME AfterExecute(r), pc[r] \in {"track", "hash"}
       PROVE  Remembers(pc'[r], job'[r], t)
  <2>1. CASE pc'[r] = "finally"
    BY <2>1 DEF Remembers, InSteps
  <2>2. CASE pc'[r] # "finally"
    <3>1. pc'[r] = "steps" /\ job'[r] = [job[r] EXCEPT !.phase = "late", !.todo = LateTodo(r)]
      BY <1>11, <2>2 DEF TypeOK, AfterExecute, Report, Goto, SetJob
    <3> QED BY <1>1, <3>1 DEF Jobs, Remembers, InSteps
  <2> QED BY <2>1, <2>2
<1>12. CASE WriteTracked(r)
  <2>1. t \in tracked'
    BY <1>12 DEF Remembers, WriteTracked
  <2> QED BY <1>11, <1>12, <2>1 DEF TypeOK, WriteTracked, Goto, Remembers, InSteps
<1>13. CASE WriteHash(r)
  BY <1>11, <1>13 DEF WriteHash
<1>14. CASE ApplyDataSteps(r)
  <2>1. pc[r] \in InSteps /\ UNCHANGED tracked
    BY <1>14 DEF ApplyDataSteps, StepsDone, StepBegin, StepRun, StepRecord, InSteps
  <2>2. CASE pc'[r] = "finally"
    BY <1>6, <2>1, <2>2
  <2>3. CASE UNCHANGED job /\ pc'[r] \in InSteps
    BY <2>1, <2>3 DEF Remembers, InSteps
  <2>4. CASE \E s : StepSettled(r, s)
    <3>1. PICK s : StepSettled(r, s)
      BY <2>4
    <3>2. pc'[r] = "steps" /\ job'[r] = [job[r] EXCEPT !.todo = @ \ {s}]
      BY <3>1 DEF TypeOK, StepSettled, Goto, SetJob
    <3> QED BY <1>1, <2>1, <3>2 DEF Jobs, Remembers, InSteps
  <2>5. CASE StepThrows(r) /\ pc'[r] # "finally"
    <3>1. /\ pc'[r] = "walk" /\ job[r].phase = "early"
          /\ job'[r] = [job[r] EXCEPT !.stepError = TRUE, !.deferred = {}, !.pass = FALSE,
                          !.failed = @ \cup job[r].deferred]
      BY <2>5 DEF TypeOK, StepThrows, Report, Goto, SetJob
    <3> QED BY <1>1, <2>1, <3>1 DEF Jobs, Remembers, InSteps
  <2>6. CASE StepsDone(r) /\ pc'[r] # "finally"
    BY <2>1, <2>6 DEF TypeOK, StepsDone, Report, Goto, Remembers, InSteps
  <2> QED BY <1>14, <2>2, <2>3, <2>4, <2>5, <2>6
       DEF TypeOK, ApplyDataSteps, StepBegin, StepRun, StepRecord, Aborts, Report, Goto, InSteps
<1>15. CASE NoticeLoss(r)
  BY <1>1, <1>15 DEF TypeOK, NoticeLoss, SetJob, Jobs, Remembers, InSteps
<1> QED BY <1>2, <1>3, <1>4, <1>5, <1>6, <1>7, <1>8, <1>9, <1>10, <1>12, <1>13, <1>14, <1>15
     DEF Run, Execute, Introspect, EndWalk

LEMMA OrphanStep == TypeOK /\ LocalInv /\ OrphanInv /\ [Next]_vars => OrphanInv'
<1> SUFFICES ASSUME TypeOK, LocalInv, OrphanInv, [Next]_vars, NEW t \in Foreign, live'[t] # {}
             PROVE  t \in tracked' /\ \A q \in Runs : Remembers(pc'[q], job'[q], t)
  BY DEF OrphanInv, Foreign, Inventory
<1>1. live[t] # {}
  BY ForeignShrinks
<1>2. t \in tracked /\ \A q \in Runs : Remembers(pc[q], job[q], t)
  BY <1>1 DEF OrphanInv
<1>3. CASE LeaseExpires \/ UNCHANGED vars
  BY <1>2, <1>3 DEF LeaseExpires, vars
<1>4. ASSUME NEW r \in Runs, Run(r) \/ NoticeLoss(r) \/ Crash(r)
      PROVE  t \in tracked' /\ \A q \in Runs : Remembers(pc'[q], job'[q], t)
  <2>1. t \in tracked' /\ Remembers(pc'[r], job'[r], t)
    BY <1>2, <1>4, RunRemembers
  <2>2. \A q \in Runs \ {r} : Remembers(pc'[q], job'[q], t)
    BY <1>2, <1>4, OthersStay
  <2> QED BY <2>1, <2>2
<1> QED BY <1>3, <1>4 DEF Next

(* A table that sync created and no longer wants stays tracked until it is *)
(* dropped, whatever fails, crashes or is taken over and whichever         *)
(* versions the runs deploy (sync-store.ts writeTrackedList,               *)
(* schema-sync.ts:1916-1975).                                              *)
THEOREM NothingIsOrphaned == Spec => []NoOrphans
<1>1. Init => OrphanInv
  BY DEF Init, OrphanInv, Foreign, Remembers, InSteps
<1>2. OrphanInv => NoOrphans
  BY DEF OrphanInv, NoOrphans, Foreign
<1>3. (TypeOK /\ LocalInv /\ ListInv /\ OpsInv) /\ OrphanInv /\ [Next]_vars => OrphanInv'
  BY OrphanStep
<1> QED BY <1>1, <1>2, <1>3, RunsAreWhereTheyAre, PTL DEF Spec

-----------------------------------------------------------------------------
(* How often a step runs *)

LEMMA WorkersFinite ==
  /\ IsFiniteSet(Runs)
  /\ \A S \in SUBSET Runs : IsFiniteSet(S) /\ Cardinality(S) \in Nat
  /\ \A S \in SUBSET Runs : \A T \in SUBSET S : Cardinality(T) <= Cardinality(S)
<1>1. IsFiniteSet(Runs)
  BY ModelAssumption
<1>2. \A S \in SUBSET Runs : IsFiniteSet(S) /\ Cardinality(S) \in Nat
  BY <1>1, FS_Subset, FS_CardinalityType
<1> QED BY <1>1, <1>2, FS_Subset

(* Only by acquiring the lock does a run start to work.                    *)
LEMMA WorkersShrink ==
  ASSUME TypeOK, NEW r \in Runs, Run(r) \/ NoticeLoss(r) \/ Crash(r), ~TryAcquire(r), ~Finally(r)
  PROVE  Workers' \subseteq Workers /\ holder' = holder /\ lost' = lost
<1>1. \A q \in Runs \ {r} : pc'[q] = pc[q]
  BY OthersStay
<1>2. (Working(r)' => Working(r)) /\ holder' = holder /\ lost' = lost
  <2>1. CASE AcquireLock(r)
    BY <2>1 DEF TypeOK, AcquireLock, QuickHash, QuickSteps, LockWait, PeerHash, PeerSteps,
         Report, Goto, Working, counters
  <2>2. CASE DoubleCheck(r) \/ DiscoverTracked(r) \/ Introspect(r) \/ NoticeLoss(r) \/ Crash(r)
    BY <2>2 DEF TypeOK, DoubleCheck, DiscoverTracked, Introspect, NoticeLoss, Crash, Goto, Working, counters
  <2>3. CASE BeginTable(r) \/ TableStatement(r) \/ TableConstraints(r) \/ BeginDeferred(r)
             \/ DeferredConstraints(r) \/ DropRemoved(r)
    BY <2>3 DEF TypeOK, BeginTable, TableStatement, TableConstraints, BeginDeferred,
         DeferredConstraints, DropRemoved, Working, counters
  <2>4. CASE EndWalk(r) \/ WriteSnapshot(r) \/ WriteTracked(r) \/ WriteHash(r) \/ ApplyDataSteps(r)
    BY <2>4 DEF TypeOK, EndWalk, WriteSnapshot, WriteTracked, WriteHash, ApplyDataSteps, StepsDone, StepBegin,
         StepRun, StepRecord, Working, counters
  <2> QED BY <2>1, <2>2, <2>3, <2>4 DEF Run, Execute
<1> QED BY <1>1, <1>2 DEF Workers, Working

LEMMA WorkStep == TypeOK /\ WorkInv /\ [Next]_vars => WorkInv'
<1> SUFFICES ASSUME TypeOK, WorkInv, [Next]_vars
             PROVE  WorkInv'
  OBVIOUS
<1>1. Workers \in SUBSET Runs /\ Workers' \in SUBSET Runs /\ lost \in Nat
  BY BoundsAssumption DEF Workers, TypeOK
<1>2. CASE UNCHANGED vars
  BY <1>2 DEF vars, counters, WorkInv, Workers, Working
<1>3. CASE LeaseExpires
  <2>1. Workers' = Workers /\ holder' = NoRun /\ Workers' \ {holder'} = Workers
    BY <1>3, ModelAssumption DEF LeaseExpires, Workers, Working
  <2>2. CASE pc[holder] \in {"done", "dead"} /\ UNCHANGED lost
    <3>1. Workers \ {holder} = Workers
      BY <2>2 DEF Workers, Working
    <3> QED BY <2>1, <2>2, <3>1 DEF WorkInv
  <2>3. CASE lost' = lost + 1
    <3>1. Cardinality(Workers) <= Cardinality(Workers \ {holder}) + 1
      BY <1>1, WorkersFinite, FS_RemoveElement
    <3>2. Cardinality(Workers) \in Nat /\ Cardinality(Workers \ {holder}) \in Nat
      BY <1>1, WorkersFinite
    <3> QED BY <1>1, <2>1, <2>3, <3>1, <3>2 DEF WorkInv
  <2> QED BY <1>3, <2>2, <2>3 DEF LeaseExpires
<1>4. ASSUME NEW r \in Runs, TryAcquire(r)
      PROVE  WorkInv'
  <2>1. lost' = lost /\ \A q \in Runs \ {r} : pc'[q] = pc[q]
    BY <1>4, OthersStay DEF TryAcquire, counters, Run, AcquireLock
  <2>2. CASE holder = NoRun /\ holder' = r
    <3>1. Workers \ {holder} = Workers
      BY <1>1, <2>2, ModelAssumption
    <3>2. Workers' \ {holder'} \in SUBSET Workers
      BY <2>1, <2>2 DEF Workers, Working
    <3>3. Cardinality(Workers' \ {holder'}) <= Cardinality(Workers)
      BY <1>1, <3>2, WorkersFinite
    <3>4. Cardinality(Workers) \in Nat /\ Cardinality(Workers' \ {holder'}) \in Nat
      BY <1>1, WorkersFinite
    <3> QED BY <1>1, <2>1, <3>1, <3>3, <3>4 DEF WorkInv
  <2>3. CASE holder' = holder /\ Goto(r, "wait")
    <3>1. Workers' \ {holder'} \in SUBSET (Workers \ {holder})
      BY <2>1, <2>3 DEF Workers, Working, TypeOK, Goto
    <3>2. Cardinality(Workers' \ {holder'}) <= Cardinality(Workers \ {holder})
      BY <1>1, <3>1, WorkersFinite
    <3>3. Cardinality(Workers \ {holder}) \in Nat /\ Cardinality(Workers' \ {holder'}) \in Nat
      BY <1>1, WorkersFinite
    <3> QED BY <1>1, <2>1, <3>2, <3>3 DEF WorkInv
  <2> QED BY <1>4, <2>2, <2>3 DEF TryAcquire
<1>5. ASSUME NEW r \in Runs, Finally(r)
      PROVE  WorkInv'
  <2>1. /\ lost' = lost /\ r \notin Workers /\ Workers' = Workers
        /\ holder' = holder \/ (holder = r /\ holder' = NoRun)
    BY <1>5 DEF TypeOK, Finally, Goto, Workers, Working, counters
  <2>2. Workers' \ {holder'} = Workers \ {holder}
    BY <1>1, <2>1, ModelAssumption
  <2> QED BY <2>1, <2>2 DEF WorkInv
<1>6. ASSUME NEW r \in Runs, Run(r) \/ NoticeLoss(r) \/ Crash(r), ~TryAcquire(r), ~Finally(r)
      PROVE  WorkInv'
  <2>1. Workers' \ {holder'} \in SUBSET (Workers \ {holder}) /\ lost' = lost
    BY <1>6, WorkersShrink
  <2>2. Cardinality(Workers' \ {holder'}) <= Cardinality(Workers \ {holder})
    BY <1>1, <2>1, WorkersFinite
  <2>3. Cardinality(Workers \ {holder}) \in Nat /\ Cardinality(Workers' \ {holder'}) \in Nat
    BY <1>1, WorkersFinite
  <2> QED BY <1>1, <2>1, <2>2, <2>3 DEF WorkInv
<1> QED BY <1>2, <1>3, <1>4, <1>5, <1>6 DEF Next, Run, AcquireLock

(* A transition in which no step is begun, executed or recorded.           *)
StepsQuiet ==
  /\ UNCHANGED <<realTx, recorded, applied>>
  /\ \A q \in Runs :
       /\ pc'[q] \in {"fn", "record"} => pc'[q] = pc[q] /\ \A s : AtStep(q, s)' => AtStep(q, s)
       /\ pc[q] = "record" =>
            pc'[q] = "dead" \/ (pc'[q] = "record" /\ \A s : AtStep(q, s) => AtStep(q, s)')
       /\ pc[q] = "dead" => pc'[q] = "dead"
       /\ \A s \in StepIds : claim[s] = q /\ pc'[q] = "fn" => claim'[s] = q

(* Those in which one is.                                                  *)
Begins(r, s) ==
  /\ pc[r] = "steps" /\ s \notin recorded /\ claim[s] = NoRun
  /\ claim' = IF realTx THEN [claim EXCEPT ![s] = r] ELSE claim
  /\ Goto(r, "fn") /\ UNCHANGED <<realTx, recorded, applied, job>>

Commits(r, s) ==
  /\ realTx /\ pc[r] = "fn"
  /\ applied' = [applied EXCEPT ![s] = @ + 1] /\ recorded' = recorded \cup {s}
  /\ claim' = [claim EXCEPT ![s] = NoRun]
  /\ pc'[r] = "steps" /\ UNCHANGED realTx

Executed(r, s) ==
  /\ ~realTx /\ pc[r] = "fn"
  /\ applied' = [applied EXCEPT ![s] = @ + 1]
  /\ Goto(r, "record") /\ UNCHANGED <<realTx, recorded, job>>

Records(r, s) ==
  /\ pc[r] = "record" /\ recorded' = recorded \cup {s}
  /\ pc'[r] = "steps" /\ UNCHANGED <<realTx, applied>>

LEMMA SameStep ==
  ASSUME NEW q \in Runs, job'[q].todo = job[q].todo, job'[q].match = job[q].match,
         job'[q].phase = job[q].phase
  PROVE  \A s : AtStep(q, s)' <=> AtStep(q, s)
<1>1. Due(q)' = Due(q)
  BY DEF Due
<1> QED BY <1>1 DEF AtStep

LEMMA QuietRun ==
  ASSUME TypeOK, NEW r \in Runs, Run(r) \/ NoticeLoss(r) \/ Crash(r),
         UNCHANGED <<realTx, recorded, applied>>,
         pc'[r] \notin {"fn", "record"}, pc[r] = "record" => pc'[r] = "dead", pc[r] # "dead",
         \A q \in Runs \ {r} : \A s \in StepIds : claim[s] = q => claim'[s] = q
  PROVE  StepsQuiet
<1>1. \A q \in Runs \ {r} : pc'[q] = pc[q] /\ job'[q] = job[q]
  BY OthersStay
<1>2. \A q \in Runs \ {r} : \A s : AtStep(q, s)' <=> AtStep(q, s)
  BY <1>1, SameStep
<1> QED BY <1>1, <1>2 DEF StepsQuiet

LEMMA StepKinds ==
  ASSUME TypeOK, TxInv, [Next]_vars
  PROVE  StepsQuiet \/ \E r \in Runs : \E s \in StepIds :
           /\ AtStep(r, s) /\ (\A q \in Runs \ {r} : pc'[q] = pc[q] /\ job'[q] = job[q])
           /\ Begins(r, s) \/ Commits(r, s) \/ Executed(r, s) \/ Records(r, s)
<1>1. CASE LeaseExpires \/ UNCHANGED vars
  <2>1. UNCHANGED <<realTx, recorded, applied, claim, pc, job>>
    BY <1>1 DEF LeaseExpires, vars, steps
  <2>2. \A q \in Runs : \A s : AtStep(q, s)' <=> AtStep(q, s)
    BY <2>1, SameStep
  <2> QED BY <2>1, <2>2 DEF StepsQuiet
<1>2. ASSUME NEW r \in Runs, Run(r), AcquireLock(r)
      PROVE  StepsQuiet
  <2>1. UNCHANGED <<realTx, recorded, applied, claim>>
    BY <1>2 DEF AcquireLock, QuickHash, QuickSteps, TryAcquire, LockWait, PeerHash, PeerSteps, steps
  <2>2. pc'[r] \notin {"fn", "record"} /\ pc[r] \notin {"record", "dead"}
    BY <1>2 DEF TypeOK, AcquireLock, QuickHash, QuickSteps, TryAcquire, LockWait, PeerHash, PeerSteps,
                Report, Goto
  <2> QED BY <1>2, <2>1, <2>2, QuietRun
<1>3. ASSUME NEW r \in Runs, Run(r), DoubleCheck(r) \/ DiscoverTracked(r) \/ Introspect(r) \/ Finally(r)
      PROVE  StepsQuiet
  <2>1. UNCHANGED <<realTx, recorded, applied, claim>>
    BY <1>3 DEF DoubleCheck, DiscoverTracked, Introspect, Finally, steps
  <2>2. pc'[r] \notin {"fn", "record"} /\ pc[r] \notin {"record", "dead"}
    BY <1>3 DEF TypeOK, DoubleCheck, DiscoverTracked, Introspect, Finally, Aborts, Report, Goto
  <2> QED BY <1>3, <2>1, <2>2, QuietRun
<1>4. ASSUME NEW r \in Runs, Run(r), Execute(r)
      PROVE  StepsQuiet
  <2>1. UNCHANGED <<realTx, recorded, applied, claim>> /\ pc[r] \notin {"record", "dead"}
    BY <1>4 DEF Execute, BeginTable, TableStatement, TableConstraints, BeginDeferred,
         DeferredConstraints, DropRemoved, EndWalk, WriteSnapshot, WriteTracked, WriteHash, steps
  <2>2. pc'[r] \notin {"fn", "record"}
    <3>1. CASE BeginTable(r) \/ TableStatement(r) \/ TableConstraints(r)
      BY <3>1 DEF TypeOK, BeginTable, TableStatement, TableConstraints, SyncConstraints,
           ColumnsDone, TableFails, Aborts, Report, Goto
    <3>2. CASE BeginDeferred(r) \/ DeferredConstraints(r) \/ DropRemoved(r)
      BY <3>2 DEF TypeOK, BeginDeferred, DeferredConstraints, DropRemoved, Aborts, Report, Goto
    <3>3. CASE EndWalk(r) \/ WriteSnapshot(r) \/ WriteTracked(r) \/ WriteHash(r)
      BY <3>3 DEF TypeOK, EndWalk, WriteSnapshot, WriteTracked, WriteHash, AfterExecute, Aborts, Report, Goto
    <3> QED BY <1>4, <3>1, <3>2, <3>3 DEF Execute
  <2> QED BY <1>4, <2>1, <2>2, QuietRun
<1>5. ASSUME NEW r \in Runs, NoticeLoss(r)
      PROVE  StepsQuiet
  <2>1. /\ UNCHANGED <<realTx, recorded, applied, claim, pc>>
        /\ job' = [job EXCEPT ![r] = [job[r] EXCEPT !.abort = TRUE]]
    BY <1>5 DEF NoticeLoss, SetJob, steps
  <2>2. job[r] \in Jobs /\ job'[r] = [job[r] EXCEPT !.abort = TRUE] /\ \A q \in Runs \ {r} : job'[q] = job[q]
    BY <2>1 DEF TypeOK
  <2>3. \A q \in Runs : /\ job'[q].todo = job[q].todo /\ job'[q].match = job[q].match
                        /\ job'[q].phase = job[q].phase
    BY <2>2 DEF Jobs
  <2>4. \A q \in Runs : \A s : AtStep(q, s)' <=> AtStep(q, s)
    BY <2>3, SameStep
  <2> QED BY <2>1, <2>4 DEF StepsQuiet
<1>6. ASSUME NEW r \in Runs, Crash(r)
      PROVE  StepsQuiet
  <2>1. /\ UNCHANGED <<realTx, recorded, applied>> /\ pc'[r] = "dead" /\ pc[r] # "dead"
        /\ \A s \in StepIds : claim[s] # r => claim'[s] = claim[s]
    BY <1>6 DEF TypeOK, Crash, Goto
  <2> QED BY <1>6, <2>1, QuietRun
<1>7. ASSUME NEW r \in Runs, Run(r), ApplyDataSteps(r)
      PROVE  StepsQuiet \/ \E s \in StepIds :
               /\ AtStep(r, s) /\ (\A q \in Runs \ {r} : pc'[q] = pc[q] /\ job'[q] = job[q])
               /\ Begins(r, s) \/ Commits(r, s) \/ Executed(r, s) \/ Records(r, s)
  <2>1. \A q \in Runs \ {r} : pc'[q] = pc[q] /\ job'[q] = job[q]
    BY <1>7, OthersStay
  <2>2. ASSUME pc[r] \in {"steps", "fn"}, pc'[r] \in {"steps", "walk", "deferred", "finally"},
               UNCHANGED <<realTx, recorded, applied>>,
               \A q \in Runs \ {r} : \A s \in StepIds : claim[s] = q => claim'[s] = q
        PROVE  StepsQuiet
    BY <1>7, <2>2, QuietRun
  <2>3. CASE StepsDone(r)
    BY <2>2, <2>3 DEF TypeOK, StepsDone, Report, Goto, steps
  <2>4. CASE StepBegin(r)
    <3>1. PICK s \in StepIds :
            /\ AtStep(r, s)
            /\ \/ Aborts(r) /\ UNCHANGED claim
               \/ StepSettled(r, s) /\ UNCHANGED claim
               \/ /\ s \notin recorded /\ claim[s] = NoRun
                  /\ claim' = IF realTx THEN [claim EXCEPT ![s] = r] ELSE claim
                  /\ Goto(r, "fn") /\ UNCHANGED job
      BY <2>4 DEF StepBegin
    <3>2. pc[r] = "steps" /\ UNCHANGED <<realTx, recorded, applied>>
      BY <2>4 DEF StepBegin
    <3>3. CASE (Aborts(r) \/ StepSettled(r, s)) /\ UNCHANGED claim
      BY <2>2, <3>2, <3>3 DEF TypeOK, Aborts, Report, StepSettled, Goto
    <3>4. CASE Begins(r, s)
      BY <2>1, <3>1, <3>4
    <3> QED BY <3>1, <3>2, <3>3, <3>4 DEF Begins
  <2>5. CASE StepRun(r)
    <3>1. PICK s \in StepIds :
            /\ AtStep(r, s)
            /\ claim' = IF realTx THEN [claim EXCEPT ![s] = NoRun] ELSE claim
            /\ \/ /\ applied' = [applied EXCEPT ![s] = @ + 1]
                  /\ IF realTx THEN recorded' = recorded \cup {s} /\ StepSettled(r, s)
                     ELSE UNCHANGED <<recorded, job>> /\ Goto(r, "record")
               \/ StepThrows(r) /\ UNCHANGED <<applied, recorded>>
      BY <2>5 DEF StepRun
    <3>2. pc[r] = "fn" /\ UNCHANGED realTx
      BY <2>5 DEF StepRun
    <3>3. CASE StepThrows(r) /\ UNCHANGED <<applied, recorded>>
      <4>1. pc'[r] \in {"walk", "finally"}
        BY <3>3 DEF TypeOK, StepThrows, Report, Goto
      <4>2. realTx => claim[s] = r
        BY <3>1, <3>2 DEF TxInv, AtFn
      <4>3. \A q \in Runs \ {r} : \A u \in StepIds : claim[u] = q => claim'[u] = q
        BY <3>1, <4>2 DEF TypeOK
      <4> QED BY <2>2, <3>2, <3>3, <4>1, <4>3
    <3>4. CASE realTx /\ ~(StepThrows(r) /\ UNCHANGED <<applied, recorded>>)
      <4>1. Commits(r, s)
        BY <3>1, <3>2, <3>4 DEF TypeOK, Commits, StepSettled, Goto
      <4> QED BY <2>1, <3>1, <4>1
    <3>5. CASE ~realTx /\ ~(StepThrows(r) /\ UNCHANGED <<applied, recorded>>)
      <4>1. Executed(r, s)
        BY <3>1, <3>2, <3>5 DEF Executed
      <4> QED BY <2>1, <3>1, <4>1
    <3> QED BY <3>3, <3>4, <3>5
  <2>6. CASE StepRecord(r)
    <3>1. PICK s \in StepIds : AtStep(r, s) /\ recorded' = recorded \cup {s} /\ StepSettled(r, s)
      BY <2>6 DEF StepRecord
    <3>2. Records(r, s)
      BY <2>6, <3>1 DEF TypeOK, StepRecord, Records, StepSettled, Goto
    <3> QED BY <2>1, <3>1, <3>2
  <2> QED BY <1>7, <2>3, <2>4, <2>5, <2>6 DEF ApplyDataSteps
<1> QED BY <1>1, <1>2, <1>3, <1>4, <1>5, <1>6, <1>7 DEF Next, Run

(* Where the runs are after such a transition.                             *)
LEMMA QuietPlaces ==
  ASSUME StepsQuiet, NEW s \in StepIds
  PROVE  /\ AtFn(s)' \subseteq AtFn(s) /\ AtRecord(s)' \subseteq AtRecord(s)
         /\ AtRecord(s) \cup Dead \subseteq AtRecord(s)' \cup Dead' /\ Dead \subseteq Dead'
         /\ \A r \in AtFn(s)' : claim[s] = r => claim'[s] = r
BY DEF StepsQuiet, AtFn, AtRecord, Dead

LEMMA ActivePlaces ==
  ASSUME TypeOK, NEW r \in Runs, NEW s \in StepIds, AtStep(r, s), pc'[r] # "dead", pc[r] # "dead",
         \A q \in Runs \ {r} : pc'[q] = pc[q] /\ job'[q] = job[q], NEW u \in StepIds
  PROVE  /\ AtFn(u)' \ {r} = AtFn(u) \ {r} /\ AtRecord(u)' \ {r} = AtRecord(u) \ {r} /\ Dead' = Dead
         /\ u # s => r \notin AtFn(u) /\ r \notin AtRecord(u)
         /\ UNCHANGED job => (AtStep(r, u)' <=> u = s)
<1>1. \A q \in Runs \ {r} : AtStep(q, u)' <=> AtStep(q, u)
  BY SameStep
<1>2. \A w : AtStep(r, w) => w = s
  BY OneStep
<1>3. UNCHANGED job => (AtStep(r, u)' <=> AtStep(r, u))
  BY SameStep
<1> QED BY <1>1, <1>2, <1>3 DEF AtFn, AtRecord, Dead

LEMMA TxStep == TypeOK /\ TxInv /\ [Next]_vars => TxInv'
<1> SUFFICES ASSUME TypeOK, TxInv, [Next]_vars, realTx', NEW u \in StepIds
             PROVE  /\ applied'[u] = IF u \in recorded' THEN 1 ELSE 0
                    /\ \A q \in AtFn(u)' : claim'[u] = q /\ u \notin recorded'
                    /\ AtRecord(u)' = {}
  BY DEF TxInv
<1>1. CASE StepsQuiet
  BY <1>1, QuietPlaces DEF StepsQuiet, TxInv
<1>2. ASSUME NEW r \in Runs, NEW s \in StepIds, AtStep(r, s),
             \A q \in Runs \ {r} : pc'[q] = pc[q] /\ job'[q] = job[q],
             Begins(r, s) \/ Commits(r, s) \/ Executed(r, s) \/ Records(r, s)
      PROVE  /\ applied'[u] = IF u \in recorded' THEN 1 ELSE 0
             /\ \A q \in AtFn(u)' : claim'[u] = q /\ u \notin recorded'
             /\ AtRecord(u)' = {}
  <2>1. realTx /\ pc[r] # "dead" /\ pc'[r] # "dead" /\ s \in DOMAIN claim /\ s \in DOMAIN applied
    BY <1>2 DEF TypeOK, Begins, Commits, Executed, Records, Goto
  <2>2. /\ AtFn(u)' \ {r} = AtFn(u) \ {r} /\ AtRecord(u)' \ {r} = AtRecord(u) \ {r}
        /\ UNCHANGED job => (AtStep(r, u)' <=> u = s)
    BY <1>2, <2>1, ActivePlaces
  <2>3. /\ applied[u] = IF u \in recorded THEN 1 ELSE 0
        /\ \A q \in AtFn(u) : claim[u] = q /\ u \notin recorded
        /\ AtRecord(u) = {}
    BY <2>1 DEF TxInv
  <2>4. r \in AtRecord(s) => FALSE
    BY <2>1 DEF TxInv
  <2>5. CASE Begins(r, s)
    <3>1. pc'[r] = "fn" /\ UNCHANGED job
      BY <2>5 DEF TypeOK, Begins, Goto
    <3>2. AtRecord(u)' = {}
      BY <2>2, <2>3, <3>1 DEF AtRecord
    <3>3. ASSUME NEW q \in AtFn(u)'
          PROVE  claim'[u] = q /\ u \notin recorded'
      <4>1. CASE q = r
        <5>1. u = s
          BY <2>2, <3>1, <3>3, <4>1 DEF AtFn
        <5> QED BY <2>1, <2>5, <4>1, <5>1 DEF Begins
      <4>2. CASE q # r
        <5>1. claim[u] = q /\ u \notin recorded /\ q \in Runs
          BY <2>2, <2>3, <3>3, <4>2 DEF AtFn
        <5>2. u # s
          BY <2>5, <5>1, ModelAssumption DEF Begins
        <5> QED BY <2>1, <2>5, <5>1, <5>2 DEF TypeOK, Begins
      <4> QED BY <4>1, <4>2
    <3> QED BY <2>3, <2>5, <3>2, <3>3 DEF Begins
  <2>6. CASE Commits(r, s)
    <3>1. s \notin recorded /\ claim[s] = r
      BY <1>2, <2>1, <2>6 DEF Commits, TxInv, AtFn
    <3>2. r \notin AtFn(u)' /\ r \notin AtRecord(u)'
      BY <2>6 DEF Commits, AtFn, AtRecord
    <3>3. AtRecord(u)' = {} /\ AtFn(u)' \subseteq AtFn(u) \ {r}
      BY <2>2, <2>3, <3>2
    <3>4. CASE u = s
      <4>1. AtFn(u)' = {}
        BY <2>3, <3>1, <3>3, <3>4
      <4> QED BY <2>3, <2>6, <3>1, <3>3, <3>4, <4>1 DEF TypeOK, Commits
    <3>5. CASE u # s
      BY <2>3, <2>6, <3>3, <3>5 DEF TypeOK, Commits
    <3> QED BY <3>4, <3>5
  <2> QED BY <1>2, <2>1, <2>4, <2>5, <2>6 DEF Executed, Records, AtRecord
<1> QED BY <1>1, <1>2, StepKinds

(* At most one run more than leases have been lost is at a step.           *)
LEMMA FewAtStep ==
  ASSUME TypeOK, WorkInv, NEW s \in StepIds
  PROVE  Cardinality(AtRecord(s) \cup Dead) + Cardinality(AtFn(s)) <= 1 + lost + Cardinality(Dead)
<1>1. /\ AtRecord(s) \in SUBSET Runs /\ AtFn(s) \in SUBSET Runs /\ Dead \in SUBSET Runs
      /\ Workers \in SUBSET Runs /\ AtRecord(s) \cup AtFn(s) \in SUBSET Workers
      /\ AtRecord(s) \cap AtFn(s) = {} /\ lost \in Nat
  BY BoundsAssumption DEF AtRecord, AtFn, Dead, Workers, Working, TypeOK
<1>2. /\ IsFiniteSet(AtRecord(s)) /\ IsFiniteSet(AtFn(s)) /\ IsFiniteSet(Dead) /\ IsFiniteSet(Workers)
      /\ Cardinality(AtRecord(s)) \in Nat /\ Cardinality(AtFn(s)) \in Nat
      /\ Cardinality(Dead) \in Nat /\ Cardinality(Workers) \in Nat
  BY <1>1, WorkersFinite
<1>3. Cardinality(AtRecord(s) \cup AtFn(s)) = Cardinality(AtRecord(s)) + Cardinality(AtFn(s))
  <2>1. Cardinality(AtRecord(s) \cup AtFn(s)) =
          Cardinality(AtRecord(s)) + Cardinality(AtFn(s)) - Cardinality(AtRecord(s) \cap AtFn(s))
    BY <1>2, FS_Union
  <2>2. Cardinality(AtRecord(s) \cap AtFn(s)) = 0
    BY <1>1, FS_EmptySet
  <2> QED BY <1>2, <2>1, <2>2
<1>4. Cardinality(AtRecord(s) \cup AtFn(s)) <= Cardinality(Workers)
  BY <1>1, WorkersFinite
<1>5. Cardinality(Workers) <= Cardinality(Workers \ {holder}) + 1
  <2>1. Cardinality(Workers \ {holder}) =
          IF holder \in Workers THEN Cardinality(Workers) - 1 ELSE Cardinality(Workers)
    BY <1>2, FS_RemoveElement
  <2> QED BY <1>2, <2>1
<1>6. Cardinality(Workers \ {holder}) <= lost /\ Cardinality(Workers \ {holder}) \in Nat
  BY <1>1, WorkersFinite DEF WorkInv
<1>7. /\ Cardinality(AtRecord(s) \cup Dead) <= Cardinality(AtRecord(s)) + Cardinality(Dead)
      /\ Cardinality(AtRecord(s) \cup Dead) \in Nat
  <2>1. Cardinality(AtRecord(s) \cup Dead) =
          Cardinality(AtRecord(s)) + Cardinality(Dead) - Cardinality(AtRecord(s) \cap Dead)
    BY <1>2, FS_Union
  <2>2. Cardinality(AtRecord(s) \cap Dead) \in Nat /\ Cardinality(AtRecord(s) \cup Dead) \in Nat
    BY <1>1, WorkersFinite
  <2> QED BY <1>2, <2>1, <2>2
<1> QED BY <1>1, <1>2, <1>3, <1>4, <1>5, <1>6, <1>7

LEMMA LostGrows == TypeOK /\ [Next]_vars => lost <= lost' /\ lost \in Nat /\ lost' \in Nat
<1> SUFFICES ASSUME TypeOK, [Next]_vars
             PROVE  lost <= lost' /\ lost \in Nat /\ lost' \in Nat
  OBVIOUS
<1>1. lost \in Nat
  BY BoundsAssumption DEF TypeOK
<1>2. CASE LeaseExpires \/ UNCHANGED vars
  BY <1>1, <1>2 DEF LeaseExpires, vars, counters
<1>3. ASSUME NEW r \in Runs, TryAcquire(r) \/ Finally(r)
      PROVE  lost' = lost
  BY <1>3 DEF TryAcquire, Finally, counters
<1> QED BY <1>1, <1>2, <1>3, WorkersShrink DEF Next

LEMMA PassStep == TypeOK /\ WorkInv /\ TxInv /\ PassInv /\ [Next]_vars => PassInv'
<1> SUFFICES ASSUME TypeOK, WorkInv, TxInv, PassInv, [Next]_vars, ~realTx', NEW u \in StepIds
             PROVE  /\ u \notin recorded' => applied'[u] <= Cardinality(AtRecord(u)' \cup Dead')
                    /\ u \in recorded' =>
                         applied'[u] + Cardinality(AtFn(u)') <= 1 + lost' + Cardinality(Dead')
                    /\ u \in recorded' \/ AtRecord(u)' # {} => applied'[u] > 0
  BY DEF PassInv
<1> DEFINE A == AtRecord(u)  F == AtFn(u)
<1>1. /\ A \in SUBSET Runs /\ A' \in SUBSET Runs /\ F \in SUBSET Runs /\ F' \in SUBSET Runs
      /\ Dead \in SUBSET Runs /\ Dead' \in SUBSET Runs
  BY DEF AtRecord, AtFn, Dead
<1>2. /\ Cardinality(A \cup Dead) \in Nat /\ Cardinality(A' \cup Dead') \in Nat
      /\ Cardinality(F) \in Nat /\ Cardinality(F') \in Nat
      /\ Cardinality(Dead) \in Nat /\ Cardinality(Dead') \in Nat
  BY <1>1, WorkersFinite
<1>3. lost <= lost' /\ lost \in Nat /\ lost' \in Nat
  BY LostGrows
<1>4. applied[u] \in Nat
  BY DEF TypeOK
<1>5. ASSUME ~realTx
      PROVE  /\ u \notin recorded => applied[u] <= Cardinality(A \cup Dead)
             /\ u \in recorded => applied[u] + Cardinality(F) <= 1 + lost + Cardinality(Dead)
             /\ u \in recorded \/ A # {} => applied[u] > 0
  BY <1>5 DEF PassInv
<1>6. CASE StepsQuiet
  <2>1. F' \subseteq F /\ A' \subseteq A /\ A \cup Dead \subseteq A' \cup Dead' /\ Dead \subseteq Dead'
    BY <1>6, QuietPlaces
  <2>2. /\ Cardinality(F') <= Cardinality(F) /\ Cardinality(Dead) <= Cardinality(Dead')
        /\ Cardinality(A \cup Dead) <= Cardinality(A' \cup Dead')
    BY <1>1, <2>1, WorkersFinite
  <2>3. UNCHANGED <<realTx, recorded, applied>>
    BY <1>6 DEF StepsQuiet
  <2> HIDE DEF A, F
  <2>4. u \notin recorded => applied[u] <= Cardinality(A' \cup Dead')
    BY <1>2, <1>4, <1>5, <2>2, <2>3
  <2>5. u \in recorded => applied[u] + Cardinality(F') <= 1 + lost' + Cardinality(Dead')
    BY <1>2, <1>3, <1>4, <1>5, <2>2, <2>3
  <2>6. u \in recorded \/ A' # {} => applied[u] > 0
    BY <1>5, <2>1, <2>3
  <2> QED BY <2>3, <2>4, <2>5, <2>6 DEF A, F
<1>7. ASSUME NEW r \in Runs, NEW s \in StepIds, AtStep(r, s),
             \A q \in Runs \ {r} : pc'[q] = pc[q] /\ job'[q] = job[q],
             Begins(r, s) \/ Executed(r, s) \/ Records(r, s)
      PROVE  /\ u \notin recorded' => applied'[u] <= Cardinality(A' \cup Dead')
             /\ u \in recorded' => applied'[u] + Cardinality(F') <= 1 + lost' + Cardinality(Dead')
             /\ u \in recorded' \/ A' # {} => applied'[u] > 0
  <2>1. ~realTx /\ pc[r] # "dead" /\ pc'[r] # "dead"
    BY <1>7 DEF TypeOK, Begins, Executed, Records, Goto
  <2>2. /\ F' \ {r} = F \ {r} /\ A' \ {r} = A \ {r} /\ Dead' = Dead
        /\ u # s => r \notin F /\ r \notin A
        /\ UNCHANGED job => (AtStep(r, u)' <=> u = s)
    BY <1>7, <2>1, ActivePlaces
  <2>3. u = s => (r \in F <=> pc[r] = "fn") /\ (r \in A <=> pc[r] = "record")
    BY <1>7 DEF AtFn, AtRecord
  <2>4. r \in F' <=> pc'[r] = "fn" /\ AtStep(r, u)'
    BY DEF AtFn
  <2>5. r \in A' <=> pc'[r] = "record" /\ AtStep(r, u)'
    BY DEF AtRecord
  <2>6. Cardinality(A \cup Dead) + Cardinality(F) <= 1 + lost + Cardinality(Dead)
    BY FewAtStep
  <2>7. r \notin Dead
    BY <2>1 DEF Dead
  <2>8. \A S \in SUBSET Runs : IsFiniteSet(S)
    BY WorkersFinite
  <2> HIDE DEF A, F
  <2>9. CASE Begins(r, s)
    <3>1. /\ pc'[r] = "fn" /\ pc[r] = "steps" /\ UNCHANGED <<job, recorded, applied>> /\ s \notin recorded
      BY <2>9 DEF TypeOK, Begins, Goto
    <3>2. A' = A
      <4>1. r \notin A' /\ r \notin A
        BY <2>2, <2>3, <2>5, <3>1
      <4> QED BY <2>2, <4>1
    <3>3. u # s => F' = F
      <4>1. u # s => r \notin F' /\ r \notin F
        BY <2>2, <2>4, <3>1
      <4> QED BY <2>2, <4>1
    <3>4. u \in recorded => u # s
      BY <3>1
    <3>5. u \in recorded' => applied'[u] + Cardinality(F') <= 1 + lost' + Cardinality(Dead')
      BY <1>2, <1>3, <1>4, <1>5, <2>1, <2>2, <3>1, <3>3, <3>4
    <3> QED BY <1>5, <2>1, <2>2, <3>1, <3>2, <3>5
  <2>10. CASE Executed(r, s)
    <3>1. /\ pc'[r] = "record" /\ pc[r] = "fn" /\ UNCHANGED <<job, recorded>>
          /\ applied' = [applied EXCEPT ![s] = @ + 1]
      BY <2>10 DEF TypeOK, Executed, Goto
    <3>2. CASE u = s
      <4>1. r \in A' /\ r \notin A /\ r \in F /\ r \notin F'
        BY <2>2, <2>3, <2>4, <2>5, <3>1, <3>2
      <4>2. A' \cup Dead' = (A \cup Dead) \cup {r} /\ F' = F \ {r} /\ r \notin A \cup Dead
        BY <2>2, <2>7, <4>1
      <4>3. Cardinality(A' \cup Dead') = Cardinality(A \cup Dead) + 1
        BY <1>1, <2>8, <4>2, FS_AddElement
      <4>4. Cardinality(F') = Cardinality(F) - 1
        BY <1>1, <2>8, <4>1, <4>2, FS_RemoveElement
      <4>5. applied'[u] = applied[u] + 1
        BY <3>1, <3>2 DEF TypeOK
      <4>6. u \notin recorded' => applied'[u] <= Cardinality(A' \cup Dead')
        BY <1>2, <1>4, <1>5, <2>1, <3>1, <4>3, <4>5
      <4>7. u \in recorded' => applied'[u] + Cardinality(F') <= 1 + lost' + Cardinality(Dead')
        BY <1>2, <1>3, <1>4, <1>5, <2>1, <2>2, <3>1, <4>4, <4>5
      <4> QED BY <1>4, <4>5, <4>6, <4>7
    <3>3. CASE u # s
      <4>1. r \notin A' /\ r \notin A /\ r \notin F /\ r \notin F'
        BY <2>2, <2>4, <2>5, <3>1, <3>3
      <4>4. A' = A /\ F' = F
        BY <2>2, <4>1
      <4>5. applied'[u] = applied[u]
        BY <3>1, <3>3 DEF TypeOK
      <4>2. A' = A /\ F' = F /\ applied'[u] = applied[u]
        BY <4>4, <4>5
      <4>3. u \in recorded' => applied'[u] + Cardinality(F') <= 1 + lost' + Cardinality(Dead')
        BY <1>2, <1>3, <1>4, <1>5, <2>1, <2>2, <3>1, <4>2
      <4> QED BY <1>5, <2>1, <2>2, <3>1, <4>2, <4>3
    <3> QED BY <3>2, <3>3
  <2>11. CASE Records(r, s)
    <3>1. pc'[r] = "steps" /\ pc[r] = "record" /\ UNCHANGED applied /\ recorded' = recorded \cup {s}
      BY <2>11 DEF Records
    <3>2. r \notin A' /\ r \notin F' /\ r \notin F
      BY <2>2, <2>3, <2>4, <2>5, <3>1
    <3>3. F' = F /\ A' = A \ {r}
      BY <2>2, <3>2
    <3>4. CASE u = s
      <4>1. applied[u] > 0
        BY <1>5, <2>1, <2>3, <3>1, <3>4
      <4>2. applied[u] + Cardinality(F) <= 1 + lost + Cardinality(Dead)
        BY <1>2, <1>3, <1>4, <1>5, <2>1, <2>6
      <4>3. applied'[u] + Cardinality(F') <= 1 + lost' + Cardinality(Dead')
        BY <1>2, <1>3, <1>4, <2>2, <3>1, <3>3, <4>2
      <4> QED BY <3>1, <3>4, <4>1, <4>3
    <3>5. CASE u # s
      <4>1. A' = A /\ (u \in recorded' <=> u \in recorded)
        BY <2>2, <3>1, <3>3, <3>5
      <4>2. u \in recorded' => applied'[u] + Cardinality(F') <= 1 + lost' + Cardinality(Dead')
        BY <1>2, <1>3, <1>4, <1>5, <2>1, <2>2, <3>1, <3>3, <4>1
      <4> QED BY <1>5, <2>1, <2>2, <3>1, <4>1, <4>2
    <3> QED BY <3>4, <3>5
  <2> QED BY <1>7, <2>9, <2>10, <2>11
<1> QED BY <1>6, <1>7, StepKinds DEF Commits

(* Each step's changes are committed once with its record when the control *)
(* table has transactions; without them a record never stands for a step   *)
(* that did not run, and each further execution is paid for by a lost      *)
(* lease or a crash (sync-store.ts runOnce).                               *)
THEOREM StepsRunAsPromised == Spec => []StepsRunOnce
<1>1. Init => WorkInv /\ TxInv /\ PassInv
  <2> SUFFICES ASSUME Init PROVE WorkInv /\ TxInv /\ PassInv
    OBVIOUS
  <2>1. Workers = {} /\ Dead = {} /\ \A s : AtFn(s) = {} /\ AtRecord(s) = {}
    BY DEF Init, Workers, Working, Dead, AtFn, AtRecord
  <2>2. Workers \ {holder} = {} /\ Cardinality({}) = 0 /\ \A s : AtRecord(s) \cup Dead = {}
    BY <2>1, FS_EmptySet
  <2>6. lost = 0 /\ recorded = {} /\ \A s \in StepIds : applied[s] = 0
    BY DEF Init
  <2>3. WorkInv
    BY <2>2, <2>6 DEF WorkInv
  <2>4. TxInv
    BY <2>1 DEF Init, TxInv
  <2>5. PassInv
    BY <2>1, <2>2, <2>6 DEF PassInv
  <2> QED BY <2>3, <2>4, <2>5
<1>2. (TypeOK /\ LocalInv /\ ListInv) /\ (WorkInv /\ TxInv /\ PassInv) /\ [Next]_vars
        => (WorkInv /\ TxInv /\ PassInv)'
  BY WorkStep, TxStep, PassStep
<1>3. TypeOK /\ WorkInv /\ TxInv /\ PassInv => StepsRunOnce
  <2> SUFFICES ASSUME TypeOK, WorkInv, TxInv, PassInv, NEW s \in StepIds
               PROVE  /\ realTx => applied[s] = IF s \in recorded THEN 1 ELSE 0
                      /\ s \in recorded => applied[s] > 0
                      /\ applied[s] <= 1 + lost + Cardinality(Dead)
    BY DEF StepsRunOnce, Dead
  <2>1. applied[s] \in Nat /\ lost \in Nat
    BY BoundsAssumption DEF TypeOK
  <2>2. /\ AtRecord(s) \cup Dead \in SUBSET Runs /\ AtFn(s) \in SUBSET Runs /\ Dead \in SUBSET Runs
    BY DEF AtRecord, AtFn, Dead
  <2>3. /\ Cardinality(AtRecord(s) \cup Dead) \in Nat /\ Cardinality(AtFn(s)) \in Nat
        /\ Cardinality(Dead) \in Nat
    BY <2>2, WorkersFinite
  <2>4. Cardinality(AtRecord(s) \cup Dead) + Cardinality(AtFn(s)) <= 1 + lost + Cardinality(Dead)
    BY FewAtStep
  <2>5. realTx => applied[s] = IF s \in recorded THEN 1 ELSE 0
    BY DEF TxInv
  <2>6. ~realTx => /\ s \notin recorded => applied[s] <= Cardinality(AtRecord(s) \cup Dead)
                   /\ s \in recorded => applied[s] + Cardinality(AtFn(s)) <= 1 + lost + Cardinality(Dead)
                   /\ s \in recorded => applied[s] > 0
    BY DEF PassInv
  <2>7. applied[s] <= 1 + lost + Cardinality(Dead)
    BY <2>1, <2>3, <2>4, <2>5, <2>6
  <2> QED BY <2>5, <2>6, <2>7
<1> QED BY <1>1, <1>2, <1>3, RunsAreWhereTheyAre, PTL DEF Spec

-----------------------------------------------------------------------------
(* One version: the tables *)

LEMMA OneVersion ==
  ASSUME TypeOK, LocalInv, NEW v \in Versions, AllCarry(v), NEW r \in Runs
  PROVE  /\ Inventory(r) = Wanted(v) /\ Carries[r] = v /\ Wanted(v) \subseteq Tables
         /\ job[r] \in Jobs /\ PhaseOK(pc[r], job[r]) /\ WalkOK(r, pc[r], job[r])
BY DEF Wanted, Inventory, AllCarry, TypeOK, LocalInv

(* A statement touches one table: it creates or rebuilds it with its       *)
(* columns and keys, takes off keys or changes its columns, of which it    *)
(* drops none that is wanted.                                              *)
LEMMA StatementIs ==
  ASSUME TypeOK, OpsInv, NEW v \in Versions, AllCarry(v), NEW r \in Runs, TableStatement(r)
  PROVE  \E t \in Tables :
           /\ AtTable(r, t)
           /\ \A u \in Tables \ {t} : live'[u] = live[u] /\ keyed'[u] = keyed[u] /\ indexed'[u] = indexed[u]
           /\ \/ /\ live'[t] = Desired[v][t] /\ keyed'[t] = WantedKeys(v, t)
                 /\ \/ live[t] = {} /\ indexed'[t] = indexed[t]
                    \/ keying = "recreate" /\ Stale(v, job[r].stored[t], t)
              \/ /\ live'[t] = live[t] /\ indexed'[t] = indexed[t]
                 /\ keyed'[t] = keyed[t]
                      \/ (keying = "alter" /\ keyed'[t] = keyed[t] \ StaleKeys(r, t))
              \/ /\ keyed'[t] = keyed[t] /\ indexed'[t] = indexed[t] /\ live[t] # {}
                 /\ live[t] \cap Desired[v][t] \subseteq live'[t]
<1>0. PICK t \in Tables : \E op \in ColumnOps(r, t) :
        AtTable(r, t) /\ ((Executes(t, op) /\ Effect(r, t, op)) \/ UNCHANGED <<live, keyed, indexed>>)
  BY StatementOf
<1>1. PICK op \in ColumnOps(r, t) :
        AtTable(r, t) /\ ((Executes(t, op) /\ Effect(r, t, op)) \/ UNCHANGED <<live, keyed, indexed>>)
  BY <1>0
<1>2. Carries[r] = v
  BY DEF AllCarry
<1>3. CASE UNCHANGED <<live, keyed, indexed>>
  BY <1>1, <1>3
<1>4. CASE Executes(t, op) /\ Effect(r, t, op)
  <2>1. \A u \in Tables \ {t} : live'[u] = live[u] /\ keyed'[u] = keyed[u] /\ indexed'[u] = indexed[u]
    BY <1>4 DEF TypeOK, Effect
  <2>2. CASE op[1] = "create" /\ live[t] = {}
    BY <1>1, <1>2, <1>4, <2>1, <2>2 DEF TypeOK, Effect
  <2>3. CASE op[1] = "create" /\ live[t] # {}
    BY <1>1, <1>4, <2>1, <2>3 DEF TypeOK, Effect
  <2>4. CASE op[1] = "recreate"
    <3>1. keying = "recreate" /\ Stale(v, job[r].stored[t], t)
      BY <1>2, <2>4 DEF ColumnOps, KeysDiffer, Stale
    <3> QED BY <1>1, <1>2, <1>4, <2>1, <2>4, <3>1 DEF TypeOK, Effect
  <2>5. CASE op[1] = "unkey"
    <3>1. keying = "alter"
      BY <2>5 DEF ColumnOps
    <3> QED BY <1>1, <1>4, <2>1, <2>5, <3>1 DEF TypeOK, Effect
  <2>6. CASE op[1] = "add"
    <3>1. live[t] # {} /\ live'[t] = live[t] \cup {op[2]}
      BY <1>4, <2>6 DEF TypeOK, Executes, Effect
    <3> QED BY <1>1, <1>4, <2>1, <2>6, <3>1 DEF TypeOK, Effect
  <2>7. CASE op[1] = "drop"
    <3>1. live[t] # {} /\ live'[t] = live[t] \ {op[2]}
      BY <1>4, <2>7 DEF TypeOK, Executes, Effect
    <3>2. op[2] \notin Desired[v][t]
      BY <1>2, <2>7 DEF ColumnOps
    <3> QED BY <1>1, <1>4, <2>1, <2>7, <3>1, <3>2 DEF TypeOK, Effect
  <2> QED BY <2>2, <2>3, <2>4, <2>5, <2>6, <2>7 DEF ColumnOps
<1> QED BY <1>1, <1>3, <1>4

(* Indexes and keys come to a table that has its columns.                  *)
LEMMA ConstraintsAre ==
  ASSUME TypeOK, NEW v \in Versions, AllCarry(v), NEW r \in Runs, NEW t \in Tables,
         SyncConstraints(r, t, TRUE, TRUE), keying' = keying
  PROVE  /\ \A u \in Tables \ {t} : keyed'[u] = keyed[u] /\ indexed'[u] = indexed[u]
         /\ indexed'[t] = indexed[t] \/ (indexed'[t] = v /\ Desired[v][t] \subseteq live[t])
         /\ keyed'[t] = keyed[t] \/ (keying = "alter" /\ (keyed[t] = Keys[v][t] => keyed'[t] = Keys[v][t]))
<1>1. Carries[r] = v
  BY DEF AllCarry
<1>2. indexed' = indexed \/ (indexed' = [indexed EXCEPT ![t] = v] /\ Desired[v][t] \subseteq live[t])
  BY <1>1 DEF SyncConstraints
<1>3. \/ keyed' = keyed
      \/ keying = "alter" /\ keyed' = [keyed EXCEPT ![t] = Keys[v][t]]
      \/ KeysHalfAltered(v, t)
  BY <1>1 DEF SyncConstraints, KeysAltered
<1>4. CASE KeysHalfAltered(v, t)
  <2>1. PICK k \in SUBSET (keyed[t] \cup Keys[v][t]) :
          keyed[t] \cap Keys[v][t] \subseteq k /\ keyed' = [keyed EXCEPT ![t] = k]
    BY <1>4 DEF KeysHalfAltered
  <2>2. keying = "alter" /\ (keyed[t] = Keys[v][t] => k = Keys[v][t])
    BY <1>4, <2>1 DEF KeysHalfAltered
  <2> QED BY <1>2, <2>1, <2>2 DEF TypeOK
<1> QED BY <1>2, <1>3, <1>4 DEF TypeOK

LEMMA ConstraintsOf ==
  ASSUME NEW r \in Runs, TableConstraints(r) \/ DeferredConstraints(r)
  PROVE  /\ live' = live
         /\ UNCHANGED <<keyed, indexed>> \/ \E t \in Tables : SyncConstraints(r, t, TRUE, TRUE)
BY DEF TableConstraints, DeferredConstraints, SyncConstraints

LEMMA DropIs ==
  ASSUME TypeOK, LocalInv, NEW r \in Runs, DropRemoved(r), NEW t \in Inventory(r)
  PROVE  live'[t] = live[t] /\ keyed'[t] = keyed[t] /\ indexed'[t] = indexed[t]
BY DEF TypeOK, LocalInv, WalkOK, DropRemoved, AtDrop, IsLast, Inventory

(* The run rebuilds the table although no lease was lost.                  *)
Rebuilds(v, r, t) ==
  /\ lost = 0 /\ keying = "recreate"
  /\ pc[r] = "table" /\ AtTable(r, t) /\ Stale(v, job[r].stored[t], t)

(* Once a table has what its version wants it keeps it, or is rebuilt.     *)
LEMMA ReadyStays ==
  ASSUME TypeOK, LocalInv, OpsInv, NEW v \in Versions, AllCarry(v), NEW r \in Runs,
         Run(r) \/ NoticeLoss(r) \/ Crash(r), NEW t \in Wanted(v), Ready(v, t), ~Rebuilds(v, r, t)
  PROVE  Ready(v, t)'
<1>1. keying' = keying /\ lost' = lost /\ lost \in Nat /\ WantedKeys(v, t)' = WantedKeys(v, t)
  BY QuietSchema, BoundsAssumption DEF TypeOK, WantedKeys
<1>2. t \in Tables /\ t \in Inventory(r) /\ Carries[r] = v /\ Desired[v][t] # {}
  BY OneVersion DEF Wanted
<1>3. CASE live'[t] = live[t] /\ keyed'[t] = keyed[t] /\ indexed'[t] = indexed[t]
  BY <1>1, <1>3 DEF Ready
<1>4. CASE TableStatement(r)
  <2>1. pc[r] = "table"
    BY <1>4 DEF TableStatement
  <2>2. keying = "recreate" /\ AtTable(r, t) /\ Stale(v, job[r].stored[t], t) => lost > 0
    BY <1>1, <2>1 DEF Rebuilds
  <2>3. keying = "alter" => keyed[t] \ StaleKeys(r, t) = keyed[t]
    BY <1>2 DEF Ready, WantedKeys, StaleKeys
  <2>4. live[t] # {}
    BY <1>2 DEF Ready
  <2>5. PICK u \in Tables :
           /\ AtTable(r, u)
           /\ \A w \in Tables \ {u} : live'[w] = live[w] /\ keyed'[w] = keyed[w] /\ indexed'[w] = indexed[w]
           /\ \/ /\ live'[u] = Desired[v][u] /\ keyed'[u] = WantedKeys(v, u)
                 /\ \/ live[u] = {} /\ indexed'[u] = indexed[u]
                    \/ keying = "recreate" /\ Stale(v, job[r].stored[u], u)
              \/ /\ live'[u] = live[u] /\ indexed'[u] = indexed[u]
                 /\ keyed'[u] = keyed[u]
                      \/ (keying = "alter" /\ keyed'[u] = keyed[u] \ StaleKeys(r, u))
              \/ /\ keyed'[u] = keyed[u] /\ indexed'[u] = indexed[u] /\ live[u] # {}
                 /\ live[u] \cap Desired[v][u] \subseteq live'[u]
    BY <1>4, StatementIs
  <2>6. CASE u # t
    BY <1>2, <1>3, <2>5, <2>6
  <2>7. CASE u = t
    BY <1>1, <2>2, <2>3, <2>4, <2>5, <2>7 DEF Ready
  <2> QED BY <2>6, <2>7
<1>5. CASE TableConstraints(r) \/ DeferredConstraints(r)
  <2>1. live' = live
    BY <1>5, ConstraintsOf
  <2>2. CASE UNCHANGED <<keyed, indexed>>
    BY <1>3, <2>1, <2>2
  <2>3. ASSUME NEW u \in Tables, SyncConstraints(r, u, TRUE, TRUE)
        PROVE  Ready(v, t)'
    <3>1. keying = "alter" => WantedKeys(v, t) = Keys[v][t]
      BY DEF WantedKeys
    <3>2. /\ indexed'[t] = indexed[t] \/ indexed'[t] = v
          /\ keyed'[t] = keyed[t] \/ (keying = "alter" /\ (keyed[t] = Keys[v][t] => keyed'[t] = Keys[v][t]))
      <4>1. /\ \A w \in Tables \ {u} : keyed'[w] = keyed[w] /\ indexed'[w] = indexed[w]
            /\ indexed'[u] = indexed[u] \/ indexed'[u] = v
            /\ keyed'[u] = keyed[u]
                 \/ (keying = "alter" /\ (keyed[u] = Keys[v][u] => keyed'[u] = Keys[v][u]))
        BY <1>1, <2>3, ConstraintsAre
      <4> QED BY <1>2, <4>1
    <3> QED BY <1>1, <2>1, <3>1, <3>2 DEF Ready
  <2> QED BY <1>5, <2>2, <2>3, ConstraintsOf
<1>6. CASE DropRemoved(r)
  BY <1>2, <1>3, <1>6, DropIs
<1> QED BY <1>3, <1>4, <1>5, <1>6, QuietSchema

(* So does a table that has its keys, or does not exist, where keys are    *)
(* changed only by rebuilding.                                             *)
LEMMA GoodStays ==
  ASSUME TypeOK, LocalInv, OpsInv, NEW v \in Versions, AllCarry(v), NEW r \in Runs,
         Run(r) \/ NoticeLoss(r) \/ Crash(r), keying = "recreate", NEW t \in Wanted(v), Good(v, t)
  PROVE  Good(v, t)'
<1>1. keying' = keying /\ WantedKeys(v, t)' = WantedKeys(v, t)
  BY QuietSchema DEF WantedKeys
<1>2. t \in Tables /\ t \in Inventory(r)
  BY OneVersion
<1>3. CASE live'[t] = live[t] /\ keyed'[t] = keyed[t]
  BY <1>1, <1>3 DEF Good
<1>4. CASE TableStatement(r)
  <2>1. \/ live'[t] = live[t] /\ keyed'[t] = keyed[t]
        \/ keyed'[t] = WantedKeys(v, t)
        \/ keyed'[t] = keyed[t] /\ live[t] # {}
    BY <1>2, <1>4, StatementIs
  <2> QED BY <1>1, <1>3, <2>1 DEF Good
<1>5. CASE TableConstraints(r) \/ DeferredConstraints(r)
  <2>1. live' = live /\ (UNCHANGED <<keyed, indexed>> \/ \E u \in Tables : SyncConstraints(r, u, TRUE, TRUE))
    BY <1>5, ConstraintsOf
  <2>2. keyed'[t] = keyed[t]
    BY <1>1, <1>2, <2>1, ConstraintsAre
  <2> QED BY <1>3, <2>1, <2>2
<1>6. CASE DropRemoved(r)
  BY <1>2, <1>3, <1>6, DropIs
<1> QED BY <1>3, <1>4, <1>5, <1>6, QuietSchema


-----------------------------------------------------------------------------
(* One version: the keys *)

LEMMA KeysInit ==
  ASSUME Init, NEW v \in Versions
  PROVE  KeysInv(v)
<1>1. keying = "none" => \A t \in Tables : keyed[t] = {}
  BY DEF Init, WantedKeys
<1>2. ASSUME NEW t \in Wanted(v), keying = "recreate"
      PROVE  Good(v, t) \/ Stale(v, snapshot[t], t)
  <2>1. t \in Tables /\ Before \in Versions /\ Before # "none"
    BY ModelAssumption DEF Wanted
  <2>2. CASE Desired[Before][t] = {}
    BY <2>1, <2>2 DEF Init, Good
  <2>3. CASE Desired[Before][t] # {}
    <3>1. keyed[t] = Keys[Before][t] /\ snapshot[t] = Before
      BY <1>2, <2>1, <2>3 DEF Init, WantedKeys
    <3> QED BY <1>2, <2>1, <3>1 DEF Good, Stale, WantedKeys
  <2> QED BY <2>2, <2>3
<1>3. \A r \in Runs : ~Visiting(r)
  BY DEF Init, Visiting, InWalk, InSteps
<1> QED BY <1>1, <1>2, <1>3 DEF KeysInv

(* Keys that no database has are not made.                                 *)
LEMMA NoKeysStay ==
  ASSUME TypeOK, LocalInv, OpsInv, NEW v \in Versions, AllCarry(v), NEW r \in Runs,
         Run(r) \/ NoticeLoss(r) \/ Crash(r), keying = "none", NEW t \in Tables, keyed[t] = {}
  PROVE  keyed'[t] = {}
<1>1. keying' = keying /\ WantedKeys(v, t) = {}
  BY QuietSchema DEF WantedKeys
<1>2. CASE TableStatement(r)
  <2>1. keyed'[t] = keyed[t] \/ keyed'[t] = WantedKeys(v, t)
    BY <1>2, StatementIs
  <2> QED BY <1>1, <2>1
<1>3. CASE TableConstraints(r) \/ DeferredConstraints(r)
  <2>1. UNCHANGED <<keyed, indexed>> \/ \E u \in Tables : SyncConstraints(r, u, TRUE, TRUE)
    BY <1>3, ConstraintsOf
  <2> QED BY <1>1, <2>1, ConstraintsAre
<1>4. CASE DropRemoved(r)
  BY <1>4 DEF TypeOK, DropRemoved
<1> QED BY <1>2, <1>3, <1>4, QuietSchema

(* A run that walks has been walking, or begins after its discovery.       *)
LEMMA VisitKeeps ==
  ASSUME TypeOK, LocalInv, NEW r \in Runs, Run(r) \/ NoticeLoss(r) \/ Crash(r), Visiting(r)'
  PROVE  \/ /\ pc'[r] = "walk"
            /\ job'[r] = [OrderedSteps(r) EXCEPT !.seen = live, !.stored = snapshot, !.phase = "early"]
         \/ /\ Visiting(r) /\ job'[r].seen = job[r].seen /\ job'[r].stored = job[r].stored
            /\ job[r].failed \subseteq job'[r].failed
            /\ pc[r] \in {"snapshots", "track", "hash"} => pc'[r] \in {"snapshots", "track", "hash"}
<1>1. job[r] \in Jobs /\ PhaseOK(pc[r], job[r])
  BY DEF TypeOK, LocalInv
<1>2. ASSUME AcquireLock(r) \/ DoubleCheck(r) \/ DiscoverTracked(r) \/ Finally(r) \/ Crash(r)
      PROVE  FALSE
  <2>1. CASE AcquireLock(r) \/ DiscoverTracked(r) \/ Finally(r) \/ Crash(r)
    <3>1. pc'[r] \notin InWalk \cup InSteps
      BY <2>1 DEF TypeOK, AcquireLock, QuickHash, QuickSteps, TryAcquire, LockWait, PeerHash, PeerSteps,
           DiscoverTracked, Finally, Crash, Report, Goto, InWalk, InSteps
    <3> QED BY <3>1 DEF Visiting
  <2>2. CASE DoubleCheck(r)
    <3>1. PICK q \in job[r].unread : job'[r] = [job[r] EXCEPT
             !.unread = @ \ {q},
             !.todo = IF q = "steps" THEN StepIds \ recorded ELSE @,
             !.match = IF q = "hash" THEN r \notin ForceRuns /\ hash = Carries[r] ELSE @]
      BY <2>2 DEF TypeOK, DoubleCheck, SetJob
    <3>2. job'[r].phase = "late" /\ pc'[r] \in {"check", "steps", "tracking"}
      BY <1>1, <2>2, <3>1 DEF TypeOK, Jobs, PhaseOK, BeforeCheck, DoubleCheck, Goto
    <3> QED BY <3>2 DEF Visiting, InWalk
  <2> QED BY <1>2, <2>1, <2>2
<1>3. CASE Introspect(r)
  BY <1>3 DEF TypeOK, Introspect, Aborts, Report, Goto, SetJob, Visiting, InWalk, InSteps
<1>4. CASE BeginTable(r) \/ TableStatement(r) \/ TableConstraints(r) \/ BeginDeferred(r)
           \/ DeferredConstraints(r) \/ DropRemoved(r)
  <2>1. Walked(job[r], job'[r])
    BY <1>4, TableKeeps, DeferredKeeps, DropKeeps DEF Visited
  <2>2. pc[r] \in {"walk", "table", "constraints", "deferred"}
    BY <1>4 DEF BeginTable, TableStatement, TableConstraints, BeginDeferred, DeferredConstraints, DropRemoved
  <2> QED BY <2>1, <2>2 DEF Walked, Visiting, InWalk
<1>5. CASE EndWalk(r) \/ WriteSnapshot(r) \/ NoticeLoss(r)
  <2>1. \A S : SetJob(r, [job[r] EXCEPT !.unsaved = S]) \/ SetJob(r, [job[r] EXCEPT !.abort = TRUE]) =>
          /\ job'[r].seen = job[r].seen /\ job'[r].stored = job[r].stored
          /\ job'[r].failed = job[r].failed /\ job'[r].phase = job[r].phase
    BY <1>1 DEF TypeOK, SetJob, Jobs
  <2>2. CASE NoticeLoss(r)
    BY <2>1, <2>2 DEF NoticeLoss, Visiting
  <2>3. CASE EndWalk(r)
    BY <2>1, <2>3 DEF EndWalk, Aborts, Visiting, InWalk
  <2>4. CASE WriteSnapshot(r)
    BY <2>1, <2>4 DEF TypeOK, WriteSnapshot, Goto, Visiting, InWalk
  <2> QED BY <1>5, <2>2, <2>3, <2>4
<1>6. ASSUME AfterExecute(r)
      PROVE  ~Visiting(r)'
  <2>1. CASE job[r].failed = {} /\ ~job[r].stepError
    <3>1. pc'[r] = "steps" /\ job'[r] = [job[r] EXCEPT !.phase = "late", !.todo = LateTodo(r)]
      BY <1>6, <2>1 DEF TypeOK, AfterExecute, SetJob, Goto
    <3>2. job'[r].phase = "late"
      BY <1>1, <3>1 DEF Jobs
    <3> QED BY <3>1, <3>2 DEF Visiting, InWalk
  <2>2. CASE ~(job[r].failed = {} /\ ~job[r].stepError)
    BY <1>6, <2>2 DEF TypeOK, AfterExecute, Report, Goto, Visiting, InWalk, InSteps
  <2> QED BY <2>1, <2>2
<1>7. CASE WriteTracked(r) \/ WriteHash(r)
  BY <1>6, <1>7 DEF TypeOK, WriteTracked, WriteHash, Goto, Visiting, InWalk
<1>8. CASE ApplyDataSteps(r)
  <2>1. pc[r] \in InSteps /\ pc[r] \notin {"snapshots", "track", "hash"}
    BY <1>8 DEF ApplyDataSteps, StepsDone, StepBegin, StepRun, StepRecord, InSteps
  <2>2. ASSUME NEW s, StepSettled(r, s)
        PROVE  /\ pc'[r] = "steps" /\ job'[r].phase = job[r].phase /\ job'[r].failed = job[r].failed
               /\ job'[r].seen = job[r].seen /\ job'[r].stored = job[r].stored
    BY <1>1, <2>2 DEF TypeOK, StepSettled, SetJob, Goto, Jobs
  <2>3. CASE \E s : StepSettled(r, s)
    BY <2>1, <2>2, <2>3 DEF Visiting, InWalk, InSteps
  <2>4. CASE StepThrows(r)
    <3>1. CASE job[r].phase = "early" /\ ~job[r].match
      <4>1. job'[r] = [job[r] EXCEPT !.stepError = TRUE, !.deferred = {}, !.pass = FALSE,
                          !.failed = @ \cup job[r].deferred]
        BY <2>4, <3>1 DEF TypeOK, StepThrows, SetJob
      <4> QED BY <1>1, <2>1, <3>1, <4>1 DEF Jobs, Visiting
    <3>2. CASE ~(job[r].phase = "early" /\ ~job[r].match)
      BY <2>4, <3>2 DEF TypeOK, StepThrows, Report, Goto, Visiting, InWalk, InSteps
    <3> QED BY <3>1, <3>2
  <2>5. CASE UNCHANGED job /\ pc'[r] \in InSteps
    BY <2>1, <2>5 DEF Visiting, InWalk, InSteps
  <2>6. CASE StepsDone(r) \/ Aborts(r)
    <3>1. UNCHANGED job /\ (pc'[r] = "finally" \/ job[r].phase = "early")
      BY <2>6 DEF TypeOK, StepsDone, Aborts, Report, Goto
    <3> QED BY <2>1, <3>1 DEF Visiting, InWalk, InSteps
  <2> QED BY <1>8, <2>3, <2>4, <2>5, <2>6
       DEF TypeOK, ApplyDataSteps, StepBegin, StepRun, StepRecord, Goto, InSteps
<1> QED BY <1>2, <1>3, <1>4, <1>5, <1>7, <1>8 DEF Run, Execute

(* As long as no lease was lost, only one run works.                       *)
LEMMA OneWorks ==
  ASSUME TypeOK, WorkInv, lost = 0, NEW q \in Runs, Visiting(q), NEW r \in Runs, Working(r)
  PROVE  q = r
<1>1. Workers \ {holder} \in SUBSET Runs
  BY DEF Workers
<1>2. Cardinality(Workers \ {holder}) = 0
  BY <1>1, WorkersFinite DEF WorkInv
<1>3. Workers \ {holder} = {}
  BY <1>1, <1>2, WorkersFinite, FS_EmptySet
<1>4. Working(q)
  BY DEF Visiting, InWalk, InSteps, Working
<1> QED BY <1>3, <1>4 DEF Workers

LEMMA SnapshotsAre ==
  ASSUME TypeOK, NEW v \in Versions, AllCarry(v), NEW r \in Runs,
         Run(r) \/ NoticeLoss(r) \/ Crash(r), NEW t \in Wanted(v)
  PROVE  snapshot'[t] = snapshot[t]
           \/ (snapshot'[t] = v /\ pc[r] = "snapshots" /\ t \in job[r].unsaved)
<1>1. t \in Tables /\ t \in Inventory(r) /\ Carries[r] = v
  BY DEF Wanted, Inventory, AllCarry
<1>2. CASE WriteSnapshot(r)
  BY <1>1, <1>2 DEF TypeOK, WriteSnapshot, AtSnapshot, IsFirst
<1> QED BY <1>2, QuietSchema

LEMMA StoredStep == TypeOK /\ LocalInv /\ WorkInv /\ StoredInv /\ [Next]_vars => StoredInv'
<1> SUFFICES ASSUME TypeOK, LocalInv, WorkInv, StoredInv, [Next]_vars, lost' = 0,
                    NEW q \in Runs, Visiting(q)', pc'[q] \notin {"snapshots", "track", "hash"}
             PROVE  job'[q].stored = snapshot'
  BY DEF StoredInv
<1>1. lost = 0
  BY LostGrows
<1>2. CASE LeaseExpires \/ UNCHANGED vars
  BY <1>1, <1>2, QuietEnvironment DEF StoredInv, Visiting
<1>3. ASSUME NEW r \in Runs, Run(r) \/ NoticeLoss(r) \/ Crash(r)
      PROVE  job'[q].stored = snapshot'
  <2>1. CASE q # r
    <3>1. Visiting(q) /\ pc'[q] = pc[q] /\ job'[q] = job[q]
      BY <1>3, <2>1, OthersStay DEF Visiting
    <3>2. ~WriteSnapshot(r)
      BY <1>1, <2>1, <3>1, OneWorks DEF WriteSnapshot, Working
    <3> QED BY <1>1, <1>3, <3>1, <3>2, QuietSchema DEF StoredInv
  <2>2. CASE q = r
    <3>1. job[r] \in Jobs
      BY DEF TypeOK
    <3>2. ~WriteSnapshot(r)
      BY <2>2 DEF TypeOK, WriteSnapshot, Goto
    <3>3. snapshot' = snapshot
      BY <1>3, <3>2, QuietSchema
    <3>4. CASE job'[r] = [OrderedSteps(r) EXCEPT !.seen = live, !.stored = snapshot, !.phase = "early"]
      BY <2>2, <3>1, <3>3, <3>4 DEF OrderedSteps, Jobs
    <3> QED BY <1>1, <1>3, <2>2, <3>3, <3>4, VisitKeeps DEF StoredInv
  <2> QED BY <2>1, <2>2
<1> QED BY <1>2, <1>3 DEF Next

(* A run at a table that is to be rebuilt rebuilds it, or fails.           *)
LEMMA RebuildStays ==
  ASSUME TypeOK, LocalInv, OpsInv, NEW v \in Versions, AllCarry(v), NEW r \in Runs,
         Run(r) \/ NoticeLoss(r) \/ Crash(r), keying = "recreate", NEW t \in Wanted(v),
         Visiting(r), Visiting(r)', ToRebuild(r, t),
         job'[r].seen = job[r].seen, job'[r].stored = job[r].stored
  PROVE  Good(v, t)' \/ t \in job'[r].failed \/ ToRebuild(r, t)'
<1>1. /\ t \in Tables /\ Carries[r] = v /\ job[r] \in Jobs /\ WalkOK(r, pc[r], job[r])
      /\ keying' = keying /\ t \in job[r].tables /\ job[r].tables # {}
  BY OneVersion, QuietSchema DEF ToRebuild
<1>2. ColumnOps(r, t) = {<<"recreate", "-">>}
  BY DEF ToRebuild, ColumnOps
<1>3. pc[r] \in {"walk", "table", "constraints"}
  BY <1>1 DEF WalkOK, Visiting, InWalk, InSteps
<1>4. ASSUME t \in job'[r].tables, ~(pc'[r] = "constraints" /\ AtTable(r, t)')
      PROVE  ToRebuild(r, t)'
  BY <1>4 DEF ToRebuild, KeysDiffer
<1>5. ASSUME NEW u \in Tables, AtTable(r, u), u # t, NEW ops,
             ColumnsDone(r, u, [job[r] EXCEPT !.ops = ops])
      PROVE  ToRebuild(r, t)'
  <2>1. CASE EarlyTodo(r) # {}
    <3>1. /\ job'[r] = [[job[r] EXCEPT !.ops = ops] EXCEPT !.deferred = @ \cup {u}, !.tables = @ \ {u}]
          /\ pc'[r] = "walk"
      BY <1>5, <2>1 DEF TypeOK, ColumnsDone, SetJob, Goto
    <3> QED BY <1>1, <1>4, <1>5, <3>1 DEF Jobs
  <2>2. CASE EarlyTodo(r) = {}
    <3>1. job'[r] = [job[r] EXCEPT !.ops = ops]
      BY <1>5, <2>2 DEF TypeOK, ColumnsDone, SetJob
    <3>2. job'[r].tables = job[r].tables
      BY <1>1, <3>1 DEF Jobs
    <3>3. ~AtTable(r, t)'
      BY <1>5, <3>2, OneTable DEF AtTable
    <3> QED BY <1>1, <1>4, <3>2, <3>3
  <2> QED BY <2>1, <2>2
<1>6. ASSUME NEW u \in Tables, TableFails(r, u)
      PROVE  t \in job'[r].failed \/ ToRebuild(r, t)'
  <2>1. /\ job'[r] = [job[r] EXCEPT !.failed = @ \cup {u}, !.ops = {}, !.tables = @ \ {u}]
        /\ pc'[r] = "walk"
    BY <1>6 DEF TypeOK, TableFails, SetJob, Goto
  <2> QED BY <1>1, <1>4, <2>1 DEF Jobs
<1>7. ASSUME NEW ops, SetJob(r, [job[r] EXCEPT !.ops = ops]), pc'[r] = "table"
      PROVE  ToRebuild(r, t)'
  <2>1. job'[r] = [job[r] EXCEPT !.ops = ops]
    BY <1>7 DEF TypeOK, SetJob
  <2> QED BY <1>1, <1>4, <1>7, <2>1 DEF Jobs
<1>8. CASE BeginTable(r)
  <2>1. ~Aborts(r)
    BY DEF TypeOK, Aborts, Report, Goto, Visiting, InWalk, InSteps
  <2>2. PICK u \in Tables : AtTable(r, u) /\
          IF ColumnOps(r, u) = {} THEN ColumnsDone(r, u, job[r])
          ELSE SetJob(r, [job[r] EXCEPT !.ops = ColumnOps(r, u)]) /\ Goto(r, "table")
    BY <1>8, <2>1 DEF BeginTable
  <2>3. CASE ColumnOps(r, u) = {}
    <3>1. job[r] = [job[r] EXCEPT !.ops = {}]
      BY <1>1, <1>8 DEF BeginTable, TypeOK, Jobs
    <3>2. u # t
      BY <1>2, <2>3
    <3> QED BY <1>5, <2>2, <2>3, <3>1, <3>2
  <2>4. CASE ColumnOps(r, u) # {}
    BY <1>7, <2>2, <2>4 DEF TypeOK, Goto
  <2> QED BY <2>3, <2>4
<1>9. CASE TableStatement(r)
  <2>1. PICK u \in Tables : \E op \in job[r].ops :
          /\ AtTable(r, u)
          /\ \/ /\ Effect(r, u, op)
                /\ \/ ColumnsDone(r, u, [job[r] EXCEPT !.ops = job[r].ops \ {op}])
                   \/ SetJob(r, [job[r] EXCEPT !.ops = job[r].ops \ {op}]) /\ Goto(r, "table")
             \/ TableFails(r, u)
    BY <1>9 DEF TableStatement
  <2>2. CASE u = t
    <3>1. CASE TableFails(r, u)
      BY <1>6, <3>1
    <3>2. CASE ~TableFails(r, u)
      <4>1. job[r].ops \subseteq ColumnOps(r, t)
        BY <1>1, <1>9, <2>1, <2>2 DEF TableStatement, OpsInv
      <4>2. Effect(r, t, <<"recreate", "-">>)
        BY <1>2, <2>1, <2>2, <3>2, <4>1
      <4>3. keyed'[t] = WantedKeys(v, t)
        BY <1>1, <4>2 DEF TypeOK, Effect
      <4> QED BY <1>1, <4>3 DEF Good, WantedKeys
    <3> QED BY <3>1, <3>2
  <2>3. CASE u # t
    BY <1>5, <1>6, <1>7, <2>1, <2>3 DEF TypeOK, Goto
  <2> QED BY <2>2, <2>3
<1>10. CASE TableConstraints(r)
  <2>1. PICK u \in Tables : /\ AtTable(r, u) /\ pc[r] = "constraints"
          /\ \/ SetJob(r, [job[r] EXCEPT !.tables = @ \ {u}]) /\ Goto(r, "walk")
             \/ TableFails(r, u)
    BY <1>10 DEF TableConstraints, SyncConstraints
  <2>2. CASE SetJob(r, [job[r] EXCEPT !.tables = @ \ {u}]) /\ Goto(r, "walk")
    <3>1. job'[r] = [job[r] EXCEPT !.tables = @ \ {u}] /\ pc'[r] = "walk" /\ u # t
      BY <2>1, <2>2 DEF TypeOK, SetJob, Goto, ToRebuild
    <3> QED BY <1>1, <1>4, <3>1 DEF Jobs
  <2> QED BY <1>6, <2>1, <2>2
<1>11. CASE NoticeLoss(r)
  <2>1. job'[r] = [job[r] EXCEPT !.abort = TRUE] /\ pc' = pc
    BY <1>11 DEF TypeOK, NoticeLoss, SetJob
  <2>2. job'[r].tables = job[r].tables
    BY <1>1, <2>1 DEF Jobs
  <2> QED BY <1>1, <1>4, <2>1, <2>2 DEF ToRebuild, AtTable
<1>12. ~Crash(r)
  BY DEF TypeOK, Crash, Goto, Visiting, InWalk, InSteps
<1>13. ~(AcquireLock(r) \/ DoubleCheck(r) \/ DiscoverTracked(r) \/ Introspect(r) \/ Finally(r))
  BY <1>3 DEF AcquireLock, QuickHash, QuickSteps, TryAcquire, LockWait, PeerHash, PeerSteps,
              DoubleCheck, DiscoverTracked, Introspect, Finally
<1>14. ~(BeginDeferred(r) \/ DeferredConstraints(r) \/ DropRemoved(r) \/ EndWalk(r) \/ WriteSnapshot(r)
         \/ WriteTracked(r) \/ WriteHash(r) \/ ApplyDataSteps(r))
  BY <1>1, <1>3 DEF BeginDeferred, DeferredConstraints, DropRemoved, EndWalk, WriteSnapshot, AtPass, AtDrop,
              AtEnd, WriteTracked, WriteHash, ApplyDataSteps, StepsDone, StepBegin, StepRun, StepRecord
<1> QED BY <1>8, <1>9, <1>10, <1>11, <1>12, <1>13, <1>14 DEF Run, Execute

LEMMA KeysStep ==
  ASSUME TypeOK, LocalInv, OpsInv, NEW v \in Versions, AllCarry(v), KeysInv(v), [Next]_vars
  PROVE  KeysInv(v)'
<1>1. CASE LeaseExpires \/ UNCHANGED vars
  BY <1>1, QuietEnvironment DEF KeysInv, Good, Stale, ToRebuild, AtTable, KeysDiffer, Visiting,
     WantedKeys, Wanted
<1>2. ASSUME NEW r \in Runs, Run(r) \/ NoticeLoss(r) \/ Crash(r)
      PROVE  KeysInv(v)'
  <2>1. keying' = keying
    BY <1>2, QuietSchema
  <2>2. ASSUME keying = "none", NEW t \in Tables
        PROVE  keyed'[t] = {}
    BY <1>2, <2>2, NoKeysStay DEF KeysInv
  <2>3. ASSUME keying = "recreate", NEW t \in Wanted(v), ~Good(v, t)'
        PROVE  /\ Stale(v, snapshot[t], t)'
               /\ \A q \in Runs : Visiting(q)' => t \in job'[q].failed \/ ToRebuild(q, t)'
    <3>1. ~Good(v, t) /\ Stale(v, snapshot[t], t) /\ t \in Inventory(r)
      BY <1>2, <2>3, GoodStays, OneVersion DEF KeysInv
    <3>2. ASSUME NEW q \in Runs, Visiting(q)
          PROVE  t \in job[q].failed \/ ToRebuild(q, t)
      BY <2>3, <3>1, <3>2 DEF KeysInv
    <3>3. snapshot'[t] = snapshot[t]
      <4>1. CASE pc[r] = "snapshots" /\ t \in job[r].unsaved
        <5>1. Visiting(r) /\ WalkOK(r, pc[r], job[r])
          BY <4>1 DEF Visiting, InWalk, LocalInv
        <5> QED BY <3>1, <3>2, <4>1, <5>1 DEF WalkOK, ToRebuild
      <4> QED BY <1>2, <4>1, SnapshotsAre
    <3>4. ASSUME NEW q \in Runs, q # r, Visiting(q)'
          PROVE  t \in job'[q].failed \/ ToRebuild(q, t)'
      <4>1. pc'[q] = pc[q] /\ job'[q] = job[q]
        BY <1>2, <3>4, OthersStay
      <4> QED BY <3>2, <3>4, <4>1 DEF Visiting, ToRebuild, AtTable, KeysDiffer
    <3>5. ASSUME Visiting(r)'
          PROVE  t \in job'[r].failed \/ ToRebuild(r, t)'
      <4>1. CASE /\ pc'[r] = "walk"
                 /\ job'[r] = [OrderedSteps(r) EXCEPT !.seen = live, !.stored = snapshot, !.phase = "early"]
        <5>1. job[r] \in Jobs /\ Carries[r] = v
          BY DEF TypeOK, AllCarry
        <5>2. job'[r].tables = Inventory(r) /\ job'[r].seen = live /\ job'[r].stored = snapshot
          BY <4>1, <5>1 DEF Jobs, OrderedSteps
        <5> QED BY <3>1, <4>1, <5>1, <5>2 DEF ToRebuild, KeysDiffer, Good, Stale
      <4>2. CASE /\ Visiting(r) /\ job'[r].seen = job[r].seen /\ job'[r].stored = job[r].stored
                 /\ job[r].failed \subseteq job'[r].failed
        BY <1>2, <2>3, <3>2, <3>5, <4>2, RebuildStays
      <4> QED BY <1>2, <3>5, <4>1, <4>2, VisitKeeps
    <3> QED BY <3>1, <3>3, <3>4, <3>5 DEF Stale
  <2> QED BY <2>1, <2>2, <2>3 DEF KeysInv, Wanted
<1> QED BY <1>1, <1>2 DEF Next

-----------------------------------------------------------------------------
(* One version: what a run believes *)

LEMMA SettledStays ==
  ASSUME TypeOK, LocalInv, OpsInv, StoredInv, NEW v \in Versions, AllCarry(v), Settled(v), [Next]_vars
  PROVE  Settled(v)'
<1>1. CASE LeaseExpires \/ UNCHANGED vars
  <2>1. lost <= lost' /\ lost \in Nat /\ lost' \in Nat
    BY LostGrows
  <2> QED BY <1>1, <2>1, QuietEnvironment DEF Settled, Ready, Stale, Wanted, WantedKeys
<1>2. ASSUME NEW r \in Runs, Run(r) \/ NoticeLoss(r) \/ Crash(r), NEW t \in Wanted(v)
      PROVE  Ready(v, t)' /\ ~Stale(v, snapshot[t], t)'
  <2>1. ~Rebuilds(v, r, t)
    BY DEF Rebuilds, StoredInv, Settled, Visiting, InWalk
  <2>2. Ready(v, t)'
    BY <1>2, <2>1, ReadyStays DEF Settled
  <2>3. ~Stale(v, snapshot'[t], t)
    BY <1>2, SnapshotsAre DEF Settled, Stale
  <2> QED BY <2>2, <2>3 DEF Stale
<1> QED BY <1>1, <1>2 DEF Next, Settled, Wanted

(* The constraints of a table make it ready: ...                           *)
LEMMA ConstraintsMakeReady ==
  ASSUME TypeOK, LocalInv, NEW v \in Versions, AllCarry(v), KeysInv(v), NEW r \in Runs,
         NEW t \in Wanted(v), pc[r] = "deferred" \/ (pc[r] = "constraints" /\ AtTable(r, t)),
         keying' = keying, live' = live, Desired[v][t] \subseteq live[t],
         indexed' = [indexed EXCEPT ![t] = v], KeysAltered(v, t)
  PROVE  Ready(v, t)' \/ t \in job[r].failed
<1>1. /\ t \in Tables /\ Desired[v][t] # {} /\ WalkOK(r, pc[r], job[r])
      /\ keying \in Keyings /\ WantedKeys(v, t)' = WantedKeys(v, t)
  BY ModelAssumption DEF Wanted, LocalInv, TypeOK, WantedKeys
<1>2. keyed'[t] = WantedKeys(v, t) => Ready(v, t)'
  BY <1>1 DEF TypeOK, Ready
<1>3. CASE keying = "recreate"
  <2>1. Visiting(r) /\ ~ToRebuild(r, t)
    BY <1>1 DEF Visiting, InWalk, ToRebuild, WalkOK
  <2>2. Good(v, t) \/ t \in job[r].failed
    BY <1>3, <2>1 DEF KeysInv
  <2> QED BY <1>1, <1>2, <1>3, <2>2 DEF Good, KeysAltered
<1>4. CASE keying # "recreate"
  BY <1>1, <1>2, <1>4 DEF KeysInv, KeysAltered, WantedKeys, Keyings, TypeOK
<1> QED BY <1>3, <1>4

(* ... a run keeps account of its tables.                                  *)
LEMMA ColumnsDoneCovers ==
  ASSUME TypeOK, NEW v, NEW r \in Runs, NEW t \in job[r].tables, NEW ops,
         ColumnsDone(r, t, [job[r] EXCEPT !.ops = ops]),
         \A u \in Wanted(v) : Ready(v, u) => Ready(v, u)' \/ u = t, Covered(v, job[r])
  PROVE  Covered(v, job[r])'
<1>1. job[r] \in Jobs
  BY DEF TypeOK
<1>2. CASE EarlyTodo(r) # {}
  <2>1. job'[r] = [[job[r] EXCEPT !.ops = ops] EXCEPT !.deferred = @ \cup {t}, !.tables = @ \ {t}]
    BY <1>2 DEF TypeOK, ColumnsDone, SetJob
  <2> QED BY <1>1, <2>1 DEF Jobs, Covered, Wanted
<1>3. CASE EarlyTodo(r) = {}
  <2>1. job'[r] = [job[r] EXCEPT !.ops = ops]
    BY <1>3 DEF TypeOK, ColumnsDone, SetJob
  <2> QED BY <1>1, <2>1 DEF Jobs, Covered, Wanted
<1> QED BY <1>2, <1>3

LEMMA TableFailsCovers ==
  ASSUME TypeOK, NEW v, NEW r \in Runs, NEW t \in job[r].tables, TableFails(r, t),
         \A u \in Wanted(v) : Ready(v, u) => Ready(v, u)' \/ u = t, Covered(v, job[r])
  PROVE  Covered(v, job[r])'
<1>1. job[r] \in Jobs
  BY DEF TypeOK
<1>2. job'[r] = [job[r] EXCEPT !.failed = @ \cup {t}, !.ops = {}, !.tables = @ \ {t}]
  BY DEF TypeOK, TableFails, SetJob
<1> QED BY <1>1, <1>2 DEF Jobs, Covered, Wanted

LEMMA TableCovers ==
  ASSUME TypeOK, LocalInv, NEW v \in Versions, AllCarry(v), KeysInv(v), NEW r \in Runs,
         BeginTable(r) \/ TableStatement(r) \/ TableConstraints(r), Covered(v, job[r]),
         \A u \in Wanted(v) : Ready(v, u) => Ready(v, u)' \/ (pc[r] = "table" /\ AtTable(r, u))
  PROVE  Covered(v, job[r])'
<1>1. job[r] \in Jobs
  BY DEF TypeOK
<1>2. ASSUME NEW t \in Tables, AtTable(r, t)
      PROVE  t \in job[r].tables /\ \A u \in Wanted(v) : Ready(v, u) => Ready(v, u)' \/ u = t
  BY <1>2, OneTable DEF AtTable, IsFirst
<1>3. ASSUME NEW ops, SetJob(r, [job[r] EXCEPT !.ops = ops]), NEW t \in Tables, AtTable(r, t)
      PROVE  Covered(v, job[r])'
  <2>1. job'[r] = [job[r] EXCEPT !.ops = ops]
    BY <1>3 DEF TypeOK, SetJob
  <2> QED BY <1>1, <1>2, <1>3, <2>1 DEF Jobs, Covered, Wanted
<1>4. CASE BeginTable(r)
  <2>1. CASE Aborts(r)
    BY <1>4, <2>1 DEF BeginTable, Aborts, Covered, Wanted
  <2>2. CASE ~Aborts(r)
    <3>1. PICK t \in Tables : AtTable(r, t) /\
            LET ops == ColumnOps(r, t)
            IN  IF ops = {} THEN ColumnsDone(r, t, job[r])
                ELSE SetJob(r, [job[r] EXCEPT !.ops = ops])
      BY <1>4, <2>2 DEF BeginTable
    <3>2. job[r] = [job[r] EXCEPT !.ops = {}]
      BY <1>1, <1>4 DEF BeginTable, TypeOK, Jobs
    <3> QED BY <1>2, <1>3, <3>1, <3>2, ColumnsDoneCovers
  <2> QED BY <2>1, <2>2
<1>5. CASE TableStatement(r)
  <2>1. PICK t \in Tables, op \in job[r].ops :
          LET j == [job[r] EXCEPT !.ops = job[r].ops \ {op}]
          IN  AtTable(r, t) /\ (ColumnsDone(r, t, j) \/ SetJob(r, j) \/ TableFails(r, t))
    BY <1>5 DEF TableStatement
  <2> QED BY <1>2, <1>3, <2>1, ColumnsDoneCovers, TableFailsCovers
<1>6. CASE TableConstraints(r)
  <2>1. PICK t \in Tables :
          /\ AtTable(r, t)
          /\ \/ /\ Desired[v][t] \subseteq live[t] /\ indexed' = [indexed EXCEPT ![t] = v]
                /\ KeysAltered(v, t) /\ SetJob(r, [job[r] EXCEPT !.tables = @ \ {t}])
             \/ TableFails(r, t)
    BY <1>6 DEF TableConstraints, SyncConstraints, AllCarry
  <2>2. CASE /\ Desired[v][t] \subseteq live[t] /\ indexed' = [indexed EXCEPT ![t] = v]
             /\ KeysAltered(v, t) /\ SetJob(r, [job[r] EXCEPT !.tables = @ \ {t}])
    <3>1. job'[r] = [job[r] EXCEPT !.tables = @ \ {t}]
      BY <2>2 DEF TypeOK, SetJob
    <3>2. job'[r].tables = job[r].tables \ {t} /\ job'[r].deferred = job[r].deferred /\ job'[r].failed = job[r].failed
      BY <1>1, <3>1 DEF Jobs
    <3>3. t \in Wanted(v) => Ready(v, t)' \/ t \in job[r].failed
      BY <1>6, <2>1, <2>2, ConstraintsMakeReady DEF TableConstraints
    <3> QED BY <1>6, <3>2, <3>3 DEF TableConstraints, Covered, Wanted
  <2> QED BY <1>2, <2>1, <2>2, TableFailsCovers
<1> QED BY <1>4, <1>5, <1>6

LEMMA DeferredCovers ==
  ASSUME TypeOK, LocalInv, NEW v \in Versions, AllCarry(v), KeysInv(v), NEW r \in Runs,
         BeginDeferred(r) \/ DeferredConstraints(r) \/ DropRemoved(r), Covered(v, job[r]),
         \A u \in Wanted(v) : Ready(v, u) => Ready(v, u)' \/ (pc[r] = "table" /\ AtTable(r, u))
  PROVE  Covered(v, job[r])'
<1>1. job[r] \in Jobs /\ \A u \in Wanted(v) : Ready(v, u) => Ready(v, u)'
  BY DEF TypeOK, BeginDeferred, DeferredConstraints, DropRemoved
<1>2. ASSUME job'[r].tables = job[r].tables, job'[r].deferred = job[r].deferred,
             job[r].failed \subseteq job'[r].failed
      PROVE  Covered(v, job[r])'
  BY <1>1, <1>2 DEF Covered, Wanted
<1>3. CASE UNCHANGED job
  BY <1>2, <1>3
<1>4. CASE SetJob(r, [job[r] EXCEPT !.pass = FALSE])
  BY <1>1, <1>2, <1>4 DEF TypeOK, SetJob, Jobs
<1>5. CASE BeginDeferred(r)
  BY <1>3, <1>4, <1>5 DEF BeginDeferred, Aborts
<1>6. CASE DeferredConstraints(r)
  <2>1. CASE ~(UNCHANGED job) /\ ~SetJob(r, [job[r] EXCEPT !.pass = FALSE])
    <3>1. PICK t \in Tables :
            \/ /\ Desired[v][t] \subseteq live[t] /\ indexed' = [indexed EXCEPT ![t] = v]
               /\ KeysAltered(v, t) /\ SetJob(r, [job[r] EXCEPT !.deferred = @ \ {t}])
            \/ SetJob(r, [[job[r] EXCEPT !.deferred = @ \ {t}] EXCEPT !.failed = @ \cup {t}])
      BY <1>6, <2>1 DEF DeferredConstraints, SyncConstraints, Aborts, AllCarry
    <3>2. CASE /\ Desired[v][t] \subseteq live[t] /\ indexed' = [indexed EXCEPT ![t] = v]
               /\ KeysAltered(v, t) /\ SetJob(r, [job[r] EXCEPT !.deferred = @ \ {t}])
      <4>1. job'[r] = [job[r] EXCEPT !.deferred = @ \ {t}]
        BY <3>2 DEF TypeOK, SetJob
      <4>2. job'[r].tables = job[r].tables /\ job'[r].deferred = job[r].deferred \ {t} /\ job'[r].failed = job[r].failed
        BY <1>1, <4>1 DEF Jobs
      <4>3. t \in Wanted(v) => Ready(v, t)' \/ t \in job[r].failed
        BY <1>6, <3>2, ConstraintsMakeReady DEF DeferredConstraints
      <4> QED BY <1>1, <4>2, <4>3 DEF Covered, Wanted
    <3>3. CASE SetJob(r, [[job[r] EXCEPT !.deferred = @ \ {t}] EXCEPT !.failed = @ \cup {t}])
      <4>1. job'[r] = [[job[r] EXCEPT !.deferred = @ \ {t}] EXCEPT !.failed = @ \cup {t}]
        BY <3>3 DEF TypeOK, SetJob
      <4> QED BY <1>1, <4>1 DEF Jobs, Covered, Wanted
    <3> QED BY <3>1, <3>2, <3>3
  <2> QED BY <1>3, <1>4, <2>1
<1>7. CASE DropRemoved(r)
  <2>1. PICK t \in Tables :
        \/ UNCHANGED job
        \/ job'[r] = [job[r] EXCEPT !.drops = @ \ {t}]
        \/ job'[r] = [[job[r] EXCEPT !.drops = @ \ {t}] EXCEPT !.retained = @ \cup {t}]
        \/ job'[r] = [[[job[r] EXCEPT !.drops = @ \ {t}] EXCEPT !.retained = @ \cup {t}]
                         EXCEPT !.failed = @ \cup {t}]
    BY <1>7 DEF TypeOK, DropRemoved, SetJob, Aborts
  <2>2. CASE \/ job'[r] = [job[r] EXCEPT !.drops = @ \ {t}]
             \/ job'[r] = [[job[r] EXCEPT !.drops = @ \ {t}] EXCEPT !.retained = @ \cup {t}]
    BY ZenonT(60), <1>1, <1>2, <2>2 DEF Jobs
  <2>3. CASE job'[r] = [[[job[r] EXCEPT !.drops = @ \ {t}] EXCEPT !.retained = @ \cup {t}]
                           EXCEPT !.failed = @ \cup {t}]
    BY <1>1, <1>2, <2>3 DEF Jobs
  <2> QED BY <1>3, <2>1, <2>2, <2>3
<1> QED BY <1>5, <1>6, <1>7

LEMMA TruthInit ==
  ASSUME Init, NEW v \in Versions, AllCarry(v)
  PROVE  TruthInv(v)
<1>1. hash = v => Settled(v)
  <2> SUFFICES ASSUME v = Before, NEW t \in Wanted(v)
               PROVE  Ready(v, t) /\ ~Stale(v, snapshot[t], t)
    BY DEF Init, Settled
  <2>1. t \in Tables /\ live = Desired[v] /\ Desired[v][t] # {}
    BY DEF Wanted, Init
  <2> QED BY <2>1 DEF Init, Ready, Stale, WantedKeys
<1>2. \A r \in Runs : Faithful(v, r)
  BY DEF Init, Faithful, NewJob, Visiting, InWalk, InSteps, Succeeded
<1> QED BY <1>1, <1>2 DEF Init, TruthInv

(* A run that has walked without an error leaves every table in place.     *)
LEMMA WalkedIsSettled ==
  ASSUME NEW v, NEW r \in Runs, pc[r] \in {"track", "hash"}, job[r].failed = {},
         WalkOK(r, pc[r], job[r]), Faithful(v, r)
  PROVE  Settled(v)
BY DEF WalkOK, Faithful, Covered, Saved, Settled, Visiting, InWalk

LEMMA HashStep ==
  ASSUME TypeOK, LocalInv, NEW v \in Versions, AllCarry(v), TruthInv(v), [Next]_vars
  PROVE  hash' # hash => hash' = v /\ Settled(v)
<1>1. CASE LeaseExpires \/ UNCHANGED vars
  BY <1>1, QuietEnvironment
<1>2. ASSUME NEW r \in Runs, WriteHash(r)
      PROVE  hash' = v /\ Settled(v)
  <2>1. pc[r] = "hash" /\ hash' = v
    BY <1>2 DEF WriteHash, AllCarry
  <2>2. WalkOK(r, pc[r], job[r]) /\ job[r].failed = {}
    BY <2>1 DEF LocalInv, WalkOK
  <2> QED BY <2>1, <2>2, WalkedIsSettled DEF TruthInv
<1> QED BY <1>1, <1>2, QuietSchema DEF Next

LEMMA RunIsFaithful ==
  ASSUME TypeOK, LocalInv, ListInv, NEW v \in Versions, AllCarry(v), KeysInv(v), TruthInv(v),
         NEW r \in Runs, Run(r) \/ NoticeLoss(r) \/ Crash(r),
         \A u \in Wanted(v) : Ready(v, u) => Ready(v, u)' \/ (pc[r] = "table" /\ AtTable(r, u)),
         Settled(v) => Settled(v)', hash = v => hash' = v, recorded \subseteq recorded'
  PROVE  Faithful(v, r)'
<1>1. /\ job[r] \in Jobs /\ PhaseOK(pc[r], job[r]) /\ WalkOK(r, pc[r], job[r]) /\ Faithful(v, r)
      /\ hash = v => Settled(v)
      /\ Carries[r] = v
  BY DEF TypeOK, LocalInv, TruthInv, AllCarry
<1>2. \A u \in Wanted(v) : ~Stale(v, snapshot[u], u) => ~Stale(v, snapshot'[u], u)
  BY SnapshotsAre DEF Stale
<1>3. ASSUME pc[r] # "table", job'[r].tables = job[r].tables,
             job'[r].deferred \cup job'[r].failed = job[r].deferred \cup job[r].failed,
             Covered(v, job[r])
      PROVE  Covered(v, job[r])'
  BY <1>3 DEF Covered, Wanted
<1>4. status'[r] = status[r] \/ status'[r] \notin Succeeded =>
        (status'[r] \in Succeeded => Settled(v)' /\ StepIds \subseteq recorded')
  BY <1>1 DEF Faithful
<1>5. ASSUME pc'[r] = "finally", job' = job, status'[r] = status[r] \/ status'[r] \notin Succeeded
      PROVE  Faithful(v, r)'
  BY <1>1, <1>4, <1>5 DEF Faithful, Visiting, InWalk, InSteps
<1>6. CASE AcquireLock(r)
  <2>1. job' = job /\ pc[r] \in BeforeCheck /\ pc'[r] \in BeforeCheck \cup {"done"} /\ hash' = hash
    BY <1>6 DEF TypeOK, AcquireLock, QuickHash, QuickSteps, TryAcquire, LockWait, PeerHash,
         PeerSteps, Report, Goto, BeforeCheck
  <2>2. pc'[r] \in {"quickSteps", "peerSteps"} => hash = v
    BY <1>1, <1>6 DEF TypeOK, AcquireLock, QuickHash, QuickSteps, TryAcquire, LockWait, PeerHash,
         PeerSteps, Report, Goto
  <2>3. status'[r] \in Succeeded => Settled(v)' /\ StepIds \subseteq recorded'
    <3>1. CASE QuickHash(r) \/ TryAcquire(r) \/ PeerHash(r)
      BY <1>4, <3>1 DEF QuickHash, TryAcquire, PeerHash
    <3>2. CASE LockWait(r)
      BY <1>4, <3>2 DEF TypeOK, LockWait, Report, Succeeded
    <3>3. CASE QuickSteps(r) \/ PeerSteps(r)
      <4>1. hash = v
        BY <1>1, <3>3 DEF QuickSteps, PeerSteps, Faithful
      <4>2. CASE StepIds \subseteq recorded
        BY <1>1, <4>1, <4>2
      <4>3. CASE ~(StepIds \subseteq recorded)
        BY <1>4, <3>3, <4>3 DEF QuickSteps, PeerSteps
      <4> QED BY <4>2, <4>3
    <3> QED BY <1>6, <3>1, <3>2, <3>3 DEF AcquireLock
  <2> QED BY <1>1, <2>1, <2>2, <2>3 DEF Faithful, BeforeCheck, Visiting, InWalk, InSteps
<1>7. CASE DoubleCheck(r)
  <2>1. PICK q \in job[r].unread :
          LET j == [job[r] EXCEPT
             !.unread = @ \ {q},
             !.todo = IF q = "steps" THEN StepIds \ recorded ELSE @,
             !.match = IF q = "hash" THEN r \notin ForceRuns /\ hash = Carries[r] ELSE @]
          IN  /\ job'[r] = j
              /\ pc'[r] = IF j.unread # {} THEN "check" ELSE IF j.match THEN "steps" ELSE "tracking"
    BY <1>7 DEF TypeOK, DoubleCheck, SetJob, Goto
  <2>2. /\ job'[r].phase = job[r].phase
        /\ job'[r].match = IF q = "hash" THEN r \notin ForceRuns /\ hash = Carries[r] ELSE job[r].match
    BY <1>1, <2>1 DEF Jobs
  <2>3. pc[r] = "check" /\ hash' = hash /\ status' = status /\ job[r].phase = "late"
    BY <1>1, <1>7 DEF DoubleCheck, PhaseOK, BeforeCheck
  <2>4. job'[r].match => hash = v
    BY <1>1, <2>2 DEF Faithful
  <2>5. pc'[r] \in {"check", "steps", "tracking"} /\ (pc'[r] = "steps" => job'[r].match)
    BY <2>1
  <2> QED BY <1>1, <1>2, <1>4, <2>2, <2>3, <2>4, <2>5 DEF Faithful, Visiting, InWalk, InSteps
<1>8. CASE DiscoverTracked(r)
  <2>1. /\ pc'[r] = "introspect" /\ job'[r] = [job[r] EXCEPT !.prev = tracked]
        /\ hash' = hash /\ status' = status
    BY <1>8 DEF TypeOK, DiscoverTracked, SetJob, Goto
  <2>2. job'[r].match = job[r].match
    BY <1>1, <2>1 DEF Jobs
  <2> QED BY <1>1, <1>4, <2>1, <2>2 DEF Faithful, Visiting, InWalk, InSteps
<1>9. CASE Introspect(r)
  <2>1. CASE pc'[r] = "finally" /\ job' = job /\ status'[r] \in {"refused", "aborted"}
    BY <1>5, <2>1 DEF Succeeded
  <2>2. CASE job'[r] = [OrderedSteps(r) EXCEPT !.seen = live, !.stored = snapshot, !.phase = "early"] /\ pc'[r] = "walk"
             /\ status' = status
    <3>1. job'[r].tables = Wanted(v) /\ job'[r].match = job[r].match
      BY <1>1, <2>2 DEF Jobs, OrderedSteps, Inventory, Wanted
    <3>2. Covered(v, job[r])'
      BY <3>1 DEF Covered, Wanted
    <3> QED BY <1>1, <1>4, <2>2, <3>1, <3>2 DEF Faithful, Visiting, InWalk, InSteps
  <2> QED BY <1>9, <2>1, <2>2 DEF TypeOK, Introspect, Aborts, Report, Goto, SetJob
<1>10. CASE BeginTable(r) \/ TableStatement(r) \/ TableConstraints(r) \/ BeginDeferred(r)
            \/ DeferredConstraints(r) \/ DropRemoved(r)
  <2>1. /\ pc[r] \in InWalk /\ job'[r].match = job[r].match /\ job'[r].phase = job[r].phase
        /\ hash' = hash
    BY <1>10, TableKeeps, DeferredKeeps, DropKeeps DEF Visited, Walked, InWalk,
       BeginTable, TableStatement, TableConstraints, BeginDeferred, DeferredConstraints, DropRemoved
  <2>2. Covered(v, job[r])'
    BY <1>1, <1>10, <2>1, TableCovers, DeferredCovers DEF Faithful, Visiting
  <2>3. status'[r] = status[r] \/ status'[r] \notin Succeeded
    BY <1>10 DEF TypeOK, BeginTable, TableStatement, TableConstraints, BeginDeferred,
       DeferredConstraints, DropRemoved, Aborts, Report, Succeeded
  <2>4. pc'[r] \in {"walk", "table", "constraints", "deferred", "finally", "steps"}
    BY <1>10 DEF TypeOK, BeginTable, TableStatement, TableConstraints, BeginDeferred,
       DeferredConstraints, DropRemoved, Aborts, Report, Goto, ColumnsDone, TableFails,
       SyncConstraints
  <2> QED BY <1>1, <1>4, <2>1, <2>2, <2>3, <2>4 DEF Faithful, PhaseOK, Visiting, InWalk, InSteps
<1>11. ASSUME AfterExecute(r), pc[r] \in {"track", "hash"}
       PROVE  Faithful(v, r)'
  <2>1. CASE job[r].failed = {} /\ ~job[r].stepError
    <3>1. /\ pc'[r] = "steps" /\ status' = status
          /\ job'[r] = [job[r] EXCEPT !.phase = "late", !.todo = LateTodo(r)]
      BY <1>11, <2>1 DEF TypeOK, AfterExecute, SetJob, Goto
    <3>2. job'[r].phase = "late" /\ job'[r].match = job[r].match
      BY <1>1, <3>1 DEF Jobs
    <3>3. Settled(v)
      BY <1>1, <1>11, <2>1, WalkedIsSettled
    <3> QED BY <1>1, <1>2, <1>4, <3>1, <3>2, <3>3 DEF Faithful, Visiting, InWalk, InSteps
  <2>2. CASE ~(job[r].failed = {} /\ ~job[r].stepError)
    BY <1>5, <1>11, <2>2 DEF TypeOK, AfterExecute, Report, Goto, Succeeded
  <2> QED BY <2>1, <2>2
<1>12. CASE EndWalk(r) \/ WriteSnapshot(r) \/ (WriteTracked(r) /\ job[r].failed = {})
  <2>1. CASE Aborts(r) /\ EndWalk(r)
    BY <1>5, <2>1 DEF TypeOK, Aborts, Report, Goto, Succeeded
  <2>2. CASE ~(Aborts(r) /\ EndWalk(r))
    <3>1. /\ pc[r] \in InWalk /\ pc[r] # "table" /\ pc'[r] \in {"snapshots", "track", "hash"}
          /\ status' = status
      BY <1>12, <2>2 DEF TypeOK, EndWalk, WriteSnapshot, WriteTracked, Goto, InWalk
    <3>2. /\ job'[r].tables = job[r].tables /\ job'[r].deferred = job[r].deferred
          /\ job'[r].failed = job[r].failed /\ job'[r].match = job[r].match
      <4>1. ASSUME NEW S, SetJob(r, [job[r] EXCEPT !.unsaved = S])
            PROVE  /\ job'[r].tables = job[r].tables /\ job'[r].deferred = job[r].deferred
                   /\ job'[r].failed = job[r].failed /\ job'[r].match = job[r].match
        BY <1>1, <4>1 DEF TypeOK, SetJob, Jobs
      <4> QED BY <1>12, <2>2, <4>1 DEF EndWalk, WriteSnapshot, WriteTracked
    <3>3. Covered(v, job[r])'
      BY <1>1, <1>3, <3>1, <3>2 DEF Faithful, Visiting
    <3>4. Saved(v, job[r])'
      <4>1. CASE EndWalk(r)
        <5>1. PICK S : job'[r] = [job[r] EXCEPT !.unsaved = (Inventory(r) \ job[r].failed) \cup S]
          BY <2>2, <4>1 DEF TypeOK, EndWalk, SetJob
        <5> QED BY <1>1, <3>2, <5>1, OneVersion DEF Jobs, Saved, Wanted
      <4>2. CASE WriteSnapshot(r)
        <5>1. CASE job' = job
          BY <1>1, <1>2, <4>2, <5>1 DEF WriteSnapshot, Faithful, Saved, Wanted, Stale
        <5>2. CASE job' # job
          <6>1. PICK t \in Tables : /\ job'[r] = [job[r] EXCEPT !.unsaved = @ \ {t}]
                  /\ snapshot' = [snapshot EXCEPT ![t] = IF t \in Inventory(r) THEN Carries[r] ELSE "none"]
            BY <4>2, <5>2 DEF TypeOK, WriteSnapshot, SetJob
          <6>2. t \in Wanted(v) => snapshot'[t] = v
            BY <1>1, <6>1, OneVersion DEF TypeOK
          <6>3. job'[r].unsaved = job[r].unsaved \ {t}
            BY <1>1, <6>1 DEF Jobs
          <6> QED BY <1>1, <1>2, <3>2, <4>2, <6>2, <6>3 DEF WriteSnapshot, Faithful, Saved, Wanted, Stale
        <5> QED BY <5>1, <5>2
      <4>3. CASE WriteTracked(r) /\ job[r].failed = {}
        BY <1>1, <1>2, <4>3 DEF WriteTracked, Faithful, Saved, Wanted, Stale
      <4> QED BY <1>12, <4>1, <4>2, <4>3
    <3> QED BY <1>1, <1>4, <3>1, <3>2, <3>3, <3>4 DEF Faithful, Visiting, InWalk, InSteps
  <2> QED BY <2>1, <2>2
<1>13. CASE (WriteTracked(r) /\ job[r].failed # {}) \/ WriteHash(r)
  BY <1>11, <1>13 DEF WriteTracked, WriteHash
<1>14. CASE Finally(r) \/ Crash(r)
  <2>1. pc'[r] \in {"done", "dead"} /\ ~job'[r].match /\ status' = status
    BY <1>14 DEF TypeOK, Finally, Crash, Goto, SetJob, NewJob
  <2> QED BY <1>1, <1>4, <2>1 DEF Faithful, Visiting, InWalk, InSteps
<1>15. CASE NoticeLoss(r)
  <2>1. pc' = pc /\ status' = status /\ job'[r] = [job[r] EXCEPT !.abort = TRUE]
    BY <1>15 DEF TypeOK, NoticeLoss, SetJob
  <2>2. /\ job'[r].tables = job[r].tables /\ job'[r].deferred = job[r].deferred
        /\ job'[r].failed = job[r].failed /\ job'[r].match = job[r].match
        /\ job'[r].phase = job[r].phase /\ job'[r].unsaved = job[r].unsaved
    BY <1>1, <2>1 DEF Jobs
  <2>3. UNCHANGED <<hash, snapshot, schema, lost, keying, live, keyed, indexed>>
    BY <1>15 DEF NoticeLoss, schema, counters
  <2>4. Covered(v, job[r]) => Covered(v, job[r])'
    BY <2>2, <2>3 DEF Covered, Ready, Wanted, WantedKeys
  <2>5. Saved(v, job[r]) => Saved(v, job[r])'
    BY <2>2, <2>3 DEF Saved, Stale, Wanted
  <2> QED BY <1>1, <1>4, <2>1, <2>2, <2>3, <2>4, <2>5 DEF Faithful, Visiting
<1>16. CASE ApplyDataSteps(r)
  <2>1. pc[r] \in InSteps /\ pc[r] # "table" /\ hash' = hash
    BY <1>16 DEF ApplyDataSteps, StepsDone, StepBegin, StepRun, StepRecord, InSteps
  <2>2. ASSUME pc'[r] \in InSteps, status' = status,
               job'[r].tables = job[r].tables, job'[r].deferred = job[r].deferred,
               job'[r].failed = job[r].failed, job'[r].match = job[r].match,
               job'[r].phase = job[r].phase
        PROVE  Faithful(v, r)'
    BY <1>1, <1>2, <1>3, <1>4, <2>1, <2>2 DEF Faithful, Visiting, InWalk, InSteps
  <2>3. ASSUME NEW s, StepSettled(r, s), status' = status
        PROVE  Faithful(v, r)'
    <3>1. pc'[r] = "steps" /\ job'[r] = [job[r] EXCEPT !.todo = @ \ {s}]
      BY <2>3 DEF TypeOK, StepSettled, SetJob, Goto
    <3> QED BY <1>1, <2>2, <2>3, <3>1 DEF Jobs, InSteps
  <2>4. CASE StepThrows(r)
    <3>1. CASE job[r].phase = "early" /\ ~job[r].match
      <4>1. /\ pc'[r] = "walk" /\ status' = status
            /\ job'[r] = [job[r] EXCEPT !.stepError = TRUE, !.deferred = {}, !.pass = FALSE,
                            !.failed = @ \cup job[r].deferred]
        BY <2>4, <3>1 DEF TypeOK, StepThrows, SetJob, Goto
      <4>2. /\ job'[r].tables = job[r].tables /\ job'[r].match = job[r].match
            /\ job'[r].deferred \cup job'[r].failed = job[r].deferred \cup job[r].failed
        BY <1>1, <4>1 DEF Jobs
      <4>3. Covered(v, job[r])'
        BY <1>1, <1>3, <2>1, <3>1, <4>2 DEF Faithful, Visiting
      <4> QED BY <1>1, <1>4, <4>1, <4>2, <4>3 DEF Faithful, Visiting, InWalk, InSteps
    <3>2. CASE ~(job[r].phase = "early" /\ ~job[r].match)
      BY <1>5, <2>4, <3>2 DEF TypeOK, StepThrows, Report, Goto, Succeeded
    <3> QED BY <3>1, <3>2
  <2>5. CASE StepsDone(r)
    <3>1. CASE job[r].phase = "early" /\ ~job[r].match
      <4>1. pc'[r] = "deferred" /\ status' = status /\ job' = job
        BY <2>5, <3>1 DEF TypeOK, StepsDone, Goto
      <4>2. Covered(v, job[r])'
        BY <1>1, <1>3, <2>1, <3>1, <4>1 DEF Faithful, Visiting
      <4> QED BY <1>1, <1>4, <2>1, <4>1, <4>2 DEF Faithful, Visiting, InWalk, InSteps
    <3>2. CASE ~(job[r].phase = "early" /\ ~job[r].match)
      <4>1. pc'[r] = "finally" /\ status'[r] = "synced" /\ job' = job
        BY <2>5, <3>2 DEF TypeOK, StepsDone, Report, Goto
      <4>2. job[r].phase = "late" /\ Settled(v)
        BY <1>1, <2>1, <3>2 DEF PhaseOK, Jobs, Faithful
      <4>3. job[r].todo = {} /\ job[r].unread = {}
        BY <1>1, <2>1, <2>5, <4>2 DEF StepsDone, Due, WalkOK, PhaseOK
      <4>4. StepIds \subseteq recorded
        BY <4>3 DEF ListInv
      <4> QED BY <1>1, <1>2, <2>1, <4>1, <4>2, <4>4 DEF Faithful, Visiting, InWalk, InSteps
    <3> QED BY <3>1, <3>2
  <2>6. CASE StepBegin(r)
    <3>1. CASE Aborts(r)
      BY <1>5, <3>1 DEF TypeOK, Aborts, Report, Goto, Succeeded
    <3>2. CASE ~Aborts(r)
      BY <2>2, <2>3, <2>6, <3>2 DEF TypeOK, StepBegin, Goto, InSteps
    <3> QED BY <3>1, <3>2
  <2>7. CASE StepRun(r)
    BY <2>2, <2>3, <2>4, <2>7 DEF TypeOK, StepRun, Goto, InSteps
  <2>8. CASE StepRecord(r)
    BY <2>3, <2>8 DEF StepRecord
  <2> QED BY <1>16, <2>5, <2>6, <2>7, <2>8 DEF ApplyDataSteps
<1> QED BY <1>6, <1>7, <1>8, <1>9, <1>10, <1>12, <1>13, <1>14, <1>15, <1>16 DEF Run, Execute

LEMMA TruthStep ==
  ASSUME TypeOK, LocalInv, ListInv, OpsInv, WorkInv, NEW v \in Versions, AllCarry(v), KeysInv(v), StoredInv,
         TruthInv(v), [Next]_vars
  PROVE  TruthInv(v)'
<1>1. hash' # hash => hash' = v /\ Settled(v)
  BY HashStep
<1>2. recorded \subseteq recorded' /\ (Settled(v) => Settled(v)')
  BY RecordsStay, SettledStays
<1>3. hash' \in {Before, v} /\ (hash' = v => Settled(v)')
  BY <1>1, <1>2 DEF TruthInv
<1>4. ASSUME NEW q \in Runs, pc'[q] = pc[q], job'[q] = job[q], status'[q] = status[q],
             Visiting(q) => \A u \in Wanted(v) : Ready(v, u) => Ready(v, u)',
             \A u \in Wanted(v) : ~Stale(v, snapshot[u], u) => ~Stale(v, snapshot'[u], u)
      PROVE  Faithful(v, q)'
  <2>1. Faithful(v, q)
    BY DEF TruthInv
  <2>2. Visiting(q) /\ Covered(v, job[q]) => Covered(v, job[q])'
    BY <1>4 DEF Covered, Wanted
  <2>3. Saved(v, job[q]) => Saved(v, job[q])'
    BY <1>4 DEF Saved, Wanted, Stale
  <2> QED BY <1>1, <1>2, <1>4, <2>1, <2>2, <2>3 DEF Faithful, Visiting
<1>5. CASE LeaseExpires \/ UNCHANGED vars
  <2>1. lost <= lost' /\ lost \in Nat /\ lost' \in Nat
    BY LostGrows
  <2>2. \A u \in Wanted(v) : Ready(v, u) => Ready(v, u)'
    BY <1>5, <2>1, QuietEnvironment DEF Ready, WantedKeys
  <2>3. \A q \in Runs : Faithful(v, q)'
    BY <1>4, <1>5, <2>2, QuietEnvironment
  <2> QED BY <1>3, <2>3 DEF TruthInv
<1>6. ASSUME NEW r \in Runs, Run(r) \/ NoticeLoss(r) \/ Crash(r)
      PROVE  TruthInv(v)'
  <2>1. \A u \in Wanted(v) : Ready(v, u) => Ready(v, u)' \/ Rebuilds(v, r, u)
    BY <1>6, ReadyStays
  <2>2. Faithful(v, r)'
    BY <1>1, <1>2, <1>6, <2>1, RunIsFaithful DEF Rebuilds
  <2>3. ASSUME NEW q \in Runs \ {r}
        PROVE  Faithful(v, q)'
    <3>1. Visiting(q) => \A u \in Wanted(v) : ~Rebuilds(v, r, u)
      BY OneWorks DEF Rebuilds, Working
    <3>2. \A u \in Wanted(v) : ~Stale(v, snapshot[u], u) => ~Stale(v, snapshot'[u], u)
      BY <1>6, SnapshotsAre DEF Stale
    <3> QED BY <1>4, <1>6, <2>1, <3>1, <3>2, OthersStay
  <2> QED BY <1>3, <2>2, <2>3 DEF TruthInv
<1> QED BY <1>5, <1>6 DEF Next

LEMMA Truth ==
  ASSUME NEW v \in Versions, AllCarry(v)
  PROVE  Spec => []TruthInv(v)
<1>1. Init => WorkInv /\ StoredInv /\ KeysInv(v) /\ TruthInv(v)
  <2> SUFFICES ASSUME Init PROVE WorkInv /\ StoredInv
    BY KeysInit, TruthInit
  <2>1. Workers \ {holder} = {} /\ lost = 0 /\ Cardinality({}) = 0 /\ \A r \in Runs : ~Visiting(r)
    BY FS_EmptySet DEF Init, Workers, Working, Visiting, InWalk, InSteps
  <2> QED BY <2>1 DEF WorkInv, StoredInv
<1>2. /\ TypeOK /\ LocalInv /\ ListInv /\ OpsInv
      /\ WorkInv /\ StoredInv /\ KeysInv(v) /\ TruthInv(v) /\ [Next]_vars
      => (WorkInv /\ StoredInv /\ KeysInv(v) /\ TruthInv(v))'
  BY WorkStep, StoredStep, KeysStep, TruthStep
<1> QED BY <1>1, <1>2, RunsAreWhereTheyAre, PTL DEF Spec

(* When all runs deploy one version, its hash is stored only over a schema *)
(* that has its columns, indexes and keys, whatever failed, crashed or     *)
(* lost the lock on the way (schema-sync.ts:1988-1998).                    *)
THEOREM HashIsTrue ==
  ASSUME NEW v \in Versions, \A r \in Runs : Carries[r] = v
  PROVE  Spec => []HashTellsTruth
<1>1. AllCarry(v)
  BY DEF AllCarry
<1>2. TruthInv(v) => HashTellsTruth
  BY DEF TruthInv, HashTellsTruth, InPlace, Settled, Ready, Wanted
<1> QED BY <1>1, <1>2, Truth, PTL

(* When all runs deploy one version, a run that reports success leaves     *)
(* nothing to do: the schema is in place and every data step recorded.     *)
THEOREM SuccessIsDone ==
  ASSUME NEW v \in Versions, \A r \in Runs : Carries[r] = v
  PROVE  Spec => []SuccessMeansDone
<1>1. AllCarry(v)
  BY DEF AllCarry
<1>2. TruthInv(v) => SuccessMeansDone
  BY DEF AllCarry, TruthInv, Faithful, SuccessMeansDone, InPlace, Settled, Ready, Wanted
<1> QED BY <1>1, <1>2, Truth, PTL

-----------------------------------------------------------------------------
(* The execution walk: lists *)

HIDE DEF schema

(* Every set of numbers has a smallest: induction over what lists hold.     *)
LEMMA Smallest ==
  ASSUME NEW T \in SUBSET Nat, T # {}
  PROVE  \E n \in T : \A m \in T : n <= m
<1> DEFINE R == StrictSubsetOrdering(Nat)
           S == FiniteSubsetsOf(Nat)
           I == {1..n : n \in T}
<1>1. IsWellFoundedOn(R, S)
  BY FS_StrictSubsetOrderingWellFounded
<1>2. I \subseteq S
  BY FS_Interval DEF FiniteSubsetsOf
<1>3. PICK x \in I : \A y \in I : <<y, x>> \notin R
  <2>1. I # {}
    OBVIOUS
  <2> HIDE DEF R, S, I
  <2> QED BY <1>1, <1>2, <2>1, WFMin
<1>4. PICK n \in T : x = 1..n
  BY DEF I
<1>5. ASSUME NEW m \in T, m < n
      PROVE  FALSE
  <2>1. 1..m \in I /\ 1..m \in SUBSET Nat /\ 1..n \in SUBSET Nat
    OBVIOUS
  <2>2. n \in 1..n /\ n \notin 1..m /\ 1..m \subseteq 1..n
    BY <1>5
  <2>3. 1..m # 1..n
    BY <2>2
  <2>4. <<1..m, 1..n>> \in R
    BY <2>1, <2>2, <2>3 DEF StrictSubsetOrdering
  <2> QED BY <1>3, <1>4, <2>1, <2>4
<1> QED BY <1>5

(* If 0 is in S, and with every number of 0..m the next one, so is m.      *)
LEMMA UpTo ==
  ASSUME NEW m \in Nat, NEW S, 0 \in S, \A n \in 0..m : n \in S /\ n < m => n + 1 \in S
  PROVE  m \in S
<1> DEFINE T == {n \in 0..m : n \notin S}
<1>1. CASE T = {}
  BY <1>1
<1>2. CASE T # {}
  <2>1. T \in SUBSET Nat
    OBVIOUS
  <2>2. PICK n \in T : \A x \in T : n <= x
    <3> HIDE DEF T
    <3> QED BY <1>2, <2>1, Smallest
  <2>3. n # 0 /\ n - 1 \in 0..m /\ n - 1 < m /\ n - 1 < n
    BY <2>2
  <2>4. n - 1 \in S
    BY <2>2, <2>3
  <2> QED BY <2>2, <2>3, <2>4
<1> QED BY <1>1, <1>2

(* The places of two lists one after the other.                            *)
LEMMA ConcatFacts ==
  ASSUME NEW A, NEW s \in Seq(A), NEW t \in Seq(A)
  PROVE  /\ s \o t \in Seq(A) /\ Len(s \o t) = Len(s) + Len(t)
         /\ \A i \in 1..Len(s) : (s \o t)[i] = s[i]
         /\ \A i \in 1..Len(t) : (s \o t)[Len(s) + i] = t[i]
  BY ConcatProperties

(* The elements of two lists one after the other.                          *)
LEMMA ToSetConcat ==
  ASSUME NEW A, NEW s \in Seq(A), NEW t \in Seq(A)
  PROVE  s \o t \in Seq(A) /\ ToSet(s \o t) = ToSet(s) \cup ToSet(t)
<1>1. /\ s \o t \in Seq(A) /\ Len(s \o t) = Len(s) + Len(t)
      /\ \A i \in 1..Len(s) : (s \o t)[i] = s[i]
      /\ \A i \in 1..Len(t) : (s \o t)[Len(s) + i] = t[i]
  BY ConcatFacts
<1>2. ASSUME NEW x \in ToSet(s \o t) PROVE x \in ToSet(s) \cup ToSet(t)
  <2>1. PICK i \in 1..(Len(s) + Len(t)) : x = (s \o t)[i]
    BY <1>1 DEF ToSet
  <2>2. CASE i <= Len(s)
    BY <1>1, <2>1, <2>2 DEF ToSet
  <2>3. CASE i > Len(s)
    <3>1. i - Len(s) \in 1..Len(t) /\ i = Len(s) + (i - Len(s))
      BY <2>1, <2>3
    <3> QED BY <1>1, <2>1, <3>1 DEF ToSet
  <2> QED BY <2>1, <2>2, <2>3
<1>3. ASSUME NEW x \in ToSet(s) \cup ToSet(t) PROVE x \in ToSet(s \o t)
  <2>1. CASE x \in ToSet(s)
    <3>1. PICK i \in 1..Len(s) : x = s[i]
      BY <2>1 DEF ToSet
    <3>2. i \in 1..Len(s \o t)
      BY <1>1
    <3> QED BY <1>1, <3>1, <3>2 DEF ToSet
  <2>2. CASE x \in ToSet(t)
    <3>1. PICK i \in 1..Len(t) : x = t[i]
      BY <2>2 DEF ToSet
    <3>2. Len(s) + i \in 1..Len(s \o t)
      BY <1>1
    <3> QED BY <1>1, <3>1, <3>2 DEF ToSet
  <2> QED BY <1>3, <2>1, <2>2
<1> QED BY <1>1, <1>2, <1>3

(* A flattened list has the elements of its lists.                         *)
LEMMA FlattenFacts ==
  ASSUME NEW A, NEW ss \in Seq(Seq(A))
  PROVE  /\ FlattenSeq(ss) \in Seq(A)
         /\ \A x : x \in ToSet(FlattenSeq(ss)) <=> \E i \in DOMAIN ss : x \in ToSet(ss[i])
<1> DEFINE n == Len(ss)
           NextFlat(g, i) == IF i = 1 THEN ss[i] ELSE g[i - 1] \o ss[i]
           flat == CHOOSE g : g = [i \in 1..n |-> NextFlat(g, i)]
<1>1. n \in Nat /\ DOMAIN ss = 1..n /\ \A i \in 1..n : ss[i] \in Seq(A)
  OBVIOUS
<1>2. CASE n = 0
  <2>1. FlattenSeq(ss) = ss
    BY <1>2 DEF FlattenSeq
  <2>2. ss = <<>> /\ DOMAIN ss = {}
    BY <1>1, <1>2
  <2>3. FlattenSeq(ss) \in Seq(A)
    BY <2>1, <2>2
  <2>4. ToSet(ss) = {}
    BY <2>2 DEF ToSet
  <2> QED BY <2>1, <2>2, <2>3, <2>4
<1>3. CASE n # 0
  <2>1. \E g : g = [i \in 1..n |-> NextFlat(g, i)]
    <3> DEFINE S == {k \in Nat : \E g \in [1..k -> Seq(A)] : \A i \in 1..k : g[i] = NextFlat(g, i)}
    <3>1. 0 \in S
      <4>1. [i \in 1..0 |-> <<>>] \in [1..0 -> Seq(A)]
        OBVIOUS
      <4>2. 0 \in Nat /\ \A i \in 1..0 : FALSE
        OBVIOUS
      <4> HIDE DEF NextFlat
      <4> QED BY <4>1, <4>2
    <3>2. ASSUME NEW k \in 0..n, k \in S, k < n PROVE k + 1 \in S
      <4>1. PICK g \in [1..k -> Seq(A)] : \A i \in 1..k : g[i] = NextFlat(g, i)
        BY <3>2
      <4>2. NextFlat(g, k + 1) \in Seq(A)
        <5>1. k + 1 \in 1..n /\ ss[k + 1] \in Seq(A)
          BY <1>1, <3>2
        <5>2. CASE k = 0
          BY <5>1, <5>2
        <5>3. CASE k # 0
          <6>1. g[k] \in Seq(A) /\ (k + 1) - 1 = k
            BY <5>3
          <6> QED BY <5>1, <5>3, <6>1, ConcatProperties
        <5> QED BY <5>2, <5>3
      <4> DEFINE h == [i \in 1..(k + 1) |-> IF i = k + 1 THEN NextFlat(g, k + 1) ELSE g[i]]
      <4>3. h \in [1..(k + 1) -> Seq(A)]
        <5> HIDE DEF NextFlat
        <5> QED BY <4>1, <4>2
      <4>4. ASSUME NEW i \in 1..(k + 1) PROVE h[i] = NextFlat(h, i)
        <5>1. i # 1 => i - 1 \in 1..k /\ h[i - 1] = g[i - 1]
          BY <3>2
        <5>2. NextFlat(h, i) = NextFlat(g, i)
          BY <5>1
        <5>3. h[i] = NextFlat(g, i)
          <6> HIDE DEF NextFlat
          <6>1. CASE i = k + 1
            BY <6>1
          <6>2. CASE i # k + 1
            <7>1. i \in 1..k
              BY <3>2, <6>2
            <7> QED BY <4>1, <6>2, <7>1
          <6> QED BY <6>1, <6>2
        <5> QED BY <5>2, <5>3
      <4>5. k + 1 \in Nat
        BY <3>2
      <4> HIDE DEF h, NextFlat
      <4> QED BY <4>3, <4>4, <4>5
    <3> HIDE DEF S
    <3>3. n \in S
      BY <1>1, <3>1, <3>2, UpTo
    <3>4. PICK g \in [1..n -> Seq(A)] : \A i \in 1..n : g[i] = NextFlat(g, i)
      BY <3>3 DEF S
    <3> HIDE DEF NextFlat
    <3>5. g = [i \in 1..n |-> NextFlat(g, i)]
      BY <3>4
    <3> QED BY <3>5
  <2>2. flat = [i \in 1..n |-> NextFlat(flat, i)]
    <3> HIDE DEF NextFlat
    <3> QED BY <2>1
  <2>3. FlattenSeq(ss) = flat[n]
    BY <1>3 DEF FlattenSeq
  <2> HIDE DEF flat
  <2> DEFINE S == {k \in Nat : k = 0 \/
                     /\ flat[k] \in Seq(A)
                     /\ \A x : x \in ToSet(flat[k]) <=> \E i \in 1..k : x \in ToSet(ss[i])}
  <2>4. ASSUME NEW k \in 0..n, k \in S, k < n PROVE k + 1 \in S
    <3>1. k + 1 \in 1..n /\ ss[k + 1] \in Seq(A) /\ (k + 1) - 1 = k /\ (k # 0 => k + 1 # 1)
      BY <1>1, <2>4
    <3>2. flat[k + 1] = NextFlat(flat, k + 1)
      <4> HIDE DEF NextFlat
      <4> QED BY <2>2, <3>1
    <3>3. CASE k = 0
      <4>1. flat[k + 1] = ss[1] /\ 1..(k + 1) = {1}
        BY <3>1, <3>2, <3>3
      <4> QED BY <3>1, <3>3, <4>1
    <3>4. CASE k # 0
      <4>1. flat[k] \in Seq(A) /\ \A x : x \in ToSet(flat[k]) <=> \E i \in 1..k : x \in ToSet(ss[i])
        BY <2>4, <3>4
      <4>2. flat[k + 1] = flat[k] \o ss[k + 1]
        BY <3>1, <3>2, <3>4
      <4>3. flat[k + 1] \in Seq(A) /\ ToSet(flat[k + 1]) = ToSet(flat[k]) \cup ToSet(ss[k + 1])
        BY <3>1, <4>1, <4>2, ToSetConcat
      <4>4. 1..(k + 1) = 1..k \cup {k + 1}
        BY <2>4
      <4> QED BY <3>1, <4>1, <4>3, <4>4
    <3> QED BY <3>3, <3>4
  <2>5. 0 \in S
    OBVIOUS
  <2> HIDE DEF S, NextFlat
  <2>6. n \in S
    BY <1>1, <2>4, <2>5, UpTo
  <2> QED BY <1>1, <1>3, <2>3, <2>6 DEF S
<1> QED BY <1>2, <1>3

(* A list of one element.                                                  *)
LEMMA OneFacts ==
  ASSUME NEW A, NEW x \in A
  PROVE  <<x>> \in Seq(A) /\ Len(<<x>>) = 1 /\ <<x>>[1] = x /\ ToSet(<<x>>) = {x}
<1>1. DOMAIN <<x>> = {1} /\ <<x>>[1] = x
  OBVIOUS
<1>2. ToSet(<<x>>) = {x}
  BY <1>1 DEF ToSet
<1> QED BY <1>2

(* A list without its head.                                                *)
LEMMA DequeFacts ==
  ASSUME NEW A, NEW s \in Seq(A), s # <<>>
  PROVE  /\ Head(s) \in ToSet(s) /\ Tail(s) \in Seq(A) /\ ToSet(Tail(s)) \subseteq ToSet(s)
         /\ \A x \in ToSet(s) : x = Head(s) \/ x \in ToSet(Tail(s))
<1> DEFINE rest == Tail(s)
<1>1. /\ Len(s) \in Nat \ {0} /\ Head(s) = s[1] /\ rest \in Seq(A) /\ Len(rest) = Len(s) - 1
      /\ \A i \in 1..Len(rest) : rest[i] = s[i + 1]
      /\ DOMAIN s = 1..Len(s) /\ DOMAIN rest = 1..Len(rest)
  OBVIOUS
<1> HIDE DEF rest
<1>2. \A i \in 2..Len(s) : i - 1 \in 1..Len(rest) /\ rest[i - 1] = s[i]
  BY <1>1
<1>3. ASSUME NEW x \in ToSet(s) PROVE x = Head(s) \/ x \in ToSet(rest)
  <2>1. PICK i \in 1..Len(s) : x = s[i]
    BY <1>1 DEF ToSet
  <2>2. i = 1 \/ i \in 2..Len(s)
    BY <1>1
  <2> QED BY <1>1, <1>2, <2>1, <2>2 DEF ToSet
<1>4. ASSUME NEW x \in ToSet(rest) PROVE x \in ToSet(s)
  <2>1. PICK i \in 1..Len(rest) : x = rest[i]
    BY <1>1 DEF ToSet
  <2>2. i + 1 \in 1..Len(s)
    BY <1>1
  <2> QED BY <1>1, <2>1, <2>2 DEF ToSet
<1>5. Head(s) \in ToSet(s)
  <2>1. 1 \in 1..Len(s)
    BY <1>1
  <2> QED BY <1>1, <2>1 DEF ToSet
<1> QED BY <1>1, <1>3, <1>4, <1>5 DEF rest

-----------------------------------------------------------------------------
(***************************************************************************)
(* topoOrder: Tarjan's walk of a finite graph of numbers.                 *)
(***************************************************************************)

(* A list with one more element. *)
LEMMA AppendFacts ==
  ASSUME NEW A, NEW s \in Seq(A), NEW x \in A
  PROVE  /\ Append(s, x) \in Seq(A) /\ Len(s) \in Nat /\ Len(Append(s, x)) = Len(s) + 1
         /\ DOMAIN s = 1..Len(s) /\ DOMAIN Append(s, x) = 1..(Len(s) + 1)
         /\ \A i \in 1..Len(s) : Append(s, x)[i] = s[i] /\ s[i] \in A
         /\ Append(s, x)[Len(s) + 1] = x
         /\ ToSet(Append(s, x)) = ToSet(s) \cup {x}
<1>1. /\ Append(s, x) \in Seq(A) /\ Len(s) \in Nat /\ Len(Append(s, x)) = Len(s) + 1
      /\ DOMAIN s = 1..Len(s) /\ DOMAIN Append(s, x) = 1..(Len(s) + 1)
      /\ \A i \in 1..Len(s) : Append(s, x)[i] = s[i] /\ s[i] \in A
      /\ Append(s, x)[Len(s) + 1] = x
  BY AppendProperties
<1>2. ASSUME NEW y PROVE y \in ToSet(Append(s, x)) <=> y \in ToSet(s) \cup {x}
  <2>1. 1..(Len(s) + 1) = 1..Len(s) \cup {Len(s) + 1}
    BY <1>1
  <2> QED BY <1>1, <2>1 DEF ToSet
<1> QED BY <1>1, <1>2

(* A list with one more element rises when the element is above the others.*)
LEMMA RisesAppend ==
  ASSUME NEW A, NEW s \in Seq(A), NEW x \in A, NEW index \in [A -> Nat], NEW index2 \in [A -> Nat],
         Rises(index, s), \A y \in ToSet(s) : index2[y] = index[y] /\ index[y] < index2[x]
  PROVE  Rises(index2, Append(s, x))
<1>1. /\ Len(s) \in Nat /\ DOMAIN s = 1..Len(s) /\ DOMAIN Append(s, x) = 1..(Len(s) + 1)
      /\ \A i \in 1..Len(s) : Append(s, x)[i] = s[i] /\ s[i] \in A
      /\ Append(s, x)[Len(s) + 1] = x
  BY AppendFacts
<1>2. ASSUME NEW i \in 1..(Len(s) + 1), NEW j \in 1..(Len(s) + 1), i < j
      PROVE  index2[Append(s, x)[i]] < index2[Append(s, x)[j]]
  <2> DEFINE N == Len(s)
  <2> HIDE DEF N
  <2>4. N \in Nat /\ 1..(N + 1) = 1..N \cup {N + 1}
    BY <1>1 DEF N
  <2>5. i \in 1..N
    BY <1>2, <2>4 DEF N
  <2>1. i \in 1..Len(s) /\ Append(s, x)[i] = s[i] /\ s[i] \in ToSet(s) /\ s[i] \in A
    BY <1>1, <2>5 DEF ToSet, N
  <2>2. CASE j = Len(s) + 1
    <3>1. Append(s, x)[j] = x /\ index2[s[i]] = index[s[i]] /\ index[s[i]] < index2[x]
      BY <1>1, <2>1, <2>2
    <3> QED BY <2>1, <3>1
  <2>3. CASE j \in 1..Len(s)
    <3>1. Append(s, x)[j] = s[j] /\ s[j] \in ToSet(s) /\ s[j] \in A
      BY <1>1, <2>3 DEF ToSet
    <3>2. index[s[i]] < index[s[j]]
      BY <1>1, <1>2, <2>1, <2>3 DEF Rises
    <3> QED BY <2>1, <3>1, <3>2
  <2> QED BY <2>2, <2>3, <2>4 DEF N
<1> QED BY <1>1, <1>2 DEF Rises

(* The nodes of a list of calls with one more call. *)
LEMMA AppendCall ==
  ASSUME NEW nodes, NEW calls \in Seq(CallsOf(nodes)), NEW c \in CallsOf(nodes)
  PROVE  /\ CallNodes(calls) \in Seq(nodes) /\ c.node \in nodes
         /\ CallNodes(Append(calls, c)) = Append(CallNodes(calls), c.node)
         /\ NodesOf(Append(calls, c)) = NodesOf(calls) \cup {c.node}
         /\ ToSet(CallNodes(calls)) = NodesOf(calls)
<1> DEFINE pushed == Append(calls, c)
           N == Len(calls)
           names == CallNodes(calls)
           longer == Append(names, c.node)
<1>1. /\ N \in Nat /\ DOMAIN calls = 1..N /\ DOMAIN pushed = 1..(N + 1)
      /\ \A i \in 1..N : pushed[i] = calls[i] /\ calls[i] \in CallsOf(nodes)
      /\ pushed[N + 1] = c
      /\ ToSet(pushed) = ToSet(calls) \cup {c}
  BY AppendFacts
<1>2. c.node \in nodes /\ \A i \in 1..N : calls[i].node \in nodes
  BY <1>1 DEF CallsOf
<1> HIDE DEF pushed, N
<1>3. names = [i \in 1..N |-> calls[i].node]
  BY <1>1 DEF CallNodes
<1> HIDE DEF names
<1>4. names \in Seq(nodes) /\ DOMAIN names = 1..N /\ Len(names) = N
  BY <1>1, <1>2, <1>3
<1>5. /\ DOMAIN longer = 1..(N + 1) /\ \A i \in 1..N : longer[i] = names[i]
      /\ longer[N + 1] = c.node
      /\ longer \in Seq(nodes)
  BY <1>2, <1>4, AppendFacts
<1> HIDE DEF longer
<1>6. CallNodes(pushed) = longer
  <2>1. ASSUME NEW i \in 1..(N + 1) PROVE pushed[i].node = longer[i]
    <3>1. CASE i \in 1..N
      BY <1>1, <1>3, <1>5, <3>1
    <3>2. CASE i = N + 1
      BY <1>1, <1>5, <3>2
    <3> QED BY <1>1, <3>1, <3>2
  <2>2. longer = [i \in 1..(N + 1) |-> longer[i]]
    BY <1>5
  <2> QED BY <1>1, <2>1, <2>2 DEF CallNodes
<1>7. NodesOf(pushed) = NodesOf(calls) \cup {c.node}
  BY <1>1 DEF NodesOf
<1>8. ToSet(names) = NodesOf(calls)
  BY <1>1, <1>3, <1>4 DEF ToSet, NodesOf
<1> QED BY <1>2, <1>4, <1>6, <1>7, <1>8 DEF pushed, names, longer

(* What the parts of a state's type are. *)
LEMMA TarjanTypeParts ==
  ASSUME NEW nodes, NEW t \in TarjanType(nodes)
  PROVE  /\ t.index \in [nodes -> Nat] /\ t.low \in [nodes -> Nat] /\ t.counter \in Nat
         /\ t.stack \in Seq(nodes) /\ t.order \in Seq(Seq(nodes))
         /\ t.calls \in Seq(CallsOf(nodes)) /\ t.roots \in Seq(nodes)
         /\ OnStack(t) \in SUBSET nodes /\ Called(t) \in SUBSET nodes
<1>1. /\ t.index \in [nodes -> Nat] /\ t.low \in [nodes -> Nat] /\ t.counter \in Nat
      /\ t.stack \in Seq(nodes) /\ t.order \in Seq(Seq(nodes))
      /\ t.calls \in Seq(CallsOf(nodes)) /\ t.roots \in Seq(nodes)
  BY DEF TarjanType
<1>2. ASSUME NEW c \in ToSet(t.calls) PROVE c.node \in nodes
  <2>1. c \in CallsOf(nodes)
    BY <1>1 DEF ToSet
  <2> QED BY <2>1 DEF CallsOf
<1>3. Called(t) \in SUBSET nodes
  BY <1>2 DEF Called, NodesOf
<1>4. OnStack(t) \in SUBSET nodes
  BY <1>1 DEF OnStack, ToSet
<1> QED BY <1>1, <1>3, <1>4

(* The fields of the state after a node is entered. *)
EntersNode(nodes, u, x, rest, e) ==
  /\ e.counter = u.counter + 1
  /\ e.index[x] = u.counter + 1
  /\ e.low[x] = u.counter + 1
  /\ \A n \in nodes : n # x => e.index[n] = u.index[n] /\ e.low[n] = u.low[n]
  /\ e.stack = Append(u.stack, x)
  /\ e.order = u.order /\ e.roots = u.roots
  /\ e.calls = Append(u.calls, [node |-> x, rest |-> rest])

LEMMA EnterFields ==
  ASSUME NEW nodes, NEW u \in TarjanType(nodes), NEW x \in nodes, NEW rest \in Seq(nodes), NEW e,
         e = Enter(u, x, rest)
  PROVE  e \in TarjanType(nodes) /\ EntersNode(nodes, u, x, rest, e)
<1>1. /\ u.index \in [nodes -> Nat] /\ u.low \in [nodes -> Nat] /\ u.counter \in Nat
      /\ u.stack \in Seq(nodes) /\ u.order \in Seq(Seq(nodes))
      /\ u.calls \in Seq(CallsOf(nodes)) /\ u.roots \in Seq(nodes)
  BY DEF TarjanType
<1>2. e = [index |-> [u.index EXCEPT ![x] = u.counter + 1], low |-> [u.low EXCEPT ![x] = u.counter + 1],
           counter |-> u.counter + 1, stack |-> Append(u.stack, x), order |-> u.order,
           calls |-> Append(u.calls, [node |-> x, rest |-> rest]), roots |-> u.roots]
  BY DEF TarjanType, Enter
<1>3. Append(u.stack, x) \in Seq(nodes)
  BY <1>1, AppendFacts
<1>4. Append(u.calls, [node |-> x, rest |-> rest]) \in Seq(CallsOf(nodes))
  <2>1. [node |-> x, rest |-> rest] \in CallsOf(nodes)
    BY DEF CallsOf
  <2> QED BY <1>1, <2>1, AppendFacts
<1>5. e \in TarjanType(nodes)
  BY <1>1, <1>2, <1>3, <1>4 DEF TarjanType
<1>6. /\ e.index = [u.index EXCEPT ![x] = u.counter + 1]
      /\ e.low = [u.low EXCEPT ![x] = u.counter + 1]
      /\ e.counter = u.counter + 1
      /\ e.stack = Append(u.stack, x) /\ e.order = u.order /\ e.roots = u.roots
      /\ e.calls = Append(u.calls, [node |-> x, rest |-> rest])
  BY <1>2
<1>7. ASSUME NEW n \in nodes, n # x PROVE e.index[n] = u.index[n] /\ e.low[n] = u.low[n]
  BY <1>1, <1>6, <1>7
<1>8. e.index[x] = u.counter + 1 /\ e.low[x] = u.counter + 1
  BY <1>1, <1>6
<1> QED BY <1>5, <1>6, <1>7, <1>8 DEF EntersNode

(* The lowlinks after a node is entered that no other has looked at.       *)
LEMMA LowsEnter ==
  ASSUME NEW D, NEW nodes, NEW on \in SUBSET nodes, NEW called \in SUBSET on,
         NEW index \in [nodes -> Nat], NEW low \in [nodes -> Nat], NEW looked,
         Lows(D, index, low, on, called, looked),
         NEW index2 \in [nodes -> Nat], NEW low2 \in [nodes -> Nat], NEW looked2,
         NEW x \in nodes, x \notin on,
         \A n \in on : index[n] < index2[x] /\ index2[n] = index[n] /\ low2[n] = low[n],
         low2[x] = index2[x], looked2[x] = {}, \A n \in on : looked2[n] = looked[n],
         <<x, x>> \in D, \A c \in called : <<c, x>> \in D
  PROVE  Lows(D, index2, low2, on \cup {x}, called \cup {x}, looked2)
<1>1. ASSUME NEW n \in on \cup {x}
      PROVE  /\ low2[n] <= index2[n]
             /\ n \notin called \cup {x} => low2[n] # index2[n]
             /\ \E m \in on \cup {x} : index2[m] = low2[n] /\ <<n, m>> \in D
  <2>1. CASE n = x
    <3>1. index2[n] \in Nat /\ low2[n] = index2[n] /\ n \in called \cup {x}
      BY <2>1
    <3>2. n \in on \cup {x} /\ index2[n] = low2[n] /\ <<n, n>> \in D
      BY <2>1, <3>1
    <3>3. \E m \in on \cup {x} : index2[m] = low2[n] /\ <<n, m>> \in D
      BY <3>2
    <3>4. low2[n] <= index2[n]
      BY <3>1
    <3>5. n \in called \cup {x}
      BY <3>1
    <3> QED BY <3>3, <3>4, <3>5
  <2>2. CASE n # x
    <3>1. n \in on /\ index2[n] = index[n] /\ low2[n] = low[n]
      BY <2>2
    <3>2. /\ low[n] <= index[n]
          /\ n \notin called => low[n] # index[n]
      BY <3>1 DEF Lows
    <3>3. PICK m \in on : index[m] = low[n] /\ <<n, m>> \in D
      BY <3>1 DEF Lows
    <3> QED BY <3>1, <3>2, <3>3
  <2> QED BY <2>1, <2>2
<1>2. ASSUME NEW c \in called \cup {x}, NEW n \in on \cup {x}, index2[c] <= index2[n]
      PROVE  <<c, n>> \in D
  <2>1. CASE c = x
    <3>1. n = x
      BY <1>2, <2>1
    <3> QED BY <2>1, <3>1
  <2>2. CASE c # x
    BY <1>2, <2>2 DEF Lows
  <2> QED BY <2>1, <2>2
<1>3. ASSUME NEW c \in called \cup {x}, NEW n \in on \cup {x}, Owns(index2, called \cup {x}, c, n)
      PROVE  low2[c] <= low2[n] /\ \A m \in looked2[n] \cap (on \cup {x}) : low2[c] <= index2[m]
  <2>1. index2[c] <= index2[n] /\ (index2[x] <= index2[c] \/ index2[n] < index2[x])
    BY <1>3 DEF Owns
  <2>2. CASE n = x
    <3>1. c = x
      BY <2>1, <2>2
    <3> QED BY <2>2, <3>1
  <2>3. CASE n # x
    <3>1. n \in on /\ c \in called /\ c \in on
      BY <2>1, <2>3
    <3>2. Owns(index, called, c, n)
      BY <1>3, <3>1 DEF Owns
    <3>3. low[c] <= low[n] /\ \A m \in looked[n] \cap on : low[c] <= index[m]
      BY <3>1, <3>2 DEF Lows
    <3>4. low[c] <= index[c]
      BY <3>1 DEF Lows
    <3>5. low[c] \in Nat /\ index[c] \in Nat /\ index2[x] \in Nat /\ low2[c] = low[c] /\ low2[n] = low[n]
          /\ looked2[n] = looked[n]
      BY <3>1
    <3>6. ASSUME NEW m \in looked2[n] \cap (on \cup {x}) PROVE low2[c] <= index2[m]
      <4>1. CASE m = x
        BY <3>1, <3>4, <3>5, <4>1
      <4>2. CASE m # x
        BY <3>3, <3>5, <4>2
      <4> QED BY <4>1, <4>2
    <3> QED BY <3>3, <3>5, <3>6
  <2> QED BY <2>2, <2>3
<1> QED BY <1>1, <1>2, <1>3 DEF Lows

(* Entering a node that has no number yet, which every call reaches.       *)
LEMMA EnterHolds ==
  ASSUME NEW nodes, NEW adj, NEW D, GoodGraph(nodes, adj, D), NEW u, NEW x \in nodes,
         TarjanInvBut(nodes, adj, D, u, {x}), u.index[x] = 0,
         \A c \in Called(u) : <<c, x>> \in D,
         NEW e, e = Enter(u, x, adj[x])
  PROVE  TarjanInv(nodes, adj, D, e)
<1> DEFINE call == [node |-> x, rest |-> adj[x]]
<1>1. u \in TarjanType(nodes) /\ adj[x] \in Seq(nodes)
  BY DEF TarjanInvBut, GoodGraph
<1>2. /\ u.index \in [nodes -> Nat] /\ u.low \in [nodes -> Nat] /\ u.counter \in Nat
      /\ u.stack \in Seq(nodes) /\ u.calls \in Seq(CallsOf(nodes))
      /\ OnStack(u) \in SUBSET nodes /\ Called(u) \in SUBSET nodes
  BY <1>1, TarjanTypeParts
<1>3. /\ e \in TarjanType(nodes)
      /\ e.counter = u.counter + 1
      /\ e.index[x] = u.counter + 1 /\ \A n \in nodes : n # x => e.index[n] = u.index[n]
      /\ e.low[x] = u.counter + 1 /\ \A n \in nodes : n # x => e.low[n] = u.low[n]
      /\ e.stack = Append(u.stack, x)
      /\ e.order = u.order /\ e.roots = u.roots
      /\ e.calls = Append(u.calls, call)
  <2>1. EntersNode(nodes, u, x, adj[x], e) /\ e \in TarjanType(nodes)
    BY <1>1, EnterFields
  <2> QED BY <2>1 DEF EntersNode
<1>4. e.index \in [nodes -> Nat] /\ e.low \in [nodes -> Nat]
  BY <1>3, TarjanTypeParts
<1>5. call \in CallsOf(nodes) /\ call.node = x /\ call.rest = adj[x]
  BY <1>1 DEF CallsOf
<1> HIDE DEF call
<1>6. OnStack(e) = OnStack(u) \cup {x} /\ Grouped(e) = Grouped(u)
  BY <1>2, <1>3, AppendFacts DEF OnStack, Grouped
<1>7. ToSet(e.calls) = ToSet(u.calls) \cup {call} /\ Called(e) = Called(u) \cup {x}
  <2>1. ToSet(e.calls) = ToSet(u.calls) \cup {call}
    BY <1>2, <1>3, <1>5, AppendFacts
  <2> QED BY <1>5, <2>1 DEF Called, NodesOf
<1>8. /\ Rises(u.index, u.stack)
      /\ Rises(u.index, CallNodes(u.calls))
      /\ Called(u) \subseteq OnStack(u)
      /\ \A n \in OnStack(u) : \E c \in Called(u) : u.index[c] <= u.index[n]
  BY DEF TarjanInvBut, StackHolds
<1>9. /\ \A n \in nodes : u.index[n] <= u.counter
      /\ \A n \in nodes : u.index[n] # 0 <=> n \in OnStack(u) \cup Grouped(u)
      /\ OnStack(u) \cap Grouped(u) = {}
      /\ \A n \in nodes \ {x} : u.index[n] = 0 => n \in ToSet(u.roots)
  BY DEF TarjanInvBut, NumbersHold
<1>10. x \notin OnStack(u) /\ x \notin Grouped(u) /\ x \notin Called(u)
  BY <1>8, <1>9
<1>11. /\ Looked(nodes, adj, e.calls)[x] = {}
       /\ \A n \in nodes : n # x => Looked(nodes, adj, e.calls)[n] = Looked(nodes, adj, u.calls)[n]
  BY <1>5, <1>7 DEF Looked
<1>12. \A n \in OnStack(u) : /\ u.index[n] < e.index[x]
                             /\ e.index[n] = u.index[n] /\ e.low[n] = u.low[n]
  <2> SUFFICES ASSUME NEW n \in OnStack(u)
               PROVE  u.index[n] < e.index[x] /\ e.index[n] = u.index[n] /\ e.low[n] = u.low[n]
    OBVIOUS
  <2>1. n \in nodes /\ n # x /\ u.index[n] \in Nat /\ u.index[n] <= u.counter
    BY <1>2, <1>9, <1>10
  <2> QED BY <1>2, <1>3, <2>1
<1>13. StackHolds(e)
  <2>1. Rises(e.index, e.stack)
    <3>1. \A n \in ToSet(u.stack) : e.index[n] = u.index[n] /\ u.index[n] < e.index[x]
      BY <1>12 DEF OnStack
    <3>2. Rises(e.index, Append(u.stack, x))
      BY <1>2, <1>4, <1>8, <3>1, RisesAppend
    <3> QED BY <1>3, <3>2
  <2>2. Rises(e.index, CallNodes(e.calls))
    <3>1. CallNodes(u.calls) \in Seq(nodes) /\ ToSet(CallNodes(u.calls)) = Called(u)
          /\ CallNodes(e.calls) = Append(CallNodes(u.calls), x)
      BY <1>2, <1>3, <1>5, AppendCall DEF Called
    <3>2. \A n \in ToSet(CallNodes(u.calls)) : e.index[n] = u.index[n] /\ u.index[n] < e.index[x]
      BY <1>8, <1>12, <3>1
    <3>3. Rises(e.index, Append(CallNodes(u.calls), x))
      BY <1>2, <1>4, <1>8, <3>1, <3>2, RisesAppend
    <3> QED BY <3>1, <3>3
  <2>3. Called(e) \subseteq OnStack(e)
    BY <1>6, <1>7, <1>8
  <2>4. ASSUME NEW n \in OnStack(e) PROVE \E c \in Called(e) : e.index[c] <= e.index[n]
    <3>1. CASE n = x
      BY <1>4, <1>7, <3>1
    <3>2. CASE n # x
      <4>1. n \in OnStack(u) /\ e.index[n] = u.index[n]
        BY <1>6, <1>12, <3>2
      <4>2. PICK c \in Called(u) : u.index[c] <= u.index[n]
        BY <1>8, <4>1
      <4> QED BY <1>7, <1>8, <1>12, <4>1, <4>2
    <3> QED BY <3>1, <3>2
  <2> QED BY <2>1, <2>2, <2>3, <2>4 DEF StackHolds
<1>14. \A n \in nodes : e.index[n] # 0 <=> u.index[n] # 0 \/ n = x
  BY <1>2, <1>3
<1>15. NumbersHold(nodes, e, {})
  <2>1. \A n \in nodes : e.index[n] <= e.counter
    <3> SUFFICES ASSUME NEW n \in nodes PROVE e.index[n] <= e.counter
      OBVIOUS
    <3>1. u.index[n] <= u.counter /\ u.index[n] \in Nat /\ u.counter \in Nat
      BY <1>2, <1>9
    <3>2. e.index[n] = IF n = x THEN u.counter + 1 ELSE u.index[n]
      BY <1>3
    <3> QED BY <1>3, <3>1, <3>2
  <2>2. \A n \in nodes : e.index[n] # 0 <=> n \in OnStack(e) \cup Grouped(e)
    BY <1>6, <1>9, <1>14
  <2>3. OnStack(e) \cap Grouped(e) = {}
    BY <1>6, <1>9, <1>10
  <2>4. \A n \in nodes \ {} : e.index[n] = 0 => n \in ToSet(e.roots)
    BY <1>3, <1>9, <1>14
  <2> QED BY <2>1, <2>2, <2>3, <2>4 DEF NumbersHold
<1>16. EdgesHold(nodes, adj, e, {})
  <2>1. /\ \A c \in ToSet(u.calls) : ToSet(c.rest) \subseteq ToSet(adj[c.node])
        /\ \A n \in nodes : u.index[n] # 0 => \A m \in Looked(nodes, adj, u.calls)[n] \ {x} : u.index[m] # 0
    BY DEF TarjanInvBut, EdgesHold
  <2>2. \A n \in nodes : Looked(nodes, adj, u.calls)[n] \subseteq nodes
    <3>1. \A n \in nodes : adj[n] \in Seq(nodes)
      BY DEF GoodGraph
    <3>2. \A n \in nodes : ToSet(adj[n]) \subseteq nodes
      BY <3>1 DEF ToSet
    <3> QED BY <3>2 DEF Looked
  <2>3. \A c \in ToSet(e.calls) : ToSet(c.rest) \subseteq ToSet(adj[c.node])
    BY <1>5, <1>7, <2>1
  <2>4. ASSUME NEW n \in nodes, e.index[n] # 0, NEW m \in Looked(nodes, adj, e.calls)[n] \ {}
        PROVE  e.index[m] # 0
    <3>1. n # x /\ m \in Looked(nodes, adj, u.calls)[n] /\ m \in nodes /\ u.index[n] # 0
      BY <1>11, <1>14, <2>2, <2>4
    <3> QED BY <1>14, <2>1, <3>1
  <2> QED BY <2>3, <2>4 DEF EdgesHold
<1>17. LowsHold(nodes, adj, D, e)
  <2>1. Lows(D, u.index, u.low, OnStack(u), Called(u), Looked(nodes, adj, u.calls))
    BY DEF TarjanInvBut, LowsHold
  <2>2. <<x, x>> \in D
    BY DEF GoodGraph
  <2>3. e.low[x] = e.index[x] /\ \A n \in OnStack(u) : n \in nodes /\ n # x
    BY <1>2, <1>3, <1>10
  <2>4. \A n \in OnStack(u) : Looked(nodes, adj, e.calls)[n] = Looked(nodes, adj, u.calls)[n]
    BY <1>11, <2>3
  <2>5. Lows(D, e.index, e.low, OnStack(u) \cup {x}, Called(u) \cup {x}, Looked(nodes, adj, e.calls))
    <3> DEFINE on == OnStack(u)
               called == Called(u)
               index == u.index
               low == u.low
               looked == Looked(nodes, adj, u.calls)
               looked2 == Looked(nodes, adj, e.calls)
    <3>1. /\ on \in SUBSET nodes /\ called \in SUBSET on /\ index \in [nodes -> Nat] /\ low \in [nodes -> Nat]
          /\ Lows(D, index, low, on, called, looked) /\ x \notin on /\ looked2[x] = {}
          /\ \A n \in on : index[n] < e.index[x] /\ e.index[n] = index[n] /\ e.low[n] = low[n]
          /\ \A n \in on : looked2[n] = looked[n]
          /\ \A c \in called : <<c, x>> \in D
      BY <1>2, <1>8, <1>10, <1>11, <1>12, <2>1, <2>4
    <3> HIDE DEF on, called, index, low, looked, looked2
    <3>2. Lows(D, e.index, e.low, on \cup {x}, called \cup {x}, looked2)
      BY <1>4, <2>2, <2>3, <3>1, LowsEnter
    <3> QED BY <3>2 DEF on, called, looked2
  <2> QED BY <1>6, <1>7, <2>5 DEF LowsHold
<1>18. GroupsHold(adj, D, e.order)
  BY <1>3 DEF TarjanInvBut
<1> QED BY <1>3, <1>13, <1>15, <1>16, <1>17, <1>18 DEF TarjanInv, TarjanInvBut

(* A list without its last element, and with it again. *)
LEMMA LastFacts ==
  ASSUME NEW A, NEW s \in Seq(A), s # <<>>
  PROVE  /\ Front(s) \in Seq(A) /\ Last(s) \in A /\ s = Append(Front(s), Last(s))
         /\ Len(s) \in Nat \ {0} /\ Len(Front(s)) = Len(s) - 1
         /\ DOMAIN s = 1..Len(s) /\ DOMAIN Front(s) = 1..(Len(s) - 1)
         /\ \A i \in 1..(Len(s) - 1) : Front(s)[i] = s[i]
<1> DEFINE front == Front(s)
<1>1. Len(s) \in Nat \ {0} /\ DOMAIN s = 1..Len(s) /\ Last(s) = s[Len(s)] /\ Last(s) \in A
  BY DEF Last
<1>2. /\ front \in Seq(A) /\ Len(front) = Len(s) - 1 /\ DOMAIN front = 1..(Len(s) - 1)
      /\ \A i \in 1..(Len(s) - 1) : front[i] = s[i]
  <2>1. /\ SubSeq(s, 1, Len(s) - 1) \in Seq(A) /\ Len(SubSeq(s, 1, Len(s) - 1)) = Len(s) - 1
        /\ \A i \in 1..(Len(s) - 1) : SubSeq(s, 1, Len(s) - 1)[i] = s[i]
    BY <1>1
  <2> QED BY <1>1, <2>1 DEF Front
<1> HIDE DEF front
<1>3. s = Append(front, Last(s))
  <2> DEFINE again == Append(front, Last(s))
  <2>1. /\ again \in Seq(A) /\ DOMAIN again = 1..Len(s) /\ again[Len(s)] = s[Len(s)]
        /\ \A i \in 1..(Len(s) - 1) : again[i] = s[i]
    <3> DEFINE last == Last(s)
    <3>0. last \in A /\ front \in Seq(A) /\ again = Append(front, last)
      BY <1>1, <1>2
    <3> HIDE DEF last, again
    <3>1. /\ again \in Seq(A) /\ DOMAIN again = 1..(Len(front) + 1) /\ again[Len(front) + 1] = last
          /\ \A i \in 1..Len(front) : again[i] = front[i]
      BY <3>0, AppendFacts
    <3>2. Len(front) + 1 = Len(s)
      BY <1>1, <1>2
    <3> QED BY <1>1, <1>2, <3>1, <3>2 DEF last
  <2> HIDE DEF again
  <2>2. \A i \in 1..Len(s) : again[i] = s[i]
    BY <1>1, <2>1
  <2>3. again = [i \in 1..Len(s) |-> again[i]] /\ s = [i \in 1..Len(s) |-> s[i]]
    BY <1>1, <2>1
  <2> QED BY <2>2, <2>3 DEF again
<1> QED BY <1>1, <1>2, <1>3 DEF front

(* The outermost loop has looked at a name that is numbered already.       *)
LEMMA SkipHolds ==
  ASSUME NEW nodes, NEW adj, NEW D, NEW t, NEW X, TarjanInv(nodes, adj, D, t), t.roots # <<>>,
         t.index[Head(t.roots)] = 0 => Head(t.roots) \in X
  PROVE  TarjanInvBut(nodes, adj, D, NextRoot(t), X)
<1> DEFINE left == NextRoot(t)
<1>1. t \in TarjanType(nodes)
  BY DEF TarjanInv, TarjanInvBut
<1>2. Head(t.roots) \in nodes /\ Tail(t.roots) \in Seq(nodes)
      /\ \A x \in ToSet(t.roots) : x = Head(t.roots) \/ x \in ToSet(Tail(t.roots))
  <2>1. t.roots \in Seq(nodes)
    BY <1>1, TarjanTypeParts
  <2> QED BY <2>1, DequeFacts
<1>3. /\ left \in TarjanType(nodes) /\ left.roots = Tail(t.roots)
      /\ left.index = t.index /\ left.low = t.low /\ left.counter = t.counter /\ left.stack = t.stack
      /\ left.order = t.order /\ left.calls = t.calls
  BY <1>1, <1>2 DEF TarjanType, NextRoot
<1> HIDE DEF left
<1>4. OnStack(left) = OnStack(t) /\ Grouped(left) = Grouped(t) /\ Called(left) = Called(t)
  BY <1>3 DEF OnStack, Grouped, Called
<1>5. StackHolds(left)
  BY <1>3, <1>4 DEF StackHolds, TarjanInv, TarjanInvBut
<1>6. NumbersHold(nodes, left, X)
  BY <1>2, <1>3, <1>4 DEF NumbersHold, TarjanInv, TarjanInvBut
<1>7. EdgesHold(nodes, adj, left, X)
  BY <1>3 DEF EdgesHold, TarjanInv, TarjanInvBut
<1>8. LowsHold(nodes, adj, D, left)
  BY <1>3, <1>4 DEF LowsHold, TarjanInv, TarjanInvBut
<1>9. GroupsHold(adj, D, left.order)
  BY <1>3 DEF TarjanInv, TarjanInvBut
<1> QED BY <1>3, <1>5, <1>6, <1>7, <1>8, <1>9 DEF TarjanInvBut, left

OneEach(index, S) == \A a, b \in S : index[a] = index[b] => a = b

(* A list that rises has no element twice. *)
LEMMA RisesInjective ==
  ASSUME NEW A, NEW s \in Seq(A), NEW index \in [A -> Nat], Rises(index, s)
  PROVE  OneEach(index, ToSet(s))
<1> SUFFICES ASSUME NEW a \in ToSet(s), NEW b \in ToSet(s), index[a] = index[b]
             PROVE  a = b
  BY DEF OneEach
<1>1. DOMAIN s = 1..Len(s) /\ Len(s) \in Nat /\ \A i \in 1..Len(s) : s[i] \in A
  OBVIOUS
<1>2. PICK i \in 1..Len(s) : a = s[i]
  BY <1>1 DEF ToSet
<1>3. PICK j \in 1..Len(s) : b = s[j]
  BY <1>1 DEF ToSet
<1>4. index[a] \in Nat /\ index[b] \in Nat
  BY <1>1, <1>2, <1>3
<1>5. CASE i < j
  BY <1>1, <1>2, <1>3, <1>4, <1>5 DEF Rises
<1>6. CASE j < i
  BY <1>1, <1>2, <1>3, <1>4, <1>6 DEF Rises
<1>7. CASE i = j
  BY <1>2, <1>3, <1>7
<1> QED BY <1>1, <1>5, <1>6, <1>7

(* A list that rises without its last element: what is below that.         *)
LEMMA RisesLast ==
  ASSUME NEW A, NEW s \in Seq(A), NEW x \in A, NEW index \in [A -> Nat], Rises(index, Append(s, x))
  PROVE  Rises(index, s) /\ \A y \in ToSet(s) : index[y] < index[x]
<1>1. /\ Len(s) \in Nat /\ DOMAIN s = 1..Len(s) /\ DOMAIN Append(s, x) = 1..(Len(s) + 1)
      /\ \A i \in 1..Len(s) : Append(s, x)[i] = s[i] /\ s[i] \in A
      /\ Append(s, x)[Len(s) + 1] = x
  BY AppendFacts
<1> DEFINE longer == Append(s, x)
<1>2. Rises(index, longer)
  OBVIOUS
<1> HIDE DEF longer
<1>3. ASSUME NEW i \in 1..Len(s), NEW j \in 1..Len(s), i < j PROVE index[s[i]] < index[s[j]]
  <2>1. i \in DOMAIN longer /\ j \in DOMAIN longer /\ longer[i] = s[i] /\ longer[j] = s[j]
    BY <1>1 DEF longer
  <2> QED BY <1>2, <1>3, <2>1 DEF Rises
<1>4. ASSUME NEW y \in ToSet(s) PROVE index[y] < index[x]
  <2>1. PICK i \in 1..Len(s) : y = s[i]
    BY <1>1 DEF ToSet
  <2>2. i \in DOMAIN longer /\ Len(s) + 1 \in DOMAIN longer /\ i < Len(s) + 1
        /\ longer[i] = y /\ longer[Len(s) + 1] = x
    BY <1>1, <2>1 DEF longer
  <2> QED BY <1>2, <2>2 DEF Rises
<1> QED BY <1>1, <1>3, <1>4 DEF Rises

(* The call in progress. *)
LEMMA TopCall ==
  ASSUME NEW nodes, NEW t \in TarjanType(nodes), StackHolds(t), t.calls # <<>>
  PROVE  LET c == Last(t.calls)
         IN  /\ c \in CallsOf(nodes) /\ c.node \in nodes /\ c.rest \in Seq(nodes)
             /\ Front(t.calls) \in Seq(CallsOf(nodes)) /\ t.calls = Append(Front(t.calls), c)
             /\ ToSet(t.calls) = ToSet(Front(t.calls)) \cup {c}
             /\ Called(t) = NodesOf(Front(t.calls)) \cup {c.node}
             /\ CallNodes(t.calls) = Append(CallNodes(Front(t.calls)), c.node)
             /\ CallNodes(Front(t.calls)) \in Seq(nodes)
             /\ Rises(t.index, CallNodes(Front(t.calls)))
             /\ \A n \in NodesOf(Front(t.calls)) : t.index[n] < t.index[c.node]
             /\ c.node \in OnStack(t)
<1> DEFINE c == Last(t.calls)
           front == Front(t.calls)
<1>1. t.calls \in Seq(CallsOf(nodes)) /\ t.index \in [nodes -> Nat]
  BY TarjanTypeParts
<1>2. /\ c \in CallsOf(nodes) /\ front \in Seq(CallsOf(nodes)) /\ t.calls = Append(front, c)
  BY <1>1, LastFacts
<1> HIDE DEF c, front
<1>3. c.node \in nodes /\ c.rest \in Seq(nodes)
  BY <1>2 DEF CallsOf
<1>4. ToSet(t.calls) = ToSet(front) \cup {c}
  BY <1>2, AppendFacts
<1>5. /\ CallNodes(front) \in Seq(nodes)
      /\ CallNodes(t.calls) = Append(CallNodes(front), c.node)
      /\ Called(t) = NodesOf(front) \cup {c.node}
      /\ ToSet(CallNodes(front)) = NodesOf(front)
  BY <1>2, AppendCall DEF Called
<1>6. Rises(t.index, Append(CallNodes(front), c.node))
  BY <1>5 DEF StackHolds
<1>7. Rises(t.index, CallNodes(front)) /\ \A n \in NodesOf(front) : t.index[n] < t.index[c.node]
  BY <1>1, <1>3, <1>5, <1>6, RisesLast
<1>8. c.node \in OnStack(t)
  BY <1>5 DEF StackHolds
<1> QED BY <1>2, <1>3, <1>4, <1>5, <1>7, <1>8 DEF c, front

(* The state when the call in progress looks at its next neighbour.        *)
LEMMA TakeFields ==
  ASSUME NEW nodes, NEW t \in TarjanType(nodes), t.calls # <<>>, Last(t.calls).rest # <<>>
  PROVE  /\ NextNeighbour(t) \in TarjanType(nodes)
         /\ NextNeighbour(t).index = t.index /\ NextNeighbour(t).low = t.low
         /\ NextNeighbour(t).counter = t.counter /\ NextNeighbour(t).stack = t.stack
         /\ NextNeighbour(t).order = t.order /\ NextNeighbour(t).roots = t.roots
         /\ NextNeighbour(t).calls =
              Append(Front(t.calls), [node |-> Last(t.calls).node, rest |-> Tail(Last(t.calls).rest)])
         /\ Last(t.calls).rest \in Seq(nodes) /\ Tail(Last(t.calls).rest) \in Seq(nodes)
<1> DEFINE left == NextNeighbour(t)
           c == Last(t.calls)
           front == Front(t.calls)
           c2 == [node |-> c.node, rest |-> Tail(c.rest)]
           N == Len(t.calls)
           calls2 == [t.calls EXCEPT ![N].rest = Tail(@)]
<1>1. t.calls \in Seq(CallsOf(nodes))
  BY TarjanTypeParts
<1>2. /\ c \in CallsOf(nodes) /\ front \in Seq(CallsOf(nodes)) /\ N \in Nat \ {0} /\ Len(front) = N - 1
      /\ DOMAIN t.calls = 1..N /\ \A i \in 1..(N - 1) : front[i] = t.calls[i]
      /\ t.calls[N] = c
  BY <1>1, LastFacts DEF Last
<1>3. c.rest \in Seq(nodes) /\ Tail(c.rest) \in Seq(nodes) /\ c.node \in nodes /\ c = [node |-> c.node, rest |-> c.rest]
  <2>1. c.rest \in Seq(nodes) /\ c.node \in nodes /\ c = [node |-> c.node, rest |-> c.rest]
    <3> HIDE DEF c
    <3> QED BY <1>2 DEF CallsOf
  <2> QED BY <2>1
<1>4. c2 \in CallsOf(nodes)
  BY <1>3 DEF CallsOf
<1>5. [c EXCEPT !.rest = Tail(@)] = c2
  <2> DEFINE rest == Tail(c.rest)
  <2>1. c \in [node : nodes, rest : Seq(nodes)]
    BY <1>2 DEF CallsOf
  <2> HIDE DEF c, rest
  <2>2. [c EXCEPT !.rest = rest] = [node |-> c.node, rest |-> rest]
    BY <2>1
  <2> QED BY <2>2 DEF rest
<1>6. calls2 = [i \in 1..N |-> IF i = N THEN c2 ELSE t.calls[i]]
  <2>1. calls2 = [i \in 1..N |-> IF i = N THEN [t.calls[N] EXCEPT !.rest = Tail(@)] ELSE t.calls[i]]
    BY <1>2
  <2> QED BY <1>2, <1>5, <2>1
<1> HIDE DEF c, front, c2, left, N
<1>7. Append(front, c2) = [i \in 1..N |-> IF i = N THEN c2 ELSE t.calls[i]]
  <2> DEFINE longer == Append(front, c2)
  <2>1. /\ longer \in Seq(CallsOf(nodes)) /\ DOMAIN longer = 1..(Len(front) + 1)
        /\ longer[Len(front) + 1] = c2 /\ \A i \in 1..Len(front) : longer[i] = front[i]
    BY <1>2, <1>4, AppendFacts
  <2> HIDE DEF longer
  <2>2. DOMAIN longer = 1..N /\ longer[N] = c2 /\ \A i \in 1..(N - 1) : longer[i] = t.calls[i]
    BY <1>2, <2>1
  <2>3. longer = [i \in 1..N |-> longer[i]]
    <3>1. longer \in Seq(CallsOf(nodes)) /\ DOMAIN longer = 1..N
      BY <2>1, <2>2
    <3> QED BY <3>1
  <2>4. \A i \in 1..N : longer[i] = IF i = N THEN c2 ELSE t.calls[i]
    BY <1>2, <2>2
  <2> QED BY <2>3, <2>4 DEF longer
<1>8. calls2 = Append(front, c2)
  BY <1>6, <1>7
<1>9. Append(front, c2) \in Seq(CallsOf(nodes))
  BY <1>2, <1>4, AppendFacts
<1>10. left = [t EXCEPT !.calls = calls2]
  BY DEF TarjanType, N, NextNeighbour, left
<1> HIDE DEF calls2, left
<1>11. /\ left \in TarjanType(nodes) /\ left.calls = calls2
       /\ left.index = t.index /\ left.low = t.low /\ left.counter = t.counter /\ left.stack = t.stack
       /\ left.order = t.order /\ left.roots = t.roots
  BY <1>8, <1>9, <1>10 DEF TarjanType
<1> QED BY <1>3, <1>8, <1>11 DEF c, front, c2, left

(* What has been looked at matters only on the stack. *)
LEMMA LowsOfLess ==
  ASSUME NEW D, NEW index, NEW low, NEW on, NEW called, NEW looked, NEW looked2,
         Lows(D, index, low, on, called, looked), \A n \in on : looked2[n] \cap on \subseteq looked[n]
  PROVE  Lows(D, index, low, on, called, looked2)
  BY DEF Lows

(* The call in progress has looked at a node of the stack. *)
MeetsNode(nodes, D, index, low, low2, on, called, looked, looked2, v, x) ==
  /\ on \in SUBSET nodes /\ called \in SUBSET on
  /\ index \in [nodes -> Nat] /\ low \in [nodes -> Nat] /\ low2 \in [nodes -> Nat]
  /\ OneEach(index, on)
  /\ v \in called /\ \A c \in called : index[c] <= index[v]
  /\ x \in on /\ <<v, x>> \in D
  /\ low2[v] = Smaller(low[v], index[x])
  /\ \A n \in nodes : n # v => low2[n] = low[n]
  /\ \A n \in on : n # v => looked2[n] = looked[n]
  /\ looked2[v] \subseteq looked[v] \cup {x}

LEMMA LowsMeet ==
  ASSUME NEW nodes, NEW D, NEW index, NEW low, NEW low2, NEW on, NEW called, NEW looked, NEW looked2, NEW v, NEW x,
         Lows(D, index, low, on, called, looked),
         MeetsNode(nodes, D, index, low, low2, on, called, looked, looked2, v, x)
  PROVE  Lows(D, index, low2, on, called, looked2)
<1>1. /\ v \in on /\ v \in nodes /\ x \in nodes
      /\ on \in SUBSET nodes /\ called \in SUBSET on
      /\ index \in [nodes -> Nat] /\ low \in [nodes -> Nat] /\ low2 \in [nodes -> Nat]
      /\ OneEach(index, on)
      /\ v \in called /\ \A c \in called : index[c] <= index[v]
      /\ x \in on /\ <<v, x>> \in D
      /\ low2[v] = Smaller(low[v], index[x])
      /\ \A n \in nodes : n # v => low2[n] = low[n]
      /\ \A n \in on : n # v => looked2[n] = looked[n]
      /\ looked2[v] \subseteq looked[v] \cup {x}
  BY DEF MeetsNode
<1> USE <1>1
<1>2. low2[v] <= low[v] /\ low2[v] <= index[x] /\ low2[v] \in {low[v], index[x]}
  BY <1>1 DEF Smaller
<1>3. ASSUME NEW n \in on
      PROVE  /\ low2[n] <= index[n]
             /\ n \notin called => low2[n] # index[n]
             /\ \E m \in on : index[m] = low2[n] /\ <<n, m>> \in D
  <2>1. low[n] <= index[n] /\ (n \notin called => low[n] # index[n])
    BY DEF Lows
  <2>2. PICK m \in on : index[m] = low[n] /\ <<n, m>> \in D
    BY DEF Lows
  <2>3. CASE n = v
    <3>1. low2[n] <= index[n]
      <4>1. low2[n] \in Nat /\ low[n] \in Nat /\ index[n] \in Nat
        BY <1>1
      <4> QED BY <1>2, <2>1, <2>3, <4>1
    <3>2. \E k \in on : index[k] = low2[n] /\ <<n, k>> \in D
      BY <1>2, <2>2, <2>3
    <3> QED BY <2>3, <3>1, <3>2
  <2>4. CASE n # v
    <3>1. low2[n] = low[n]
      BY <2>4
    <3> QED BY <2>1, <2>2, <3>1
  <2> QED BY <2>3, <2>4
<1>4. ASSUME NEW c \in called, NEW n \in on, Owns(index, called, c, n)
      PROVE  low2[c] <= low2[n] /\ \A m \in looked2[n] \cap on : low2[c] <= index[m]
  <2>1. low[c] <= low[n] /\ \A m \in looked[n] \cap on : low[c] <= index[m]
    BY <1>4 DEF Lows
  <2>2. c \in nodes /\ n \in nodes /\ low[c] \in Nat /\ low[n] \in Nat /\ low2[c] \in Nat
        /\ \A m \in on : index[m] \in Nat
    OBVIOUS
  <2>3. low2[c] <= low[c]
    BY <1>2, <2>2
  <2>4. CASE n = v
    <3>1. index[v] <= index[c] \/ index[n] < index[v]
      BY <1>4 DEF Owns
    <3>2. index[c] = index[v]
      BY <1>1, <2>2, <2>4, <3>1
    <3>3. c = v
      BY <1>1, <3>2 DEF OneEach
    <3>4. \A m \in looked2[n] \cap on : m \in looked[n] \/ m = x
      BY <2>4
    <3>5. \A m \in looked2[n] \cap on : low2[c] <= index[m]
      BY <1>2, <2>1, <2>2, <2>3, <3>3, <3>4
    <3> QED BY <2>2, <2>4, <3>3, <3>5
  <2>5. CASE n # v
    <3>1. low2[n] = low[n] /\ looked2[n] = looked[n]
      BY <2>2, <2>5
    <3> QED BY <2>1, <2>2, <2>3, <3>1
  <2> QED BY <2>4, <2>5
<1>5. \A c \in called, n \in on : index[c] <= index[n] => <<c, n>> \in D
  BY DEF Lows
<1> QED BY <1>3, <1>4, <1>5 DEF Lows

(* What holds when the call in progress takes its next neighbour. *)
TopName(t) == Last(t.calls).node
NextName(t) == Head(Last(t.calls).rest)
Taken(nodes, adj, D, t, left, v, x) ==
  /\ left \in TarjanType(nodes) /\ x \in nodes
  /\ left.index = t.index /\ left.low = t.low
  /\ OnStack(left) = OnStack(t) /\ Called(left) = Called(t)
  /\ StackHolds(left) /\ NumbersHold(nodes, left, {}) /\ EdgesHold(nodes, adj, left, {x})
  /\ GroupsHold(adj, D, left.order)
  /\ \A n \in nodes : n # v => Looked(nodes, adj, left.calls)[n] = Looked(nodes, adj, t.calls)[n]
  /\ Looked(nodes, adj, left.calls)[v] \subseteq Looked(nodes, adj, t.calls)[v] \cup {x}
  /\ v \in Called(t) /\ \A d \in Called(t) : t.index[d] <= t.index[v] /\ <<d, x>> \in D

LEMMA TakeHolds ==
  ASSUME NEW nodes, NEW adj, NEW D, GoodGraph(nodes, adj, D), NEW t, TarjanInv(nodes, adj, D, t),
         t.calls # <<>>, Last(t.calls).rest # <<>>
  PROVE  Taken(nodes, adj, D, t, NextNeighbour(t), TopName(t), NextName(t))
<1> DEFINE left == NextNeighbour(t)
           v == TopName(t)
           x == NextName(t)
           c == Last(t.calls)
           front == Front(t.calls)
           c2 == [node |-> c.node, rest |-> Tail(c.rest)]
<1>1. t \in TarjanType(nodes) /\ StackHolds(t)
  BY DEF TarjanInv, TarjanInvBut
<1>2. /\ left \in TarjanType(nodes)
      /\ left.index = t.index /\ left.low = t.low /\ left.counter = t.counter /\ left.stack = t.stack
      /\ left.order = t.order /\ left.roots = t.roots
      /\ left.calls = Append(front, c2) /\ c.rest \in Seq(nodes) /\ Tail(c.rest) \in Seq(nodes)
  BY <1>1, TakeFields
<1> HIDE DEF left
<1>3. /\ c \in CallsOf(nodes) /\ v \in nodes
      /\ front \in Seq(CallsOf(nodes))
      /\ ToSet(t.calls) = ToSet(front) \cup {c}
      /\ Called(t) = NodesOf(front) \cup {v}
      /\ CallNodes(t.calls) = Append(CallNodes(front), v)
      /\ \A n \in NodesOf(front) : t.index[n] < t.index[v]
      /\ v \in OnStack(t)
  BY <1>1, TopCall DEF TopName
<1>4. c2 \in CallsOf(nodes) /\ c2.node = v /\ c2.rest = Tail(c.rest) /\ c.node = v
  BY <1>2, <1>3 DEF CallsOf, TopName
<1>5. x \in nodes /\ x \in ToSet(c.rest) /\ ToSet(Tail(c.rest)) \subseteq ToSet(c.rest)
      /\ \A m \in ToSet(c.rest) : m = x \/ m \in ToSet(Tail(c.rest))
  <2>1. c.rest \in Seq(nodes) /\ c.rest # <<>> /\ x = Head(c.rest)
    BY <1>2 DEF NextName
  <2> HIDE DEF c, x
  <2>2. x \in nodes
    BY <2>1
  <2> QED BY <2>1, <2>2, DequeFacts
<1>6. c.rest # <<>> /\ x = Head(c.rest)
  BY DEF NextName
<1> HIDE DEF c, front, c2, v, x
<1>7. /\ ToSet(left.calls) = ToSet(front) \cup {c2}
      /\ Called(left) = Called(t) /\ CallNodes(left.calls) = CallNodes(t.calls)
  BY <1>2, <1>3, <1>4, AppendFacts, AppendCall DEF Called
<1>8. OnStack(left) = OnStack(t) /\ Grouped(left) = Grouped(t)
  BY <1>2 DEF OnStack, Grouped
<1>9. \A n \in nodes : n # v => Looked(nodes, adj, left.calls)[n] = Looked(nodes, adj, t.calls)[n]
  BY <1>3, <1>4, <1>7 DEF Looked
<1>10. Looked(nodes, adj, left.calls)[v] \subseteq Looked(nodes, adj, t.calls)[v] \cup {x}
  BY <1>3, <1>4, <1>5, <1>7 DEF Looked
<1>11. StackHolds(left)
  BY <1>1, <1>2, <1>7, <1>8 DEF StackHolds
<1>12. NumbersHold(nodes, left, {})
  BY <1>2, <1>8 DEF NumbersHold, TarjanInv, TarjanInvBut
<1>13. /\ \A d \in ToSet(t.calls) : ToSet(d.rest) \subseteq ToSet(adj[d.node])
       /\ \A n \in nodes : t.index[n] # 0 => \A m \in Looked(nodes, adj, t.calls)[n] \ {} : t.index[m] # 0
  BY DEF TarjanInv, TarjanInvBut, EdgesHold
<1>14. EdgesHold(nodes, adj, left, {x})
  <2>1. \A d \in ToSet(left.calls) : ToSet(d.rest) \subseteq ToSet(adj[d.node])
    BY <1>3, <1>4, <1>5, <1>7, <1>13
  <2>2. ASSUME NEW n \in nodes, t.index[n] # 0, NEW m \in Looked(nodes, adj, left.calls)[n] \ {x}
        PROVE  t.index[m] # 0
    BY <1>9, <1>10, <1>13, <2>2
  <2> QED BY <1>2, <2>1, <2>2 DEF EdgesHold
<1>15. GroupsHold(adj, D, left.order)
  BY <1>2 DEF TarjanInv, TarjanInvBut
<1>16. <<v, x>> \in D
  BY <1>3, <1>4, <1>5, <1>13 DEF GoodGraph
<1>17. ASSUME NEW d \in Called(t) PROVE t.index[d] <= t.index[v] /\ <<d, x>> \in D
  <2>1. Called(t) \in SUBSET nodes /\ t.index \in [nodes -> Nat]
    BY <1>1, TarjanTypeParts
  <2>2. t.index[d] <= t.index[v] /\ d \in nodes
    BY <1>3, <2>1
  <2>3. <<d, v>> \in D
    BY <1>3, <2>2 DEF TarjanInv, TarjanInvBut, LowsHold, Lows
  <2> QED BY <1>3, <1>5, <1>16, <2>2, <2>3 DEF GoodGraph, Transitive
<1> QED BY <1>2, <1>3, <1>5, <1>7, <1>8, <1>9, <1>10, <1>11, <1>12, <1>14, <1>15, <1>17 DEF Taken, left, v, x

(* The neighbour has no number: its call begins. *)
LEMMA EnterNextHolds ==
  ASSUME NEW nodes, NEW adj, NEW D, GoodGraph(nodes, adj, D), NEW t, TarjanInv(nodes, adj, D, t),
         t.calls # <<>>, Last(t.calls).rest # <<>>,
         t.index[NextName(t)] = 0
  PROVE  TarjanInv(nodes, adj, D, Enter(NextNeighbour(t), NextName(t), adj[NextName(t)]))
<1> DEFINE v == TopName(t)
           x == NextName(t)
           left == NextNeighbour(t)
           looked == Looked(nodes, adj, t.calls)
           looked2 == Looked(nodes, adj, left.calls)
<1>11. Taken(nodes, adj, D, t, left, v, x)
  BY TakeHolds
<1>0. t.index[x] = 0
  OBVIOUS
<1> HIDE DEF v, x, left, looked, looked2
<1>1. /\ left \in TarjanType(nodes) /\ x \in nodes
      /\ left.index = t.index /\ left.low = t.low
      /\ OnStack(left) = OnStack(t) /\ Called(left) = Called(t)
      /\ StackHolds(left) /\ NumbersHold(nodes, left, {}) /\ EdgesHold(nodes, adj, left, {x})
      /\ GroupsHold(adj, D, left.order)
      /\ \A n \in nodes : n # v => looked2[n] = looked[n]
      /\ looked2[v] \subseteq looked[v] \cup {x}
      /\ \A d \in Called(t) : <<d, x>> \in D
  BY <1>11 DEF Taken, looked, looked2
<1>2. x \notin OnStack(t) /\ OnStack(t) \in SUBSET nodes
  <2>1. t \in TarjanType(nodes) /\ NumbersHold(nodes, t, {})
    BY DEF TarjanInv, TarjanInvBut
  <2>2. OnStack(t) \in SUBSET nodes
    BY <2>1, TarjanTypeParts
  <2> QED BY <1>0, <1>1, <2>1, <2>2 DEF NumbersHold
<1>3. \A n \in OnStack(t) : looked2[n] \cap OnStack(t) \subseteq looked[n]
  BY <1>1, <1>2
<1>4. Lows(D, t.index, t.low, OnStack(t), Called(t), looked)
  BY DEF TarjanInv, TarjanInvBut, LowsHold, looked
<1>5. Lows(D, t.index, t.low, OnStack(t), Called(t), looked2)
  BY <1>3, <1>4, LowsOfLess
<1>6. LowsHold(nodes, adj, D, left)
  BY <1>1, <1>5 DEF LowsHold, looked2
<1>7. NumbersHold(nodes, left, {x})
  BY <1>1 DEF NumbersHold
<1>8. TarjanInvBut(nodes, adj, D, left, {x})
  BY <1>1, <1>6, <1>7 DEF TarjanInvBut
<1> QED BY <1>0, <1>1, <1>8, EnterHolds DEF left, x

(* The neighbour has a number. *)
LEMMA MeetHolds ==
  ASSUME NEW nodes, NEW adj, NEW D, GoodGraph(nodes, adj, D), NEW t, TarjanInv(nodes, adj, D, t),
         t.calls # <<>>, Last(t.calls).rest # <<>>,
         t.index[NextName(t)] # 0
  PROVE  TarjanInv(nodes, adj, D, Meet(NextNeighbour(t), TopName(t), NextName(t)))
<1> DEFINE v == TopName(t)
           x == NextName(t)
           left == NextNeighbour(t)
           looked == Looked(nodes, adj, t.calls)
           looked2 == Looked(nodes, adj, left.calls)
           met == Meet(left, v, x)
<1>11. Taken(nodes, adj, D, t, left, v, x)
  BY TakeHolds
<1>0. t.index[x] # 0
  OBVIOUS
<1> HIDE DEF v, x, left, looked, looked2
<1>1. /\ left \in TarjanType(nodes) /\ x \in nodes
      /\ left.index = t.index /\ left.low = t.low
      /\ OnStack(left) = OnStack(t) /\ Called(left) = Called(t)
      /\ StackHolds(left) /\ NumbersHold(nodes, left, {}) /\ EdgesHold(nodes, adj, left, {x})
      /\ GroupsHold(adj, D, left.order)
      /\ \A n \in nodes : n # v => looked2[n] = looked[n]
      /\ looked2[v] \subseteq looked[v] \cup {x}
      /\ v \in Called(t) /\ \A d \in Called(t) : t.index[d] <= t.index[v] /\ <<d, x>> \in D
  BY <1>11 DEF Taken, looked, looked2
<1>2. /\ t \in TarjanType(nodes) /\ StackHolds(t)
      /\ Lows(D, t.index, t.low, OnStack(t), Called(t), looked)
  BY DEF TarjanInv, TarjanInvBut, LowsHold, looked
<1>3. /\ t.index \in [nodes -> Nat] /\ t.low \in [nodes -> Nat] /\ t.stack \in Seq(nodes)
      /\ OnStack(t) \in SUBSET nodes /\ Called(t) \in SUBSET OnStack(t)
  BY <1>2, TarjanTypeParts DEF StackHolds
<1>4. OneEach(t.index, OnStack(t))
  <2>1. Rises(t.index, t.stack)
    BY <1>2 DEF StackHolds
  <2> QED
    <3>1. OneEach(t.index, ToSet(t.stack))
      BY <1>3, <2>1, RisesInjective
    <3> QED BY <3>1 DEF OnStack
<1>5. EdgesHold(nodes, adj, left, {})
  BY <1>0, <1>1 DEF EdgesHold
<1>8. TarjanInv(nodes, adj, D, met)
  <2>6. CASE x \notin OnStack(t)
    <3>1. met = left
      BY <1>1, <2>6 DEF Meet, OnStack
    <3>2. \A n \in OnStack(t) : looked2[n] \cap OnStack(t) \subseteq looked[n]
      <4>1. ASSUME NEW n \in OnStack(t), NEW m \in looked2[n] \cap OnStack(t) PROVE m \in looked[n]
        <5>1. n \in nodes /\ m # x
          BY <1>3, <2>6, <4>1
        <5> QED BY <1>1, <4>1, <5>1
      <4> QED BY <4>1
    <3>3. Lows(D, t.index, t.low, OnStack(t), Called(t), looked2)
      BY <1>2, <3>2, LowsOfLess
    <3>4. LowsHold(nodes, adj, D, left)
      BY <1>1, <3>3 DEF LowsHold, looked2
    <3> QED BY <1>1, <1>5, <3>1, <3>4 DEF TarjanInv, TarjanInvBut
  <2>7. CASE x \in OnStack(t)
    <3> DEFINE low2 == [t.low EXCEPT ![v] = Smaller(@, t.index[x])]
    <3>1. met = [left EXCEPT !.low = low2]
      <4>1. met = [left EXCEPT !.low[v] = Smaller(@, left.index[x])]
        BY <1>1, <2>7 DEF Meet, Lower, OnStack
      <4> QED BY <1>1, <4>1 DEF TarjanType
    <3>2. v \in nodes /\ low2 \in [nodes -> Nat] /\ low2[v] = Smaller(t.low[v], t.index[x])
          /\ \A n \in nodes : n # v => low2[n] = t.low[n]
      BY <1>1, <1>3 DEF Smaller
    <3> HIDE DEF low2, met
    <3>3. /\ met \in TarjanType(nodes) /\ met.low = low2
          /\ met.index = left.index /\ met.counter = left.counter /\ met.stack = left.stack
          /\ met.order = left.order /\ met.calls = left.calls /\ met.roots = left.roots
      BY <1>1, <3>1, <3>2 DEF TarjanType
    <3>4. OnStack(met) = OnStack(t) /\ Grouped(met) = Grouped(left) /\ Called(met) = Called(t)
      BY <1>1, <3>3 DEF OnStack, Grouped, Called
    <3>5. Lows(D, t.index, low2, OnStack(t), Called(t), looked2)
      <4> DEFINE on == OnStack(t)
                 called == Called(t)
                 index == t.index
                 low == t.low
      <4>1. /\ on \in SUBSET nodes /\ called \in SUBSET on /\ index \in [nodes -> Nat] /\ low \in [nodes -> Nat]
            /\ Lows(D, index, low, on, called, looked)
            /\ OneEach(index, on)
            /\ v \in called /\ \A c \in called : index[c] <= index[v]
            /\ x \in on /\ <<v, x>> \in D
            /\ low2[v] = Smaller(low[v], index[x]) /\ \A n \in nodes : n # v => low2[n] = low[n]
            /\ \A n \in on : n # v => looked2[n] = looked[n]
        BY <1>1, <1>2, <1>3, <1>4, <2>7, <3>2
      <4> HIDE DEF on, called, index, low
      <4>2. low2 \in [nodes -> Nat] /\ looked2[v] \subseteq looked[v] \cup {x}
        BY <1>1, <3>2
      <4>3. MeetsNode(nodes, D, index, low, low2, on, called, looked, looked2, v, x)
        BY <4>1, <4>2 DEF MeetsNode
      <4>4. Lows(D, index, low2, on, called, looked2)
        BY <4>1, <4>3, LowsMeet
      <4> QED BY <4>4 DEF on, called, index
    <3>6. LowsHold(nodes, adj, D, met)
      BY <1>1, <3>3, <3>4, <3>5 DEF LowsHold, looked2
    <3>7. StackHolds(met)
      BY <1>1, <3>3, <3>4 DEF StackHolds
    <3>8. NumbersHold(nodes, met, {})
      BY <1>1, <3>3, <3>4 DEF NumbersHold
    <3>9. EdgesHold(nodes, adj, met, {})
      BY <1>5, <3>3 DEF EdgesHold
    <3>10. GroupsHold(adj, D, met.order)
      BY <1>1, <3>3
    <3> QED BY <3>3, <3>6, <3>7, <3>8, <3>9, <3>10 DEF TarjanInv, TarjanInvBut, met
  <2> QED BY <2>6, <2>7
<1> QED BY <1>8 DEF met, left, v, x

(* The call of v ends and v stays on the stack; p is the node of the call  *)
(* before.                                                                 *)
Topmost(nodes, index, on, called, v) ==
  /\ on \in SUBSET nodes /\ called \in SUBSET on /\ index \in [nodes -> Nat]
  /\ OneEach(index, on)
  /\ v \in called /\ \A c \in called : c # v => index[c] < index[v]

LeavesNode(nodes, index, low, low2, on, called, v, p) ==
  /\ Topmost(nodes, index, on, called, v)
  /\ low \in [nodes -> Nat] /\ low2 \in [nodes -> Nat]
  /\ p \in called \ {v} /\ \A c \in called \ {v} : index[c] <= index[p]
  /\ low[v] # index[v]
  /\ low2[p] = Smaller(low[p], low[v])
  /\ \A n \in nodes : n # p => low2[n] = low[n]

LEMMA LowsReturn ==
  ASSUME NEW nodes, NEW D, NEW index, NEW low, NEW low2, NEW on, NEW called, NEW looked, NEW v, NEW p,
         Transitive(nodes, D), Lows(D, index, low, on, called, looked),
         LeavesNode(nodes, index, low, low2, on, called, v, p)
  PROVE  Lows(D, index, low2, on, called \ {v}, looked)
<1> DEFINE less == called \ {v}
<1>1. /\ on \in SUBSET nodes /\ called \in SUBSET on
      /\ index \in [nodes -> Nat] /\ low \in [nodes -> Nat] /\ low2 \in [nodes -> Nat]
      /\ OneEach(index, on)
      /\ v \in called /\ \A c \in called : c # v => index[c] < index[v]
      /\ p \in called /\ p # v /\ \A c \in less : index[c] <= index[p]
      /\ low[v] # index[v]
      /\ low2[p] = Smaller(low[p], low[v])
      /\ \A n \in nodes : n # p => low2[n] = low[n]
      /\ v \in on /\ p \in on /\ v \in nodes /\ p \in nodes
  BY DEF LeavesNode, Topmost
<1> USE <1>1
<1>2. low2[p] <= low[p] /\ low2[p] <= low[v] /\ low2[p] \in {low[p], low[v]}
  BY DEF Smaller
<1>3. ASSUME NEW n \in on
      PROVE  /\ low2[n] <= index[n]
             /\ n \notin less => low2[n] # index[n]
             /\ \E m \in on : index[m] = low2[n] /\ <<n, m>> \in D
  <2>1. low[n] <= index[n] /\ (n \notin called => low[n] # index[n])
    BY DEF Lows
  <2>2. PICK m \in on : index[m] = low[n] /\ <<n, m>> \in D
    BY DEF Lows
  <2>3. CASE n = p
    <3>1. low2[n] <= index[n]
      <4>1. low2[n] \in Nat /\ low[n] \in Nat /\ index[n] \in Nat
        OBVIOUS
      <4> QED BY <1>2, <2>1, <2>3, <4>1
    <3>2. PICK k \in on : index[k] = low[v] /\ <<v, k>> \in D
      BY DEF Lows
    <3>3. <<p, v>> \in D
      <4>1. index[p] < index[v] /\ index[p] \in Nat /\ index[v] \in Nat
        OBVIOUS
      <4>2. index[p] <= index[v]
        BY <4>1
      <4> QED BY <4>2 DEF Lows
    <3>4. <<p, k>> \in D
      BY <3>2, <3>3 DEF Transitive
    <3>5. \E j \in on : index[j] = low2[n] /\ <<n, j>> \in D
      <4>1. CASE low2[p] = low[p]
        BY <2>2, <2>3, <4>1
      <4>2. CASE low2[p] = low[v]
        BY <2>3, <3>2, <3>4, <4>2
      <4> QED BY <1>2, <4>1, <4>2
    <3>6. n \in less
      BY <2>3
    <3> QED BY <3>1, <3>5, <3>6
  <2>4. CASE n # p
    <3>1. low2[n] = low[n]
      BY <2>4
    <3>2. n \notin less => low[n] # index[n]
      BY <2>1
    <3> QED BY <2>1, <2>2, <3>1, <3>2
  <2> QED BY <2>3, <2>4
<1>4. ASSUME NEW c \in less, NEW n \in on, Owns(index, less, c, n)
      PROVE  low2[c] <= low2[n] /\ \A m \in looked[n] \cap on : low2[c] <= index[m]
  <2>1. /\ c \in nodes /\ n \in nodes /\ low[c] \in Nat /\ low[n] \in Nat /\ low2[c] \in Nat
        /\ index[c] \in Nat /\ index[n] \in Nat /\ index[v] \in Nat /\ index[p] \in Nat /\ low[v] \in Nat
        /\ c \in called /\ c \in on /\ c # v
    OBVIOUS
  <2>9. \A m \in on : index[m] \in Nat
    OBVIOUS
  <2>2. low2[c] <= low[c]
    BY <1>2, <2>1
  <2>3. index[c] <= index[n] /\ index[c] < index[v] /\ index[c] <= index[p] /\ index[p] < index[v]
    BY <1>4, <2>1 DEF Owns
  <2>4. index[p] <= index[c] \/ index[n] < index[p]
    BY <1>4 DEF Owns
  <2>5. CASE index[n] < index[v]
    <3>1. Owns(index, called, c, n)
      BY <1>4, <2>5 DEF Owns
    <3>2. low[c] <= low[n] /\ \A m \in looked[n] \cap on : low[c] <= index[m]
      BY <2>1, <3>1 DEF Lows
    <3>3. \A m \in looked[n] \cap on : low2[c] <= index[m]
      BY <2>1, <2>2, <2>9, <3>2
    <3>4. CASE n = p
      <4>1. index[c] = index[p]
        BY <2>1, <2>3, <2>4, <3>4
      <4>2. c = p
        BY <2>1, <4>1 DEF OneEach
      <4> QED BY <2>1, <3>3, <3>4, <4>2
    <3>5. CASE n # p
      <4>1. low2[n] = low[n]
        BY <2>1, <3>5
      <4>2. low2[c] <= low2[n]
        BY <2>1, <2>2, <3>2, <4>1
      <4> QED BY <3>3, <4>2
    <3> QED BY <3>4, <3>5
  <2>6. CASE index[v] <= index[n]
    <3>1. index[p] <= index[c]
      BY <2>1, <2>3, <2>4, <2>6
    <3>2. index[c] = index[p]
      BY <2>1, <2>3, <3>1
    <3>3. c = p
      BY <2>1, <3>2 DEF OneEach
    <3>4. Owns(index, called, v, n)
      <4>1. \A d \in called : index[d] <= index[v]
        <5>1. ASSUME NEW d \in called PROVE index[d] <= index[v]
          <6>1. index[d] \in Nat /\ (d # v => index[d] < index[v])
            OBVIOUS
          <6>2. CASE d = v
            BY <2>1, <6>2
          <6>3. CASE d # v
            BY <2>1, <6>1, <6>3
          <6> QED BY <6>2, <6>3
        <5> QED BY <5>1
      <4> QED BY <2>6, <4>1 DEF Owns
    <3>5. low[v] <= low[n] /\ \A m \in looked[n] \cap on : low[v] <= index[m]
      BY <3>4 DEF Lows
    <3>6. n # p
      BY <2>1, <2>3, <2>6
    <3>7. low2[n] = low[n] /\ low2[c] <= low[v]
      BY <1>2, <2>1, <3>3, <3>6
    <3>8. low2[c] <= low2[n]
      BY <2>1, <3>5, <3>7
    <3>9. \A m \in looked[n] \cap on : low2[c] <= index[m]
      BY <2>1, <2>9, <3>5, <3>7
    <3> QED BY <3>8, <3>9
  <2> QED BY <2>1, <2>5, <2>6
<1>5. \A c \in less, n \in on : index[c] <= index[n] => <<c, n>> \in D
  BY DEF Lows
<1> QED BY <1>3, <1>4, <1>5 DEF Lows

(* The call of v ends and the nodes from v up leave the stack. *)
Above(index, on, v) == {n \in on : index[v] <= index[n]}

LEMMA LowsPop ==
  ASSUME NEW nodes, NEW D, NEW index, NEW low \in [nodes -> Nat], NEW low2, NEW on, NEW called, NEW looked, NEW v,
         Lows(D, index, low, on, called, looked), Topmost(nodes, index, on, called, v),
         \A n \in nodes : low2[n] = low[n]
  PROVE  Lows(D, index, low2, on \ Above(index, on, v), called \ {v}, looked)
<1> DEFINE less == called \ {v}
           left == on \ Above(index, on, v)
<1>1. /\ on \in SUBSET nodes /\ called \in SUBSET on /\ index \in [nodes -> Nat]
      /\ v \in called /\ v \in nodes /\ v \in on
      /\ left \subseteq on /\ less \subseteq called
  BY DEF Topmost
<1>2. \A n \in left : n \in nodes /\ n \in on /\ index[n] \in Nat /\ index[v] \in Nat /\ index[n] < index[v]
  BY <1>1 DEF Above
<1>5. \A n \in on : index[n] \in Nat /\ low[n] \in Nat /\ n \in nodes
                    /\ (index[n] < index[v] => n \in left)
  BY <1>1 DEF Above
<1> HIDE DEF left
<1>3. ASSUME NEW n \in left
      PROVE  /\ low2[n] <= index[n]
             /\ n \notin less => low2[n] # index[n]
             /\ \E m \in left : index[m] = low2[n] /\ <<n, m>> \in D
  <2>1. n # v /\ n \in on /\ n \in nodes /\ low2[n] = low[n] /\ low[n] \in Nat
        /\ index[n] \in Nat /\ index[v] \in Nat /\ index[n] < index[v]
    BY <1>2, <1>5
  <2>2. low[n] <= index[n] /\ (n \notin called => low[n] # index[n])
    BY <2>1 DEF Lows
  <2>3. PICK m \in on : index[m] = low[n] /\ <<n, m>> \in D
    BY <2>1 DEF Lows
  <2>4. m \in left
    BY <1>5, <2>1, <2>2, <2>3
  <2>5. n \notin less => low2[n] # index[n]
    BY <2>1, <2>2
  <2> QED BY <2>1, <2>2, <2>3, <2>4, <2>5
<1>4. ASSUME NEW c \in less, NEW n \in left, Owns(index, less, c, n)
      PROVE  low2[c] <= low2[n] /\ \A m \in looked[n] \cap left : low2[c] <= index[m]
  <2>1. c \in called /\ n \in on /\ c \in nodes /\ n \in nodes /\ low2[c] = low[c] /\ low2[n] = low[n]
    BY <1>1, <1>2
  <2>2. index[n] < index[v]
    BY <1>2
  <2>3. Owns(index, called, c, n)
    BY <1>4, <2>2 DEF Owns
  <2>4. low[c] <= low[n] /\ \A m \in looked[n] \cap on : low[c] <= index[m]
    BY <2>1, <2>3 DEF Lows
  <2> QED BY <1>1, <2>1, <2>4
<1>6. \A c \in less, n \in left : index[c] <= index[n] => <<c, n>> \in D
  BY <1>1 DEF Lows
<1> QED BY <1>3, <1>4, <1>6 DEF Lows, left

(* Those nodes are mutually dependent, and what they have looked at on the *)
(* stack is among them.                                                    *)
LEMMA OwnsAbove ==
  ASSUME NEW nodes, NEW index, NEW on, NEW called, NEW v, Topmost(nodes, index, on, called, v),
         NEW n \in Above(index, on, v)
  PROVE  Owns(index, called, v, n)
<1>1. /\ on \in SUBSET nodes /\ called \in SUBSET on /\ index \in [nodes -> Nat]
      /\ v \in called /\ \A c \in called : c # v => index[c] < index[v]
  BY DEF Topmost
<1>2. ASSUME NEW d \in called PROVE index[d] <= index[v]
  <2>1. index[d] \in Nat /\ index[v] \in Nat /\ (d # v => index[d] < index[v])
    BY <1>1
  <2>2. CASE d = v
    BY <2>1, <2>2
  <2>3. CASE d # v
    BY <2>1, <2>3
  <2> QED BY <2>2, <2>3
<1> QED BY <1>2 DEF Owns, Above

LEMMA GroupMutual ==
  ASSUME NEW nodes, NEW D, NEW index, NEW low \in [nodes -> Nat], NEW on, NEW called, NEW looked, NEW v,
         Lows(D, index, low, on, called, looked), Topmost(nodes, index, on, called, v),
         low[v] = index[v], Transitive(nodes, D), \A n \in nodes : <<n, n>> \in D
  PROVE  /\ \A a, b \in Above(index, on, v) : <<a, b>> \in D
         /\ \A a \in Above(index, on, v) : looked[a] \cap on \subseteq Above(index, on, v)
<1> DEFINE G == Above(index, on, v)
<1>1. /\ on \in SUBSET nodes /\ called \in SUBSET on /\ index \in [nodes -> Nat]
      /\ v \in called /\ v \in nodes /\ v \in on /\ \A c \in called : c # v => index[c] < index[v]
  BY DEF Topmost
<1>2. \A n \in G : n \in on /\ n \in nodes /\ index[v] <= index[n] /\ index[n] \in Nat
  BY <1>1 DEF Above
<1>3. \A n \in on : n \in nodes /\ index[n] \in Nat /\ low[n] \in Nat /\ (index[v] <= index[n] => n \in G)
  BY <1>1 DEF Above
<1>4. \A n \in G : Owns(index, called, v, n)
  BY OwnsAbove
<1> HIDE DEF G
<1>5. \A n \in G : <<v, n>> \in D
  BY <1>1, <1>2 DEF Lows
<1>6. \A n \in G : <<n, v>> \in D
  <2> DEFINE bad == {n \in G : <<n, v>> \notin D}
             T == {index[n] : n \in bad}
  <2>1. CASE bad # {}
    <3>1. T \in SUBSET Nat /\ T # {}
      BY <1>2, <2>1
    <3> HIDE DEF T
    <3>2. PICK least \in T : \A k \in T : least <= k
      BY <3>1, Smallest
    <3>3. PICK n \in bad : least = index[n]
      BY <3>2 DEF T
    <3>4. n \in G /\ <<n, v>> \notin D /\ \A k \in bad : index[n] <= index[k]
      BY <3>2, <3>3 DEF T
    <3> HIDE DEF bad
    <3>5. n # v /\ n \in on /\ n \in nodes /\ index[v] <= index[n] /\ index[n] \in Nat /\ index[v] \in Nat
      BY <1>1, <1>2, <3>4
    <3>6. n \notin called
      BY <1>1, <3>5
    <3>7. low[n] <= index[n] /\ low[n] # index[n]
      BY <3>5, <3>6 DEF Lows
    <3>8. PICK m \in on : index[m] = low[n] /\ <<n, m>> \in D
      BY <3>5 DEF Lows
    <3>9. low[v] <= low[n]
      BY <1>1, <1>4, <3>4, <3>5 DEF Lows
    <3>10. m \in G /\ m \in nodes /\ index[m] < index[n] /\ index[m] \in Nat
      BY <1>3, <3>5, <3>7, <3>8, <3>9
    <3>11. m \notin bad
      BY <3>4, <3>5, <3>10
    <3>12. <<m, v>> \in D
      BY <3>10, <3>11 DEF bad
    <3> QED BY <1>1, <3>4, <3>5, <3>8, <3>10, <3>12 DEF Transitive
  <2>2. CASE bad = {}
    BY <2>2
  <2> QED BY <2>1, <2>2
<1>7. ASSUME NEW a \in G, NEW b \in G PROVE <<a, b>> \in D
  BY <1>1, <1>2, <1>5, <1>6 DEF Transitive
<1>8. ASSUME NEW a \in G, NEW b \in looked[a] \cap on PROVE b \in G
  <2>1. low[v] <= index[b]
    BY <1>1, <1>2, <1>4 DEF Lows
  <2> QED BY <1>3, <2>1
<1> QED BY <1>7, <1>8 DEF G

(* The sorted list of a finite set of numbers: below its first k numbers   *)
(* there are 0, 1, 2 ... of it.                                            *)
LEMMA SortedFacts ==
  ASSUME NEW S \in SUBSET Nat, IsFiniteSet(S)
  PROVE  Sorted(S) \in Seq(S) /\ ToSet(Sorted(S)) = S /\ Len(Sorted(S)) = Cardinality(S)
<1> DEFINE N == Cardinality(S)
           Below(n) == {m \in S : m < n}
           rank == [n \in S |-> Cardinality(Below(n))]
           R == {rank[n] : n \in S}
<1>1. N \in Nat
  BY FS_CardinalityType
<1>2. \A n \in S : IsFiniteSet(Below(n)) /\ Below(n) \subseteq S /\ Below(n) # S
  <2>1. ASSUME NEW n \in S PROVE IsFiniteSet(Below(n)) /\ Below(n) \subseteq S /\ Below(n) # S
    <3>1. Below(n) \subseteq S /\ n \notin Below(n)
      OBVIOUS
    <3> HIDE DEF Below
    <3> QED BY <3>1, FS_Subset
  <2> QED BY <2>1
<1>3. \A n \in S : rank[n] \in Nat /\ rank[n] < N /\ rank[n] = Cardinality(Below(n))
  <2>1. ASSUME NEW n \in S PROVE Cardinality(Below(n)) \in Nat /\ Cardinality(Below(n)) < N
    <3> HIDE DEF Below
    <3>1. IsFiniteSet(Below(n)) /\ Below(n) \subseteq S /\ Below(n) # S
      BY <1>2
    <3>2. Cardinality(Below(n)) \in Nat
      BY <3>1, FS_CardinalityType
    <3>3. Cardinality(Below(n)) <= N /\ Cardinality(Below(n)) # N
      BY <3>1, FS_Subset
    <3> QED BY <1>1, <3>2, <3>3
  <2> QED BY <2>1
<1>4. \A a, b \in S : a < b => rank[a] < rank[b]
  <2>1. ASSUME NEW a \in S, NEW b \in S, a < b PROVE Cardinality(Below(a)) < Cardinality(Below(b))
    <3>1. Below(a) \subseteq Below(b) /\ a \in Below(b) /\ a \notin Below(a) /\ Below(a) # Below(b)
      <4>1. Below(a) \subseteq Below(b)
        <5>1. ASSUME NEW m \in S, m < a PROVE m < b
          <6>1. m \in Nat /\ a \in Nat /\ b \in Nat
            OBVIOUS
          <6> QED BY <2>1, <5>1, <6>1
        <5> QED BY <5>1
      <4>2. a \in Below(b) /\ a \notin Below(a)
        BY <2>1
      <4> QED BY <4>1, <4>2
    <3>2. IsFiniteSet(Below(a)) /\ IsFiniteSet(Below(b))
      BY <1>2
    <3> HIDE DEF Below
    <3>3. Cardinality(Below(a)) <= Cardinality(Below(b)) /\ Cardinality(Below(a)) # Cardinality(Below(b))
      BY <3>1, <3>2, FS_Subset
    <3>4. Cardinality(Below(a)) \in Nat /\ Cardinality(Below(b)) \in Nat
      BY <3>2, FS_CardinalityType
    <3> QED BY <3>3, <3>4
  <2> QED BY <2>1
<1> HIDE DEF rank
<1>5. \A a, b \in S : rank[a] = rank[b] => a = b
  <2>1. ASSUME NEW a \in S, NEW b \in S, a # b PROVE rank[a] # rank[b]
    <3>1. a \in Nat /\ b \in Nat /\ rank[a] \in Nat /\ rank[b] \in Nat
      BY <1>3
    <3>2. a < b \/ b < a
      BY <2>1, <3>1
    <3> QED BY <1>4, <3>1, <3>2
  <2> QED BY <2>1
<1>6. R = 0..(N - 1)
  <2>1. R \subseteq 0..(N - 1)
    <3>1. ASSUME NEW n \in S PROVE rank[n] \in 0..(N - 1)
      <4> HIDE DEF N, Below
      <4>1. rank[n] \in Nat /\ rank[n] < N
        BY <1>3
      <4> QED BY <1>1, <4>1
    <3> QED BY <3>1
  <2>2. IsFiniteSet(0..(N - 1)) /\ Cardinality(0..(N - 1)) = N
    <3>1. 0 \in Int /\ N - 1 \in Int
      BY <1>1
    <3>2. IsFiniteSet(0..(N - 1)) /\ Cardinality(0..(N - 1)) = IF 0 > N - 1 THEN 0 ELSE (N - 1) - 0 + 1
      <4> DEFINE last == N - 1
      <4> HIDE DEF last
      <4>1. IsFiniteSet(0..last) /\ Cardinality(0..last) = IF 0 > last THEN 0 ELSE last - 0 + 1
        <5>1. last \in Int
          BY <3>1 DEF last
        <5> QED BY <5>1, FS_Interval
      <4> QED BY <4>1 DEF last
    <3> QED BY <1>1, <3>2
  <2>3. IsFiniteSet(R) /\ Cardinality(R) = N
    <3>1. rank \in [S -> R]
      BY DEF rank
    <3>2. rank \in Bijection(S, R)
      BY <1>5, <3>1 DEF Bijection, Injection, Surjection, IsInjective
    <3>3. ExistsBijection(S, R)
      BY <3>2 DEF ExistsBijection
    <3> HIDE DEF R
    <3>4. IsFiniteSet(R) /\ Cardinality(R) = Cardinality(S)
      BY <3>3, FS_Bijection
    <3> QED BY <3>4
  <2> HIDE DEF R, N
  <2> QED BY <2>1, <2>2, <2>3, FS_Subset
<1> DEFINE at(i) == CHOOSE n \in S : Cardinality(Below(n)) = i - 1
<1>7. \A i \in 1..N : at(i) \in S /\ rank[at(i)] = i - 1
  <2>1. ASSUME NEW i \in 1..N PROVE at(i) \in S /\ rank[at(i)] = i - 1
    <3>1. i - 1 \in R
      <4> HIDE DEF R, N
      <4>1. i - 1 \in 0..(N - 1)
        BY <1>1
      <4> QED BY <1>6, <4>1
    <3>2. PICK n \in S : rank[n] = i - 1
      BY <3>1
    <3>3. \E m \in S : Cardinality(Below(m)) = i - 1
      BY <1>3, <3>2
    <3>4. at(i) \in S /\ Cardinality(Below(at(i))) = i - 1
      BY <3>3
    <3> QED BY <1>3, <3>4
  <2> QED BY <2>1
<1>8. Sorted(S) = [i \in 1..N |-> at(i)]
  BY DEF Sorted
<1> DEFINE s == Sorted(S)
<1>9. s \in Seq(S) /\ DOMAIN s = 1..N /\ Len(s) = N /\ \A i \in 1..N : s[i] = at(i)
  <2> HIDE DEF at, N
  <2>1. s = [i \in 1..N |-> at(i)]
    BY <1>8
  <2> HIDE DEF s
  <2>2. s \in [1..N -> S]
    BY <1>7, <2>1
  <2> QED BY <1>1, <2>1, <2>2
<1> HIDE DEF at, s, Below, N, R
<1>10. ASSUME NEW n \in S PROVE n \in ToSet(s)
  <2> DEFINE i == rank[n] + 1
  <2>1. i \in 1..N /\ rank[n] \in Nat /\ i - 1 = rank[n]
    BY <1>1, <1>3
  <2> HIDE DEF i
  <2>2. at(i) \in S /\ rank[at(i)] = rank[n]
    BY <1>7, <2>1
  <2>3. at(i) = n
    BY <1>5, <2>2
  <2> QED BY <1>9, <2>1, <2>3 DEF ToSet
<1>11. ToSet(s) \subseteq S
  BY <1>7, <1>9 DEF ToSet
<1> QED BY <1>9, <1>10, <1>11 DEF s, N

(* The last call, which has looked at every neighbour, taken away.         *)
EndsLast(nodes, adj, t, front, v) ==
  /\ front \in Seq(CallsOf(nodes)) /\ ToSet(front) \subseteq ToSet(t.calls)
  /\ NodesOf(front) = Called(t) \ {v}
  /\ Rises(t.index, CallNodes(front))
  /\ Looked(nodes, adj, front) = Looked(nodes, adj, t.calls)
  /\ Looked(nodes, adj, front)[v] = ToSet(adj[v])
  /\ Topmost(nodes, t.index, OnStack(t), Called(t), v)
  /\ front = <<>> => NodesOf(front) = {}
  /\ front # <<>> => /\ Last(front).node \in NodesOf(front)
                     /\ \A c \in NodesOf(front) : t.index[c] <= t.index[Last(front).node]

LEMMA EndsLastFacts ==
  ASSUME NEW nodes, NEW adj, NEW t \in TarjanType(nodes), StackHolds(t), t.calls # <<>>, Last(t.calls).rest = <<>>
  PROVE  EndsLast(nodes, adj, t, Front(t.calls), TopName(t))
<1> DEFINE front == Front(t.calls)
           v == TopName(t)
           c == Last(t.calls)
<1>1. /\ c \in CallsOf(nodes) /\ v \in nodes /\ v = c.node /\ c.rest = <<>>
      /\ front \in Seq(CallsOf(nodes))
      /\ ToSet(t.calls) = ToSet(front) \cup {c}
      /\ Called(t) = NodesOf(front) \cup {v}
      /\ CallNodes(front) \in Seq(nodes)
      /\ Rises(t.index, CallNodes(front))
      /\ \A n \in NodesOf(front) : t.index[n] < t.index[v]
      /\ v \in OnStack(t)
  BY TopCall DEF TopName
<1>2. /\ t.index \in [nodes -> Nat] /\ t.stack \in Seq(nodes)
      /\ OnStack(t) \in SUBSET nodes /\ Called(t) \in SUBSET nodes
  BY TarjanTypeParts
<1> HIDE DEF front, v, c
<1>3. v \notin NodesOf(front)
  <2>1. t.index[v] \in Nat
    BY <1>1, <1>2
  <2>2. ~(t.index[v] < t.index[v])
    BY <2>1
  <2> QED BY <1>1, <2>2
<1>4. Looked(nodes, adj, front) = Looked(nodes, adj, t.calls)
  <2>1. ToSet(c.rest) = {}
    BY <1>1 DEF ToSet
  <2>2. ASSUME NEW n \in nodes, NEW m
        PROVE  (\A d \in ToSet(front) : d.node = n => m \notin ToSet(d.rest))
                 <=> (\A d \in ToSet(t.calls) : d.node = n => m \notin ToSet(d.rest))
    BY <1>1, <2>1
  <2> QED BY <2>2 DEF Looked
<1>5. Looked(nodes, adj, front)[v] = ToSet(adj[v])
  <2>1. \A d \in ToSet(front) : d.node # v
    BY <1>3 DEF NodesOf
  <2> QED BY <1>1, <2>1 DEF Looked
<1>6. OneEach(t.index, OnStack(t))
  <2>1. Rises(t.index, t.stack)
    BY DEF StackHolds
  <2>2. OneEach(t.index, ToSet(t.stack))
    BY <1>2, <2>1, RisesInjective
  <2> QED BY <2>2 DEF OnStack
<1>7. Topmost(nodes, t.index, OnStack(t), Called(t), v)
  <2>1. Called(t) \in SUBSET OnStack(t)
    BY DEF StackHolds
  <2> QED BY <1>1, <1>2, <1>6, <2>1 DEF Topmost
<1>8. front = <<>> => NodesOf(front) = {}
  BY DEF NodesOf, ToSet
<1>9. ASSUME front # <<>>
      PROVE  /\ Last(front).node \in NodesOf(front)
             /\ \A d \in NodesOf(front) : t.index[d] <= t.index[Last(front).node]
  <2> DEFINE before == Front(front)
             last == Last(front)
  <2>1. /\ before \in Seq(CallsOf(nodes)) /\ last \in CallsOf(nodes) /\ front = Append(before, last)
    BY <1>1, <1>9, LastFacts
  <2> HIDE DEF before, last
  <2>2. /\ CallNodes(before) \in Seq(nodes) /\ last.node \in nodes
        /\ CallNodes(front) = Append(CallNodes(before), last.node)
        /\ NodesOf(front) = NodesOf(before) \cup {last.node}
        /\ ToSet(CallNodes(before)) = NodesOf(before)
    BY <2>1, AppendCall
  <2>3. \A d \in ToSet(CallNodes(before)) : t.index[d] < t.index[last.node]
    <3>1. Rises(t.index, Append(CallNodes(before), last.node))
      BY <1>1, <2>2
    <3> QED BY <1>2, <2>2, <3>1, RisesLast
  <2>4. ASSUME NEW d \in NodesOf(front) PROVE t.index[d] <= t.index[last.node]
    <3>1. t.index[last.node] \in Nat
      BY <1>2, <2>2
    <3>2. d \in nodes /\ t.index[d] \in Nat
      BY <1>1, <1>2
    <3>3. CASE d = last.node
      BY <3>1, <3>3
    <3>4. CASE d # last.node
      <4>1. t.index[d] < t.index[last.node]
        BY <2>2, <2>3, <3>4
      <4> QED BY <3>1, <3>2, <4>1
    <3> QED BY <3>3, <3>4
  <2> QED BY <2>2, <2>4 DEF last
<1>10. ToSet(front) \subseteq ToSet(t.calls) /\ NodesOf(front) = Called(t) \ {v}
  BY <1>1, <1>3
<1> QED BY <1>1, <1>4, <1>5, <1>7, <1>8, <1>9, <1>10 DEF EndsLast, front, v

(* The fields of the state after the last call is taken away.              *)
Returned(nodes, u, v, r) ==
  /\ r \in TarjanType(nodes) /\ r.calls = Front(u.calls)
  /\ r.index = u.index /\ r.counter = u.counter /\ r.stack = u.stack
  /\ r.order = u.order /\ r.roots = u.roots
  /\ r.low \in [nodes -> Nat]
  /\ Front(u.calls) = <<>> => r.low = u.low
  /\ Front(u.calls) # <<>> =>
       /\ r.low[Last(Front(u.calls)).node] = Smaller(u.low[Last(Front(u.calls)).node], u.low[v])
       /\ \A n \in nodes : n # Last(Front(u.calls)).node => r.low[n] = u.low[n]

LEMMA ReturnFields ==
  ASSUME NEW nodes, NEW u \in TarjanType(nodes), NEW v \in nodes, u.calls # <<>>,
         NEW r, r = Return(u, v)
  PROVE  Returned(nodes, u, v, r)
<1> DEFINE front == Front(u.calls)
           left == [u EXCEPT !.calls = front]
           p == Last(front).node
           low2 == [u.low EXCEPT ![p] = Smaller(@, u.low[v])]
<1>1. u.calls \in Seq(CallsOf(nodes)) /\ u.low \in [nodes -> Nat]
  BY TarjanTypeParts
<1>2. front \in Seq(CallsOf(nodes))
  BY <1>1, LastFacts
<1>3. r = IF front = <<>> THEN left ELSE Lower(left, p, u.low[v])
  BY DEF Return
<1> HIDE DEF front, p
<1>4. /\ left \in TarjanType(nodes) /\ left.calls = front
      /\ left.index = u.index /\ left.low = u.low /\ left.counter = u.counter /\ left.stack = u.stack
      /\ left.order = u.order /\ left.roots = u.roots
  BY <1>2 DEF TarjanType
<1> HIDE DEF left
<1>5. CASE front = <<>>
  BY <1>1, <1>3, <1>4, <1>5 DEF front, Returned
<1>6. CASE front # <<>>
  <2>1. p \in nodes
    <3>1. Last(front) \in CallsOf(nodes)
      BY <1>2, <1>6, LastFacts
    <3> QED BY <3>1 DEF CallsOf, p
  <2>2. r = [left EXCEPT !.low = low2]
    <3>1. r = [left EXCEPT !.low[p] = Smaller(@, u.low[v])]
      BY <1>3, <1>6 DEF Lower
    <3> QED BY <1>4, <3>1 DEF TarjanType
  <2>3. low2 \in [nodes -> Nat] /\ low2[p] = Smaller(u.low[p], u.low[v])
        /\ \A n \in nodes : n # p => low2[n] = u.low[n]
    BY <1>1, <2>1 DEF Smaller
  <2> HIDE DEF low2
  <2>4. /\ r \in TarjanType(nodes) /\ r.calls = front
        /\ r.index = u.index /\ r.counter = u.counter /\ r.stack = u.stack
        /\ r.order = u.order /\ r.roots = u.roots /\ r.low = low2
    BY <1>4, <2>2, <2>3 DEF TarjanType
  <2> QED BY <1>6, <2>3, <2>4 DEF front, p, Returned
<1> QED BY <1>5, <1>6

(* The call in progress ends, and its node stays on the stack. *)
LEMMA ReturnHolds ==
  ASSUME NEW nodes, NEW adj, NEW D, GoodGraph(nodes, adj, D), NEW t, TarjanInv(nodes, adj, D, t),
         t.calls # <<>>, Last(t.calls).rest = <<>>,
         t.low[TopName(t)] # t.index[TopName(t)]
  PROVE  TarjanInv(nodes, adj, D, Return(t, TopName(t)))
<1> DEFINE v == TopName(t)
           r == Return(t, v)
           front == Front(t.calls)
           p == Last(front).node
           looked == Looked(nodes, adj, t.calls)
<1>0. t.low[v] # t.index[v]
  OBVIOUS
<1>1. /\ t \in TarjanType(nodes) /\ StackHolds(t) /\ NumbersHold(nodes, t, {}) /\ EdgesHold(nodes, adj, t, {})
      /\ Lows(D, t.index, t.low, OnStack(t), Called(t), looked)
      /\ GroupsHold(adj, D, t.order)
  BY DEF TarjanInv, TarjanInvBut, LowsHold
<1>2. EndsLast(nodes, adj, t, front, v)
  BY <1>1, EndsLastFacts
<1> HIDE DEF v, r, front, p, looked
<1>3. /\ front \in Seq(CallsOf(nodes)) /\ ToSet(front) \subseteq ToSet(t.calls)
      /\ NodesOf(front) = Called(t) \ {v}
      /\ Rises(t.index, CallNodes(front))
      /\ Looked(nodes, adj, front) = looked
      /\ Topmost(nodes, t.index, OnStack(t), Called(t), v)
      /\ front = <<>> => NodesOf(front) = {}
      /\ front # <<>> => p \in NodesOf(front) /\ \A c \in NodesOf(front) : t.index[c] <= t.index[p]
  BY <1>2 DEF EndsLast, looked, p
<1>4. /\ t.index \in [nodes -> Nat] /\ t.low \in [nodes -> Nat] /\ OnStack(t) \in SUBSET nodes
      /\ v \in Called(t) /\ v \in OnStack(t) /\ v \in nodes
  BY <1>1, <1>3, TarjanTypeParts DEF Topmost
<1>5. PICK m \in OnStack(t) : t.index[m] = t.low[v]
  BY <1>1, <1>4 DEF Lows
<1>6. t.index[m] < t.index[v]
  <2>1. t.low[v] <= t.index[v]
    BY <1>1, <1>4 DEF Lows
  <2> QED BY <1>0, <1>4, <1>5, <2>1
<1>7. PICK k \in Called(t) : t.index[k] <= t.index[m]
  BY <1>1, <1>5 DEF StackHolds
<1>8. \A n \in OnStack(t) : t.index[n] < t.index[v] => \E c \in NodesOf(front) : t.index[c] <= t.index[n]
  <2>1. ASSUME NEW n \in OnStack(t), t.index[n] < t.index[v]
        PROVE  \E c \in NodesOf(front) : t.index[c] <= t.index[n]
    <3>1. PICK c \in Called(t) : t.index[c] <= t.index[n]
      BY <1>1 DEF StackHolds
    <3>2. c # v
      BY <1>4, <2>1, <3>1
    <3> QED BY <1>3, <3>1, <3>2
  <2> QED BY <2>1
<1>9. front # <<>>
  BY <1>3, <1>5, <1>6, <1>8
<1>10. /\ r \in TarjanType(nodes) /\ r.calls = front
       /\ r.index = t.index /\ r.counter = t.counter /\ r.stack = t.stack
       /\ r.order = t.order /\ r.roots = t.roots
       /\ r.low \in [nodes -> Nat]
       /\ r.low[p] = Smaller(t.low[p], t.low[v])
       /\ \A n \in nodes : n # p => r.low[n] = t.low[n]
  <2>1. r = Return(t, v)
    BY DEF r
  <2>2. Returned(nodes, t, v, r)
    BY <1>1, <1>4, <2>1, ReturnFields
  <2> QED BY <1>9, <2>2 DEF front, p, Returned
<1>11. OnStack(r) = OnStack(t) /\ Grouped(r) = Grouped(t) /\ Called(r) = Called(t) \ {v}
  BY <1>3, <1>10 DEF OnStack, Grouped, Called
<1>12. LowsHold(nodes, adj, D, r)
  <2>1. LeavesNode(nodes, t.index, t.low, r.low, OnStack(t), Called(t), v, p)
    BY <1>0, <1>3, <1>4, <1>9, <1>10 DEF LeavesNode
  <2>2. Transitive(nodes, D)
    BY DEF GoodGraph
  <2> DEFINE index == t.index
             low == t.low
             low2 == r.low
             on == OnStack(t)
             called == Called(t)
  <2>3. LeavesNode(nodes, index, low, low2, on, called, v, p) /\ Lows(D, index, low, on, called, looked)
    BY <1>1, <2>1
  <2> HIDE DEF index, low, low2, on, called
  <2>4. Lows(D, index, low2, on, called \ {v}, looked)
    BY <2>2, <2>3, LowsReturn
  <2> QED BY <1>3, <1>10, <1>11, <2>4 DEF LowsHold, index, low2, on, called
<1>13. StackHolds(r)
  <2>1. ASSUME NEW n \in OnStack(t) PROVE \E c \in NodesOf(front) : t.index[c] <= t.index[n]
    <3>1. t.index[n] \in Nat /\ t.index[v] \in Nat /\ t.index[m] \in Nat
      BY <1>4, <1>5
    <3>2. CASE t.index[n] < t.index[v]
      BY <1>8, <3>2
    <3>3. CASE t.index[v] <= t.index[n]
      <4>1. PICK c \in NodesOf(front) : t.index[c] <= t.index[m]
        BY <1>5, <1>6, <1>8
      <4>2. c \in nodes /\ t.index[c] \in Nat
        BY <1>1, <1>3, <1>4 DEF StackHolds
      <4>3. t.index[c] <= t.index[n]
        BY <1>6, <3>1, <3>3, <4>1, <4>2
      <4> QED BY <4>3
    <3> QED BY <3>1, <3>2, <3>3
  <2>2. Called(t) \subseteq OnStack(t) /\ Rises(t.index, t.stack)
    BY <1>1 DEF StackHolds
  <2>3. Rises(r.index, r.stack) /\ Rises(r.index, CallNodes(r.calls))
    BY <1>3, <1>10, <2>2
  <2>4. Called(r) \subseteq OnStack(r)
    BY <1>11, <2>2
  <2>5. \A n \in OnStack(r) : \E c \in Called(r) : r.index[c] <= r.index[n]
    BY <1>3, <1>10, <1>11, <2>1
  <2> QED BY <2>3, <2>4, <2>5 DEF StackHolds
<1>14. NumbersHold(nodes, r, {})
  BY <1>1, <1>10, <1>11 DEF NumbersHold
<1>15. EdgesHold(nodes, adj, r, {})
  <2>1. \A c \in ToSet(r.calls) : c \in ToSet(t.calls)
    BY <1>3, <1>10
  <2> QED BY <1>1, <1>3, <1>10, <2>1 DEF EdgesHold, looked
<1>16. GroupsHold(adj, D, r.order)
  BY <1>1, <1>10
<1> QED BY <1>10, <1>12, <1>13, <1>14, <1>15, <1>16 DEF TarjanInv, TarjanInvBut, r, v

(* A list that rises, cut where v is. *)
LEMMA CutFacts ==
  ASSUME NEW A, NEW s \in Seq(A), NEW index \in [A -> Nat], Rises(index, s), NEW from \in DOMAIN s, NEW v, v = s[from]
  PROVE  /\ {s[i] : i \in from..Len(s)} = Above(index, ToSet(s), v)
         /\ SubSeq(s, 1, from - 1) \in Seq(A) /\ Rises(index, SubSeq(s, 1, from - 1))
         /\ ToSet(SubSeq(s, 1, from - 1)) = ToSet(s) \ Above(index, ToSet(s), v)
<1> DEFINE N == Len(s)
           cut == SubSeq(s, 1, from - 1)
           G == Above(index, ToSet(s), v)
<1>1. N \in Nat /\ DOMAIN s = 1..N /\ \A i \in 1..N : s[i] \in A /\ s[i] \in ToSet(s) /\ index[s[i]] \in Nat
  BY DEF ToSet
<1>2. from \in 1..N /\ s[from] = v
  BY <1>1
<1>3. /\ cut \in Seq(A) /\ DOMAIN cut = 1..(from - 1) /\ \A i \in 1..(from - 1) : cut[i] = s[i]
  <2> DEFINE k == from - 1
  <2>1. k \in 0..N
    BY <1>1, <1>2
  <2> HIDE DEF k
  <2>2. SubSeq(s, 1, k) \in Seq(A) /\ Len(SubSeq(s, 1, k)) = k /\ \A i \in 1..k : SubSeq(s, 1, k)[i] = s[i]
    BY <1>1, <2>1
  <2>3. DOMAIN SubSeq(s, 1, k) = 1..k
    BY <2>1, <2>2
  <2> QED BY <2>2, <2>3 DEF k
<1> HIDE DEF N, cut
<1>4. \A i, j \in 1..N : i < j => index[s[i]] < index[s[j]]
  BY <1>1 DEF Rises
<1>5. \A i \in 1..N : s[i] \in G <=> i >= from
  <2>1. ASSUME NEW i \in 1..N PROVE s[i] \in G <=> i >= from
    <3>1. index[s[i]] \in Nat /\ index[v] \in Nat /\ i \in Nat /\ from \in Nat
      BY <1>1, <1>2
    <3>2. CASE i < from
      <4>1. index[s[i]] < index[v]
        BY <1>2, <1>4, <3>2
      <4> QED BY <3>1, <3>2, <4>1 DEF Above
    <3>3. CASE i = from
      BY <1>1, <1>2, <3>1, <3>3 DEF Above
    <3>4. CASE i > from
      <4>1. index[v] < index[s[i]]
        BY <1>2, <1>4, <3>4
      <4> QED BY <1>1, <3>1, <3>4, <4>1 DEF Above
    <3> QED BY <3>1, <3>2, <3>3, <3>4
  <2> QED BY <2>1
<1>6. \A x : x \in ToSet(s) <=> \E i \in 1..N : x = s[i]
  BY <1>1 DEF ToSet
<1>7. G \subseteq ToSet(s)
  BY DEF Above
<1> HIDE DEF G
<1>8. {s[i] : i \in from..N} = G
  <2>1. \A i \in from..N : i \in 1..N /\ i >= from
    BY <1>1, <1>2
  <2>2. \A i \in 1..N : i >= from => i \in from..N
    BY <1>1, <1>2
  <2>3. ASSUME NEW i \in from..N PROVE s[i] \in G
    BY <1>5, <2>1
  <2>4. ASSUME NEW x \in G PROVE \E i \in from..N : x = s[i]
    <3>1. PICK i \in 1..N : x = s[i]
      BY <1>6, <1>7
    <3>2. i \in from..N
      BY <1>5, <2>2, <3>1
    <3> QED BY <3>1, <3>2
  <2> QED BY <2>3, <2>4
<1>9. ToSet(cut) = ToSet(s) \ G
  <2>1. \A i \in 1..(from - 1) : i \in 1..N /\ ~(i >= from)
    BY <1>1, <1>2
  <2>2. \A i \in 1..N : ~(i >= from) => i \in 1..(from - 1)
    BY <1>1, <1>2
  <2>3. \A x : x \in ToSet(cut) <=> \E i \in 1..(from - 1) : x = s[i]
    BY <1>3 DEF ToSet
  <2>4. ASSUME NEW x \in ToSet(cut) PROVE x \in ToSet(s) /\ x \notin G
    <3>1. PICK i \in 1..(from - 1) : x = s[i]
      BY <2>3
    <3>2. i \in 1..N /\ ~(i >= from)
      BY <2>1
    <3> QED BY <1>5, <1>6, <3>1, <3>2
  <2>5. ASSUME NEW x \in ToSet(s), x \notin G PROVE x \in ToSet(cut)
    <3>1. PICK i \in 1..N : x = s[i]
      BY <1>6
    <3>2. ~(i >= from)
      BY <1>5, <2>5, <3>1
    <3>3. i \in 1..(from - 1)
      BY <2>2, <3>2
    <3> QED BY <2>3, <3>1, <3>3
  <2> QED BY <2>4, <2>5
<1>10. Rises(index, cut)
  <2>1. ASSUME NEW i \in 1..(from - 1), NEW j \in 1..(from - 1), i < j PROVE index[cut[i]] < index[cut[j]]
    <3>1. i \in 1..N /\ j \in 1..N /\ cut[i] = s[i] /\ cut[j] = s[j]
      BY <1>1, <1>2, <1>3
    <3> QED BY <1>4, <2>1, <3>1
  <2> QED BY <1>3, <2>1 DEF Rises
<1> QED BY <1>3, <1>8, <1>9, <1>10 DEF N, cut, G

(* The fields of the state after a group leaves the stack. *)
LEMMA CompleteFields ==
  ASSUME NEW nodes \in SUBSET Nat, IsFiniteSet(nodes), NEW t \in TarjanType(nodes), Rises(t.index, t.stack),
         NEW v \in OnStack(t), t.low[v] = t.index[v],
         NEW u, u = Complete(t, v), NEW G, G = Above(t.index, OnStack(t), v)
  PROVE  /\ u \in TarjanType(nodes) /\ OnStack(u) = OnStack(t) \ G /\ Rises(t.index, u.stack)
         /\ u.order = Append(t.order, Sorted(G)) /\ Sorted(G) \in Seq(nodes) /\ ToSet(Sorted(G)) = G
         /\ u.index = t.index /\ u.low = t.low /\ u.counter = t.counter
         /\ u.calls = t.calls /\ u.roots = t.roots
<1> DEFINE from == CHOOSE i \in DOMAIN t.stack : t.stack[i] = v
           cut == SubSeq(t.stack, 1, from - 1)
           group == {t.stack[i] : i \in from..Len(t.stack)}
           more == Append(t.order, Sorted(group))
<1>1. /\ t.index \in [nodes -> Nat] /\ t.stack \in Seq(nodes) /\ t.order \in Seq(Seq(nodes))
      /\ OnStack(t) \in SUBSET nodes
  BY TarjanTypeParts
<1>2. group = G /\ cut \in Seq(nodes) /\ Rises(t.index, cut) /\ ToSet(cut) = OnStack(t) \ G
  <2> DEFINE s == t.stack
             index == t.index
  <2>1. s \in Seq(nodes) /\ index \in [nodes -> Nat] /\ Rises(index, s)
        /\ v \in ToSet(s) /\ G = Above(index, ToSet(s), v) /\ ToSet(s) = OnStack(t)
    BY <1>1 DEF OnStack
  <2>2. from \in DOMAIN s /\ v = s[from]
    <3>1. \E i \in DOMAIN s : s[i] = v
      BY <2>1 DEF ToSet
    <3> QED BY <3>1
  <2> HIDE DEF from, s, index
  <2>3. /\ {s[i] : i \in from..Len(s)} = Above(index, ToSet(s), v)
        /\ SubSeq(s, 1, from - 1) \in Seq(nodes) /\ Rises(index, SubSeq(s, 1, from - 1))
        /\ ToSet(SubSeq(s, 1, from - 1)) = ToSet(s) \ Above(index, ToSet(s), v)
    BY <2>1, <2>2, CutFacts
  <2> QED BY <2>1, <2>3 DEF s, index
<1>3. u = [t EXCEPT !.stack = cut, !.order = more]
  BY DEF Complete
<1>4. Sorted(G) \in Seq(nodes) /\ ToSet(Sorted(G)) = G
  <2>1. G \in SUBSET nodes
    BY <1>1 DEF Above
  <2>2. G \in SUBSET Nat /\ IsFiniteSet(G)
    BY <2>1, FS_Subset
  <2>3. Sorted(G) \in Seq(G) /\ ToSet(Sorted(G)) = G
    BY <2>2, SortedFacts
  <2> QED BY <2>1, <2>3
<1>5. more \in Seq(Seq(nodes)) /\ more = Append(t.order, Sorted(G))
  BY <1>1, <1>2, <1>4, AppendFacts
<1> HIDE DEF cut, more, group
<1>6. /\ u \in TarjanType(nodes) /\ u.stack = cut /\ u.order = more
      /\ u.index = t.index /\ u.low = t.low /\ u.counter = t.counter
      /\ u.calls = t.calls /\ u.roots = t.roots
  BY <1>2, <1>3, <1>5 DEF TarjanType
<1> QED BY <1>2, <1>4, <1>5, <1>6 DEF OnStack

(* One more group, mutually dependent, of names no other group has, whose  *)
(* neighbours are in it or in the groups before.                           *)
NewGroup(adj, D, done, G) ==
  /\ G \cap done = {}
  /\ \A a, b \in G : <<a, b>> \in D
  /\ \A a \in G : \A b \in ToSet(adj[a]) : b \in G \cup done

LEMMA GroupsAppend ==
  ASSUME NEW nodes, NEW adj, NEW D, NEW order \in Seq(Seq(nodes)), GroupsHold(adj, D, order),
         NEW g \in Seq(nodes), NEW G, G = ToSet(g), g = Sorted(G),
         NEW done, done = NamesOf(order), NewGroup(adj, D, done, G)
  PROVE  /\ GroupsHold(adj, D, Append(order, g))
         /\ NamesOf(Append(order, g)) = done \cup G
<1> DEFINE more == Append(order, g)
           N == Len(order)
<1>13. /\ G \cap done = {}
       /\ \A a, b \in G : <<a, b>> \in D
       /\ \A a \in G : \A b \in ToSet(adj[a]) : b \in G \cup done
  BY DEF NewGroup
<1> USE <1>13
<1>1. /\ more \in Seq(Seq(nodes)) /\ N \in Nat /\ DOMAIN order = 1..N /\ DOMAIN more = 1..(N + 1)
      /\ \A i \in 1..N : more[i] = order[i]
      /\ more[N + 1] = g
  BY AppendFacts
<1> HIDE DEF more, N
<1>2. /\ \A i \in 1..N : order[i] = Sorted(ToSet(order[i]))
      /\ \A i, j \in 1..N : i # j => ToSet(order[i]) \cap ToSet(order[j]) = {}
      /\ \A i \in 1..N : \A a, b \in ToSet(order[i]) : <<a, b>> \in D
      /\ \A i \in 1..N : \A a \in ToSet(order[i]) :
           \A b \in ToSet(adj[a]) : \E j \in 1..i : b \in ToSet(order[j])
  BY <1>1 DEF GroupsHold
<1>3. \A x : x \in done <=> \E i \in 1..N : x \in ToSet(order[i])
  BY <1>1 DEF NamesOf
<1>4. \A i \in 1..(N + 1) : i \in 1..N \/ i = N + 1
  BY <1>1
<1>5. \A i \in 1..(N + 1) : more[i] = Sorted(ToSet(more[i]))
  <2>1. ASSUME NEW i \in 1..(N + 1) PROVE more[i] = Sorted(ToSet(more[i]))
    <3>1. CASE i \in 1..N
      BY <1>1, <1>2, <3>1
    <3>2. CASE i = N + 1
      BY <1>1, <3>2
    <3> QED BY <1>4, <3>1, <3>2
  <2> QED BY <2>1
<1>6. \A i, j \in 1..(N + 1) : i # j => ToSet(more[i]) \cap ToSet(more[j]) = {}
  <2>0. \A i \in 1..N : ToSet(more[i]) \subseteq done /\ ToSet(more[i]) \cap G = {}
    BY <1>1, <1>3
  <2>1. ASSUME NEW i \in 1..(N + 1), NEW j \in 1..(N + 1), i # j
        PROVE  ToSet(more[i]) \cap ToSet(more[j]) = {}
    <3>1. CASE i \in 1..N /\ j \in 1..N
      BY <1>1, <1>2, <2>1, <3>1
    <3>2. CASE i = N + 1
      <4>1. j \in 1..N /\ ToSet(more[i]) = G
        BY <1>1, <1>4, <2>1, <3>2
      <4> QED BY <2>0, <4>1
    <3>3. CASE j = N + 1
      <4>1. i \in 1..N /\ ToSet(more[j]) = G
        BY <1>1, <1>4, <2>1, <3>3
      <4> QED BY <2>0, <4>1
    <3> QED BY <1>4, <3>1, <3>2, <3>3
  <2> QED BY <2>1
<1>7. \A i \in 1..(N + 1) : \A a, b \in ToSet(more[i]) : <<a, b>> \in D
  <2>1. ASSUME NEW i \in 1..(N + 1), NEW a \in ToSet(more[i]), NEW b \in ToSet(more[i]) PROVE <<a, b>> \in D
    <3>1. CASE i \in 1..N
      <4>1. more[i] = order[i]
        BY <1>1, <3>1
      <4> QED BY <1>2, <2>1, <3>1, <4>1
    <3>2. CASE i = N + 1
      <4>1. a \in G /\ b \in G
        BY <1>1, <2>1, <3>2
      <4> QED BY <4>1
    <3> QED BY <1>4, <3>1, <3>2
  <2> QED BY <2>1
<1>8. \A i \in 1..(N + 1) : \A a \in ToSet(more[i]) :
        \A b \in ToSet(adj[a]) : \E j \in 1..i : b \in ToSet(more[j])
  <2>1. ASSUME NEW i \in 1..(N + 1), NEW a \in ToSet(more[i]), NEW b \in ToSet(adj[a])
        PROVE  \E j \in 1..i : b \in ToSet(more[j])
    <3>1. CASE i \in 1..N
      <4>1. PICK j \in 1..i : b \in ToSet(order[j])
        BY <1>1, <1>2, <2>1, <3>1
      <4>2. j \in 1..N /\ more[j] = order[j]
        BY <1>1, <3>1
      <4> QED BY <4>1, <4>2
    <3>2. CASE i = N + 1
      <4>1. a \in G /\ b \in G \cup done
        BY <1>1, <2>1, <3>2
      <4>2. CASE b \in G
        <5>1. N + 1 \in 1..i
          BY <1>1, <3>2
        <5> QED BY <1>1, <4>2, <5>1
      <4>3. CASE b \in done
        <5>1. PICK j \in 1..N : b \in ToSet(order[j])
          BY <1>3, <4>3
        <5>2. j \in 1..i /\ more[j] = order[j]
          BY <1>1, <3>2
        <5> QED BY <5>1, <5>2
      <4> QED BY <4>1, <4>2, <4>3
    <3> QED BY <1>4, <3>1, <3>2
  <2> QED BY <2>1
<1> DEFINE all == UNION {ToSet(more[i]) : i \in 1..(N + 1)}
<1>10. \A x : x \in all <=> \E i \in 1..(N + 1) : x \in ToSet(more[i])
  OBVIOUS
<1> HIDE DEF all
<1>9. all = done \cup G
  <2>1. \A x : (\E i \in 1..(N + 1) : x \in ToSet(more[i])) <=> (x \in done \/ x \in G)
    <3>1. ASSUME NEW x, NEW i \in 1..(N + 1), x \in ToSet(more[i]) PROVE x \in done \/ x \in G
      BY <1>1, <1>3, <1>4, <3>1
    <3>2. ASSUME NEW x, x \in done PROVE \E i \in 1..(N + 1) : x \in ToSet(more[i])
      <4>1. PICK i \in 1..N : x \in ToSet(order[i])
        BY <1>3, <3>2
      <4>2. i \in 1..(N + 1) /\ more[i] = order[i]
        BY <1>1
      <4> QED BY <4>1, <4>2
    <3>3. ASSUME NEW x, x \in G PROVE \E i \in 1..(N + 1) : x \in ToSet(more[i])
      <4>1. N + 1 \in 1..(N + 1)
        BY <1>1
      <4> QED BY <1>1, <3>3, <4>1
    <3> QED BY <3>1, <3>2, <3>3
  <2> QED BY <1>10, <2>1
<1>11. GroupsHold(adj, D, more)
  BY <1>1, <1>5, <1>6, <1>7, <1>8 DEF GroupsHold
<1>12. NamesOf(more) = done \cup G
  BY <1>1, <1>9 DEF all, NamesOf
<1> QED BY <1>11, <1>12 DEF more

(* The call in progress ends, and its node's group leaves the stack.       *)
LEMMA CompleteHolds ==
  ASSUME NEW nodes, NEW adj, NEW D, GoodGraph(nodes, adj, D), NEW t, TarjanInv(nodes, adj, D, t),
         t.calls # <<>>, Last(t.calls).rest = <<>>,
         t.low[TopName(t)] = t.index[TopName(t)]
  PROVE  TarjanInv(nodes, adj, D, Return(Complete(t, TopName(t)), TopName(t)))
<1> DEFINE v == TopName(t)
           u == Complete(t, v)
           r == Return(u, v)
           front == Front(t.calls)
           p == Last(front).node
           looked == Looked(nodes, adj, t.calls)
           G == Above(t.index, OnStack(t), v)
<1>0. t.low[v] = t.index[v]
  OBVIOUS
<1>1. /\ t \in TarjanType(nodes) /\ StackHolds(t) /\ NumbersHold(nodes, t, {}) /\ EdgesHold(nodes, adj, t, {})
      /\ Lows(D, t.index, t.low, OnStack(t), Called(t), looked)
      /\ GroupsHold(adj, D, t.order)
  BY DEF TarjanInv, TarjanInvBut, LowsHold
<1>2. EndsLast(nodes, adj, t, front, v)
  BY <1>1, EndsLastFacts
<1>a. /\ nodes \in SUBSET Nat /\ IsFiniteSet(nodes) /\ Transitive(nodes, D)
      /\ \A a \in nodes : <<a, a>> \in D /\ adj[a] \in Seq(nodes)
  BY DEF GoodGraph
<1>b. G = Above(t.index, OnStack(t), v)
  OBVIOUS
<1> HIDE DEF v, u, r, front, p, looked, G
<1>3. /\ front \in Seq(CallsOf(nodes)) /\ ToSet(front) \subseteq ToSet(t.calls)
      /\ NodesOf(front) = Called(t) \ {v}
      /\ Rises(t.index, CallNodes(front))
      /\ Looked(nodes, adj, front) = looked /\ looked[v] = ToSet(adj[v])
      /\ Topmost(nodes, t.index, OnStack(t), Called(t), v)
      /\ front = <<>> => NodesOf(front) = {}
      /\ front # <<>> => p \in NodesOf(front) /\ \A c \in NodesOf(front) : t.index[c] <= t.index[p]
  BY <1>2 DEF EndsLast, looked, p
<1>4. /\ t.index \in [nodes -> Nat] /\ t.low \in [nodes -> Nat] /\ OnStack(t) \in SUBSET nodes
      /\ t.order \in Seq(Seq(nodes))
      /\ Called(t) \subseteq OnStack(t)
      /\ v \in Called(t) /\ v \in OnStack(t) /\ v \in nodes
      /\ \A c \in Called(t) : c # v => t.index[c] < t.index[v]
  BY <1>1, <1>3, TarjanTypeParts DEF Topmost
<1>5. /\ u \in TarjanType(nodes) /\ OnStack(u) = OnStack(t) \ G /\ Rises(t.index, u.stack)
      /\ u.order = Append(t.order, Sorted(G)) /\ Sorted(G) \in Seq(nodes) /\ ToSet(Sorted(G)) = G
      /\ u.index = t.index /\ u.low = t.low /\ u.counter = t.counter
      /\ u.calls = t.calls /\ u.roots = t.roots
  <2>1. Rises(t.index, t.stack)
    BY <1>1 DEF StackHolds
  <2>2. u = Complete(t, v)
    BY DEF u
  <2> QED BY <1>0, <1>1, <1>4, <1>a, <1>b, <2>1, <2>2, CompleteFields
<1>6. \A n \in OnStack(t) : n \in nodes /\ t.index[n] \in Nat /\ (n \notin G <=> t.index[n] < t.index[v])
  BY <1>4, <1>b DEF Above
<1>7. G \subseteq OnStack(t)
  BY <1>b DEF Above
<1>8. /\ r \in TarjanType(nodes) /\ r.calls = front
      /\ r.index = t.index /\ r.counter = t.counter /\ r.stack = u.stack
      /\ r.order = u.order /\ r.roots = t.roots
      /\ r.low \in [nodes -> Nat]
      /\ front = <<>> => r.low = t.low
      /\ front # <<>> => /\ r.low[p] = Smaller(t.low[p], t.low[v])
                         /\ \A n \in nodes : n # p => r.low[n] = t.low[n]
  <2>1. r = Return(u, v)
    BY DEF r
  <2>2. u.calls # <<>> /\ Front(u.calls) = front
    BY <1>5 DEF front
  <2>3. Returned(nodes, u, v, r)
    BY <1>4, <1>5, <2>1, <2>2, ReturnFields
  <2> QED BY <1>5, <2>2, <2>3 DEF p, Returned
<1>9. \A n \in nodes : r.low[n] = t.low[n]
  <2>1. CASE front = <<>>
    BY <1>8, <2>1
  <2>2. CASE front # <<>>
    <3>1. p \in Called(t) /\ p # v /\ p \in OnStack(t) /\ p \in nodes
      BY <1>3, <1>4, <2>2
    <3>2. t.low[p] <= t.index[p]
      BY <1>1, <3>1 DEF Lows
    <3>3. t.index[p] < t.index[v]
      BY <1>4, <3>1
    <3>4. t.low[p] \in Nat /\ t.index[p] \in Nat /\ t.index[v] \in Nat /\ t.low[v] \in Nat
      BY <1>4, <3>1
    <3>5. r.low[p] = t.low[p]
      BY <1>0, <1>8, <2>2, <3>2, <3>3, <3>4 DEF Smaller
    <3> QED BY <1>8, <2>2, <3>5
  <2> QED BY <2>1, <2>2
<1>10. /\ \A a, b \in G : <<a, b>> \in D
       /\ \A a \in G : looked[a] \cap OnStack(t) \subseteq G
  <2> DEFINE index == t.index
             low == t.low
             on == OnStack(t)
             called == Called(t)
  <2>1. /\ low \in [nodes -> Nat] /\ Lows(D, index, low, on, called, looked)
        /\ Topmost(nodes, index, on, called, v) /\ low[v] = index[v] /\ G = Above(index, on, v)
    BY <1>0, <1>1, <1>3, <1>4, <1>b
  <2> HIDE DEF index, low, on, called
  <2>2. \A a \in nodes : <<a, a>> \in D
    BY <1>a
  <2>3. /\ \A a, b \in G : <<a, b>> \in D
        /\ \A a \in G : looked[a] \cap on \subseteq G
    BY <1>a, <2>1, <2>2, GroupMutual
  <2> QED BY <2>3 DEF on
<1>11. /\ \A n \in nodes : t.index[n] # 0 <=> n \in OnStack(t) \cup Grouped(t)
       /\ OnStack(t) \cap Grouped(t) = {}
       /\ \A n \in nodes : t.index[n] # 0 => \A m \in looked[n] : t.index[m] # 0
  BY <1>1 DEF NumbersHold, EdgesHold, looked
<1>12. \A a \in G : \A b \in ToSet(adj[a]) : b \in G \cup Grouped(t)
  <2>1. ASSUME NEW a \in G, NEW b \in ToSet(adj[a]) PROVE b \in G \cup Grouped(t)
    <3>1. a \in nodes /\ a \in OnStack(t) /\ ~(t.index[a] < t.index[v])
      BY <1>6, <1>7
    <3>2. b \in nodes
      <4>1. adj[a] \in Seq(nodes)
        BY <1>a, <3>1
      <4>2. ToSet(adj[a]) \subseteq nodes
        BY <4>1 DEF ToSet
      <4> QED BY <4>2
    <3>3. b \in looked[a]
      <4>1. CASE a = v
        BY <1>3, <4>1
      <4>2. CASE a # v
        <5>1. a \notin Called(t)
          BY <1>4, <3>1, <4>2
        <5>2. \A c \in ToSet(t.calls) : c.node # a
          BY <5>1 DEF Called, NodesOf
        <5> QED BY <3>1, <5>2 DEF Looked, looked
      <4> QED BY <4>1, <4>2
    <3>4. t.index[b] # 0
      BY <1>11, <3>1, <3>3
    <3> QED BY <1>10, <1>11, <3>2, <3>3, <3>4
  <2> QED BY <2>1
<1>13. GroupsHold(adj, D, r.order) /\ Grouped(r) = Grouped(t) \cup G
  <2> DEFINE order == t.order
             done == NamesOf(order)
             g == Sorted(G)
             more == Append(order, g)
  <2>1. /\ order \in Seq(Seq(nodes)) /\ GroupsHold(adj, D, order) /\ g \in Seq(nodes) /\ G = ToSet(g)
        /\ g = Sorted(G) /\ done = Grouped(t) /\ r.order = more
    BY <1>1, <1>4, <1>5, <1>8 DEF Grouped
  <2>2. NewGroup(adj, D, done, G)
    BY <1>7, <1>10, <1>11, <1>12, <2>1 DEF NewGroup
  <2>3. done = NamesOf(order)
    OBVIOUS
  <2> HIDE DEF order, done, g
  <2>4. /\ GroupsHold(adj, D, more)
        /\ NamesOf(more) = done \cup G
    BY <2>1, <2>2, <2>3, GroupsAppend
  <2> HIDE DEF more
  <2> QED BY <2>1, <2>4 DEF Grouped
<1>14. OnStack(r) = OnStack(t) \ G /\ Called(r) = Called(t) \ {v}
  BY <1>3, <1>5, <1>8 DEF OnStack, Called
<1>15. LowsHold(nodes, adj, D, r)
  <2> DEFINE index == t.index
             low == t.low
             low2 == r.low
             on == OnStack(t)
             called == Called(t)
  <2>1. /\ low \in [nodes -> Nat] /\ Lows(D, index, low, on, called, looked)
        /\ Topmost(nodes, index, on, called, v) /\ G = Above(index, on, v)
        /\ \A n \in nodes : low2[n] = low[n]
    BY <1>1, <1>3, <1>4, <1>9, <1>b
  <2> HIDE DEF index, low, low2, on, called
  <2>2. Lows(D, index, low2, on \ Above(index, on, v), called \ {v}, looked)
    BY <2>1, LowsPop
  <2>3. Lows(D, index, low2, on \ G, called \ {v}, looked)
    BY <2>1, <2>2
  <2> QED BY <1>3, <1>8, <1>14, <2>3 DEF LowsHold, index, low2, on, called
<1>16. StackHolds(r)
  <2>1. Rises(r.index, r.stack) /\ Rises(r.index, CallNodes(r.calls))
    BY <1>3, <1>5, <1>8
  <2>2. Called(r) \subseteq OnStack(r)
    <3>1. ASSUME NEW c \in Called(t), c # v PROVE c \in OnStack(t) /\ c \notin G
      BY <1>4, <1>6, <3>1
    <3> QED BY <1>14, <3>1
  <2>3. ASSUME NEW n \in OnStack(r) PROVE \E c \in Called(r) : r.index[c] <= r.index[n]
    <3>1. n \in OnStack(t) /\ t.index[n] < t.index[v] /\ t.index[n] \in Nat /\ t.index[v] \in Nat
      BY <1>4, <1>6, <1>14
    <3>2. PICK c \in Called(t) : t.index[c] <= t.index[n]
      BY <1>1, <3>1 DEF StackHolds
    <3>3. c # v
      BY <3>1, <3>2
    <3> QED BY <1>8, <1>14, <3>2, <3>3
  <2> QED BY <2>1, <2>2, <2>3 DEF StackHolds
<1>17. NumbersHold(nodes, r, {})
  <2>1. OnStack(r) \cup Grouped(r) = OnStack(t) \cup Grouped(t) /\ OnStack(r) \cap Grouped(r) = {}
    BY <1>7, <1>11, <1>13, <1>14
  <2> QED BY <1>1, <1>8, <2>1 DEF NumbersHold
<1>18. EdgesHold(nodes, adj, r, {})
  <2>1. \A c \in ToSet(r.calls) : c \in ToSet(t.calls)
    BY <1>3, <1>8
  <2>2. \A c \in ToSet(t.calls) : ToSet(c.rest) \subseteq ToSet(adj[c.node])
    BY <1>1 DEF EdgesHold
  <2>3. \A n \in nodes : r.index[n] # 0 => \A m \in Looked(nodes, adj, r.calls)[n] \ {} : r.index[m] # 0
    BY <1>3, <1>8, <1>11
  <2> QED BY <2>1, <2>2, <2>3 DEF EdgesHold
<1> QED BY <1>8, <1>13, <1>15, <1>16, <1>17, <1>18 DEF TarjanInv, TarjanInvBut, r, u, v

(* At the start every name is still to be looked at. *)
LEMMA StartHolds ==
  ASSUME NEW nodes, NEW adj, NEW D, GoodGraph(nodes, adj, D)
  PROVE  /\ TarjanInv(nodes, adj, D, TarjanStart(nodes))
         /\ TarjanStart(nodes).calls = <<>> /\ Len(TarjanStart(nodes).roots) = Cardinality(nodes)
         /\ \A n \in nodes : TarjanStart(nodes).index[n] = 0
<1> DEFINE t == TarjanStart(nodes)
           none == [n \in nodes |-> 0]
           roots == Sorted(nodes)
<1>1. roots \in Seq(nodes) /\ ToSet(roots) = nodes /\ Len(roots) = Cardinality(nodes)
  BY SortedFacts DEF GoodGraph
<1> HIDE DEF roots
<1>2. /\ t.index = none /\ t.low = none /\ t.counter = 0 /\ t.stack = <<>> /\ t.order = <<>>
      /\ t.calls = <<>> /\ t.roots = roots
  BY DEF TarjanStart, roots
<1>3. t \in TarjanType(nodes)
  BY <1>1 DEF TarjanStart, TarjanType, roots
<1>4. none \in [nodes -> Nat] /\ \A n \in nodes : none[n] = 0
  OBVIOUS
<1> HIDE DEF t, none
<1>5. ToSet(t.stack) = {} /\ ToSet(t.calls) = {} /\ DOMAIN t.order = {} /\ DOMAIN t.stack = {}
      /\ DOMAIN t.calls = {}
  BY <1>2 DEF ToSet
<1>6. OnStack(t) = {} /\ Called(t) = {} /\ Grouped(t) = {} /\ DOMAIN CallNodes(t.calls) = {}
  BY <1>5 DEF OnStack, Called, NodesOf, Grouped, NamesOf, CallNodes
<1>7. StackHolds(t)
  BY <1>5, <1>6 DEF StackHolds, Rises
<1>8. NumbersHold(nodes, t, {})
  BY <1>1, <1>2, <1>4, <1>6 DEF NumbersHold
<1>9. EdgesHold(nodes, adj, t, {})
  BY <1>2, <1>4, <1>5 DEF EdgesHold
<1>10. LowsHold(nodes, adj, D, t)
  BY <1>6 DEF LowsHold, Lows
<1>11. GroupsHold(adj, D, t.order)
  BY <1>5 DEF GroupsHold
<1> QED BY <1>1, <1>2, <1>3, <1>4, <1>7, <1>8, <1>9, <1>10, <1>11 DEF TarjanInv, TarjanInvBut, t

(* The outermost loop begins a name's call. *)
LEMMA EnterRootHolds ==
  ASSUME NEW nodes, NEW adj, NEW D, GoodGraph(nodes, adj, D), NEW t, TarjanInv(nodes, adj, D, t),
         t.calls = <<>>, t.roots # <<>>, t.index[Head(t.roots)] = 0
  PROVE  TarjanInv(nodes, adj, D, Enter(NextRoot(t), Head(t.roots), adj[Head(t.roots)]))
<1> DEFINE root == Head(t.roots)
           u == NextRoot(t)
<1>1. TarjanInvBut(nodes, adj, D, u, {root})
  BY SkipHolds
<1>2. root \in nodes
  <2>1. t.roots \in Seq(nodes)
    BY TarjanTypeParts DEF TarjanInv, TarjanInvBut
  <2> QED BY <2>1
<1>3. u.index[root] = 0 /\ u.calls = <<>>
  <2>1. t \in TarjanType(nodes)
    BY DEF TarjanInv, TarjanInvBut
  <2>2. u.index = t.index /\ u.calls = t.calls
    BY <2>1 DEF TarjanType, NextRoot
  <2> QED BY <2>2
<1> HIDE DEF root, u
<1>4. Called(u) = {}
  BY <1>3 DEF Called, NodesOf, ToSet
<1> QED BY <1>1, <1>2, <1>3, <1>4, EnterHolds DEF root, u

(* Every step. *)
LEMMA TarjanStepHolds ==
  ASSUME NEW nodes, NEW adj, NEW D, GoodGraph(nodes, adj, D), NEW t, TarjanInv(nodes, adj, D, t)
  PROVE  TarjanInv(nodes, adj, D, TarjanStep(adj, t))
<1>1. CASE t.calls = <<>> /\ t.roots = <<>>
  BY <1>1 DEF TarjanStep
<1>2. CASE t.calls = <<>> /\ t.roots # <<>> /\ t.index[Head(t.roots)] = 0
  <2>1. TarjanStep(adj, t) = Enter(NextRoot(t), Head(t.roots), adj[Head(t.roots)])
    BY <1>2 DEF TarjanStep, Numbered
  <2> QED BY <1>2, <2>1, EnterRootHolds
<1>3. CASE t.calls = <<>> /\ t.roots # <<>> /\ t.index[Head(t.roots)] # 0
  <2>1. TarjanStep(adj, t) = NextRoot(t)
    BY <1>3 DEF TarjanStep, Numbered
  <2>2. TarjanInvBut(nodes, adj, D, NextRoot(t), {})
    BY <1>3, SkipHolds
  <2> QED BY <2>1, <2>2 DEF TarjanInv
<1>4. CASE t.calls # <<>> /\ Last(t.calls).rest = <<>> /\ t.low[TopName(t)] # t.index[TopName(t)]
  <2>1. TarjanStep(adj, t) = Return(Complete(t, TopName(t)), TopName(t))
    BY <1>4 DEF TarjanStep, TopName
  <2>2. Complete(t, TopName(t)) = t
    BY <1>4 DEF Complete
  <2> QED BY <1>4, <2>1, <2>2, ReturnHolds
<1>5. CASE t.calls # <<>> /\ Last(t.calls).rest = <<>> /\ t.low[TopName(t)] = t.index[TopName(t)]
  <2>1. TarjanStep(adj, t) = Return(Complete(t, TopName(t)), TopName(t))
    BY <1>5 DEF TarjanStep, TopName
  <2> QED BY <1>5, <2>1, CompleteHolds
<1>6. CASE t.calls # <<>> /\ Last(t.calls).rest # <<>> /\ t.index[NextName(t)] # 0
  <2>1. TarjanStep(adj, t) = Meet(NextNeighbour(t), TopName(t), NextName(t))
    BY <1>6 DEF TarjanStep, TopName, NextName, Numbered
  <2> QED BY <1>6, <2>1, MeetHolds
<1>7. CASE t.calls # <<>> /\ Last(t.calls).rest # <<>> /\ t.index[NextName(t)] = 0
  <2>1. TarjanStep(adj, t) = Enter(NextNeighbour(t), NextName(t), adj[NextName(t)])
    BY <1>7 DEF TarjanStep, NextName, Numbered
  <2> QED BY <1>7, <2>1, EnterNextHolds
<1> QED BY <1>1, <1>2, <1>3, <1>4, <1>5, <1>6, <1>7

(* A function iterates a step from a start. *)
Repeats(f, start, step) == f[0] = start /\ \A i \in Nat : f[i + 1] = step[f[i]]

LEMMA Iterates ==
  ASSUME NEW A, NEW start \in A, NEW step \in [A -> A]
  PROVE  \E f \in [Nat -> A] : Repeats(f, start, step)
<1> DEFINE Upto(k, g) == g \in [0..k -> A] /\ g[0] = start /\ \A i \in 0..(k - 1) : g[i + 1] = step[g[i]]
<1>1. \A k \in Nat : \E g : Upto(k, g)
  <2> DEFINE S == {k \in Nat : \E g : Upto(k, g)}
  <2>1. 0 \in S
    <3> DEFINE g == [i \in 0..0 |-> start]
    <3>1. Upto(0, g)
      OBVIOUS
    <3> HIDE DEF g, Upto
    <3> QED BY <3>1
  <2>2. ASSUME NEW k \in Nat, k \in S PROVE k + 1 \in S
    <3>1. PICK g : Upto(k, g)
      BY <2>2
    <3> DEFINE h == [i \in 0..(k + 1) |-> IF i = k + 1 THEN step[g[k]] ELSE g[i]]
    <3>2. g \in [0..k -> A] /\ g[0] = start /\ \A i \in 0..(k - 1) : g[i + 1] = step[g[i]]
      BY <3>1
    <3>3. step[g[k]] \in A /\ \A i \in 0..(k + 1) : i # k + 1 => i \in 0..k
      BY <3>2
    <3>4. h \in [0..(k + 1) -> A]
      BY <3>2, <3>3
    <3>5. h[0] = start
      BY <3>2
    <3>6. ASSUME NEW i \in 0..((k + 1) - 1) PROVE h[i + 1] = step[h[i]]
      <4>1. i \in 0..k /\ i \in 0..(k + 1) /\ i + 1 \in 0..(k + 1) /\ i # k + 1
        OBVIOUS
      <4>2. h[i] = g[i]
        BY <4>1
      <4>3. CASE i = k
        BY <4>1, <4>2, <4>3
      <4>4. CASE i # k
        <5>1. i \in 0..(k - 1) /\ i + 1 # k + 1
          BY <4>1, <4>4
        <5> QED BY <3>2, <4>1, <4>2, <5>1
      <4> QED BY <4>3, <4>4
    <3> HIDE DEF h
    <3>7. Upto(k + 1, h)
      BY <3>4, <3>5, <3>6
    <3> HIDE DEF Upto
    <3> QED BY <2>2, <3>7
  <2> HIDE DEF S, Upto
  <2>3. ASSUME NEW k \in Nat PROVE k \in S
    <3>1. \A n \in 0..k : n \in S /\ n < k => n + 1 \in S
      BY <2>2
    <3> QED BY <2>1, <3>1, UpTo
  <2> QED BY <2>3 DEF S
<1> DEFINE G == [k \in Nat |-> CHOOSE g : Upto(k, g)]
           f == [k \in Nat |-> G[k][k]]
<1>2. \A k \in Nat : Upto(k, G[k])
  <2> HIDE DEF Upto
  <2> QED BY <1>1
<1> HIDE DEF G
<1>3. ASSUME NEW k \in Nat, NEW i \in 0..k PROVE G[k][i] = G[k + 1][i]
  <2> DEFINE S == {j \in 0..k : G[k][j] = G[k + 1][j]}
  <2>1. /\ G[k][0] = start /\ \A j \in 0..(k - 1) : G[k][j + 1] = step[G[k][j]]
        /\ G[k + 1][0] = start /\ \A j \in 0..k : G[k + 1][j + 1] = step[G[k + 1][j]]
    <3>1. Upto(k, G[k])
      BY <1>2
    <3>2. Upto(k + 1, G[k + 1])
      <4>1. k + 1 \in Nat
        OBVIOUS
      <4> HIDE DEF Upto
      <4> QED BY <1>2, <4>1
    <3>3. (k + 1) - 1 = k
      OBVIOUS
    <3> QED BY <3>1, <3>2, <3>3
  <2>2. 0 \in S
    BY <2>1
  <2>3. ASSUME NEW j \in 0..i, j \in S, j < i PROVE j + 1 \in S
    <3>1. j \in 0..(k - 1) /\ j \in 0..k /\ j + 1 \in 0..k
      BY <2>3
    <3> QED BY <2>1, <2>3, <3>1
  <2> HIDE DEF S
  <2>4. i \in S
    <3>1. i \in Nat
      OBVIOUS
    <3> QED BY <2>2, <2>3, <3>1, UpTo
  <2> QED BY <2>4 DEF S
<1>4. f \in [Nat -> A]
  <2>1. ASSUME NEW k \in Nat PROVE G[k][k] \in A
    <3>1. Upto(k, G[k])
      BY <1>2
    <3>2. k \in 0..k
      OBVIOUS
    <3> QED BY <3>1, <3>2
  <2> QED BY <2>1
<1>5. f[0] = start
  <2>1. Upto(0, G[0])
    <3>1. 0 \in Nat
      OBVIOUS
    <3> HIDE DEF Upto
    <3> QED BY <1>2, <3>1
  <2> QED BY <2>1
<1>6. ASSUME NEW i \in Nat PROVE f[i + 1] = step[f[i]]
  <2>1. Upto(i + 1, G[i + 1])
    <3>1. i + 1 \in Nat
      OBVIOUS
    <3> HIDE DEF Upto
    <3> QED BY <1>2, <3>1
  <2>2. i \in 0..((i + 1) - 1) /\ i \in 0..i
    OBVIOUS
  <2>3. G[i + 1][i + 1] = step[G[i + 1][i]]
    BY <2>1, <2>2
  <2>4. G[i][i] = G[i + 1][i]
    BY <1>3, <2>2
  <2> QED BY <2>3, <2>4
<1> HIDE DEF f
<1> QED BY <1>4, <1>5, <1>6 DEF Repeats

(* What the walk has still to do: for each node without a number, and for  *)
(* each call, the neighbours left and the end of the call, by their number.*)
Unseen(nodes, adj, index, calls) ==
  {p \in nodes \X Nat : \/ index[p[1]] = 0 /\ p[2] <= Len(adj[p[1]])
                        \/ \E c \in calls : c.node = p[1] /\ p[2] <= Len(c.rest)}

UnseenBy(nodes, adj, t) == Unseen(nodes, adj, t.index, ToSet(t.calls))

LEMMA UnseenEnter ==
  ASSUME NEW nodes, NEW adj, NEW index, NEW index2, NEW calls, NEW x \in nodes, index[x] = 0, index2[x] # 0,
         \A n \in nodes : n # x => index2[n] = index[n],
         NEW calls2, calls2 = calls \cup {[node |-> x, rest |-> adj[x]]}
  PROVE  Unseen(nodes, adj, index2, calls2) \subseteq Unseen(nodes, adj, index, calls)
<1> SUFFICES ASSUME NEW p \in nodes \X Nat, p \in Unseen(nodes, adj, index2, calls2)
             PROVE  p \in Unseen(nodes, adj, index, calls)
  BY DEF Unseen
<1> DEFINE n == p[1]
           k == p[2]
<1>1. n \in nodes /\ k \in Nat
  OBVIOUS
<1>2. \/ index2[n] = 0 /\ k <= Len(adj[n])
      \/ \E c \in calls2 : c.node = n /\ k <= Len(c.rest)
  BY DEF Unseen
<1>3. CASE n = x
  <2>1. PICK c \in calls2 : c.node = n /\ k <= Len(c.rest)
    BY <1>2, <1>3
  <2>2. CASE c \in calls
    BY <2>1, <2>2 DEF Unseen
  <2>3. CASE c \notin calls
    <3>1. c.rest = adj[x]
      BY <2>3
    <3> QED BY <1>3, <2>1, <3>1 DEF Unseen
  <2> QED BY <2>2, <2>3
<1>4. CASE n # x
  <2>1. index2[n] = index[n]
    BY <1>1, <1>4
  <2>2. ASSUME NEW c \in calls2, c.node = n PROVE c \in calls
    BY <1>4, <2>2
  <2> QED BY <1>2, <2>1, <2>2 DEF Unseen
<1> QED BY <1>3, <1>4

LEMMA UnseenTake ==
  ASSUME NEW nodes, NEW adj, NEW index, NEW others, NEW c, NEW c2, NEW v \in nodes, c.node = v, c2.node = v,
         Len(c.rest) \in Nat, Len(c2.rest) = Len(c.rest) - 1, index[v] # 0, \A d \in others : d.node # v,
         NEW calls, calls = others \cup {c}, NEW calls2, calls2 = others \cup {c2}
  PROVE  /\ Unseen(nodes, adj, index, calls2) \subseteq Unseen(nodes, adj, index, calls)
         /\ Unseen(nodes, adj, index, calls2) # Unseen(nodes, adj, index, calls)
<1>1. ASSUME NEW p \in nodes \X Nat, p \in Unseen(nodes, adj, index, calls2)
      PROVE  p \in Unseen(nodes, adj, index, calls)
  <2> DEFINE n == p[1]
             k == p[2]
  <2>1. n \in nodes /\ k \in Nat
    OBVIOUS
  <2>2. \/ index[n] = 0 /\ k <= Len(adj[n])
        \/ \E d \in calls2 : d.node = n /\ k <= Len(d.rest)
    BY <1>1 DEF Unseen
  <2>3. CASE index[n] = 0 /\ k <= Len(adj[n])
    BY <2>3 DEF Unseen
  <2>4. ASSUME NEW d \in calls2, d.node = n, k <= Len(d.rest) PROVE p \in Unseen(nodes, adj, index, calls)
    <3>1. CASE d = c2
      <4>1. k <= Len(c.rest)
        BY <2>1, <2>4, <3>1
      <4> QED BY <2>4, <3>1, <4>1 DEF Unseen
    <3>2. CASE d # c2
      BY <2>4, <3>2 DEF Unseen
    <3> QED BY <3>1, <3>2
  <2> QED BY <2>2, <2>3, <2>4
<1> DEFINE token == <<v, Len(c.rest)>>
<1>2. token \in Unseen(nodes, adj, index, calls)
  BY DEF Unseen
<1>3. token \notin Unseen(nodes, adj, index, calls2)
  <2>1. token[1] = v /\ token[2] = Len(c.rest)
    OBVIOUS
  <2>2. ASSUME NEW d \in calls2, d.node = v PROVE ~(Len(c.rest) <= Len(d.rest))
    <3>1. d = c2
      BY <2>2
    <3> QED BY <3>1
  <2> HIDE DEF token
  <2> QED BY <2>1, <2>2 DEF Unseen
<1> QED BY <1>1, <1>2, <1>3 DEF Unseen

LEMMA UnseenEnd ==
  ASSUME NEW nodes, NEW adj, NEW index, NEW others, NEW c, NEW v \in nodes, c.node = v, c.rest = <<>>,
         index[v] # 0, \A d \in others : d.node # v, NEW calls, calls = others \cup {c}
  PROVE  /\ Unseen(nodes, adj, index, others) \subseteq Unseen(nodes, adj, index, calls)
         /\ Unseen(nodes, adj, index, others) # Unseen(nodes, adj, index, calls)
<1>1. Unseen(nodes, adj, index, others) \subseteq Unseen(nodes, adj, index, calls)
  BY DEF Unseen
<1> DEFINE token == <<v, 0>>
<1>2. token \in nodes \X Nat /\ token[1] = v /\ token[2] = 0
  OBVIOUS
<1> HIDE DEF token
<1>3. token \in Unseen(nodes, adj, index, calls)
  <2>1. 0 <= Len(c.rest)
    OBVIOUS
  <2> QED BY <1>2, <2>1 DEF Unseen
<1>4. token \notin Unseen(nodes, adj, index, others)
  BY <1>2 DEF Unseen
<1> QED BY <1>1, <1>3, <1>4

(* Every step but a finished walk's does one of these. *)
Proceeds(nodes, adj, t, s) ==
  /\ UnseenBy(nodes, adj, s) \subseteq UnseenBy(nodes, adj, t)
  /\ \/ t.roots # <<>> /\ s.roots = Tail(t.roots)
     \/ s.roots = t.roots /\ UnseenBy(nodes, adj, s) # UnseenBy(nodes, adj, t)

LEMMA RootProceeds ==
  ASSUME NEW nodes, NEW adj, NEW D, GoodGraph(nodes, adj, D), NEW t, TarjanInv(nodes, adj, D, t),
         t.calls = <<>>, t.roots # <<>>
  PROVE  Proceeds(nodes, adj, t, TarjanStep(adj, t))
<1> DEFINE u == NextRoot(t)
           root == Head(t.roots)
           e == Enter(u, root, adj[root])
<1>1. t \in TarjanType(nodes) /\ t.roots \in Seq(nodes)
  BY TarjanTypeParts DEF TarjanInv, TarjanInvBut
<1>2. root \in nodes /\ adj[root] \in Seq(nodes) /\ Tail(t.roots) \in Seq(nodes)
  BY <1>1 DEF GoodGraph
<1>3. /\ u \in TarjanType(nodes) /\ u.roots = Tail(t.roots) /\ u.index = t.index /\ u.calls = t.calls
  BY <1>1, <1>2 DEF TarjanType, NextRoot
<1>4. TarjanStep(adj, t) = IF t.index[root] # 0 THEN u ELSE e
  BY DEF TarjanStep, Numbered
<1>5. e = Enter(u, root, adj[root])
  OBVIOUS
<1> HIDE DEF u, root, e
<1>6. UnseenBy(nodes, adj, u) = UnseenBy(nodes, adj, t)
  BY <1>3 DEF UnseenBy
<1>7. CASE t.index[root] # 0
  BY <1>3, <1>4, <1>6, <1>7 DEF Proceeds
<1>8. CASE t.index[root] = 0
  <2> DEFINE call == [node |-> root, rest |-> adj[root]]
  <2>1. /\ e.counter = u.counter + 1 /\ e.roots = u.roots
        /\ e.index[root] = u.counter + 1 /\ \A n \in nodes : n # root => e.index[n] = u.index[n]
        /\ e.calls = Append(u.calls, call)
    BY <1>2, <1>3, <1>5, EnterFields DEF EntersNode
  <2>2. u.counter \in Nat /\ u.calls \in Seq(CallsOf(nodes)) /\ call \in CallsOf(nodes)
    BY <1>2, <1>3, TarjanTypeParts DEF CallsOf
  <2>3. e.index[root] # 0 /\ u.index[root] = 0
    BY <1>3, <1>8, <2>1, <2>2
  <2>4. ToSet(e.calls) = ToSet(u.calls) \cup {call}
    <3> HIDE DEF call
    <3> QED BY <2>1, <2>2, AppendFacts
  <2>5. Unseen(nodes, adj, e.index, ToSet(e.calls)) \subseteq Unseen(nodes, adj, u.index, ToSet(u.calls))
    BY <1>2, <2>1, <2>3, <2>4, UnseenEnter
  <2> QED BY <1>3, <1>4, <1>6, <1>8, <2>1, <2>5 DEF Proceeds, UnseenBy
<1> QED BY <1>7, <1>8

LEMMA TakeProceeds ==
  ASSUME NEW nodes, NEW adj, NEW D, GoodGraph(nodes, adj, D), NEW t, TarjanInv(nodes, adj, D, t),
         t.calls # <<>>, Last(t.calls).rest # <<>>
  PROVE  Proceeds(nodes, adj, t, NextNeighbour(t)) /\ NextNeighbour(t).roots = t.roots
<1> DEFINE left == NextNeighbour(t)
           c == Last(t.calls)
           front == Front(t.calls)
           v == TopName(t)
           c2 == [node |-> v, rest |-> Tail(c.rest)]
<1>1. t \in TarjanType(nodes) /\ StackHolds(t) /\ t.index \in [nodes -> Nat]
      /\ \A n \in nodes : t.index[n] # 0 <=> n \in OnStack(t) \cup Grouped(t)
  BY TarjanTypeParts DEF TarjanInv, TarjanInvBut, NumbersHold
<1>2. /\ left.index = t.index /\ left.roots = t.roots
      /\ left.calls = Append(front, c2) /\ c.rest \in Seq(nodes) /\ Tail(c.rest) \in Seq(nodes)
  BY <1>1, TakeFields DEF TopName
<1>3. /\ c \in CallsOf(nodes) /\ v \in nodes /\ c.node = v
      /\ front \in Seq(CallsOf(nodes))
      /\ ToSet(t.calls) = ToSet(front) \cup {c}
      /\ \A n \in NodesOf(front) : t.index[n] < t.index[v]
      /\ v \in OnStack(t)
  BY <1>1, TopCall DEF TopName
<1>4. Len(c.rest) \in Nat /\ Len(Tail(c.rest)) = Len(c.rest) - 1
  BY <1>2
<1>5. c2 \in CallsOf(nodes) /\ c2.node = v /\ Len(c2.rest) = Len(c.rest) - 1
  BY <1>2, <1>3, <1>4 DEF CallsOf
<1> HIDE DEF left, c, front, v, c2
<1>6. ToSet(left.calls) = ToSet(front) \cup {c2}
  BY <1>2, <1>3, <1>5, AppendFacts
<1>7. \A d \in ToSet(front) : d.node # v
  <2>1. t.index[v] \in Nat
    BY <1>1, <1>3
  <2>2. v \notin NodesOf(front)
    BY <1>3, <2>1
  <2> QED BY <2>2 DEF NodesOf
<1>8. t.index[v] # 0
  BY <1>1, <1>3
<1>9. /\ Unseen(nodes, adj, t.index, ToSet(left.calls)) \subseteq Unseen(nodes, adj, t.index, ToSet(t.calls))
      /\ Unseen(nodes, adj, t.index, ToSet(left.calls)) # Unseen(nodes, adj, t.index, ToSet(t.calls))
  BY <1>3, <1>4, <1>5, <1>6, <1>7, <1>8, UnseenTake
<1> QED BY <1>2, <1>9 DEF Proceeds, UnseenBy, left

LEMMA MeetProceeds ==
  ASSUME NEW nodes, NEW adj, NEW D, GoodGraph(nodes, adj, D), NEW t, TarjanInv(nodes, adj, D, t),
         t.calls # <<>>, Last(t.calls).rest # <<>>
  PROVE  Proceeds(nodes, adj, t, Meet(NextNeighbour(t), TopName(t), NextName(t)))
<1> DEFINE left == NextNeighbour(t)
           met == Meet(left, TopName(t), NextName(t))
<1>1. Proceeds(nodes, adj, t, left) /\ left.roots = t.roots
  BY TakeProceeds
<1>2. left \in TarjanType(nodes)
  BY TakeFields DEF TarjanInv, TarjanInvBut
<1>3. met.index = left.index /\ met.calls = left.calls /\ met.roots = left.roots
  <2> DEFINE x == NextName(t)
             v == TopName(t)
  <2> HIDE DEF left, x, v
  <2>1. Meet(left, v, x) \in {left, [left EXCEPT !.low[v] = Smaller(@, left.index[x])]}
    BY DEF Meet, Lower
  <2>2. met = Meet(left, v, x)
    BY DEF v, x
  <2> QED BY <1>2, <2>1, <2>2 DEF TarjanType
<1> HIDE DEF left, met
<1> QED BY <1>1, <1>3 DEF Proceeds, UnseenBy, met, left

LEMMA EnterNextProceeds ==
  ASSUME NEW nodes, NEW adj, NEW D, GoodGraph(nodes, adj, D), NEW t, TarjanInv(nodes, adj, D, t),
         t.calls # <<>>, Last(t.calls).rest # <<>>, t.index[NextName(t)] = 0
  PROVE  Proceeds(nodes, adj, t, Enter(NextNeighbour(t), NextName(t), adj[NextName(t)]))
<1> DEFINE u == NextNeighbour(t)
           x == NextName(t)
           e == Enter(u, x, adj[x])
           call == [node |-> x, rest |-> adj[x]]
<1>1. Proceeds(nodes, adj, t, u) /\ u.roots = t.roots
  BY TakeProceeds
<1>2. u \in TarjanType(nodes) /\ u.index = t.index /\ t.index[x] = 0
  BY TakeFields DEF TarjanInv, TarjanInvBut
<1>3. x \in nodes
  BY TakeHolds DEF Taken
<1>4. adj[x] \in Seq(nodes) /\ e = Enter(u, x, adj[x])
  BY <1>3 DEF GoodGraph
<1>5. call \in CallsOf(nodes)
  BY <1>3, <1>4 DEF CallsOf
<1> HIDE DEF u, x, e
<1>6. /\ e.counter = u.counter + 1 /\ e.roots = u.roots
      /\ e.index[x] = u.counter + 1 /\ \A n \in nodes : n # x => e.index[n] = u.index[n]
      /\ e.calls = Append(u.calls, call)
  BY <1>2, <1>3, <1>4, EnterFields DEF EntersNode
<1>7. u.counter \in Nat /\ u.calls \in Seq(CallsOf(nodes))
  BY <1>2, TarjanTypeParts
<1>8. e.index[x] # 0 /\ u.index[x] = 0
  BY <1>2, <1>6, <1>7
<1>9. ToSet(e.calls) = ToSet(u.calls) \cup {call}
  <2> HIDE DEF call
  <2> QED BY <1>5, <1>6, <1>7, AppendFacts
<1>10. Unseen(nodes, adj, e.index, ToSet(e.calls)) \subseteq Unseen(nodes, adj, u.index, ToSet(u.calls))
  BY <1>3, <1>6, <1>8, <1>9, UnseenEnter
<1>11. UnseenBy(nodes, adj, u) \subseteq UnseenBy(nodes, adj, t)
       /\ (u.roots = t.roots /\ UnseenBy(nodes, adj, u) # UnseenBy(nodes, adj, t))
  <2>1. UnseenBy(nodes, adj, u) # UnseenBy(nodes, adj, t)
    <3>1. t.roots # <<>> => t.roots # Tail(t.roots)
      <4>1. t.roots \in Seq(nodes)
        BY TarjanTypeParts DEF TarjanInv, TarjanInvBut
      <4>2. ASSUME t.roots # <<>> PROVE Len(Tail(t.roots)) # Len(t.roots)
        BY <4>1, <4>2
      <4> QED BY <4>2
    <3> QED BY <1>1, <3>1 DEF Proceeds
  <2> QED BY <1>1, <2>1 DEF Proceeds
<1>12. UnseenBy(nodes, adj, e) \subseteq UnseenBy(nodes, adj, u) /\ e.roots = t.roots
  BY <1>6, <1>10, <1>11 DEF UnseenBy
<1>13. UnseenBy(nodes, adj, e) \subseteq UnseenBy(nodes, adj, t) /\ UnseenBy(nodes, adj, e) # UnseenBy(nodes, adj, t)
  BY <1>11, <1>12
<1> QED BY <1>12, <1>13 DEF Proceeds, e, u, x

LEMMA EndProceeds ==
  ASSUME NEW nodes, NEW adj, NEW D, GoodGraph(nodes, adj, D), NEW t, TarjanInv(nodes, adj, D, t),
         t.calls # <<>>, Last(t.calls).rest = <<>>
  PROVE  Proceeds(nodes, adj, t, Return(Complete(t, TopName(t)), TopName(t)))
<1> DEFINE v == TopName(t)
           u == Complete(t, v)
           r == Return(u, v)
           c == Last(t.calls)
           front == Front(t.calls)
<1>1. t \in TarjanType(nodes) /\ StackHolds(t) /\ t.index \in [nodes -> Nat]
      /\ Rises(t.index, t.stack)
      /\ \A n \in nodes : t.index[n] # 0 <=> n \in OnStack(t) \cup Grouped(t)
  BY TarjanTypeParts DEF TarjanInv, TarjanInvBut, NumbersHold, StackHolds
<1>2. /\ c \in CallsOf(nodes) /\ v \in nodes /\ c.node = v /\ c.rest = <<>>
      /\ ToSet(t.calls) = ToSet(front) \cup {c}
      /\ \A n \in NodesOf(front) : t.index[n] < t.index[v]
      /\ v \in OnStack(t)
  BY <1>1, TopCall DEF TopName
<1>3. nodes \in SUBSET Nat /\ IsFiniteSet(nodes) /\ u = Complete(t, v) /\ r = Return(u, v)
  BY DEF GoodGraph
<1> HIDE DEF v, u, r
<1>4. u \in TarjanType(nodes) /\ u.calls = t.calls /\ u.index = t.index /\ u.roots = t.roots
  <2>1. CASE t.low[v] = t.index[v]
    BY <1>1, <1>2, <1>3, <2>1, CompleteFields
  <2>2. CASE t.low[v] # t.index[v]
    BY <1>1, <1>3, <2>2 DEF Complete
  <2> QED BY <2>1, <2>2
<1>5. r.calls = front /\ r.index = t.index /\ r.roots = t.roots
  <2>1. Returned(nodes, u, v, r)
    BY <1>2, <1>3, <1>4, ReturnFields
  <2> QED BY <1>4, <2>1 DEF Returned
<1> HIDE DEF c, front
<1>6. \A d \in ToSet(front) : d.node # v
  <2>1. t.index[v] \in Nat
    BY <1>1, <1>2
  <2>2. v \notin NodesOf(front)
    BY <1>2, <2>1
  <2> QED BY <2>2 DEF NodesOf
<1>7. t.index[v] # 0
  BY <1>1, <1>2
<1>8. /\ Unseen(nodes, adj, t.index, ToSet(front)) \subseteq Unseen(nodes, adj, t.index, ToSet(t.calls))
      /\ Unseen(nodes, adj, t.index, ToSet(front)) # Unseen(nodes, adj, t.index, ToSet(t.calls))
  BY <1>2, <1>6, <1>7, UnseenEnd
<1> QED BY <1>5, <1>8 DEF Proceeds, UnseenBy, r, u, v

LEMMA StepProceeds ==
  ASSUME NEW nodes, NEW adj, NEW D, GoodGraph(nodes, adj, D), NEW t, TarjanInv(nodes, adj, D, t),
         t.calls # <<>> \/ t.roots # <<>>
  PROVE  Proceeds(nodes, adj, t, TarjanStep(adj, t))
<1>1. CASE t.calls = <<>>
  BY <1>1, RootProceeds
<1>2. CASE t.calls # <<>> /\ Last(t.calls).rest = <<>>
  <2>1. TarjanStep(adj, t) = Return(Complete(t, TopName(t)), TopName(t))
    BY <1>2 DEF TarjanStep, TopName
  <2> QED BY <1>2, <2>1, EndProceeds
<1>3. CASE t.calls # <<>> /\ Last(t.calls).rest # <<>> /\ t.index[NextName(t)] # 0
  <2>1. TarjanStep(adj, t) = Meet(NextNeighbour(t), TopName(t), NextName(t))
    BY <1>3 DEF TarjanStep, TopName, NextName, Numbered
  <2> QED BY <1>3, <2>1, MeetProceeds
<1>4. CASE t.calls # <<>> /\ Last(t.calls).rest # <<>> /\ t.index[NextName(t)] = 0
  <2>1. TarjanStep(adj, t) = Enter(NextNeighbour(t), NextName(t), adj[NextName(t)])
    BY <1>4 DEF TarjanStep, NextName, Numbered
  <2> QED BY <1>4, <2>1, EnterNextProceeds
<1> QED BY <1>1, <1>2, <1>3, <1>4

(* That is less work at each step, and no more than the steps allowed for. *)
Work(nodes, adj, t) == Len(t.roots) + Cardinality(UnseenBy(nodes, adj, t))
Finished(t) == t.calls = <<>> /\ t.roots = <<>>

LEMMA WorkStart ==
  ASSUME NEW nodes, NEW adj, NEW D, GoodGraph(nodes, adj, D), NEW t, t = TarjanStart(nodes)
  PROVE  /\ IsFiniteSet(UnseenBy(nodes, adj, t))
         /\ Work(nodes, adj, t) \in Nat
         /\ Work(nodes, adj, t) <= Cardinality(nodes) + Cardinality(nodes) * Cardinality(nodes)
<1> DEFINE N == Cardinality(nodes)
           U == UnseenBy(nodes, adj, t)
           box == nodes \X (0..(N - 1))
<1>1. /\ IsFiniteSet(nodes) /\ N \in Nat
      /\ \A a \in nodes : adj[a] \in Seq(nodes) /\ Len(adj[a]) < N
  BY FS_CardinalityType DEF GoodGraph
<1>2. t.calls = <<>> /\ Len(t.roots) = N
  BY StartHolds
<1> HIDE DEF N
<1>3. IsFiniteSet(0..(N - 1)) /\ Cardinality(0..(N - 1)) = N
  <2> DEFINE last == N - 1
  <2>1. last \in Int /\ 0 \in Int
    BY <1>1
  <2> HIDE DEF last
  <2>2. IsFiniteSet(0..last) /\ Cardinality(0..last) = IF 0 > last THEN 0 ELSE last - 0 + 1
    BY <2>1, FS_Interval
  <2> QED BY <1>1, <2>2 DEF last
<1>4. IsFiniteSet(box) /\ Cardinality(box) = N * N
  BY <1>1, <1>3, FS_Product DEF N
<1>5. U \subseteq box
  <2> SUFFICES ASSUME NEW p \in nodes \X Nat, p \in U PROVE p \in box
    BY DEF UnseenBy, Unseen
  <2>1. ToSet(t.calls) = {}
    BY <1>2 DEF ToSet
  <2>2. p[1] \in nodes /\ p[2] \in Nat /\ p[2] <= Len(adj[p[1]])
    BY <2>1 DEF UnseenBy, Unseen
  <2>3. Len(adj[p[1]]) \in Nat /\ Len(adj[p[1]]) < N
    BY <1>1, <2>2
  <2>4. p[2] \in 0..(N - 1)
    BY <1>1, <2>2, <2>3
  <2> QED BY <2>2, <2>4
<1>6. N * N \in Nat
  BY <1>1
<1> HIDE DEF U, box
<1>7. IsFiniteSet(U) /\ Cardinality(U) <= N * N /\ Cardinality(U) \in Nat
  BY <1>4, <1>5, FS_Subset, FS_CardinalityType
<1> DEFINE M == N * N
           K == Cardinality(U)
<1>8. M \in Nat /\ K \in Nat /\ K <= M
  BY <1>6, <1>7
<1> HIDE DEF M, K
<1>9. N + K \in Nat /\ N + K <= N + M
  BY <1>1, <1>8
<1> QED BY <1>2, <1>7, <1>9 DEF Work, U, N, M, K

LEMMA TarjanWorkStep ==
  ASSUME NEW nodes, NEW adj, NEW D, GoodGraph(nodes, adj, D), NEW t, TarjanInv(nodes, adj, D, t),
         ~Finished(t), IsFiniteSet(UnseenBy(nodes, adj, t)), NEW s, s = TarjanStep(adj, t)
  PROVE  /\ IsFiniteSet(UnseenBy(nodes, adj, s))
         /\ Work(nodes, adj, t) \in Nat /\ Work(nodes, adj, s) \in Nat
         /\ Work(nodes, adj, s) < Work(nodes, adj, t)
<1> DEFINE U == UnseenBy(nodes, adj, t)
           V == UnseenBy(nodes, adj, s)
<1>1. Proceeds(nodes, adj, t, s)
  BY StepProceeds DEF Finished
<1>2. t.roots \in Seq(nodes)
  BY TarjanTypeParts DEF TarjanInv, TarjanInvBut
<1>3. IsFiniteSet(U)
  OBVIOUS
<1>4. V \subseteq U /\ ((t.roots # <<>> /\ s.roots = Tail(t.roots)) \/ (s.roots = t.roots /\ V # U))
  BY <1>1 DEF Proceeds
<1> HIDE DEF U, V
<1>5. IsFiniteSet(V) /\ Cardinality(V) \in Nat /\ Cardinality(U) \in Nat /\ Cardinality(V) <= Cardinality(U)
      /\ (Cardinality(V) = Cardinality(U) => V = U)
  BY <1>3, <1>4, FS_Subset, FS_CardinalityType
<1>6. CASE t.roots # <<>> /\ s.roots = Tail(t.roots)
  <2>1. Len(t.roots) \in Nat /\ Len(s.roots) \in Nat /\ Len(s.roots) = Len(t.roots) - 1
    BY <1>2, <1>6
  <2> QED BY <1>5, <2>1 DEF Work, U, V
<1>7. CASE s.roots = t.roots /\ V # U
  <2>1. Len(t.roots) \in Nat
    BY <1>2
  <2>2. Cardinality(V) < Cardinality(U)
    BY <1>5, <1>7
  <2> QED BY <1>5, <1>7, <2>1, <2>2 DEF Work, U, V
<1> QED BY <1>4, <1>6, <1>7

(* The walk of a whole graph. *)
Walks(nodes, adj, f) ==
  f = [i \in Nat |-> IF i = 0 THEN TarjanStart(nodes) ELSE TarjanStep(adj, f[i - 1])]

LEMMA WalkExists ==
  ASSUME NEW nodes, NEW adj, NEW D, GoodGraph(nodes, adj, D)
  PROVE  \E f : Walks(nodes, adj, f)
<1> DEFINE A == {t \in TarjanType(nodes) : TarjanInv(nodes, adj, D, t)}
           start == TarjanStart(nodes)
           step == [t \in A |-> TarjanStep(adj, t)]
<1>1. start \in A
  BY StartHolds DEF TarjanInv, TarjanInvBut
<1>2. ASSUME NEW t \in A PROVE TarjanStep(adj, t) \in A
  <2>1. TarjanInv(nodes, adj, D, TarjanStep(adj, t))
    BY TarjanStepHolds
  <2> QED BY <2>1 DEF TarjanInv, TarjanInvBut
<1>3. step \in [A -> A] /\ \A t \in A : step[t] = TarjanStep(adj, t)
  BY <1>2
<1> HIDE DEF A, start, step
<1>7. PICK f \in [Nat -> A] : Repeats(f, start, step)
  BY <1>1, <1>3, Iterates
<1>4. f[0] = start /\ \A i \in Nat : f[i + 1] = step[f[i]]
  BY <1>7 DEF Repeats
<1>5. ASSUME NEW i \in Nat PROVE f[i] = IF i = 0 THEN TarjanStart(nodes) ELSE TarjanStep(adj, f[i - 1])
  <2>1. CASE i = 0
    BY <1>4, <2>1 DEF start
  <2>2. CASE i # 0
    <3>1. i - 1 \in Nat /\ (i - 1) + 1 = i
      BY <2>2
    <3>2. f[i] = step[f[i - 1]] /\ f[i - 1] \in A
      BY <1>4, <3>1
    <3> QED BY <1>3, <2>2, <3>2
  <2> QED BY <2>1, <2>2
<1>6. f = [i \in Nat |-> f[i]]
  BY <1>4
<1> QED BY <1>5, <1>6 DEF Walks

StepsOf(size) == 2 * size + size * size

LEMMA WholeWalkHolds ==
  ASSUME NEW nodes, NEW adj, NEW D, GoodGraph(nodes, adj, D), NEW f, Walks(nodes, adj, f),
         NEW size, size = Cardinality(nodes), NEW last, last = StepsOf(size)
  PROVE  TarjanInv(nodes, adj, D, f[last]) /\ Finished(f[last])
<1> DEFINE start == TarjanStart(nodes)
           M == size * size
           S == {k \in Nat : /\ TarjanInv(nodes, adj, D, f[k])
                             /\ IsFiniteSet(UnseenBy(nodes, adj, f[k]))
                             /\ Work(nodes, adj, f[k]) \in Nat
                             /\ Finished(f[k]) \/ Work(nodes, adj, f[k]) + k <= size + M}
<1>1. size \in Nat
  BY FS_CardinalityType DEF GoodGraph
<1>2. M \in Nat
  BY <1>1
<1>3. last = 2 * size + M
  BY DEF StepsOf
<1> HIDE DEF M
<1>4. last \in Nat
  BY <1>1, <1>2, <1>3
<1>5. f[0] = start /\ \A k \in Nat : f[k + 1] = TarjanStep(adj, f[k])
  <2>1. f = [i \in Nat |-> IF i = 0 THEN TarjanStart(nodes) ELSE TarjanStep(adj, f[i - 1])]
    BY DEF Walks
  <2>2. f[0] = start
    BY <2>1
  <2>3. ASSUME NEW k \in Nat PROVE f[k + 1] = TarjanStep(adj, f[k])
    <3>1. k + 1 \in Nat /\ k + 1 # 0 /\ (k + 1) - 1 = k
      OBVIOUS
    <3>2. f[k + 1] = TarjanStep(adj, f[(k + 1) - 1])
      BY <2>1, <3>1
    <3> QED BY <3>1, <3>2
  <2> QED BY <2>2, <2>3
<1>6. 0 \in S
  <2>1. TarjanInv(nodes, adj, D, start)
    BY StartHolds
  <2>2. /\ IsFiniteSet(UnseenBy(nodes, adj, start)) /\ Work(nodes, adj, start) \in Nat
        /\ Work(nodes, adj, start) <= size + M
    BY WorkStart DEF M
  <2> HIDE DEF start
  <2>3. Work(nodes, adj, start) + 0 <= size + M
    BY <1>1, <1>2, <2>2
  <2> QED BY <1>5, <2>1, <2>2, <2>3
<1>7. ASSUME NEW k \in 0..last, k \in S PROVE k + 1 \in S
  <2> DEFINE t == f[k]
             s == f[k + 1]
  <2>1. /\ k \in Nat /\ k + 1 \in Nat /\ s = TarjanStep(adj, t) /\ TarjanInv(nodes, adj, D, t)
        /\ IsFiniteSet(UnseenBy(nodes, adj, t)) /\ Work(nodes, adj, t) \in Nat
        /\ Finished(t) \/ Work(nodes, adj, t) + k <= size + M
    BY <1>5, <1>7
  <2> HIDE DEF t, s
  <2>2. TarjanInv(nodes, adj, D, s)
    BY <2>1, TarjanStepHolds
  <2>3. CASE Finished(t)
    <3>1. s = t
      BY <2>1, <2>3 DEF TarjanStep, Finished
    <3> QED BY <2>1, <2>3, <3>1 DEF s
  <2>4. CASE ~Finished(t)
    <3>1. /\ IsFiniteSet(UnseenBy(nodes, adj, s)) /\ Work(nodes, adj, s) \in Nat
          /\ Work(nodes, adj, s) < Work(nodes, adj, t)
      BY <2>1, <2>4, TarjanWorkStep
    <3>2. Work(nodes, adj, s) + (k + 1) <= size + M
      BY <1>1, <1>2, <2>1, <2>4, <3>1
    <3> QED BY <2>1, <2>2, <3>1, <3>2 DEF s
  <2> QED BY <2>3, <2>4
<1>8. last \in S
  <2> HIDE DEF S
  <2> QED BY <1>4, <1>6, <1>7, UpTo
<1>9. ASSUME ~Finished(f[last]) PROVE FALSE
  <2> DEFINE t == f[last]
  <2>1. /\ TarjanInv(nodes, adj, D, t) /\ Work(nodes, adj, t) \in Nat /\ Work(nodes, adj, t) + last <= size + M
        /\ IsFiniteSet(UnseenBy(nodes, adj, t)) /\ ~Finished(t)
    BY <1>8, <1>9
  <2> HIDE DEF t
  <2>2. Work(nodes, adj, t) = 0
    <3> DEFINE W == Work(nodes, adj, t)
    <3>1. W \in Nat /\ W + last <= size + M
      BY <2>1
    <3> HIDE DEF W
    <3>2. W = 0
      BY <1>1, <1>2, <1>3, <3>1
    <3> QED BY <3>2 DEF W
  <2>3. Work(nodes, adj, TarjanStep(adj, t)) \in Nat /\ Work(nodes, adj, TarjanStep(adj, t)) < Work(nodes, adj, t)
    BY <2>1, TarjanWorkStep
  <2> QED BY <2>2, <2>3
<1> QED BY <1>8, <1>9

(* A graph's dependence, and its adjacency lists. *)
LEMMA DependsFacts ==
  ASSUME NEW nodes, NEW edges
  PROVE  /\ Depends(nodes, edges) \subseteq nodes \X nodes
         /\ \A a \in nodes : <<a, a>> \in Depends(nodes, edges)
         /\ \A a, b \in nodes : <<a, b>> \in edges => <<a, b>> \in Depends(nodes, edges)
         /\ Transitive(nodes, Depends(nodes, edges))
         /\ \A P \in SUBSET nodes : (\A a \in P, b \in nodes : <<a, b>> \in edges => b \in P) =>
              \A p \in Depends(nodes, edges) : p[1] \in P => p[2] \in P
<1> DEFINE closed == {S \in SUBSET nodes : \A a \in S, b \in nodes : <<a, b>> \in edges => b \in S}
           D == Depends(nodes, edges)
<1>1. D = {p \in nodes \X nodes : \A S \in closed : p[1] \in S => p[2] \in S}
  BY DEF Depends
<1>2. \A S \in closed : S \subseteq nodes /\ \A a \in S, b \in nodes : <<a, b>> \in edges => b \in S
  OBVIOUS
<1>3. \A P \in SUBSET nodes : (\A a \in P, b \in nodes : <<a, b>> \in edges => b \in P) => P \in closed
  OBVIOUS
<1> HIDE DEF closed, D
<1>4. \A a, b \in nodes : <<a, b>> \in D <=> \A S \in closed : a \in S => b \in S
  BY <1>1
<1>5. \A a \in nodes : <<a, a>> \in D
  BY <1>4
<1>6. \A a, b \in nodes : <<a, b>> \in edges => <<a, b>> \in D
  BY <1>2, <1>4
<1>7. Transitive(nodes, D)
  <2>1. ASSUME NEW a \in nodes, NEW b \in nodes, NEW c \in nodes, <<a, b>> \in D, <<b, c>> \in D
        PROVE  <<a, c>> \in D
    BY <1>4, <2>1
  <2> QED BY <2>1 DEF Transitive
<1>8. D \subseteq nodes \X nodes
  BY <1>1
<1>9. ASSUME NEW P \in SUBSET nodes, \A a \in P, b \in nodes : <<a, b>> \in edges => b \in P,
             NEW p \in D, p[1] \in P
      PROVE  p[2] \in P
  BY <1>1, <1>3, <1>9
<1> QED BY <1>5, <1>6, <1>7, <1>8, <1>9 DEF D

LEMMA GraphIsGood ==
  ASSUME NEW nodes \in SUBSET Nat, IsFiniteSet(nodes), NEW edges
  PROVE  /\ GoodGraph(nodes, Adjacency(nodes, edges), Depends(nodes, edges))
         /\ \A a, b \in nodes : <<a, b>> \in edges /\ a # b => b \in ToSet(Adjacency(nodes, edges)[a])
<1> DEFINE adj == Adjacency(nodes, edges)
           D == Depends(nodes, edges)
           near(n) == {to \in nodes \ {n} : <<n, to>> \in edges}
<1>1. \A n \in nodes : adj[n] = Sorted(near(n))
  BY DEF Adjacency
<1>2. adj = [n \in nodes |-> adj[n]]
  BY DEF Adjacency
<1>3. ASSUME NEW n \in nodes
      PROVE  adj[n] \in Seq(nodes) /\ ToSet(adj[n]) = near(n) /\ Len(adj[n]) < Cardinality(nodes)
  <2> DEFINE rest == nodes \ {n}
             S == near(n)
  <2>1. IsFiniteSet(rest) /\ Cardinality(rest) = Cardinality(nodes) - 1 /\ Cardinality(nodes) \in Nat
    BY FS_RemoveElement, FS_CardinalityType
  <2>2. S \subseteq rest /\ S \subseteq nodes
    OBVIOUS
  <2>3. adj[n] = Sorted(S)
    BY <1>1
  <2> HIDE DEF rest, S, adj
  <2>4. IsFiniteSet(S) /\ Cardinality(S) <= Cardinality(rest) /\ Cardinality(S) \in Nat /\ S \in SUBSET Nat
    BY <2>1, <2>2, FS_Subset, FS_CardinalityType
  <2>5. Sorted(S) \in Seq(S) /\ ToSet(Sorted(S)) = S /\ Len(Sorted(S)) = Cardinality(S)
    BY <2>4, SortedFacts
  <2>6. adj[n] \in Seq(nodes)
    <3> DEFINE s == Sorted(S)
    <3>1. s \in Seq(S) /\ S \in SUBSET nodes
      BY <2>2, <2>5
    <3> HIDE DEF s
    <3>2. Len(s) \in Nat /\ s \in [1..Len(s) -> S]
      BY <3>1
    <3>3. s \in [1..Len(s) -> nodes]
      BY <3>1, <3>2
    <3>4. s \in Seq(nodes)
      BY <3>2, <3>3
    <3> QED BY <2>3, <3>4 DEF s
  <2>7. Len(adj[n]) < Cardinality(nodes)
    BY <2>1, <2>3, <2>4, <2>5
  <2> QED BY <2>3, <2>5, <2>6, <2>7 DEF S
<1> HIDE DEF adj
<1>4. \A a \in nodes : \A b \in near(a) : b \in nodes /\ <<a, b>> \in edges
  OBVIOUS
<1>5. \A a, b \in nodes : <<a, b>> \in edges /\ a # b => b \in near(a)
  OBVIOUS
<1> HIDE DEF near
<1>6. adj \in [nodes -> Seq(nodes)]
  BY <1>2, <1>3
<1>7. /\ \A a \in nodes : <<a, a>> \in D
      /\ \A a, b \in nodes : <<a, b>> \in edges => <<a, b>> \in D
      /\ Transitive(nodes, D)
  BY DependsFacts
<1> HIDE DEF D
<1>8. \A a \in nodes : <<a, a>> \in D /\ \A b \in ToSet(adj[a]) : <<a, b>> \in D
  BY <1>3, <1>4, <1>7
<1>9. GoodGraph(nodes, adj, D)
  BY <1>3, <1>6, <1>7, <1>8 DEF GoodGraph
<1> QED BY <1>3, <1>5, <1>9 DEF adj, D

(* The order of a finished walk. *)
LEMMA FinishedOrder ==
  ASSUME NEW nodes \in SUBSET Nat, IsFiniteSet(nodes), NEW edges, NEW t, Finished(t),
         TarjanInv(nodes, Adjacency(nodes, edges), Depends(nodes, edges), t)
  PROVE  IsDependencyOrder(t.order, nodes, edges)
<1> DEFINE adj == Adjacency(nodes, edges)
           D == Depends(nodes, edges)
           order == t.order
           N == Len(order)
           P(i) == UNION {ToSet(order[k]) : k \in 1..i}
<1>1. /\ t \in TarjanType(nodes) /\ StackHolds(t) /\ NumbersHold(nodes, t, {}) /\ GroupsHold(adj, D, order)
      /\ t.calls = <<>> /\ t.roots = <<>>
  BY DEF TarjanInv, TarjanInvBut, Finished
<1>2. order \in Seq(Seq(nodes)) /\ N \in Nat /\ DOMAIN order = 1..N
      /\ \A i \in 1..N : order[i] \in Seq(nodes)
  BY <1>1, TarjanTypeParts
<1>3. \A n \in nodes : n \in Grouped(t)
  <2>1. ToSet(t.calls) = {} /\ ToSet(t.roots) = {}
    BY <1>1 DEF ToSet
  <2>2. Called(t) = {}
    BY <2>1 DEF Called, NodesOf
  <2>3. OnStack(t) = {}
    BY <1>1, <2>2 DEF StackHolds
  <2> QED BY <1>1, <2>1, <2>3 DEF NumbersHold
<1>4. \A n \in nodes : \E i \in 1..N : n \in ToSet(order[i])
  BY <1>2, <1>3 DEF Grouped, NamesOf
<1>5. /\ \A i \in 1..N : order[i] = Sorted(ToSet(order[i]))
      /\ \A i, j \in 1..N : i # j => ToSet(order[i]) \cap ToSet(order[j]) = {}
      /\ \A i \in 1..N : \A a, b \in ToSet(order[i]) : <<a, b>> \in D
      /\ \A i \in 1..N : \A a \in ToSet(order[i]) :
           \A b \in ToSet(adj[a]) : \E j \in 1..i : b \in ToSet(order[j])
  BY <1>1, <1>2 DEF GroupsHold
<1>6. \A a, b \in nodes : <<a, b>> \in edges /\ a # b => b \in ToSet(adj[a])
  BY GraphIsGood
<1>7. /\ D \subseteq nodes \X nodes
      /\ \A Q \in SUBSET nodes : (\A a \in Q, b \in nodes : <<a, b>> \in edges => b \in Q) =>
              \A p \in D : p[1] \in Q => p[2] \in Q
  BY DependsFacts
<1>8. \A i \in 1..N : ToSet(order[i]) \subseteq nodes
  <2>1. ASSUME NEW i \in 1..N PROVE ToSet(order[i]) \subseteq nodes
    <3>1. order[i] \in Seq(nodes)
      BY <1>2
    <3> QED BY <3>1 DEF ToSet
  <2> QED BY <2>1
<1> HIDE DEF adj, D, order, N
<1>9. ASSUME NEW i \in 1..N, NEW j \in 1..N, NEW a \in ToSet(order[i]), NEW b \in ToSet(order[j]), <<a, b>> \in D
      PROVE  j <= i
  <2> DEFINE Q == P(i)
  <2>1. \A x : x \in Q <=> \E k \in 1..i : x \in ToSet(order[k])
    OBVIOUS
  <2> HIDE DEF Q
  <2>2. \A k \in 1..i : k \in 1..N
    BY <1>2
  <2>3. Q \subseteq nodes
    BY <1>8, <2>1, <2>2
  <2>4. ASSUME NEW x \in Q, NEW y \in nodes, <<x, y>> \in edges PROVE y \in Q
    <3>1. CASE y = x
      BY <3>1
    <3>2. CASE y # x
      <4>1. PICK k \in 1..i : x \in ToSet(order[k])
        BY <2>1
      <4>2. y \in ToSet(adj[x])
        BY <1>6, <2>3, <2>4, <3>2
      <4>3. PICK l \in 1..k : y \in ToSet(order[l])
        BY <1>5, <2>2, <4>1, <4>2
      <4>4. l \in 1..i
        OBVIOUS
      <4> QED BY <2>1, <4>3, <4>4
    <3> QED BY <3>1, <3>2
  <2>5. a \in Q
    <3>1. i \in 1..i
      BY <1>2
    <3> QED BY <2>1, <3>1
  <2>6. b \in Q
    <3>1. <<a, b>>[1] = a /\ <<a, b>>[2] = b
      OBVIOUS
    <3>2. \A p \in D : p[1] \in Q => p[2] \in Q
      BY <1>7, <2>3, <2>4
    <3> QED BY <1>9, <2>5, <3>1, <3>2
  <2>7. PICK k \in 1..i : b \in ToSet(order[k])
    BY <2>1, <2>6
  <2>8. k = j
    BY <1>5, <2>2, <2>7
  <2> QED BY <1>2, <2>8
<1>10. ASSUME NEW i \in 1..N, NEW j \in 1..N, NEW a \in ToSet(order[i]), NEW b \in ToSet(order[j]), <<a, b>> \in D
       PROVE  j <= i /\ (j = i <=> <<b, a>> \in D)
  <2>1. j <= i
    BY <1>9, <1>10
  <2>2. j = i => <<b, a>> \in D
    BY <1>5
  <2>3. <<b, a>> \in D => i <= j
    BY <1>9
  <2> QED BY <1>2, <2>1, <2>2, <2>3
<1> QED BY <1>2, <1>4, <1>5, <1>10 DEF IsDependencyOrder, D, order

(* topoOrder keeps its promise for every graph. *)
LEMMA TopoOrderIsRight ==
  ASSUME NEW nodes \in SUBSET Nat, IsFiniteSet(nodes), NEW edges
  PROVE  IsDependencyOrder(topoOrder(nodes, edges), nodes, edges)
<1> DEFINE adj == Adjacency(nodes, edges)
           D == Depends(nodes, edges)
           f == CHOOSE g : Walks(nodes, adj, g)
           last == StepsOf(Cardinality(nodes))
<1>1. GoodGraph(nodes, adj, D)
  BY GraphIsGood
<1>2. Walks(nodes, adj, f)
  <2>1. \E g : Walks(nodes, adj, g)
    <3> HIDE DEF adj, D
    <3> QED BY <1>1, WalkExists
  <2> QED BY <2>1
<1>3. topoOrder(nodes, edges) = f[last].order
  BY DEF topoOrder, Walks, StepsOf
<1>4. TarjanInv(nodes, adj, D, f[last]) /\ Finished(f[last])
  <2> HIDE DEF f, adj, D
  <2> QED BY <1>1, <1>2, WholeWalkHolds
<1> HIDE DEF f, last
<1>5. IsDependencyOrder(f[last].order, nodes, edges)
  BY <1>4, FinishedOrder
<1> QED BY <1>3, <1>5

-----------------------------------------------------------------------------
(* The walk of a run. *)

(* Both orders name every table of their graph, and no other.              *)
OrdersCover ==
  /\ createOrder \in Seq(Seq(model.tables))
  /\ \A t \in model.tables : \E i \in DOMAIN createOrder : t \in ToSet(createOrder[i])
  /\ dropOrder \in Seq(Seq(Removed))
  /\ \A n \in Removed : \E g \in ToSet(dropOrder) : n \in ToSet(g)

LEMMA OrdersAreRightCover ==
  ASSUME OrdersAreRight, run.stage = "idle"
  PROVE  OrdersCover
<1> DEFINE order == topoOrder(Removed, dropEdges)
<1>1. /\ createOrder \in Seq(Seq(model.tables))
      /\ \A t \in model.tables : \E i \in DOMAIN createOrder : t \in ToSet(createOrder[i])
      /\ order \in Seq(Seq(Removed))
      /\ \A n \in Removed : \E i \in DOMAIN order : n \in ToSet(order[i])
  BY DEF OrdersAreRight, IsDependencyOrder
<1> HIDE DEF order
<1>2. Len(order) \in Nat /\ DOMAIN order = 1..Len(order)
      /\ \A i \in 1..Len(order) : order[i] \in Seq(Removed)
  BY <1>1
<1>3. dropOrder = [i \in 1..Len(order) |-> order[(Len(order) - i) + 1]]
  BY DEF dropOrder, order, Reverse
<1>4. dropOrder \in Seq(Seq(Removed)) /\ DOMAIN dropOrder = 1..Len(order)
  <2>1. \A i \in 1..Len(order) : order[(Len(order) - i) + 1] \in Seq(Removed)
    BY <1>2
  <2> QED BY <1>2, <1>3, <2>1
<1>5. ASSUME NEW n \in Removed PROVE \E g \in ToSet(dropOrder) : n \in ToSet(g)
  <2>1. PICK i \in 1..Len(order) : n \in ToSet(order[i])
    BY <1>1, <1>2
  <2>2. (Len(order) - i) + 1 \in 1..Len(order) /\ (Len(order) - ((Len(order) - i) + 1)) + 1 = i
    BY <1>2
  <2>3. dropOrder[(Len(order) - i) + 1] = order[i]
    BY <1>3, <2>2
  <2>4. order[i] \in ToSet(dropOrder)
    BY <1>4, <2>2, <2>3 DEF ToSet
  <2> QED BY <2>1, <2>4
<1> QED BY <1>1, <1>4, <1>5 DEF OrdersCover

LEMMA DropStepsFacts ==
  ASSUME OrdersCover, NEW groups
  PROVE  /\ DropSteps(groups) \in Seq(Drops)
         /\ \A g \in ToSet(dropOrder) : g \in groups => DropOf(g) \in ToSet(DropSteps(groups))
<1> DEFINE ss == [i \in DOMAIN dropOrder |->
                    IF dropOrder[i] \in groups
                    THEN <<[kind |-> "drop", group |-> ToSet(dropOrder[i])]>> ELSE <<>>]
<1>1. dropOrder \in Seq(Seq(Removed)) /\ DOMAIN dropOrder = 1..Len(dropOrder) /\ Len(dropOrder) \in Nat
  BY DEF OrdersCover
<1>2. ASSUME NEW i \in DOMAIN dropOrder PROVE ToSet(dropOrder[i]) \in SUBSET Removed
  <2>1. dropOrder[i] \in Seq(Removed)
    BY <1>1
  <2> QED BY <2>1 DEF ToSet
<1>3. \A i \in DOMAIN dropOrder : ss[i] \in Seq(Drops)
  <2> SUFFICES ASSUME NEW i \in DOMAIN dropOrder PROVE ss[i] \in Seq(Drops)
    OBVIOUS
  <2>1. DropOf(dropOrder[i]) \in Drops
    BY <1>2 DEF Drops, DropOf
  <2>2. <<DropOf(dropOrder[i])>> \in Seq(Drops) /\ <<>> \in Seq(Drops)
    <3> HIDE DEF ss
    <3> QED BY <2>1, OneFacts
  <2>3. ss[i] = IF dropOrder[i] \in groups THEN <<DropOf(dropOrder[i])>> ELSE <<>>
    BY DEF DropOf
  <2> HIDE DEF ss
  <2> QED BY <2>2, <2>3
<1>4. ss \in Seq(Seq(Drops)) /\ DOMAIN ss = DOMAIN dropOrder
  <2>1. ss = [i \in 1..Len(dropOrder) |-> ss[i]]
    BY <1>1
  <2> HIDE DEF ss
  <2> QED BY <1>1, <1>3, <2>1
<1>5. DropSteps(groups) = FlattenSeq(ss)
  BY DEF DropSteps
<1>6. ASSUME NEW g \in ToSet(dropOrder), g \in groups PROVE DropOf(g) \in ToSet(DropSteps(groups))
  <2>1. PICK i \in DOMAIN dropOrder : g = dropOrder[i]
    BY DEF ToSet
  <2>2. ss[i] = <<DropOf(g)>>
    BY <1>6, <2>1 DEF DropOf
  <2>3. DropOf(g) \in ToSet(ss[i])
    <3>1. ToSet(<<DropOf(g)>>) = {DropOf(g)}
      BY OneFacts
    <3> HIDE DEF ss
    <3> QED BY <2>2, <3>1
  <2> HIDE DEF ss
  <2> QED BY <1>4, <1>5, <2>1, <2>3, FlattenFacts
<1> HIDE DEF ss
<1> QED BY <1>4, <1>5, <1>6, FlattenFacts

LEMMA TableStepsFacts ==
  ASSUME OrdersCover, NEW group \in Seq(model.tables), NEW t \in model.tables
  PROVE  /\ TableSteps(t, group) \in Seq(Drops \cup Shapes)
         /\ HasTable(TableSteps(t, group), t)
         /\ \A g \in ToSet(dropOrder) : g \in earlyDrops[t] => DropOf(g) \in ToSet(TableSteps(t, group))
<1> DEFINE shape == [kind |-> "table", name |-> t, cycle |-> IF Len(group) > 1 THEN ToSet(group) ELSE {}]
           drops == DropSteps(earlyDrops[t])
<1>1. shape \in Shapes /\ shape.kind = "table" /\ shape.name = t
  BY DEF Shapes, ToSet
<1>2. <<shape>> \in Seq(Drops \cup Shapes) /\ ToSet(<<shape>>) = {shape}
  <2> HIDE DEF shape
  <2> QED BY <1>1, OneFacts
<1>3. drops \in Seq(Drops)
  BY DropStepsFacts
<1>4. drops \in Seq(Drops \cup Shapes)
  <2> HIDE DEF drops
  <2> QED BY <1>3, SeqMonotonic
<1>5. TableSteps(t, group) = drops \o <<shape>>
  BY DEF TableSteps
<1>6. TableSteps(t, group) \in Seq(Drops \cup Shapes)
      /\ ToSet(TableSteps(t, group)) = ToSet(drops) \cup {shape}
  <2> DEFINE one == <<shape>>
  <2> HIDE DEF drops, one
  <2>1. /\ drops \o one \in Seq(Drops \cup Shapes)
        /\ ToSet(drops \o one) = ToSet(drops) \cup ToSet(one)
    <3>1. one \in Seq(Drops \cup Shapes)
      BY <1>2 DEF one
    <3> HIDE DEF shape
    <3> QED BY <1>4, <3>1, ToSetConcat
  <2> HIDE DEF shape
  <2> QED BY <1>2, <1>5, <2>1 DEF one
<1>7. HasTable(TableSteps(t, group), t)
  <2> HIDE DEF drops, shape
  <2> QED BY <1>1, <1>6 DEF HasTable
<1>8. \A g \in ToSet(dropOrder) : g \in earlyDrops[t] => DropOf(g) \in ToSet(drops)
  BY DropStepsFacts
<1> QED BY <1>6, <1>7, <1>8

LEMMA GroupStepsFacts ==
  ASSUME OrdersCover, NEW group \in Seq(model.tables)
  PROVE  /\ GroupSteps(group) \in Seq(Drops \cup Shapes)
         /\ \A t \in ToSet(group) :
              /\ HasTable(GroupSteps(group), t)
              /\ \A g \in ToSet(dropOrder) : g \in earlyDrops[t] => DropOf(g) \in ToSet(GroupSteps(group))
<1> DEFINE ss == [i \in DOMAIN group |-> TableSteps(group[i], group)]
<1>1. \A i \in DOMAIN group : group[i] \in model.tables
  OBVIOUS
<1>2. \A i \in DOMAIN group : ss[i] \in Seq(Drops \cup Shapes)
  BY <1>1, TableStepsFacts
<1>3. ss \in Seq(Seq(Drops \cup Shapes)) /\ DOMAIN ss = DOMAIN group
  <2>1. ss = [i \in 1..Len(group) |-> ss[i]] /\ Len(group) \in Nat /\ DOMAIN group = 1..Len(group)
    OBVIOUS
  <2> HIDE DEF ss
  <2> QED BY <1>2, <2>1
<1>4. GroupSteps(group) = FlattenSeq(ss)
  BY DEF GroupSteps
<1>5. ASSUME NEW t \in ToSet(group)
      PROVE  /\ HasTable(GroupSteps(group), t)
             /\ \A g \in ToSet(dropOrder) : g \in earlyDrops[t] => DropOf(g) \in ToSet(GroupSteps(group))
  <2>1. PICK i \in DOMAIN group : t = group[i]
    BY DEF ToSet
  <2>2. ss[i] = TableSteps(t, group) /\ t \in model.tables
    BY <1>1, <2>1
  <2>3. ToSet(ss[i]) \subseteq ToSet(GroupSteps(group))
    <3> HIDE DEF ss
    <3> QED BY <1>3, <1>4, FlattenFacts
  <2> QED BY <2>2, <2>3, TableStepsFacts DEF HasTable
<1> HIDE DEF ss
<1> QED BY <1>3, <1>4, <1>5, FlattenFacts

(* The walk has a step for every table of the model and every removed one. *)
LEMMA WalkFacts ==
  ASSUME OrdersCover
  PROVE  /\ GoodWalk(orderedSteps)
         /\ \A t \in model.tables : HasTable(orderedSteps, t)
         /\ \A n \in Removed : HasDrop(orderedSteps, n)
<1> DEFINE ss == [i \in DOMAIN createOrder |-> GroupSteps(createOrder[i])]
           head == FlattenSeq(ss)
           mid == <<[kind |-> "deferred"]>>
           late == DropSteps(ToSet(dropOrder) \ movedGroups)
           All == Drops \cup Shapes \cup [kind : {"deferred"}]
<1>1. /\ createOrder \in Seq(Seq(model.tables)) /\ Len(createOrder) \in Nat
      /\ DOMAIN createOrder = 1..Len(createOrder)
      /\ \A i \in DOMAIN createOrder : createOrder[i] \in Seq(model.tables)
  BY DEF OrdersCover
<1>2. \A i \in DOMAIN createOrder : ss[i] \in Seq(Drops \cup Shapes)
  BY <1>1, GroupStepsFacts
<1>3. ss \in Seq(Seq(Drops \cup Shapes)) /\ DOMAIN ss = DOMAIN createOrder
  <2>1. ss = [i \in 1..Len(createOrder) |-> ss[i]]
    BY <1>1
  <2> HIDE DEF ss
  <2> QED BY <1>1, <1>2, <2>1
<1>4. head \in Seq(Drops \cup Shapes) /\ \A i \in DOMAIN createOrder : ToSet(ss[i]) \subseteq ToSet(head)
  <2> HIDE DEF ss
  <2> QED BY <1>3, FlattenFacts
<1>5. \A t \in model.tables :
        /\ HasTable(head, t)
        /\ \A g \in ToSet(dropOrder) : g \in earlyDrops[t] => DropOf(g) \in ToSet(head)
  <2> SUFFICES ASSUME NEW t \in model.tables
               PROVE  /\ HasTable(head, t)
                      /\ \A g \in ToSet(dropOrder) : g \in earlyDrops[t] => DropOf(g) \in ToSet(head)
    OBVIOUS
  <2>1. PICK i \in DOMAIN createOrder : t \in ToSet(createOrder[i])
    BY DEF OrdersCover
  <2>2. ss[i] = GroupSteps(createOrder[i]) /\ createOrder[i] \in Seq(model.tables)
    BY <1>1, <2>1
  <2> HIDE DEF head
  <2> QED BY <1>4, <2>1, <2>2, GroupStepsFacts DEF HasTable
<1>6. late \in Seq(Drops)
      /\ \A g \in ToSet(dropOrder) : g \notin movedGroups => DropOf(g) \in ToSet(late)
  BY DropStepsFacts
<1>7. mid \in Seq(All) /\ Len(mid) = 1 /\ mid[1].kind = "deferred"
  OBVIOUS
<1>8. orderedSteps = (head \o mid) \o late
  BY DEF orderedSteps
<1> HIDE DEF ss, head, mid, late
<1>9. head \in Seq(All) /\ late \in Seq(All)
  BY <1>4, <1>6, SeqMonotonic
<1>10. orderedSteps \in Seq(All) /\ ToSet(orderedSteps) = (ToSet(head) \cup ToSet(mid)) \cup ToSet(late)
  <2> HIDE DEF All
  <2>1. head \o mid \in Seq(All) /\ ToSet(head \o mid) = ToSet(head) \cup ToSet(mid)
    BY <1>7, <1>9, ToSetConcat
  <2> DEFINE front == head \o mid
  <2>2. front \o late \in Seq(All) /\ ToSet(front \o late) = ToSet(front) \cup ToSet(late)
    <3>1. front \in Seq(All) /\ late \in Seq(All)
      BY <1>9, <2>1
    <3> HIDE DEF front
    <3> QED BY ONLY <3>1, ToSetConcat
  <2> QED BY <1>8, <2>1, <2>2
<1>11. /\ Len(head) \in Nat /\ Len(late) \in Nat /\ Len(orderedSteps) = Len(head) + 1 + Len(late)
       /\ orderedSteps[Len(head) + 1].kind = "deferred"
       /\ \A i \in 1..Len(late) : orderedSteps[Len(head) + 1 + i] = late[i]
  <2>1. head \o mid \in Seq(All) /\ Len(head \o mid) = Len(head) + 1 /\ (head \o mid)[Len(head) + 1] = mid[1]
    <3> HIDE DEF All
    <3>0. Len(mid) = 1 /\ Len(head) \in Nat
      BY <1>7, <1>9
    <3>1. head \in Seq(All) /\ mid \in Seq(All)
      BY <1>7, <1>9
    <3>2. /\ head \o mid \in Seq(All) /\ Len(head \o mid) = Len(head) + Len(mid)
          /\ \A i \in 1..Len(mid) : (head \o mid)[Len(head) + i] = mid[i]
      BY ONLY <3>1, ConcatFacts
    <3>3. 1 \in 1..Len(mid)
      BY <3>0
    <3> QED BY ONLY <3>0, <3>2, <3>3
  <2> DEFINE front == head \o mid
  <2> HIDE DEF All
  <2>2. Len(head) \in Nat /\ Len(late) \in Nat
    BY <1>9
  <2>3. front \in Seq(All) /\ Len(front) = Len(head) + 1 /\ front[Len(head) + 1].kind = "deferred"
        /\ orderedSteps = front \o late
    BY <1>7, <1>8, <2>1
  <2> HIDE DEF front
  <2>4. /\ Len(orderedSteps) = Len(front) + Len(late)
        /\ \A i \in 1..Len(front) : orderedSteps[i] = front[i]
        /\ \A i \in 1..Len(late) : orderedSteps[Len(front) + i] = late[i]
    <3>1. late \in Seq(All) /\ front \in Seq(All)
      BY <1>9, <2>3
    <3>2. /\ Len(front \o late) = Len(front) + Len(late)
          /\ \A i \in 1..Len(front) : (front \o late)[i] = front[i]
          /\ \A i \in 1..Len(late) : (front \o late)[Len(front) + i] = late[i]
      BY ONLY <3>1, ConcatFacts
    <3> QED BY ONLY <2>3, <3>2
  <2>5. Len(head) + 1 \in 1..Len(front)
    BY <2>2, <2>3
  <2> QED BY <2>2, <2>3, <2>4, <2>5
<1>12. GoodWalk(orderedSteps)
  <2>1. ASSUME NEW i \in DOMAIN orderedSteps, orderedSteps[i].kind = "table"
        PROVE  \E j \in (i + 1)..Len(orderedSteps) : orderedSteps[j].kind = "deferred"
    <3>1. i \in 1..Len(orderedSteps)
      BY <1>10
    <3>2. i <= Len(head)
      <4>1. i # Len(head) + 1
        BY <1>11, <2>1
      <4>2. ~ i > Len(head) + 1
        <5> SUFFICES ASSUME i > Len(head) + 1 PROVE FALSE
          OBVIOUS
        <5>1. i - (Len(head) + 1) \in 1..Len(late) /\ Len(head) + 1 + (i - (Len(head) + 1)) = i
          BY <1>11, <3>1
        <5>2. orderedSteps[i] = late[i - (Len(head) + 1)]
          BY <1>11, <5>1
        <5>3. late[i - (Len(head) + 1)] \in Drops
          BY <1>6, <5>1
        <5> QED BY <2>1, <5>2, <5>3 DEF Drops
      <4> QED BY <1>11, <3>1, <4>1, <4>2
    <3>3. Len(head) + 1 \in (i + 1)..Len(orderedSteps)
      BY <1>11, <3>1, <3>2
    <3> QED BY <1>11, <3>3
  <2> QED BY <1>10, <2>1 DEF GoodWalk
<1>13. ASSUME NEW n \in Removed PROVE HasDrop(orderedSteps, n)
  <2>1. PICK g \in ToSet(dropOrder) : n \in ToSet(g)
    BY DEF OrdersCover
  <2>2. DropOf(g) \in ToSet(orderedSteps)
    <3>1. CASE g \in movedGroups
      <4>1. PICK t \in model.tables : g \in earlyDrops[t]
        BY <3>1 DEF movedGroups
      <4> QED BY <1>5, <1>10, <4>1
    <3>2. CASE g \notin movedGroups
      BY <1>6, <1>10, <3>2
    <3> QED BY <3>1, <3>2
  <2> QED BY <2>1, <2>2 DEF HasDrop, DropOf
<1> QED BY <1>5, <1>10, <1>12, <1>13 DEF HasTable

-----------------------------------------------------------------------------
(* The invariants hold. *)

LEMMA OrdersAreRightHolds ==
  ASSUME StoreHolds, ModelHolds
  PROVE  OrdersAreRight
<1>1. IsDependencyOrder(createOrder, model.tables, createEdges)
  BY TopoOrderIsRight DEF createOrder, ModelHolds
<1>2. Removed \subseteq model.before
  BY DEF Removed, StoreHolds
<1>3. Removed \in SUBSET Nat /\ IsFiniteSet(Removed)
  BY <1>2, FS_Subset DEF ModelHolds
<1>4. IsDependencyOrder(topoOrder(Removed, dropEdges), Removed, dropEdges)
  BY <1>3, TopoOrderIsRight
<1> QED BY <1>1, <1>4 DEF OrdersAreRight

(* What the model says does not change while the model does not. *)
LEMMA ModelStays ==
  ASSUME UNCHANGED model
  PROVE  (\A p : GoalKey(p)' = GoalKey(p)) /\ (\A t : Goal(t)' = Goal(t))
  BY DEF GoalKey, Goal

LEMMA GoalKeyFacts ==
  ASSUME NEW p
  PROVE  /\ GoalKey(p) \in {"old", "new"} /\ LiveKey(p) \in {"old", "new"}
         /\ p \in db.shaped => LiveKey(p) = GoalKey(p)
         /\ p \notin db.shaped => LiveKey(p) = "old"
         /\ GoalKey(p) = "new" => p \in model.tables /\ model.change[p] = "rekey"
         /\ p \in model.tables /\ model.change[p] = "rekey" => GoalKey(p) = "new"
  BY DEF GoalKey, LiveKey

LEMMA KeyShape ==
  ASSUME NEW r \in ForeignKeys
  PROVE  r[1] \in Names /\ r[2] \in Names /\ r[3] \in {"old", "new"} /\ r = <<r[1], r[2], r[3]>>
  BY DEF ForeignKeys

(* The declared constraints of a table: a parent it wants, on the key that *)
(* the parent has in the model.                                            *)
LEMMA GoalFacts ==
  ASSUME DdlTypeOK, NEW t \in model.tables
  PROVE  /\ Goal(t) \subseteq ForeignKeys
         /\ \A r \in Goal(t) : r[1] = t /\ <<t, r[2]>> \in model.wants /\ r[3] = GoalKey(r[2])
         /\ \A r \in ForeignKeys : r[1] = t /\ <<t, r[2]>> \in model.wants /\ r[3] = GoalKey(r[2]) => r \in Goal(t)
<1>1. model.tables \subseteq Names /\ model.wants \subseteq model.tables \X Names
  BY DEF DdlTypeOK
<1>2. ASSUME NEW r \in Goal(t)
      PROVE  r \in ForeignKeys /\ r[1] = t /\ <<t, r[2]>> \in model.wants /\ r[3] = GoalKey(r[2])
  <2>1. PICK w \in model.wants : w[1] = t /\ r = <<t, w[2], GoalKey(w[2])>>
    BY DEF Goal
  <2>2. w[2] \in Names /\ w = <<t, w[2]>> /\ t \in Names
    BY <1>1, <2>1
  <2> QED BY <2>1, <2>2, GoalKeyFacts DEF ForeignKeys
<1>3. ASSUME NEW r \in ForeignKeys, r[1] = t, <<t, r[2]>> \in model.wants, r[3] = GoalKey(r[2])
      PROVE  r \in Goal(t)
  <2>1. r = <<t, r[2], GoalKey(r[2])>>
    BY <1>3, KeyShape
  <2>2. <<t, r[2]>>[1] = t /\ <<t, r[2]>>[2] = r[2]
    OBVIOUS
  <2> QED BY <1>3, <2>1, <2>2 DEF Goal
<1> QED BY <1>2, <1>3

(* The walk after its first step.                                          *)
LEMMA TailFacts ==
  ASSUME NEW w, GoodWalk(w), w # <<>>
  PROVE  /\ Head(w) \in Drops \cup Shapes \cup [kind : {"deferred"}]
         /\ GoodWalk(Tail(w))
         /\ \A t : HasTable(w, t) => HasTable(Tail(w), t) \/ (Head(w).kind = "table" /\ Head(w).name = t)
         /\ \A n : HasDrop(w, n) => HasDrop(Tail(w), n) \/ (Head(w).kind = "drop" /\ n \in Head(w).group)
         /\ Head(w).kind = "table" => \E i \in DOMAIN Tail(w) : Tail(w)[i].kind = "deferred"
         /\ Head(w).kind # "deferred" /\ (\E i \in DOMAIN w : w[i].kind = "deferred")
              => \E i \in DOMAIN Tail(w) : Tail(w)[i].kind = "deferred"
<1> DEFINE All == Drops \cup Shapes \cup [kind : {"deferred"}]
           rest == Tail(w)
<1>1. w \in Seq(All)
  BY DEF GoodWalk
<1>2. /\ Head(w) = w[1] /\ Head(w) \in All /\ rest \in Seq(All) /\ Len(w) \in Nat \ {0}
      /\ Len(rest) = Len(w) - 1 /\ \A i \in 1..Len(rest) : rest[i] = w[i + 1]
      /\ DOMAIN w = 1..Len(w) /\ DOMAIN rest = 1..Len(rest)
  <2> HIDE DEF All
  <2> QED BY <1>1
<1> HIDE DEF rest
<1>3. \A i \in 2..Len(w) : i - 1 \in 1..Len(rest) /\ rest[i - 1] = w[i]
  BY <1>2
<1>4. ASSUME NEW x \in ToSet(w) PROVE x = Head(w) \/ x \in ToSet(rest)
  <2>1. PICK i \in 1..Len(w) : x = w[i]
    BY <1>2 DEF ToSet
  <2>2. CASE i = 1
    BY <1>2, <2>1, <2>2
  <2>3. CASE i # 1
    <3>1. i \in 2..Len(w)
      BY <1>2, <2>3
    <3> QED BY <1>2, <1>3, <2>1, <3>1 DEF ToSet
  <2> QED BY <2>2, <2>3
<1>5. ASSUME NEW i \in DOMAIN w, w[i].kind = "deferred", Head(w).kind # "deferred"
      PROVE  \E j \in DOMAIN rest : rest[j].kind = "deferred"
  <2>1. i \in 2..Len(w)
    BY <1>2, <1>5
  <2> QED BY <1>2, <1>3, <1>5, <2>1
<1>6. ASSUME Head(w).kind = "table" PROVE \E j \in DOMAIN rest : rest[j].kind = "deferred"
  <2>1. 1 \in DOMAIN w /\ w[1].kind = "table"
    BY <1>2, <1>6
  <2>2. PICK j \in 2..Len(w) : w[j].kind = "deferred"
    BY <2>1 DEF GoodWalk
  <2> QED BY <1>2, <1>3, <2>2
<1>7. ASSUME NEW i \in DOMAIN rest, rest[i].kind = "table"
      PROVE  \E j \in (i + 1)..Len(rest) : rest[j].kind = "deferred"
  <2>1. i + 1 \in DOMAIN w /\ w[i + 1].kind = "table"
    BY <1>2, <1>7
  <2>2. PICK j \in (i + 2)..Len(w) : w[j].kind = "deferred"
    BY <1>2, <2>1 DEF GoodWalk
  <2>3. j \in 2..Len(w) /\ j - 1 \in (i + 1)..Len(rest)
    BY <1>2, <2>2
  <2> QED BY <1>3, <2>2, <2>3
<1>8. GoodWalk(rest)
  BY <1>2, <1>7 DEF GoodWalk
<1> QED BY <1>2, <1>4, <1>5, <1>6, <1>8 DEF HasTable, HasDrop, rest

-----------------------------------------------------------------------------
(* What the steps have in common.                                          *)

Active == run.stage \in {"walk", "shape", "create", "constraints"}
RunType ==
  [stage : {"idle", "predrop", "walk", "shape", "create", "constraints", "track", "hash"},
   walk : Seq(WalkSteps), predrop : SUBSET ForeignKeys, deferred : Seq(Names),
   errors : SUBSET Names, dropped : SUBSET Names, blocking : SUBSET ForeignKeys,
   clean : BOOLEAN, outcome : {"none", "refused", "synced", "failed", "threw"}]
DbType == [tables : SUBSET Names, refs : SUBSET ForeignKeys, shaped : SUBSET Names]

(* A table is only ever added in its new shape, and keeps it. *)
ShapesStay == db'.tables \ db.tables \subseteq db'.shaped /\ db.shaped \subseteq db'.shaped

LEMMA DropsTableStays ==
  ASSUME UNCHANGED model, ShapesStay
  PROVE  \A t : (DropsTable(t)' => DropsTable(t)) /\ (Rekeys(t)' => Rekeys(t))
  BY DEF ShapesStay, DropsTable, Rekeys

LEMMA EngineStays ==
  ASSUME EngineHolds, UNCHANGED model,
         \A r \in db'.refs :
           /\ r \in db.refs \/ (r[2] \in db.tables /\ r[3] = LiveKey(r[2]))
           /\ r[2] \in db.tables => r[2] \in db'.tables
           /\ r[2] \in db'.shaped <=> r[2] \in db.shaped
  PROVE  EngineHolds'
<1>1. ASSUME NEW r \in db'.refs PROVE r[2] \in db'.tables /\ r[3] = LiveKey(r[2])'
  <2>1. r[2] \in db.tables /\ r[3] = LiveKey(r[2])
    BY DEF EngineHolds
  <2>2. LiveKey(r[2])' = LiveKey(r[2])
    BY ModelStays DEF LiveKey
  <2> QED BY <2>1, <2>2
<1> QED BY <1>1 DEF EngineHolds

(* The steps of the walk leave the control table alone, and add no         *)
(* constraint on a key that is to be rebuilt.                              *)
LEMMA StoreStays ==
  ASSUME StoreHolds, run.stage # "idle", UNCHANGED <<model, store>>,
         db'.tables \ db.tables \subseteq model.tables
  PROVE  StoreHolds'
<1>1. ~store.settled
  BY DEF StoreHolds
<1>2. \A s \in store.snaps : s[3] \in {"old", GoalKey(s[2])'}
  BY ModelStays DEF StoreHolds
<1> QED BY <1>1, <1>2 DEF StoreHolds

LEMMA KeysStay ==
  ASSUME DdlTypeOK, KeysToRebuild = {}, UNCHANGED model, ShapesStay,
         \A r \in db'.refs \ db.refs : r[1] \in model.tables => r \in Goal(r[1]) /\ r[3] = LiveKey(r[2])
  PROVE  KeysToRebuild' = {}
<1> SUFFICES ASSUME NEW r \in db'.refs, r[1] \in model.tables, r[2] \in model.tables, Rekeys(r[2])'
             PROVE  FALSE
  BY DEF KeysToRebuild
<1>1. Rekeys(r[2])
  BY DropsTableStays
<1>2. r \notin db.refs
  BY <1>1 DEF KeysToRebuild
<1>3. r[3] = GoalKey(r[2]) /\ r[3] = LiveKey(r[2])
  BY <1>2, GoalFacts
<1>4. r[2] \notin db.shaped /\ model.change[r[2]] = "rekey"
  BY <1>1 DEF Rekeys, DropsTable
<1> QED BY <1>3, <1>4, GoalKeyFacts

LEMMA IsTheModelsStays ==
  ASSUME UNCHANGED model, ShapesStay, NEW t, IsTheModels(t), t \in db'.tables,
         \A r : r[1] = t => (r \in db.refs <=> r \in db'.refs)
  PROVE  IsTheModels(t)'
<1>1. ~DropsTable(t)'
  BY DropsTableStays DEF IsTheModels
<1>2. Outbound(t)' = Outbound(t)
  BY DEF Outbound
<1> QED BY <1>1, <1>2, ModelStays DEF IsTheModels

LEMMA IdleRunFacts == IdleRun \in RunType /\ IdleRun.stage = "idle"
  BY DEF IdleRun, RunType

(* The end of a run. *)
LEMMA EndsFacts ==
  ASSUME DdlTypeOK, WalkHolds, run.stage # "idle",
         NEW outcome \in {"none", "refused", "synced", "failed", "threw"}, Ends(outcome)
  PROVE  run' \in RunType /\ run'.stage = "idle" /\ runs' \in 0..MaxRuns
<1>1. run \in RunType /\ runs \in 0..MaxRuns /\ MaxRuns \in Nat
  BY RunsAssumption DEF DdlTypeOK, RunType
<1>3. run' \in RunType /\ run'.stage = "idle"
  BY <1>1, IdleRunFacts DEF Ends, RunType, IdleRun
<1>4. runs < MaxRuns /\ runs' = runs + 1
  BY DEF WalkHolds, Ends
<1> QED BY <1>1, <1>3, <1>4

LEMMA IdleHolds ==
  ASSUME run'.stage = "idle"
  PROVE  PredropHolds' /\ StepHolds' /\ WalkHolds'
  BY DEF PredropHolds, StepHolds, WalkHolds, Walking

(* The parts of the type that the steps of a run leave alone. *)
LEMMA TypeStays ==
  ASSUME DdlTypeOK, UNCHANGED model, db' \in DbType, run' \in RunType, runs' \in 0..MaxRuns,
         mishaps' \in Nat,
         store' \in [tracked : SUBSET Names, settled : BOOLEAN, snaps : SUBSET ForeignKeys]
  PROVE  DdlTypeOK'
  BY DEF DdlTypeOK, DbType, RunType

LEMMA TypeParts ==
  ASSUME DdlTypeOK
  PROVE  /\ db \in DbType /\ run \in RunType /\ runs \in 0..MaxRuns /\ mishaps \in Nat
         /\ store \in [tracked : SUBSET Names, settled : BOOLEAN, snaps : SUBSET ForeignKeys]
         /\ model.tables \subseteq Names /\ model.wants \subseteq model.tables \X Names
         /\ model.change \in [model.tables -> Changes] /\ model.before \subseteq Names
  BY DEF DdlTypeOK, DbType, RunType

LEMMA MishapFacts ==
  ASSUME DdlTypeOK, Mishap \/ NoMishap
  PROVE  mishaps' \in Nat
  BY DEF DdlTypeOK, Mishap, NoMishap

LEMMA RunDiesHolds ==
  ASSUME DdlIInv, RunDies
  PROVE  DdlIInv'
<1>1. run.stage # "idle" /\ Mishap /\ Ends("threw") /\ UNCHANGED <<model, db, store>>
  BY DEF RunDies
<1>2. run' \in RunType /\ run'.stage = "idle" /\ runs' \in 0..MaxRuns
  BY <1>1, EndsFacts DEF DdlIInv
<1>3. DdlTypeOK'
  BY <1>1, <1>2, TypeParts, TypeStays, MishapFacts DEF DdlIInv
<1>4. EngineHolds'
  BY <1>1, EngineStays DEF DdlIInv
<1>5. StoreHolds'
  BY <1>1, StoreStays DEF DdlIInv
<1> QED BY <1>2, <1>3, <1>4, <1>5, IdleHolds DEF DdlIInv

LEMMA DropInboundKeysHolds ==
  ASSUME DdlIInv, DropInboundKeys
  PROVE  DdlIInv'
<1>1. run.stage = "predrop" /\ UNCHANGED <<model, store>>
  BY DEF DropInboundKeys
<1>2. PICK gone \in SUBSET run.predrop :
        /\ db' = [db EXCEPT !.refs = @ \ gone]
        /\ \/ gone = run.predrop /\ run' = [run EXCEPT !.stage = "walk"] /\ NoMishap /\ UNCHANGED runs
           \/ Mishap /\ Ends("threw")
  BY DEF DropInboundKeys
<1>3. db' \in DbType /\ db'.tables = db.tables /\ db'.shaped = db.shaped /\ db'.refs = db.refs \ gone
  BY <1>2, TypeParts DEF DdlIInv, DbType
<1>4. EngineHolds'
  BY <1>1, <1>3, EngineStays DEF DdlIInv
<1>5. StoreHolds'
  BY <1>1, <1>3, StoreStays DEF DdlIInv
<1>6. CASE Mishap /\ Ends("threw")
  <2>1. run' \in RunType /\ run'.stage = "idle" /\ runs' \in 0..MaxRuns
    BY <1>1, <1>6, EndsFacts DEF DdlIInv
  <2>2. DdlTypeOK'
    BY <1>1, <1>3, <1>6, <2>1, TypeParts, TypeStays, MishapFacts DEF DdlIInv
  <2> QED BY <1>4, <1>5, <2>1, <2>2, IdleHolds DEF DdlIInv
<1>7. CASE gone = run.predrop /\ run' = [run EXCEPT !.stage = "walk"] /\ NoMishap /\ UNCHANGED runs
  <2>1. /\ run' \in RunType /\ run'.stage = "walk" /\ run'.walk = run.walk /\ run'.errors = run.errors
        /\ run'.deferred = run.deferred
    BY <1>7, TypeParts DEF DdlIInv, RunType
  <2>2. DdlTypeOK'
    BY <1>1, <1>3, <1>7, <2>1, TypeParts, TypeStays, MishapFacts DEF DdlIInv
  <2>3. KeysToRebuild' = {}
    <3>1. ShapesStay
      BY <1>3 DEF ShapesStay
    <3>2. ASSUME NEW r \in db'.refs, r[1] \in model.tables, r[2] \in model.tables, Rekeys(r[2])'
          PROVE  FALSE
      <4>1. r \in KeysToRebuild
        BY <1>1, <1>3, <3>1, <3>2, DropsTableStays DEF KeysToRebuild
      <4> QED BY <1>1, <1>3, <1>7, <4>1 DEF DdlIInv, PredropHolds
    <3> QED BY <1>1, <3>2 DEF KeysToRebuild
  <2>4. PredropHolds' /\ StepHolds'
    BY <2>1, <2>3 DEF PredropHolds, StepHolds
  <2>5. Removed' = Removed
    BY <1>1 DEF Removed
  <2>6. GoodWalk(run.walk)'
    BY <1>1, <2>1, <2>5 DEF DdlIInv, WalkHolds, Walking, GoodWalk, Drops, Shapes
  <2>7. DeferredHolds'
    BY <1>1, <1>3, <2>1 DEF DdlIInv, WalkHolds, Walking, DeferredHolds, DropsTable
  <2>8. TablesHold' /\ RemovedHold'
    BY <1>1, <1>3, <2>1, <2>5
    DEF DdlIInv, WalkHolds, Walking, PredropHolds, TablesHold, RemovedHold, HasTable, HasDrop
  <2>9. WalkHolds'
    BY <1>1, <1>7, <2>1, <2>6, <2>7, <2>8 DEF DdlIInv, WalkHolds
  <2> QED BY <1>4, <1>5, <2>2, <2>4, <2>9 DEF DdlIInv
<1> QED BY <1>2, <1>6, <1>7

LEMMA ModelInitHolds ==
  ASSUME DdlInit
  PROVE  ModelHolds
<1>1. PICK f \in Families : \E role \in [f.names -> f.roles] : Starts(f, role)
  BY DEF DdlInit
<1>2. PICK role \in [f.names -> f.roles] : Starts(f, role)
  BY <1>1
<1>3. model.tables \subseteq f.names /\ model.before \subseteq f.names
  BY <1>2 DEF Starts
<1>4. f.names \subseteq Nat /\ IsFiniteSet(f.names)
  BY FamiliesAssumption
<1> QED BY <1>3, <1>4, FS_Subset DEF ModelHolds

LEMMA DdlInitHolds ==
  ASSUME DdlInit
  PROVE  DdlIInv
<1>0. PICK f \in Families : \E role \in [f.names -> f.roles] : Starts(f, role) /\ mishaps = f.mishaps
  BY DEF DdlInit
<1>1. PICK role \in [f.names -> f.roles] : Starts(f, role) /\ mishaps = f.mishaps
  BY <1>0
<1>2. run = IdleRun /\ runs = 0
  BY DEF DdlInit
<1>3. f.names \subseteq Names /\ f.changes \subseteq Changes /\ f.mishaps \in Nat
  BY FamiliesAssumption DEF Names
<1> DEFINE Are(kinds) == {n \in f.names : role[n] \in kinds}
           Pairs(S, T) == {p \in S \X T : p[1] # p[2]}
           known == Are({"kept", "removed", "other"})
<1>4. PICK wants \in SUBSET Pairs(Are({"new", "kept"}), f.names),
           refs \in SUBSET Pairs(known, known),
           changed \in {<<0, "none">>} \cup (Are({"kept"}) \X f.changes) :
        /\ model = [tables |-> Are({"new", "kept"}), wants |-> wants, before |-> Are({"kept", "removed"}),
                    change |-> [t \in Are({"new", "kept"}) |-> IF t = changed[1] THEN changed[2] ELSE "none"]]
        /\ db = [tables |-> known, refs |-> {<<p[1], p[2], "old">> : p \in refs}, shaped |-> {}]
        /\ store = [tracked |-> model.before, settled |-> FALSE,
                    snaps |-> {r \in db.refs : r[1] \in model.before}]
  BY <1>1 DEF Starts
<1>5. Are({"new", "kept"}) \subseteq Names /\ Are({"kept", "removed"}) \subseteq Names /\ known \subseteq Names
  BY <1>3
<1>6. \A p \in refs : p[1] \in known /\ p[2] \in known /\ <<p[1], p[2], "old">> \in ForeignKeys
  BY <1>5 DEF ForeignKeys
<1>7. changed[2] \in Changes
  BY <1>3 DEF Changes
<1>8. model.tables \subseteq Names /\ model.wants \subseteq model.tables \X Names /\ model.before \subseteq Names
  BY <1>3, <1>4, <1>5
<1>9. model.change \in [model.tables -> Changes]
  BY <1>4, <1>7 DEF Changes
<1>10. /\ db.tables = known /\ db.shaped = {} /\ db.refs \subseteq ForeignKeys /\ db \in DbType
       /\ \A r \in db.refs : r[2] \in known /\ r[3] = "old"
  <2> HIDE DEF known
  <2> QED BY <1>4, <1>5, <1>6 DEF DbType
<1>11. /\ store.tracked = model.before /\ store.settled = FALSE /\ store.snaps \subseteq db.refs
       /\ store \in [tracked : SUBSET Names, settled : BOOLEAN, snaps : SUBSET ForeignKeys]
  BY <1>4, <1>8, <1>10
<1> HIDE DEF known
<1>12. run \in RunType /\ run.stage = "idle" /\ runs \in 0..MaxRuns
  BY <1>2, RunsAssumption DEF IdleRun, RunType
<1>13. DdlTypeOK
  BY <1>1, <1>3, <1>8, <1>9, <1>10, <1>11, <1>12 DEF DdlTypeOK, DbType, RunType
<1>14. EngineHolds
  BY <1>10, GoalKeyFacts DEF EngineHolds
<1>15. StoreHolds
  BY <1>10, <1>11, <1>12 DEF StoreHolds
<1>16. PredropHolds /\ StepHolds /\ WalkHolds
  BY <1>12 DEF PredropHolds, StepHolds, WalkHolds, Walking
<1> QED BY <1>13, <1>14, <1>15, <1>16 DEF DdlIInv

LEMMA StartRunHolds ==
  ASSUME DdlIInv, ModelHolds, StartRun
  PROVE  DdlIInv'
<1>1. run.stage = "idle" /\ runs < MaxRuns /\ ~store.settled /\ UNCHANGED <<model, db, store, mishaps>>
  BY DEF StartRun
<1>2. EngineHolds'
  BY <1>1, EngineStays DEF DdlIInv
<1>3. StoreHolds'
  <2>1. \A s \in store.snaps : s[3] \in {"old", GoalKey(s[2])'}
    BY <1>1, ModelStays DEF DdlIInv, StoreHolds
  <2> QED BY <1>1, <2>1 DEF DdlIInv, StoreHolds
<1>4. CASE refused
  <2>1. run' = [IdleRun EXCEPT !.outcome = "refused"] /\ runs' = runs + 1
    BY <1>4 DEF StartRun
  <2>2. run' \in RunType /\ run'.stage = "idle"
    BY <2>1, IdleRunFacts DEF RunType
  <2>3. runs' \in 0..MaxRuns
    BY <1>1, <2>1, TypeParts, RunsAssumption DEF DdlIInv
  <2>4. DdlTypeOK'
    BY <1>1, <2>2, <2>3, TypeParts, TypeStays DEF DdlIInv
  <2> QED BY <1>2, <1>3, <2>2, <2>4, IdleHolds DEF DdlIInv
<1>5. CASE ~refused
  <2>1. /\ run' = [IdleRun EXCEPT !.stage = IF toPredrop = {} THEN "walk" ELSE "predrop",
                                  !.walk = orderedSteps, !.predrop = toPredrop,
                                  !.blocking = standingInTheWay]
        /\ UNCHANGED runs
    BY <1>5 DEF StartRun
  <2>2. OrdersCover
    BY <1>1, OrdersAreRightHolds, OrdersAreRightCover DEF DdlIInv
  <2>3. /\ GoodWalk(orderedSteps)
        /\ \A t \in model.tables : HasTable(orderedSteps, t)
        /\ \A n \in Removed : HasDrop(orderedSteps, n)
    BY <2>2, WalkFacts
  <2>4. orderedSteps \in Seq(WalkSteps)
    <3>1. Removed \subseteq Names /\ model.tables \subseteq Names
      BY TypeParts DEF DdlIInv, Removed
    <3>2. Drops \cup Shapes \cup [kind : {"deferred"}] \subseteq WalkSteps
      BY <3>1 DEF Drops, Shapes, WalkSteps
    <3>3. orderedSteps \in Seq(Drops \cup Shapes \cup [kind : {"deferred"}])
      BY <2>3 DEF GoodWalk
    <3> QED BY <3>2, <3>3, SeqMonotonic
  <2>5. toPredrop \subseteq ForeignKeys /\ standingInTheWay \subseteq ForeignKeys
    BY TypeParts DEF DdlIInv, DbType, toPredrop, standingInTheWay
  <2>6. /\ run'.stage = (IF toPredrop = {} THEN "walk" ELSE "predrop") /\ run'.walk = orderedSteps
        /\ run'.predrop = toPredrop /\ run'.deferred = <<>> /\ run'.errors = {}
    BY <2>1 DEF IdleRun
  <2>7. run' \in RunType
    <3> DEFINE stage == IF toPredrop = {} THEN "walk" ELSE "predrop"
    <3>1. stage \in {"walk", "predrop"}
      OBVIOUS
    <3> HIDE DEF stage
    <3>2. run' = [IdleRun EXCEPT !.stage = stage, !.walk = orderedSteps, !.predrop = toPredrop,
                                 !.blocking = standingInTheWay]
      BY <2>1 DEF stage
    <3> QED BY <2>4, <2>5, <3>1, <3>2, IdleRunFacts DEF RunType
  <2>8. DdlTypeOK'
    BY <1>1, <2>1, <2>7, TypeParts, TypeStays DEF DdlIInv
  <2>9. Removed' = Removed
    BY <1>1 DEF Removed
  <2>10. GoodWalk(run.walk)'
    BY <1>1, <2>3, <2>6, <2>9 DEF GoodWalk, Drops, Shapes
  <2>11. /\ \A t \in model.tables : HasTable(run.walk, t)'
         /\ \A n \in Removed : HasDrop(run.walk, n)'
    BY <2>3, <2>6 DEF HasTable, HasDrop
  <2>12. KeysToRebuild' = KeysToRebuild /\ KeysToRebuild \subseteq toPredrop
    BY <1>1 DEF KeysToRebuild, toPredrop, Rekeys, DropsTable
  <2>13. \A r \in toPredrop : r[1] \in model.tables /\ r[2] \in model.tables /\ model.change[r[2]] # "none"
    BY DEF toPredrop, DropsTable
  <2>14. PredropHolds' /\ StepHolds'
    BY <1>1, <2>6, <2>11, <2>12, <2>13 DEF PredropHolds, StepHolds
  <2>15. DeferredHolds'
    BY <2>6 DEF DeferredHolds, ToSet
  <2>16. WalkHolds'
    BY <1>1, <2>1, <2>6, <2>9, <2>10, <2>11, <2>15 DEF WalkHolds, TablesHold, RemovedHold
  <2> QED BY <1>2, <1>3, <2>8, <2>14, <2>16 DEF DdlIInv
<1> QED BY <1>4, <1>5

LEMMA StoreSnapshotsHolds ==
  ASSUME DdlIInv, StoreSnapshots
  PROVE  DdlIInv'
<1> DEFINE ok == model.tables \ run.errors
           Of(written) == {s \in store.snaps : s[1] \notin written} \cup UNION {Goal(t) : t \in written}
<1>1. run.stage = "walk" /\ run.walk = <<>> /\ UNCHANGED <<model, db>>
  BY DEF StoreSnapshots
<1>2. PICK snaps : /\ \E written \in SUBSET ok : snaps \subseteq Of(written)
                   /\ store' = [store EXCEPT !.snaps = snaps]
                   /\ \/ run' = [run EXCEPT !.stage = "track"] /\ NoMishap /\ UNCHANGED runs
                      \/ Mishap /\ Ends("threw")
  <2> HIDE DEF Of
  <2>1. CASE \E written \in SUBSET ok : store' = [store EXCEPT !.snaps = Of(written)] /\ Mishap /\ Ends("threw")
    BY <2>1
  <2>2. CASE /\ store' = [store EXCEPT !.snaps = {s \in Of(ok) : s[1] \notin run.dropped}]
             /\ run' = [run EXCEPT !.stage = "track"] /\ NoMishap /\ UNCHANGED runs
    BY <2>2
  <2> QED BY <2>1, <2>2 DEF StoreSnapshots, Of
<1>3. \A s \in snaps : s \in ForeignKeys /\ s[3] \in {"old", GoalKey(s[2])}
  <2>1. PICK written \in SUBSET ok : snaps \subseteq Of(written)
    BY <1>2
  <2>2. ASSUME NEW s \in snaps PROVE s \in ForeignKeys /\ s[3] \in {"old", GoalKey(s[2])}
    <3>1. CASE s \in store.snaps
      BY <3>1, TypeParts DEF DdlIInv, StoreHolds
    <3>2. CASE \E t \in model.tables : s \in Goal(t)
      BY <3>2, GoalFacts DEF DdlIInv
    <3> QED BY <2>1, <3>1, <3>2
  <2> QED BY <2>2
<1>4. /\ store' \in [tracked : SUBSET Names, settled : BOOLEAN, snaps : SUBSET ForeignKeys]
      /\ store'.snaps = snaps /\ store'.tracked = store.tracked /\ store'.settled = store.settled
  BY <1>2, <1>3, TypeParts DEF DdlIInv
<1>5. EngineHolds'
  BY <1>1, EngineStays DEF DdlIInv
<1>6. ~store.settled
  BY <1>1 DEF DdlIInv, StoreHolds
<1>7. StoreHolds'
  <2>1. \A s \in snaps : s[3] \in {"old", GoalKey(s[2])'}
    BY <1>1, <1>3, ModelStays
  <2> QED BY <1>1, <1>4, <1>6, <2>1 DEF DdlIInv, StoreHolds
<1>8. CASE Mishap /\ Ends("threw")
  <2>1. run' \in RunType /\ run'.stage = "idle" /\ runs' \in 0..MaxRuns
    BY <1>1, <1>8, EndsFacts DEF DdlIInv
  <2>2. DdlTypeOK'
    BY <1>1, <1>4, <1>8, <2>1, TypeParts, TypeStays, MishapFacts DEF DdlIInv
  <2> QED BY <1>5, <1>7, <2>1, <2>2, IdleHolds DEF DdlIInv
<1>9. CASE run' = [run EXCEPT !.stage = "track"] /\ NoMishap /\ UNCHANGED runs
  <2>1. run' \in RunType /\ run'.stage = "track" /\ run'.errors = run.errors
    BY <1>9, TypeParts DEF DdlIInv, RunType
  <2>2. DdlTypeOK'
    BY <1>1, <1>4, <1>9, <2>1, TypeParts, TypeStays, MishapFacts DEF DdlIInv
  <2>3. DeferredHolds /\ TablesHold /\ RemovedHold
    BY <1>1 DEF DdlIInv, WalkHolds, Walking
  <2>4. ToSet(run.deferred) = {} /\ ToSet(run.walk) = {}
    BY <1>1, <2>3 DEF DeferredHolds, ToSet
  <2>5. \A t \in model.tables : t \in run.errors \/ IsTheModels(t)
    BY <2>3, <2>4 DEF TablesHold, HasTable
  <2>6. \A n \in model.before \ model.tables : n \in run.errors \/ n \notin db.tables
    BY <2>3, <2>4 DEF RemovedHold, HasDrop, Removed, DdlIInv, StoreHolds
  <2>7. \A t \in model.tables : IsTheModels(t) => IsTheModels(t)'
    BY <1>1, ModelStays DEF IsTheModels, DropsTable, Outbound
  <2>8. WalkHolds'
    BY <1>1, <1>9, <2>1, <2>5, <2>6, <2>7 DEF WalkHolds, Walking, DdlIInv
  <2>9. PredropHolds' /\ StepHolds'
    BY <1>1, <2>1 DEF DdlIInv, PredropHolds, StepHolds, KeysToRebuild, Rekeys, DropsTable
  <2> QED BY <1>5, <1>7, <2>2, <2>8, <2>9 DEF DdlIInv
<1> QED BY <1>2, <1>8, <1>9

LEMMA StoreTrackedHolds ==
  ASSUME DdlIInv, StoreTracked
  PROVE  DdlIInv'
<1>1. /\ run.stage = "track" /\ run' = [run EXCEPT !.stage = "hash"] /\ UNCHANGED <<model, db, runs, mishaps>>
      /\ store' = [store EXCEPT !.tracked = model.tables \cup (run.errors \cap Removed)]
  BY DEF StoreTracked
<1>2. run' \in RunType /\ run'.stage = "hash" /\ run'.errors = run.errors
  BY <1>1, TypeParts DEF DdlIInv, RunType
<1>3. Removed \subseteq Names /\ Removed \subseteq model.before
  BY TypeParts DEF DdlIInv, Removed, StoreHolds
<1>4. /\ store' \in [tracked : SUBSET Names, settled : BOOLEAN, snaps : SUBSET ForeignKeys]
      /\ store'.snaps = store.snaps /\ store'.tracked = model.tables \cup (run.errors \cap Removed)
      /\ store'.settled = store.settled
  BY <1>1, <1>3, TypeParts DEF DdlIInv
<1>5. DdlTypeOK'
  BY <1>1, <1>2, <1>4, TypeParts, TypeStays DEF DdlIInv
<1>6. EngineHolds'
  BY <1>1, EngineStays DEF DdlIInv
<1>7. /\ \A t \in model.tables : t \in run.errors \/ IsTheModels(t)
      /\ \A n \in model.before \ model.tables : n \in run.errors \/ n \notin db.tables
      /\ runs < MaxRuns /\ ~store.settled
  BY <1>1 DEF DdlIInv, WalkHolds, StoreHolds
<1>8. StoreHolds'
  <2>1. \A s \in store.snaps : s[3] \in {"old", GoalKey(s[2])'}
    BY <1>1, ModelStays DEF DdlIInv, StoreHolds
  <2>2. (model.before \ model.tables) \cap db.tables \subseteq run.errors \cap Removed
    BY <1>7 DEF DdlIInv, StoreHolds, Removed
  <2> QED BY <1>1, <1>3, <1>4, <1>7, <2>1, <2>2 DEF StoreHolds
<1>9. \A t \in model.tables : IsTheModels(t) => IsTheModels(t)'
  BY <1>1, ModelStays DEF IsTheModels, DropsTable, Outbound
<1>10. WalkHolds'
  BY <1>1, <1>2, <1>7, <1>9 DEF WalkHolds, Walking
<1>11. PredropHolds' /\ StepHolds'
  BY <1>1, <1>2 DEF DdlIInv, PredropHolds, StepHolds, KeysToRebuild, Rekeys, DropsTable
<1> QED BY <1>5, <1>6, <1>8, <1>10, <1>11 DEF DdlIInv

LEMMA StoreHashHolds ==
  ASSUME DdlIInv, StoreHash
  PROVE  DdlIInv'
<1>1. /\ run.stage = "hash" /\ UNCHANGED <<model, db, mishaps>>
      /\ store' = [store EXCEPT !.settled = run.errors = {}]
      /\ Ends(IF run.errors = {} THEN "synced" ELSE "failed")
  BY DEF StoreHash
<1>2. run' \in RunType /\ run'.stage = "idle" /\ runs' \in 0..MaxRuns
  BY <1>1, EndsFacts DEF DdlIInv
<1>3. /\ store' \in [tracked : SUBSET Names, settled : BOOLEAN, snaps : SUBSET ForeignKeys]
      /\ store'.snaps = store.snaps /\ store'.tracked = store.tracked
      /\ store'.settled = (run.errors = {})
  BY <1>1, TypeParts DEF DdlIInv
<1>4. DdlTypeOK'
  BY <1>1, <1>2, <1>3, TypeParts, TypeStays DEF DdlIInv
<1>5. EngineHolds'
  BY <1>1, EngineStays DEF DdlIInv
<1>6. run.errors = {} =>
        /\ model.tables \subseteq db.tables
        /\ \A t \in model.tables : ~DropsTable(t) /\ Outbound(t) = Goal(t)
        /\ (model.before \ model.tables) \cap db.tables = {}
  BY <1>1 DEF DdlIInv, WalkHolds, IsTheModels
<1>7. SettledIsTheModel'
  BY <1>1, <1>3, <1>6, ModelStays DEF SettledIsTheModel, DropsTable, Outbound
<1>8. StoreHolds'
  <2>1. \A s \in store.snaps : s[3] \in {"old", GoalKey(s[2])'}
    BY <1>1, ModelStays DEF DdlIInv, StoreHolds
  <2> QED BY <1>1, <1>2, <1>3, <1>7, <2>1 DEF DdlIInv, StoreHolds
<1> QED BY <1>2, <1>4, <1>5, <1>8, IdleHolds DEF DdlIInv

-----------------------------------------------------------------------------
(* The steps of a table.                                                   *)

AtWalk == Active /\ run.walk # <<>>
At == Head(run.walk).name

LEMMA ActiveFacts ==
  ASSUME DdlIInv, Active
  PROVE  /\ GoodWalk(run.walk) /\ DeferredHolds /\ TablesHold /\ RemovedHold
         /\ runs < MaxRuns /\ KeysToRebuild = {} /\ run.stage # "idle" /\ run.stage # "predrop"
  BY DEF DdlIInv, Active, WalkHolds, Walking, PredropHolds

LEMMA HeadFacts ==
  ASSUME DdlIInv, AtWalk
  PROVE  /\ Tail(run.walk) \in Seq(WalkSteps)
         /\ OnTable => At \in model.tables /\ At \in Names /\ Head(run.walk).cycle \subseteq model.tables
         /\ Head(run.walk).kind = "drop" => Head(run.walk).group \subseteq Removed
<1>1. run.walk \in Seq(WalkSteps) /\ model.tables \subseteq Names
  BY TypeParts DEF DdlIInv, RunType
<1>2. Tail(run.walk) \in Seq(WalkSteps)
  BY <1>1 DEF AtWalk
<1>3. Head(run.walk) \in Drops \cup Shapes \cup [kind : {"deferred"}]
  BY ActiveFacts, TailFacts DEF AtWalk
<1> QED BY <1>1, <1>2, <1>3 DEF Drops, Shapes, OnTable, At

LEMMA StepFailedFacts ==
  ASSUME DdlIInv, AtWalk, OnTable, NEW clean \in BOOLEAN, StepFailed(clean)
  PROVE  /\ run' \in RunType /\ run'.walk = Tail(run.walk) /\ run'.stage = "walk"
         /\ run'.errors = run.errors \cup {At} /\ run'.deferred = run.deferred
<1>1. run \in RunType /\ Tail(run.walk) \in Seq(WalkSteps) /\ At \in Names
  BY TypeParts, HeadFacts DEF DdlIInv
<1>2. (run.clean /\ clean) \in BOOLEAN
  OBVIOUS
<1>3. run' = [run EXCEPT !.errors = run.errors \cup {At}, !.walk = Tail(run.walk), !.stage = "walk",
                         !.clean = run.clean /\ clean]
  BY DEF StepFailed, At
<1> DEFINE after == run.clean /\ clean
           rest == Tail(run.walk)
<1>4. run' = [run EXCEPT !.errors = run.errors \cup {At}, !.walk = rest, !.stage = "walk", !.clean = after]
      /\ after \in BOOLEAN /\ rest \in Seq(WalkSteps)
  BY <1>1, <1>2, <1>3
<1> HIDE DEF after, rest
<1>5. /\ run' \in RunType /\ run'.walk = rest /\ run'.stage = "walk"
      /\ run'.errors = run.errors \cup {At} /\ run'.deferred = run.deferred
  BY <1>1, <1>4 DEF RunType
<1> QED BY <1>5 DEF rest

LEMMA StepDoneFacts ==
  ASSUME DdlIInv, AtWalk, StepDone
  PROVE  /\ run' \in RunType /\ run'.walk = Tail(run.walk) /\ run'.stage = "walk"
         /\ run'.errors = run.errors /\ run'.deferred = run.deferred
<1>1. run \in RunType /\ Tail(run.walk) \in Seq(WalkSteps)
  BY TypeParts, HeadFacts DEF DdlIInv
<1> QED BY <1>1 DEF StepDone, RunType

(* A step on table t: the database changes in t and its constraints only,  *)
(* and t goes or changes its key only when nothing references it.          *)
TableChange(t) ==
  /\ db' \in DbType /\ ShapesStay
  /\ db'.tables \ {t} = db.tables \ {t} /\ db'.shaped \ {t} = db.shaped \ {t}
  /\ \A r \in ForeignKeys : r[1] # t => (r \in db'.refs <=> r \in db.refs)
  /\ \A r \in db'.refs \ db.refs : r \in Goal(t) /\ r[2] \in db.tables /\ r[3] = LiveKey(r[2])
  /\ \/ (t \in db.tables => t \in db'.tables) /\ (t \in db'.shaped => t \in db.shaped)
     \/ \A r \in db'.refs : r[2] # t

LEMMA TableChangeHolds ==
  ASSUME DdlIInv, Active, UNCHANGED <<model, store>>, NEW t \in model.tables, TableChange(t),
         run'.stage \notin {"idle", "predrop"}
  PROVE  /\ EngineHolds' /\ StoreHolds' /\ PredropHolds'
         /\ \A u \in model.tables \ {t} : IsTheModels(u) => IsTheModels(u)'
         /\ \A u : ~DropsTable(u) => ~DropsTable(u)'
<1>1. db \in DbType /\ db' \in DbType /\ ShapesStay /\ DdlTypeOK
  BY TypeParts DEF TableChange, DdlIInv
<1>2. EngineHolds'
  <2>1. ASSUME NEW r \in db'.refs
        PROVE  /\ r \in db.refs \/ (r[2] \in db.tables /\ r[3] = LiveKey(r[2]))
               /\ r[2] \in db.tables => r[2] \in db'.tables
               /\ r[2] \in db'.shaped <=> r[2] \in db.shaped
    BY DEF TableChange, ShapesStay
  <2> QED BY <2>1, EngineStays DEF DdlIInv
<1>3. StoreHolds'
  <2>1. db'.tables \ db.tables \subseteq model.tables
    BY DEF TableChange
  <2> QED BY <2>1, ActiveFacts, StoreStays DEF DdlIInv
<1>4. PredropHolds'
  <2>1. \A r \in db'.refs \ db.refs : r[1] \in model.tables => r \in Goal(r[1]) /\ r[3] = LiveKey(r[2])
    BY <1>1, GoalFacts DEF TableChange
  <2>2. KeysToRebuild' = {}
    BY <1>1, <2>1, ActiveFacts, KeysStay
  <2> QED BY <2>2 DEF PredropHolds
<1>5. ASSUME NEW u \in model.tables \ {t}, IsTheModels(u) PROVE IsTheModels(u)'
  <2>1. u \in db'.tables
    BY <1>5 DEF IsTheModels, TableChange
  <2>2. Outbound(u)' = Outbound(u)
    BY <1>1, <1>5 DEF Outbound, TableChange, DbType
  <2>3. ~DropsTable(u)'
    BY <1>1, <1>5, DropsTableStays DEF IsTheModels
  <2> QED BY <1>5, <2>1, <2>2, <2>3, ModelStays DEF IsTheModels
<1> QED BY <1>1, <1>2, <1>3, <1>4, <1>5, DropsTableStays

(* The step ends: its table is in error, waits for its cycle, or is right. *)
LEMMA TableEnds ==
  ASSUME DdlIInv, AtWalk, OnTable, UNCHANGED <<model, store, runs>>,
         NEW t \in Names, t = At, TableChange(t),
         \A u \in ToSet(run.deferred) : u \in db'.tables,
         run'.walk = Tail(run.walk), run'.stage = "walk", run.errors \subseteq run'.errors,
         ToSet(run.deferred) \subseteq ToSet(run'.deferred),
         \A u \in ToSet(run'.deferred) \ ToSet(run.deferred) :
           u \in model.tables /\ u \in db'.tables /\ ~DropsTable(u)',
         t \in run'.errors \/ t \in ToSet(run'.deferred) \/ IsTheModels(t)'
  PROVE  EngineHolds' /\ StoreHolds' /\ PredropHolds' /\ StepHolds' /\ WalkHolds'
<1>1. t \in model.tables
  BY HeadFacts
<1>2. /\ EngineHolds' /\ StoreHolds' /\ PredropHolds'
      /\ \A u \in model.tables \ {t} : IsTheModels(u) => IsTheModels(u)'
      /\ \A u : ~DropsTable(u) => ~DropsTable(u)'
  BY <1>1, TableChangeHolds DEF AtWalk
<1>3. /\ GoodWalk(run.walk) /\ DeferredHolds /\ TablesHold /\ RemovedHold /\ runs < MaxRuns
  BY ActiveFacts DEF AtWalk
<1>4. /\ GoodWalk(Tail(run.walk))
      /\ \A u : HasTable(run.walk, u) => HasTable(Tail(run.walk), u) \/ u = t
      /\ \A n : HasDrop(run.walk, n) => HasDrop(Tail(run.walk), n)
      /\ \E i \in DOMAIN Tail(run.walk) : Tail(run.walk)[i].kind = "deferred"
  BY <1>3, TailFacts DEF AtWalk, OnTable, At
<1>5. Removed' = Removed
  BY DEF Removed
<1>6. GoodWalk(run.walk)'
  BY <1>4, <1>5 DEF GoodWalk, Drops, Shapes
<1>7. DeferredHolds'
  BY <1>2, <1>3, <1>4 DEF DeferredHolds
<1>8. TablesHold'
  <2>1. ASSUME NEW u \in model.tables
        PROVE  u \in run'.errors \/ HasTable(Tail(run.walk), u) \/ u \in ToSet(run'.deferred) \/ IsTheModels(u)'
    <3>1. u \in run.errors \/ HasTable(run.walk, u) \/ u \in ToSet(run.deferred) \/ IsTheModels(u)
      BY <1>3 DEF TablesHold
    <3>2. CASE u = t
      BY <3>2
    <3>3. CASE u # t
      BY <1>2, <1>4, <3>1, <3>3
    <3> QED BY <3>2, <3>3
  <2> QED BY <2>1 DEF TablesHold, HasTable
<1>9. RemovedHold'
  <2>1. ASSUME NEW n \in Removed
        PROVE  n \in run'.errors \/ HasDrop(Tail(run.walk), n) \/ n \notin db'.tables
    <3>1. n # t
      BY <1>1 DEF Removed
    <3>2. n \in db'.tables => n \in db.tables
      BY <3>1 DEF TableChange
    <3> QED BY <1>3, <1>4, <3>2 DEF RemovedHold
  <2> QED BY <1>5, <2>1 DEF RemovedHold, HasDrop
<1>10. StepHolds'
  BY DEF StepHolds
<1> QED BY <1>2, <1>3, <1>6, <1>7, <1>8, <1>9, <1>10 DEF WalkHolds

(* The step goes on with the same table. *)
LEMMA TableGoesOn ==
  ASSUME DdlIInv, AtWalk, OnTable, UNCHANGED <<model, store, runs>>,
         NEW t \in Names, t = At, TableChange(t),
         \A u \in ToSet(run.deferred) : u \in db'.tables,
         run'.walk = run.walk, run'.stage \in {"shape", "create", "constraints"},
         run'.errors = run.errors, run'.deferred = run.deferred
  PROVE  EngineHolds' /\ StoreHolds' /\ PredropHolds' /\ WalkHolds'
<1>1. t \in model.tables
  BY HeadFacts
<1>2. /\ EngineHolds' /\ StoreHolds' /\ PredropHolds'
      /\ \A u \in model.tables \ {t} : IsTheModels(u) => IsTheModels(u)'
      /\ \A u : ~DropsTable(u) => ~DropsTable(u)'
  BY <1>1, TableChangeHolds DEF AtWalk
<1>3. /\ GoodWalk(run.walk) /\ DeferredHolds /\ TablesHold /\ RemovedHold /\ runs < MaxRuns
  BY ActiveFacts DEF AtWalk
<1>4. HasTable(run.walk, t)
  <2>1. run.walk \in Seq(WalkSteps) /\ run.walk # <<>>
    BY TypeParts DEF DdlIInv, RunType, AtWalk
  <2>2. Head(run.walk) \in ToSet(run.walk)
    BY <2>1 DEF ToSet
  <2> QED BY <2>2 DEF HasTable, OnTable, At
<1>5. Removed' = Removed
  BY DEF Removed
<1>6. GoodWalk(run.walk)'
  BY <1>3, <1>5 DEF GoodWalk, Drops, Shapes
<1>7. DeferredHolds'
  BY <1>2, <1>3 DEF DeferredHolds
<1>8. TablesHold'
  <2>1. ASSUME NEW u \in model.tables
        PROVE  u \in run.errors \/ HasTable(run.walk, u) \/ u \in ToSet(run.deferred) \/ IsTheModels(u)'
    BY <1>2, <1>3, <1>4 DEF TablesHold
  <2> QED BY <2>1 DEF TablesHold, HasTable
<1>9. RemovedHold'
  <2>1. ASSUME NEW n \in Removed
        PROVE  n \in run.errors \/ HasDrop(run.walk, n) \/ n \notin db'.tables
    <3>1. n # t
      BY <1>1 DEF Removed
    <3>2. n \in db'.tables => n \in db.tables
      BY <3>1 DEF TableChange
    <3> QED BY <1>3, <3>2 DEF RemovedHold
  <2> QED BY <1>5, <2>1 DEF RemovedHold, HasDrop
<1> QED BY <1>2, <1>3, <1>6, <1>7, <1>8, <1>9 DEF WalkHolds

LEMMA SameDb ==
  ASSUME DdlIInv, UNCHANGED db, NEW t
  PROVE  TableChange(t)
  BY TypeParts DEF DdlIInv, TableChange, ShapesStay

(* Some constraints of t go, declared ones that the engine accepts come.   *)
LEMMA KeysChange ==
  ASSUME DdlIInv, NEW t \in model.tables, NEW gone \in SUBSET Outbound(t), NEW added \in SUBSET Goal(t),
         CanAdd(added), db' = [db EXCEPT !.refs = (@ \ gone) \cup added]
  PROVE  TableChange(t) /\ db'.tables = db.tables /\ db'.shaped = db.shaped
         /\ db'.refs = (db.refs \ gone) \cup added
<1>1. db \in DbType /\ DdlTypeOK
  BY TypeParts DEF DdlIInv
<1>2. /\ added \subseteq ForeignKeys /\ \A r \in added : r[1] = t
      /\ \A r \in added : r[2] \in db.tables /\ r[3] = LiveKey(r[2])
  BY <1>1, GoalFacts DEF CanAdd
<1>3. db' \in DbType /\ db'.tables = db.tables /\ db'.shaped = db.shaped /\ db'.refs = (db.refs \ gone) \cup added
  BY <1>1, <1>2 DEF DbType
<1>4. \A r \in gone : r[1] = t
  BY DEF Outbound
<1> QED BY <1>2, <1>3, <1>4 DEF TableChange, ShapesStay

Extra(t) == {r \in Outbound(t) : <<t, r[2]>> \notin model.wants}
Missing(t) == {r \in Goal(t) : \A q \in Outbound(t) : q[2] # r[2]}

(* All the statements of syncForeignKeys bring a table to its model. *)
LEMMA AllKeysSynced ==
  ASSUME DdlIInv, Active, UNCHANGED model, NEW t \in model.tables, t \in db.tables, ~DropsTable(t),
         CanAdd(Missing(t)), db' = [db EXCEPT !.refs = (@ \ Extra(t)) \cup Missing(t)]
  PROVE  IsTheModels(t)'
<1>1. Extra(t) \subseteq Outbound(t) /\ Missing(t) \subseteq Goal(t)
  BY DEF Extra, Missing
<1>2. TableChange(t) /\ db'.tables = db.tables /\ db'.shaped = db.shaped
      /\ db'.refs = (db.refs \ Extra(t)) \cup Missing(t)
  BY <1>1, KeysChange
<1>3. db.refs \subseteq ForeignKeys /\ DdlTypeOK /\ EngineHolds /\ KeysToRebuild = {}
  BY TypeParts, ActiveFacts DEF DdlIInv, DbType
<1>4. ASSUME NEW r \in Outbound(t), <<t, r[2]>> \in model.wants
      PROVE  r \in Goal(t)
  <2>1. r \in db.refs /\ r \in ForeignKeys /\ r[1] = t /\ r[2] \in db.tables /\ r[3] = LiveKey(r[2])
    BY <1>3 DEF Outbound, EngineHolds
  <2>2. LiveKey(r[2]) = GoalKey(r[2])
    <3>1. CASE r[2] \in db.shaped
      BY <3>1, GoalKeyFacts
    <3>2. CASE r[2] \notin db.shaped /\ GoalKey(r[2]) = "new"
      <4>1. r[2] \in model.tables /\ model.change[r[2]] = "rekey"
        BY <3>2, GoalKeyFacts
      <4>2. Rekeys(r[2])
        BY <2>1, <3>2, <4>1 DEF Rekeys, DropsTable
      <4>3. r \in KeysToRebuild
        BY <2>1, <4>1, <4>2 DEF KeysToRebuild
      <4> QED BY <1>3, <4>3
    <3>3. CASE r[2] \notin db.shaped /\ GoalKey(r[2]) # "new"
      BY <3>3, GoalKeyFacts
    <3> QED BY <3>1, <3>2, <3>3
  <2> QED BY <1>3, <1>4, <2>1, <2>2, GoalFacts
<1>5. ASSUME NEW r \in Goal(t), r \notin Missing(t)
      PROVE  r \in Outbound(t) \ Extra(t)
  <2>1. PICK q \in Outbound(t) : q[2] = r[2]
    BY <1>5 DEF Missing
  <2>2. <<t, q[2]>> \in model.wants
    BY <1>3, <2>1, GoalFacts
  <2>3. q \in Goal(t)
    BY <1>4, <2>2
  <2>4. q \in ForeignKeys /\ r \in ForeignKeys /\ q[1] = r[1] /\ q[3] = r[3]
    <3>1. q \in ForeignKeys /\ q[1] = t /\ q[3] = GoalKey(q[2])
      BY <1>3, <2>3, GoalFacts
    <3>2. r \in ForeignKeys /\ r[1] = t /\ r[3] = GoalKey(r[2])
      BY <1>3, GoalFacts
    <3> QED BY <2>1, <3>1, <3>2
  <2>5. q = r
    BY <2>1, <2>4, KeyShape
  <2> QED BY <2>1, <2>2, <2>5 DEF Extra
<1>6. \A r \in Missing(t) : r[1] = t
  BY <1>1, <1>3, GoalFacts
<1>7. {r \in db'.refs : r[1] = t} = Goal(t)
  <2>1. ASSUME NEW r \in db'.refs, r[1] = t PROVE r \in Goal(t)
    BY <1>1, <1>2, <1>4, <2>1 DEF Extra, Outbound
  <2>2. ASSUME NEW r \in Goal(t) PROVE r \in db'.refs /\ r[1] = t
    BY <1>2, <1>5, <1>6, <2>2 DEF Outbound
  <2> QED BY <2>1, <2>2
<1>8. Outbound(t)' = Goal(t)'
  BY <1>7, ModelStays DEF Outbound
<1>9. ~DropsTable(t)'
  BY <1>2, DropsTableStays DEF TableChange
<1> QED BY <1>2, <1>8, <1>9 DEF IsTheModels

LEMMA DropStaleKeysHolds ==
  ASSUME DdlIInv, DropStaleKeys
  PROVE  DdlIInv'
<1>1. /\ run.stage = "walk" /\ run.walk # <<>> /\ OnTable /\ UNCHANGED <<model, store, runs>>
      /\ AtWalk /\ Active /\ At \in db.tables
  BY DEF DropStaleKeys, NextIs, OnTable, AtWalk, Active, At
<1>2. PICK t \in Names : t = At
  BY <1>1, HeadFacts
<1>3. PICK gone \in SUBSET Outbound(t) :
        /\ db' = [db EXCEPT !.refs = @ \ gone]
        /\ \/ run' = [run EXCEPT !.stage = IF DropsTable(t) THEN "shape" ELSE "constraints"] /\ NoMishap
           \/ StepFailed(FALSE) /\ Mishap
  BY <1>2 DEF DropStaleKeys, At
<1>4. t \in model.tables
  BY <1>1, <1>2, HeadFacts
<1>5. db' = [db EXCEPT !.refs = (@ \ gone) \cup {}] /\ CanAdd({})
  BY <1>3, TypeParts DEF DdlIInv, DbType, CanAdd
<1>6. TableChange(t) /\ db'.tables = db.tables /\ db'.shaped = db.shaped
  BY <1>4, <1>5, KeysChange
<1>7. \A u \in ToSet(run.deferred) : u \in db'.tables
  BY <1>1, <1>6, ActiveFacts DEF DeferredHolds
<1>8. CASE StepFailed(FALSE) /\ Mishap
  <2>1. /\ run' \in RunType /\ run'.walk = Tail(run.walk) /\ run'.stage = "walk"
        /\ run'.errors = run.errors \cup {t} /\ run'.deferred = run.deferred
    BY <1>1, <1>2, <1>8, StepFailedFacts
  <2>2. EngineHolds' /\ StoreHolds' /\ PredropHolds' /\ StepHolds' /\ WalkHolds'
    BY <1>1, <1>2, <1>6, <1>7, <2>1, TableEnds
  <2>3. DdlTypeOK'
    BY <1>1, <1>6, <1>8, <2>1, TypeParts, TypeStays, MishapFacts DEF DdlIInv, TableChange
  <2> QED BY <2>2, <2>3 DEF DdlIInv
<1>9. CASE run' = [run EXCEPT !.stage = IF DropsTable(t) THEN "shape" ELSE "constraints"] /\ NoMishap
  <2>1. /\ run' \in RunType /\ run'.walk = run.walk
        /\ run'.stage = IF DropsTable(t) THEN "shape" ELSE "constraints"
        /\ run'.errors = run.errors /\ run'.deferred = run.deferred
    BY <1>9, TypeParts DEF DdlIInv, RunType
  <2>2. EngineHolds' /\ StoreHolds' /\ PredropHolds' /\ WalkHolds'
    BY <1>1, <1>2, <1>6, <1>7, <2>1, TableGoesOn
  <2>3. DdlTypeOK'
    BY <1>1, <1>6, <1>9, <2>1, TypeParts, TypeStays, MishapFacts DEF DdlIInv, TableChange
  <2>4. DropsTable(t)' <=> DropsTable(t)
    BY <1>1, <1>6 DEF DropsTable
  <2>5. StepHolds'
    <3>1. Head(run'.walk) = Head(run.walk) /\ run'.walk # <<>> /\ Head(run'.walk).name = t
      BY <1>1, <1>2, <2>1 DEF At
    <3>2. t \in db'.tables
      BY <1>1, <1>2, <1>6
    <3>3. run'.stage \in {"shape", "constraints"} /\ (run'.stage = "shape" <=> DropsTable(t)')
      BY <2>1, <2>4
    <3>4. (run'.stage = "shape" => DropsTable(Head(run.walk).name)')
      BY <3>1, <3>3 DEF DropsTable
    <3>5. (run'.stage = "constraints" => ~DropsTable(Head(run.walk).name)')
      BY <3>1, <3>3 DEF DropsTable
    <3> QED BY <1>1, <3>1, <3>2, <3>3, <3>4, <3>5 DEF StepHolds, OnTable
  <2> QED BY <2>2, <2>3, <2>5 DEF DdlIInv
<1> QED BY <1>3, <1>8, <1>9

(* A step that becomes an error entry, whatever it did to its table. *)
LEMMA DdlTableFails ==
  ASSUME DdlIInv, AtWalk, OnTable, UNCHANGED <<model, store, runs>>, Mishap \/ NoMishap,
         NEW clean \in BOOLEAN, StepFailed(clean), NEW t \in Names, t = At, TableChange(t),
         db'.tables = db.tables
  PROVE  DdlIInv'
<1>1. \A u \in ToSet(run.deferred) : u \in db'.tables
  BY ActiveFacts DEF DeferredHolds, AtWalk
<1>2. /\ run' \in RunType /\ run'.walk = Tail(run.walk) /\ run'.stage = "walk"
      /\ run'.errors = run.errors \cup {t} /\ run'.deferred = run.deferred
  BY StepFailedFacts
<1>3. EngineHolds' /\ StoreHolds' /\ PredropHolds' /\ StepHolds' /\ WalkHolds'
  BY <1>1, <1>2, TableEnds
<1>4. DdlTypeOK'
  BY <1>2, TypeParts, TypeStays, MishapFacts DEF DdlIInv, TableChange
<1> QED BY <1>3, <1>4 DEF DdlIInv

LEMMA AtShape ==
  ASSUME DdlIInv, run.stage \in {"shape", "create", "constraints"}
  PROVE  AtWalk /\ OnTable /\ Active /\ At \in Names /\ At \in model.tables
<1>1. AtWalk /\ OnTable /\ Active
  BY DEF DdlIInv, StepHolds, AtWalk, Active
<1> QED BY <1>1, HeadFacts

LEMMA RebuildKeyHolds ==
  ASSUME DdlIInv, RebuildKey
  PROVE  DdlIInv'
<1>1. run.stage = "shape" /\ AtWalk /\ OnTable /\ Active /\ UNCHANGED <<model, store, runs>>
  BY AtShape DEF RebuildKey
<1>2. PICK t \in Names : t = At /\ t \in model.tables
  BY <1>1, AtShape
<1>3. Rekeys(t) /\ t \in db.tables
  BY <1>2 DEF RebuildKey, At, Rekeys, DropsTable
<1>4. CASE \E clean \in BOOLEAN : StepFailed(clean) /\ (Mishap \/ NoMishap) /\ UNCHANGED db
  BY <1>1, <1>2, <1>4, SameDb, DdlTableFails
<1>5. CASE /\ Inbound(t) = {} /\ NoMishap /\ db' = [db EXCEPT !.shaped = @ \cup {t}]
           /\ run' = [run EXCEPT !.stage = "constraints"]
  <2>1. /\ run' \in RunType /\ run'.walk = run.walk /\ run'.stage = "constraints"
        /\ run'.errors = run.errors /\ run'.deferred = run.deferred
    BY <1>5, TypeParts DEF DdlIInv, RunType
  <2>2. /\ db' \in DbType /\ db'.tables = db.tables /\ db'.shaped = db.shaped \cup {t} /\ db'.refs = db.refs
    BY <1>5, TypeParts DEF DdlIInv, DbType
  <2>3. \A r \in db'.refs : r[2] # t
    BY <1>5, <2>2 DEF Inbound
  <2>4. TableChange(t)
    BY <2>2, <2>3 DEF TableChange, ShapesStay
  <2>5. \A u \in ToSet(run.deferred) : u \in db'.tables
    BY <1>1, <2>2, ActiveFacts DEF DeferredHolds
  <2>6. EngineHolds' /\ StoreHolds' /\ PredropHolds' /\ WalkHolds'
    BY <1>1, <1>2, <2>1, <2>4, <2>5, TableGoesOn
  <2>7. DdlTypeOK'
    BY <1>1, <1>5, <2>1, <2>2, TypeParts, TypeStays, MishapFacts DEF DdlIInv
  <2>8. StepHolds'
    <3>1. run'.walk # <<>> /\ Head(run'.walk).kind = "table" /\ Head(run'.walk).name = t
      BY <1>1, <1>2, <2>1 DEF AtWalk, OnTable, At
    <3>2. t \in db'.tables /\ t \in db'.shaped
      BY <1>3, <2>2
    <3> QED BY <2>1, <3>1, <3>2 DEF StepHolds, OnTable, DropsTable
  <2> QED BY <2>6, <2>7, <2>8 DEF DdlIInv
<1>6. \/ StepFailed(TRUE) /\ NoMishap /\ UNCHANGED db
      \/ StepFailed(FALSE) /\ Mishap /\ UNCHANGED db
      \/ /\ Inbound(t) = {} /\ NoMishap /\ db' = [db EXCEPT !.shaped = @ \cup {t}]
         /\ run' = [run EXCEPT !.stage = "constraints"]
  BY <1>2 DEF RebuildKey, At
<1> QED BY <1>4, <1>5, <1>6

LEMMA DropOutdatedHolds ==
  ASSUME DdlIInv, DropOutdated
  PROVE  DdlIInv'
<1>1. run.stage = "shape" /\ AtWalk /\ OnTable /\ Active /\ UNCHANGED <<model, store, runs>>
  BY AtShape DEF DropOutdated
<1>2. PICK t \in Names : t = At /\ t \in model.tables
  BY <1>1, AtShape
<1>3. DropsTable(t)
  BY <1>1, <1>2 DEF DdlIInv, StepHolds, At
<1>4. CASE \E clean \in BOOLEAN : StepFailed(clean) /\ (Mishap \/ NoMishap) /\ UNCHANGED db
  BY <1>1, <1>2, <1>4, SameDb, DdlTableFails
<1>5. CASE /\ CanDrop({t}) /\ NoMishap
           /\ db' = [db EXCEPT !.tables = @ \ {t}, !.refs = @ \ Outbound(t)]
           /\ run' = [run EXCEPT !.stage = "create"]
  <2>1. /\ run' \in RunType /\ run'.walk = run.walk /\ run'.stage = "create"
        /\ run'.errors = run.errors /\ run'.deferred = run.deferred
    BY <1>5, TypeParts DEF DdlIInv, RunType
  <2>2. /\ db' \in DbType /\ db'.tables = db.tables \ {t} /\ db'.shaped = db.shaped
        /\ db'.refs = db.refs \ Outbound(t)
    BY <1>5, TypeParts DEF DdlIInv, DbType
  <2>3. \A r \in db'.refs : r[2] # t
    BY <1>5, <2>2 DEF CanDrop, Outbound
  <2>4. TableChange(t)
    BY <2>2, <2>3 DEF TableChange, ShapesStay, Outbound
  <2>5. \A u \in ToSet(run.deferred) : u \in db'.tables
    BY <1>1, <1>3, <2>2, ActiveFacts DEF DeferredHolds
  <2>6. EngineHolds' /\ StoreHolds' /\ PredropHolds' /\ WalkHolds'
    BY <1>1, <1>2, <2>1, <2>4, <2>5, TableGoesOn
  <2>7. DdlTypeOK'
    BY <1>1, <1>5, <2>1, <2>2, TypeParts, TypeStays, MishapFacts DEF DdlIInv
  <2>8. StepHolds'
    BY <1>1, <1>2, <2>1, <2>2 DEF StepHolds, OnTable, AtWalk, At
  <2> QED BY <2>6, <2>7, <2>8 DEF DdlIInv
<1>6. \/ StepFailed(TRUE) /\ NoMishap /\ UNCHANGED db
      \/ StepFailed(FALSE) /\ Mishap /\ UNCHANGED db
      \/ /\ CanDrop({t}) /\ NoMishap
         /\ db' = [db EXCEPT !.tables = @ \ {t}, !.refs = @ \ Outbound(t)]
         /\ run' = [run EXCEPT !.stage = "create"]
  BY <1>2 DEF DropOutdated, At
<1> QED BY <1>4, <1>5, <1>6

LEMMA EnsureTableHolds ==
  ASSUME DdlIInv, ensureTable
  PROVE  DdlIInv'
<1>1. /\ AtWalk /\ OnTable /\ Active /\ UNCHANGED <<model, store, runs>> /\ At \notin db.tables
  <2>1. CASE NextIs("table") /\ Head(run.walk).name \notin db.tables
    BY <2>1 DEF ensureTable, NextIs, OnTable, AtWalk, Active, At
  <2>2. CASE run.stage = "create"
    BY <2>2, AtShape DEF ensureTable, DdlIInv, StepHolds, At
  <2> QED BY <2>1, <2>2 DEF ensureTable
<1>2. PICK t \in Names : t = At /\ t \in model.tables /\ t \notin db.tables
  BY <1>1, HeadFacts
<1> DEFINE inline == {r \in Goal(t) : r[2] \notin Head(run.walk).cycle}
<1>3. CASE \E clean \in BOOLEAN : StepFailed(clean) /\ (Mishap \/ NoMishap) /\ UNCHANGED db
  BY <1>1, <1>2, <1>3, SameDb, DdlTableFails
<1>4. CASE /\ CanAdd(inline) /\ NoMishap
           /\ db' = [tables |-> db.tables \cup {t}, shaped |-> db.shaped \cup {t}, refs |-> db.refs \cup inline]
           /\ run' = [run EXCEPT !.stage = "constraints"]
  <2>1. /\ run' \in RunType /\ run'.walk = run.walk /\ run'.stage = "constraints"
        /\ run'.errors = run.errors /\ run'.deferred = run.deferred
    BY <1>4, TypeParts DEF DdlIInv, RunType
  <2>2. /\ inline \subseteq Goal(t) /\ inline \subseteq ForeignKeys /\ \A r \in inline : r[1] = t
        /\ \A r \in inline : r[2] \in db.tables /\ r[3] = LiveKey(r[2])
    BY <1>2, <1>4, GoalFacts DEF DdlIInv, CanAdd
  <2> HIDE DEF inline
  <2>3. /\ db' \in DbType /\ db'.tables = db.tables \cup {t} /\ db'.shaped = db.shaped \cup {t}
        /\ db'.refs = db.refs \cup inline
    BY <1>4, <2>2, TypeParts DEF DdlIInv, DbType
  <2>4. \A r \in db'.refs : r[2] # t
    BY <1>2, <2>2, <2>3 DEF DdlIInv, EngineHolds
  <2>5. TableChange(t)
    BY <2>2, <2>3, <2>4 DEF TableChange, ShapesStay
  <2>6. \A u \in ToSet(run.deferred) : u \in db'.tables
    BY <1>1, <2>3, ActiveFacts DEF DeferredHolds
  <2>7. EngineHolds' /\ StoreHolds' /\ PredropHolds' /\ WalkHolds'
    BY <1>1, <1>2, <2>1, <2>5, <2>6, TableGoesOn
  <2>8. DdlTypeOK'
    BY <1>1, <1>4, <2>1, <2>3, TypeParts, TypeStays, MishapFacts DEF DdlIInv
  <2>9. StepHolds'
    <3>1. run'.walk # <<>> /\ Head(run'.walk).kind = "table" /\ Head(run'.walk).name = t
      BY <1>1, <1>2, <2>1 DEF AtWalk, OnTable, At
    <3>2. t \in db'.tables /\ t \in db'.shaped
      BY <2>3
    <3> QED BY <2>1, <3>1, <3>2 DEF StepHolds, OnTable, DropsTable
  <2> QED BY <2>7, <2>8, <2>9 DEF DdlIInv
<1>5. \/ StepFailed(TRUE) /\ NoMishap /\ UNCHANGED db
      \/ StepFailed(FALSE) /\ Mishap /\ UNCHANGED db
      \/ /\ CanAdd(inline) /\ NoMishap
         /\ db' = [tables |-> db.tables \cup {t}, shaped |-> db.shaped \cup {t}, refs |-> db.refs \cup inline]
         /\ run' = [run EXCEPT !.stage = "constraints"]
  BY <1>2 DEF ensureTable, At
<1> QED BY <1>3, <1>4, <1>5

(* What syncForeignKeys may have done to t, in the end or when it fails.   *)
KeysSynced(t) == CanAdd(Missing(t)) /\ db' = [db EXCEPT !.refs = (@ \ Extra(t)) \cup Missing(t)]
KeysTouched(t) ==
  \E gone \in SUBSET Extra(t), added \in SUBSET Goal(t) :
    CanAdd(added) /\ db' = [db EXCEPT !.refs = (@ \ gone) \cup added]

LEMMA SyncKeysSteps ==
  ASSUME SyncKeys, NEW t, t = At, Head(run.walk).cycle = {}
  PROVE  \/ KeysSynced(t) /\ StepDone /\ NoMishap
         \/ KeysTouched(t) /\ \E clean \in BOOLEAN : StepFailed(clean) /\ (Mishap \/ NoMishap)
<1> USE DEF Extra, Missing
<1>1. syncForeignKeys(t, StepDone, StepFailed)
  BY DEF SyncKeys, At
<1>2. CASE CanAdd(Missing(t)) /\ db' = [db EXCEPT !.refs = (@ \ Extra(t)) \cup Missing(t)] /\ StepDone /\ NoMishap
  BY <1>2 DEF KeysSynced
<1>3. CASE /\ StepFailed(TRUE) /\ NoMishap
           /\ \E added \in SUBSET Missing(t) :
                CanAdd(added) /\ db' = [db EXCEPT !.refs = (@ \ Extra(t)) \cup added]
  BY <1>3 DEF KeysTouched
<1>4. CASE /\ StepFailed(FALSE) /\ Mishap
           /\ \/ \E part \in SUBSET Extra(t) : db' = [db EXCEPT !.refs = (@ \ part) \cup {}]
              \/ \E part \in SUBSET Missing(t) :
                   CanAdd(part) /\ db' = [db EXCEPT !.refs = (@ \ Extra(t)) \cup part]
  <2>1. CanAdd({})
    BY DEF CanAdd
  <2> QED BY <1>4, <2>1 DEF KeysTouched
<1> QED BY <1>1, <1>2, <1>3, <1>4 DEF syncForeignKeys

LEMMA SyncKeysHolds ==
  ASSUME DdlIInv, SyncKeys
  PROVE  DdlIInv'
<1>1. run.stage = "constraints" /\ AtWalk /\ OnTable /\ Active /\ UNCHANGED <<model, store, runs>>
  BY AtShape DEF SyncKeys
<1>2. PICK t \in Names : t = At /\ t \in model.tables
  BY <1>1, AtShape
<1>3. t \in db.tables /\ ~DropsTable(t)
  BY <1>1, <1>2 DEF DdlIInv, StepHolds, At
<1>4. CASE Head(run.walk).cycle # {}
  <2>1. run' = [run EXCEPT !.walk = Tail(@), !.stage = "walk", !.deferred = Append(@, t)]
        /\ UNCHANGED <<db, mishaps>>
    BY <1>2, <1>4 DEF SyncKeys, At
  <2>2. run \in RunType /\ Tail(run.walk) \in Seq(WalkSteps) /\ run.deferred \in Seq(Names)
    BY <1>1, TypeParts, HeadFacts DEF DdlIInv, RunType
  <2>3. /\ run' \in RunType /\ run'.walk = Tail(run.walk) /\ run'.stage = "walk"
        /\ run'.errors = run.errors /\ run'.deferred = Append(run.deferred, t)
    <3> DEFINE rest == Tail(run.walk)
               waiting == Append(run.deferred, t)
    <3>1. waiting \in Seq(Names) /\ rest \in Seq(WalkSteps)
      BY <2>2
    <3>2. run' = [run EXCEPT !.walk = rest, !.stage = "walk", !.deferred = waiting]
      BY <2>1, <2>2
    <3> HIDE DEF rest, waiting
    <3>3. /\ run' \in RunType /\ run'.walk = rest /\ run'.stage = "walk"
          /\ run'.errors = run.errors /\ run'.deferred = waiting
      BY <2>2, <3>1, <3>2 DEF RunType
    <3> QED BY <3>3 DEF rest, waiting
  <2>4. ToSet(run'.deferred) = ToSet(run.deferred) \cup {t}
    <3> DEFINE waiting == run.deferred
               one == <<t>>
    <3>1. Append(run.deferred, t) = waiting \o one
      BY <2>2
    <3>2. one \in Seq(Names) /\ ToSet(one) = {t} /\ waiting \in Seq(Names)
      BY <2>2, OneFacts
    <3> HIDE DEF waiting, one
    <3>3. ToSet(waiting \o one) = ToSet(waiting) \cup {t}
      BY <3>2, ToSetConcat
    <3> QED BY <2>3, <3>1, <3>3 DEF waiting
  <2>5. TableChange(t)
    BY <2>1, SameDb
  <2>6. ~DropsTable(t)' /\ t \in db'.tables
    BY <1>1, <1>3, <2>1 DEF DropsTable
  <2>7. \A u \in ToSet(run.deferred) : u \in db'.tables
    BY <1>1, <2>1, ActiveFacts DEF DeferredHolds
  <2>8. EngineHolds' /\ StoreHolds' /\ PredropHolds' /\ StepHolds' /\ WalkHolds'
    BY <1>1, <1>2, <2>3, <2>4, <2>5, <2>6, <2>7, TableEnds
  <2>9. DdlTypeOK'
    BY <1>1, <2>1, <2>3, TypeParts, TypeStays DEF DdlIInv
  <2> QED BY <2>8, <2>9 DEF DdlIInv
<1>5. CASE Head(run.walk).cycle = {}
  <2>1. \/ KeysSynced(t) /\ StepDone /\ NoMishap
        \/ KeysTouched(t) /\ \E clean \in BOOLEAN : StepFailed(clean) /\ (Mishap \/ NoMishap)
    BY <1>2, <1>5, SyncKeysSteps
  <2>2. CASE KeysTouched(t) /\ \E clean \in BOOLEAN : StepFailed(clean) /\ (Mishap \/ NoMishap)
    <3>1. TableChange(t) /\ db'.tables = db.tables
      BY <1>2, <2>2, KeysChange DEF KeysTouched, Extra
    <3> QED BY <1>1, <1>2, <2>2, <3>1, DdlTableFails
  <2>3. CASE KeysSynced(t) /\ StepDone /\ NoMishap
    <3>1. Extra(t) \subseteq Outbound(t) /\ Missing(t) \subseteq Goal(t)
      BY DEF Extra, Missing
    <3>2. TableChange(t) /\ db'.tables = db.tables
      BY <1>2, <2>3, <3>1, KeysChange DEF KeysSynced
    <3>3. IsTheModels(t)'
      BY <1>1, <1>2, <1>3, <2>3, AllKeysSynced DEF KeysSynced
    <3>4. /\ run' \in RunType /\ run'.walk = Tail(run.walk) /\ run'.stage = "walk"
          /\ run'.errors = run.errors /\ run'.deferred = run.deferred
      BY <1>1, <2>3, StepDoneFacts
    <3>5. \A u \in ToSet(run.deferred) : u \in db'.tables
      BY <1>1, <3>2, ActiveFacts DEF DeferredHolds
    <3>6. EngineHolds' /\ StoreHolds' /\ PredropHolds' /\ StepHolds' /\ WalkHolds'
      BY <1>1, <1>2, <3>2, <3>3, <3>4, <3>5, TableEnds
    <3>7. DdlTypeOK'
      BY <1>1, <2>3, <3>2, <3>4, TypeParts, TypeStays, MishapFacts DEF DdlIInv, TableChange
    <3> QED BY <3>6, <3>7 DEF DdlIInv
  <2> QED BY <2>1, <2>2, <2>3
<1> QED BY <1>4, <1>5

(* The statements of syncForeignKeys for a table that waited for its cycle. *)
PassedKeys(t, errors) ==
  \E clean \in BOOLEAN : run' = [run EXCEPT !.deferred = Tail(@), !.errors = @ \cup errors, !.clean = @ /\ clean]

LEMMA SyncDeferredSteps ==
  ASSUME SyncDeferredKeys, run.deferred # <<>>, NEW t, t = Head(run.deferred)
  PROVE  \/ KeysSynced(t) /\ PassedKeys(t, {}) /\ NoMishap
         \/ KeysTouched(t) /\ PassedKeys(t, {t}) /\ (Mishap \/ NoMishap)
<1> DEFINE Passed(errors, clean) == run' = [run EXCEPT !.deferred = Tail(@), !.errors = @ \cup errors,
                                                       !.clean = @ /\ clean]
           Failed(clean) == Passed({t}, clean)
<1>1. syncForeignKeys(t, Passed({}, TRUE), Failed)
  BY DEF SyncDeferredKeys
<1>2. (Passed({}, TRUE) => PassedKeys(t, {})) /\ (Failed(TRUE) \/ Failed(FALSE) => PassedKeys(t, {t}))
  BY DEF PassedKeys
<1> HIDE DEF Passed
<1> USE DEF Extra, Missing
<1>3. CASE CanAdd(Missing(t)) /\ db' = [db EXCEPT !.refs = (@ \ Extra(t)) \cup Missing(t)]
           /\ Passed({}, TRUE) /\ NoMishap
  BY <1>2, <1>3 DEF KeysSynced
<1>4. CASE /\ Failed(TRUE) /\ NoMishap
           /\ \E added \in SUBSET Missing(t) :
                CanAdd(added) /\ db' = [db EXCEPT !.refs = (@ \ Extra(t)) \cup added]
  BY <1>2, <1>4 DEF KeysTouched
<1>5. CASE /\ Failed(FALSE) /\ Mishap
           /\ \/ \E part \in SUBSET Extra(t) : db' = [db EXCEPT !.refs = (@ \ part) \cup {}]
              \/ \E part \in SUBSET Missing(t) :
                   CanAdd(part) /\ db' = [db EXCEPT !.refs = (@ \ Extra(t)) \cup part]
  <2>1. CanAdd({})
    BY DEF CanAdd
  <2> QED BY <1>2, <1>5, <2>1 DEF KeysTouched
<1> QED BY <1>1, <1>3, <1>4, <1>5 DEF syncForeignKeys

LEMMA SyncDeferredKeysHolds ==
  ASSUME DdlIInv, SyncDeferredKeys
  PROVE  DdlIInv'
<1>1. /\ run.stage = "walk" /\ AtWalk /\ Active /\ Head(run.walk).kind = "deferred"
      /\ UNCHANGED <<model, store, runs>>
  BY DEF SyncDeferredKeys, NextIs, AtWalk, Active
<1>2. /\ GoodWalk(run.walk) /\ DeferredHolds /\ TablesHold /\ RemovedHold /\ runs < MaxRuns
  BY <1>1, ActiveFacts
<1>3. Removed' = Removed
  BY <1>1 DEF Removed
<1>4. CASE run.deferred = <<>>
  <2>1. StepDone /\ UNCHANGED <<db, mishaps>>
    BY <1>4 DEF SyncDeferredKeys
  <2>2. /\ run' \in RunType /\ run'.walk = Tail(run.walk) /\ run'.stage = "walk"
        /\ run'.errors = run.errors /\ run'.deferred = <<>>
    BY <1>1, <1>4, <2>1, StepDoneFacts
  <2>3. DdlTypeOK'
    BY <1>1, <2>1, <2>2, TypeParts, TypeStays DEF DdlIInv
  <2>4. EngineHolds' /\ StoreHolds'
    BY <1>1, <2>1, EngineStays, StoreStays DEF DdlIInv
  <2>5. PredropHolds' /\ StepHolds'
    BY <1>1, <2>1, <2>2, ActiveFacts DEF PredropHolds, StepHolds, KeysToRebuild, Rekeys, DropsTable
  <2>6. /\ GoodWalk(Tail(run.walk))
        /\ \A t : HasTable(run.walk, t) => HasTable(Tail(run.walk), t)
        /\ \A n : HasDrop(run.walk, n) => HasDrop(Tail(run.walk), n)
    BY <1>1, <1>2, TailFacts DEF AtWalk
  <2>7. GoodWalk(run.walk)'
    BY <1>1, <1>3, <2>2, <2>6 DEF GoodWalk, Drops, Shapes
  <2>8. DeferredHolds'
    BY <2>2 DEF DeferredHolds, ToSet
  <2>9. \A t : IsTheModels(t) => IsTheModels(t)'
    BY <1>1, <2>1, ModelStays DEF IsTheModels, DropsTable, Outbound
  <2>10. TablesHold'
    <3>1. ToSet(run.deferred) = {}
      BY <1>4 DEF ToSet
    <3>2. ASSUME NEW t \in model.tables
          PROVE  t \in run.errors \/ HasTable(Tail(run.walk), t) \/ IsTheModels(t)'
      BY <1>2, <2>6, <2>9, <3>1 DEF TablesHold
    <3> QED BY <1>1, <2>2, <3>2 DEF TablesHold, HasTable
  <2>11. RemovedHold'
    <3>1. ASSUME NEW n \in Removed
          PROVE  n \in run.errors \/ HasDrop(Tail(run.walk), n) \/ n \notin db.tables
      BY <1>2, <2>6 DEF RemovedHold
    <3> QED BY <1>3, <2>1, <2>2, <3>1 DEF RemovedHold, HasDrop
  <2>12. WalkHolds'
    BY <1>1, <1>2, <2>2, <2>7, <2>8, <2>10, <2>11 DEF WalkHolds
  <2> QED BY <2>3, <2>4, <2>5, <2>12 DEF DdlIInv
<1>5. CASE run.deferred # <<>>
  <2>1. run.deferred \in Seq(Names) /\ run \in RunType
    BY TypeParts DEF DdlIInv, RunType
  <2>2. PICK t \in Names : t = Head(run.deferred)
    BY <1>5, <2>1
  <2>3. /\ t \in ToSet(run.deferred) /\ Tail(run.deferred) \in Seq(Names)
        /\ ToSet(Tail(run.deferred)) \subseteq ToSet(run.deferred)
        /\ \A u \in ToSet(run.deferred) : u = t \/ u \in ToSet(Tail(run.deferred))
    BY <1>5, <2>1, <2>2, DequeFacts
  <2>4. t \in model.tables /\ t \in db.tables /\ ~DropsTable(t)
    BY <1>2, <2>3 DEF DeferredHolds
  <2>5. PICK errors \in SUBSET {t} :
          /\ PassedKeys(t, errors) /\ (Mishap \/ NoMishap)
          /\ KeysTouched(t)
          /\ errors = {t} \/ KeysSynced(t)
    <3>1. KeysSynced(t) => KeysTouched(t)
      BY DEF KeysSynced, KeysTouched, Missing
    <3> QED BY <1>5, <2>2, <3>1, SyncDeferredSteps
  <2>6. TableChange(t) /\ db'.tables = db.tables
    BY <2>4, <2>5, KeysChange DEF KeysTouched, Extra
  <2>7. t \in errors \/ IsTheModels(t)'
    BY <1>1, <2>4, <2>5, AllKeysSynced DEF KeysSynced
  <2>8. /\ run' \in RunType /\ run'.walk = run.walk /\ run'.stage = "walk"
        /\ run'.errors = run.errors \cup errors /\ run'.deferred = Tail(run.deferred)
    <3>1. PICK clean \in BOOLEAN :
            run' = [run EXCEPT !.deferred = Tail(run.deferred), !.errors = run.errors \cup errors,
                               !.clean = run.clean /\ clean]
      BY <2>5 DEF PassedKeys
    <3> DEFINE after == run.clean /\ clean
               rest == Tail(run.deferred)
    <3>2. after \in BOOLEAN /\ rest \in Seq(Names)
      BY <2>3
    <3>3. run' = [run EXCEPT !.deferred = rest, !.errors = run.errors \cup errors, !.clean = after]
      BY <3>1
    <3> HIDE DEF after, rest
    <3>4. /\ run' \in RunType /\ run'.walk = run.walk /\ run'.stage = "walk"
          /\ run'.errors = run.errors \cup errors /\ run'.deferred = rest
      BY <1>1, <2>1, <3>2, <3>3 DEF RunType
    <3> QED BY <3>4 DEF rest
  <2>9. DdlTypeOK'
    BY <1>1, <2>5, <2>6, <2>8, TypeParts, TypeStays, MishapFacts DEF DdlIInv, TableChange
  <2>10. /\ EngineHolds' /\ StoreHolds' /\ PredropHolds'
         /\ \A u \in model.tables \ {t} : IsTheModels(u) => IsTheModels(u)'
         /\ \A u : ~DropsTable(u) => ~DropsTable(u)'
    BY <1>1, <2>4, <2>6, <2>8, TableChangeHolds
  <2>11. StepHolds'
    BY <2>8 DEF StepHolds
  <2>12. GoodWalk(run.walk)'
    BY <1>1, <1>2, <1>3, <2>8 DEF GoodWalk, Drops, Shapes
  <2>13. DeferredHolds'
    BY <1>1, <1>2, <1>5, <2>3, <2>6, <2>8, <2>10 DEF DeferredHolds
  <2>14. TablesHold'
    <3>1. ASSUME NEW u \in model.tables
          PROVE  u \in run'.errors \/ HasTable(run.walk, u) \/ u \in ToSet(run'.deferred) \/ IsTheModels(u)'
      <4>1. u \in run.errors \/ HasTable(run.walk, u) \/ u \in ToSet(run.deferred) \/ IsTheModels(u)
        BY <1>2 DEF TablesHold
      <4>2. CASE u = t
        BY <2>7, <2>8, <4>2
      <4>3. CASE u # t
        BY <2>3, <2>8, <2>10, <4>1, <4>3
      <4> QED BY <4>2, <4>3
    <3> QED BY <1>1, <2>8, <3>1 DEF TablesHold, HasTable
  <2>15. RemovedHold'
    <3>1. ASSUME NEW n \in Removed
          PROVE  n \in run'.errors \/ HasDrop(run.walk, n) \/ n \notin db'.tables
      BY <1>2, <2>6, <2>8 DEF RemovedHold
    <3> QED BY <1>3, <2>8, <3>1 DEF RemovedHold, HasDrop
  <2>16. WalkHolds'
    BY <1>1, <1>2, <2>8, <2>12, <2>13, <2>14, <2>15 DEF WalkHolds
  <2> QED BY <2>9, <2>10, <2>11, <2>16 DEF DdlIInv
<1> QED BY <1>4, <1>5

(* What dropRemovedGroup may do to the database. *)
GroupDropped(group) ==
  /\ CanDrop(group)
  /\ db' = [db EXCEPT !.tables = @ \ group, !.refs = {r \in @ : r[1] \notin group}]

LEMMA DropRemovedGroupHolds ==
  ASSUME DdlIInv, dropRemovedGroup
  PROVE  DdlIInv'
<1>1. /\ run.stage = "walk" /\ AtWalk /\ Active /\ Head(run.walk).kind = "drop"
      /\ UNCHANGED <<model, store, runs>>
  BY DEF dropRemovedGroup, NextIs, AtWalk, Active
<1>2. /\ GoodWalk(run.walk) /\ DeferredHolds /\ TablesHold /\ RemovedHold /\ runs < MaxRuns /\ KeysToRebuild = {}
  BY <1>1, ActiveFacts
<1>3. Removed' = Removed
  BY <1>1 DEF Removed
<1>4. run \in RunType /\ Tail(run.walk) \in Seq(WalkSteps) /\ db \in DbType /\ Removed \subseteq Names
  BY <1>1, TypeParts, HeadFacts DEF DdlIInv, Removed
<1>5. PICK group \in SUBSET Removed : group = Head(run.walk).group
  BY <1>1, HeadFacts
<1>6. \/ /\ \E clean \in BOOLEAN :
              run' = [run EXCEPT !.errors = @ \cup group, !.walk = Tail(@), !.clean = @ /\ clean]
         /\ UNCHANGED db /\ (Mishap \/ NoMishap)
      \/ /\ GroupDropped(group) /\ NoMishap
         /\ run' = [run EXCEPT !.dropped = @ \cup group, !.walk = Tail(@)]
  BY <1>5 DEF dropRemovedGroup, GroupDropped
<1>7. Mishap \/ NoMishap
  BY <1>6
<1>8. /\ run' \in RunType /\ run'.walk = Tail(run.walk) /\ run'.stage = "walk" /\ run'.deferred = run.deferred
      /\ run.errors \subseteq run'.errors
      /\ \/ UNCHANGED db /\ group \subseteq run'.errors
         \/ GroupDropped(group)
  <2> DEFINE rest == Tail(run.walk)
  <2>1. rest \in Seq(WalkSteps) /\ group \subseteq Names
    BY <1>4, <1>5
  <2>2. CASE /\ \E clean \in BOOLEAN :
                  run' = [run EXCEPT !.errors = @ \cup group, !.walk = Tail(@), !.clean = @ /\ clean]
             /\ UNCHANGED db
    <3>1. PICK clean \in BOOLEAN :
            run' = [run EXCEPT !.errors = @ \cup group, !.walk = rest, !.clean = run.clean /\ clean]
      BY <2>2
    <3> DEFINE after == run.clean /\ clean
    <3>2. after \in BOOLEAN
      OBVIOUS
    <3>3. run' = [run EXCEPT !.errors = @ \cup group, !.walk = rest, !.clean = after]
      BY <3>1
    <3> HIDE DEF after, rest
    <3>4. /\ run' \in RunType /\ run'.walk = rest /\ run'.stage = "walk" /\ run'.deferred = run.deferred
          /\ run'.errors = run.errors \cup group
      BY <1>1, <1>4, <2>1, <3>2, <3>3 DEF RunType
    <3> QED BY <2>2, <3>4 DEF rest
  <2>3. CASE GroupDropped(group) /\ run' = [run EXCEPT !.dropped = @ \cup group, !.walk = Tail(@)]
    <3>1. run' = [run EXCEPT !.dropped = @ \cup group, !.walk = rest]
      BY <2>3
    <3> HIDE DEF rest
    <3>2. /\ run' \in RunType /\ run'.walk = rest /\ run'.stage = "walk" /\ run'.deferred = run.deferred
          /\ run'.errors = run.errors
      BY <1>1, <1>4, <2>1, <3>1 DEF RunType
    <3> QED BY <2>3, <3>2 DEF rest
  <2> QED BY <1>6, <2>2, <2>3
<1>9. /\ db' \in DbType /\ db'.shaped = db.shaped /\ db'.refs \subseteq db.refs
      /\ db'.tables \subseteq db.tables /\ db.tables \ db'.tables \subseteq group
      /\ \A r \in db.refs \ db'.refs : r[1] \in group
      /\ \A r \in db'.refs : r[2] \in db.tables => r[2] \in db'.tables
      /\ \A n \in group : n \in run'.errors \/ n \notin db'.tables
  <2>1. CASE UNCHANGED db /\ group \subseteq run'.errors
    BY <1>4, <2>1
  <2>2. CASE GroupDropped(group)
    <3>1. /\ db' \in DbType /\ db'.shaped = db.shaped /\ db'.tables = db.tables \ group
          /\ db'.refs = {r \in db.refs : r[1] \notin group}
      BY <1>4, <2>2 DEF GroupDropped, DbType
    <3>2. \A r \in db.refs : r[2] \in group => r[1] \in group
      BY <2>2 DEF GroupDropped, CanDrop
    <3> QED BY <3>1, <3>2
  <2> QED BY <1>8, <2>1, <2>2
<1>10. group \cap model.tables = {}
  BY <1>5 DEF Removed
<1>11. ShapesStay
  BY <1>9 DEF ShapesStay
<1>12. DdlTypeOK'
  BY <1>1, <1>7, <1>8, <1>9, TypeParts, TypeStays, MishapFacts DEF DdlIInv
<1>13. EngineHolds'
  BY <1>1, <1>9, EngineStays DEF DdlIInv
<1>14. StoreHolds'
  BY <1>1, <1>9, StoreStays DEF DdlIInv
<1>15. PredropHolds' /\ StepHolds'
  <2>1. KeysToRebuild' = {}
    BY <1>1, <1>2, <1>9, <1>11, KeysStay DEF DdlIInv
  <2> QED BY <1>8, <2>1 DEF PredropHolds, StepHolds
<1>16. /\ GoodWalk(Tail(run.walk))
       /\ \A t : HasTable(run.walk, t) => HasTable(Tail(run.walk), t)
       /\ \A n : HasDrop(run.walk, n) => HasDrop(Tail(run.walk), n) \/ n \in group
       /\ (\E i \in DOMAIN run.walk : run.walk[i].kind = "deferred") =>
             \E i \in DOMAIN Tail(run.walk) : Tail(run.walk)[i].kind = "deferred"
  BY <1>1, <1>2, <1>5, TailFacts DEF AtWalk
<1>17. GoodWalk(run.walk)'
  BY <1>1, <1>3, <1>8, <1>16 DEF GoodWalk, Drops, Shapes
<1>18. DeferredHolds'
  <2>1. \A t \in ToSet(run.deferred) : t \in model.tables /\ t \in db'.tables /\ ~DropsTable(t)'
    BY <1>1, <1>2, <1>9, <1>10, <1>11, DropsTableStays DEF DeferredHolds
  <2> QED BY <1>1, <1>2, <1>8, <1>16, <2>1 DEF DeferredHolds
<1>19. TablesHold'
  <2>1. ASSUME NEW t \in model.tables, IsTheModels(t) PROVE IsTheModels(t)'
    <3>1. t \in db'.tables
      BY <1>9, <1>10, <2>1 DEF IsTheModels
    <3>2. \A r : r[1] = t => (r \in db.refs <=> r \in db'.refs)
      BY <1>9, <1>10
    <3> QED BY <1>1, <1>11, <2>1, <3>1, <3>2, IsTheModelsStays
  <2>2. ASSUME NEW t \in model.tables
        PROVE  t \in run'.errors \/ HasTable(Tail(run.walk), t) \/ t \in ToSet(run.deferred) \/ IsTheModels(t)'
    BY <1>2, <1>8, <1>16, <2>1 DEF TablesHold
  <2> QED BY <1>1, <1>8, <2>2 DEF TablesHold, HasTable
<1>20. RemovedHold'
  <2>1. ASSUME NEW n \in Removed
        PROVE  n \in run'.errors \/ HasDrop(Tail(run.walk), n) \/ n \notin db'.tables
    BY <1>2, <1>8, <1>9, <1>16 DEF RemovedHold
  <2> QED BY <1>3, <1>8, <2>1 DEF RemovedHold, HasDrop
<1>21. WalkHolds'
  BY <1>1, <1>2, <1>8, <1>17, <1>18, <1>19, <1>20 DEF WalkHolds
<1> QED BY <1>12, <1>13, <1>14, <1>15, <1>21 DEF DdlIInv

LEMMA DdlStutterHolds ==
  ASSUME DdlIInv, UNCHANGED ddlVars
  PROVE  DdlIInv'
<1>1. UNCHANGED <<model, db, store, run, runs, mishaps>>
  BY DEF ddlVars
<1>2. DdlTypeOK'
  BY <1>1 DEF DdlIInv, DdlTypeOK
<1>3. EngineHolds'
  BY <1>1, EngineStays DEF DdlIInv
<1>4. (\A p : GoalKey(p)' = GoalKey(p)) /\ (\A t : DropsTable(t)' = DropsTable(t)) /\ Removed' = Removed
      /\ (\A t : Outbound(t)' = Outbound(t)) /\ (\A t : Goal(t)' = Goal(t))
  BY <1>1, ModelStays DEF DropsTable, Removed, Outbound
<1>5. StoreHolds'
  BY <1>1, <1>4 DEF DdlIInv, StoreHolds, SettledIsTheModel
<1>6. PredropHolds' /\ StepHolds'
  BY <1>1 DEF DdlIInv, PredropHolds, StepHolds, KeysToRebuild, Rekeys, DropsTable, HasTable, OnTable
<1>7. \A t : IsTheModels(t)' <=> IsTheModels(t)
  BY <1>1, <1>4 DEF IsTheModels
<1>8. ASSUME ~Walking PROVE WalkHolds'
  BY <1>1, <1>7, <1>8 DEF DdlIInv, WalkHolds, Walking
<1>9. ASSUME Walking PROVE WalkHolds'
  <2>1. GoodWalk(run.walk) /\ DeferredHolds /\ TablesHold /\ RemovedHold
    BY <1>9 DEF DdlIInv, WalkHolds
  <2>2. GoodWalk(run.walk)'
    BY <1>1, <1>4, <2>1 DEF GoodWalk, Drops, Shapes
  <2>3. DeferredHolds' /\ TablesHold' /\ RemovedHold'
    BY <1>1, <1>4, <1>7, <2>1 DEF DeferredHolds, TablesHold, RemovedHold, HasTable, HasDrop
  <2> QED BY <1>1, <1>9, <2>2, <2>3 DEF DdlIInv, WalkHolds, Walking
<1> QED BY <1>2, <1>3, <1>5, <1>6, <1>8, <1>9 DEF DdlIInv

LEMMA DdlStepHolds ==
  ASSUME DdlIInv, ModelHolds, [DdlNext]_ddlVars
  PROVE  DdlIInv'
<1>1. CASE StartRun
  BY <1>1, StartRunHolds
<1>2. CASE DropInboundKeys
  BY <1>2, DropInboundKeysHolds
<1>3. CASE dropRemovedGroup
  BY <1>3, DropRemovedGroupHolds
<1>4. CASE DropStaleKeys
  BY <1>4, DropStaleKeysHolds
<1>5. CASE RebuildKey
  BY <1>5, RebuildKeyHolds
<1>6. CASE DropOutdated
  BY <1>6, DropOutdatedHolds
<1>7. CASE ensureTable
  BY <1>7, EnsureTableHolds
<1>8. CASE SyncKeys
  BY <1>8, SyncKeysHolds
<1>9. CASE SyncDeferredKeys
  BY <1>9, SyncDeferredKeysHolds
<1>10. CASE StoreSnapshots
  BY <1>10, StoreSnapshotsHolds
<1>11. CASE StoreTracked
  BY <1>11, StoreTrackedHolds
<1>12. CASE StoreHash
  BY <1>12, StoreHashHolds
<1>13. CASE RunDies
  BY <1>13, RunDiesHolds
<1>14. CASE UNCHANGED ddlVars
  BY <1>14, DdlStutterHolds
<1> QED BY <1>1, <1>2, <1>3, <1>4, <1>5, <1>6, <1>7, <1>8, <1>9, <1>10, <1>11, <1>12, <1>13, <1>14 DEF DdlNext

LEMMA ModelStepHolds ==
  ASSUME ModelHolds, [DdlNext]_ddlVars
  PROVE  ModelHolds'
<1>1. UNCHANGED model
  BY DEF DdlNext, ddlVars, StartRun, DropInboundKeys, dropRemovedGroup, DropStaleKeys, RebuildKey, DropOutdated,
     ensureTable, SyncKeys, SyncDeferredKeys, StoreSnapshots, StoreTracked, StoreHash, RunDies
<1> QED BY <1>1 DEF ModelHolds

(* The inductive invariant of the execution walk holds, whatever fails or  *)
(* dies in a run, and the model it runs for stays one of finitely many     *)
(* names.                                                                  *)
THEOREM DdlInductive == DdlSpec => [](DdlIInv /\ ModelHolds)
<1>1. DdlInit => DdlIInv /\ ModelHolds
  BY DdlInitHolds, ModelInitHolds
<1>2. DdlIInv /\ ModelHolds /\ [DdlNext]_ddlVars => DdlIInv' /\ ModelHolds'
  BY DdlStepHolds, ModelStepHolds
<1> QED BY <1>1, <1>2, PTL DEF DdlSpec

(* Whenever a run starts, topoOrder puts every table of the model after    *)
(* those it references, and every removed table after those it is to be    *)
(* dropped after, with the tables of a foreign-key cycle in one group:     *)
(* Tarjan's walk is over in its 2N + N^2 steps, whatever the graph.        *)
THEOREM OrdersRight == DdlSpec => []OrdersAreRight
<1>1. DdlIInv /\ ModelHolds => OrdersAreRight
  BY OrdersAreRightHolds DEF DdlIInv
<1> QED BY <1>1, DdlInductive, PTL

(* Every variable of the execution walk keeps its type: the walk is made   *)
(* of drops of groups, of tables and of the deferred constraints.          *)
THEOREM DdlTypeCorrect == DdlSpec => []DdlTypeOK
<1>1. DdlIInv => DdlTypeOK
  BY DEF DdlIInv
<1> QED BY <1>1, DdlInductive, PTL

(* Once executeSyncRun has stored the hash of the model, after whatever    *)
(* statements failed and whatever runs died before, the database is the    *)
(* model's: its tables in their shape, the declared constraints on the     *)
(* declared keys and no others, and none of the removed tables.            *)
THEOREM SettledIsRight == DdlSpec => []SettledIsTheModel
<1>1. DdlIInv => SettledIsTheModel
  <2> SUFFICES ASSUME DdlIInv, store.settled PROVE SettledIsTheModel
    BY DEF SettledIsTheModel
  <2> QED BY DEF DdlIInv, StoreHolds
<1> QED BY <1>1, DdlInductive, PTL

-----------------------------------------------------------------------------
(* What no statement may touch.                                            *)

Managed == model.tables \cup model.before
Rebuilt == {t \in model.tables : model.change[t] # "none"}
Untouched ==
  /\ db.tables \ Managed \subseteq db'.tables
  /\ \A t \in (db.tables \ db'.tables) \cap model.tables : model.change[t] \in {"retype", "retypekey"}
  /\ \A r \in db.refs \ db'.refs :
       /\ r[1] \in Managed
       /\ r \in Goal(r[1]) => r[1] \in Rebuilt \/ r[2] \in Rebuilt

LEMMA NothingLost ==
  ASSUME db.tables \subseteq db'.tables, db.refs \subseteq db'.refs
  PROVE  Untouched
  BY DEF Untouched

LEMMA KeysTouchedLeaves ==
  ASSUME DdlIInv, NEW t \in model.tables, KeysTouched(t)
  PROVE  Untouched
<1>1. PICK gone \in SUBSET Extra(t), added \in SUBSET Goal(t) :
        CanAdd(added) /\ db' = [db EXCEPT !.refs = (@ \ gone) \cup added]
  BY DEF KeysTouched
<1>2. gone \subseteq Outbound(t)
  BY DEF Extra
<1>3. db'.tables = db.tables /\ db'.refs = (db.refs \ gone) \cup added
  BY <1>1, <1>2, KeysChange
<1>4. ASSUME NEW r \in db.refs \ db'.refs PROVE r[1] = t /\ r \notin Goal(t)
  <2>1. r[1] = t /\ <<t, r[2]>> \notin model.wants
    BY <1>3 DEF Extra, Outbound
  <2> QED BY <2>1, GoalFacts DEF DdlIInv
<1> QED BY <1>3, <1>4 DEF Untouched, Managed

(* A constraint that a stale snapshot condemns is declared only for        *)
(* another key of its parent: the parent's key is rebuilt.                 *)
LEMMA StaleKeysLeave ==
  ASSUME DdlIInv, NEW t \in model.tables, NEW r \in Outbound(t), NEW s \in store.snaps,
         s[1] = t, s[2] = r[2], s \notin Goal(t), r \in Goal(t)
  PROVE  r[2] \in Rebuilt
<1>1. /\ s \in ForeignKeys /\ s[3] \in {"old", GoalKey(s[2])}
  BY TypeParts DEF DdlIInv, StoreHolds
<1>2. <<t, r[2]>> \in model.wants
  BY GoalFacts DEF DdlIInv
<1>3. s[3] # GoalKey(s[2])
  BY <1>1, <1>2, GoalFacts DEF DdlIInv
<1>4. GoalKey(r[2]) = "new"
  BY <1>1, <1>3, GoalKeyFacts
<1> QED BY <1>4, GoalKeyFacts DEF Rebuilt

LEMMA StepsLeave ==
  ASSUME DdlIInv, DdlNext
  PROVE  Untouched
<1>1. CASE UNCHANGED db
  BY <1>1, NothingLost
<1>2. CASE DropInboundKeys
  <2>1. PICK gone \in SUBSET run.predrop : db' = [db EXCEPT !.refs = @ \ gone]
    BY <1>2 DEF DropInboundKeys
  <2>2. db'.tables = db.tables /\ db'.refs = db.refs \ gone
    BY <2>1, TypeParts DEF DdlIInv, DbType
  <2>3. \A r \in gone : r[1] \in model.tables /\ r[2] \in Rebuilt
    BY <1>2 DEF DropInboundKeys, DdlIInv, PredropHolds, Rebuilt
  <2> QED BY <2>2, <2>3 DEF Untouched, Managed
<1>3. CASE dropRemovedGroup
  <2>1. AtWalk /\ Head(run.walk).kind = "drop"
    BY <1>3 DEF dropRemovedGroup, NextIs, AtWalk, Active
  <2>2. PICK group \in SUBSET Removed : group = Head(run.walk).group
    BY <2>1, HeadFacts
  <2>3. UNCHANGED db \/ GroupDropped(group)
    BY <1>3, <2>2 DEF dropRemovedGroup, GroupDropped
  <2>4. CASE GroupDropped(group)
    <3>1. db'.tables = db.tables \ group /\ db'.refs = {r \in db.refs : r[1] \notin group}
      BY <2>4, TypeParts DEF DdlIInv, DbType, GroupDropped
    <3>2. group \subseteq Managed /\ group \cap model.tables = {}
      BY <2>2 DEF Removed, DdlIInv, StoreHolds, Managed
    <3>3. ASSUME NEW r \in db.refs \ db'.refs PROVE r[1] \in Managed /\ r \notin Goal(r[1])
      <4>1. r[1] \in group
        BY <3>1
      <4>2. r \notin Goal(r[1])
        BY <3>2, <4>1, TypeParts DEF Goal, DdlIInv
      <4> QED BY <3>2, <4>1, <4>2
    <3> QED BY <3>1, <3>2, <3>3 DEF Untouched
  <2> QED BY <1>1, <2>3, <2>4
<1>4. CASE DropStaleKeys
  <2>1. AtWalk /\ OnTable
    BY <1>4 DEF DropStaleKeys, NextIs, OnTable, AtWalk, Active
  <2>2. PICK t \in model.tables : t = At
    BY <2>1, HeadFacts
  <2>3. PICK gone \in SUBSET {r \in Outbound(t) : \E s \in store.snaps : s[1] = t /\ s[2] = r[2] /\ s \notin Goal(t)} :
          db' = [db EXCEPT !.refs = @ \ gone]
    BY <1>4, <2>2 DEF DropStaleKeys, At
  <2>4. db'.tables = db.tables /\ db'.refs = db.refs \ gone
    BY <2>3, TypeParts DEF DdlIInv, DbType
  <2>5. ASSUME NEW r \in db.refs \ db'.refs PROVE r[1] = t /\ (r \in Goal(t) => r[2] \in Rebuilt)
    <3>1. r \in gone /\ r \in Outbound(t)
      BY <2>4
    <3>2. PICK s \in store.snaps : s[1] = t /\ s[2] = r[2] /\ s \notin Goal(t)
      BY <3>1
    <3> QED BY <3>1, <3>2, StaleKeysLeave DEF Outbound
  <2> QED BY <2>4, <2>5 DEF Untouched, Managed
<1>5. CASE RebuildKey
  <2>1. UNCHANGED db \/ \E t : db' = [db EXCEPT !.shaped = @ \cup {t}]
    BY <1>5 DEF RebuildKey
  <2>2. db'.tables = db.tables /\ db'.refs = db.refs
    BY <2>1, TypeParts DEF DdlIInv, DbType
  <2> QED BY <2>2, NothingLost
<1>6. CASE DropOutdated
  <2>1. run.stage = "shape" /\ AtWalk /\ OnTable
    BY <1>6, AtShape DEF DropOutdated
  <2>2. PICK t \in model.tables : t = At
    BY <2>1, HeadFacts
  <2>3. DropsTable(t) /\ ~Rekeys(t)
    BY <1>6, <2>1, <2>2 DEF DdlIInv, StepHolds, At, DropOutdated
  <2>4. model.change[t] \in {"retype", "retypekey"}
    BY <2>3, TypeParts DEF DdlIInv, Changes, DropsTable, Rekeys
  <2>5. UNCHANGED db \/ db' = [db EXCEPT !.tables = @ \ {t}, !.refs = @ \ Outbound(t)]
    BY <1>6, <2>2 DEF DropOutdated, At
  <2>6. CASE db' = [db EXCEPT !.tables = @ \ {t}, !.refs = @ \ Outbound(t)]
    <3>1. db'.tables = db.tables \ {t} /\ db'.refs = db.refs \ Outbound(t)
      BY <2>6, TypeParts DEF DdlIInv, DbType
    <3> QED BY <2>4, <3>1 DEF Untouched, Managed, Rebuilt, Outbound
  <2> QED BY <1>1, <2>5, <2>6
<1>7. CASE ensureTable
  <2> DEFINE t == Head(run.walk).name
             inline == {r \in Goal(t) : r[2] \notin Head(run.walk).cycle}
  <2>1. \/ UNCHANGED db
        \/ db' = [tables |-> db.tables \cup {t}, shaped |-> db.shaped \cup {t}, refs |-> db.refs \cup inline]
    BY <1>7 DEF ensureTable
  <2> HIDE DEF t, inline
  <2>2. \/ UNCHANGED db
        \/ db.tables \subseteq db'.tables /\ db.refs \subseteq db'.refs
    BY <2>1
  <2> QED BY <1>1, <2>2, NothingLost
<1>8. CASE SyncKeys
  <2>1. AtWalk /\ OnTable
    BY <1>8, AtShape DEF SyncKeys
  <2>2. PICK t \in model.tables : t = At
    BY <2>1, HeadFacts
  <2>3. CASE Head(run.walk).cycle # {}
    BY <1>1, <1>8, <2>3 DEF SyncKeys
  <2>4. CASE Head(run.walk).cycle = {}
    <3>1. KeysTouched(t) \/ KeysSynced(t)
      BY <1>8, <2>2, <2>4, SyncKeysSteps
    <3>2. KeysSynced(t) => KeysTouched(t)
      BY DEF KeysSynced, KeysTouched, Missing
    <3> QED BY <3>1, <3>2, KeysTouchedLeaves
  <2> QED BY <2>3, <2>4
<1>9. CASE SyncDeferredKeys
  <2>1. AtWalk /\ Active
    BY <1>9 DEF SyncDeferredKeys, NextIs, AtWalk, Active
  <2>2. CASE run.deferred = <<>>
    BY <1>1, <1>9, <2>2 DEF SyncDeferredKeys
  <2>3. CASE run.deferred # <<>>
    <3>1. run.deferred \in Seq(Names)
      BY TypeParts DEF DdlIInv, RunType
    <3>2. PICK t \in ToSet(run.deferred) : t = Head(run.deferred)
      BY <2>3, <3>1, DequeFacts
    <3>3. t \in model.tables
      BY <2>1, <3>2, ActiveFacts DEF DeferredHolds
    <3>4. KeysTouched(t) \/ KeysSynced(t)
      BY <1>9, <2>3, <3>2, SyncDeferredSteps
    <3>5. KeysSynced(t) => KeysTouched(t)
      BY DEF KeysSynced, KeysTouched, Missing
    <3> QED BY <3>3, <3>4, <3>5, KeysTouchedLeaves
  <2> QED BY <2>2, <2>3
<1>10. StartRun \/ StoreSnapshots \/ StoreTracked \/ StoreHash \/ RunDies => UNCHANGED db
  BY DEF StartRun, StoreSnapshots, StoreTracked, StoreHash, RunDies
<1> QED BY <1>1, <1>2, <1>3, <1>4, <1>5, <1>6, <1>7, <1>8, <1>9, <1>10 DEF DdlNext

(* No statement of a run, and no mishap, takes what the change does not    *)
(* concern: tables outside the inventory and their constraints, kept       *)
(* tables that are not to be recreated, and the declared constraints       *)
(* between tables that are not rebuilt.                                    *)
THEOREM RestIsLeftAlone == DdlSpec => LeavesTheRestAlone
<1>1. DdlIInv /\ [DdlNext]_ddlVars => [Untouched]_ddlVars
  BY StepsLeave
<1>2. [][DdlNext]_ddlVars /\ []DdlIInv => [][Untouched]_ddlVars
  BY <1>1, PTL
<1> QED BY <1>2, DdlInductive, PTL DEF DdlSpec, LeavesTheRestAlone, Untouched, Managed, Rebuilt
=============================================================================
