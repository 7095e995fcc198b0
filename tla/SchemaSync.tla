----------------------------- MODULE SchemaSync -----------------------------
(***************************************************************************)
(* Schema synchronization: what concurrent runs of syncSchema do to the    *)
(* tables, the data steps and the control table under the sync lock.       *)
(*                                                                         *)
(* Source: packages/db/src/schema/schema-sync.ts (run, acquireLock,        *)
(* applyDataSteps, discover, execute), sync-executor.ts (executeSyncTable) *)
(* and sync-store.ts (runOnce, writeTrackedList, writeHash).               *)
(*                                                                         *)
(* The lock is SyncLock's, seen from outside: a holder, who may lose it    *)
(* (its lease runs out) and notices that only at some later heartbeat.     *)
(* A table is its columns, its foreign keys (each known by the columns it  *)
(* is over) and the version whose indexes it carries; every DDL statement  *)
(* is a step of its own.  A new table comes with its keys, SQLite rebuilds *)
(* a table whose keys change, PostgreSQL and MySQL alter them.  The stored *)
(* snapshot of a table is the version it describes, read for the keys; the *)
(* columns are those introspected (the snapshot's, on MongoDB, are not).   *)
(* Views, renames, type changes, keys that change only in what they refer  *)
(* to and keys deferred for a cycle are left out (DdlOrder has the last).  *)
(***************************************************************************)
EXTENDS SyncRuns, Integers, Sequences, FiniteSets, SequencesExt

CONSTANTS
  Versions,    \* schema versions; a version stands for its hash
  Desired,     \* [Versions -> [tables -> columns]], {}: not in the version
  Keys,        \* [Versions -> [tables -> foreign keys]]
  Carries,     \* the version each run deploys, [Runs -> Versions]
  Before,      \* the version stored and live at the start
  Order,       \* all tables, a sequence, parents first
  Steps,       \* the runs' data steps, a sequence
  Early,       \* the steps of phase "beforeConstraints"
  Adapters,    \* what the adapter does about transactions and keys: pairs
               \* <<has transactions, keying>>, one run of the model
               \* checker covers them all
  SafeRuns,    \* runs with safe: true
  ForceRuns,   \* runs with force: true
  MaxLost,     \* bound: leases lost by a run that is alive
  MaxDdlFails, \* bound: DDL statements the engine refuses
  MaxStepFails,\* bound: data steps that throw
  MaxFaults,   \* bound: all of these and crashes together
  NoRun        \* nobody

Tables == ToSet(Order)
StepIds == ToSet(Steps)
KeyNames == UNION {UNION {Keys[v][t] : t \in Tables} : v \in Versions}

(* How foreign keys change: syncForeignKeys (PostgreSQL, MySQL), only by   *)
(* rebuilding the table (SQLite), or not at all (MongoDB has none).        *)
Keyings == {"alter", "recreate", "none"}

ASSUME ModelAssumption ==
  /\ Order \in Seq(Tables) /\ Steps \in Seq(StepIds)
  /\ Desired \in [Versions -> [Tables -> SUBSET UNION {UNION {Desired[v][t] : t \in Tables} : v \in Versions}]]
  /\ Carries \in [Runs -> Versions] /\ Before \in Versions
  /\ Keys \in [Versions -> [Tables -> SUBSET KeyNames]]
  /\ Early \subseteq StepIds /\ Adapters \subseteq BOOLEAN \X Keyings
  /\ SafeRuns \subseteq Runs /\ ForceRuns \subseteq Runs /\ MayCrash \subseteq Runs
  /\ IsFiniteSet(Runs) /\ NoRun \notin Runs /\ "none" \notin Versions
ASSUME BoundsAssumption ==
  MaxLost \in Nat /\ MaxDdlFails \in Nat /\ MaxStepFails \in Nat /\ MaxFaults \in Nat

VARIABLES
  realTx, keying, \* the adapter's kind, fixed in Init
  hash,      \* schema_version of the control table
  tracked,   \* synced_tables of the control table
  recorded,  \* data steps with a record
  live,      \* [Tables -> columns], {}: no such table
  keyed,     \* [Tables -> the foreign keys they have]
  indexed,   \* [Tables -> the version whose indexes are in place]
  snapshot,  \* [Tables -> the version of the stored table snapshot]
  applied,   \* [StepIds -> how often the step's changes were committed]
  claim,     \* [StepIds -> run with an uncommitted record]
  holder,    \* who holds the sync lock
  pc,        \* where each run is
  job,       \* the local state of each run
  status,    \* what each run reports
  lost, ddlFails, stepFails  \* bounded counters of what goes wrong

steps == <<realTx, recorded, applied, claim>>
schema == <<keying, live, keyed, indexed>>
counters == <<lost, ddlFails, stepFails>>
vars == <<hash, tracked, snapshot, schema, steps, holder, pc, job, status, counters>>

-----------------------------------------------------------------------------
(* A run *)

(* x comes first, or last, among the elements of S in a sequence.          *)
Position(seq, x) == CHOOSE i \in DOMAIN seq : seq[i] = x
IsFirst(seq, x, S) == x \in S /\ \A y \in S \ {x} : Position(seq, x) < Position(seq, y)
IsLast(seq, x, S) == x \in S /\ \A y \in S \ {x} : Position(seq, x) > Position(seq, y)

Columns == UNION {UNION {Desired[v][t] : t \in Tables} : v \in Versions}
Inventory(r) == {t \in Tables : Desired[Carries[r]][t] # {}}

(* The keys the database has of a table of version v.                      *)
WantedKeys(v, t) == IF keying = "none" THEN {} ELSE Keys[v][t]

NewJob ==
  [unread   |-> {"steps", "hash"}, \* the double check's answers to come
   match    |-> FALSE,             \* the stored hash is the run's
   todo     |-> {},                \* steps not recorded when the run looked
   phase    |-> "late",            \* which steps the run is applying
   prev     |-> {},                \* the tracked list it discovered
   seen     |-> [t \in Tables |-> {}], \* the columns it discovered
   stored   |-> [t \in Tables |-> "none"], \* the snapshots it discovered
   tables   |-> {},                \* what is left of orderedSteps: tables,
   pass     |-> FALSE,             \* the deferred pass,
   drops    |-> {},                \* removed tables
   ops      |-> {},                \* column statements left for the table
   deferred |-> {},                \* tables waiting for their constraints
   failed   |-> {},                \* tables with an error entry
   retained |-> {},                \* removed tables that were not dropped
   unsaved  |-> {},                \* tables whose snapshot is to be updated
   stepError|-> FALSE,             \* a beforeConstraints step threw
   abort    |-> FALSE]             \* the heartbeat found the lock gone

Locations == {"start", "quickSteps", "acquire", "wait", "peerHash", "peerSteps",
  "check", "tracking", "introspect", "walk", "table", "constraints",
  "steps", "fn", "record", "deferred", "snapshots", "track", "hash", "finally", "done", "dead"}

(* Between acquireLock and releaseLock. *)
Working(r) == pc[r] \in {"check", "tracking", "introspect", "walk", "table",
  "constraints", "steps", "fn", "record", "deferred", "snapshots", "track", "hash"}

Succeeded == {"up-to-date", "synced-by-peer", "synced"}
Statuses == Succeeded \cup {"none", "failed", "refused", "aborted", "step failed", "timed out"}

Statements == ({"create", "recreate", "unkey"} \X {"-"}) \cup ({"add", "drop"} \X Columns)

Jobs ==
  [unread : SUBSET {"steps", "hash"}, match : BOOLEAN, todo : SUBSET StepIds,
   phase : {"early", "late"}, prev : SUBSET Tables, seen : [Tables -> SUBSET Columns],
   stored : [Tables -> Versions \cup {"none"}], unsaved : SUBSET Tables,
   tables : SUBSET Tables, pass : BOOLEAN, drops : SUBSET Tables,
   ops : SUBSET Statements,
   deferred : SUBSET Tables, failed : SUBSET Tables, retained : SUBSET Tables,
   stepError : BOOLEAN, abort : BOOLEAN]

TypeOK ==
  /\ <<realTx, keying>> \in Adapters
  /\ hash \in Versions
  /\ tracked \in SUBSET Tables
  /\ recorded \in SUBSET StepIds
  /\ live \in [Tables -> SUBSET Columns]
  /\ keyed \in [Tables -> SUBSET KeyNames]
  /\ indexed \in [Tables -> Versions \cup {"none"}]
  /\ snapshot \in [Tables -> Versions \cup {"none"}]
  /\ applied \in [StepIds -> Nat]
  /\ claim \in [StepIds -> Runs \cup {NoRun}]
  /\ holder \in Runs \cup {NoRun}
  /\ pc \in [Runs -> Locations]
  /\ job \in [Runs -> Jobs]
  /\ status \in [Runs -> Statuses]
  /\ \A r \in Runs : pc[r] = "table" <=> job[r].ops # {}
  /\ lost \in 0..MaxLost /\ ddlFails \in 0..MaxDdlFails /\ stepFails \in 0..MaxStepFails

Init ==
  /\ \E a \in Adapters : realTx = a[1] /\ keying = a[2]
  /\ hash = Before
  /\ live = Desired[Before]
  /\ tracked = {t \in Tables : Desired[Before][t] # {}}
  /\ keyed = [t \in Tables |-> IF Desired[Before][t] # {} THEN WantedKeys(Before, t) ELSE {}]
  /\ indexed = [t \in Tables |-> IF Desired[Before][t] # {} THEN Before ELSE "none"]
  /\ snapshot = indexed
  /\ recorded = {}
  /\ applied = [s \in StepIds |-> 0]
  /\ claim = [s \in StepIds |-> NoRun]
  /\ holder = NoRun
  /\ pc = [r \in Runs |-> "start"]
  /\ job = [r \in Runs |-> NewJob]
  /\ status = [r \in Runs |-> "none"]
  /\ lost = 0 /\ ddlFails = 0 /\ stepFails = 0

(* One more crash, lost lease, refused statement or throwing step is       *)
(* explored.                                                               *)
MayFail == lost + ddlFails + stepFails + Cardinality({r \in Runs : pc[r] = "dead"}) < MaxFaults

Goto(r, p) == pc' = [pc EXCEPT ![r] = p]
SetJob(r, j) == job' = [job EXCEPT ![r] = j]

(* The run ends with an outcome; under the lock, through the finally block.*)
Report(r, s, p) == status' = [status EXCEPT ![r] = s] /\ Goto(r, p)

(* assertLockHeld throws.                                                  *)
Aborts(r) == job[r].abort /\ Report(r, "aborted", "finally") /\ UNCHANGED job

-----------------------------------------------------------------------------
(* Before the lock *)

QuickHash(r) ==
  /\ pc[r] = "start"
  /\ Goto(r, IF r \notin ForceRuns /\ hash = Carries[r] THEN "quickSteps" ELSE "acquire")
  /\ UNCHANGED <<hash, tracked, snapshot, schema, steps, holder, job, status, counters>>

(* Mutant: an equal hash skips the look at the steps.                      *)
QuickStepsUnread(r) ==
  /\ pc[r] = "quickSteps"
  /\ Report(r, "up-to-date", "done")
  /\ UNCHANGED <<hash, tracked, snapshot, schema, steps, holder, job, counters>>

QuickSteps(r) ==
  /\ pc[r] = "quickSteps"
  /\ \/ StepIds \subseteq recorded /\ Report(r, "up-to-date", "done")
     \/ ~(StepIds \subseteq recorded) /\ Goto(r, "acquire") /\ UNCHANGED status
  /\ UNCHANGED <<hash, tracked, snapshot, schema, steps, holder, job, counters>>

TryAcquire(r) ==
  /\ pc[r] = "acquire"
  /\ \/ holder = NoRun /\ holder' = r /\ Goto(r, "check")
     \/ holder # NoRun /\ UNCHANGED holder /\ Goto(r, "wait")
  /\ UNCHANGED <<hash, tracked, snapshot, schema, steps, job, status, counters>>

(* waitForLock: the lock is free again, or the wait times out.             *)
LockWait(r) ==
  /\ pc[r] = "wait"
  /\ \/ holder = NoRun /\ Goto(r, IF r \in ForceRuns THEN "acquire" ELSE "peerHash")
        /\ UNCHANGED status
     \/ holder # NoRun /\ Report(r, "timed out", "done")
  /\ UNCHANGED <<hash, tracked, snapshot, schema, steps, holder, job, counters>>

PeerHash(r) ==
  /\ pc[r] = "peerHash"
  /\ Goto(r, IF hash = Carries[r] THEN "peerSteps" ELSE "acquire")
  /\ UNCHANGED <<hash, tracked, snapshot, schema, steps, holder, job, status, counters>>

PeerSteps(r) ==
  /\ pc[r] = "peerSteps"
  /\ \/ StepIds \subseteq recorded /\ Report(r, "synced-by-peer", "done")
     \/ ~(StepIds \subseteq recorded) /\ Goto(r, "acquire") /\ UNCHANGED status
  /\ UNCHANGED <<hash, tracked, snapshot, schema, steps, holder, job, counters>>

-----------------------------------------------------------------------------
(* Under the lock: double check, discovery, pre-flight *)

EarlyTodo(r) == job[r].todo \cap Early
LateTodo(r) == job[r].todo \ Early

(* The two reads of Promise.all, in either order.                          *)
DoubleCheck(r) ==
  /\ pc[r] = "check"
  /\ \E q \in job[r].unread :
       LET j == [job[r] EXCEPT
             !.unread = @ \ {q},
             !.todo = IF q = "steps" THEN StepIds \ recorded ELSE @,
             !.match = IF q = "hash" THEN r \notin ForceRuns /\ hash = Carries[r] ELSE @]
       IN  /\ SetJob(r, j)
           /\ Goto(r, IF j.unread # {} THEN "check" ELSE IF j.match THEN "steps" ELSE "tracking")
  /\ UNCHANGED <<hash, tracked, snapshot, schema, steps, holder, status, counters>>

DiscoverTracked(r) ==
  /\ pc[r] = "tracking"
  /\ SetJob(r, [job[r] EXCEPT !.prev = tracked])
  /\ Goto(r, "introspect")
  /\ UNCHANGED <<hash, tracked, snapshot, schema, steps, holder, status, counters>>

(* orderedSteps: tables parents first, the deferred pass, removed tables   *)
(* children first.                                                         *)
OrderedSteps(r) ==
  [job[r] EXCEPT !.tables = Inventory(r), !.pass = TRUE, !.drops = job[r].prev \ Inventory(r)]

AtTable(r, t) == IsFirst(Order, t, job[r].tables)
AtPass(r) == job[r].tables = {} /\ job[r].pass
AtDrop(r, t) == job[r].tables = {} /\ ~job[r].pass /\ IsLast(Order, t, job[r].drops)
AtEnd(r) == job[r].tables = {} /\ ~job[r].pass /\ job[r].drops = {}

(* The introspection of the tables, then assertLockHeld, then pre-flight,  *)
(* which may refuse.                                                       *)
Introspect(r) ==
  /\ pc[r] = "introspect"
  /\ \/ Aborts(r)
     \/ ~job[r].abort /\ Report(r, "refused", "finally") /\ UNCHANGED job
     \/ /\ ~job[r].abort
        /\ SetJob(r, [OrderedSteps(r) EXCEPT !.seen = live, !.stored = snapshot, !.phase = "early"])
        /\ Goto(r, "walk") /\ UNCHANGED status
  /\ UNCHANGED <<hash, tracked, snapshot, schema, steps, holder, counters>>

-----------------------------------------------------------------------------
(* Execute: the tables *)

(* The foreign keys of a table differ from those of its stored snapshot;   *)
(* without a snapshot there is nothing to compare.                         *)
KeysDiffer(r, t) ==
  LET s == job[r].stored[t] IN s # "none" /\ Keys[s][t] # Keys[Carries[r]][t]

(* The keys of the snapshot that are gone from the schema.                 *)
StaleKeys(r, t) == Keys[job[r].stored[t]][t] \ Keys[Carries[r]][t]

(* Statements that bring the discovered table to the desired columns; safe *)
(* mode drops none, but does not keep a table from being rebuilt for its   *)
(* keys.  The keys that are gone come off first.                           *)
ColumnOps(r, t) ==
  LET want == Desired[Carries[r]][t]  have == job[r].seen[t]
  IN  IF have = {} THEN {<<"create", "-">>}
      ELSE IF keying = "recreate" /\ KeysDiffer(r, t) THEN {<<"recreate", "-">>}
      ELSE {<<"unkey", "-">> : k \in IF keying = "alter" /\ KeysDiffer(r, t) THEN StaleKeys(r, t) ELSE {}}
           \cup {<<"add", c>> : c \in want \ have}
           \cup {<<"drop", c>> : c \in IF r \in SafeRuns THEN {} ELSE have \ want}

Rank(op) == CASE op[1] = "drop" -> 2 [] op[1] = "add" -> 1 [] OTHER -> 0

(* Mutant: the early steps are skipped after the columns.                  *)
ColumnsDoneAtOnce(r, t, j) == SetJob(r, j) /\ Goto(r, "constraints")

(* Once its columns are in place a table waits for the beforeConstraints   *)
(* steps, when some are pending, or gets its indexes and keys at once.     *)
ColumnsDone(r, t, j) ==
  IF EarlyTodo(r) # {}
  THEN /\ SetJob(r, [j EXCEPT !.deferred = @ \cup {t}, !.tables = @ \ {t}])
       /\ Goto(r, "walk")
  ELSE SetJob(r, j) /\ Goto(r, "constraints")

(* A DDL failure becomes an error entry; the run goes on.                  *)
TableFails(r, t) ==
  /\ SetJob(r, [job[r] EXCEPT !.failed = @ \cup {t}, !.ops = {}, !.tables = @ \ {t}])
  /\ Goto(r, "walk")

BeginTable(r) ==
  /\ pc[r] = "walk"
  /\ \E t \in Tables :
       /\ AtTable(r, t)
       /\ \/ Aborts(r)
          \/ /\ ~job[r].abort /\ UNCHANGED status
             /\ LET ops == ColumnOps(r, t)
                IN  IF ops = {} THEN ColumnsDone(r, t, job[r])
                    ELSE SetJob(r, [job[r] EXCEPT !.ops = ops]) /\ Goto(r, "table")
  /\ UNCHANGED <<hash, tracked, snapshot, schema, steps, holder, counters>>

(* CREATE TABLE IF NOT EXISTS leaves a table alone that has appeared since *)
(* discovery; ADD COLUMN and DROP COLUMN fail when they find their work    *)
(* done or the table gone.                                                 *)
Executes(t, op) ==
  \/ op[1] \in {"create", "recreate", "unkey"}
  \/ op[1] = "add" /\ live[t] # {} /\ op[2] \notin live[t]
  \/ op[1] = "drop" /\ op[2] \in live[t]

(* A table that is created has its keys from the start.  So has one that   *)
(* is rebuilt, with all its columns, but it loses its indexes.             *)
Effect(r, t, op) ==
  LET v == Carries[r]
      built == op[1] = "recreate" \/ (op[1] = "create" /\ live[t] = {})
  IN  /\ live' = [live EXCEPT ![t] =
           CASE built -> Desired[v][t]
             [] op[1] = "add" -> @ \cup {op[2]}
             [] op[1] = "drop" -> @ \ {op[2]}
             [] OTHER -> @]
      /\ keyed' = [keyed EXCEPT ![t] =
           CASE built -> WantedKeys(v, t)
             [] op[1] = "unkey" -> @ \ StaleKeys(r, t)
             [] OTHER -> @]
      /\ indexed' = [indexed EXCEPT ![t] = IF op[1] = "recreate" THEN "none" ELSE @]

TableStatement(r) ==
  /\ pc[r] = "table"
  /\ \E t \in Tables : \E op \in job[r].ops :
       LET j == [job[r] EXCEPT !.ops = @ \ {op}]
       IN  /\ AtTable(r, t)
           /\ \A o \in job[r].ops : Rank(op) <= Rank(o)
           /\ \/ /\ Executes(t, op) /\ Effect(r, t, op)
                 /\ IF j.ops = {} THEN ColumnsDone(r, t, j) ELSE SetJob(r, j) /\ Goto(r, "table")
                 /\ UNCHANGED ddlFails
              \/ /\ ~Executes(t, op)
                 /\ TableFails(r, t) /\ UNCHANGED <<live, keyed, indexed, ddlFails>>
              \/ /\ MayFail /\ ddlFails < MaxDdlFails /\ ddlFails' = ddlFails + 1
                 /\ TableFails(r, t) /\ UNCHANGED <<live, keyed, indexed>>
  /\ UNCHANGED <<hash, tracked, snapshot, keying, steps, holder, status, lost, stepFails>>

(* syncForeignKeys: the keys that are not wanted come off, then the        *)
(* missing ones are added; a refusal leaves that half done.                *)
KeysAltered(v, t) ==
  keyed' = IF keying = "alter" THEN [keyed EXCEPT ![t] = Keys[v][t]] ELSE keyed

KeysHalfAltered(v, t) ==
  /\ keying = "alter"
  /\ \E k \in SUBSET (keyed[t] \cup Keys[v][t]) :
       keyed[t] \cap Keys[v][t] \subseteq k /\ keyed' = [keyed EXCEPT ![t] = k]

(* applyTableConstraints: the indexes of one table, then its foreign keys. *)
SyncConstraints(r, t, ok, fails) ==
  LET v == Carries[r]
      indexes == Desired[v][t] \subseteq live[t] /\ indexed' = [indexed EXCEPT ![t] = v]
      refused == MayFail /\ ddlFails < MaxDdlFails /\ ddlFails' = ddlFails + 1
  IN  \/ indexes /\ KeysAltered(v, t) /\ ok /\ UNCHANGED ddlFails
      \/ ~(Desired[v][t] \subseteq live[t]) /\ fails /\ UNCHANGED <<keyed, indexed, ddlFails>>
      \/ refused /\ fails /\ UNCHANGED <<keyed, indexed>>
      \/ indexes /\ refused /\ KeysHalfAltered(v, t) /\ fails

TableConstraints(r) ==
  /\ pc[r] = "constraints"
  /\ \E t \in Tables :
       /\ AtTable(r, t)
       /\ SyncConstraints(r, t,
            SetJob(r, [job[r] EXCEPT !.tables = @ \ {t}]) /\ Goto(r, "walk"),
            TableFails(r, t))
  /\ UNCHANGED <<hash, tracked, snapshot, keying, live, steps, holder, status, lost, stepFails>>

-----------------------------------------------------------------------------
(* Execute: the deferred pass, removed tables, persistence *)

(* beforeConstraints steps do not run after an errored entry.              *)
BeginDeferred(r) ==
  /\ pc[r] = "walk" /\ AtPass(r)
  /\ \/ Aborts(r)
     \/ /\ ~job[r].abort /\ UNCHANGED status
        /\ IF EarlyTodo(r) = {}
           THEN SetJob(r, [job[r] EXCEPT !.pass = FALSE]) /\ Goto(r, "walk")
           ELSE Goto(r, IF job[r].failed = {} THEN "steps" ELSE "deferred") /\ UNCHANGED job
  /\ UNCHANGED <<hash, tracked, snapshot, schema, steps, holder, counters>>

DeferredConstraints(r) ==
  /\ pc[r] = "deferred"
  /\ \/ Aborts(r) /\ UNCHANGED <<keyed, indexed, ddlFails>>
     \/ /\ ~job[r].abort /\ job[r].deferred = {}
        /\ SetJob(r, [job[r] EXCEPT !.pass = FALSE]) /\ Goto(r, "walk")
        /\ UNCHANGED <<status, keyed, indexed, ddlFails>>
     \/ /\ ~job[r].abort /\ UNCHANGED status
        /\ Goto(r, "deferred")
        /\ \E t \in Tables :
             /\ IsFirst(Order, t, job[r].deferred)
             /\ LET j == [job[r] EXCEPT !.deferred = @ \ {t}]
                IN  SyncConstraints(r, t, SetJob(r, j), SetJob(r, [j EXCEPT !.failed = @ \cup {t}]))
  /\ UNCHANGED <<hash, tracked, snapshot, keying, live, steps, holder, lost, stepFails>>

(* A removed table is dropped; in safe mode, after a failed step or when   *)
(* the drop fails it stays, and stays tracked.                             *)
DropRemoved(r) ==
  /\ pc[r] = "walk"
  /\ \E t \in Tables :
       LET j == [job[r] EXCEPT !.drops = @ \ {t}]
           keep == [j EXCEPT !.retained = @ \cup {t}]
       IN  /\ AtDrop(r, t)
           /\ \/ Aborts(r) /\ UNCHANGED <<live, keyed, indexed, ddlFails>>
              \/ /\ ~job[r].abort /\ UNCHANGED status /\ Goto(r, "walk")
                 /\ IF r \in SafeRuns \/ job[r].stepError
                    THEN SetJob(r, keep) /\ UNCHANGED <<live, keyed, indexed, ddlFails>>
                    ELSE \/ /\ SetJob(r, j) /\ live' = [live EXCEPT ![t] = {}]
                            /\ keyed' = [keyed EXCEPT ![t] = {}]
                            /\ indexed' = [indexed EXCEPT ![t] = "none"] /\ UNCHANGED ddlFails
                         \/ /\ MayFail /\ ddlFails < MaxDdlFails /\ ddlFails' = ddlFails + 1
                            /\ SetJob(r, [keep EXCEPT !.failed = @ \cup {t}])
                            /\ UNCHANGED <<live, keyed, indexed>>
  /\ UNCHANGED <<hash, tracked, snapshot, keying, steps, holder, lost, stepFails>>

(* The tables of the schema without an error entry get their snapshot, the *)
(* snapshots of those that were dropped are deleted.                       *)
EndWalk(r) ==
  /\ pc[r] = "walk" /\ AtEnd(r)
  /\ \/ Aborts(r)
     \/ /\ ~job[r].abort /\ Goto(r, "snapshots") /\ UNCHANGED status
        /\ SetJob(r, [job[r] EXCEPT !.unsaved =
             (Inventory(r) \ job[r].failed) \cup (job[r].prev \ (Inventory(r) \cup job[r].retained))])
  /\ UNCHANGED <<hash, tracked, snapshot, schema, steps, holder, counters>>

AtSnapshot(r, t) ==
  LET kept == job[r].unsaved \cap Inventory(r)
  IN  IF kept # {} THEN IsFirst(Order, t, kept) ELSE IsFirst(Order, t, job[r].unsaved)

WriteSnapshot(r) ==
  /\ pc[r] = "snapshots"
  /\ \/ job[r].unsaved = {} /\ Goto(r, "track") /\ UNCHANGED <<snapshot, job>>
     \/ \E t \in Tables :
          /\ AtSnapshot(r, t)
          /\ snapshot' = [snapshot EXCEPT ![t] = IF t \in Inventory(r) THEN Carries[r] ELSE "none"]
          /\ SetJob(r, [job[r] EXCEPT !.unsaved = @ \ {t}]) /\ UNCHANGED pc
  /\ UNCHANGED <<hash, tracked, schema, steps, holder, status, counters>>

(* After execute: the late steps, unless a step or an entry errored.       *)
AfterExecute(r) ==
  IF job[r].failed = {} /\ ~job[r].stepError
  THEN /\ SetJob(r, [job[r] EXCEPT !.phase = "late", !.todo = LateTodo(r)])
       /\ Goto(r, "steps") /\ UNCHANGED status
  ELSE /\ Report(r, IF job[r].stepError THEN "step failed" ELSE "failed", "finally")
       /\ UNCHANGED job

(* Mutant: the hash is written although tables have failed.                *)
WriteTrackedThenHash(r) ==
  /\ pc[r] = "track"
  /\ tracked' = Inventory(r) \cup job[r].retained
  /\ Goto(r, "hash") /\ UNCHANGED <<job, status>>
  /\ UNCHANGED <<hash, snapshot, schema, steps, holder, counters>>

(* Mutant: tables kept after a failed drop are forgotten.                  *)
WriteTrackedInventory(r) ==
  /\ pc[r] = "track"
  /\ tracked' = Inventory(r)
  /\ IF job[r].failed = {} THEN Goto(r, "hash") /\ UNCHANGED <<job, status>> ELSE AfterExecute(r)
  /\ UNCHANGED <<hash, snapshot, schema, steps, holder, counters>>

WriteTracked(r) ==
  /\ pc[r] = "track"
  /\ tracked' = Inventory(r) \cup job[r].retained
  /\ IF job[r].failed = {} THEN Goto(r, "hash") /\ UNCHANGED <<job, status>> ELSE AfterExecute(r)
  /\ UNCHANGED <<hash, snapshot, schema, steps, holder, counters>>

WriteHash(r) ==
  /\ pc[r] = "hash"
  /\ hash' = Carries[r]
  /\ AfterExecute(r)
  /\ UNCHANGED <<tracked, snapshot, schema, steps, holder, counters>>

-----------------------------------------------------------------------------
(* Data steps: applyDataSteps and runOnce *)

(* The steps of the phase that are left ("beforeConstraints" ones first),  *)
(* and the step the run is at.                                             *)
Due(r) ==
  {s \in job[r].todo : job[r].match \/ (job[r].phase = "early") = (s \in Early)}
AtStep(r, s) ==
  IF Due(r) \cap Early = {} THEN IsFirst(Steps, s, Due(r))
  ELSE IsFirst(Steps, s, Due(r) \cap Early)

StepSettled(r, s) == SetJob(r, [job[r] EXCEPT !.todo = @ \ {s}]) /\ Goto(r, "steps")

(* A throwing step ends the run; a beforeConstraints one only after the    *)
(* walk, with every waiting table turned into an error entry.              *)
StepThrows(r) ==
  IF job[r].phase = "early" /\ ~job[r].match
  THEN /\ SetJob(r, [job[r] EXCEPT !.stepError = TRUE, !.deferred = {}, !.pass = FALSE,
                       !.failed = @ \cup job[r].deferred])
       /\ Goto(r, "walk") /\ UNCHANGED status
  ELSE Report(r, "step failed", "finally") /\ UNCHANGED job

StepsDone(r) ==
  /\ pc[r] = "steps" /\ Due(r) = {}
  /\ IF job[r].phase = "early" /\ ~job[r].match
     THEN Goto(r, "deferred") /\ UNCHANGED status
     ELSE Report(r, "synced", "finally")
  /\ UNCHANGED <<hash, tracked, snapshot, schema, steps, holder, job, counters>>

(* Mutant: a step is run without claiming it.                              *)
StepBeginUnclaimed(r) ==
  /\ pc[r] = "steps"
  /\ \E s \in StepIds :
       /\ AtStep(r, s)
       /\ \/ Aborts(r) /\ UNCHANGED claim
          \/ ~job[r].abort /\ s \in recorded /\ StepSettled(r, s) /\ UNCHANGED <<claim, status>>
          \/ ~job[r].abort /\ s \notin recorded /\ Goto(r, "fn") /\ UNCHANGED <<claim, job, status>>
  /\ UNCHANGED <<realTx, hash, tracked, snapshot, schema, recorded, applied, holder, counters>>

(* In a transaction the record is inserted first: a peer's uncommitted one *)
(* makes the insert wait, a committed one makes it fail.  In a pass-through*)
(* one the record is looked up.                                            *)
StepBegin(r) ==
  /\ pc[r] = "steps"
  /\ \E s \in StepIds :
       /\ AtStep(r, s)
       /\ \/ Aborts(r) /\ UNCHANGED claim
          \/ ~job[r].abort /\ s \in recorded /\ StepSettled(r, s) /\ UNCHANGED <<claim, status>>
          \/ /\ ~job[r].abort /\ s \notin recorded /\ claim[s] = NoRun
             /\ claim' = IF realTx THEN [claim EXCEPT ![s] = r] ELSE claim
             /\ Goto(r, "fn") /\ UNCHANGED <<job, status>>
  /\ UNCHANGED <<realTx, hash, tracked, snapshot, schema, recorded, applied, holder, counters>>

(* Mutant: a step that throws keeps its claim.                             *)
StepRunKeepsClaim(r) ==
  /\ pc[r] = "fn"
  /\ \E s \in StepIds :
       /\ AtStep(r, s)
       /\ \/ /\ applied' = [applied EXCEPT ![s] = @ + 1] /\ recorded' = recorded \cup {s}
             /\ claim' = [claim EXCEPT ![s] = NoRun] /\ StepSettled(r, s)
             /\ UNCHANGED <<status, stepFails>>
          \/ /\ MayFail /\ stepFails < MaxStepFails /\ stepFails' = stepFails + 1
             /\ StepThrows(r) /\ UNCHANGED <<applied, recorded, claim>>
  /\ UNCHANGED <<realTx, hash, tracked, snapshot, schema, holder, lost, ddlFails>>

(* The step's function, and in a transaction the commit of its changes     *)
(* with the record; or it throws and is rolled back.                       *)
StepRun(r) ==
  /\ pc[r] = "fn"
  /\ \E s \in StepIds :
       /\ AtStep(r, s)
       /\ claim' = IF realTx THEN [claim EXCEPT ![s] = NoRun] ELSE claim
       /\ \/ /\ applied' = [applied EXCEPT ![s] = @ + 1]
             /\ IF realTx THEN recorded' = recorded \cup {s} /\ StepSettled(r, s)
                ELSE UNCHANGED <<recorded, job>> /\ Goto(r, "record")
             /\ UNCHANGED <<status, stepFails>>
          \/ /\ MayFail /\ stepFails < MaxStepFails /\ stepFails' = stepFails + 1
             /\ StepThrows(r) /\ UNCHANGED <<applied, recorded>>
  /\ UNCHANGED <<realTx, hash, tracked, snapshot, schema, holder, lost, ddlFails>>

(* Pass-through: the record is inserted after the step, "ran-twice" when a *)
(* peer's is there.                                                        *)
StepRecord(r) ==
  /\ pc[r] = "record"
  /\ \E s \in StepIds :
       /\ AtStep(r, s)
       /\ recorded' = recorded \cup {s}
       /\ StepSettled(r, s)
  /\ UNCHANGED <<realTx, hash, tracked, snapshot, schema, applied, claim, holder, status, counters>>

-----------------------------------------------------------------------------
(* The lock and the process *)

(* finally: releaseLock, which may fail and is then only logged.  The      *)
(* run's local state ends with it.                                         *)
Finally(r) ==
  /\ pc[r] = "finally"
  /\ holder' \in IF holder = r THEN {r, NoRun} ELSE {holder}
  /\ Goto(r, "done") /\ SetJob(r, NewJob)
  /\ UNCHANGED <<hash, tracked, snapshot, schema, steps, status, counters>>

(* The lease of the holder runs out: of one that is gone, or (boundedly)   *)
(* of one whose heartbeat is late.                                         *)
LeaseExpires ==
  /\ holder # NoRun
  /\ \/ pc[holder] \in {"done", "dead"} /\ UNCHANGED lost
     \/ pc[holder] \notin {"done", "dead"} /\ MayFail /\ lost < MaxLost /\ lost' = lost + 1
  /\ holder' = NoRun
  /\ UNCHANGED <<hash, tracked, snapshot, schema, steps, pc, job, status, ddlFails, stepFails>>

(* A heartbeat finds the row missing or another run's.                     *)
NoticeLoss(r) ==
  /\ Working(r) /\ holder # r /\ ~job[r].abort
  /\ SetJob(r, [job[r] EXCEPT !.abort = TRUE])
  /\ UNCHANGED <<hash, tracked, snapshot, schema, steps, holder, pc, status, counters>>

(* The process dies; its open transaction is rolled back.                  *)
Crash(r) ==
  /\ r \in MayCrash /\ MayFail /\ pc[r] \notin {"done", "dead"}
  /\ claim' = [s \in StepIds |-> IF claim[s] = r THEN NoRun ELSE claim[s]]
  /\ Goto(r, "dead") /\ SetJob(r, NewJob)
  /\ UNCHANGED <<realTx, hash, tracked, snapshot, schema, recorded, applied, holder, status, counters>>

AcquireLock(r) ==
  QuickHash(r) \/ QuickSteps(r) \/ TryAcquire(r) \/ LockWait(r) \/ PeerHash(r) \/ PeerSteps(r)

Execute(r) ==
  \/ BeginTable(r) \/ TableStatement(r) \/ TableConstraints(r)
  \/ BeginDeferred(r) \/ DeferredConstraints(r) \/ DropRemoved(r)
  \/ EndWalk(r) \/ WriteSnapshot(r) \/ WriteTracked(r) \/ WriteHash(r)

ApplyDataSteps(r) == StepsDone(r) \/ StepBegin(r) \/ StepRun(r) \/ StepRecord(r)

Run(r) ==
  /\ pc[r] \notin {"done", "dead"}
  /\ \/ AcquireLock(r) \/ DoubleCheck(r) \/ DiscoverTracked(r) \/ Introspect(r)
     \/ Execute(r) \/ ApplyDataSteps(r) \/ Finally(r)

Next == LeaseExpires \/ \E r \in Runs : Run(r) \/ NoticeLoss(r) \/ Crash(r)

Spec == Init /\ [][Next]_vars

(* A live process executes its pending calls (each step changes where it is*)
(* or its local state); the lease of a dead holder ends.                   *)
FairSpec ==
  Spec /\ WF_holder(LeaseExpires) /\ \A r \in Runs : WF_<<pc[r], job[r]>>(Run(r))

-----------------------------------------------------------------------------
(* Properties *)

(* The tables of a version are in place: the columns it wants (safe mode   *)
(* leaves others behind), its keys and its indexes.  Where a change of     *)
(* keys rebuilds the table, a run that has lost its lease may still take   *)
(* the indexes of a table another run has finished.                        *)
InPlace(v) ==
  \A t \in Tables : Desired[v][t] # {} =>
    /\ Desired[v][t] \subseteq live[t] /\ keyed[t] = WantedKeys(v, t)
    /\ indexed[t] = v \/ (keying = "recreate" /\ lost > 0)

(* A stored hash tells the truth: whatever failed, crashed or lost its     *)
(* lock, the hash that makes the next boot report "up-to-date" is there    *)
(* only over a schema that is in place (schema-sync.ts:1988-1998,          *)
(* docs/sync/programmatic.md:293).                                         *)
HashTellsTruth == hash # Before => InPlace(hash)

(* A run that reports success leaves nothing to do: its schema is in place *)
(* and every data step is recorded, by whichever run                       *)
(* (docs/sync/programmatic.md:115-138).                                    *)
SuccessMeansDone ==
  \A r \in Runs : status[r] \in Succeeded => InPlace(Carries[r]) /\ StepIds \subseteq recorded

(* With transactions each step's changes are committed once, together with *)
(* its record, even when two runs believe they hold the lock.  Without     *)
(* transactions a step may run twice, but a record never stands for a step *)
(* that did not run, and a second run of it needs a lost lease or a crash  *)
(* (sync-store.ts runOnce, docs/sync/programmatic.md:130-131).             *)
StepsRunOnce ==
  \A s \in StepIds :
    /\ realTx => applied[s] = IF s \in recorded THEN 1 ELSE 0
    /\ s \in recorded => applied[s] > 0
    /\ applied[s] <= 1 + lost + Cardinality({r \in Runs : pc[r] = "dead"})

(* "A beforeConstraints step runs after every table and its new columns    *)
(* exist, before any table's indexes and foreign keys are synced"          *)
(* (docs/sync/programmatic.md:158).  So it is, as long as no table of any  *)
(* run has errored, whatever throws, crashes or is taken over, for every   *)
(* index and for every key that is added to a table.  The exceptions: a    *)
(* table that sync creates comes with its keys (sync-executor.ts:322), and *)
(* on SQLite one whose keys change is rebuilt with them, before the steps  *)
(* (sync-executor.ts:350, programmatic.md:161).  After an errored table    *)
(* the steps are skipped and the constraint work of the other tables goes  *)
(* on (schema-sync.ts:1865, 1882-1892).                                    *)
EarlyStepsFirstUnlessFailed ==
  [][(\A r \in Runs : job[r].failed = {}) =>
       \A t \in Tables :
         /\ indexed'[t] \notin {indexed[t], "none"} => Early \subseteq recorded
         /\ keyed'[t] \subseteq keyed[t] \/ Early \subseteq recorded
              \/ live[t] = {} \/ (keying = "recreate" /\ indexed'[t] = "none")]_vars

(* A table that sync created and no longer wants is never forgotten: it    *)
(* stays tracked until it is dropped (sync-store.ts:188-194).              *)
NoOrphans ==
  \A t \in Tables :
    live[t] # {} => t \in tracked \/ \E r \in Runs : t \in Inventory(r)

(* All runs come to an end, and nothing brings one back.                   *)
EveryRunReturns == <>[](\A r \in Runs : pc[r] \in {"done", "dead"})

=============================================================================
