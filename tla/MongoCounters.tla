--------------------------- MODULE MongoCounters ---------------------------
(***************************************************************************)
(* `@db.default.increment` on MongoDB: values of a unique field taken from *)
(* a counter document, and the inserts that store them.                    *)
(*                                                                         *)
(* Source: packages/db-mongo/src/lib/mongo-adapter.ts (_allocateIncrement- *)
(* Values, _assignBatchIncrements, insertOne, insertMany, insertManyIgnore,*)
(* withTransaction).  The server (unique index, snapshots, write conflicts)*)
(* is external, modelled as the adapter uses it.                           *)
(*                                                                         *)
(* A worker is one async context: it makes a few insert calls one after    *)
(* the other, within a transaction or not (on a standalone server          *)
(* withTransaction is a pass-through, i.e. not).  Every action is one      *)
(* database call, but for the documents of an insert, one action each.     *)
(***************************************************************************)
EXTENDS Integers, Sequences, FiniteSets

CONSTANTS
  Workers,
  Plans,          \* what the workers may do: worker -> [batches, ignore, tx]
  Starts,         \* the annotation's start value; 1 when it has none
  Stores,         \* values of the rows stored before
  MaxRetries,     \* bound: runs of a transaction's function by the driver
  MaxFailures     \* bound: database calls that fail

Gen == 0          \* the document carries no value: the adapter assigns one

Task == [batches : Seq(Seq(Nat)) \ {<<>>}, ignore : BOOLEAN, tx : BOOLEAN]

ASSUME PlansAssumption ==
  \A plan \in Plans : DOMAIN plan = Workers /\ \A w \in Workers : plan[w] \in Task
ASSUME StartsAssumption == Starts \subseteq Nat \ {0}
ASSUME StoresAssumption == \A s \in Stores : s \subseteq Nat \ {0}

VARIABLES
  start,      \* the start value of the field
  seq,        \* the counter document; 0 when there is none
  docs,       \* committed rows: value -> where it comes from
  task,       \* worker -> its task
  pc,         \* worker -> what it does next
  call,       \* worker -> its current call, an index of task.batches
  at,         \* worker -> next document of that batch
  range,      \* worker -> the range allocated to its batch
  skipped,    \* worker -> documents of the batch found stored
  slots,      \* worker -> what its finished calls have reported inserted
  mine,       \* worker -> rows its transaction has written
  view,       \* worker -> no or one snapshot of values (of its transaction)
  retries, failures,
  ranges,     \* history: every range of values handed out
  covered,    \* history: values the seeding read has seen
  clashes     \* history: values that met a stored one

vars == <<start, seq, docs, task, pc, call, at, range, skipped, slots, mine, view,
          retries, failures, ranges, covered, clashes>>

-----------------------------------------------------------------------------

Batch(w) == task[w].batches[call[w]]
Count(w) == Cardinality({k \in DOMAIN Batch(w) : Batch(w)[k] = Gen})

(* The value document k of the batch is stored with: its own, or the next  *)
(* of the allocated range (_assignBatchIncrements).                        *)
Value(w, k) ==
  IF Batch(w)[k] # Gen THEN Batch(w)[k]
  ELSE range[w].first + Cardinality({j \in 1..(k - 1) : Batch(w)[j] = Gen})

(* Where a range comes from: see Advance, ReadMax and Reseed.              *)
Kinds == {"plain", "seeded", "early", "later", "unseeded"}
Ranges == [first : Nat, last : Nat, kind : Kinds]
Block(f, count, kind) == [first |-> f, last |-> f + count - 1, kind |-> kind]

KindOf(w, k) ==
  IF Batch(w)[k] # Gen THEN "given" ELSE range[w].kind

(* A row: its kind, and the document it was.                               *)
Row(w, k) == [kind |-> KindOf(w, k), of |-> <<w, call[w], k>>]
Extend(d, v, row) == [x \in DOMAIN d \cup {v} |-> IF x = v THEN row ELSE d[x]]

(* Rows a worker sees: in a transaction, a snapshot and its own writes.    *)
Seen(w) == (IF view[w] = {} THEN DOMAIN docs ELSE UNION view[w]) \cup DOMAIN mine[w]
SeenRow(w, v) == IF v \in DOMAIN mine[w] THEN mine[w][v] ELSE docs[v]
Snapshot(w) ==
  view' = [view EXCEPT ![w] =
             IF task[w].tx /\ view[w] = {} THEN {DOMAIN docs} ELSE view[w]]

Clash(w, k) ==
  [new |-> KindOf(w, k), stored |-> SeenRow(w, Value(w, k)).kind,
   covered |-> Value(w, k) \in covered]

Seeding(w) == pc[w] \in {"max", "reseed"}
KindNow ==
  IF \E w \in Workers : Seeding(w) THEN "early"
  ELSE IF \E r \in ranges : r.kind \in {"plain", "seeded"} THEN "later" ELSE "unseeded"

TypeOK ==
  /\ start \in Starts
  /\ seq \in Nat
  /\ DOMAIN docs \subseteq Nat
  /\ task \in Plans
  /\ pc \in [Workers -> {"start", "max", "reseed", "check", "insert", "commit",
                         "done", "failed"}]
  /\ call \in [Workers -> Nat]
  /\ \A w \in Workers : call[w] \in DOMAIN task[w].batches
  /\ at \in [Workers -> Nat]
  /\ range \in [Workers -> Ranges]
  /\ ranges \subseteq Ranges
  /\ covered \subseteq Nat

Init ==
  /\ start \in Starts
  /\ seq = 0
  /\ \E s \in Stores : docs = [v \in s |-> [kind |-> "given", of |-> <<>>]]
  /\ task \in Plans
  /\ pc = [w \in Workers |-> "start"]
  /\ call = [w \in Workers |-> 1]
  /\ at = [w \in Workers |-> 1]
  /\ range = [w \in Workers |-> Block(1, 0, "plain")]
  /\ skipped = [w \in Workers |-> {}]
  /\ slots = [w \in Workers |-> <<>>]
  /\ mine = [w \in Workers |-> <<>>]
  /\ view = [w \in Workers |-> {}]
  /\ retries = 0
  /\ failures = 0
  /\ ranges = {}
  /\ covered = {}
  /\ clashes = {}

-----------------------------------------------------------------------------
(* Allocation *)

Goto(w, label) == pc' = [pc EXCEPT ![w] = label]

(* insertManyIgnore in a transaction looks the stored keys up first.       *)
Inserting(w) == IF task[w].tx /\ task[w].ignore THEN "check" ELSE "insert"

HandOut(w, r) ==
  /\ range' = [range EXCEPT ![w] = r]
  /\ ranges' = ranges \cup {r}
  /\ Goto(w, Inserting(w))

NothingToAssign(w) ==
  /\ pc[w] = "start"
  /\ Count(w) = 0
  /\ Goto(w, Inserting(w))
  /\ UNCHANGED <<start, seq, docs, task, call, at, range, skipped, slots, mine, view,
                 retries, failures, ranges, covered, clashes>>

(* `$inc` of the counter, outside the session.  The one that finds it at 0 *)
(* reads the rows first.                                                   *)
Advance(w) ==
  /\ pc[w] = "start"
  /\ Count(w) > 0
  /\ seq' = seq + Count(w)
  /\ IF seq' = Count(w)
     THEN Goto(w, "max") /\ UNCHANGED <<range, ranges>>
     ELSE HandOut(w, Block(seq + 1, Count(w), KindNow))
  /\ UNCHANGED <<start, docs, task, call, at, skipped, slots, mine, view, retries,
                 failures, covered, clashes>>

(* Mutant: the largest value is read outside the session.                  *)
ReadMaxOutside(w) ==
  /\ pc[w] = "max"
  /\ covered' = Seen(w)
  /\ \E max \in DOMAIN docs \cup {0} :
       /\ \A v \in DOMAIN docs : v <= max
       /\ LET base == IF max + 1 > start THEN max + 1 ELSE start IN
          IF base > Count(w)
          THEN /\ range' = [range EXCEPT ![w] = Block(base, Count(w), "seeded")]
               /\ Goto(w, "reseed")
               /\ UNCHANGED ranges
          ELSE HandOut(w, Block(1, Count(w), "plain"))
  /\ Snapshot(w)
  /\ UNCHANGED <<start, seq, docs, task, call, at, skipped, slots, mine, retries,
                 failures, clashes>>

(* _getCurrentFieldMax, in the session, and the decision to re-seed.       *)
ReadMax(w) ==
  /\ pc[w] = "max"
  /\ covered' = Seen(w)
  /\ \E max \in Seen(w) \cup {0} :
       /\ \A v \in Seen(w) : v <= max
       /\ LET base == IF max + 1 > start THEN max + 1 ELSE start IN
          IF base > Count(w)
          THEN /\ range' = [range EXCEPT ![w] = Block(base, Count(w), "seeded")]
               /\ Goto(w, "reseed")
               /\ UNCHANGED ranges
          ELSE HandOut(w, Block(1, Count(w), "plain"))
  /\ Snapshot(w)
  /\ UNCHANGED <<start, seq, docs, task, call, at, skipped, slots, mine, retries,
                 failures, clashes>>

(* Mutant: the counter is re-seeded with the first value, not the last.    *)
ReseedFirst(w) ==
  /\ pc[w] = "reseed"
  /\ seq' = IF range[w].first > seq THEN range[w].first ELSE seq
  /\ HandOut(w, range[w])
  /\ UNCHANGED <<start, docs, task, call, at, skipped, slots, mine, view, retries,
                 failures, covered, clashes>>

(* `$max` of the counter.                                                  *)
Reseed(w) ==
  /\ pc[w] = "reseed"
  /\ seq' = IF range[w].last > seq THEN range[w].last ELSE seq
  /\ HandOut(w, range[w])
  /\ UNCHANGED <<start, docs, task, call, at, skipped, slots, mine, view, retries,
                 failures, covered, clashes>>

-----------------------------------------------------------------------------
(* Inserts *)

(* The driver runs the transaction's function again.                       *)
Restart(w) ==
  /\ call' = [call EXCEPT ![w] = 1]
  /\ at' = [at EXCEPT ![w] = 1]
  /\ skipped' = [skipped EXCEPT ![w] = {}]
  /\ slots' = [slots EXCEPT ![w] = <<>>]
  /\ mine' = [mine EXCEPT ![w] = <<>>]
  /\ view' = [view EXCEPT ![w] = {}]
  /\ Goto(w, "start")
  /\ UNCHANGED <<start, seq, docs, task, range, ranges, covered>>

(* The call rejects, and with it the worker: a transaction is rolled back, *)
(* other rows stay.                                                        *)
Reject(w) ==
  /\ mine' = [mine EXCEPT ![w] = <<>>]
  /\ Goto(w, "failed")
  /\ UNCHANGED <<start, seq, docs, task, call, at, range, skipped, slots, view, ranges,
                 covered>>

(* _findStoredKeyConflicts *)
FindStored(w) ==
  /\ pc[w] = "check"
  /\ LET stored == {k \in DOMAIN Batch(w) : Value(w, k) \in Seen(w)} IN
     /\ skipped' = [skipped EXCEPT ![w] = stored]
     /\ clashes' = clashes \cup {Clash(w, k) : k \in stored}
  /\ Snapshot(w)
  /\ Goto(w, "insert")
  /\ UNCHANGED <<start, seq, docs, task, call, at, range, slots, mine, retries, failures,
                 ranges, covered>>

NextDocument(w) == at' = [at EXCEPT ![w] = @ + 1]

Pending(w) == pc[w] = "insert" /\ at[w] \in DOMAIN Batch(w)
Uncommitted(w, v) == \E x \in Workers \ {w} : v \in DOMAIN mine[x]

SkipDocument(w) ==
  /\ Pending(w)
  /\ task[w].tx
  /\ at[w] \in skipped[w]
  /\ NextDocument(w)
  /\ UNCHANGED <<start, seq, docs, task, pc, call, range, skipped, slots, mine, view,
                 retries, failures, ranges, covered, clashes>>

(* Outside a transaction.  The server lets an insert wait for a            *)
(* transaction that has written the same key.                              *)
InsertPlain(w) ==
  /\ Pending(w)
  /\ ~task[w].tx
  /\ LET k == at[w]
         v == Value(w, k)
     IN /\ ~Uncommitted(w, v)
        /\ IF v \notin DOMAIN docs
           THEN /\ docs' = Extend(docs, v, Row(w, k))
                /\ NextDocument(w)
                /\ UNCHANGED <<pc, skipped, mine, clashes>>
           ELSE /\ clashes' = clashes \cup {Clash(w, k)}
                /\ IF task[w].ignore
                   THEN /\ skipped' = [skipped EXCEPT ![w] = @ \cup {k}]
                        /\ NextDocument(w)
                        /\ UNCHANGED <<docs, pc, mine>>
                   ELSE /\ Goto(w, "failed")
                        /\ UNCHANGED <<docs, at, skipped, mine>>
  /\ UNCHANGED <<start, seq, task, call, range, slots, view, retries, failures, ranges,
                 covered>>

(* In a transaction a duplicate key is a CONFLICT and aborts; a key that   *)
(* somebody else has written since the snapshot, or is writing, is a write *)
(* conflict and runs the function again.                                   *)
InsertInTx(w) ==
  /\ Pending(w)
  /\ task[w].tx
  /\ at[w] \notin skipped[w]
  /\ LET k == at[w]
         v == Value(w, k)
     IN IF v \in Seen(w)
        THEN /\ clashes' = clashes \cup {Clash(w, k)}
             /\ Reject(w)
             /\ UNCHANGED <<retries, failures>>
        ELSE IF v \in DOMAIN docs \/ Uncommitted(w, v)
        THEN /\ retries < MaxRetries
             /\ retries' = retries + 1
             /\ Restart(w)
             /\ UNCHANGED <<failures, clashes>>
        ELSE /\ mine' = [mine EXCEPT ![w] = Extend(@, v, Row(w, k))]
             /\ Snapshot(w)
             /\ NextDocument(w)
             /\ UNCHANGED <<start, seq, docs, task, pc, call, range, skipped, slots,
                            retries, failures, ranges, covered, clashes>>

(* The call resolves: insertManyIgnore reports a slot per document.        *)
EndCall(w) ==
  /\ pc[w] = "insert"
  /\ at[w] \notin DOMAIN Batch(w)
  /\ slots' = [slots EXCEPT ![w] = Append(@, DOMAIN Batch(w) \ skipped[w])]
  /\ skipped' = [skipped EXCEPT ![w] = {}]
  /\ at' = [at EXCEPT ![w] = 1]
  /\ IF call[w] < Len(task[w].batches)
     THEN call' = [call EXCEPT ![w] = @ + 1] /\ Goto(w, "start")
     ELSE Goto(w, IF task[w].tx THEN "commit" ELSE "done") /\ UNCHANGED call
  /\ UNCHANGED <<start, seq, docs, task, range, mine, view, retries, failures, ranges,
                 covered, clashes>>

Commit(w) ==
  /\ pc[w] = "commit"
  /\ docs' = [v \in DOMAIN docs \cup DOMAIN mine[w] |->
                IF v \in DOMAIN mine[w] THEN mine[w][v] ELSE docs[v]]
  /\ mine' = [mine EXCEPT ![w] = <<>>]
  /\ Goto(w, "done")
  /\ UNCHANGED <<start, seq, task, call, at, range, skipped, slots, view, retries,
                 failures, ranges, covered, clashes>>

(* Mutant: an unordered insert without an answer counts as inserted.       *)
FailUnnoticed(w) ==
  /\ pc[w] \in {"start", "max", "reseed", "check", "insert", "commit"}
  /\ failures < MaxFailures
  /\ failures' = failures + 1
  /\ IF pc[w] = "insert" /\ task[w].ignore /\ ~task[w].tx
     THEN /\ at' = [at EXCEPT ![w] = Len(Batch(w)) + 1]
          /\ UNCHANGED <<start, seq, docs, task, pc, call, range, skipped, slots, mine,
                         view, ranges, covered>>
     ELSE Reject(w)
  /\ UNCHANGED <<retries, clashes>>

(* A database call fails, before or after it took effect, or (in a         *)
(* transaction) the function throws.                                       *)
Fail(w) ==
  /\ pc[w] \in {"start", "max", "reseed", "check", "insert", "commit"}
  /\ failures < MaxFailures
  /\ failures' = failures + 1
  /\ Reject(w)
  /\ UNCHANGED <<retries, clashes>>

Next ==
  \E w \in Workers :
    \/ NothingToAssign(w) \/ Advance(w) \/ ReadMax(w) \/ Reseed(w)
    \/ FindStored(w) \/ SkipDocument(w) \/ InsertPlain(w) \/ InsertInTx(w)
    \/ EndCall(w) \/ Commit(w) \/ Fail(w)

Spec == Init /\ [][Next]_vars

-----------------------------------------------------------------------------
(* Properties *)

Overlap(a, b) == a.first <= b.last /\ b.first <= a.last

(* No value is handed out twice, however many workers and transactions     *)
(* allocate, roll back and run again, with one exception: the call that    *)
(* finds a fresh counter and re-seeds it, against calls that advanced the  *)
(* counter between its `$inc` and its `$max` (mongo-adapter.ts:1887-1906). *)
RangesOverlapOnlyAtSeed ==
  \A a, b \in ranges :
    a # b /\ Overlap(a, b) => {a.kind, b.kind} = {"seeded", "early"}

(* A generated value meets a stored one only for one of these reasons: the *)
(* stored one was not generated and the seeding read has not seen it; or   *)
(* it has, but the allocation is the first and not re-seeded ("plain", a   *)
(* batch as large as the next id), or was made before the re-seed, or the  *)
(* re-seed never came; or                                                  *)
(* the two ranges overlap (mongo-adapter.ts:1894-1906, docs/adapters/      *)
(* mongodb.md:208).                                                        *)
ClashesHaveReason ==
  \A c \in clashes :
    \/ c.new = "given"
    \/ c.stored = "given" /\ ~(c.covered /\ c.new \in {"seeded", "later"})
    \/ {c.new, c.stored} = {"seeded", "early"}

RowsOf(w, n) ==
  {k \in DOMAIN task[w].batches[n] : \E v \in DOMAIN docs : docs[v].of = <<w, n, k>>}

(* What a worker was told is what is stored: each document reported        *)
(* inserted is stored, by this call, and no skipped one is; a rejected     *)
(* transaction has left nothing (mongo-adapter.ts:1474-1510).              *)
ReportsAreTrue ==
  \A w \in Workers : \A n \in DOMAIN task[w].batches :
    /\ pc[w] = "done" => RowsOf(w, n) = slots[w][n]
    /\ pc[w] = "failed" /\ task[w].tx => RowsOf(w, n) = {}

=============================================================================
