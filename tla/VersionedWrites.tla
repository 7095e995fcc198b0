--------------------------- MODULE VersionedWrites --------------------------
(***************************************************************************)
(* Optimistic concurrency control: rows with a version column, written by  *)
(* conditional ($cas) and unconditional patches, by the retry helper and   *)
(* by batch touches.                                                       *)
(*                                                                         *)
(* Source: packages/db/src/with-optimistic-retry.ts, bulkUpdate, touchMany,*)
(* deleteOne and insertMany of packages/db/src/table/db-table.ts, patch/   *)
(* version-exempt.ts and buildUpdate of packages/db-sql-tools/src/         *)
(* sql-builder.ts.                                                         *)
(*                                                                         *)
(* A worker carries out one task.  A statement is a step; the engine locks *)
(* a row that an open transaction has written and shows others the         *)
(* committed image (external: PostgreSQL, MySQL; the gate of SQLite allows *)
(* fewer interleavings).  A pass-through transaction (memory adapter, a    *)
(* standalone MongoDB) locks and undoes nothing.                           *)
(***************************************************************************)
EXTENDS Integers, Sequences, FiniteSets, SequencesExt

CONSTANTS
  Workers,
  Keys,        \* primary keys
  Workloads,   \* the cases checked: what each worker does, [Workers -> Tasks]
  MaxAttempts, \* attempts of withOptimisticRetry
  TouchChunk,  \* TOUCH_MANY_CHUNK
  TxModes,     \* whether the adapter's transactions are real: a set of cases
  NoRow,       \* no such row
  Nobody

(* A payload: the row it addresses, which of its columns it writes, and    *)
(* whether it carries the version it was read at ($cas).                   *)
Items == [key : Keys, fields : SUBSET {"own", "exempt"}, cas : BOOLEAN]
Ops == {"retry", "patch", "touchAll", "touchAny", "delete", "insert"}
Isolations == {"auto", "read committed", "snapshot"}  \* the caller's own transaction, if any
Tasks == [op : Ops, items : Seq(Items), isolation : Isolations]

(* A row: its version, whose changes its versioned columns contain, whose  *)
(* touches it has seen, and which incarnation of the key it is.            *)
Rows == [ver : Nat, val : SUBSET Workers, touched : SUBSET Workers, born : Nat]

ASSUME WorkloadsAssumption ==
  /\ Workloads \subseteq [Workers -> Tasks]
  /\ \A load \in Workloads : \A w \in Workers :
       /\ load[w].items # <<>>
       /\ load[w].op = "retry" => Len(load[w].items) = 1
       /\ load[w].op \in {"touchAll", "touchAny"} =>  \* a touch carries versions
            \A i \in DOMAIN load[w].items : load[w].items[i].cas
ASSUME LimitsAssumption ==
  MaxAttempts \in Nat \ {0} /\ TouchChunk \in Nat \ {0} /\ TxModes \subseteq BOOLEAN
ASSUME NobodyAssumption == Nobody \notin Workers /\ NoRow \notin Rows

VARIABLES
  task,    \* what each worker does, fixed in Init
  realTx,  \* the adapter's kind, fixed in Init
  row,     \* [Keys -> the stored row], with uncommitted changes
  locker,  \* [Keys -> the worker whose open transaction has written the row]
  undo,    \* [Keys -> the committed row, while it is locked]
  pc, seen, snap, todo, hits, fails, outcome, \* the workers
  bumps    \* history: [Keys -> committed changes of the row's version]

store == <<row, locker, undo, bumps>>
vars == <<task, realTx, store, pc, seen, snap, todo, hits, fails, outcome>>

-----------------------------------------------------------------------------
Committed(k) == IF locker[k] = Nobody THEN row[k] ELSE undo[k]

(* What a plain read of w sees.                                            *)
Visible(w, k) ==
  IF locker[k] = w THEN row[k]
  ELSE IF snap[w] # {} THEN (CHOOSE s \in snap[w] : TRUE)[k]
  ELSE Committed(k)

Op(w) == task[w].op
Items_(w) == task[w].items
KeysOf(w) == {Items_(w)[i].key : i \in DOMAIN Items_(w)}
IsTouch(w) == Op(w) \in {"touchAll", "touchAny"}

(* _isSingleStatementWrite: one payload runs outside any transaction of    *)
(* its own; touchMany always opens one.                                    *)
InTx(w) == realTx /\ (task[w].isolation # "auto" \/ Len(Items_(w)) > 1 \/ IsTouch(w))

Locations == {"read", "count", "stmt", "finish", "done"}
Outcomes == {"none", "ok", "noop", "not found", "exhausted", "mismatch", "error"}

TypeOK ==
  /\ task \in Workloads
  /\ realTx \in TxModes
  /\ row \in [Keys -> Rows \cup {NoRow}]
  /\ undo \in [Keys -> Rows \cup {NoRow}]
  /\ locker \in [Keys -> Workers \cup {Nobody}]
  /\ pc \in [Workers -> Locations]
  /\ seen \in [Workers -> [Keys -> Rows \cup {NoRow}]]
  /\ snap \in [Workers -> SUBSET [Keys -> Rows \cup {NoRow}]]
  /\ todo \in [Workers -> Seq(Nat)]
  /\ \A w \in Workers : todo[w] \in Seq(DOMAIN Items_(w))
  /\ hits \in [Workers -> SUBSET Keys]
  /\ fails \in [Workers -> Nat]
  /\ outcome \in [Workers -> Outcomes]
  /\ bumps \in [Keys -> Nat]

Init ==
  /\ task \in Workloads
  /\ realTx \in TxModes
  /\ row = [k \in Keys |-> [ver |-> 0, val |-> {}, touched |-> {}, born |-> 0]]
  /\ undo = [k \in Keys |-> NoRow]
  /\ locker = [k \in Keys |-> Nobody]
  /\ pc = [w \in Workers |-> IF Op(w) \in {"delete", "insert"} THEN "stmt" ELSE "read"]
  /\ seen = [w \in Workers |-> [k \in Keys |-> NoRow]]
  /\ snap = [w \in Workers |-> {}]
  /\ todo = [w \in Workers |-> [i \in DOMAIN Items_(w) |-> i]]
  /\ hits = [w \in Workers |-> {}]
  /\ fails = [w \in Workers |-> 0]
  /\ outcome = [w \in Workers |-> "none"]
  /\ bumps = [k \in Keys |-> 0]

Goto(w, p) == pc' = [pc EXCEPT ![w] = p]
End(w, o) == outcome' = [outcome EXCEPT ![w] = o] /\ Goto(w, "finish")

-----------------------------------------------------------------------------
(* Reads *)

(* The rows a worker computes its patch from: findOne of the retry helper, *)
(* or the read of a form, an editor or a batch job earlier.  A snapshot    *)
(* transaction fixes its view at its first read.                           *)
Read(w) ==
  /\ pc[w] = "read"
  /\ seen' = [seen EXCEPT ![w] = [k \in Keys |-> IF k \in KeysOf(w) THEN Visible(w, k) ELSE NoRow]]
  /\ snap' = IF realTx /\ task[w].isolation = "snapshot" /\ snap[w] = {}
             THEN [snap EXCEPT ![w] = {[k \in Keys |-> Committed(k)]}] ELSE snap
  /\ \/ /\ Op(w) = "retry" /\ \E k \in KeysOf(w) : seen'[w][k] = NoRow
        /\ End(w, "not found")
     \/ /\ Op(w) = "retry" /\ \A k \in KeysOf(w) : seen'[w][k] # NoRow
        /\ \/ Goto(w, "stmt") /\ UNCHANGED outcome
           \/ End(w, "noop")  \* the mutator returns undefined or {}
     \/ /\ Op(w) # "retry" /\ UNCHANGED outcome
        /\ Goto(w, IF Op(w) = "touchAll" THEN "count" ELSE "stmt")
  /\ UNCHANGED <<task, realTx, store, todo, hits, fails>>

(* Mutant: the version predicate is dropped.                               *)
MatchesAnyVersion(w, item, r) == r # NoRow

(* Does the stored row satisfy the payload's filter?                       *)
Matches(w, item, r) ==
  /\ r # NoRow
  /\ item.cas => seen[w][item.key] # NoRow /\ r.ver = seen[w][item.key].ver

(* The pre-count of touchMany with require: "all".                         *)
Count(w) ==
  /\ pc[w] = "count"
  /\ IF \A i \in DOMAIN Items_(w) : Matches(w, Items_(w)[i], Visible(w, Items_(w)[i].key))
     THEN Goto(w, "stmt") /\ UNCHANGED outcome
     ELSE End(w, "mismatch")
  /\ UNCHANGED <<task, realTx, store, seen, snap, todo, hits, fails>>

-----------------------------------------------------------------------------
(* Statements *)

(* Mutant: one exempt field exempts the patch.                             *)
KeepVersionIfAnyExempt(item) == ~item.cas /\ "exempt" \in item.fields

(* isVersionExemptPatch, asked for a payload without $cas.                 *)
KeepVersion(item) == ~item.cas /\ item.fields = {"exempt"}

(* buildUpdate: SET the columns, version = version + 1.  A $cas patch was  *)
(* computed from the row as read; without $cas the model's payload is a    *)
(* field operation, which the engine applies to the stored row.            *)
Updated(w, item, r) ==
  [r EXCEPT
     !.ver = IF KeepVersion(item) THEN @ ELSE @ + 1,
     !.val = IF "own" \notin item.fields THEN @
             ELSE IF item.cas THEN seen[w][item.key].val \cup {w} ELSE @ \cup {w},
     !.touched = IF IsTouch(w) THEN @ \cup {w} ELSE @]

Effect(w, item, r) ==
  CASE Op(w) = "delete" -> NoRow
    [] Op(w) = "insert" -> [ver |-> 0, val |-> {w}, touched |-> {},
                            born |-> bumps[item.key] + 1]
    [] OTHER -> Updated(w, item, r)

Affects(w, item, r) ==
  IF Op(w) = "insert" THEN r = NoRow
  ELSE IF item.fields = {} /\ ~item.cas /\ Op(w) = "patch" THEN FALSE  \* counted only
  ELSE Matches(w, item, r)

VersionMoved(old, new) == old = NoRow \/ new = NoRow \/ old.ver # new.ver

(* The keys the next statement addresses: a payload's row, or a chunk of a *)
(* touch.                                                                  *)
Batch(w) == IF IsTouch(w) THEN SubSeq(todo[w], 1, IF Len(todo[w]) < TouchChunk THEN Len(todo[w]) ELSE TouchChunk)
            ELSE <<Head(todo[w])>>

(* Apply the statement's changes; rows that another transaction has written*)
(* make it wait.                                                           *)
Apply(w, changes) ==
  /\ row' = [k \in Keys |-> IF k \in DOMAIN changes THEN changes[k] ELSE row[k]]
  /\ IF InTx(w)
     THEN /\ undo' = [k \in Keys |-> IF k \in DOMAIN changes /\ locker[k] = Nobody THEN row[k] ELSE undo[k]]
          /\ locker' = [k \in Keys |-> IF k \in DOMAIN changes THEN w ELSE locker[k]]
          /\ UNCHANGED bumps
     ELSE /\ bumps' = [k \in Keys |-> IF k \in DOMAIN changes /\ VersionMoved(row[k], changes[k])
                                      THEN bumps[k] + 1 ELSE bumps[k]]
          /\ UNCHANGED <<undo, locker>>

(* One statement of a patch, a touch, an insert or a delete.               *)
Statement(w) ==
  /\ pc[w] = "stmt" /\ Op(w) # "retry" /\ todo[w] # <<>>
  /\ LET items == {Items_(w)[i] : i \in ToSet(Batch(w))}
         affected == {item \in items : Affects(w, item, row[item.key])}
         changes == [k \in {item.key : item \in affected} |->
                       Effect(w, CHOOSE item \in affected : item.key = k, row[k])]
     IN  /\ \A item \in items : locker[item.key] \in {w, Nobody}
         /\ Apply(w, changes)
         /\ hits' = [hits EXCEPT ![w] = @ \cup DOMAIN changes]
         /\ todo' = [todo EXCEPT ![w] = SubSeq(@, Len(Batch(w)) + 1, Len(@))]
  /\ UNCHANGED <<task, realTx, pc, seen, snap, fails, outcome>>

(* Mutant: the sum of the matches is not compared.                         *)
StatementsDoneUnsummed(w) ==
  /\ pc[w] = "stmt" /\ todo[w] = <<>>
  /\ End(w, "ok")
  /\ UNCHANGED <<task, realTx, store, seen, snap, todo, hits, fails>>

(* The end of a task's statements: touchMany compares the summed matches.  *)
StatementsDone(w) ==
  /\ pc[w] = "stmt" /\ todo[w] = <<>>
  /\ End(w, IF Op(w) = "touchAll" /\ hits[w] # KeysOf(w) THEN "mismatch" ELSE "ok")
  /\ UNCHANGED <<task, realTx, store, seen, snap, todo, hits, fails>>

(* Mutant: the next round does not read again.                             *)
RetryKeepsRow(w) ==
  /\ pc[w] = "stmt" /\ Op(w) = "retry"
  /\ LET item == Head(Items_(w))  k == item.key
     IN  /\ locker[k] \in {w, Nobody}
         /\ \/ /\ Matches(w, item, row[k])
               /\ Apply(w, [x \in {k} |-> Updated(w, item, row[k])])
               /\ hits' = [hits EXCEPT ![w] = {k}]
               /\ End(w, "ok") /\ UNCHANGED fails
            \/ /\ ~Matches(w, item, row[k])
               /\ fails' = [fails EXCEPT ![w] = @ + 1]
               /\ IF fails'[w] = MaxAttempts THEN End(w, "exhausted")
                  ELSE Goto(w, "stmt") /\ UNCHANGED outcome
               /\ UNCHANGED <<store, hits>>
  /\ UNCHANGED <<task, realTx, seen, snap, todo>>

(* A round of the retry helper: the conditional update hits, or misses and *)
(* the row is read again, up to MaxAttempts times.                         *)
RetryUpdate(w) ==
  /\ pc[w] = "stmt" /\ Op(w) = "retry"
  /\ LET item == Head(Items_(w))  k == item.key
     IN  /\ locker[k] \in {w, Nobody}
         /\ \/ /\ Matches(w, item, row[k])
               /\ Apply(w, [x \in {k} |-> Updated(w, item, row[k])])
               /\ hits' = [hits EXCEPT ![w] = {k}]
               /\ End(w, "ok") /\ UNCHANGED fails
            \/ /\ ~Matches(w, item, row[k])
               /\ fails' = [fails EXCEPT ![w] = @ + 1]
               /\ IF fails'[w] = MaxAttempts THEN End(w, "exhausted")
                  ELSE Goto(w, "read") /\ UNCHANGED outcome
               /\ UNCHANGED <<store, hits>>
  /\ UNCHANGED <<task, realTx, seen, snap, todo>>

-----------------------------------------------------------------------------
(* The end of the transaction *)

Failed == {"mismatch", "error", "not found", "exhausted"}

(* The version moves of w's transaction that its commit makes visible.     *)
Bumped(w) ==
  [k \in Keys |-> IF locker[k] = w /\ VersionMoved(undo[k], row[k]) THEN bumps[k] + 1 ELSE bumps[k]]

Release(w) ==
  /\ locker' = [k \in Keys |-> IF locker[k] = w THEN Nobody ELSE locker[k]]
  /\ undo' = [k \in Keys |-> IF locker[k] = w THEN NoRow ELSE undo[k]]
  /\ snap' = [snap EXCEPT ![w] = {}]
  /\ hits' = IF outcome[w] \in Failed /\ InTx(w) THEN [hits EXCEPT ![w] = {}] ELSE hits
  /\ Goto(w, "done")
  /\ UNCHANGED <<task, realTx, seen, todo, fails, outcome>>

(* withTransaction: COMMIT, or ROLLBACK when the function has thrown.      *)
Finish(w) ==
  /\ pc[w] = "finish"
  /\ Release(w)
  /\ \/ outcome[w] \notin Failed /\ bumps' = Bumped(w) /\ UNCHANGED row
     \/ /\ outcome[w] \in Failed
        /\ row' = [k \in Keys |-> IF locker[k] = w THEN undo[k] ELSE row[k]]
        /\ UNCHANGED bumps

(* The engine picks a worker that waits for a row as its deadlock victim,  *)
(* or the wait times out: the statement throws.                            *)
Waits(w) ==
  \E i \in DOMAIN Items_(w) :
    /\ i \in ToSet(Batch(w)) \/ Op(w) = "retry"
    /\ locker[Items_(w)[i].key] \notin {w, Nobody}

Victim(w) ==
  /\ pc[w] = "stmt" /\ (Op(w) = "retry" \/ todo[w] # <<>>) /\ Waits(w)
  /\ End(w, "error")
  /\ UNCHANGED <<task, realTx, store, seen, snap, todo, hits, fails>>

Work(w) ==
  \/ Read(w) \/ Count(w) \/ Statement(w) \/ StatementsDone(w)
  \/ RetryUpdate(w) \/ Finish(w) \/ Victim(w)

Next == \E w \in Workers : Work(w)

Spec == Init /\ [][Next]_vars

-----------------------------------------------------------------------------
(* Properties *)

(* Images of the row k anybody may compare versions with.                  *)
Images(k) ==
  ({Committed(k)} \cup {seen[w][k] : w \in Workers}) \ {NoRow}

(* The version identifies the versioned columns: two images of one         *)
(* incarnation of a row with the same version have the same content, even  *)
(* while exempt patches, touches and rolled back transactions go on        *)
(* (docs/api/versioning.md:44-48).  Everything $cas promises rests on it.  *)
SameVersionSameContent ==
  \A k \in Keys : \A r, s \in Images(k) :
    r.born = s.born /\ r.ver = s.ver => r.val = s.val

(* A step keeps the committed changes of a row, or makes its patch from an *)
(* earlier incarnation of the row.                                         *)
KeepsChanges(k) ==
  LET old == Committed(k)  new == Committed(k)'
  IN  old # NoRow /\ new # NoRow /\ old # new /\ old.born = new.born =>
        \/ old.val \subseteq new.val
        \/ \E w \in Workers : seen[w][k] # NoRow /\ seen[w][k].born < old.born

(* No lost update: a committed change of a row's versioned columns is never*)
(* overwritten by a $cas patch computed from an older read                 *)
(* (docs/api/versioning.md:9-21).  The exception the code leaves open: the *)
(* version restarts with a new incarnation of the key, so a patch computed *)
(* from a deleted row may hit its successor.                               *)
NoLostUpdate == [][\A k \in Keys : KeepsChanges(k)]_vars

(* A round of the retry helper is lost only to another writer's committed  *)
(* change of the row: N lost rounds mean N such changes, so                *)
(* CasExhaustedError means real contention (with-optimistic-retry.ts:66-107).*)
LostRoundsAreContention ==
  \A w \in Workers : \A k \in KeysOf(w) : fails[w] <= bumps[k]

(* touchMany with require "all" is all or nothing: with a real transaction *)
(* a CasMismatchError leaves no row touched, and success has touched every *)
(* row (db-table.ts:1496-1507).                                            *)
TouchAllOrNothing ==
  \A w \in Workers : pc[w] = "done" /\ Op(w) = "touchAll" =>
    \A k \in KeysOf(w) :
      /\ realTx /\ outcome[w] # "ok" => Committed(k) = NoRow \/ w \notin Committed(k).touched
      /\ outcome[w] = "ok" => Committed(k) = NoRow \/ Committed(k).born # seen[w][k].born
                              \/ w \in Committed(k).touched

(* Nothing is written that is not reported: a row a finished worker reports*)
(* as not matched (stale item of a batch, CasExhaustedError, deadlock      *)
(* victim) holds none of its changes (docs/api/versioning.md:103-109).     *)
NothingUnreported ==
  \A w \in Workers : pc[w] = "done" =>
    \A k \in Keys : Committed(k) # NoRow /\ w \in Committed(k).val \cup Committed(k).touched => k \in hits[w]

(* What a worker is told is what is stored, in both directions.            *)
ReportsAreTrue == TouchAllOrNothing /\ NothingUnreported

=============================================================================
