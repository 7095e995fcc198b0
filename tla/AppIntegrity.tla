---------------------------- MODULE AppIntegrity ----------------------------
(***************************************************************************)
(* Referential integrity kept by the library itself, for adapters without  *)
(* native foreign keys (MongoDB, memory): the checks before an insert or a *)
(* patch and the referential actions of a delete.                          *)
(*                                                                         *)
(* Source: packages/db/src/strategies/application-integrity.ts, deleteOne, *)
(* deleteMany and the writes of packages/db/src/table/db-table.ts.         *)
(*                                                                         *)
(* A client makes one call.  Every read, count and write of the adapter is *)
(* a step.  A transaction is real (MongoDB replica set: snapshot isolation,*)
(* the whole call is retried after a write conflict; external) or passes   *)
(* through (memory, standalone MongoDB).                                   *)
(***************************************************************************)
EXTENDS Integers, Sequences, FiniteSets, SequencesExt

CONSTANTS
  Clients, Tables,
  Keys,       \* primary keys: non-empty tuples of field values
  Workloads,  \* the cases checked: foreign keys, stored rows, calls, depth limit
  TxModes,    \* whether transactions are real: a set of cases
  Null, NoRow

(* A foreign key references the primary key of its parent table.           *)
Actions == {"cascade", "restrict", "setNull", "setDefault"}
ForeignKeys == [child : Tables, parent : Tables, action : Actions]

ASSUME KeysAssumption == \A k, l \in Keys : 1 \in DOMAIN k /\ DOMAIN k = DOMAIN l
ASSUME NullAssumption == Null \notin Keys
ASSUME ModesAssumption == TxModes \subseteq BOOLEAN

(* Filters: given keys, the rows that reference given keys, or the rows    *)
(* some child references (a relational predicate).                         *)
Filters == [by : {"keys", "ref", "some"}, fk : Nat, keys : SUBSET Keys]

(* What is stored and what is called: consistent rows, a delete by keys, by*)
(* a column or by a relational predicate, the rows of an insert with all   *)
(* the foreign keys of the table, the columns of a patch.                  *)
StoredRows(l) == [DOMAIN l.fks -> Keys \cup {Null}]

CallOK(l, call) ==
  \/ call.op = "none"
  \/ /\ call.op = "delete" /\ call.table \in Tables /\ call.filter \in Filters
     /\ call.filter.by # "keys" => call.filter.fk \in DOMAIN l.fks
     /\ call.filter.by = "ref" => l.fks[call.filter.fk].child = call.table
  \/ /\ call.op \in {"insert", "patch"} /\ call.table \in Tables
     /\ DOMAIN call.rows \subseteq Keys /\ IsFiniteSet(DOMAIN call.rows)
     /\ call.fks \subseteq {f \in DOMAIN l.fks : l.fks[f].child = call.table}
     /\ call.op = "insert" => {f \in DOMAIN l.fks : l.fks[f].child = call.table} \subseteq call.fks
     /\ \A k \in DOMAIN call.rows : call.rows[k] \in StoredRows(l)

Consistent(l) ==
  \A f \in DOMAIN l.fks : \A k \in Keys :
    LET row == l.db[l.fks[f].child][k]
    IN  row # NoRow /\ row[f] # Null => l.db[l.fks[f].parent][row[f]] # NoRow

ASSUME WorkloadsAssumption ==
  \A l \in Workloads :
    /\ l.fks \in Seq(ForeignKeys) /\ l.maxDepth \in Nat \ {0}
    /\ l.db \in [Tables -> [Keys -> StoredRows(l) \cup {NoRow}]]
    /\ Consistent(l)
    /\ \A c \in Clients : CallOK(l, l.calls[c])
    /\ NoRow \notin StoredRows(l)

VARIABLES
  load,     \* the case, fixed in Init
  realTx,   \* the adapter's kind, fixed in Init
  db,       \* [Tables -> [Keys -> stored row]]; a row is its foreign keys' values
  tx,       \* [Clients -> the open transaction's view and snapshot]
  pc, outcome,
  stack,    \* [Clients -> the nested cascadeBeforeDelete calls]
  checks,   \* [Clients -> foreign keys an insert or a patch has to check]
  start, overlapped \* history: the database a call began with; another call ran meanwhile

calls == <<pc, outcome, stack, checks, start, overlapped>>
vars == <<load, realTx, db, tx, calls>>

-----------------------------------------------------------------------------
Fks == load.fks
MaxDepth == load.maxDepth  \* MAX_CASCADE_DEPTH
Call(c) == load.calls[c]
IsDelete(c) == Call(c).op = "delete"
IsWrite(c) == Call(c).op \in {"insert", "patch"}

Rows == StoredRows(load)
Databases == [Tables -> [Keys -> Rows \cup {NoRow}]]
Transactions == [view : Databases, snapshot : Databases]
Failed == {"conflict", "cycle", "missing", "duplicate"}

(* What the client's statements read.                                      *)
View(c) == IF realTx THEN tx[c].view ELSE db

Write(c, new) ==
  IF realTx THEN tx' = [tx EXCEPT ![c].view = new] /\ UNCHANGED db
  ELSE db' = new /\ UNCHANGED tx

ByKeys(S) == [by |-> "keys", fk |-> 0, keys |-> S]
ByRef(f, S) == [by |-> "ref", fk |-> f, keys |-> S]
BySome(f) == [by |-> "some", fk |-> f, keys |-> {}]

Live(v, t) == {k \in Keys : v[t][k] # NoRow}

Matching(v, t, filter) ==
  {k \in Live(v, t) :
     \/ filter.by = "keys" /\ k \in filter.keys
     \/ filter.by = "ref"  /\ v[t][k][filter.fk] \in filter.keys
     \/ filter.by = "some" /\ \E l \in Live(v, Fks[filter.fk].child) :
                                 v[Fks[filter.fk].child][l][filter.fk] = k}

Without(v, t, S) == [v EXCEPT ![t] = [k \in Keys |-> IF k \in S THEN NoRow ELSE v[t][k]]]
WithRef(v, t, S, f, ref) ==
  [v EXCEPT ![t] = [k \in Keys |-> IF k \in S THEN [v[t][k] EXCEPT ![f] = ref] ELSE v[t][k]]]

(* The referential actions a delete from t meets.                          *)
Targets(t, actions) == {f \in DOMAIN Fks : Fks[f].parent = t /\ Fks[f].action \in actions}

(* A call of cascadeBeforeDelete: the rows it found and has not met before,*)
(* the restrict checks and the actions left to do.                         *)
Frame(t, filter) ==
  [table |-> t, filter |-> filter, entered |-> FALSE, records |-> {},
   restrict |-> {}, left |-> {}]

Top(c) == Last(stack[c])
SetTop(c, frame) == stack' = [stack EXCEPT ![c][Len(stack[c])] = frame]

(* cascadeStorage: the rows that frames further down are deleting.         *)
Visited(c) == UNION {{<<stack[c][i].table, k>> : k \in stack[c][i].records} : i \in DOMAIN stack[c]}

Frames ==
  [table : Tables, filter : Filters, entered : BOOLEAN, records : SUBSET Keys,
   restrict : SUBSET DOMAIN Fks, left : SUBSET DOMAIN Fks]

Active(c) == pc[c] \in {"cascade", "check", "finish"}
Goto(c, p) == pc' = [pc EXCEPT ![c] = p]

TypeOK ==
  /\ load \in Workloads /\ realTx \in TxModes
  /\ db \in Databases
  /\ tx \in [Clients -> Transactions \cup {Null}]
  /\ pc \in [Clients -> {"idle", "cascade", "check", "finish", "done"}]
  /\ outcome \in [Clients -> Failed \cup {"none", "ok"}]
  /\ stack \in [Clients -> Seq(Frames)]
  /\ checks \in [Clients -> SUBSET DOMAIN Fks]
  /\ start \in [Clients -> Databases]
  /\ overlapped \in [Clients -> BOOLEAN]
  /\ \A c \in Clients : pc[c] = "cascade" <=> stack[c] # <<>>
  /\ \A c \in Clients : realTx /\ Active(c) => tx[c] \in Transactions

Init ==
  /\ load \in Workloads /\ realTx \in TxModes
  /\ db = load.db
  /\ tx = [c \in Clients |-> Null]
  /\ pc = [c \in Clients |-> IF IsDelete(c) \/ IsWrite(c) THEN "idle" ELSE "done"]
  /\ outcome = [c \in Clients |-> "none"]
  /\ stack = [c \in Clients |-> <<>>]
  /\ checks = [c \in Clients |-> {}]
  /\ start = [c \in Clients |-> load.db]
  /\ overlapped = [c \in Clients |-> FALSE]

(* The call opens its transaction.                                         *)
Begin(c) ==
  /\ pc[c] = "idle"
  /\ Goto(c, IF IsDelete(c) THEN "cascade" ELSE "check")
  /\ tx' = IF realTx THEN [tx EXCEPT ![c] = [view |-> db, snapshot |-> db]] ELSE tx
  /\ stack' = [stack EXCEPT ![c] = IF IsDelete(c) THEN <<Frame(Call(c).table, Call(c).filter)>> ELSE <<>>]
  /\ checks' = [checks EXCEPT ![c] = IF IsWrite(c) THEN Call(c).fks ELSE {}]
  /\ start' = [start EXCEPT ![c] = db]
  /\ overlapped' = [d \in Clients |-> \/ overlapped[d]
                                      \/ d = c /\ \E e \in Clients : Active(e)
                                      \/ d # c /\ Active(d)]
  /\ UNCHANGED <<load, realTx, db, outcome>>

(* An error unwinds the nested calls, whose `finally` forgets their rows.  *)
Throw(c, error) ==
  /\ outcome' = [outcome EXCEPT ![c] = error]
  /\ Goto(c, "finish")
  /\ stack' = [stack EXCEPT ![c] = <<>>]

-----------------------------------------------------------------------------
(* Delete: cascadeBeforeDelete, then the delete itself *)

(* Mutant: cycles are detected by table.                                   *)
NewRecordsOfNewTables(c, t, found) ==
  IF \E i \in DOMAIN stack[c] : stack[c][i].table = t /\ stack[c][i].entered THEN {} ELSE found

(* Rows the cascade has not met yet: by record, not by table.              *)
NewRecords(c, t, found) == {k \in found : <<t, k>> \notin Visited(c)}

(* The limit, the targets and the rows that match; a table nothing         *)
(* references needs none of it.  A relational filter pins its rows.        *)
Enter(c) ==
  /\ pc[c] = "cascade" /\ ~Top(c).entered
  /\ LET t == Top(c).table
         found == Matching(View(c), t, Top(c).filter)
         new == IF Targets(t, Actions) = {} THEN {} ELSE NewRecords(c, t, found)
         tooDeep == Targets(t, Actions) # {} /\ Len(stack[c]) > MaxDepth
     IN  \/ tooDeep /\ Throw(c, "cycle")
         \/ /\ ~tooDeep
            /\ SetTop(c, [Top(c) EXCEPT
                 !.entered = TRUE,
                 !.records = new,
                 !.filter = IF @.by = "some" /\ Targets(t, Actions) # {} THEN ByKeys(found) ELSE @,
                 !.restrict = IF new = {} THEN {} ELSE Targets(t, {"restrict"}),
                 !.left = IF new = {} THEN {} ELSE Targets(t, Actions \ {"restrict"})])
            /\ UNCHANGED <<pc, outcome>>
  /\ UNCHANGED <<load, realTx, db, tx, checks, start, overlapped>>

Children(c, f) == Matching(View(c), Fks[f].child, ByRef(f, Top(c).records))

(* Pass 1: the restrict checks, counts in parallel.                        *)
RestrictCheck(c) ==
  /\ pc[c] = "cascade" /\ Top(c).entered
  /\ \E f \in Top(c).restrict :
       \/ /\ Children(c, f) # {}
          /\ Throw(c, "conflict")
       \/ /\ Children(c, f) = {}
          /\ SetTop(c, [Top(c) EXCEPT !.restrict = @ \ {f}])
          /\ UNCHANGED <<pc, outcome>>
  /\ UNCHANGED <<load, realTx, db, tx, checks, start, overlapped>>

(* The next action is a cascade: a frame of its own.                       *)
Remaining(c, f) == [Top(c) EXCEPT !.left = @ \ {f}]
Descend(c, f) ==
  stack' = [stack EXCEPT ![c] = Append([@ EXCEPT ![Len(@)] = Remaining(c, f)],
                                       Frame(Fks[f].child, ByRef(f, Top(c).records)))]

(* Mutant: setNull does nothing.                                           *)
ActOrphans(c) ==
  /\ pc[c] = "cascade" /\ Top(c).entered /\ Top(c).restrict = {}
  /\ \E f \in Top(c).left :
       /\ \A g \in Top(c).left : f <= g
       /\ IF Fks[f].action = "cascade" THEN Descend(c, f) ELSE SetTop(c, Remaining(c, f))
  /\ UNCHANGED <<load, realTx, db, tx, pc, outcome, checks, start, overlapped>>

(* Pass 2: one action after the other, in registration order.  A cascade   *)
(* is deleteMany of the child table; there is no case for setDefault.      *)
Act(c) ==
  /\ pc[c] = "cascade" /\ Top(c).entered /\ Top(c).restrict = {}
  /\ \E f \in Top(c).left :
       /\ \A g \in Top(c).left : f <= g
       /\ \/ Fks[f].action = "cascade" /\ Descend(c, f) /\ UNCHANGED <<db, tx>>
          \/ /\ Fks[f].action = "setNull"
             /\ Write(c, WithRef(View(c), Fks[f].child, Children(c, f), f, Null))
             /\ SetTop(c, Remaining(c, f))
          \/ Fks[f].action = "setDefault" /\ SetTop(c, Remaining(c, f)) /\ UNCHANGED <<db, tx>>
  /\ UNCHANGED <<load, realTx, pc, outcome, checks, start, overlapped>>

(* What matches the filter now is deleted: with a relational predicate the *)
(* pinned rows.                                                            *)
Delete(c) ==
  /\ pc[c] = "cascade" /\ Top(c).entered /\ Top(c).restrict = {} /\ Top(c).left = {}
  /\ LET t == Top(c).table
     IN  Write(c, Without(View(c), t, Matching(View(c), t, Top(c).filter)))
  /\ stack' = [stack EXCEPT ![c] = Front(@)]
  /\ IF Len(stack[c]) = 1
     THEN Goto(c, "finish") /\ outcome' = [outcome EXCEPT ![c] = "ok"]
     ELSE UNCHANGED <<pc, outcome>>
  /\ UNCHANGED <<load, realTx, checks, start, overlapped>>

-----------------------------------------------------------------------------
(* Insert and patch: validateForeignKeys, then the write *)

(* The values of foreign key f in the payload; null is no reference.       *)
Referenced(c, f) == {Call(c).rows[k][f] : k \in DOMAIN Call(c).rows} \ {Null}

(* The lookup: each field of the key is matched on its own, and the number *)
(* of parents found is compared with the number of first values.           *)
Expected(S) == Cardinality({k[1] : k \in S})
ExpectedPerItem(c, f) == Cardinality({k \in DOMAIN Call(c).rows : Call(c).rows[k][f] # Null})
Found(v, t, S) ==
  Cardinality({k \in Live(v, t) : \A i \in DOMAIN k : \E s \in S : s[i] = k[i]})

(* Mutant: equal references are counted once per item.                     *)
LookupFailsPerItem(c, f) == Found(View(c), Fks[f].parent, Referenced(c, f)) < ExpectedPerItem(c, f)

LookupFails(c, f) ==
  Found(View(c), Fks[f].parent, Referenced(c, f)) < Expected(Referenced(c, f))

Check(c) ==
  /\ pc[c] = "check"
  /\ \E f \in checks[c] :
       \/ LookupFails(c, f) /\ Throw(c, "missing") /\ UNCHANGED checks
       \/ ~LookupFails(c, f) /\ checks' = [checks EXCEPT ![c] = @ \ {f}] /\ UNCHANGED <<pc, outcome, stack>>
  /\ UNCHANGED <<load, realTx, db, tx, start, overlapped>>

(* The write statement: new rows, or the patched foreign keys of stored    *)
(* ones (a row that is gone matches nothing).                              *)
Patched(c, v) ==
  LET t == Call(c).table
  IN [v EXCEPT ![t] = [k \in Keys |->
       IF k \in DOMAIN Call(c).rows /\ v[t][k] # NoRow
       THEN [f \in DOMAIN Fks |-> IF f \in Call(c).fks THEN Call(c).rows[k][f] ELSE v[t][k][f]]
       ELSE v[t][k]]]

Inserted(c, v) ==
  LET t == Call(c).table
  IN [v EXCEPT ![t] = [k \in Keys |-> IF k \in DOMAIN Call(c).rows THEN Call(c).rows[k] ELSE v[t][k]]]

WriteRows(c) ==
  /\ pc[c] = "check" /\ checks[c] = {}
  /\ LET taken == Call(c).op = "insert" /\ DOMAIN Call(c).rows \cap Live(View(c), Call(c).table) # {}
     IN  /\ outcome' = [outcome EXCEPT ![c] = IF taken THEN "duplicate" ELSE "ok"]
         /\ Write(c, IF taken THEN View(c)
                     ELSE IF Call(c).op = "insert" THEN Inserted(c, View(c)) ELSE Patched(c, View(c)))
  /\ Goto(c, "finish")
  /\ UNCHANGED <<load, realTx, stack, checks, start, overlapped>>

-----------------------------------------------------------------------------
(* The end of the transaction *)

Changed(c, t, k) == tx[c].view[t][k] # tx[c].snapshot[t][k]
WriteConflict(c) ==
  \E t \in Tables, k \in Keys : Changed(c, t, k) /\ db[t][k] # tx[c].snapshot[t][k]

Finish(c) ==
  /\ pc[c] = "finish"
  /\ tx' = [tx EXCEPT ![c] = Null]
  /\ \/ /\ realTx /\ outcome[c] = "ok" /\ WriteConflict(c)  \* the driver retries
        /\ Goto(c, "idle") /\ outcome' = [outcome EXCEPT ![c] = "none"]
        /\ UNCHANGED db
     \/ /\ realTx /\ outcome[c] = "ok" /\ ~WriteConflict(c)
        /\ db' = [t \in Tables |-> [k \in Keys |->
                    IF Changed(c, t, k) THEN tx[c].view[t][k] ELSE db[t][k]]]
        /\ Goto(c, "done") /\ UNCHANGED outcome
     \/ /\ ~realTx \/ outcome[c] \in Failed
        /\ Goto(c, "done") /\ UNCHANGED <<db, outcome>>
  /\ UNCHANGED <<load, realTx, stack, checks, start, overlapped>>

Step(c) ==
  \/ Begin(c) \/ Enter(c) \/ RestrictCheck(c) \/ Act(c) \/ Delete(c)
  \/ Check(c) \/ WriteRows(c) \/ Finish(c)

Next == \E c \in Clients : Step(c)

Spec == Init /\ [][Next]_vars

-----------------------------------------------------------------------------
(* What a delete should do, over the foreign keys as a graph               *)

(* The rows a delete of `doomed` takes with it, one cascade further.       *)
Cascaded(v, doomed) ==
  doomed \cup
  {x \in Tables \X Keys :
     /\ v[x[1]][x[2]] # NoRow
     /\ \E f \in DOMAIN Fks : /\ Fks[f].child = x[1] /\ Fks[f].action = "cascade"
                              /\ <<Fks[f].parent, v[x[1]][x[2]][f]>> \in doomed}

Doomed(v, c) ==
  LET size == Cardinality(Tables) * Cardinality(Keys)
      reach[n \in 0..size] ==
        IF n = 0 THEN {Call(c).table} \X Matching(v, Call(c).table, Call(c).filter)
        ELSE Cascaded(v, reach[n - 1])
  IN  reach[size]

AfterDelete(v, c) ==
  [t \in Tables |-> [k \in Keys |->
     IF v[t][k] = NoRow \/ <<t, k>> \in Doomed(v, c) THEN NoRow
     ELSE [f \in DOMAIN Fks |->
             IF Fks[f].child = t /\ Fks[f].action = "setNull" /\ <<Fks[f].parent, v[t][k][f]>> \in Doomed(v, c)
             THEN Null ELSE v[t][k][f]]]]

Restricted(v, c) ==
  \E f \in DOMAIN Fks : Fks[f].action = "restrict" /\
    \E k \in Live(v, Fks[f].child) : <<Fks[f].parent, v[Fks[f].child][k][f]>> \in Doomed(v, c)

(* The call's filter is on a column that the delete itself clears before   *)
(* its filter is evaluated again.                                          *)
ClearsFilter(v, c) ==
  LET filter == Call(c).filter
  IN  /\ filter.by = "ref" /\ Fks[filter.fk].action = "setNull"
      /\ \E k \in filter.keys : <<Fks[filter.fk].parent, k>> \in Doomed(v, c)

-----------------------------------------------------------------------------
(* Properties *)

EndsAlone(c, o) ==
  pc[c] = "finish" /\ pc'[c] = "done" /\ outcome[c] = o /\ ~overlapped[c]

(* A delete, with nobody else at work and on any data (cycles, self        *)
(* references, diamonds): if it succeeds, exactly the rows reachable over  *)
(* cascading references are removed and exactly the setNull references to  *)
(* them cleared; it is refused only for a restrict reference to a row it   *)
(* would have deleted, and with a real transaction everything is then as   *)
(* it was (docs/relations/referential-actions.md:72-104,                   *)
(* application-integrity.ts:231-286).  The exception: rows whose own       *)
(* setNull reference brought them under the filter and has been cleared    *)
(* stop matching and stay, which application-integrity.ts:185-187 takes to *)
(* be impossible.                                                          *)
DeletesExactly(c) ==
  /\ EndsAlone(c, "ok") /\ ~ClearsFilter(start[c], c) => db' = AfterDelete(start[c], c)
  /\ EndsAlone(c, "conflict") => Restricted(start[c], c) /\ (realTx => db' = start[c])
DeleteIsExact == [][\A c \in Clients : IsDelete(c) => DeletesExactly(c)]_vars

(* Foreign key f of row k references a row that is missing.               *)
Dangling(f, k) ==
  LET row == db[Fks[f].child][k]
  IN  row # NoRow /\ row[f] # Null /\ db[Fks[f].parent][row[f]] = NoRow

(* A successful insert or patch that was not alone has written the row.    *)
Raced(t, k) ==
  \E w \in Clients : /\ IsWrite(w) /\ overlapped[w] /\ outcome[w] = "ok"
                     /\ Call(w).table = t /\ k \in DOMAIN Call(w).rows

(* When all is quiet, a reference dangles only if an insert or a patch that*)
(* ran beside another call wrote the row it is in, or the row it points to *)
(* (a delete takes with it, without its children, a row that has come to   *)
(* match its filter: db-table.ts:1916); concurrent deletes alone never     *)
(* leave one.  The exceptions the code has: a delete that failed half way  *)
(* without real transactions, and setDefault references.                   *)
OrphansOnlyByRace ==
  /\ \A c \in Clients : ~Active(c)
  /\ realTx \/ \A c \in Clients : IsDelete(c) => outcome[c] \notin Failed
  => \A f \in DOMAIN Fks, k \in Keys :
       Dangling(f, k) /\ Fks[f].action # "setDefault" =>
         Raced(Fks[f].child, k) \/ Raced(Fks[f].parent, db[Fks[f].child][k][f])

Complete(c) ==
  \A f \in Call(c).fks : Referenced(c, f) \subseteq Live(start[c], Fks[f].parent)

(* An insert or a patch, with nobody else at work, is refused with         *)
(* FK_VIOLATION exactly when one of its references is missing              *)
(* (application-integrity.ts:41-45).                                       *)
VerdictIsRight ==
  \A c \in Clients : IsWrite(c) /\ pc[c] = "done" /\ ~overlapped[c] =>
    (outcome[c] = "missing" <=> ~Complete(c))

=============================================================================
