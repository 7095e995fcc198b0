------------------------------ MODULE DdlOrder ------------------------------
(***************************************************************************)
(* One schema change applied to the tables of a PostgreSQL database:       *)
(* discovery, pre-flight, and the statements of the execution walk, in an  *)
(* engine that refuses whatever would leave a foreign key without its      *)
(* target.  A run may be hit by mishaps: a statement fails for a reason of *)
(* its own, the process dies (or the run aborts because its lock is lost). *)
(* The next run finds what was left.                                       *)
(*                                                                         *)
(* Names are numbers, so that the order of the names is the order of the   *)
(* numbers.  A child has at most one foreign-key column per parent: a      *)
(* constraint is <<child, parent, key>> where key says which primary key   *)
(* of the parent it references, the "old" or the "new" one.                *)
(*                                                                         *)
(* Views, renames, safe mode, data steps and rows are not in this module.  *)
(* Source: packages/db/src/schema/schema-sync.ts, sync-executor.ts and     *)
(* packages/db-postgres/src/postgres-adapter.ts.                           *)
(***************************************************************************)
EXTENDS DependencyOrder

CONSTANTS
  Families,  \* bounds: the schema changes looked at, see DdlInit
  MaxRuns    \* bound: runs of schema sync

Names == UNION {f.names : f \in Families}
Changes == {"none", "rekey", "retype", "retypekey"}
ForeignKeys == Names \X Names \X {"old", "new"}

ASSUME FamiliesAssumption ==
  \A f \in Families :
    /\ f.names \subseteq Nat /\ IsFiniteSet(f.names)
    /\ f.roles \subseteq {"new", "kept", "removed", "other"} /\ f.changes \subseteq Changes
    /\ f.mishaps \in Nat
ASSUME RunsAssumption == MaxRuns \in Nat

VARIABLES
  model,     \* tables, wants (pairs <<child, parent>>), change (of each table),
             \* before (the tables of the previous model)
  db,        \* tables, refs (constraints), shaped (tables whose change is applied)
  store,     \* __atscript_control: tracked, snaps (constraints of the stored
             \* snapshots), settled (the stored hash is the model's)
  run,       \* the run in progress, and the outcome of the last one
  runs,      \* runs ended
  mishaps    \* mishaps left

ddlVars == <<model, db, store, run, runs, mishaps>>

IdleRun == [stage |-> "idle", walk |-> <<>>, predrop |-> {}, deferred |-> <<>>, errors |-> {},
          dropped |-> {}, blocking |-> {}, clean |-> TRUE, outcome |-> "none"]

(* A family of schema changes: every name of it is a new table, one the    *)
(* previous model had and this one keeps or removes, or one outside the    *)
(* inventory; up to `refs` constraints are in the database, up to `wants`  *)
(* are in the model, and at most one kept table gets another primary key   *)
(* ("rekey") or, under @db.sync.method 'drop', another type of a column    *)
(* ("retypekey" if constraints may reference that column).                 *)
Starts(f, role) ==
  LET Are(kinds) == {n \in f.names : role[n] \in kinds}
      Pairs(S, T) == {p \in S \X T : p[1] # p[2]}
      Constraints(pairs) == {<<p[1], p[2], "old">> : p \in pairs}
      known == Are({"kept", "removed", "other"})
  IN  \E wants \in SUBSET Pairs(Are({"new", "kept"}), f.names) :
      \E refs \in SUBSET Pairs(known, known) :
      \E changed \in {<<0, "none">>} \cup (Are({"kept"}) \X f.changes) :
        /\ Cardinality(wants) <= f.wants /\ Cardinality(refs) <= f.refs
        /\ model = [tables |-> Are({"new", "kept"}), wants |-> wants, before |-> Are({"kept", "removed"}),
                    change |-> [t \in Are({"new", "kept"}) |-> IF t = changed[1] THEN changed[2] ELSE "none"]]
        /\ db = [tables |-> known, refs |-> Constraints(refs), shaped |-> {}]
        /\ store = [tracked |-> model.before, settled |-> FALSE,
                    snaps |-> {r \in db.refs : r[1] \in model.before}]

WalkSteps ==
  [kind : {"drop"}, group : SUBSET Names] \cup [kind : {"deferred"}]
    \cup [kind : {"table"}, name : Names, cycle : SUBSET Names]

DdlTypeOK ==
  /\ model.tables \subseteq Names /\ model.wants \subseteq model.tables \X Names
  /\ model.change \in [model.tables -> Changes] /\ model.before \subseteq Names
  /\ db \in [tables : SUBSET Names, refs : SUBSET ForeignKeys, shaped : SUBSET Names]
  /\ store \in [tracked : SUBSET Names, settled : BOOLEAN, snaps : SUBSET ForeignKeys]
  /\ run \in [stage : {"idle", "predrop", "walk", "shape", "create", "constraints", "track", "hash"},
              walk : Seq(WalkSteps), predrop : SUBSET ForeignKeys, deferred : Seq(Names),
              errors : SUBSET Names, dropped : SUBSET Names, blocking : SUBSET ForeignKeys,
              clean : BOOLEAN, outcome : {"none", "refused", "synced", "failed", "threw"}]
  /\ runs \in 0..MaxRuns
  /\ mishaps \in Nat

DdlInit ==
  /\ \E f \in Families : \E role \in [f.names -> f.roles] : Starts(f, role) /\ mishaps = f.mishaps
  /\ run = IdleRun
  /\ runs = 0

-----------------------------------------------------------------------------
(* Facts: what discovery reads and derives.  Only sync changes the tables  *)
(* while a run holds the lock, so the facts are read off the state.        *)

Removed == store.tracked \ model.tables

Inbound(t) == {r \in db.refs : r[2] = t}
Outbound(t) == {r \in db.refs : r[1] = t}

(* The primary key `p` has in the model, and the one it has now. *)
GoalKey(p) == IF p \in model.tables /\ model.change[p] = "rekey" THEN "new" ELSE "old"
LiveKey(p) == IF p \in db.shaped THEN GoalKey(p) ELSE "old"

Goal(t) == {<<t, w[2], GoalKey(w[2])>> : w \in {v \in model.wants : v[1] = t}}

(* `dropsTable`: the step of t rebuilds its key or drops and recreates it. *)
DropsTable(t) == t \in db.tables \ db.shaped /\ model.change[t] # "none"
Rekeys(t) == DropsTable(t) /\ model.change[t] = "rekey"

createEdges == {w \in model.wants : w[2] \in model.tables}
createOrder == topoOrder(model.tables, createEdges)

dropEdges == {<<r[1], r[2]>> : r \in {q \in db.refs : q[1] \in Removed /\ q[2] \in Removed}}
dropOrder == Reverse(topoOrder(Removed, dropEdges))

(* Mutant: without the removed tables that reference the blockers. *)
directBlockers(t) == {r[1] : r \in Inbound(t)} \cap Removed

(* The removed tables that must go before t can be dropped or rebuilt. *)
removedBlockers(t) == reachable({r[1] : r \in Inbound(t)} \cap Removed, dropEdges)

(* Early drops: the groups of removed tables that go right before t, the   *)
(* first table in the order of creation that they block.                   *)
earlyDrops ==
  LET tables == FlattenSeq(createOrder)
      Blocks(g, t) == DropsTable(t) /\ ToSet(g) \cap removedBlockers(t) # {}
      First(g, i) == Blocks(g, tables[i]) /\ \A j \in 1..(i - 1) : ~Blocks(g, tables[j])
  IN  [t \in model.tables |->
         {g \in ToSet(dropOrder) : \E i \in DOMAIN tables : tables[i] = t /\ First(g, i)}]

movedGroups == UNION {earlyDrops[t] : t \in model.tables}

(* The drops of some of the groups, in their order. *)
DropSteps(groups) ==
  FlattenSeq([i \in DOMAIN dropOrder |->
                IF dropOrder[i] \in groups THEN <<[kind |-> "drop", group |-> ToSet(dropOrder[i])]>> ELSE <<>>])

(* A table after the removed tables that block it, and the tables of one   *)
(* group.                                                                  *)
TableSteps(t, group) ==
  DropSteps(earlyDrops[t])
    \o <<[kind |-> "table", name |-> t, cycle |-> IF Len(group) > 1 THEN ToSet(group) ELSE {}]>>
GroupSteps(group) == FlattenSeq([i \in DOMAIN group |-> TableSteps(group[i], group)])

(* The walk: tables parents first, each after the removed tables that      *)
(* block it; the deferred constraints of the cycles; the other removed     *)
(* tables, children first.                                                 *)
orderedSteps ==
  FlattenSeq([i \in DOMAIN createOrder |-> GroupSteps(createOrder[i])])
    \o <<[kind |-> "deferred"]>>
    \o DropSteps(ToSet(dropOrder) \ movedGroups)

(* Pre-flight: what no order of statements can apply. *)
refused ==
  \/ \E t \in model.tables : Rekeys(t) /\ \E r \in Inbound(t) : r[1] \notin Removed /\ <<r[1], t>> \notin model.wants
  \/ \E w \in model.wants : w[2] \notin model.tables \cup db.tables
  \/ \E w \in model.wants : w[2] \in Removed

(* Steps 2 and 2b: constraints on a key about to be rebuilt, and those on  *)
(* a column about to change its type that their table no longer declares.  *)
toPredrop ==
  {r \in db.refs : r[1] \in model.tables /\ r[2] \in model.tables /\ DropsTable(r[2]) /\
     \/ model.change[r[2]] = "rekey"
     \/ model.change[r[2]] = "retypekey" /\ <<r[1], r[2]>> \notin model.wants}

(* Constraints a kept table no longer declares, whose targets are dropped  *)
(* before or in the middle of the walk over the tables.                    *)
standingInTheWay ==
  LET moved == UNION {ToSet(g) : g \in movedGroups}
  IN  {r \in db.refs \ toPredrop : /\ r[1] \in model.tables /\ <<r[1], r[2]>> \notin model.wants
                                   /\ \/ r[2] \in moved
                                      \/ r[2] \in model.tables /\ DropsTable(r[2])}

-----------------------------------------------------------------------------
(* The engine: a table goes only when no other references it, a constraint *)
(* needs its target and the key it names.                                  *)

CanDrop(group) == \A r \in db.refs : r[2] \in group => r[1] \in group
CanAdd(refs) == \A r \in refs : r[2] \in db.tables /\ r[3] = LiveKey(r[2])

Ends(outcome) ==
  /\ run' = [IdleRun EXCEPT !.outcome = outcome, !.errors = run.errors, !.clean = run.clean,
                          !.blocking = run.blocking]
  /\ runs' = runs + 1

Mishap == mishaps > 0 /\ mishaps' = mishaps - 1
NoMishap == UNCHANGED mishaps

(* The current table step becomes an error entry; the walk goes on. *)
StepFailed(clean) ==
  run' = [run EXCEPT !.errors = @ \cup {Head(run.walk).name}, !.walk = Tail(@), !.stage = "walk",
                     !.clean = @ /\ clean]
StepDone == run' = [run EXCEPT !.walk = Tail(@), !.stage = "walk"]

StartRun ==
  /\ run.stage = "idle" /\ runs < MaxRuns
  /\ ~store.settled
  /\ IF refused
     THEN /\ run' = [IdleRun EXCEPT !.outcome = "refused"]
          /\ runs' = runs + 1
     ELSE /\ run' = [IdleRun EXCEPT !.stage = IF toPredrop = {} THEN "walk" ELSE "predrop",
                                  !.walk = orderedSteps, !.predrop = toPredrop,
                                  !.blocking = standingInTheWay]
          /\ UNCHANGED runs
  /\ UNCHANGED <<model, db, store, mishaps>>

(* Before the walk; a failing statement here fails the whole run. *)
DropInboundKeys ==
  /\ run.stage = "predrop"
  /\ \/ /\ db' = [db EXCEPT !.refs = @ \ run.predrop]
        /\ run' = [run EXCEPT !.stage = "walk"]
        /\ NoMishap /\ UNCHANGED runs
     \/ /\ \E part \in SUBSET run.predrop :
             part # run.predrop /\ db' = [db EXCEPT !.refs = @ \ part]
        /\ Mishap /\ Ends("threw")
  /\ UNCHANGED <<model, store>>

(* The head of the walk, if it is of that kind. *)
NextIs(kind) == run.stage = "walk" /\ run.walk # <<>> /\ Head(run.walk).kind = kind

(* A group of removed tables: probed for inbound constraints of tables     *)
(* that stay, then dropped with one statement.                             *)
dropRemovedGroup ==
  /\ NextIs("drop")
  /\ LET group == Head(run.walk).group
         blocked == \E r \in db.refs : r[2] \in group /\ r[1] \notin Removed
         Failed(clean) == /\ run' = [run EXCEPT !.errors = @ \cup group, !.walk = Tail(@),
                                                !.clean = @ /\ clean]
                          /\ UNCHANGED db
     IN  \/ blocked /\ Failed(TRUE) /\ NoMishap
         \/ ~blocked /\ ~CanDrop(group) /\ Failed(TRUE) /\ NoMishap
         \/ ~blocked /\ Failed(FALSE) /\ Mishap
         \/ /\ ~blocked /\ CanDrop(group) /\ NoMishap
            /\ db' = [db EXCEPT !.tables = @ \ group, !.refs = {r \in @ : r[1] \notin group}]
            /\ run' = [run EXCEPT !.dropped = @ \cup group, !.walk = Tail(@)]
  /\ UNCHANGED <<model, store, runs>>

(* Mutant: one stale constraint and all of the table's are dropped. *)
DropAllKeys ==
  /\ NextIs("table")
  /\ LET t == Head(run.walk).name
         stale == IF \E s \in store.snaps : s[1] = t /\ s \notin Goal(t) THEN Outbound(t) ELSE {}
     IN  /\ t \in db.tables
         /\ \/ /\ db' = [db EXCEPT !.refs = @ \ stale]
               /\ run' = [run EXCEPT !.stage = IF DropsTable(t) THEN "shape" ELSE "constraints"]
               /\ NoMishap
            \/ /\ \E part \in SUBSET stale : part # stale /\ db' = [db EXCEPT !.refs = @ \ part]
               /\ StepFailed(FALSE) /\ Mishap
  /\ UNCHANGED <<model, store, runs>>

(* A table that exists: the constraints its snapshot names and the model   *)
(* does not, or not for this key, are dropped before its columns change.   *)
DropStaleKeys ==
  /\ NextIs("table")
  /\ LET t == Head(run.walk).name
         stale == {r \in Outbound(t) : \E s \in store.snaps : s[1] = t /\ s[2] = r[2] /\ s \notin Goal(t)}
     IN  /\ t \in db.tables
         /\ \/ /\ db' = [db EXCEPT !.refs = @ \ stale]
               /\ run' = [run EXCEPT !.stage = IF DropsTable(t) THEN "shape" ELSE "constraints"]
               /\ NoMishap
            \/ /\ \E part \in SUBSET stale : part # stale /\ db' = [db EXCEPT !.refs = @ \ part]
               /\ StepFailed(FALSE) /\ Mishap
  /\ UNCHANGED <<model, store, runs>>

(* rebuildPrimaryKey: one ALTER TABLE. *)
RebuildKey ==
  /\ run.stage = "shape"
  /\ LET t == Head(run.walk).name
     IN  /\ Rekeys(t)
         /\ \/ /\ Inbound(t) = {} /\ NoMishap
               /\ db' = [db EXCEPT !.shaped = @ \cup {t}]
               /\ run' = [run EXCEPT !.stage = "constraints"]
            \/ Inbound(t) # {} /\ StepFailed(TRUE) /\ NoMishap /\ UNCHANGED db
            \/ StepFailed(FALSE) /\ Mishap /\ UNCHANGED db
  /\ UNCHANGED <<model, store, runs>>

(* dropAndRecreate, first half: DROP TABLE without CASCADE. *)
DropOutdated ==
  /\ run.stage = "shape"
  /\ LET t == Head(run.walk).name
     IN  /\ ~Rekeys(t)
         /\ \/ /\ CanDrop({t}) /\ NoMishap
               /\ db' = [db EXCEPT !.tables = @ \ {t}, !.refs = @ \ Outbound(t)]
               /\ run' = [run EXCEPT !.stage = "create"]
            \/ ~CanDrop({t}) /\ StepFailed(TRUE) /\ NoMishap /\ UNCHANGED db
            \/ StepFailed(FALSE) /\ Mishap /\ UNCHANGED db
  /\ UNCHANGED <<model, store, runs>>

(* ensureTable: CREATE TABLE with its constraints inline, those to the     *)
(* members of its cycle left out.                                          *)
ensureTable ==
  /\ \/ NextIs("table") /\ Head(run.walk).name \notin db.tables
     \/ run.stage = "create"
  /\ LET t == Head(run.walk).name
         inline == {r \in Goal(t) : r[2] \notin Head(run.walk).cycle}
     IN  \/ /\ CanAdd(inline) /\ NoMishap
            /\ db' = [tables |-> db.tables \cup {t}, shaped |-> db.shaped \cup {t},
                      refs |-> db.refs \cup inline]
            /\ run' = [run EXCEPT !.stage = "constraints"]
         \/ ~CanAdd(inline) /\ StepFailed(TRUE) /\ NoMishap /\ UNCHANGED db
         \/ StepFailed(FALSE) /\ Mishap /\ UNCHANGED db
  /\ UNCHANGED <<model, store, runs>>

(* syncForeignKeys of t: drops the live constraints over columns the model *)
(* declares none for, then adds the declared ones that have no live one    *)
(* over their columns.  Stops at the first statement that fails.           *)
syncForeignKeys(t, Done, Failed(_)) ==
  LET extra == {r \in Outbound(t) : <<t, r[2]>> \notin model.wants}
      missing == {r \in Goal(t) : \A q \in Outbound(t) : q[2] # r[2]}
      Refs(dropped, added) == db' = [db EXCEPT !.refs = (@ \ dropped) \cup added]
  IN  \/ CanAdd(missing) /\ Refs(extra, missing) /\ Done /\ NoMishap
      \/ /\ ~CanAdd(missing) /\ Failed(TRUE) /\ NoMishap
         /\ \E added \in SUBSET missing : CanAdd(added) /\ Refs(extra, added)
      \/ /\ Failed(FALSE) /\ Mishap
         /\ \/ \E part \in SUBSET extra : part # extra /\ Refs(part, {})
            \/ \E part \in SUBSET missing : part # missing /\ CanAdd(part) /\ Refs(extra, part)

(* Mutant: the members of a cycle are never come back to. *)
SyncKeysOnce ==
  /\ run.stage = "constraints"
  /\ LET t == Head(run.walk).name
     IN  IF Head(run.walk).cycle = {}
         THEN syncForeignKeys(t, StepDone, StepFailed)
         ELSE StepDone /\ UNCHANGED <<db, mishaps>>
  /\ UNCHANGED <<model, store, runs>>

(* applyTableConstraints; the members of a cycle wait for the others. *)
SyncKeys ==
  /\ run.stage = "constraints"
  /\ LET t == Head(run.walk).name
     IN  IF Head(run.walk).cycle = {}
         THEN syncForeignKeys(t, StepDone, StepFailed)
         ELSE /\ run' = [run EXCEPT !.walk = Tail(@), !.stage = "walk", !.deferred = Append(@, t)]
              /\ UNCHANGED <<db, mishaps>>
  /\ UNCHANGED <<model, store, runs>>

(* executeDeferredForeignKeys, for the members without an error entry. *)
SyncDeferredKeys ==
  /\ NextIs("deferred")
  /\ LET t == Head(run.deferred)
         Passed(errors, clean) == run' = [run EXCEPT !.deferred = Tail(@), !.errors = @ \cup errors,
                                                     !.clean = @ /\ clean]
         Failed(clean) == Passed({t}, clean)
     IN  IF run.deferred = <<>> THEN StepDone /\ UNCHANGED <<db, mishaps>>
         ELSE syncForeignKeys(t, Passed({}, TRUE), Failed)
  /\ UNCHANGED <<model, store, runs>>

(* Snapshots, except those of error entries; those of dropped tables go. *)
StoreSnapshots ==
  /\ run.stage = "walk" /\ run.walk = <<>>
  /\ LET Of(written) == {s \in store.snaps : s[1] \notin written} \cup UNION {Goal(t) : t \in written}
         Without(snaps, gone) == {s \in snaps : s[1] \notin gone}
         ok == model.tables \ run.errors
     IN  \/ /\ store' = [store EXCEPT !.snaps = Without(Of(ok), run.dropped)]
            /\ run' = [run EXCEPT !.stage = "track"]
            /\ NoMishap /\ UNCHANGED runs
         \/ /\ \E written \in SUBSET ok : store' = [store EXCEPT !.snaps = Of(written)]
            /\ Mishap /\ Ends("threw")
  /\ UNCHANGED <<model, db>>

(* The tracked list: the model's tables and the removed ones not dropped. *)
StoreTracked ==
  /\ run.stage = "track"
  /\ store' = [store EXCEPT !.tracked = model.tables \cup (run.errors \cap Removed)]
  /\ run' = [run EXCEPT !.stage = "hash"]
  /\ UNCHANGED <<model, db, runs, mishaps>>

(* The hash, only when no entry is in error. *)
StoreHash ==
  /\ run.stage = "hash"
  /\ store' = [store EXCEPT !.settled = run.errors = {}]
  /\ Ends(IF run.errors = {} THEN "synced" ELSE "failed")
  /\ UNCHANGED <<model, db, mishaps>>

(* The process dies, or the run aborts because its lock was lost. *)
RunDies ==
  /\ run.stage # "idle"
  /\ Mishap /\ Ends("threw")
  /\ UNCHANGED <<model, db, store>>

DdlNext ==
  \/ StartRun \/ DropInboundKeys \/ dropRemovedGroup
  \/ DropStaleKeys \/ RebuildKey \/ DropOutdated \/ ensureTable \/ SyncKeys
  \/ SyncDeferredKeys \/ StoreSnapshots \/ StoreTracked \/ StoreHash \/ RunDies

DdlSpec == DdlInit /\ [][DdlNext]_ddlVars

-----------------------------------------------------------------------------
(* Properties. *)

(* Both orders the walk is built from put every table after those it       *)
(* depends on, and group exactly the tables of each foreign-key cycle:     *)
(* topoOrder over the model's tables and over the removed ones.            *)
OrdersAreRight ==
  run.stage = "idle" =>
    /\ IsDependencyOrder(createOrder, model.tables, createEdges)
    /\ IsDependencyOrder(topoOrder(Removed, dropEdges), Removed, dropEdges)

(* Once the hash of the model is stored, after whatever failed or crashed  *)
(* before, the database is the model's: its tables in their new shape,     *)
(* exactly the constraints they declare, on the keys they declare, and     *)
(* none of the removed tables.                                             *)
SettledIsTheModel ==
  store.settled =>
    /\ model.tables \subseteq db.tables
    /\ \A t \in model.tables : ~DropsTable(t) /\ Outbound(t) = Goal(t)
    /\ (model.before \ model.tables) \cap db.tables = {}

(* The error entries no run can avoid, judged by what the run left: a      *)
(* removed table or a table to be dropped and recreated that a constraint  *)
(* from outside the inventory (or one its own model keeps declaring) still *)
(* references, and what waits for one of these.                            *)
Unavoidable ==
  LET Needs(t, bad) ==
        \/ t \in Removed /\ \E r \in Inbound(t) : r[1] \notin model.tables /\ (r[1] \notin Removed \/ r[1] \in bad)
        \/ /\ t \in model.tables /\ DropsTable(t)
           /\ \E r \in Inbound(t) : \/ r[1] \in Removed => r[1] \in bad /\ r[1] \notin model.tables
                                   \/ <<r[1], t>> \in model.wants
        \/ t \in model.tables /\ \E r \in Goal(t) : r[2] \in bad /\ ~CanAdd({r})
      Grow(bad, i) == bad \cup {t \in model.tables \cup Removed : Needs(t, bad)}
  IN  FoldLeft(Grow, {}, [i \in 1..Cardinality(model.tables \cup Removed) |-> i])

(* A run that nothing disturbs and pre-flight lets through does all of it: *)
(* its only error entries are the unavoidable ones.  Left out is a run     *)
(* that starts with a constraint standing in the way: a removed table is   *)
(* dropped early, or a table recreated, before the step of the kept table  *)
(* that no longer declares its reference to it (schema-sync.ts:1602, 2029).*)
(* The engine refuses, and the run after it is not left out.               *)
CleanRunFinishes ==
  run.outcome \in {"synced", "failed"} /\ run.clean /\ run.blocking = {} => run.errors \subseteq Unavoidable

(* What the change does not concern is left alone at every statement: the  *)
(* tables outside the inventory and their constraints, the rows' tables    *)
(* (a kept table goes only to be recreated as its model asks), and every   *)
(* declared constraint between tables that are not rebuilt.                *)
LeavesTheRestAlone ==
  [][LET managed == model.tables \cup model.before
         rebuilt == {t \in model.tables : model.change[t] # "none"}
     IN  /\ db.tables \ managed \subseteq db'.tables
         /\ \A t \in (db.tables \ db'.tables) \cap model.tables : model.change[t] \in {"retype", "retypekey"}
         /\ \A r \in db.refs \ db'.refs :
              /\ r[1] \in managed
              /\ r \in Goal(r[1]) => r[1] \in rebuilt \/ r[2] \in rebuilt]_ddlVars

=============================================================================
