---------------------------- MODULE NestedWrites ----------------------------
(***************************************************************************)
(* One write call with nested data: the rows of a table (`parents`) with   *)
(* the rows its three kinds of relation reach.                             *)
(*   TO    the owner row a parent's foreign key references;                *)
(*   FROM  the child rows whose foreign key references a parent;           *)
(*   VIA   the target rows linked to a parent by rows of a junction table. *)
(*                                                                         *)
(* Source: packages/db/src/rel/nested-writer.ts and insertMany,            *)
(* bulkReplace, bulkUpdate of packages/db/src/table/db-table.ts.           *)
(*                                                                         *)
(* The call is a sequence of statements with an `await` between any two;   *)
(* between them another client writes the related tables directly.  A call *)
(* plans first (reads only), then writes its own rows, then the related    *)
(* ones.  On a transactional adapter a refused call is rolled back and the *)
(* rows it has written are locked until it ends; on the others (memory,    *)
(* standalone MongoDB) withTransaction is a pass-through.                  *)
(***************************************************************************)
EXTENDS Integers, Sequences, FiniteSets

CONSTANTS
  Parents, Children, Owners, Targets,  \* primary keys of the four tables
  Null,           \* SQL NULL, and "no nested TO object"
  NoRow,          \* the key names no stored row
  Calls,          \* calls that may be made
  Stores,         \* stored rows when the call starts
  TxModes,        \* subset of BOOLEAN: does the adapter have transactions?
  MaxOthers       \* bound: statements of other clients during the call

VARIABLES
  call,       \* the call: its mode and its batch of items
  tx,         \* the adapter has transactions
  db,         \* the stored rows, by row identity
  undo,       \* the rows the call has written, as they were before it did
  pos,        \* the phase the call is in: an index of Phases[call.mode]
  next,       \* the next item of a phase that goes item by item
  todo,       \* statements the phase still has to execute
  pinned,     \* _pinTargets: each item's stored row, as read
  owned,      \* TNestedFromViaPlan.owned: children found under their parent
  current,    \* currentChildrenOf: parent -> its children, read at once
  matched,    \* items whose main write matched a row
  outcome,    \* "running", "ok" or the error of the call
  start,      \* history: the stored rows when the call started
  others      \* statements other clients have executed during the call

vars == <<call, tx, db, undo, pos, next, todo, pinned, owned, current, matched,
          outcome, start, others>>

-----------------------------------------------------------------------------
(* Rows.  Payload data is abstracted to "old" or "new".                    *)

P(p) == <<"parent", p>>
C(k) == <<"child", k>>
O(o) == <<"owner", o>>
T(t) == <<"target", t>>
L(p, t) == <<"link", p, t>>   \* holds how many junction rows link the two

ParentRows == {P(p) : p \in Parents}
ChildRows == {C(k) : k \in Children}
OwnerRows == {O(o) : o \in Owners}
TargetRows == {T(t) : t \in Targets}
LinkRows == {L(p, t) : p \in Parents, t \in Targets}
Rows == ParentRows \cup ChildRows \cup OwnerRows \cup TargetRows \cup LinkRows

Data == {"old", "new"}
Errors == {"CONFLICT", "FK_VIOLATION", "NOT_FOUND", "INVALID_QUERY"}

StoredOK(d) ==
  /\ DOMAIN d = Rows
  /\ \A r \in ParentRows : d[r] \in {NoRow} \cup [owner : Owners \cup {Null}, data : Data]
  /\ \A r \in ChildRows : d[r] \in {NoRow} \cup [fk : Parents \cup {Null}, data : Data]
  /\ \A r \in OwnerRows \cup TargetRows : d[r] \in {NoRow} \cup [data : Data]
  /\ \A r \in LinkRows : d[r] \in Nat

ChildrenOf(d, p) == {k \in Children : d[C(k)] # NoRow /\ d[C(k)].fk = p}

(* Entries.  An entry without a key gets `key` from the database when it is*)
(* inserted.  `valid`: its foreign key to some other table names a row.    *)
(* `full`: it carries more than its key.  The entries of an operator are a *)
(* set: each has another key, and every order of them is one payload.      *)
Entry(keys) == [key : keys, keyed : BOOLEAN, valid : BOOLEAN, full : BOOLEAN]

(* The operators of a relation.  A PUT's plain array is its "replace", an  *)
(* insert's is its "insert".                                               *)
Operators == {"replace", "remove", "update", "upsert", "insert"}
Given(ops, o) == IF o \in DOMAIN ops THEN ops[o] ELSE {}
GivenAny(ops, os) == UNION {Given(ops, o) : o \in os}
Keyed(es) == {e \in es : e.keyed}
Unkeyed(es) == {e \in es : ~e.keyed}
Keys(es) == {e.key : e \in es}

OperatorsOK(ops, keys) ==
  /\ DOMAIN ops \subseteq Operators
  /\ \A o \in DOMAIN ops : ops[o] \subseteq Entry(keys)

CallOK(c) ==
  /\ c.mode \in {"patch", "replace", "insert"}
  /\ Len(c.items) \in Nat /\ DOMAIN c.items = 1..Len(c.items)
  /\ \A i \in DOMAIN c.items :
       LET it == c.items[i] IN
       /\ it.parent \in Parents
       /\ it.stale \in BOOLEAN
       /\ it.own \in BOOLEAN /\ (c.mode # "patch" => it.own)
       /\ it.to \in Owners \cup {Null, "unnamed"}
       /\ OperatorsOK(it.from, Children)
       /\ OperatorsOK(it.via, Targets)
       /\ c.mode # "patch" =>  \* a PUT and an insert act on plain arrays only
            DOMAIN it.from \cup DOMAIN it.via \subseteq {c.mode}
  /\ c.mode = "insert" => \A i, j \in DOMAIN c.items :   \* no key twice in a batch
       i # j => /\ c.items[i].parent # c.items[j].parent
                /\ c.items[i].to = c.items[j].to => c.items[i].to = Null
                /\ Keys(Given(c.items[i].from, "insert")) \cap
                     Keys(Given(c.items[j].from, "insert")) = {}

ASSUME CallsAssumption == \A c \in Calls : CallOK(c)
ASSUME StoresAssumption == \A d \in Stores : StoredOK(d)

Items == DOMAIN call.items
Item(i) == call.items[i]

Phases ==
  [patch |-> <<"pin", "claims", "links", "targets", "planTo", "main", "to",
               "shared", "from", "via">>,
   replace |-> <<"claims", "targets", "refs", "pin", "to", "owners", "main",
                 "shared", "from", "via">>,
   insert |-> <<"targets", "refs", "to", "owners", "main", "childRefs", "from", "via">>]

In(phase) ==
  /\ outcome = "running"
  /\ todo = <<>>
  /\ pos \in DOMAIN Phases[call.mode]
  /\ Phases[call.mode][pos] = phase

MatchedParents == {Item(i).parent : i \in matched}

TypeOK ==
  /\ call \in Calls
  /\ tx \in TxModes
  /\ StoredOK(db)
  /\ StoredOK(start)
  /\ DOMAIN undo \subseteq Rows
  /\ pos \in 1..(Len(Phases[call.mode]) + 1)
  /\ next \in 1..(Len(call.items) + 1)
  /\ owned \subseteq Children
  /\ DOMAIN current \subseteq Parents
  /\ matched \subseteq Items
  /\ outcome \in {"running", "ok"} \cup Errors
  /\ others \in 0..MaxOthers

Init ==
  /\ call \in Calls
  /\ tx \in TxModes
  /\ db \in Stores
  /\ undo = <<>>
  /\ pos = 1
  /\ next = 1
  /\ todo = <<>>
  /\ pinned = <<>>
  /\ owned = {}
  /\ current = <<>>
  /\ matched = {}
  /\ outcome = "running"
  /\ start = db
  /\ others = 0

-----------------------------------------------------------------------------
(* How a step of the call ends *)

(* A statement writes `changes`, a function from rows to their new values. *)
Write(changes) ==
  /\ db' = [r \in Rows |-> IF r \in DOMAIN changes THEN changes[r] ELSE db[r]]
  /\ undo' = [r \in DOMAIN undo \cup DOMAIN changes |->
                IF r \in DOMAIN undo THEN undo[r] ELSE db[r]]

(* The call throws `error` after `changes`: rolled back, or left as it is. *)
Throw(error, changes) ==
  /\ outcome' = error
  /\ todo' = <<>>
  /\ IF tx
     THEN /\ db' = [r \in Rows |-> IF r \in DOMAIN undo THEN undo[r] ELSE db[r]]
          /\ UNCHANGED undo
     ELSE Write(changes)
  /\ UNCHANGED <<call, tx, pos, next, pinned, owned, current, matched, start, others>>

Advance ==
  /\ pos' = pos + 1
  /\ next' = 1
  /\ UNCHANGED <<call, tx, outcome, start, others>>

(* insertMany of the rows `ids`: one whose key is taken throws, after the  *)
(* rows before it have been stored.                                        *)
InsertRows(ids, row(_), accepted) ==
  LET free == {r \in ids : db[r] = NoRow} IN
  IF free = ids
  THEN Write([r \in ids |-> row(r)]) /\ accepted
  ELSE \E stored \in SUBSET free : Throw("CONFLICT", [r \in stored |-> row(r)])

(* A phase that reads decides: refuse with the first error, or go on.      *)
Decide(errors) ==
  IF errors # {}
  THEN \E e \in errors : Throw(e, <<>>)
  ELSE /\ Advance
       /\ UNCHANGED <<db, undo, todo, pinned, owned, current, matched>>

-----------------------------------------------------------------------------
(* The plan: everything below is read before the first write *)

Pin ==
  /\ In("pin")
  /\ pinned' = [i \in Items |-> db[P(Item(i).parent)]]
  /\ Advance
  /\ UNCHANGED <<db, undo, todo, owned, current, matched>>

(* What checkFromOwnership claims of an item: children named by key.       *)
ClaimedChildren(i) ==
  Keys(Keyed(GivenAny(Item(i).from, {"replace", "update", "upsert"})))

(* Mutant: the children of another parent are not refused.                 *)
NoClaimErrors == {}

ClaimErrors ==
  {"CONFLICT" : k \in {k \in Children :
     \E i \in Items : /\ k \in ClaimedChildren(i)
                      /\ db[C(k)] # NoRow
                      /\ db[C(k)].fk # Item(i).parent}}
  \cup {"NOT_FOUND" : i \in {i \in Items : Unkeyed(Given(Item(i).from, "update")) # {}}}

PlanClaims ==
  /\ In("claims")
  /\ IF ClaimErrors # {}
     THEN \E e \in ClaimErrors : Throw(e, <<>>)
     ELSE /\ owned' = {k \in Children : /\ db[C(k)] # NoRow
                                        /\ \E i \in Items : k \in ClaimedChildren(i)}
          /\ Advance
          /\ UNCHANGED <<db, undo, todo, pinned, current, matched>>

(* checkViaLinks: the keyed targets of $update and $upsert must be linked. *)
LinkErrors ==
  {"CONFLICT" : i \in {i \in Items :
     \E t \in Keys(Keyed(GivenAny(Item(i).via, {"update", "upsert"}))) :
       db[L(Item(i).parent, t)] = 0}}
  \cup {"NOT_FOUND" : i \in {i \in Items : Unkeyed(Given(Item(i).via, "update")) # {}}}

PlanLinks == In("links") /\ Decide(LinkErrors)

(* resolveViaLinkValues: the existing targets a write links are stored.    *)
TargetErrors ==
  {"FK_VIOLATION" : i \in {i \in Items :
     \E t \in Keys(Keyed(GivenAny(Item(i).via, {"replace", "insert"}))) :
       db[T(t)] = NoRow}}

PlanTargets == In("targets") /\ Decide(TargetErrors)

(* preValidateNestedFrom (an insert's and a PUT's children only).          *)
RefErrors ==
  {"FK_VIOLATION" : i \in {i \in Items :
     \E e \in GivenAny(Item(i).from, Operators) : ~e.valid}}

CheckChildRefs == In("refs") /\ Decide(RefErrors)

(* planPatchNestedTo: the object patches the row the stored key names.     *)
ToErrors ==
  LET patching == {i \in Items : Item(i).to # Null /\ pinned[i] # NoRow} IN
  {"FK_VIOLATION" : i \in {i \in patching : pinned[i].owner = Null}}
  \cup {"INVALID_QUERY" : i \in {i \in patching :
          /\ pinned[i].owner # Null
          /\ Item(i).to # "unnamed"
          /\ Item(i).to # pinned[i].owner}}

PlanTo == In("planTo") /\ Decide(ToErrors)

-----------------------------------------------------------------------------
(* Statements: what to do, for which parent (or on which TO row), with     *)
(* which entries.                                                          *)

Stmt(do, of, es) == [do |-> do, of |-> of, entries |-> es]
When(condition, stmts) == IF condition THEN stmts ELSE <<>>

(* bulkReplace / bulkUpdate of children: the foreign keys of all, then row *)
(* by row; insertMany: the foreign keys of all, then one statement.        *)
UpdateMany(p, es) == When(es # {}, <<Stmt("checkRefs", p, es), Stmt("update", p, es)>>)
InsertMany(p, es) == When(es # {}, <<Stmt("checkRefs", p, es), Stmt("insert", p, es)>>)

(* batchPatchNestedFrom, one parent; batchReplaceNestedFrom is its first   *)
(* line.                                                                   *)
FromStatements(p, ops) ==
  When("replace" \in DOMAIN ops, <<Stmt("replace", p, Given(ops, "replace"))>>)
  \o When(Given(ops, "remove") # {}, <<Stmt("delete", p, Given(ops, "remove"))>>)
  \o UpdateMany(p, Given(ops, "update"))
  \o When("upsert" \in DOMAIN ops, <<Stmt("upsert", p, Given(ops, "upsert"))>>)
  \o InsertMany(p, Given(ops, "insert"))

(* bulkReplace / bulkUpdate of targets.                                    *)
WriteTargets(p, es) == When(es # {}, <<Stmt("target", p, es)>>)

(* viaLinkTargets: new targets, then one junction row per entry.           *)
LinkTargets(p, es) ==
  When(Unkeyed(es) # {}, <<Stmt("addTargets", p, Unkeyed(es))>>)
  \o When(es # {}, <<Stmt("checkLinks", p, es), Stmt("link", p, es)>>)

(* viaReplace *)
ViaReplace(p, es) ==
  <<Stmt("clear", p, es)>>
  \o WriteTargets(p, {e \in Keyed(es) : e.full})
  \o LinkTargets(p, es)

(* batchPatchNestedVia, one parent.                                        *)
ViaStatements(p, ops) ==
  When("replace" \in DOMAIN ops, ViaReplace(p, Given(ops, "replace")))
  \o When(Given(ops, "remove") # {}, <<Stmt("unlink", p, Given(ops, "remove"))>>)
  \o WriteTargets(p, Given(ops, "update"))
  \o WriteTargets(p, Keyed(Given(ops, "upsert")))
  \o LinkTargets(p, Unkeyed(Given(ops, "upsert")))
  \o LinkTargets(p, Given(ops, "insert"))

-----------------------------------------------------------------------------
(* The TO phase and the main write *)

(* _gateNestedTo: a replace's TO object is dropped when its row is missing *)
(* or its $cas is stale; an insert writes every one.                       *)
KeepsTo(i) ==
  /\ Item(i).to # Null
  /\ call.mode = "replace" => pinned[i] # NoRow /\ ~Item(i).stale

(* The owner an item's TO object is written to, if it is written.          *)
OwnerStatements(i) ==
  IF call.mode = "patch"
  THEN When(Item(i).to # Null /\ pinned[i] # NoRow /\ i \in matched,
            <<Stmt("owner", pinned[i].owner, {})>>)
  ELSE When(KeepsTo(i), <<Stmt("owner", Item(i).to, {})>>)

(* assertReplacedToKeys                                                    *)
ReplacesUnnamedOwner ==
  call.mode = "replace" /\ \E i \in Items : KeepsTo(i) /\ Item(i).to = "unnamed"

(* batchReplaceNestedTo, applyPatchNestedTo: row by row.                   *)
WriteTo ==
  /\ In("to")
  /\ call.mode # "insert"
  /\ IF ReplacesUnnamedOwner
     THEN Throw("INVALID_QUERY", <<>>)
     ELSE IF next \in Items
     THEN /\ todo' = OwnerStatements(next)
          /\ next' = next + 1
          /\ UNCHANGED <<call, tx, db, undo, pos, pinned, owned, current, matched,
                         outcome, start, others>>
     ELSE Advance /\ UNCHANGED <<db, undo, todo, pinned, owned, current, matched>>

(* batchInsertNestedTo: one statement for the batch.                       *)
InsertTo ==
  /\ In("to")
  /\ call.mode = "insert"
  /\ InsertRows({O(o) : o \in {Item(i).to : i \in Items} \ {Null}},
                LAMBDA r : [data |-> "new"],
                Advance /\ UNCHANGED <<todo, pinned, owned, current, matched>>)

(* validateForeignKeys of the rows themselves, after the TO phase.         *)
OwnerErrors ==
  {"FK_VIOLATION" : i \in {i \in Items : KeepsTo(i) /\ db[O(Item(i).to)] = NoRow}}

CheckOwners == In("owners") /\ Decide(OwnerErrors)

RowWritten(i) ==
  [owner |-> IF call.mode = "patch" THEN db[P(Item(i).parent)].owner
             ELSE IF KeepsTo(i) THEN Item(i).to ELSE Null,
   data |-> "new"]

(* The main replace / patch of one item.  A patch with nothing of its own  *)
(* only looks for its row.  A replace whose TO row has been written must   *)
(* match.                                                                  *)
WriteParent ==
  /\ In("main")
  /\ call.mode # "insert"
  /\ next \in Items
  /\ LET row == P(Item(next).parent) IN
     IF db[row] # NoRow /\ ~Item(next).stale
     THEN /\ IF Item(next).own THEN Write([r \in {row} |-> RowWritten(next)])
             ELSE UNCHANGED <<db, undo>>
          /\ matched' = matched \cup {next}
          /\ next' = next + 1
          /\ UNCHANGED <<call, tx, pos, todo, pinned, owned, current, outcome, start, others>>
     ELSE IF call.mode = "replace" /\ KeepsTo(next)
     THEN Throw("CONFLICT", <<>>)
     ELSE /\ next' = next + 1
          /\ UNCHANGED <<call, tx, db, undo, pos, todo, pinned, owned, current,
                         matched, outcome, start, others>>

(* The main insert, one statement for the batch.                           *)
InsertParents ==
  /\ In("main")
  /\ call.mode = "insert"
  /\ next = 1
  /\ InsertRows({P(p) : p \in {Item(i).parent : i \in Items}},
                LAMBDA r : RowWritten(CHOOSE i \in Items : P(Item(i).parent) = r),
                /\ matched' = Items
                /\ next' = Len(call.items) + 1
                /\ UNCHANGED <<call, tx, pos, todo, pinned, owned, current, outcome,
                               start, others>>)

MainDone ==
  /\ In("main")
  /\ next \notin Items
  /\ Advance
  /\ UNCHANGED <<db, undo, todo, pinned, owned, current, matched>>

-----------------------------------------------------------------------------
(* The FROM and VIA phases, item by item, for the matched items *)

(* Mutant: the read is shared although a parent comes twice.               *)
ReadSharedRepeated ==
  /\ In("shared")
  /\ LET parents == {Item(i).parent : i \in
                        {i \in matched : "replace" \in DOMAIN Item(i).from}}
     IN current' = [p \in parents |-> ChildrenOf(db, p)]
  /\ Advance
  /\ UNCHANGED <<db, undo, todo, pinned, owned, matched>>

(* currentChildrenOf: one read for the $replace of two or more parents,    *)
(* unless one of them comes twice.                                         *)
ReadShared ==
  /\ In("shared")
  /\ LET patching == {i \in matched : DOMAIN Item(i).from # {}}
         replacing == {i \in patching : "replace" \in DOMAIN Item(i).from}
         among == IF call.mode = "patch" THEN patching ELSE replacing
         distinct == \A i, j \in among : Item(i).parent = Item(j).parent => i = j
         parents == {Item(i).parent : i \in replacing}
     IN current' = IF distinct /\ Cardinality(replacing) >= 2
                   THEN [p \in parents |-> ChildrenOf(db, p)]
                   ELSE <<>>
  /\ Advance
  /\ UNCHANGED <<db, undo, todo, pinned, owned, matched>>

Load(phase, stmts(_)) ==
  /\ In(phase)
  /\ IF next \in Items
     THEN /\ todo' = When(next \in matched, stmts(next))
          /\ next' = next + 1
          /\ UNCHANGED <<call, tx, db, undo, pos, pinned, owned, current, matched,
                         outcome, start, others>>
     ELSE Advance /\ UNCHANGED <<db, undo, todo, pinned, owned, current, matched>>

LoadFrom ==
  /\ call.mode # "insert"
  /\ Load("from", LAMBDA i : FromStatements(Item(i).parent, Item(i).from))

(* batchInsertNestedFrom: one insert for the children of all items, whose  *)
(* parents must be stored.                                                 *)
CheckParents ==
  In("childRefs") /\ Decide({"FK_VIOLATION" : i \in {i \in Items :
    Given(Item(i).from, "insert") # {} /\ db[P(Item(i).parent)] = NoRow}})

InsertFrom ==
  /\ In("from")
  /\ call.mode = "insert"
  /\ LET children(i) == {C(k) : k \in Keys(Given(Item(i).from, "insert"))}
         parentOf(r) == Item(CHOOSE i \in Items : r \in children(i)).parent
     IN InsertRows(UNION {children(i) : i \in Items},
                   LAMBDA r : [fk |-> parentOf(r), data |-> "new"],
                   Advance /\ UNCHANGED <<todo, pinned, owned, current, matched>>)

LoadVia == Load("via", LAMBDA i : ViaStatements(Item(i).parent, Item(i).via))

Executing(do) == outcome = "running" /\ todo # <<>> /\ Head(todo).do = do
Parent == Head(todo).of
Entries == Head(todo).entries

Continue(stmts) ==
  /\ todo' = stmts \o Tail(todo)
  /\ UNCHANGED <<call, tx, pos, next, pinned, owned, current, matched, outcome,
                 start, others>>

Pass(stmts) == Continue(stmts) /\ UNCHANGED <<db, undo>>

(* The statement goes on with its other entries.                           *)
Without(e) == When(Entries # {e}, <<Stmt(Head(todo).do, Parent, Entries \ {e})>>)

(* validateForeignKeys of a child write: the other key, and the parent's.  *)
CheckRefs ==
  /\ Executing("checkRefs")
  /\ IF db[P(Parent)] = NoRow \/ \E e \in Entries : ~e.valid
     THEN Throw("FK_VIOLATION", <<>>)
     ELSE Pass(<<>>)

(* fromReplace reads the parent's children (or takes them from the shared  *)
(* read) and splits the entries.                                           *)
ReplaceChildren ==
  /\ Executing("replace")
  /\ LET existing == IF Parent \in DOMAIN current THEN current[Parent]
                     ELSE ChildrenOf(db, Parent)
         kept == {e \in Keyed(Entries) : e.key \in existing}
         orphans == {[key |-> k, keyed |-> TRUE, valid |-> TRUE, full |-> FALSE] :
                       k \in existing \ Keys(kept)}
     IN Pass(When(orphans # {}, <<Stmt("delete", Parent, orphans)>>)
             \o UpdateMany(Parent, kept)
             \o InsertMany(Parent, Entries \ kept))

(* $upsert reads which keyed entries are stored children of the parent.    *)
UpsertChildren ==
  /\ Executing("upsert")
  /\ LET stored == {e \in Keyed(Entries) : e.key \in ChildrenOf(db, Parent)} IN
     Pass(UpdateMany(Parent, stored) \o InsertMany(Parent, Entries \ stored))

(* Mutant: the orphans are deleted by their key alone.                     *)
DeleteChildrenByKey ==
  /\ Executing("delete")
  /\ Write([r \in {C(k) : k \in Keys(Entries)} |-> NoRow])
  /\ Continue(<<>>)

(* Orphans and $remove: one delete by { pk, fk }.                          *)
DeleteChildren ==
  /\ Executing("delete")
  /\ Write([r \in {C(k) : k \in Keys(Entries) \cap ChildrenOf(db, Parent)} |-> NoRow])
  /\ Continue(<<>>)

(* Mutant: a child that moved away is skipped, planned or not.             *)
WriteChildLenient ==
  /\ Executing("update")
  /\ \E e \in Entries :
       IF e.key \in ChildrenOf(db, Parent)
       THEN /\ Write([r \in {C(e.key)} |-> [fk |-> Parent, data |-> "new"]])
            /\ Continue(Without(e))
       ELSE Pass(Without(e))

(* bulkReplace / bulkUpdate of one child through { pk, fk: parent }: a     *)
(* planned child that no longer matches ends the call.                     *)
WriteChild ==
  /\ Executing("update")
  /\ \E e \in Entries :
       IF e.key \in ChildrenOf(db, Parent)
       THEN /\ Write([r \in {C(e.key)} |-> [fk |-> Parent, data |-> "new"]])
            /\ Continue(Without(e))
       ELSE IF e.key \in owned THEN Throw("CONFLICT", <<>>) ELSE Pass(Without(e))

InsertChildren ==
  /\ Executing("insert")
  /\ InsertRows({C(k) : k \in Keys(Entries)}, LAMBDA r : [fk |-> Parent, data |-> "new"],
                Continue(<<>>))

(* A TO row is replaced or patched, when it is stored.                     *)
WriteOwner ==
  /\ Executing("owner")
  /\ IF db[O(Parent)] = NoRow
     THEN Pass(<<>>)
     ELSE Write([r \in {O(Parent)} |-> [data |-> "new"]]) /\ Continue(<<>>)

(* A VIA target is written by its key alone, linked or not.                *)
WriteTarget ==
  /\ Executing("target")
  /\ \E e \in Entries :
       IF db[T(e.key)] = NoRow
       THEN Pass(Without(e))
       ELSE /\ Write([r \in {T(e.key)} |-> [data |-> "new"]])
            /\ Continue(Without(e))

InsertTargets ==
  /\ Executing("addTargets")
  /\ Write([r \in {T(t) : t \in Keys(Entries)} |-> [data |-> "new"]])
  /\ Continue(<<>>)

Unlink(targets) ==
  /\ Write([r \in {L(Parent, t) : t \in targets} |-> 0])
  /\ Continue(<<>>)

ClearLinks == Executing("clear") /\ Unlink(Targets)
RemoveLinks == Executing("unlink") /\ Unlink(Keys(Entries))

(* validateForeignKeys of the junction rows.                               *)
CheckLinks ==
  /\ Executing("checkLinks")
  /\ IF \/ db[P(Parent)] = NoRow
        \/ \E t \in Keys(Entries) : db[T(t)] = NoRow
     THEN Throw("FK_VIOLATION", <<>>)
     ELSE Pass(<<>>)

(* The junction row has a key of its own: a second link is a second row.   *)
InsertLinks ==
  /\ Executing("link")
  /\ Write([r \in {L(Parent, t) : t \in Keys(Entries)} |-> db[r] + 1])
  /\ Continue(<<>>)

Finish ==
  /\ outcome = "running"
  /\ todo = <<>>
  /\ pos > Len(Phases[call.mode])
  /\ outcome' = "ok"
  /\ UNCHANGED <<call, tx, db, undo, pos, next, todo, pinned, owned, current,
                 matched, start, others>>

CallStep ==
  \/ Pin \/ PlanClaims \/ PlanLinks \/ PlanTargets \/ CheckChildRefs \/ PlanTo
  \/ WriteTo \/ InsertTo \/ CheckOwners \/ WriteParent \/ InsertParents \/ MainDone
  \/ ReadShared \/ LoadFrom \/ CheckParents \/ InsertFrom \/ LoadVia
  \/ CheckRefs \/ ReplaceChildren \/ UpsertChildren
  \/ DeleteChildren \/ WriteChild \/ InsertChildren
  \/ WriteOwner
  \/ WriteTarget \/ InsertTargets \/ ClearLinks \/ RemoveLinks
  \/ CheckLinks \/ InsertLinks
  \/ Finish

-----------------------------------------------------------------------------
(* Other clients write the related tables directly, between statements.    *)
(* A row a transaction has written is locked until the transaction ends.   *)

Free(r) == ~(tx /\ r \in DOMAIN undo)

OtherWrites(r, value) ==
  /\ outcome = "running"
  /\ others < MaxOthers
  /\ Free(r)
  /\ db' = [db EXCEPT ![r] = value]
  /\ others' = others + 1
  /\ UNCHANGED <<call, tx, undo, pos, next, todo, pinned, owned, current, matched,
                 outcome, start>>

MoveChild(k, p) ==
  /\ db[C(k)] # NoRow /\ db[C(k)].fk # p
  /\ db[P(p)] # NoRow /\ Free(P(p))
  /\ OtherWrites(C(k), [db[C(k)] EXCEPT !.fk = p])

AddChild(k, p) ==
  /\ db[C(k)] = NoRow
  /\ db[P(p)] # NoRow /\ Free(P(p))
  /\ OtherWrites(C(k), [fk |-> p, data |-> "old"])

DeleteChild(k) == db[C(k)] # NoRow /\ OtherWrites(C(k), NoRow)

DropLink(p, t) == db[L(p, t)] > 0 /\ OtherWrites(L(p, t), 0)

(* Integrity lets a row go only when nothing references it.                *)
DeleteParent(p) ==
  /\ db[P(p)] # NoRow
  /\ ChildrenOf(db, p) = {}
  /\ \A t \in Targets : db[L(p, t)] = 0
  /\ OtherWrites(P(p), NoRow)

DeleteTarget(t) ==
  /\ db[T(t)] # NoRow
  /\ \A p \in Parents : db[L(p, t)] = 0
  /\ OtherWrites(T(t), NoRow)

Other ==
  \/ \E k \in Children :
       \/ DeleteChild(k)
       \/ \E p \in Parents : MoveChild(k, p) \/ AddChild(k, p)
  \/ \E p \in Parents : DeleteParent(p) \/ \E t \in Targets : DropLink(p, t)
  \/ \E t \in Targets : DeleteTarget(t)

Next == CallStep \/ Other

Spec == Init /\ [][Next]_vars

-----------------------------------------------------------------------------
(* Properties *)

(* A change of a child row stays within one parent the call has matched.   *)
OwnChild(was, is) ==
  was # is =>
    /\ was # NoRow => was.fk \in MatchedParents
    /\ is # NoRow => is.fk \in MatchedParents
    /\ was # NoRow /\ is # NoRow => is.fk = was.fk

(* A statement of the call changes or deletes a child, or writes a link,   *)
(* only while that row belongs to a parent whose own row the call has      *)
(* matched; a child it creates belongs to one; and it never gives a child  *)
(* to another parent -- whatever other clients do between the plan and the *)
(* write (nested-writer.ts:1865-1882, db-table.ts:2090-2106,               *)
(* docs/relations/patches.md "Nested Write Rules").                        *)
OnlyOwnRows ==
  [][others' = others /\ (tx => outcome' \notin Errors) =>
     /\ \A k \in Children : OwnChild(db[C(k)], db'[C(k)])
     /\ \A p \in Parents, t \in Targets :
          db[L(p, t)] # db'[L(p, t)] => p \in MatchedParents]_vars

(* A call that succeeds has written every child it was planned to write:   *)
(* one that another client moved or deleted after the plan fails the call, *)
(* or is created anew, but is never skipped silently                       *)
(* (db-table.ts:1136-1138, 1468, nested-writer.ts:1873-1882).              *)
PlannedChildrenWritten ==
  outcome = "ok" =>
    \A i \in matched : \A k \in ClaimedChildren(i) \cap owned : C(k) \in DOMAIN undo
=============================================================================
