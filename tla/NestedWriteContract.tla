------------------------ MODULE NestedWriteContract ------------------------
(***************************************************************************)
(* What a nested write asks for, defined on whole sets of rows with no     *)
(* phases and no statements (docs/relations/patches.md and                 *)
(* deep-operations.md): which calls the plan refuses, which calls fail     *)
(* later, and the rows an accepted call leaves.  NestedWrites is compared  *)
(* with it when no other client writes meanwhile.                          *)
(***************************************************************************)
EXTENDS NestedWrites, SequencesExt

Named(ops, os) == Keys(Keyed(GivenAny(ops, os)))
All(ops, os) == Keys(GivenAny(ops, os))

Exists(d, it) == d[P(it.parent)] # NoRow

(* The rows of the call's items that the main write reaches.               *)
Reaches(c, d, it) == c.mode = "insert" \/ (Exists(d, it) /\ ~it.stale)

-----------------------------------------------------------------------------
(* What the plan refuses, for one item of a call on the rows d.            *)

RefusesTo(c, d, it) ==
  /\ it.to # Null
  /\ CASE c.mode = "patch" ->
            /\ Exists(d, it)
            /\ LET stored == d[P(it.parent)].owner IN
               stored = Null \/ it.to \notin {"unnamed", stored}
       [] c.mode = "replace" -> Reaches(c, d, it) /\ it.to = "unnamed"
       [] OTHER -> FALSE

RefusesFrom(c, d, it) ==
  \/ \E k \in Named(it.from, {"replace", "update", "upsert"}) :
       d[C(k)] # NoRow /\ d[C(k)].fk # it.parent
  \/ \E e \in GivenAny(it.from, {"update"}) : ~e.keyed
  \/ c.mode # "patch" /\ \E e \in GivenAny(it.from, Operators) : ~e.valid

RefusesVia(c, d, it) ==
  \/ \E t \in Named(it.via, {"update", "upsert"}) : d[L(it.parent, t)] = 0
  \/ \E e \in GivenAny(it.via, {"update"}) : ~e.keyed
  \/ \E t \in Named(it.via, {"replace", "insert"}) : d[T(t)] = NoRow

PlanRefuses(c, d) ==
  \E i \in DOMAIN c.items :
    LET it == c.items[i] IN
    RefusesTo(c, d, it) \/ RefusesFrom(c, d, it) \/ RefusesVia(c, d, it)

-----------------------------------------------------------------------------
(* What one item of an accepted call leaves of the rows d, and when it     *)
(* fails on them although the plan has passed it.                          *)

Left(d, it) ==
  (IF "replace" \in DOMAIN it.from THEN All(it.from, {"replace"}) ELSE ChildrenOf(d, it.parent))
    \ All(it.from, {"remove"})

(* `planned`: the rows as the plan has read them.                          *)
FailsLate(c, planned, d, it) ==
  LET p == it.parent
      created == All(it.from, {"replace", "upsert", "insert"})
      before == All(it.from, {"upsert"}) \cup Left(d, it)
  IN \/ c.mode = "insert" /\ Exists(d, it)
     \/ c.mode = "insert" /\ it.to # Null /\ d[O(it.to)] # NoRow
     \/ c.mode = "replace" /\ Reaches(c, d, it) /\ it.to # Null /\ d[O(it.to)] = NoRow
     \/ /\ Reaches(c, d, it)
        /\ \/ \E e \in GivenAny(it.from, Operators \ {"remove"}) : ~e.valid
           \/ \E k \in created : d[C(k)] # NoRow /\ d[C(k)].fk # p
           \/ All(it.from, {"insert"}) \cap before # {}
           \/ \E k \in Named(it.from, {"update"}) \ Left(d, it) : planned[C(k)] # NoRow

LeavesChild(d, it, k) ==
  LET p == it.parent
      final == Left(d, it) \cup All(it.from, {"upsert", "insert"})
      written == All(it.from, {"replace", "update", "upsert", "insert"})
  IN IF k \in final
     THEN IF k \in written THEN [fk |-> p, data |-> "new"] ELSE d[C(k)]
     ELSE IF k \in ChildrenOf(d, p) THEN NoRow ELSE d[C(k)]

LeavesLinks(d, it, t) ==
  LET one(condition) == IF condition THEN 1 ELSE 0
      kept == IF t \in All(it.via, {"remove"}) THEN 0
              ELSE IF "replace" \in DOMAIN it.via THEN one(t \in All(it.via, {"replace"}))
              ELSE d[L(it.parent, t)]
  IN kept + one(t \in All(it.via, {"insert"}))
          + one(\E e \in GivenAny(it.via, {"upsert"}) : e.key = t /\ ~e.keyed)

WritesTarget(it, t) ==
  \/ t \in Named(it.via, {"update", "upsert"})
  \/ \E e \in GivenAny(it.via, {"replace"}) : e.key = t /\ (~e.keyed \/ e.full)
  \/ \E e \in GivenAny(it.via, {"insert", "upsert"}) : e.key = t /\ ~e.keyed

OwnerOf(c, d, it) ==
  IF c.mode = "patch" THEN d[P(it.parent)].owner ELSE it.to

Leaves(c, d, it) ==
  IF ~Reaches(c, d, it) THEN d ELSE
  [r \in Rows |->
     CASE r = P(it.parent) /\ it.own -> [owner |-> OwnerOf(c, d, it), data |-> "new"]
       [] r \in OwnerRows /\ it.to # Null /\ r = O(OwnerOf(c, d, it)) -> [data |-> "new"]
       [] r \in ChildRows -> LeavesChild(d, it, r[2])
       [] r \in TargetRows /\ WritesTarget(it, r[2]) -> [data |-> "new"]
       [] r \in LinkRows /\ r[2] = it.parent -> LeavesLinks(d, it, r[3])
       [] OTHER -> d[r]]

(* The rows the items of a call leave one after the other, or Null when it *)
(* fails.                                                                  *)
Result(c, d) ==
  FoldLeft(LAMBDA acc, it :
             IF acc = Null \/ FailsLate(c, d, acc, it) THEN Null
             ELSE Leaves(c, acc, it),
           d, c.items)

-----------------------------------------------------------------------------
(* Properties *)

Undisturbed == others = 0

(* A call the plan refuses executes no write at all, with or without       *)
(* transactions, at any position of the batch (nested-writer.ts:926-945,   *)
(* docs/relations/patches.md:244).                                         *)
RefusedBeforeFirstWrite ==
  Undisturbed /\ PlanRefuses(call, start) => undo = <<>> /\ outcome # "ok"

(* A call succeeds exactly when the contract accepts it, and then leaves   *)
(* exactly the rows it promises: operators in their order, one shared read *)
(* of the children for the batch or one per parent, nested rows only for   *)
(* the items the main write has matched (db-table.ts:831-1497).            *)
ResultIsAsAsked ==
  Undisturbed /\ outcome # "running" =>
    LET result == IF PlanRefuses(call, start) THEN Null ELSE Result(call, start) IN
    /\ outcome = "ok" <=> result # Null
    /\ outcome = "ok" => db = result

=============================================================================
