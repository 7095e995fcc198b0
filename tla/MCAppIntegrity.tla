--------------------------- MODULE MCAppIntegrity ---------------------------
(* TLC instances of AppIntegrity: single deletes on every consistent       *)
(* database of three schemas, and calls that race on chosen ones.          *)
EXTENDS AppIntegrity, TLC

MCTables == {"P", "Q", "R"}
MCClients == {"c1", "c2"}
SingleKeys == {<<1>>, <<2>>}
Fk(child, action, parent) == [child |-> child, parent |-> parent, action |-> action]

(* Mutual and diamond cascades below P, a restrict and a setNull.          *)
CyclicFks == <<Fk("Q", "cascade", "P"), Fk("P", "cascade", "Q"),
               Fk("R", "restrict", "Q"), Fk("R", "setNull", "P")>>
(* A self reference, a diamond P - Q - R, a setNull beside it.             *)
TreeFks == <<Fk("P", "cascade", "P"), Fk("Q", "setNull", "P"),
             Fk("R", "cascade", "P"), Fk("R", "cascade", "Q")>>

(* Rows of P deleted by a reference that the cascade clears.               *)
LoopFks == <<Fk("P", "setNull", "Q"), Fk("Q", "cascade", "P"), Fk("R", "setNull", "P")>>

Own(t, fks) == {f \in DOMAIN fks : fks[f].child = t}
RowsOf(t, fks, refs) ==
  {r \in [DOMAIN fks -> refs \cup {Null}] : \A f \in DOMAIN fks : f \in Own(t, fks) \/ r[f] = Null}
ConsistentDb(d, fks) ==
  \A f \in DOMAIN fks : \A k \in Keys :
    d[fks[f].child][k] # NoRow /\ d[fks[f].child][k][f] # Null
      => d[fks[f].parent][d[fks[f].child][k][f]] # NoRow

(* All databases with the rows 1 and 2 of P and Q, and row 1 of R.         *)
AllDbs(fks) ==
  LET rows(t) == RowsOf(t, fks, SingleKeys)
      table(t, S) == {d \in [Keys -> rows(t) \cup {NoRow}] : \A k \in Keys : d[k] = NoRow => k \notin S}
      r1 == {[k \in Keys |-> IF k = <<1>> THEN r ELSE NoRow] : r \in rows("R")}
  IN  {d \in [P : table("P", {<<1>>}), Q : table("Q", {}), R : r1] : ConsistentDb(d, fks)}

None == [op |-> "none"]
DeleteOf(t, filter) == [op |-> "delete", table |-> t, filter |-> filter]
InsertOf(t, rows, fks) == [op |-> "insert", table |-> t, rows |-> rows, fks |-> Own(t, fks)]
PatchOf(t, rows, fs) == [op |-> "patch", table |-> t, rows |-> rows, fks |-> fs]

Case(fks, d, a, b) == [fks |-> fks, db |-> d, calls |-> [c1 |-> a, c2 |-> b], maxDepth |-> 7]

Alone ==
  {Case(CyclicFks, d, DeleteOf("P", filter), None) :
     d \in AllDbs(CyclicFks), filter \in {ByKeys({<<1>>}), BySome(1)}}
  \cup {Case(TreeFks, d, delete, None) :
           d \in AllDbs(TreeFks),
           delete \in {DeleteOf("P", ByKeys({<<1>>})), DeleteOf("P", ByRef(1, {<<1>>})),
                      DeleteOf("Q", ByRef(2, {<<1>>}))}}
  \cup {Case(LoopFks, d, DeleteOf("P", ByRef(1, S)), None) :
           d \in AllDbs(LoopFks), S \in {{<<1>>}, SingleKeys}}

Empty(t) == [k \in Keys |-> NoRow]
With(k, r) == [l \in Keys |-> IF l = k THEN r ELSE NoRow]
Refs(a, b, c, d) == <<a, b, c, d>>

(* P1 <- Q1 <- R1 (setNull to P1).                                         *)
ChainDb ==
  [P |-> [k \in Keys |-> Refs(Null, Null, Null, Null)],
   Q |-> With(<<1>>, Refs(<<1>>, Null, Null, Null)),
   R |-> With(<<1>>, Refs(Null, Null, Null, <<1>>))]

(* P1 <- Q1 <- R1 (restrict), and P2.                                      *)
BranchDb == [ChainDb EXCEPT !.R = With(<<1>>, Refs(Null, Null, <<1>>, Null))]

Races ==
  {Case(CyclicFks, ChainDb, a, b) :
     a \in {DeleteOf("P", ByKeys({<<1>>})), DeleteOf("Q", ByKeys({<<1>>}))},
     b \in {DeleteOf("P", ByKeys(SingleKeys)),
            InsertOf("Q", (<<2>> :> Refs(<<1>>, Null, Null, Null)), CyclicFks),
            InsertOf("Q", (<<1>> :> Refs(<<2>>, Null, Null, Null)), CyclicFks),
            InsertOf("R", (<<2>> :> Refs(Null, Null, <<1>>, <<2>>)), CyclicFks),
            PatchOf("R", (<<1>> :> Refs(Null, Null, <<1>>, <<1>>)), {3}),
            PatchOf("R", (<<1>> :> Refs(Null, Null, Null, <<2>>)), {4})}}
  \cup {Case(CyclicFks, BranchDb, DeleteOf("P", ByKeys({<<2>>})),
             PatchOf("Q", (<<1>> :> Refs(<<2>>, Null, Null, Null)), {1}))}

(* Batches: both items reference one parent, or one of them a missing one. *)
Batches ==
  {Case(TreeFks, d, InsertOf("Q", (<<1>> :> Refs(Null, a, Null, Null) @@ <<2>> :> Refs(Null, b, Null, Null)), TreeFks),
        DeleteOf("P", ByKeys({<<2>>}))) :
     a \in SingleKeys, b \in SingleKeys \cup {Null},
     d \in {[P |-> p, Q |-> Empty("Q"), R |-> Empty("R")] :
            p \in {With(<<1>>, Refs(Null, Null, Null, Null)), [k \in Keys |-> Refs(Null, Null, Null, Null)]}}}

(* A chain longer than the limit, and a setDefault reference.              *)
LongChain ==
  {[Case(CyclicFks,
         [P |-> With(<<1>>, Refs(Null, Null, Null, Null)),
          Q |-> With(<<1>>, Refs(<<1>>, Null, Null, Null)), R |-> Empty("R")],
         DeleteOf("P", ByKeys({<<1>>})), None) EXCEPT !.maxDepth = 2]}
DefaultFks == <<Fk("Q", "setDefault", "P")>>
SetDefault ==
  {Case(DefaultFks,
        [P |-> [k \in Keys |-> <<Null>>], Q |-> With(<<1>>, <<a>>), R |-> Empty("R")],
        DeleteOf("P", ByKeys({<<1>>})), b) :
     a \in SingleKeys, b \in {None, InsertOf("Q", (<<2>> :> <<<<1>>>>), DefaultFks)}}

MCWorkloads == Alone \cup Races \cup Batches \cup LongChain \cup SetDefault

=============================================================================
