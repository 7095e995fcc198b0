--------------------------- MODULE MCNestedWrites ---------------------------
(* TLC instances of NestedWrites: two parents, two stored children, a key  *)
(* nobody has and one the database generates; two owners; two targets and  *)
(* one to be created.                                                      *)
EXTENDS NestedWriteContract, TLC

MCParents == {"p1", "p2"}
MCChildren == {"c1", "c2", "c3", "gen"}
MCOwners == {"o1", "o2"}
MCTargets == {"t1", "t2", "gen"}

-----------------------------------------------------------------------------
(* Calls *)

E(k) == [key |-> k, keyed |-> TRUE, valid |-> TRUE, full |-> TRUE]
Bare(k) == [E(k) EXCEPT !.full = FALSE]
Invalid(k) == [E(k) EXCEPT !.valid = FALSE]
Gen == [E("gen") EXCEPT !.keyed = FALSE]
None == [o \in {} |-> {}]

It(p, to, from, via) ==
  [parent |-> p, stale |-> FALSE, own |-> TRUE, to |-> to, from |-> from, via |-> via]
From(p, ops) == It(p, Null, ops, None)
Via(p, ops) == It(p, Null, None, ops)
Stale(it) == [it EXCEPT !.stale = TRUE]
OnlyNested(it) == [it EXCEPT !.own = FALSE]

Single(o, es) == o :> es
Lists == {{}, {E("c1")}, {E("c1"), E("c3")}, {Gen, E("c2")}, {E("c1"), E("c2")}}

(* One operator on the children, or two of them on overlapping keys.       *)
OneOperator ==
  {Single(o, es) : o \in {"replace", "upsert", "insert"}, es \in Lists}
  \cup {Single(o, es) : o \in {"update", "remove"}, es \in Lists \ {{}}}
TwoOperators ==
  {Single("replace", {E("c1")}) @@ Single(o, es) :
     o \in {"remove", "update", "upsert", "insert"}, es \in {{E("c1")}, {E("c2")}}}
  \cup {Single("remove", {E("c1")}) @@ Single(o, {E(k)}) :
          o \in {"update", "upsert", "insert"}, k \in {"c1", "c2"}}
  \cup {Single("update", {E("c1")}) @@ Single("insert", {Invalid("c3")})}

ViaOperators ==
  {Single("replace", es) : es \in {{}, {E("t1"), Gen}, {Bare("t2")}}}
  \cup {Single("insert", es) : es \in {{E("t1")}, {E("t2"), Gen}}}
  \cup {Single("update", {E("t1")}), Single("update", {E("t2")}),
        Single("update", {Gen}),
        Single("upsert", {E("t1"), Gen}), Single("remove", {E("t1")}),
        Single("replace", {E("t2")}) @@ Single("update", {E("t1")})}

Patch(items) == [mode |-> "patch", items |-> items]
Put(items) == [mode |-> "replace", items |-> items]
Insert(items) == [mode |-> "insert", items |-> items]

MCCalls ==
  {Patch(<<OnlyNested(From("p1", ops))>>) : ops \in OneOperator}
  \cup {Patch(<<From("p1", ops)>>) : ops \in TwoOperators}
  \cup {Patch(<<OnlyNested(Via("p1", ops))>>) : ops \in ViaOperators}
  \cup {Patch(<<From("p1", Single("replace", es)), From(p, ops)>>) :
          es \in {{E("c1")}, {Gen}}, p \in MCParents,
          ops \in {Single("replace", {E("c2"), E("c3")}), Single("update", {E("c2")})}}
  \cup {Patch(<<It("p1", to, Single("update", {E("c1")}), None)>>) :
          to \in {"unnamed", "o1", "o2"}}
  \cup {Patch(<<Stale(From("p1", Single("remove", {E("c1")}))),
                OnlyNested(Via("p2", Single("insert", {E("t1")})))>>)}
  \cup {Put(<<From("p1", Single("replace", es)), From("p2", Single("replace", {E("c2")}))>>) :
          es \in Lists \cup {{Invalid("c1")}}}
  \cup {Put(<<It("p1", to, Single("replace", {E("c1")}), Single("replace", {E("t1")})),
              Stale(It("p2", "o1", Single("replace", {}), None))>>) :
          to \in {Null, "unnamed", "o1", "o2"}}
  \cup {Insert(<<It(p, to, Single("insert", es), Single("insert", {E("t1"), Gen})),
                 From(CHOOSE q \in MCParents \ {p} : TRUE, Single("insert", {E("c3")}))>>) :
          p \in MCParents, to \in {Null, "o1", "o2"},
          es \in {{}, {Gen}, {E("c1")}, {Invalid("c1")}}}

-----------------------------------------------------------------------------
(* Stored rows *)

ChildOf(p) == IF p = NoRow THEN NoRow ELSE [fk |-> p, data |-> "old"]

(* No parent is stored yet: a batch of inserts gets through.               *)
Empty(c1) ==
  [r \in Rows |->
     CASE r = C("c1") -> ChildOf(c1)
       [] r \in {O("o1"), T("t1"), T("t2")} -> [data |-> "old"]
       [] r \in LinkRows -> 0
       [] OTHER -> NoRow]

MCStores ==
  {[r \in Rows |->
      CASE r = P("p1") -> [owner |-> owner, data |-> "old"]
        [] r = P("p2") -> IF second THEN [owner |-> "o1", data |-> "old"] ELSE NoRow
        [] r = C("c1") -> ChildOf(c1)
        [] r = C("c2") -> ChildOf(IF second THEN "p2" ELSE "p1")
        [] r = O("o1") -> [data |-> "old"]
        [] r \in {T("t1"), T("t2")} -> [data |-> "old"]
        [] r \in LinkRows -> IF r = L("p1", "t1") THEN 1 ELSE 0
        [] OTHER -> NoRow] :
   owner \in {Null, "o1"}, second \in BOOLEAN, c1 \in {NoRow, Null, "p1"}}
  \cup {Empty(c1) : c1 \in {NoRow, Null}}

=============================================================================
