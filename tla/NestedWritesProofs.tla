------------------------ MODULE NestedWritesProofs ------------------------
(***************************************************************************)
(* Proofs about NestedWrites, for every set of keys, calls and stored rows *)
(* and any number of statements of other clients: OnlyOwnRows and          *)
(* PlannedChildrenWritten.                                                 *)
(***************************************************************************)
EXTENDS NestedWriteContract, SequenceTheorems, TLAPS

-----------------------------------------------------------------------------
(* Statement lists *)

(* A statement list whose statements on related rows are for parents of ps *)
Own(s, ps) ==
  /\ s \in Seq(Range(s))
  /\ \A x \in Range(s) : x.do = "owner" \/ x.of \in ps

(* Joining two lists joins their statements.                               *)
LEMMA ConcatRange ==
  ASSUME NEW s, NEW t, s \in Seq(Range(s)), t \in Seq(Range(t))
  PROVE  /\ s \o t \in Seq(Range(s \o t))
         /\ Range(s \o t) = Range(s) \cup Range(t)
<1>1. s \in Seq(Range(s) \cup Range(t)) /\ t \in Seq(Range(s) \cup Range(t))
  BY SeqMonotonic
<1>2. s \o t \in Seq(Range(s) \cup Range(t))
  BY <1>1, ConcatProperties
<1> QED BY <1>1, <1>2, SeqOfRange, RangeConcatenation

LEMMA OwnConcat ==
  ASSUME NEW s, NEW t, NEW ps, Own(s, ps), Own(t, ps)
  PROVE  Own(s \o t, ps) /\ Range(s \o t) = Range(s) \cup Range(t)
BY ConcatRange DEF Own

LEMMA OwnEmpty == ASSUME NEW ps PROVE Own(<<>>, ps)
BY DEF Own, Range

LEMMA OwnOne ==
  ASSUME NEW do, NEW p, NEW es, NEW ps, p \in ps
  PROVE  Own(<<Stmt(do, p, es)>>, ps)
<1> DEFINE x == Stmt(do, p, es)
<1>1. Range(<<x>>) = {x}
  BY DEF Range
<1>2. x.of = p
  BY DEF Stmt
<1> HIDE DEF x
<1>3. Own(<<x>>, ps)
  BY <1>1, <1>2 DEF Own
<1> QED BY <1>3 DEF x

LEMMA OwnOwner ==
  ASSUME NEW p, NEW es, NEW ps
  PROVE  Own(<<Stmt("owner", p, es)>>, ps)
<1> DEFINE x == Stmt("owner", p, es)
<1>1. Range(<<x>>) = {x}
  BY DEF Range
<1>2. x.do = "owner"
  BY DEF Stmt
<1> HIDE DEF x
<1>3. Own(<<x>>, ps)
  BY <1>1, <1>2 DEF Own
<1> QED BY <1>3 DEF x

LEMMA OwnWhen ==
  ASSUME NEW s, NEW ps, NEW c \in BOOLEAN, c => Own(s, ps)
  PROVE  Own(When(c, s), ps)
BY OwnEmpty DEF When

LEMMA OwnPair ==
  ASSUME NEW do1, NEW es1, NEW do2, NEW es2, NEW ps, NEW p \in ps
  PROVE  Own(<<Stmt(do1, p, es1), Stmt(do2, p, es2)>>, ps)
<1> DEFINE x == Stmt(do1, p, es1)
           y == Stmt(do2, p, es2)
<1>1. Range(<<x, y>>) = {x, y}
  BY DEF Range
<1>2. x.of = p /\ y.of = p
  BY DEF Stmt
<1> HIDE DEF x, y
<1>3. Own(<<x, y>>, ps)
  BY <1>1, <1>2 DEF Own
<1> QED BY <1>3 DEF x, y

(* The head of a list is one of its statements, the tail holds the others. *)
LEMMA HeadTail ==
  ASSUME NEW s, s \in Seq(Range(s)), s # <<>>
  PROVE  /\ Head(s) \in Range(s)
         /\ Tail(s) \in Seq(Range(Tail(s)))
         /\ Range(s) = {Head(s)} \cup Range(Tail(s))
<1>1. /\ Len(s) \in Nat \ {0} /\ DOMAIN s = 1 .. Len(s)
      /\ Head(s) = s[1]
      /\ Tail(s) \in Seq(Range(s))
      /\ Len(Tail(s)) = Len(s) - 1
      /\ \A i \in 1 .. Len(s) - 1 : Tail(s)[i] = s[i + 1]
      /\ DOMAIN Tail(s) = 1 .. Len(s) - 1
  BY EmptySeq, LenProperties, HeadTailProperties
<1>2. Head(s) \in Range(s)
  BY <1>1 DEF Range
<1>3. Range(Tail(s)) \subseteq Range(s)
  BY <1>1 DEF Range
<1>4. Tail(s) \in Seq(Range(Tail(s)))
  BY <1>1, SeqOfRange
<1>5. ASSUME NEW i \in DOMAIN s, i # 1 PROVE s[i] \in Range(Tail(s))
  <2>1. i - 1 \in DOMAIN Tail(s) /\ Tail(s)[i - 1] = s[i]
    BY <1>1, <1>5
  <2> QED BY <2>1 DEF Range
<1> QED BY ZenonT(60), <1>1, <1>2, <1>3, <1>4, <1>5 DEF Range

LEMMA OwnMore ==
  ASSUME NEW s, NEW ps, NEW qs, ps \subseteq qs, Own(s, ps)
  PROVE  Own(s, qs)
BY DEF Own

(* What the FROM and the VIA phase load for a parent is for that parent.   *)
LEMMA OwnFrom ==
  ASSUME NEW p, NEW ops
  PROVE  Own(FromStatements(p, ops), {p})
<1>1. Own(When("replace" \in DOMAIN ops, <<Stmt("replace", p, Given(ops, "replace"))>>), {p})
  BY OwnOne, OwnEmpty DEF When
<1>2. Own(When(Given(ops, "remove") # {}, <<Stmt("delete", p, Given(ops, "remove"))>>), {p})
  BY OwnOne, OwnEmpty DEF When
<1>3. Own(When("upsert" \in DOMAIN ops, <<Stmt("upsert", p, Given(ops, "upsert"))>>), {p})
  BY OwnOne, OwnEmpty DEF When
<1>4. Own(UpdateMany(p, Given(ops, "update")), {p})
  BY OwnPair, OwnWhen DEF UpdateMany
<1>5. Own(InsertMany(p, Given(ops, "insert")), {p})
  BY OwnPair, OwnWhen DEF InsertMany
<1> QED BY <1>1, <1>2, <1>3, <1>4, <1>5, OwnConcat DEF FromStatements

LEMMA OwnLinks ==
  ASSUME NEW p, NEW es
  PROVE  Own(LinkTargets(p, es), {p}) /\ Own(WriteTargets(p, es), {p})
<1>1. Own(When(Unkeyed(es) # {}, <<Stmt("addTargets", p, Unkeyed(es))>>), {p})
  BY OwnOne, OwnEmpty DEF When
<1>2. Own(When(es # {}, <<Stmt("checkLinks", p, es), Stmt("link", p, es)>>), {p})
  BY OwnPair, OwnWhen
<1>3. Own(WriteTargets(p, es), {p})
  BY OwnOne, OwnWhen DEF WriteTargets
<1> QED BY <1>1, <1>2, <1>3, OwnConcat DEF LinkTargets

LEMMA OwnVia ==
  ASSUME NEW p, NEW ops
  PROVE  Own(ViaStatements(p, ops), {p})
<1>1. ASSUME NEW es PROVE Own(ViaReplace(p, es), {p})
  <2>1. Own(<<Stmt("clear", p, es)>>, {p})
    BY OwnOne
  <2> QED BY <2>1, OwnLinks, OwnConcat DEF ViaReplace
<1>2. Own(When("replace" \in DOMAIN ops, ViaReplace(p, Given(ops, "replace"))), {p})
  BY <1>1, OwnEmpty DEF When
<1>3. Own(When(Given(ops, "remove") # {}, <<Stmt("unlink", p, Given(ops, "remove"))>>), {p})
  BY OwnOne, OwnEmpty DEF When
<1> QED BY <1>2, <1>3, OwnLinks, OwnConcat DEF ViaStatements

-----------------------------------------------------------------------------
(* The invariant behind OnlyOwnRows *)

(* An insert has stored all its rows once its main phase is over.          *)
InsertedAll ==
  call.mode = "insert" /\ (pos > 5 \/ (pos = 5 /\ next > 1)) => matched = Items

(* What the call still has to do on related rows is for parents whose own  *)
(* rows it has written.                                                    *)
OwnInv ==
  /\ others \in Nat
  /\ call \in Calls
  /\ matched \subseteq Items
  /\ pos \in Nat
  /\ next \in Nat \ {0}
  /\ Own(todo, MatchedParents)
  /\ InsertedAll

LEMMA ItemsRange ==
  ASSUME OwnInv
  PROVE  Len(call.items) \in Nat /\ Items = 1 .. Len(call.items)
BY CallsAssumption DEF OwnInv, CallOK, Items

(* Where the phases stand.                                                 *)
LEMMA PhaseOfInsert ==
  ASSUME call.mode = "insert", NEW phase, In(phase)
  PROVE  /\ pos = 5 <=> phase = "main"
         /\ phase = "from" => pos = 7
         /\ phase # "claims"
<1>1. Phases[call.mode] = <<"targets", "refs", "to", "owners", "main", "childRefs", "from", "via">>
  BY DEF Phases
<1> QED BY <1>1 DEF In

LEMMA PhaseOfOthers ==
  ASSUME call.mode \in {"patch", "replace"}, NEW phase, In(phase)
  PROVE  /\ phase = "from" => pos = 9
         /\ phase = "via" => pos = 10
         /\ phase \notin {"from", "via"} => pos \in 1 .. 8
         /\ phase # "childRefs"
<1>1. CASE call.mode = "patch"
  <2>1. Phases[call.mode] = <<"pin", "claims", "links", "targets", "planTo", "main", "to",
                               "shared", "from", "via">>
    BY <1>1 DEF Phases
  <2> QED BY <2>1 DEF In
<1>2. CASE call.mode = "replace"
  <2>1. Phases[call.mode] = <<"claims", "targets", "refs", "pin", "to", "owners", "main",
                               "shared", "from", "via">>
    BY <1>2 DEF Phases
  <2> QED BY <2>1 DEF In
<1> QED BY <1>1, <1>2

LEMMA InitOwn == Init => OwnInv
<1> SUFFICES ASSUME Init PROVE OwnInv
  OBVIOUS
<1>1. Own(todo, MatchedParents)
  BY OwnEmpty DEF Init
<1> QED BY <1>1 DEF Init, OwnInv, InsertedAll

(* The statement at the head of the list is for a matched parent.          *)
LEMMA HeadOwn ==
  ASSUME OwnInv, todo # <<>>
  PROVE  /\ Head(todo).do # "owner" => Parent \in MatchedParents
         /\ Own(Tail(todo), MatchedParents)
BY HeadTail DEF OwnInv, Own, Parent

LEMMA ContinueOwn ==
  ASSUME OwnInv, todo # <<>>, NEW stmts, Own(stmts, MatchedParents), Continue(stmts)
  PROVE  OwnInv'
<1>1. Own(stmts \o Tail(todo), MatchedParents)
  BY HeadOwn, OwnConcat
<1>2. MatchedParents' = MatchedParents /\ Items' = Items
  BY DEF Continue, MatchedParents, Items, Item
<1>3. Own(todo', MatchedParents)
  BY <1>1 DEF Continue
<1>4. (Own(todo, MatchedParents))'
  BY <1>2, <1>3 DEF Own
<1> QED BY <1>2, <1>4 DEF OwnInv, Continue, InsertedAll

LEMMA ThrowOwn ==
  ASSUME OwnInv, NEW e, NEW changes, Throw(e, changes)
  PROVE  OwnInv'
<1>1. MatchedParents' = MatchedParents /\ Items' = Items
  BY DEF Throw, MatchedParents, Items, Item
<1>2. Own(todo', MatchedParents')
  BY OwnEmpty DEF Throw
<1> QED BY <1>1, <1>2 DEF OwnInv, Throw, InsertedAll

(* The call goes to its next phase.                                        *)
LEMMA AdvanceOwn ==
  ASSUME OwnInv, NEW phase, In(phase), Advance, UNCHANGED <<todo, matched>>,
         phase = "main" => next \notin Items
  PROVE  OwnInv'
<1>1. MatchedParents' = MatchedParents /\ Items' = Items
  BY DEF Advance, MatchedParents, Items, Item
<1>2. (Own(todo, MatchedParents))'
  BY <1>1 DEF Own, OwnInv
<1>3. call.mode = "insert" /\ pos = 5 => matched = Items
  <2> SUFFICES ASSUME call.mode = "insert", pos = 5 PROVE matched = Items
    OBVIOUS
  <2>1. next \notin Items
    BY PhaseOfInsert
  <2>2. CASE next > 1
    BY <2>2 DEF OwnInv, InsertedAll
  <2>3. CASE next = 1
    BY <2>1, <2>3, ItemsRange DEF OwnInv
  <2> QED BY <2>2, <2>3 DEF OwnInv
<1>4. InsertedAll'
  BY <1>1, <1>3 DEF InsertedAll, OwnInv, Advance
<1> QED BY <1>1, <1>2, <1>4 DEF OwnInv, Advance

LEMMA DecideOwn ==
  ASSUME OwnInv, NEW phase, In(phase), phase # "main", NEW errors, Decide(errors)
  PROVE  OwnInv'
<1>1. CASE errors # {}
  BY <1>1, ThrowOwn DEF Decide
<1>2. CASE errors = {}
  BY <1>2, AdvanceOwn DEF Decide
<1> QED BY <1>1, <1>2

(* Item `next` of a phase loads its statements.                            *)
LEMMA LoadOwn ==
  ASSUME OwnInv, NEW phase, In(phase), phase # "main",
         next' = next + 1, Own(todo', MatchedParents),
         UNCHANGED <<call, pos, matched, others>>
  PROVE  OwnInv'
<1>1. MatchedParents' = MatchedParents /\ Items' = Items
  BY DEF MatchedParents, Items, Item
<1>2. (Own(todo, MatchedParents))'
  BY <1>1 DEF Own
<1>3. call.mode = "insert" => pos # 5
  BY PhaseOfInsert
<1>4. InsertedAll'
  BY <1>1, <1>3 DEF InsertedAll, OwnInv
<1> QED BY <1>1, <1>2, <1>4 DEF OwnInv

(* Every step of the call and of the other clients keeps OwnInv.           *)
LEMMA PlanOwn ==
  ASSUME OwnInv, \/ Pin \/ PlanClaims \/ PlanLinks \/ PlanTargets \/ CheckChildRefs
                 \/ PlanTo \/ CheckOwners \/ CheckParents \/ ReadShared
  PROVE  OwnInv'
<1>1. CASE Pin
  BY <1>1, AdvanceOwn DEF Pin
<1>2. CASE PlanClaims
  <2>1. CASE ClaimErrors # {}
    BY <1>2, <2>1, ThrowOwn DEF PlanClaims
  <2>2. CASE ClaimErrors = {}
    BY <1>2, <2>2, AdvanceOwn DEF PlanClaims
  <2> QED BY <2>1, <2>2
<1>3. CASE PlanLinks
  BY <1>3, DecideOwn DEF PlanLinks
<1>4. CASE PlanTargets
  BY <1>4, DecideOwn DEF PlanTargets
<1>5. CASE CheckChildRefs
  BY <1>5, DecideOwn DEF CheckChildRefs
<1>6. CASE PlanTo
  BY <1>6, DecideOwn DEF PlanTo
<1>7. CASE CheckOwners
  BY <1>7, DecideOwn DEF CheckOwners
<1>8. CASE CheckParents
  BY <1>8, DecideOwn DEF CheckParents
<1>9. CASE ReadShared
  BY <1>9, AdvanceOwn DEF ReadShared
<1> QED BY <1>1, <1>2, <1>3, <1>4, <1>5, <1>6, <1>7, <1>8, <1>9

LEMMA LoadPhaseOwn ==
  ASSUME OwnInv, LoadFrom \/ LoadVia
  PROVE  OwnInv'
<1>1. ASSUME NEW phase, In(phase), phase # "main", next \notin Items, Advance,
             UNCHANGED <<todo, matched>>
      PROVE  OwnInv'
  BY <1>1, AdvanceOwn
<1>2. ASSUME NEW s, Own(s, {Item(next).parent})
      PROVE  Own(When(next \in matched, s), MatchedParents)
  <2>1. CASE next \in matched
    <3>1. {Item(next).parent} \subseteq MatchedParents
      BY <2>1 DEF MatchedParents
    <3> QED BY <1>2, <2>1, <3>1, OwnMore DEF When
  <2>2. CASE next \notin matched
    BY <2>2, OwnEmpty DEF When
  <2> QED BY <2>1, <2>2
<1>3. CASE LoadFrom
  <2>1. CASE next \in Items
    <3>1. Own(todo', MatchedParents)
      BY <1>2, <1>3, <2>1, OwnFrom DEF LoadFrom, Load
    <3> QED BY <1>3, <2>1, <3>1, LoadOwn DEF LoadFrom, Load
  <2>2. CASE next \notin Items
    BY <1>1, <1>3, <2>2 DEF LoadFrom, Load
  <2> QED BY <2>1, <2>2
<1>4. CASE LoadVia
  <2>1. CASE next \in Items
    <3>1. Own(todo', MatchedParents)
      BY <1>2, <1>4, <2>1, OwnVia DEF LoadVia, Load
    <3> QED BY <1>4, <2>1, <3>1, LoadOwn DEF LoadVia, Load
  <2>2. CASE next \notin Items
    BY <1>1, <1>4, <2>2 DEF LoadVia, Load
  <2> QED BY <2>1, <2>2
<1> QED BY <1>3, <1>4

LEMMA OwnerPhaseOwn ==
  ASSUME OwnInv, WriteTo \/ InsertTo \/ InsertFrom
  PROVE  OwnInv'
<1>1. CASE WriteTo
  <2>1. Own(OwnerStatements(next), MatchedParents)
    BY OwnOwner, OwnEmpty DEF OwnerStatements, When
  <2>2. CASE ReplacesUnnamedOwner
    BY <1>1, <2>2, ThrowOwn DEF WriteTo
  <2>3. CASE ~ReplacesUnnamedOwner /\ next \in Items
    BY <1>1, <2>1, <2>3, LoadOwn DEF WriteTo
  <2>4. CASE ~ReplacesUnnamedOwner /\ next \notin Items
    BY <1>1, <2>4, AdvanceOwn DEF WriteTo
  <2> QED BY <2>2, <2>3, <2>4
<1>2. CASE InsertTo
  <2>1. CASE Advance /\ UNCHANGED <<todo, matched>>
    BY <1>2, <2>1, AdvanceOwn DEF InsertTo
  <2>2. CASE \E changes : Throw("CONFLICT", changes)
    BY <2>2, ThrowOwn
  <2> QED BY <1>2, <2>1, <2>2 DEF InsertTo, InsertRows
<1>3. CASE InsertFrom
  <2>1. CASE Advance /\ UNCHANGED <<todo, matched>>
    BY <1>3, <2>1, AdvanceOwn DEF InsertFrom
  <2>2. CASE \E changes : Throw("CONFLICT", changes)
    BY <2>2, ThrowOwn
  <2> QED BY <1>3, <2>1, <2>2 DEF InsertFrom, InsertRows
<1> QED BY <1>1, <1>2, <1>3

LEMMA MainOwn ==
  ASSUME OwnInv, WriteParent \/ InsertParents \/ MainDone
  PROVE  OwnInv'
<1>1. ASSUME In("main"), UNCHANGED <<call, pos, others, todo>>, matched' \subseteq Items,
             next' \in Nat \ {0}, call.mode = "insert" => matched' = Items
      PROVE  OwnInv'
  <2>1. Items' = Items /\ todo' = <<>>
    BY <1>1 DEF Items, In
  <2>2. (Own(todo, MatchedParents))'
    BY <2>1, OwnEmpty
  <2> QED BY <1>1, <2>1, <2>2 DEF OwnInv, InsertedAll
<1>2. CASE WriteParent
  <2>1. next' = next + 1 => next' \in Nat \ {0}
    BY DEF OwnInv
  <2>2. matched' = matched \/ matched' = matched \cup {next} => matched' \subseteq Items
    BY <1>2 DEF OwnInv, WriteParent
  <2>3. CASE db[P(Item(next).parent)] # NoRow /\ ~Item(next).stale
    BY <1>1, <1>2, <2>1, <2>2, <2>3 DEF WriteParent
  <2>4. CASE /\ ~(db[P(Item(next).parent)] # NoRow /\ ~Item(next).stale)
             /\ call.mode = "replace" /\ KeepsTo(next)
    BY <1>2, <2>4, ThrowOwn DEF WriteParent
  <2>5. CASE /\ ~(db[P(Item(next).parent)] # NoRow /\ ~Item(next).stale)
             /\ ~(call.mode = "replace" /\ KeepsTo(next))
    BY <1>1, <1>2, <2>1, <2>2, <2>5 DEF WriteParent
  <2> QED BY <2>3, <2>4, <2>5
<1>3. CASE InsertParents
  <2>1. CASE \E changes : Throw("CONFLICT", changes)
    BY <2>1, ThrowOwn
  <2>2. CASE /\ matched' = Items /\ next' = Len(call.items) + 1
             /\ UNCHANGED <<call, pos, others, todo>>
    BY <1>1, <1>3, <2>2, ItemsRange DEF InsertParents
  <2> QED BY <1>3, <2>1, <2>2 DEF InsertParents, InsertRows
<1>4. CASE MainDone
  BY <1>4, AdvanceOwn DEF MainDone
<1> QED BY <1>2, <1>3, <1>4

(* The statements a statement is replaced by are for its parent.           *)
LEMMA RestOwn ==
  ASSUME OwnInv, todo # <<>>, Head(todo).do # "owner"
  PROVE  /\ \A e : Own(Without(e), MatchedParents)
         /\ \A do, es : Own(<<Stmt(do, Parent, es)>>, MatchedParents)
         /\ \A es : /\ Own(UpdateMany(Parent, es), MatchedParents)
                    /\ Own(InsertMany(Parent, es), MatchedParents)
<1>1. Parent \in MatchedParents
  BY HeadOwn
<1>2. \A do, es : Own(<<Stmt(do, Parent, es)>>, MatchedParents)
  BY <1>1, OwnOne
<1>3. \A e : Own(Without(e), MatchedParents)
  BY <1>2, OwnEmpty DEF Without, When
<1>4. \A es : Own(UpdateMany(Parent, es), MatchedParents)
  BY <1>1, OwnPair, OwnEmpty DEF UpdateMany, When
<1>5. \A es : Own(InsertMany(Parent, es), MatchedParents)
  BY <1>1, OwnPair, OwnEmpty DEF InsertMany, When
<1> QED BY <1>2, <1>3, <1>4, <1>5

LEMMA ChildrenOwn ==
  ASSUME OwnInv, \/ CheckRefs \/ ReplaceChildren \/ UpsertChildren
                 \/ DeleteChildren \/ WriteChild \/ InsertChildren
  PROVE  OwnInv'
<1>0. todo # <<>> /\ Head(todo).do # "owner"
  BY DEF CheckRefs, ReplaceChildren, UpsertChildren, DeleteChildren, WriteChild,
         InsertChildren, Executing
<1>1. Own(<<>>, MatchedParents)
  BY OwnEmpty
<1>2. CASE CheckRefs
  BY <1>0, <1>1, <1>2, ThrowOwn, ContinueOwn DEF CheckRefs, Pass
<1>3. CASE ReplaceChildren
  <2>1. PICK orphans, kept, new :
          Pass(When(orphans # {}, <<Stmt("delete", Parent, orphans)>>)
               \o UpdateMany(Parent, kept) \o InsertMany(Parent, new))
    BY <1>3 DEF ReplaceChildren
  <2>2. Own(When(orphans # {}, <<Stmt("delete", Parent, orphans)>>), MatchedParents)
    BY <1>0, <1>1, RestOwn DEF When
  <2> QED BY <1>0, <2>1, <2>2, RestOwn, OwnConcat, ContinueOwn DEF Pass
<1>4. CASE UpsertChildren
  <2>1. PICK stored, new : Pass(UpdateMany(Parent, stored) \o InsertMany(Parent, new))
    BY <1>4 DEF UpsertChildren
  <2> QED BY <1>0, <2>1, RestOwn, OwnConcat, ContinueOwn DEF Pass
<1>5. CASE DeleteChildren
  BY <1>0, <1>1, <1>5, ContinueOwn DEF DeleteChildren
<1>6. CASE WriteChild
  <2>1. PICK e : \/ Continue(Without(e))
                 \/ Throw("CONFLICT", <<>>)
    BY <1>6 DEF WriteChild, Pass
  <2> QED BY <1>0, <2>1, RestOwn, ThrowOwn, ContinueOwn
<1>7. CASE InsertChildren
  <2>1. CASE \E changes : Throw("CONFLICT", changes)
    BY <2>1, ThrowOwn
  <2>2. CASE Continue(<<>>)
    BY <1>0, <1>1, <2>2, ContinueOwn
  <2> QED BY <1>7, <2>1, <2>2 DEF InsertChildren, InsertRows
<1> QED BY <1>2, <1>3, <1>4, <1>5, <1>6, <1>7

LEMMA RelatedOwn ==
  ASSUME OwnInv, \/ WriteOwner \/ WriteTarget \/ InsertTargets \/ ClearLinks
                 \/ RemoveLinks \/ CheckLinks \/ InsertLinks
  PROVE  OwnInv'
<1>1. Own(<<>>, MatchedParents)
  BY OwnEmpty
<1>2. CASE WriteOwner
  BY <1>1, <1>2, ContinueOwn DEF WriteOwner, Pass, Executing
<1>3. CASE WriteTarget
  <2>1. PICK e : Continue(Without(e))
    BY <1>3 DEF WriteTarget, Pass
  <2> QED BY <1>3, <2>1, RestOwn, ContinueOwn DEF WriteTarget, Executing
<1>4. CASE InsertTargets
  BY <1>1, <1>4, ContinueOwn DEF InsertTargets, Executing
<1>5. CASE ClearLinks
  BY <1>1, <1>5, ContinueOwn DEF ClearLinks, Unlink, Executing
<1>6. CASE RemoveLinks
  BY <1>1, <1>6, ContinueOwn DEF RemoveLinks, Unlink, Executing
<1>7. CASE CheckLinks
  BY <1>1, <1>7, ThrowOwn, ContinueOwn DEF CheckLinks, Pass, Executing
<1>8. CASE InsertLinks
  BY <1>1, <1>8, ContinueOwn DEF InsertLinks, Executing
<1> QED BY <1>2, <1>3, <1>4, <1>5, <1>6, <1>7, <1>8

(* What the call holds is not touched by Finish, other clients and stutters*)
LEMMA QuietOwn ==
  ASSUME OwnInv, UNCHANGED <<call, pos, next, todo, matched>>, others' \in Nat
  PROVE  OwnInv'
<1>1. MatchedParents' = MatchedParents /\ Items' = Items
  BY DEF MatchedParents, Items, Item
<1>2. (Own(todo, MatchedParents))'
  BY <1>1 DEF Own, OwnInv
<1>3. InsertedAll'
  BY <1>1 DEF InsertedAll, OwnInv
<1> QED BY <1>1, <1>2, <1>3 DEF OwnInv

LEMMA OtherFrame ==
  ASSUME OwnInv, Other
  PROVE  /\ others' = others + 1 /\ others' # others /\ outcome = "running"
         /\ UNCHANGED <<call, tx, undo, pos, next, todo, pinned, owned, current, matched,
                         outcome, start>>
<1>1. \E r, value : OtherWrites(r, value)
  BY DEF Other, DeleteChild, MoveChild, AddChild, DeleteParent, DropLink, DeleteTarget
<1> QED BY <1>1 DEF OtherWrites, OwnInv

LEMMA StepOwn == OwnInv /\ [Next]_vars => OwnInv'
<1> SUFFICES ASSUME OwnInv, [Next]_vars PROVE OwnInv'
  OBVIOUS
<1>1. CASE CallStep
  <2>1. CASE Finish
    BY <2>1, QuietOwn DEF Finish, OwnInv
  <2> QED
    BY <1>1, <2>1, PlanOwn, OwnerPhaseOwn, MainOwn, LoadPhaseOwn, ChildrenOwn, RelatedOwn
    DEF CallStep
<1>2. CASE Other
  BY <1>2, OtherFrame, QuietOwn DEF OwnInv
<1>3. CASE UNCHANGED vars
  BY <1>3, QuietOwn DEF vars, OwnInv
<1> QED BY <1>1, <1>2, <1>3 DEF Next

(* Whatever a phase holds back for later - the rows loaded, the children   *)
(* still to write, the links still to add - belongs to a matched parent,   *)
(* in every reachable state.                                               *)
THEOREM AlwaysOwn == Spec => []OwnInv
BY InitOwn, StepOwn, PTL DEF Spec

-----------------------------------------------------------------------------
(* Which rows a step writes *)

(* What OnlyOwnRows says of one step.                                      *)
OwnRowsStep ==
  /\ \A k \in Children : OwnChild(db[C(k)], db'[C(k)])
  /\ \A p \in Parents, t \in Targets :
       db[L(p, t)] # db'[L(p, t)] => p \in MatchedParents

LEMMA RowKinds ==
  /\ \A k \in Children : C(k) \in Rows
  /\ \A p \in Parents, t \in Targets : L(p, t) \in Rows
  /\ \A k, x : C(k) # P(x) /\ C(k) # O(x) /\ C(k) # T(x)
  /\ \A p, t, x : L(p, t) # P(x) /\ L(p, t) # O(x) /\ L(p, t) # T(x) /\ L(p, t) # C(x)
  /\ \A k, l : C(k) = C(l) => k = l
  /\ \A p, t, q, u : L(p, t) = L(q, u) => p = q /\ t = u
BY DEF Rows, ParentRows, ChildRows, OwnerRows, TargetRows, LinkRows, P, C, O, T, L

LEMMA SameRows ==
  ASSUME db' = db
  PROVE  OwnRowsStep
BY DEF OwnRowsStep, OwnChild

(* A statement that writes only children of matched parents and their      *)
(* links, each within its parent.                                          *)
LEMMA WriteOwnRows ==
  ASSUME NEW changes, Write(changes),
         \A k \in Children : C(k) \in DOMAIN changes => OwnChild(db[C(k)], changes[C(k)]),
         \A p \in Parents, t \in Targets : L(p, t) \in DOMAIN changes => p \in MatchedParents
  PROVE  OwnRowsStep
<1>1. \A r \in Rows : db'[r] = IF r \in DOMAIN changes THEN changes[r] ELSE db[r]
  BY DEF Write
<1>2. ASSUME NEW k \in Children PROVE OwnChild(db[C(k)], db'[C(k)])
  <2>1. CASE C(k) \in DOMAIN changes
    BY <1>1, <2>1, RowKinds
  <2>2. CASE C(k) \notin DOMAIN changes
    BY <1>1, <2>2, RowKinds DEF OwnChild
  <2> QED BY <2>1, <2>2
<1>3. ASSUME NEW p \in Parents, NEW t \in Targets, db[L(p, t)] # db'[L(p, t)]
      PROVE  p \in MatchedParents
  BY <1>1, <1>3, RowKinds
<1> QED BY <1>2, <1>3 DEF OwnRowsStep

(* A statement that writes no child and no link.                           *)
LEMMA WriteElsewhere ==
  ASSUME NEW changes, Write(changes),
         \A r \in DOMAIN changes : \E x : r = P(x) \/ r = O(x) \/ r = T(x)
  PROVE  OwnRowsStep
BY RowKinds, WriteOwnRows

LEMMA ThrowRows ==
  ASSUME NEW e \in Errors, Throw(e, <<>>), tx => outcome' \notin Errors
  PROVE  OwnRowsStep
<1>1. Write(<<>>)
  BY DEF Throw
<1>2. DOMAIN <<>> = {}
  OBVIOUS
<1> QED BY <1>1, <1>2, WriteOwnRows

(* An insert, complete or not, of children of matched parents.             *)
LEMMA InsertOwnRows ==
  ASSUME NEW S, NEW row(_), tx => outcome' \notin Errors,
         NEW accepted, InsertRows(S, row, accepted),
         \A k \in Children :
           C(k) \in S => (row(C(k)) # NoRow => row(C(k)).fk \in MatchedParents),
         \A p \in Parents, t \in Targets : L(p, t) \notin S
  PROVE  OwnRowsStep
<1>1. \E stored \in SUBSET {r \in S : db[r] = NoRow} : Write([r \in stored |-> row(r)])
  BY DEF InsertRows, Throw, Errors
<1>2. PICK stored \in SUBSET {r \in S : db[r] = NoRow} : Write([r \in stored |-> row(r)])
  BY <1>1
<1> QED BY <1>2, WriteOwnRows DEF OwnChild

LEMMA DecideRows ==
  ASSUME NEW errors \in SUBSET Errors, Decide(errors), tx => outcome' \notin Errors
  PROVE  OwnRowsStep
BY ThrowRows, SameRows DEF Decide

LEMMA PlanRows ==
  ASSUME tx => outcome' \notin Errors,
         \/ Pin \/ PlanClaims \/ PlanLinks \/ PlanTargets \/ CheckChildRefs
         \/ PlanTo \/ CheckOwners \/ CheckParents \/ ReadShared
  PROVE  OwnRowsStep
<1>1. CASE Pin \/ ReadShared
  BY <1>1, SameRows DEF Pin, ReadShared
<1>2. CASE PlanClaims
  <2>1. ClaimErrors \subseteq Errors
    BY DEF ClaimErrors, Errors
  <2> QED BY <1>2, <2>1, ThrowRows, SameRows DEF PlanClaims
<1>3. CASE PlanLinks
  <2>1. LinkErrors \in SUBSET Errors
    BY DEF LinkErrors, Errors
  <2> QED BY <1>3, <2>1, DecideRows DEF PlanLinks
<1>4. CASE PlanTargets
  <2>1. TargetErrors \in SUBSET Errors
    BY DEF TargetErrors, Errors
  <2> QED BY <1>4, <2>1, DecideRows DEF PlanTargets
<1>5. CASE CheckChildRefs
  <2>1. RefErrors \in SUBSET Errors
    BY DEF RefErrors, Errors
  <2> QED BY <1>5, <2>1, DecideRows DEF CheckChildRefs
<1>6. CASE PlanTo
  <2>1. ToErrors \in SUBSET Errors
    BY DEF ToErrors, Errors
  <2> QED BY <1>6, <2>1, DecideRows DEF PlanTo
<1>7. CASE CheckOwners
  <2>1. OwnerErrors \in SUBSET Errors
    BY DEF OwnerErrors, Errors
  <2> QED BY <1>7, <2>1, DecideRows DEF CheckOwners
<1>8. CASE CheckParents
  <2>1. PICK errors \in SUBSET Errors : Decide(errors)
    BY <1>8 DEF CheckParents, Errors
  <2> QED BY <2>1, DecideRows
<1> QED BY <1>1, <1>2, <1>3, <1>4, <1>5, <1>6, <1>7, <1>8

LEMMA OwnerPhaseRows ==
  ASSUME OwnInv, tx => outcome' \notin Errors, WriteTo \/ InsertTo \/ InsertFrom
  PROVE  OwnRowsStep
<1>1. CASE WriteTo
  BY <1>1, ThrowRows, SameRows DEF WriteTo, Errors
<1>2. CASE InsertTo
  <2> DEFINE S == {O(o) : o \in {Item(i).to : i \in Items} \ {Null}}
  <2>1. \E stored \in SUBSET S : Write([r \in stored |-> [data |-> "new"]])
    BY <1>2 DEF InsertTo, InsertRows, Throw, Errors
  <2>2. PICK stored \in SUBSET S : Write([r \in stored |-> [data |-> "new"]])
    BY <2>1
  <2> QED BY <2>2, WriteElsewhere
<1>3. CASE InsertFrom
  <2> DEFINE children(i) == {C(k) : k \in Keys(Given(Item(i).from, "insert"))}
             parentOf(r) == Item(CHOOSE i \in Items : r \in children(i)).parent
             S == UNION {children(i) : i \in Items}
  <2>1. call.mode = "insert" /\ In("from")
    BY <1>3 DEF InsertFrom
  <2>2. matched = Items
    BY <2>1, PhaseOfInsert DEF OwnInv, InsertedAll
  <2>3. \A r \in S : parentOf(r) \in MatchedParents
    BY <2>2 DEF MatchedParents
  <2>4. \E stored \in SUBSET {r \in S : db[r] = NoRow} :
          Write([r \in stored |-> [fk |-> parentOf(r), data |-> "new"]])
    BY <1>3 DEF InsertFrom, InsertRows, Throw, Errors
  <2>5. PICK stored \in SUBSET {r \in S : db[r] = NoRow} :
          Write([r \in stored |-> [fk |-> parentOf(r), data |-> "new"]])
    BY <2>4
  <2>6. \A p \in Parents, t \in Targets : L(p, t) \notin S
    BY RowKinds
  <2> HIDE DEF parentOf, S
  <2>7. ASSUME NEW k \in Children, C(k) \in stored
        PROVE  OwnChild(db[C(k)], [fk |-> parentOf(C(k)), data |-> "new"])
    BY <2>3, <2>5, <2>7 DEF OwnChild
  <2> QED BY <2>5, <2>6, <2>7, WriteOwnRows
<1> QED BY <1>1, <1>2, <1>3

LEMMA MainRows ==
  ASSUME tx => outcome' \notin Errors, WriteParent \/ InsertParents \/ MainDone
  PROVE  OwnRowsStep
<1>1. CASE WriteParent
  <2>1. \/ Write([r \in {P(Item(next).parent)} |-> RowWritten(next)])
        \/ Throw("CONFLICT", <<>>)
        \/ db' = db
    BY <1>1 DEF WriteParent
  <2> QED BY <2>1, WriteElsewhere, ThrowRows, SameRows DEF Errors
<1>2. CASE InsertParents
  <2> DEFINE S == {P(p) : p \in {Item(i).parent : i \in Items}}
             row(r) == RowWritten(CHOOSE i \in Items : P(Item(i).parent) = r)
  <2>1. \E stored \in SUBSET S : Write([r \in stored |-> row(r)])
    BY <1>2 DEF InsertParents, InsertRows, Throw, Errors
  <2>2. PICK stored \in SUBSET S : Write([r \in stored |-> row(r)])
    BY <2>1
  <2> HIDE DEF row
  <2> QED BY <2>2, WriteElsewhere
<1>3. CASE MainDone
  BY <1>3, SameRows DEF MainDone
<1> QED BY <1>1, <1>2, <1>3

LEMMA ChildrenRows ==
  ASSUME OwnInv, tx => outcome' \notin Errors,
         \/ CheckRefs \/ ReplaceChildren \/ UpsertChildren
         \/ DeleteChildren \/ WriteChild \/ InsertChildren
  PROVE  OwnRowsStep
<1>1. Parent \in MatchedParents
  BY HeadOwn DEF CheckRefs, ReplaceChildren, UpsertChildren, DeleteChildren, WriteChild,
                 InsertChildren, Executing
<1>2. CASE CheckRefs \/ ReplaceChildren \/ UpsertChildren
  BY <1>2, ThrowRows, SameRows DEF CheckRefs, ReplaceChildren, UpsertChildren, Pass, Errors
<1>3. CASE DeleteChildren
  <2> DEFINE S == {C(k) : k \in Keys(Entries) \cap ChildrenOf(db, Parent)}
  <2>1. Write([r \in S |-> NoRow])
    BY <1>3 DEF DeleteChildren
  <2>2. \A k \in Children : C(k) \in S => OwnChild(db[C(k)], NoRow)
    BY <1>1, RowKinds DEF ChildrenOf, OwnChild
  <2>3. \A p \in Parents, t \in Targets : L(p, t) \notin S
    BY RowKinds
  <2> HIDE DEF S
  <2> QED BY <2>1, <2>2, <2>3, WriteOwnRows
<1>4. CASE WriteChild
  <2>1. PICK e : \/ /\ e.key \in ChildrenOf(db, Parent)
                    /\ Write([r \in {C(e.key)} |-> [fk |-> Parent, data |-> "new"]])
                 \/ Throw("CONFLICT", <<>>)
                 \/ db' = db
    BY <1>4 DEF WriteChild, Pass
  <2>2. CASE /\ e.key \in ChildrenOf(db, Parent)
             /\ Write([r \in {C(e.key)} |-> [fk |-> Parent, data |-> "new"]])
    <3>1. \A k \in Children : C(k) \in {C(e.key)} =>
            OwnChild(db[C(k)], [fk |-> Parent, data |-> "new"])
      BY <1>1, <2>2, RowKinds DEF ChildrenOf, OwnChild
    <3>2. \A p \in Parents, t \in Targets : L(p, t) \notin {C(e.key)}
      BY RowKinds
    <3> QED BY <2>2, <3>1, <3>2, WriteOwnRows
  <2> QED BY <2>1, <2>2, ThrowRows, SameRows DEF Errors
<1>5. CASE InsertChildren
  <2> DEFINE S == {C(k) : k \in Keys(Entries)}
  <2>1. \E stored \in SUBSET {r \in S : db[r] = NoRow} :
          Write([r \in stored |-> [fk |-> Parent, data |-> "new"]])
    BY <1>5 DEF InsertChildren, InsertRows, Throw, Errors
  <2>2. PICK stored \in SUBSET {r \in S : db[r] = NoRow} :
          Write([r \in stored |-> [fk |-> Parent, data |-> "new"]])
    BY <2>1
  <2>3. \A p \in Parents, t \in Targets : L(p, t) \notin S
    BY RowKinds
  <2> HIDE DEF S
  <2>4. \A k \in Children : C(k) \in stored =>
          OwnChild(db[C(k)], [fk |-> Parent, data |-> "new"])
    BY <1>1, <2>2 DEF OwnChild
  <2> QED BY <2>2, <2>3, <2>4, WriteOwnRows
<1> QED BY <1>2, <1>3, <1>4, <1>5

LEMMA RelatedRows ==
  ASSUME OwnInv, tx => outcome' \notin Errors,
         \/ WriteOwner \/ WriteTarget \/ InsertTargets \/ ClearLinks
         \/ RemoveLinks \/ CheckLinks \/ InsertLinks
  PROVE  OwnRowsStep
<1>1. ASSUME NEW S, NEW changes, DOMAIN changes = {L(Parent, t) : t \in S},
             Parent \in MatchedParents, Write(changes)
      PROVE  OwnRowsStep
  <2>1. \A k \in Children : C(k) \notin {L(Parent, t) : t \in S}
    BY RowKinds
  <2>2. \A p \in Parents, t \in Targets :
          L(p, t) \in {L(Parent, u) : u \in S} => p = Parent
    BY RowKinds
  <2> QED BY <1>1, <2>1, <2>2, WriteOwnRows
<1>2. CASE WriteOwner
  <2>1. db' = db \/ Write([r \in {O(Parent)} |-> [data |-> "new"]])
    BY <1>2 DEF WriteOwner, Pass
  <2> QED BY <2>1, WriteElsewhere, SameRows
<1>3. CASE WriteTarget
  <2>1. PICK e : db' = db \/ Write([r \in {T(e.key)} |-> [data |-> "new"]])
    BY <1>3 DEF WriteTarget, Pass
  <2> QED BY <2>1, WriteElsewhere, SameRows
<1>4. CASE InsertTargets
  <2>1. Write([r \in {T(t) : t \in Keys(Entries)} |-> [data |-> "new"]])
    BY <1>4 DEF InsertTargets
  <2> QED BY <2>1, WriteElsewhere
<1>5. CASE CheckLinks
  BY <1>5, ThrowRows, SameRows DEF CheckLinks, Pass, Errors
<1>6. CASE ClearLinks \/ RemoveLinks
  <2>1. Parent \in MatchedParents
    BY <1>6, HeadOwn DEF ClearLinks, RemoveLinks, Executing
  <2>2. PICK S : Write([r \in {L(Parent, t) : t \in S} |-> 0])
    BY <1>6 DEF ClearLinks, RemoveLinks, Unlink
  <2> QED BY <1>1, <2>1, <2>2
<1>7. CASE InsertLinks
  <2>1. Parent \in MatchedParents
    BY <1>7, HeadOwn DEF InsertLinks, Executing
  <2>2. Write([r \in {L(Parent, t) : t \in Keys(Entries)} |-> db[r] + 1])
    BY <1>7 DEF InsertLinks
  <2> QED BY <1>1, <2>1, <2>2
<1> QED BY <1>2, <1>3, <1>4, <1>5, <1>6, <1>7

LEMMA StepRows ==
  ASSUME OwnInv, [Next]_vars, others' = others, tx => outcome' \notin Errors
  PROVE  OwnRowsStep
<1>1. CASE CallStep
  <2>1. CASE Finish
    BY <2>1, SameRows DEF Finish
  <2>2. CASE LoadFrom \/ LoadVia
    BY <2>2, SameRows DEF LoadFrom, LoadVia, Load
  <2> QED
    BY <1>1, <2>1, <2>2, PlanRows, OwnerPhaseRows, MainRows, ChildrenRows, RelatedRows
    DEF CallStep
<1>2. CASE Other
  BY <1>2, OtherFrame
<1>3. CASE UNCHANGED vars
  BY <1>3, SameRows DEF vars
<1> QED BY <1>1, <1>2, <1>3 DEF Next

(* Every child and link a statement of the call writes belongs to a parent *)
(* whose own row the call has matched (nested-writer.ts:1865-1882).        *)
THEOREM NestedWritesOnlyOwnRows == Spec => OnlyOwnRows
<1>1. OwnInv /\ [Next]_vars =>
        (others' = others /\ (tx => outcome' \notin Errors) => OwnRowsStep)
  BY StepRows
<1> QED BY <1>1, AlwaysOwn, PTL DEF Spec, OnlyOwnRows, OwnRowsStep

-----------------------------------------------------------------------------
(* The invariant behind PlannedChildrenWritten *)

(* A statement that will write the child k, or end the call.               *)
Carries(x, k) ==
  \/ x.do \in {"replace", "update", "upsert"} /\ k \in Keys(Keyed(x.entries))
  \/ x.do = "insert" /\ k \in Keys(x.entries)

Carried(k) == \E x \in Range(todo) : Carries(x, k)

(* The FROM phase has not come to item i.                                  *)
Pending(i) == pos < 9 \/ (pos = 9 /\ next <= i)

(* Every planned child of a matched item has been written, or its item is  *)
(* still to come, or a statement that is still to be executed carries it.  *)
PlannedInv ==
  /\ call.mode = "insert" => owned = {}
  /\ outcome = "ok" /\ call.mode # "insert" => todo = <<>> /\ pos > 9
  /\ outcome \in {"running", "ok"} =>
       \A i \in matched : \A k \in ClaimedChildren(i) \cap owned :
         C(k) \in DOMAIN undo \/ Pending(i) \/ Carried(k)

LEMMA InitPlanned == Init => PlannedInv
BY DEF Init, PlannedInv

LEMMA Modes ==
  ASSUME OwnInv
  PROVE  call.mode \in {"patch", "replace", "insert"}
BY CallsAssumption DEF OwnInv, CallOK

(* The FROM phase's statements carry every child the item claims.          *)
LEMMA FromCarries ==
  ASSUME NEW i, NEW k \in ClaimedChildren(i)
  PROVE  \E x \in Range(FromStatements(Item(i).parent, Item(i).from)) : Carries(x, k)
<1> DEFINE p == Item(i).parent
           ops == Item(i).from
<1>1. PICK o \in {"replace", "update", "upsert"} : k \in Keys(Keyed(Given(ops, o)))
  BY DEF ClaimedChildren, GivenAny, Keyed, Keys
<1>2. Given(ops, o) # {} /\ o \in DOMAIN ops
  BY <1>1 DEF Given, Keyed, Keys
<1> DEFINE s1 == When("replace" \in DOMAIN ops, <<Stmt("replace", p, Given(ops, "replace"))>>)
           s2 == When(Given(ops, "remove") # {}, <<Stmt("delete", p, Given(ops, "remove"))>>)
           s3 == UpdateMany(p, Given(ops, "update"))
           s4 == When("upsert" \in DOMAIN ops, <<Stmt("upsert", p, Given(ops, "upsert"))>>)
           s5 == InsertMany(p, Given(ops, "insert"))
<1>3. /\ Own(s1, {p}) /\ Own(s2, {p}) /\ Own(s3, {p}) /\ Own(s4, {p}) /\ Own(s5, {p})
  <2>1. Own(s1, {p}) /\ Own(s2, {p}) /\ Own(s4, {p})
    BY OwnOne, OwnEmpty DEF When
  <2>2. Own(s3, {p}) /\ Own(s5, {p})
    BY OwnPair, OwnEmpty DEF UpdateMany, InsertMany, When
  <2> QED BY <2>1, <2>2
<1>4. Carries(Stmt(o, p, Given(ops, o)), k)
  BY <1>1 DEF Carries, Stmt
<1>5. Stmt(o, p, Given(ops, o)) \in Range(s1) \cup Range(s3) \cup Range(s4)
  <2>1. CASE o = "replace"
    BY <1>2, <2>1 DEF When, Range
  <2>2. CASE o = "update"
    <3> DEFINE u == Stmt("update", p, Given(ops, "update"))
               c == Stmt("checkRefs", p, Given(ops, "update"))
    <3>1. s3 = <<c, u>>
      BY <1>2, <2>2 DEF When, UpdateMany
    <3> HIDE DEF u, c, s3
    <3>2. u \in Range(s3)
      BY <3>1 DEF Range
    <3> QED BY <2>2, <3>2 DEF u
  <2>3. CASE o = "upsert"
    BY <1>2, <2>3 DEF When, Range
  <2> QED BY <2>1, <2>2, <2>3
<1>6. FromStatements(p, ops) = s1 \o s2 \o s3 \o s4 \o s5
  BY DEF FromStatements
<1> HIDE DEF s1, s2, s3, s4, s5
<1>7. Range(s1 \o s2 \o s3 \o s4 \o s5)
        = Range(s1) \cup Range(s2) \cup Range(s3) \cup Range(s4) \cup Range(s5)
  <2> DEFINE t2 == s1 \o s2
             t3 == t2 \o s3
             t4 == t3 \o s4
  <2>1. Own(t2, {p}) /\ Range(t2) = Range(s1) \cup Range(s2)
    BY <1>3, OwnConcat
  <2> HIDE DEF t2
  <2>2. Own(t3, {p}) /\ Range(t3) = Range(t2) \cup Range(s3)
    BY <1>3, <2>1, OwnConcat
  <2> HIDE DEF t3
  <2>3. Own(t4, {p}) /\ Range(t4) = Range(t3) \cup Range(s4)
    BY <1>3, <2>2, OwnConcat
  <2> HIDE DEF t4
  <2>4. Range(t4 \o s5) = Range(t4) \cup Range(s5)
    BY <1>3, <2>3, OwnConcat
  <2> QED BY <2>1, <2>2, <2>3, <2>4 DEF t2, t3, t4
<1> QED BY <1>4, <1>5, <1>6, <1>7

LEMMA ThrowPlanned ==
  ASSUME PlannedInv, NEW e \in Errors, NEW changes, Throw(e, changes)
  PROVE  PlannedInv'
BY DEF PlannedInv, Throw, Errors

(* Before the FROM phase there is nothing to show.                         *)
LEMMA EarlyPlanned ==
  ASSUME call.mode # "insert", call' = call, outcome' = "running",
         \A i \in matched' : (Pending(i))'
  PROVE  PlannedInv'
BY DEF PlannedInv

LEMMA KeepPlanned ==
  ASSUME PlannedInv, outcome = "running", outcome' = "running",
         UNCHANGED <<call, owned, matched>>,
         DOMAIN undo \subseteq DOMAIN undo',
         \A i \in matched : \A k \in ClaimedChildren(i) \cap owned :
           Pending(i) \/ Carried(k) => C(k) \in DOMAIN undo' \/ (Pending(i))' \/ (Carried(k))'
  PROVE  PlannedInv'
<1>1. \A i : ClaimedChildren(i)' = ClaimedChildren(i)
  BY DEF ClaimedChildren, Item
<1> QED BY <1>1 DEF PlannedInv

LEMMA AdvancePlanned ==
  ASSUME OwnInv, PlannedInv, call.mode # "insert", NEW phase, In(phase), Advance,
         UNCHANGED <<todo, matched>>, phase \notin {"from", "via"} \/ UNCHANGED owned,
         phase = "from" => next \notin Items, DOMAIN undo \subseteq DOMAIN undo'
  PROVE  PlannedInv'
<1>0. call.mode \in {"patch", "replace"}
  BY Modes
<1>1. outcome = "running" /\ outcome' = "running" /\ todo = <<>> /\ call' = call
  BY DEF In, Advance
<1>2. \A k : ~Carried(k)
  BY <1>1 DEF Carried, Range
<1>3. \A i \in matched : i \in Nat /\ i >= 1
  BY ItemsRange DEF OwnInv
<1>4. CASE phase \notin {"from", "via"}
  <2>1. pos \in 1 .. 8
    BY <1>0, <1>4, PhaseOfOthers
  <2>2. \A i \in matched : pos + 1 < 9 \/ (pos + 1 = 9 /\ 1 <= i)
    BY <2>1, <1>3
  <2>3. \A i \in matched' : (Pending(i))'
    BY <2>2 DEF Pending, Advance
  <2> QED BY <1>1, <2>3, EarlyPlanned
<1>5. CASE phase \in {"from", "via"}
  <2>1. \A i \in matched : ~Pending(i)
    <3>1. phase = "from" => pos = 9 /\ next \notin Items
      BY <1>0, PhaseOfOthers
    <3>2. phase = "via" => pos = 10
      BY <1>0, PhaseOfOthers
    <3>3. phase = "from" => next > Len(call.items)
      BY <3>1, ItemsRange DEF OwnInv
    <3>4. \A i \in matched : i <= Len(call.items)
      BY ItemsRange DEF OwnInv
    <3> QED BY <1>3, <1>5, <3>1, <3>2, <3>3, <3>4, ItemsRange DEF Pending, OwnInv
  <2> QED BY <1>1, <1>2, <1>5, <2>1, KeepPlanned
<1> QED BY <1>4, <1>5

LEMMA DecidePlanned ==
  ASSUME OwnInv, PlannedInv, call.mode # "insert", NEW phase, In(phase),
         phase \notin {"from", "via"}, NEW errors \in SUBSET Errors, Decide(errors)
  PROVE  PlannedInv'
<1>1. CASE errors # {}
  BY <1>1, ThrowPlanned DEF Decide
<1>2. CASE errors = {}
  BY <1>2, AdvancePlanned DEF Decide
<1> QED BY <1>1, <1>2

LEMMA WriteUndo ==
  ASSUME NEW changes, Write(changes)
  PROVE  DOMAIN undo' = DOMAIN undo \cup DOMAIN changes
BY DEF Write

LEMMA WriteOneUndo ==
  ASSUME NEW S, NEW v, Write([r \in S |-> v])
  PROVE  DOMAIN undo' = DOMAIN undo \cup S
BY DEF Write

(* A statement has been executed: what it carried is written, or carried   *)
(* by the statements that take its place.                                  *)
LEMMA ContinuePlanned ==
  ASSUME OwnInv, PlannedInv, outcome = "running", todo # <<>>,
         NEW stmts, NEW ps, Own(stmts, ps), Continue(stmts), DOMAIN undo \subseteq DOMAIN undo',
         \A k \in owned : Carries(Head(todo), k) =>
           C(k) \in DOMAIN undo' \/ \E x \in Range(stmts) : Carries(x, k)
  PROVE  PlannedInv'
<1>1. /\ Range(todo) = {Head(todo)} \cup Range(Tail(todo))
      /\ Own(Tail(todo), MatchedParents)
  BY HeadTail, HeadOwn DEF OwnInv, Own
<1>2. Range(todo') = Range(stmts) \cup Range(Tail(todo))
  BY <1>1, ConcatRange DEF Own, Continue
<1>3. \A k \in owned : Carried(k) => C(k) \in DOMAIN undo' \/ (Carried(k))'
  BY <1>1, <1>2 DEF Carried
<1>4. \A i : Pending(i) => (Pending(i))'
  BY DEF Pending, Continue
<1>5. outcome' = "running" /\ UNCHANGED <<call, owned, matched>>
  BY DEF Continue
<1> QED BY <1>3, <1>4, <1>5, KeepPlanned

(* A statement that carries no planned child.                              *)
LEMMA PlainPlanned ==
  ASSUME OwnInv, PlannedInv, NEW do, Executing(do),
         do \notin {"replace", "update", "upsert", "insert"},
         NEW stmts, NEW ps, Own(stmts, ps), Continue(stmts), DOMAIN undo \subseteq DOMAIN undo'
  PROVE  PlannedInv'
<1>1. outcome = "running" /\ todo # <<>> /\ \A k : ~Carries(Head(todo), k)
  BY DEF Executing, Carries
<1> QED BY <1>1, ContinuePlanned

LEMMA PlanPlanned ==
  ASSUME OwnInv, PlannedInv, call.mode # "insert",
         \/ Pin \/ PlanClaims \/ PlanLinks \/ PlanTargets \/ CheckChildRefs
         \/ PlanTo \/ CheckOwners \/ CheckParents \/ ReadShared
  PROVE  PlannedInv'
<1>1. CASE Pin
  BY <1>1, AdvancePlanned DEF Pin
<1>2. CASE PlanClaims
  <2>1. ClaimErrors \subseteq Errors
    BY DEF ClaimErrors, Errors
  <2>2. CASE ClaimErrors # {}
    BY <1>2, <2>1, <2>2, ThrowPlanned DEF PlanClaims
  <2>3. CASE ClaimErrors = {}
    BY <1>2, <2>3, AdvancePlanned DEF PlanClaims
  <2> QED BY <2>2, <2>3
<1>3. CASE PlanLinks
  <2>1. LinkErrors \in SUBSET Errors
    BY DEF LinkErrors, Errors
  <2> QED BY <1>3, <2>1, DecidePlanned DEF PlanLinks
<1>4. CASE PlanTargets
  <2>1. TargetErrors \in SUBSET Errors
    BY DEF TargetErrors, Errors
  <2> QED BY <1>4, <2>1, DecidePlanned DEF PlanTargets
<1>5. CASE CheckChildRefs
  <2>1. RefErrors \in SUBSET Errors
    BY DEF RefErrors, Errors
  <2> QED BY <1>5, <2>1, DecidePlanned DEF CheckChildRefs
<1>6. CASE PlanTo
  <2>1. ToErrors \in SUBSET Errors
    BY DEF ToErrors, Errors
  <2> QED BY <1>6, <2>1, DecidePlanned DEF PlanTo
<1>7. CASE CheckOwners
  <2>1. OwnerErrors \in SUBSET Errors
    BY DEF OwnerErrors, Errors
  <2> QED BY <1>7, <2>1, DecidePlanned DEF CheckOwners
<1>8. CASE CheckParents
  BY <1>8, Modes, PhaseOfOthers DEF CheckParents
<1>9. CASE ReadShared
  BY <1>9, AdvancePlanned DEF ReadShared
<1> QED BY <1>1, <1>2, <1>3, <1>4, <1>5, <1>6, <1>7, <1>8, <1>9

LEMMA MainPlanned ==
  ASSUME OwnInv, PlannedInv, OwnInv', call.mode # "insert",
         WriteTo \/ InsertTo \/ InsertFrom \/ WriteParent \/ InsertParents \/ MainDone
  PROVE  PlannedInv'
<1>1. ASSUME NEW phase, In(phase), phase \notin {"from", "via"}, UNCHANGED <<call, pos>>,
             outcome' = outcome
      PROVE  PlannedInv'
  <2>1. pos \in 1 .. 8
    BY <1>1, Modes, PhaseOfOthers
  <2>2. \A i : (Pending(i))'
    BY <1>1, <2>1 DEF Pending
  <2>3. outcome' = "running"
    BY <1>1 DEF In
  <2> QED BY <1>1, <2>2, <2>3, EarlyPlanned
<1>2. CASE WriteTo
  <2>1. CASE ReplacesUnnamedOwner
    BY <1>2, <2>1, ThrowPlanned DEF WriteTo, Errors
  <2>2. CASE ~ReplacesUnnamedOwner /\ next \in Items
    BY <1>1, <1>2, <2>2 DEF WriteTo
  <2>3. CASE ~ReplacesUnnamedOwner /\ next \notin Items
    BY <1>2, <2>3, AdvancePlanned DEF WriteTo
  <2> QED BY <2>1, <2>2, <2>3
<1>3. CASE InsertTo \/ InsertFrom \/ InsertParents
  BY <1>3 DEF InsertTo, InsertFrom, InsertParents
<1>4. CASE WriteParent
  <2>1. CASE /\ ~(db[P(Item(next).parent)] # NoRow /\ ~Item(next).stale)
             /\ call.mode = "replace" /\ KeepsTo(next)
    BY <1>4, <2>1, ThrowPlanned DEF WriteParent, Errors
  <2>2. CASE UNCHANGED <<call, pos, outcome>>
    BY <1>1, <1>4, <2>2 DEF WriteParent
  <2> QED BY <1>4, <2>1, <2>2 DEF WriteParent
<1>5. CASE MainDone
  BY <1>5, AdvancePlanned DEF MainDone
<1> QED BY <1>2, <1>3, <1>4, <1>5

LEMMA LoadPlanned ==
  ASSUME OwnInv, PlannedInv, call.mode # "insert", LoadFrom \/ LoadVia
  PROVE  PlannedInv'
<1>1. CASE LoadFrom
  <2>1. CASE next \notin Items
    <3>1. In("from") /\ Advance /\ UNCHANGED <<undo, todo, matched, owned>>
      BY <1>1, <2>1 DEF LoadFrom, Load
    <3> QED BY <2>1, <3>1, AdvancePlanned
  <2>2. CASE next \in Items
    <3>1. /\ In("from") /\ pos = 9 /\ pos' = pos /\ next' = next + 1
          /\ outcome = "running" /\ outcome' = "running" /\ todo = <<>>
          /\ UNCHANGED <<call, undo, matched, owned>>
          /\ todo' = When(next \in matched, FromStatements(Item(next).parent, Item(next).from))
      BY <1>1, <2>2, Modes, PhaseOfOthers DEF LoadFrom, Load, In
    <3>2. ASSUME NEW i \in matched, NEW k \in ClaimedChildren(i), Pending(i) \/ Carried(k)
          PROVE  (Pending(i))' \/ (Carried(k))'
      <4>1. Pending(i)
        BY <3>1, <3>2 DEF Carried, Range
      <4>2. CASE i = next
        BY <3>1, <4>2, FromCarries DEF Carried, When
      <4>3. CASE i # next
        <5>1. i \in Nat /\ next \in Nat
          BY ItemsRange DEF OwnInv
        <5> QED BY <3>1, <4>1, <4>3, <5>1 DEF Pending
      <4> QED BY <4>2, <4>3
    <3> QED BY <3>1, <3>2, KeepPlanned
  <2> QED BY <2>1, <2>2
<1>2. CASE LoadVia
  <2>1. CASE next \notin Items
    BY <1>2, <2>1, AdvancePlanned DEF LoadVia, Load
  <2>2. CASE next \in Items
    <3>1. /\ pos = 10 /\ outcome = "running" /\ outcome' = "running" /\ todo = <<>>
          /\ UNCHANGED <<call, undo, matched, owned>>
      BY <1>2, <2>2, Modes, PhaseOfOthers DEF LoadVia, Load, In
    <3>2. \A i, k : ~Pending(i) /\ ~Carried(k)
      BY <3>1 DEF Pending, Carried, Range
    <3> QED BY <3>1, <3>2, KeepPlanned
  <2> QED BY <2>1, <2>2
<1> QED BY <1>1, <1>2

(* UpdateMany and InsertMany carry the children they are given.            *)
LEMMA ManyCarries ==
  ASSUME NEW p, NEW es, NEW e \in es
  PROVE  /\ Own(UpdateMany(p, es), {p}) /\ Own(InsertMany(p, es), {p})
         /\ \E x \in Range(InsertMany(p, es)) : Carries(x, e.key)
         /\ e.keyed => \E x \in Range(UpdateMany(p, es)) : Carries(x, e.key)
<1> DEFINE c == Stmt("checkRefs", p, es)
           u == Stmt("update", p, es)
           n == Stmt("insert", p, es)
<1>1. Own(<<c, u>>, {p}) /\ Own(<<c, n>>, {p})
  BY OwnPair
<1>2. Carries(n, e.key) /\ (e.keyed => Carries(u, e.key))
  BY DEF Carries, Stmt, Keys, Keyed
<1>3. UpdateMany(p, es) = <<c, u>> /\ InsertMany(p, es) = <<c, n>>
  BY DEF UpdateMany, InsertMany, When
<1> HIDE DEF c, u, n
<1>4. u \in Range(<<c, u>>) /\ n \in Range(<<c, n>>)
  BY DEF Range
<1> QED BY <1>1, <1>2, <1>3, <1>4

LEMMA ManyOwn ==
  ASSUME NEW p, NEW es
  PROVE  Own(UpdateMany(p, es), {p}) /\ Own(InsertMany(p, es), {p})
BY OwnPair, OwnEmpty DEF UpdateMany, InsertMany, When

(* $replace and $upsert split their entries into updates and inserts.      *)
LEMMA SplitPlanned ==
  ASSUME OwnInv, PlannedInv, NEW do \in {"replace", "upsert"}, Executing(do),
         NEW s, Own(s, {Parent}), NEW kept \in SUBSET Keyed(Entries),
         Pass(s \o UpdateMany(Parent, kept) \o InsertMany(Parent, Entries \ kept))
  PROVE  PlannedInv'
<1> DEFINE u == UpdateMany(Parent, kept)
           n == InsertMany(Parent, Entries \ kept)
           t == s \o u
<1>1. Own(u, {Parent}) /\ Own(n, {Parent})
  BY ManyOwn
<1>2. Own(t, {Parent}) /\ Range(t) = Range(s) \cup Range(u)
  BY <1>1, OwnConcat
<1>3. ASSUME NEW k, Carries(Head(todo), k)
      PROVE  \E x \in Range(u) \cup Range(n) : Carries(x, k)
  <2>1. PICK e \in Keyed(Entries) : e.key = k
    BY <1>3 DEF Carries, Keys, Entries, Executing
  <2>2. e \in Entries /\ e.keyed
    BY <2>1 DEF Keyed
  <2>3. CASE e \in kept
    BY <2>1, <2>2, <2>3, ManyCarries
  <2>4. CASE e \notin kept
    BY <2>1, <2>2, <2>4, ManyCarries
  <2> QED BY <2>3, <2>4
<1> HIDE DEF u, n, t
<1>4. Own(t \o n, {Parent}) /\ Range(t \o n) = Range(t) \cup Range(n)
  BY <1>1, <1>2, OwnConcat
<1>5. Continue(t \o n) /\ undo' = undo /\ outcome = "running" /\ todo # <<>>
  BY DEF Pass, Executing, t, u, n
<1> QED BY <1>2, <1>3, <1>4, <1>5, ContinuePlanned

LEMMA ChildrenPlanned ==
  ASSUME OwnInv, PlannedInv,
         \/ CheckRefs \/ ReplaceChildren \/ UpsertChildren
         \/ DeleteChildren \/ WriteChild \/ InsertChildren
  PROVE  PlannedInv'
<1>0. Own(<<>>, {Parent}) /\ todo # <<>> /\ outcome = "running"
  BY OwnEmpty DEF CheckRefs, ReplaceChildren, UpsertChildren, DeleteChildren, WriteChild,
                  InsertChildren, Executing
<1>1. CASE CheckRefs
  BY <1>0, <1>1, ThrowPlanned, PlainPlanned DEF CheckRefs, Pass, Errors
<1>2. CASE ReplaceChildren
  <2> DEFINE existing == IF Parent \in DOMAIN current THEN current[Parent]
                         ELSE ChildrenOf(db, Parent)
             kept == {e \in Keyed(Entries) : e.key \in existing}
             orphans == {[key |-> k, keyed |-> TRUE, valid |-> TRUE, full |-> FALSE] :
                           k \in existing \ Keys(kept)}
             s == When(orphans # {}, <<Stmt("delete", Parent, orphans)>>)
  <2>1. Executing("replace") /\ Pass(s \o UpdateMany(Parent, kept) \o InsertMany(Parent, Entries \ kept))
    BY <1>2 DEF ReplaceChildren
  <2>2. Own(s, {Parent})
    BY <1>0, OwnOne DEF When
  <2>3. kept \in SUBSET Keyed(Entries)
    OBVIOUS
  <2> HIDE DEF s, kept
  <2> QED BY <2>1, <2>2, <2>3, SplitPlanned
<1>3. CASE UpsertChildren
  <2> DEFINE stored == {e \in Keyed(Entries) : e.key \in ChildrenOf(db, Parent)}
             u == UpdateMany(Parent, stored)
             n == InsertMany(Parent, Entries \ stored)
  <2>1. Executing("upsert") /\ Pass(u \o n)
    BY <1>3 DEF UpsertChildren
  <2>2. Own(u, {Parent}) /\ Own(n, {Parent})
    BY ManyOwn
  <2>3. u \in Seq(Range(u))
    BY <2>2 DEF Own
  <2>4. <<>> \o u = u
    BY <2>3
  <2>5. Pass(<<>> \o u \o n)
    BY <2>1, <2>4
  <2> QED BY <1>0, <2>1, <2>5, SplitPlanned
<1>4. CASE DeleteChildren
  <2>1. DOMAIN undo \subseteq DOMAIN undo'
    BY <1>4, WriteUndo DEF DeleteChildren
  <2> QED BY <1>0, <1>4, <2>1, PlainPlanned DEF DeleteChildren
<1>5. CASE WriteChild
  <2>1. PICK e \in Entries :
          IF e.key \in ChildrenOf(db, Parent)
          THEN /\ Write([r \in {C(e.key)} |-> [fk |-> Parent, data |-> "new"]])
               /\ Continue(Without(e))
          ELSE IF e.key \in owned THEN Throw("CONFLICT", <<>>) ELSE Pass(Without(e))
    BY <1>5 DEF WriteChild
  <2>2. Executing("update") /\ Head(todo).do = "update"
    BY <1>5 DEF WriteChild, Executing
  <2>3. Own(Without(e), {Parent})
    BY <1>0, OwnOne DEF Without, When
  <2>4. ASSUME NEW k, Carries(Head(todo), k), k # e.key
        PROVE  \E x \in Range(Without(e)) : Carries(x, k)
    <3>1. PICK f \in Keyed(Entries) : f.key = k
      BY <2>2, <2>4 DEF Carries, Keys, Entries
    <3>2. f \in Keyed(Entries \ {e}) /\ Entries # {e}
      BY <2>4, <3>1 DEF Keyed
    <3> DEFINE x == Stmt("update", Parent, Entries \ {e})
    <3>3. Carries(x, k)
      BY <3>1, <3>2 DEF Carries, Stmt, Keys
    <3>4. Without(e) = <<x>>
      BY <2>2, <3>2 DEF Without, When
    <3> HIDE DEF x
    <3> QED BY <3>3, <3>4 DEF Range
  <2>5. CASE e.key \in ChildrenOf(db, Parent)
    <3>1. DOMAIN undo' = DOMAIN undo \cup {C(e.key)}
      BY <2>1, <2>5, WriteOneUndo
    <3> QED BY <1>0, <2>1, <2>3, <2>4, <2>5, <3>1, ContinuePlanned
  <2>6. CASE e.key \notin ChildrenOf(db, Parent) /\ e.key \in owned
    BY <2>1, <2>6, ThrowPlanned DEF Errors
  <2>7. CASE e.key \notin ChildrenOf(db, Parent) /\ e.key \notin owned
    <3>1. Continue(Without(e)) /\ undo' = undo
      BY <2>1, <2>7 DEF Pass
    <3> QED BY <1>0, <2>3, <2>4, <2>7, <3>1, ContinuePlanned
  <2> QED BY <2>5, <2>6, <2>7
<1>6. CASE InsertChildren
  <2> DEFINE S == {C(k) : k \in Keys(Entries)}
  <2>1. CASE \E changes : Throw("CONFLICT", changes)
    BY <2>1, ThrowPlanned DEF Errors
  <2>2. CASE /\ Write([r \in S |-> [fk |-> Parent, data |-> "new"]])
             /\ Continue(<<>>)
    <3>1. DOMAIN undo' = DOMAIN undo \cup S
      BY <2>2, WriteOneUndo
    <3>2. \A k : Carries(Head(todo), k) => C(k) \in S
      BY <1>6 DEF InsertChildren, Executing, Carries, Entries, Keys
    <3> QED BY <1>0, <2>2, <3>1, <3>2, ContinuePlanned
  <2> QED BY <1>6, <2>1, <2>2 DEF InsertChildren, InsertRows
<1> QED BY <1>1, <1>2, <1>3, <1>4, <1>5, <1>6

LEMMA RelatedPlanned ==
  ASSUME OwnInv, PlannedInv,
         \/ WriteOwner \/ WriteTarget \/ InsertTargets \/ ClearLinks
         \/ RemoveLinks \/ CheckLinks \/ InsertLinks
  PROVE  PlannedInv'
<1>0. Own(<<>>, {Parent}) /\ \A e : Own(Without(e), {Parent})
  BY OwnEmpty, OwnOne DEF Without, When
<1>1. \A changes : Write(changes) => DOMAIN undo \subseteq DOMAIN undo'
  BY WriteUndo
<1>2. CASE WriteOwner
  BY <1>0, <1>1, <1>2, PlainPlanned DEF WriteOwner, Pass
<1>3. CASE WriteTarget
  <2>1. PICK e : Continue(Without(e)) /\ (undo' = undo \/ \E changes : Write(changes))
    BY <1>3 DEF WriteTarget, Pass
  <2> QED BY <1>0, <1>1, <1>3, <2>1, PlainPlanned DEF WriteTarget
<1>4. CASE InsertTargets
  BY <1>0, <1>1, <1>4, PlainPlanned DEF InsertTargets
<1>5. CASE ClearLinks
  BY <1>0, <1>1, <1>5, PlainPlanned DEF ClearLinks, Unlink
<1>6. CASE RemoveLinks
  BY <1>0, <1>1, <1>6, PlainPlanned DEF RemoveLinks, Unlink
<1>7. CASE CheckLinks
  BY <1>0, <1>7, ThrowPlanned, PlainPlanned DEF CheckLinks, Pass, Errors
<1>8. CASE InsertLinks
  BY <1>0, <1>1, <1>8, PlainPlanned DEF InsertLinks
<1> QED BY <1>2, <1>3, <1>4, <1>5, <1>6, <1>7, <1>8

(* An insert plans no child: nothing sets `owned`.                         *)
LEMMA InsertPlansNone ==
  ASSUME PlannedInv, call.mode = "insert", CallStep
  PROVE  PlannedInv'
<1>1. ~PlanClaims
  BY PhaseOfInsert DEF PlanClaims
<1>2. \A e, changes : Throw(e, changes) => UNCHANGED <<call, owned>>
  BY DEF Throw
<1>3. \A stmts : Continue(stmts) => UNCHANGED <<call, owned>>
  BY DEF Continue
<1>4. \A errors : Decide(errors) => UNCHANGED <<call, owned>>
  BY <1>2 DEF Decide, Advance
<1>5. UNCHANGED <<call, owned>>
  <2>1. CASE \/ PlanLinks \/ PlanTargets \/ CheckChildRefs \/ PlanTo \/ CheckOwners
             \/ CheckParents
    BY <1>4, <2>1 DEF PlanLinks, PlanTargets, CheckChildRefs, PlanTo, CheckOwners, CheckParents
  <2>2. CASE Pin \/ ReadShared \/ MainDone \/ Finish
    BY <2>2 DEF Pin, ReadShared, MainDone, Finish, Advance
  <2>3. CASE WriteTo \/ InsertTo \/ InsertFrom \/ WriteParent \/ InsertParents
    BY <1>2, <2>3 DEF WriteTo, InsertTo, InsertFrom, InsertRows, WriteParent, InsertParents, Advance
  <2>4. CASE LoadFrom \/ LoadVia
    BY <2>4 DEF LoadFrom, LoadVia, Load, Advance
  <2>5. CASE CheckRefs \/ ReplaceChildren \/ UpsertChildren \/ DeleteChildren \/ CheckLinks
    BY <1>2, <1>3, <2>5 DEF CheckRefs, ReplaceChildren, UpsertChildren, DeleteChildren,
                            CheckLinks, Pass
  <2>6. CASE WriteChild \/ InsertChildren
    BY <1>2, <1>3, <2>6 DEF WriteChild, InsertChildren, InsertRows, Pass
  <2>7. CASE WriteOwner \/ WriteTarget \/ InsertTargets \/ ClearLinks \/ RemoveLinks \/ InsertLinks
    BY <1>3, <2>7 DEF WriteOwner, WriteTarget, InsertTargets, ClearLinks, RemoveLinks,
                      InsertLinks, Unlink, Pass
  <2> QED BY <1>1, <2>1, <2>2, <2>3, <2>4, <2>5, <2>6, <2>7 DEF CallStep
<1> QED BY <1>5 DEF PlannedInv

LEMMA FinishPlanned ==
  ASSUME OwnInv, PlannedInv, call.mode # "insert", Finish
  PROVE  PlannedInv'
<1>1. Len(Phases[call.mode]) = 10
  BY Modes DEF Phases
<1>2. pos > 9 /\ todo = <<>> /\ todo' = todo /\ pos' = pos /\ outcome = "running"
  BY <1>1 DEF Finish, OwnInv
<1>3. \A i, k : ~Pending(i) /\ ~Carried(k)
  BY <1>2 DEF Pending, Carried, Range, OwnInv
<1>4. \A i : ClaimedChildren(i)' = ClaimedChildren(i)
  BY DEF ClaimedChildren, Item, Finish
<1> QED BY <1>2, <1>3, <1>4 DEF PlannedInv, Finish

LEMMA SamePlanned ==
  ASSUME PlannedInv,
         UNCHANGED <<call, owned, matched, undo, pos, next, todo, outcome>>
  PROVE  PlannedInv'
<1>1. \A i : /\ ClaimedChildren(i)' = ClaimedChildren(i)
             /\ Pending(i)' = Pending(i)
             /\ Carried(i)' = Carried(i)
  BY DEF ClaimedChildren, Item, Pending, Carried
<1> QED BY <1>1 DEF PlannedInv

LEMMA StepPlanned == OwnInv /\ PlannedInv /\ OwnInv' /\ [Next]_vars => PlannedInv'
<1> SUFFICES ASSUME OwnInv, PlannedInv, OwnInv', [Next]_vars PROVE PlannedInv'
  OBVIOUS
<1>1. CASE CallStep /\ call.mode = "insert"
  BY <1>1, InsertPlansNone
<1>2. CASE CallStep /\ call.mode # "insert"
  BY <1>2, PlanPlanned, MainPlanned, LoadPlanned, ChildrenPlanned, RelatedPlanned, FinishPlanned
  DEF CallStep
<1>3. CASE Other
  BY <1>3, OtherFrame, SamePlanned
<1>4. CASE UNCHANGED vars
  BY <1>4, SamePlanned DEF vars
<1> QED BY <1>1, <1>2, <1>3, <1>4 DEF Next

(* A call that succeeds has written every child it was planned to write    *)
(* (db-table.ts:1136-1138, 1468, nested-writer.ts:1873-1882).              *)
THEOREM PlannedChildrenAreWritten == Spec => []PlannedChildrenWritten
<1>1. OwnInv /\ PlannedInv => PlannedChildrenWritten
  <2> SUFFICES ASSUME OwnInv, PlannedInv, outcome = "ok"
               PROVE  \A i \in matched : \A k \in ClaimedChildren(i) \cap owned :
                        C(k) \in DOMAIN undo
    BY DEF PlannedChildrenWritten
  <2>1. CASE call.mode = "insert"
    BY <2>1 DEF PlannedInv
  <2>2. CASE call.mode # "insert"
    <3>1. \A i, k : ~Pending(i) /\ ~Carried(k)
      BY <2>2 DEF PlannedInv, OwnInv, Pending, Carried, Range
    <3> QED BY <3>1 DEF PlannedInv
  <2> QED BY <2>1, <2>2
<1> QED BY <1>1, AlwaysOwn, InitPlanned, StepPlanned, PTL DEF Spec

-----------------------------------------------------------------------------
(* Calls the plan refuses                                                  *)

(* The phase in which the plan of a call is over, and what the phases it   *)
(* has passed have found, as long as no other client writes.               *)
LastPlan == IF call.mode = "insert" THEN 2 ELSE 5
Pinned == pinned = [i \in Items |-> db[P(Item(i).parent)]]

Cleared ==
  /\ call.mode = "patch" =>
       /\ pos > 1 => Pinned
       /\ pos > 2 => ClaimErrors = {}
       /\ pos > 3 => LinkErrors = {}
       /\ pos > 4 => TargetErrors = {}
  /\ call.mode = "replace" =>
       /\ pos > 1 => ClaimErrors = {}
       /\ pos > 2 => TargetErrors = {}
       /\ pos > 3 => RefErrors = {}
       /\ pos > 4 => Pinned
  /\ call.mode = "insert" => (pos > 1 => TargetErrors = {})

(* A call the plan refuses never leaves its plan but by an error.          *)
RefusedOK ==
  /\ undo = <<>>
  /\ outcome \in {"running"} \cup Errors
  /\ outcome = "running" => db = start /\ todo = <<>> /\ pos <= LastPlan /\ Cleared

RefuseInv == Undisturbed /\ PlanRefuses(call, start) => RefusedOK

(* Throwing before the first write leaves nothing to undo.                 *)
LEMMA ThrowUndo ==
  ASSUME undo = <<>>, NEW e, Throw(e, <<>>)
  PROVE  undo' = <<>>
<1>1. undo' = undo \/ undo' = [r \in DOMAIN undo \cup DOMAIN <<>> |->
                                 IF r \in DOMAIN undo THEN undo[r] ELSE db[r]]
  BY DEF Throw, Write
<1>2. DOMAIN <<>> = {} /\ 1 .. 0 = {}
  OBVIOUS
<1>3. \A f : f = [x \in {} |-> f[x]] => f = <<>>
  <2> TAKE f
  <2> HAVE f = [x \in {} |-> f[x]]
  <2>1. f \in [1 .. 0 -> {}]
    BY <1>2
  <2>2. f \in Seq({}) /\ Len(f) = 0
    BY <2>1
  <2> QED BY <2>2, EmptySeq
<1>4. CASE undo' # undo
  <2>1. DOMAIN undo' = {}
    BY <1>1, <1>2, <1>4
  <2>2. undo' = [x \in {} |-> undo'[x]]
    BY <1>1, <1>2, <1>4
  <2> QED BY <1>3, <2>2
<1> QED BY <1>4

LEMMA GivenType ==
  ASSUME OwnInv, NEW i \in Items
  PROVE  /\ \A o : Given(Item(i).from, o) \subseteq Entry(Children)
         /\ \A o : Given(Item(i).via, o) \subseteq Entry(Targets)
         /\ call.mode # "patch" => /\ \A o : o # call.mode => Given(Item(i).from, o) = {}
                                   /\ \A o : o # call.mode => Given(Item(i).via, o) = {}
         /\ call.mode \in {"patch", "replace", "insert"}
<1>1. CallOK(call)
  BY CallsAssumption DEF OwnInv
<1>2. OperatorsOK(Item(i).from, Children) /\ OperatorsOK(Item(i).via, Targets)
  BY <1>1 DEF CallOK, Items, Item
<1>3. call.mode # "patch" => DOMAIN Item(i).from \cup DOMAIN Item(i).via \subseteq {call.mode}
  BY <1>1 DEF CallOK, Items, Item
<1>4. \A o : Given(Item(i).from, o) \subseteq Entry(Children)
  BY <1>2 DEF OperatorsOK, Given
<1>5. \A o : Given(Item(i).via, o) \subseteq Entry(Targets)
  BY <1>2 DEF OperatorsOK, Given
<1>6. call.mode # "patch" => \A o : o # call.mode =>
         Given(Item(i).from, o) = {} /\ Given(Item(i).via, o) = {}
  BY <1>3 DEF Given
<1>7. call.mode \in {"patch", "replace", "insert"}
  BY <1>1 DEF CallOK
<1> QED BY <1>4, <1>5, <1>6, <1>7

LEMMA GivenUnion ==
  ASSUME NEW ops, NEW os
  PROVE  \A e : e \in GivenAny(ops, os) <=> \E o \in os : e \in Given(ops, o)
BY DEF GivenAny

(* What the phases of the plan look for is what the contract refuses.      *)
LEMMA ClaimsFound ==
  ASSUME OwnInv, ClaimErrors = {}, NEW i \in Items
  PROVE  /\ \A k \in Named(Item(i).from, {"replace", "update", "upsert"}) :
              ~(db[C(k)] # NoRow /\ db[C(k)].fk # Item(i).parent)
         /\ \A e \in GivenAny(Item(i).from, {"update"}) : e.keyed
<1>1. \A k \in Children : ~\E j \in Items : /\ k \in ClaimedChildren(j)
                                            /\ db[C(k)] # NoRow
                                            /\ db[C(k)].fk # Item(j).parent
  BY DEF ClaimErrors
<1>2. Unkeyed(Given(Item(i).from, "update")) = {}
  BY DEF ClaimErrors
<1>3. Named(Item(i).from, {"replace", "update", "upsert"}) = ClaimedChildren(i)
  BY DEF Named, ClaimedChildren
<1>4. ClaimedChildren(i) \subseteq Children
  <2>1. \A e \in GivenAny(Item(i).from, {"replace", "update", "upsert"}) : e \in Entry(Children)
    BY GivenType, GivenUnion
  <2> QED BY <2>1 DEF ClaimedChildren, Keys, Keyed, Entry
<1>5. \A e \in GivenAny(Item(i).from, {"update"}) : e.keyed
  BY <1>2, GivenUnion DEF Unkeyed
<1> QED BY <1>1, <1>3, <1>4, <1>5

LEMMA LinksFound ==
  ASSUME LinkErrors = {}, NEW i \in Items
  PROVE  /\ \A t \in Named(Item(i).via, {"update", "upsert"}) : db[L(Item(i).parent, t)] # 0
         /\ \A e \in GivenAny(Item(i).via, {"update"}) : e.keyed
<1>1. \A t \in Keys(Keyed(GivenAny(Item(i).via, {"update", "upsert"}))) :
         db[L(Item(i).parent, t)] # 0
  BY DEF LinkErrors
<1>2. Unkeyed(Given(Item(i).via, "update")) = {}
  BY DEF LinkErrors
<1>3. \A e \in GivenAny(Item(i).via, {"update"}) : e.keyed
  BY <1>2, GivenUnion DEF Unkeyed
<1> QED BY <1>1, <1>3 DEF Named

LEMMA TargetsFound ==
  ASSUME TargetErrors = {}, NEW i \in Items
  PROVE  \A t \in Named(Item(i).via, {"replace", "insert"}) : db[T(t)] # NoRow
BY DEF TargetErrors, Named

LEMMA RefsFound ==
  ASSUME RefErrors = {}, NEW i \in Items
  PROVE  \A e \in GivenAny(Item(i).from, Operators) : e.valid
BY DEF RefErrors

(* A PUT or an insert has no operators of its own to check.                *)
LEMMA PlainArrays ==
  ASSUME OwnInv, NEW i \in Items, call.mode # "patch"
  PROVE  /\ GivenAny(Item(i).from, {"update"}) = {}
         /\ GivenAny(Item(i).via, {"update"}) = {}
         /\ Named(Item(i).via, {"update", "upsert"}) = {}
         /\ call.mode = "insert" => Named(Item(i).from, {"replace", "update", "upsert"}) = {}
<1>1. call.mode \in {"replace", "insert"}
  BY GivenType
<1>2. /\ Given(Item(i).from, "update") = {} /\ Given(Item(i).via, "update") = {}
      /\ Given(Item(i).via, "upsert") = {} /\ Given(Item(i).from, "upsert") = {}
      /\ call.mode = "insert" => Given(Item(i).from, "replace") = {}
  BY <1>1, GivenType
<1>3. /\ GivenAny(Item(i).from, {"update"}) = {}
      /\ GivenAny(Item(i).via, {"update"}) = {}
      /\ GivenAny(Item(i).via, {"update", "upsert"}) = {}
      /\ call.mode = "insert" => GivenAny(Item(i).from, {"replace", "update", "upsert"}) = {}
  BY <1>2 DEF GivenAny
<1> QED BY <1>3 DEF Named, Keys, Keyed

LEMMA PatchPlanComplete ==
  ASSUME OwnInv, call.mode = "patch", Pinned, ClaimErrors = {}, LinkErrors = {},
         TargetErrors = {}, ToErrors = {}
  PROVE  ~PlanRefuses(call, db)
<1> SUFFICES ASSUME NEW i \in Items
             PROVE  /\ ~RefusesTo(call, db, Item(i))
                    /\ ~RefusesFrom(call, db, Item(i))
                    /\ ~RefusesVia(call, db, Item(i))
  BY DEF PlanRefuses, Items, Item
<1>1. ~RefusesTo(call, db, Item(i))
  <2> SUFFICES ASSUME Item(i).to # Null, db[P(Item(i).parent)] # NoRow
               PROVE  /\ db[P(Item(i).parent)].owner # Null
                      /\ Item(i).to \in {"unnamed", db[P(Item(i).parent)].owner}
    BY DEF RefusesTo, Exists
  <2>1. pinned[i] = db[P(Item(i).parent)]
    BY DEF Pinned
  <2> QED BY <2>1 DEF ToErrors
<1>2. ~RefusesFrom(call, db, Item(i))
  BY ClaimsFound DEF RefusesFrom
<1>3. ~RefusesVia(call, db, Item(i))
  BY LinksFound, TargetsFound DEF RefusesVia
<1> QED BY <1>1, <1>2, <1>3

LEMMA ReplacePlanComplete ==
  ASSUME OwnInv, call.mode = "replace", Pinned, ClaimErrors = {}, TargetErrors = {},
         RefErrors = {}, ~ReplacesUnnamedOwner
  PROVE  ~PlanRefuses(call, db)
<1> SUFFICES ASSUME NEW i \in Items
             PROVE  /\ ~RefusesTo(call, db, Item(i))
                    /\ ~RefusesFrom(call, db, Item(i))
                    /\ ~RefusesVia(call, db, Item(i))
  BY DEF PlanRefuses, Items, Item
<1>1. ~RefusesTo(call, db, Item(i))
  <2>1. pinned[i] = db[P(Item(i).parent)]
    BY DEF Pinned
  <2>2. ~(KeepsTo(i) /\ Item(i).to = "unnamed")
    BY DEF ReplacesUnnamedOwner
  <2> QED BY <2>1, <2>2 DEF RefusesTo, Reaches, Exists, KeepsTo
<1>2. ~RefusesFrom(call, db, Item(i))
  BY ClaimsFound, RefsFound DEF RefusesFrom
<1>3. ~RefusesVia(call, db, Item(i))
  BY PlainArrays, TargetsFound DEF RefusesVia
<1> QED BY <1>1, <1>2, <1>3

LEMMA InsertPlanComplete ==
  ASSUME OwnInv, call.mode = "insert", TargetErrors = {}, RefErrors = {}
  PROVE  ~PlanRefuses(call, db)
<1> SUFFICES ASSUME NEW i \in Items
             PROVE  /\ ~RefusesTo(call, db, Item(i))
                    /\ ~RefusesFrom(call, db, Item(i))
                    /\ ~RefusesVia(call, db, Item(i))
  BY DEF PlanRefuses, Items, Item
<1>1. ~RefusesTo(call, db, Item(i))
  BY DEF RefusesTo
<1>2. ~RefusesFrom(call, db, Item(i))
  BY PlainArrays, RefsFound DEF RefusesFrom
<1>3. ~RefusesVia(call, db, Item(i))
  BY PlainArrays, TargetsFound DEF RefusesVia
<1> QED BY <1>1, <1>2, <1>3

(* Where a call stands while it plans.                                     *)
LEMMA PlanPhase ==
  ASSUME call.mode \in {"patch", "replace", "insert"}, NEW phase, In(phase), pos <= LastPlan
  PROVE  /\ call.mode = "patch" =>
              <<pos, phase>> \in {<<1, "pin">>, <<2, "claims">>, <<3, "links">>,
                                  <<4, "targets">>, <<5, "planTo">>}
         /\ call.mode = "replace" =>
              <<pos, phase>> \in {<<1, "claims">>, <<2, "targets">>, <<3, "refs">>,
                                  <<4, "pin">>, <<5, "to">>}
         /\ call.mode = "insert" =>
              <<pos, phase>> \in {<<1, "targets">>, <<2, "refs">>}
<1>1. CASE call.mode = "patch"
  <2>1. Phases[call.mode] = <<"pin", "claims", "links", "targets", "planTo", "main", "to",
                               "shared", "from", "via">>
    BY <1>1 DEF Phases
  <2>2. pos \in 1 .. 5 /\ Phases[call.mode][pos] = phase
    BY <1>1, <2>1 DEF In, LastPlan
  <2> QED BY <1>1, <2>1, <2>2
<1>2. CASE call.mode = "replace"
  <2>1. Phases[call.mode] = <<"claims", "targets", "refs", "pin", "to", "owners", "main",
                               "shared", "from", "via">>
    BY <1>2 DEF Phases
  <2>2. pos \in 1 .. 5 /\ Phases[call.mode][pos] = phase
    BY <1>2, <2>1 DEF In, LastPlan
  <2> QED BY <1>2, <2>1, <2>2
<1>3. CASE call.mode = "insert"
  <2>1. Phases[call.mode] = <<"targets", "refs", "to", "owners", "main", "childRefs",
                               "from", "via">>
    BY <1>3 DEF Phases
  <2>2. pos \in 1 .. 2 /\ Phases[call.mode][pos] = phase
    BY <1>3, <2>1 DEF In, LastPlan
  <2> QED BY <1>3, <2>1, <2>2
<1> QED BY <1>1, <1>2, <1>3

(* Errors of the plan are found anew as long as nothing is written.        *)
LEMMA SameErrors ==
  ASSUME UNCHANGED <<call, db>>
  PROVE  /\ ClaimErrors' = ClaimErrors /\ LinkErrors' = LinkErrors
         /\ TargetErrors' = TargetErrors /\ RefErrors' = RefErrors
         /\ UNCHANGED pinned => Pinned' = Pinned
         /\ LastPlan' = LastPlan
BY DEF ClaimErrors, LinkErrors, TargetErrors, RefErrors, Pinned, LastPlan, Items, Item,
       ClaimedChildren

LEMMA ThrowRefused ==
  ASSUME RefusedOK, NEW e \in Errors, Throw(e, <<>>)
  PROVE  RefusedOK'
<1>1. undo' = <<>>
  BY ThrowUndo DEF RefusedOK
<1>2. outcome' = e /\ e # "running"
  BY DEF Throw, Errors
<1> QED BY <1>1, <1>2 DEF RefusedOK

(* A refused call that goes on is not at the end of its plan, and has      *)
(* passed one more phase.                                                  *)
LEMMA AdvanceRefused ==
  ASSUME OwnInv, RefusedOK, PlanRefuses(call, db), outcome = "running",
         Advance, UNCHANGED <<db, undo, todo>>,
         Cleared /\ pos <= LastPlan,
         \/ call.mode = "patch" /\
              \/ pos = 1 /\ Pinned'
              \/ pos = 2 /\ ClaimErrors = {} /\ UNCHANGED pinned
              \/ pos = 3 /\ LinkErrors = {} /\ UNCHANGED pinned
              \/ pos = 4 /\ TargetErrors = {} /\ UNCHANGED pinned
              \/ pos = 5 /\ ToErrors = {} /\ UNCHANGED pinned
         \/ call.mode = "replace" /\
              \/ pos = 1 /\ ClaimErrors = {}
              \/ pos = 2 /\ TargetErrors = {}
              \/ pos = 3 /\ RefErrors = {}
              \/ pos = 4 /\ Pinned'
              \/ pos = 5 /\ ~ReplacesUnnamedOwner /\ UNCHANGED pinned
         \/ call.mode = "insert" /\
              \/ pos = 1 /\ TargetErrors = {}
              \/ pos = 2 /\ RefErrors = {}
  PROVE  RefusedOK'
<1>1. UNCHANGED <<call, db, start, outcome, undo, todo>> /\ pos' = pos + 1
  BY DEF Advance
<1>2. pos # LastPlan
  BY PatchPlanComplete, ReplacePlanComplete, InsertPlanComplete DEF Cleared, LastPlan
<1>3. pos' <= LastPlan
  BY <1>1, <1>2 DEF OwnInv, LastPlan
<1>4. Cleared'
  BY <1>1, <1>2, SameErrors DEF Cleared, LastPlan
<1>5. LastPlan' = LastPlan
  BY <1>1, SameErrors
<1> QED BY <1>1, <1>3, <1>4, <1>5 DEF RefusedOK

LEMMA RefuseStep ==
  ASSUME OwnInv, RefusedOK, PlanRefuses(call, start), CallStep
  PROVE  RefusedOK'
<1>1. outcome = "running"
  BY DEF CallStep, Pin, PlanClaims, PlanLinks, PlanTargets, CheckChildRefs, PlanTo, WriteTo,
         InsertTo, CheckOwners, WriteParent, InsertParents, MainDone, ReadShared, LoadFrom,
         CheckParents, InsertFrom, LoadVia, Load, CheckRefs, ReplaceChildren, UpsertChildren,
         DeleteChildren, WriteChild, InsertChildren, WriteOwner, WriteTarget, InsertTargets,
         ClearLinks, RemoveLinks, CheckLinks, InsertLinks, Finish, In, Executing
<1>2. /\ PlanRefuses(call, db) /\ todo = <<>> /\ pos <= LastPlan /\ Cleared
      /\ CallOK(call) /\ call.mode \in {"patch", "replace", "insert"}
  BY <1>1, CallsAssumption DEF RefusedOK, OwnInv, CallOK
<1>3. ASSUME NEW phase, In(phase)
      PROVE  phase \notin {"main", "owners", "shared", "from", "via", "childRefs"}
             /\ (phase = "to" => call.mode = "replace")
  BY <1>2, <1>3, PlanPhase
<1>4. CASE Pin
  <2>1. Pinned' /\ In("pin") /\ Advance /\ UNCHANGED <<db, undo, todo>>
    BY <1>4 DEF Pin, Pinned, Items, Item, Advance
  <2>2. (call.mode = "patch" /\ pos = 1) \/ (call.mode = "replace" /\ pos = 4)
    BY <1>2, <2>1, PlanPhase
  <2> QED BY <1>1, <1>2, <2>1, <2>2, AdvanceRefused
<1>5. CASE PlanClaims
  <2>1. CASE ClaimErrors # {}
    <3>1. ClaimErrors \subseteq Errors
      BY DEF ClaimErrors, Errors
    <3> QED BY <1>5, <2>1, <3>1, ThrowRefused DEF PlanClaims
  <2>2. CASE ClaimErrors = {}
    <3>1. In("claims") /\ Advance /\ UNCHANGED <<db, undo, todo, pinned>>
      BY <1>5, <2>2 DEF PlanClaims
    <3>2. (call.mode = "patch" /\ pos = 2) \/ (call.mode = "replace" /\ pos = 1)
      BY <1>2, <3>1, PlanPhase
    <3> QED BY <1>1, <1>2, <2>2, <3>1, <3>2, AdvanceRefused
  <2> QED BY <2>1, <2>2
<1>6. ASSUME NEW errors, errors \subseteq Errors, Decide(errors)
      PROVE  \/ RefusedOK'
             \/ errors = {} /\ Advance /\ UNCHANGED <<db, undo, todo, pinned>>
  BY <1>6, ThrowRefused DEF Decide
<1>7. CASE PlanLinks
  <2>1. In("links") /\ LinkErrors \subseteq Errors
    BY <1>7 DEF PlanLinks, LinkErrors, Errors
  <2>2. call.mode = "patch" /\ pos = 3
    BY <1>2, <2>1, PlanPhase
  <2>3. \/ RefusedOK'
        \/ LinkErrors = {} /\ Advance /\ UNCHANGED <<db, undo, todo, pinned>>
    BY <1>6, <1>7, <2>1 DEF PlanLinks
  <2> QED BY <1>1, <1>2, <2>2, <2>3, AdvanceRefused
<1>8. CASE PlanTargets
  <2>1. In("targets") /\ TargetErrors \subseteq Errors
    BY <1>8 DEF PlanTargets, TargetErrors, Errors
  <2>2. \/ call.mode = "patch" /\ pos = 4
        \/ call.mode = "replace" /\ pos = 2
        \/ call.mode = "insert" /\ pos = 1
    BY <1>2, <2>1, PlanPhase
  <2>3. \/ RefusedOK'
        \/ TargetErrors = {} /\ Advance /\ UNCHANGED <<db, undo, todo, pinned>>
    BY <1>6, <1>8, <2>1 DEF PlanTargets
  <2> QED BY <1>1, <1>2, <2>2, <2>3, AdvanceRefused
<1>9. CASE CheckChildRefs
  <2>1. In("refs") /\ RefErrors \subseteq Errors
    BY <1>9 DEF CheckChildRefs, RefErrors, Errors
  <2>2. (call.mode = "replace" /\ pos = 3) \/ (call.mode = "insert" /\ pos = 2)
    BY <1>2, <2>1, PlanPhase
  <2>3. \/ RefusedOK'
        \/ RefErrors = {} /\ Advance /\ UNCHANGED <<db, undo, todo, pinned>>
    BY <1>6, <1>9, <2>1 DEF CheckChildRefs
  <2> QED BY <1>1, <1>2, <2>2, <2>3, AdvanceRefused
<1>10. CASE PlanTo
  <2>1. In("planTo") /\ ToErrors \subseteq Errors
    BY <1>10 DEF PlanTo, ToErrors, Errors
  <2>2. call.mode = "patch" /\ pos = 5
    BY <1>2, <2>1, PlanPhase
  <2>3. \/ RefusedOK'
        \/ ToErrors = {} /\ Advance /\ UNCHANGED <<db, undo, todo, pinned>>
    BY <1>6, <1>10, <2>1 DEF PlanTo
  <2> QED BY <1>1, <1>2, <2>2, <2>3, AdvanceRefused
<1>11. CASE WriteTo
  <2>1. In("to")
    BY <1>11 DEF WriteTo
  <2>2. call.mode = "replace" /\ pos = 5
    BY <1>2, <1>3, <2>1, PlanPhase
  <2>3. ReplacesUnnamedOwner
    BY <1>2, <2>2, ReplacePlanComplete DEF Cleared
  <2>4. Throw("INVALID_QUERY", <<>>) /\ "INVALID_QUERY" \in Errors
    BY <1>11, <2>3 DEF WriteTo, Errors
  <2> QED BY <2>4, ThrowRefused
<1>12. CASE InsertTo \/ CheckOwners \/ WriteParent \/ InsertParents \/ MainDone \/ ReadShared
            \/ LoadFrom \/ CheckParents \/ InsertFrom \/ LoadVia
  BY <1>3, <1>12 DEF InsertTo, CheckOwners, WriteParent, InsertParents, MainDone, ReadShared,
                     LoadFrom, CheckParents, InsertFrom, LoadVia, Load
<1>13. CASE CheckRefs \/ ReplaceChildren \/ UpsertChildren \/ DeleteChildren \/ WriteChild
            \/ InsertChildren \/ WriteOwner \/ WriteTarget \/ InsertTargets \/ ClearLinks
            \/ RemoveLinks \/ CheckLinks \/ InsertLinks
  BY <1>2, <1>13 DEF CheckRefs, ReplaceChildren, UpsertChildren, DeleteChildren, WriteChild,
                     InsertChildren, WriteOwner, WriteTarget, InsertTargets, ClearLinks,
                     RemoveLinks, CheckLinks, InsertLinks, Executing
<1>14. CASE Finish
  <2>1. pos > Len(Phases[call.mode])
    BY <1>14 DEF Finish
  <2>2. pos \in Nat /\ pos <= 5
    BY <1>2 DEF LastPlan, OwnInv
  <2>3. CASE call.mode = "patch"
    <3>1. Phases[call.mode] = <<"pin", "claims", "links", "targets", "planTo", "main", "to",
                                "shared", "from", "via">>
      BY <2>3 DEF Phases
    <3>2. Len(Phases[call.mode]) = 10
      BY <3>1
    <3> QED BY <2>1, <2>2, <3>2
  <2>4. CASE call.mode = "replace"
    <3>1. Phases[call.mode] = <<"claims", "targets", "refs", "pin", "to", "owners", "main",
                                "shared", "from", "via">>
      BY <2>4 DEF Phases
    <3>2. Len(Phases[call.mode]) = 10
      BY <3>1
    <3> QED BY <2>1, <2>2, <3>2
  <2>5. CASE call.mode = "insert"
    <3>1. Phases[call.mode] = <<"targets", "refs", "to", "owners", "main", "childRefs", "from",
                                "via">>
      BY <2>5 DEF Phases
    <3>2. Len(Phases[call.mode]) = 8
      BY <3>1
    <3> QED BY <2>1, <2>2, <3>2
  <2> QED BY <1>2, <2>3, <2>4, <2>5
<1> QED BY <1>4, <1>5, <1>7, <1>8, <1>9, <1>10, <1>11, <1>12, <1>13, <1>14 DEF CallStep

(* A call that the contract refuses writes nothing and does not succeed,   *)
(* for any tables, batches and stored rows, with and without transactions, *)
(* as long as no other client writes before it ends                        *)
(* (nested-writer.ts:926-945).                                             *)
THEOREM RefusalsWriteNothing == Spec => []RefusedBeforeFirstWrite
<1>1. Init => RefuseInv
  BY DEF Init, RefuseInv, RefusedOK, LastPlan, Cleared
<1>2. OwnInv /\ RefuseInv /\ [Next]_vars => RefuseInv'
  <2> SUFFICES ASSUME OwnInv, RefuseInv, [Next]_vars, (Undisturbed /\ PlanRefuses(call, start))'
               PROVE  RefusedOK'
    BY DEF RefuseInv
  <2>1. CASE CallStep
    <3>1. UNCHANGED <<call, start, others>>
      BY <2>1 DEF CallStep, Pin, PlanClaims, PlanLinks, PlanTargets, CheckChildRefs, PlanTo,
         WriteTo, InsertTo, CheckOwners, WriteParent, InsertParents, MainDone, ReadShared,
         LoadFrom, CheckParents, InsertFrom, LoadVia, Load, CheckRefs, ReplaceChildren,
         UpsertChildren, DeleteChildren, WriteChild, InsertChildren, WriteOwner, WriteTarget,
         InsertTargets, ClearLinks, RemoveLinks, CheckLinks, InsertLinks, Finish, Unlink,
         Decide, Throw, Advance, Continue, Pass, InsertRows
    <3>2. RefusedOK /\ PlanRefuses(call, start)
      BY <3>1 DEF RefuseInv, Undisturbed
    <3> QED BY <2>1, <3>2, RefuseStep
  <2>2. CASE Other
    BY <2>2, OtherFrame DEF Undisturbed, OwnInv
  <2>3. CASE UNCHANGED vars
    <3>1. UNCHANGED <<call, db, undo, pos, todo, pinned, outcome, start, others>>
      BY <2>3 DEF vars
    <3>2. RefusedOK
      BY <3>1 DEF RefuseInv, Undisturbed
    <3>3. LastPlan' = LastPlan /\ Cleared' = Cleared
      BY <3>1, SameErrors DEF Cleared
    <3> QED BY <3>1, <3>2, <3>3 DEF RefusedOK
  <2> QED BY <2>1, <2>2, <2>3 DEF Next
<1>3. RefuseInv => RefusedBeforeFirstWrite
  BY DEF RefuseInv, RefusedOK, RefusedBeforeFirstWrite, Errors
<1> QED BY <1>1, <1>2, <1>3, InitOwn, StepOwn, PTL DEF Spec
=============================================================================
