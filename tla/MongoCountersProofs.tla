------------------------ MODULE MongoCountersProofs ------------------------
(* Proofs about MongoCounters, for any workers, plans, start values, stored*)
(* rows and bounds.                                                        *)
EXTENDS MongoCounters, FiniteSetTheorems, SequenceTheorems, TLAPS

-----------------------------------------------------------------------------
(* The inductive invariant *)

RowsOK ==
  /\ mine = [w \in Workers |-> mine[w]]
  /\ view = [w \in Workers |-> view[w]]
  /\ \A w \in Workers : DOMAIN mine[w] \subseteq Nat /\ view[w] \subseteq SUBSET Nat

(* The counter is never behind a value it has handed out.                  *)
SeqCovers ==
  \A r \in ranges : 1 <= r.first /\ r.first <= r.last /\ r.last <= seq

(* At most one worker seeds, and what others got meanwhile is above its    *)
(* own `$inc`.                                                             *)
SeedingIsAlone ==
  \A w \in Workers : Seeding(w) =>
    /\ 1 <= Count(w) /\ Count(w) <= seq
    /\ \A r \in ranges : r.kind = "early" /\ r.first > Count(w)
    /\ \A x \in Workers : Seeding(x) => x = w
    /\ pc[w] = "reseed" => /\ range[w].kind = "seeded"
                           /\ 1 <= range[w].first
                           /\ range[w].first <= range[w].last

RangesInv == SeqCovers /\ SeedingIsAlone /\ RangesOverlapOnlyAtSeed

IInv == TypeOK /\ RowsOK /\ RangesInv

-----------------------------------------------------------------------------
(* Types *)

LEMMA PlanType ==
  ASSUME TypeOK, NEW w \in Workers
  PROVE  /\ task[w] \in Task
         /\ DOMAIN task[w].batches = 1..Len(task[w].batches)
         /\ Len(task[w].batches) \in Nat \ {0}
         /\ Batch(w) \in Seq(Nat)
BY PlansAssumption DEF TypeOK, Task, Batch

LEMMA CountType ==
  ASSUME TypeOK, NEW w \in Workers
  PROVE  Count(w) \in Nat
<1>1. DOMAIN Batch(w) = 1..Len(Batch(w)) /\ Len(Batch(w)) \in Nat
  BY PlanType
<1>2. IsFiniteSet(DOMAIN Batch(w))
  BY <1>1, FS_Interval
<1>3. IsFiniteSet({k \in DOMAIN Batch(w) : Batch(w)[k] = Gen})
  BY <1>2, FS_Subset
<1> QED
  BY <1>3, FS_CardinalityType DEF Count

LEMMA ValueType ==
  ASSUME TypeOK, NEW w \in Workers, NEW k \in DOMAIN Batch(w)
  PROVE  Value(w, k) \in Nat
<1>1. Batch(w)[k] \in Nat /\ k \in Nat
  BY PlanType
<1>2. IsFiniteSet(1..(k - 1))
  BY <1>1, FS_Interval
<1>3. IsFiniteSet({j \in 1..(k - 1) : Batch(w)[j] = Gen})
  BY <1>2, FS_Subset
<1>4. Cardinality({j \in 1..(k - 1) : Batch(w)[j] = Gen}) \in Nat
  BY <1>3, FS_CardinalityType
<1>5. range[w].first \in Nat
  BY DEF TypeOK, Ranges
<1> QED
  BY <1>1, <1>4, <1>5 DEF Value

LEMMA SeenType ==
  ASSUME TypeOK, RowsOK, NEW w \in Workers
  PROVE  Seen(w) \subseteq Nat
BY DEF TypeOK, RowsOK, Seen

LEMMA SnapshotOK ==
  ASSUME TypeOK, RowsOK, NEW w \in Workers, Snapshot(w)
  PROVE  /\ view' = [x \in Workers |-> view'[x]]
         /\ \A x \in Workers : view'[x] \subseteq SUBSET Nat
BY DEF TypeOK, RowsOK, Snapshot

-----------------------------------------------------------------------------
(* Ranges *)

(* Steps that hand nothing out and start no seeding.                       *)
LEMMA QuietKeepsRanges ==
  ASSUME RangesInv, UNCHANGED <<seq, range, ranges, task>>,
         \A x \in Workers : Seeding(x)' => pc'[x] = pc[x] /\ call'[x] = call[x]
  PROVE  RangesInv'
<1>1. \A x \in Workers : Seeding(x)' => Seeding(x) /\ Count(x)' = Count(x)
  BY DEF Seeding, Count, Batch
<1>2. SeqCovers'
  BY DEF RangesInv, SeqCovers
<1>3. SeedingIsAlone'
  BY <1>1 DEF RangesInv, SeedingIsAlone
<1>4. RangesOverlapOnlyAtSeed'
  BY DEF RangesInv, RangesOverlapOnlyAtSeed, Overlap
<1> QED
  BY <1>2, <1>3, <1>4 DEF RangesInv

(* Handing out a range above all the others.                               *)
LEMMA HandOutAbove ==
  ASSUME TypeOK, RangesInv, NEW w \in Workers, NEW r \in Ranges,
         HandOut(w, r),
         UNCHANGED <<call, task>>,
         seq' \in Nat, seq <= seq', r.last = seq', seq < r.first, r.first <= r.last,
         ~Seeding(w),
         (\E x \in Workers : Seeding(x)) => r.kind = "early"
  PROVE  RangesInv'
<1>1. ranges' = ranges \cup {r} /\ seq \in Nat /\ ranges \subseteq Ranges
  BY DEF HandOut, TypeOK
<1>2. r.first \in Nat /\ r.last \in Nat /\ \A a \in ranges : a.first \in Nat /\ a.last \in Nat
  BY <1>1 DEF Ranges
<1>3. SeqCovers'
  BY <1>1, <1>2 DEF RangesInv, SeqCovers
<1>4. RangesOverlapOnlyAtSeed'
  <2>1. \A a \in ranges : ~Overlap(a, r) /\ ~Overlap(r, a)
    BY <1>1, <1>2 DEF RangesInv, SeqCovers, Overlap
  <2> QED
    BY <1>1, <2>1 DEF RangesInv, RangesOverlapOnlyAtSeed
<1>5. SeedingIsAlone'
  <2>1. \A x \in Workers : Seeding(x)' => x # w
    BY DEF HandOut, Goto, Inserting, Seeding, TypeOK
  <2>2. \A x \in Workers : x # w =>
          pc'[x] = pc[x] /\ range'[x] = range[x] /\ Count(x)' = Count(x)
    BY DEF HandOut, Goto, TypeOK, Count, Batch
  <2>3. \A x \in Workers : Seeding(x)' =>
          x # w /\ Seeding(x) /\ pc'[x] = pc[x] /\ range'[x] = range[x] /\ Count(x)' = Count(x)
    BY <2>1, <2>2 DEF Seeding
  <2>4. \A x \in Workers : Count(x) \in Nat
    BY CountType
  <2> QED
    BY <1>1, <1>2, <2>3, <2>4 DEF RangesInv, SeedingIsAlone
<1> QED
  BY <1>3, <1>4, <1>5 DEF RangesInv

LEMMA AdvanceKeepsRanges ==
  ASSUME IInv, NEW w \in Workers, Advance(w)
  PROVE  RangesInv'
<1> DEFINE count == Count(w)
<1>1. count \in Nat /\ count > 0 /\ seq \in Nat /\ seq' = seq + count /\ ~Seeding(w)
  BY CountType DEF Advance, IInv, TypeOK, Seeding
<1>2. UNCHANGED <<call, task>>
  BY DEF Advance
<1>3. CASE seq' # count
  <2>1. PICK r : r = Block(seq + 1, count, KindNow) /\ HandOut(w, r)
    BY <1>3 DEF Advance
  <2>2. r.first = seq + 1 /\ r.last = seq' /\ r.kind = KindNow
    BY <1>1, <2>1 DEF Block
  <2>3. KindNow \in Kinds /\ ((\E x \in Workers : Seeding(x)) => KindNow = "early")
    BY DEF KindNow, Kinds
  <2>4. r \in Ranges
    BY <1>1, <2>1, <2>3 DEF Block, Ranges
  <2> QED
    BY <1>1, <1>2, <2>1, <2>2, <2>3, <2>4, HandOutAbove DEF IInv
<1>4. CASE seq' = count
  <2>1. UNCHANGED <<range, ranges>> /\ Goto(w, "max")
    BY <1>4 DEF Advance
  <2>2. ranges = {}
    BY <1>1, <1>4 DEF IInv, RangesInv, SeqCovers, TypeOK, Ranges
  <2>3. \A x \in Workers : ~Seeding(x)
    <3> SUFFICES ASSUME NEW x \in Workers, Seeding(x) PROVE FALSE
      OBVIOUS
    <3>1. Count(x) \in Nat /\ 1 <= Count(x) /\ Count(x) <= seq
      BY CountType DEF IInv, RangesInv, SeedingIsAlone
    <3> QED
      BY <1>1, <1>4, <3>1
  <2>4. \A x \in Workers : Seeding(x)' => x = w
    BY <2>1, <2>3 DEF Goto, Seeding, IInv, TypeOK
  <2>5. pc'[w] = "max" /\ Count(w)' = count
    BY <1>2, <2>1 DEF Goto, IInv, TypeOK, Count, Batch
  <2>6. SeedingIsAlone'
    BY <1>1, <1>4, <2>1, <2>2, <2>4, <2>5 DEF SeedingIsAlone
  <2> QED
    BY <2>1, <2>2, <2>6 DEF RangesInv, SeqCovers, RangesOverlapOnlyAtSeed
<1> QED
  BY <1>3, <1>4

(* The seeding worker is done: nobody seeds any more.                      *)
LEMMA SeederHandsOut ==
  ASSUME TypeOK, RangesInv, NEW w \in Workers, Seeding(w), NEW r,
         HandOut(w, r)
  PROVE  SeedingIsAlone'
<1>1. \A x \in Workers : Seeding(x) => x = w
  BY DEF RangesInv, SeedingIsAlone
<1>2. \A x \in Workers : ~Seeding(x)'
  BY <1>1 DEF HandOut, Goto, Inserting, Seeding, TypeOK
<1> QED
  BY <1>2 DEF SeedingIsAlone

LEMMA ReadMaxKeepsRanges ==
  ASSUME IInv, NEW w \in Workers, ReadMax(w)
  PROVE  RangesInv'
<1> DEFINE count == Count(w)
<1>1. count \in Nat /\ Seeding(w) /\ seq \in Nat /\ UNCHANGED <<seq, call, task>>
  BY CountType DEF ReadMax, IInv, TypeOK, Seeding
<1>2. /\ 1 <= count /\ count <= seq
      /\ \A r \in ranges : r.kind = "early" /\ r.first > count
      /\ \A x \in Workers : Seeding(x) => x = w
  BY <1>1 DEF IInv, RangesInv, SeedingIsAlone
<1>3. PICK max \in Seen(w) \cup {0} :
        LET base == IF max + 1 > start THEN max + 1 ELSE start IN
          IF base > Count(w)
          THEN /\ range' = [range EXCEPT ![w] = Block(base, Count(w), "seeded")]
               /\ Goto(w, "reseed")
               /\ UNCHANGED ranges
          ELSE HandOut(w, Block(1, Count(w), "plain"))
  BY DEF ReadMax
<1> DEFINE base == IF max + 1 > start THEN max + 1 ELSE start
<1>4. base \in Nat
  BY SeenType, StartsAssumption DEF IInv, TypeOK
<1>5. CASE base > count
  <2>1. /\ range' = [range EXCEPT ![w] = Block(base, count, "seeded")]
        /\ Goto(w, "reseed")
        /\ UNCHANGED ranges
    BY <1>3, <1>5
  <2>2. SeqCovers' /\ RangesOverlapOnlyAtSeed'
    BY <1>1, <2>1 DEF IInv, RangesInv, SeqCovers, RangesOverlapOnlyAtSeed, Overlap
  <2>3. \A x \in Workers : Seeding(x)' => x = w
    BY <1>2, <2>1 DEF Goto, Seeding, IInv, TypeOK
  <2>4. Count(w)' = count /\ range'[w] = Block(base, count, "seeded")
    BY <1>1, <2>1 DEF IInv, TypeOK, Count, Batch
  <2>5. /\ range'[w].kind = "seeded"
        /\ 1 <= range'[w].first
        /\ range'[w].first <= range'[w].last
    BY <1>1, <1>2, <1>4, <1>5, <2>4 DEF Block
  <2>6. SeedingIsAlone'
    BY <1>1, <1>2, <2>1, <2>3, <2>4, <2>5 DEF SeedingIsAlone
  <2> QED
    BY <2>2, <2>6 DEF RangesInv
<1>6. CASE ~(base > count)
  <2> DEFINE r == Block(1, count, "plain")
  <2>1. HandOut(w, r)
    BY <1>3, <1>6
  <2>2. r.first = 1 /\ r.last = count /\ r.kind = "plain" /\ ranges' = ranges \cup {r}
    BY <1>1, <2>1 DEF Block, HandOut
  <2>3. SeqCovers'
    BY <1>1, <1>2, <2>2 DEF IInv, RangesInv, SeqCovers
  <2>4. \A a \in ranges : ~Overlap(a, r) /\ ~Overlap(r, a)
    BY <1>1, <1>2, <2>2 DEF Overlap, IInv, TypeOK, Ranges
  <2>5. RangesOverlapOnlyAtSeed'
    BY <2>2, <2>4 DEF IInv, RangesInv, RangesOverlapOnlyAtSeed
  <2>6. SeedingIsAlone'
    BY <1>1, <2>1, SeederHandsOut DEF IInv
  <2> QED
    BY <2>3, <2>5, <2>6 DEF RangesInv
<1> QED
  BY <1>5, <1>6

LEMMA ReseedKeepsRanges ==
  ASSUME IInv, NEW w \in Workers, Reseed(w)
  PROVE  RangesInv'
<1> DEFINE r == range[w]
<1>1. Seeding(w) /\ seq \in Nat /\ r \in Ranges /\ HandOut(w, r)
  BY DEF Reseed, IInv, TypeOK, Seeding
<1>2. /\ \A a \in ranges : a.kind = "early"
      /\ r.kind = "seeded" /\ 1 <= r.first /\ r.first <= r.last
  BY <1>1 DEF Reseed, IInv, RangesInv, SeedingIsAlone
<1>3. ranges' = ranges \cup {r} /\ seq' = IF r.last > seq THEN r.last ELSE seq
  BY <1>1 DEF Reseed, HandOut
<1>4. r.last \in Nat /\ ranges \subseteq Ranges
  BY <1>1 DEF Ranges, IInv, TypeOK
<1>5. SeqCovers'
  BY <1>1, <1>2, <1>3, <1>4 DEF IInv, RangesInv, SeqCovers, Ranges
<1>6. RangesOverlapOnlyAtSeed'
  <2> SUFFICES ASSUME NEW a \in ranges', NEW b \in ranges', a # b, Overlap(a, b)
               PROVE  {a.kind, b.kind} = {"seeded", "early"}
    BY DEF RangesOverlapOnlyAtSeed
  <2>1. CASE a \in ranges /\ b \in ranges
    BY <2>1 DEF IInv, RangesInv, RangesOverlapOnlyAtSeed
  <2>2. CASE a = r /\ b \in ranges
    BY <1>2, <2>2
  <2>3. CASE b = r /\ a \in ranges
    BY <1>2, <2>3
  <2> QED
    BY <1>3, <2>1, <2>2, <2>3
<1>7. SeedingIsAlone'
  BY <1>1, SeederHandsOut DEF IInv
<1> QED
  BY <1>5, <1>6, <1>7 DEF RangesInv

-----------------------------------------------------------------------------
(* The rows, and the types of each step *)

LEMMA RowsStep ==
  ASSUME IInv, NEW w \in Workers,
         \/ NothingToAssign(w) \/ Advance(w) \/ ReadMax(w) \/ Reseed(w)
         \/ FindStored(w) \/ SkipDocument(w) \/ InsertPlain(w) \/ InsertInTx(w)
         \/ EndCall(w) \/ Commit(w) \/ Fail(w)
  PROVE  RowsOK'
<1> USE DEF IInv
<1>1. CASE NothingToAssign(w) \/ Advance(w) \/ Reseed(w) \/ SkipDocument(w) \/ EndCall(w)
  BY <1>1 DEF NothingToAssign, Advance, Reseed, SkipDocument, EndCall, RowsOK
<1>2. CASE ReadMax(w) \/ FindStored(w)
  <2>1. Snapshot(w) /\ UNCHANGED mine
    BY <1>2 DEF ReadMax, FindStored
  <2> QED
    BY <2>1, SnapshotOK DEF RowsOK
<1>3. CASE InsertPlain(w)
  BY <1>3 DEF InsertPlain, RowsOK
<1>4. CASE Commit(w)
  BY <1>4 DEF Commit, RowsOK
<1>5. CASE Fail(w)
  BY SMTT(30), <1>5 DEF Fail, Reject, RowsOK
<1>6. CASE InsertInTx(w)
  <2> DEFINE v == Value(w, at[w])
  <2>1. v \in Nat
    BY <1>6, ValueType DEF InsertInTx, Pending
  <2>2. CASE Reject(w)
    BY <2>2 DEF Reject, RowsOK
  <2>3. CASE Restart(w)
    <3>1. /\ mine' = [mine EXCEPT ![w] = <<>>] /\ DOMAIN <<>> \subseteq Nat
          /\ view' = [view EXCEPT ![w] = {}]
      BY <2>3 DEF Restart
    <3> QED
      BY <3>1 DEF RowsOK
  <2>4. CASE mine' = [mine EXCEPT ![w] = Extend(@, v, Row(w, at[w]))] /\ Snapshot(w)
    <3>1. DOMAIN Extend(mine[w], v, Row(w, at[w])) = DOMAIN mine[w] \cup {v}
      BY DEF Extend
    <3>2. mine' = [mine EXCEPT ![w] = Extend(mine[w], v, Row(w, at[w]))]
      BY <2>4
    <3>3. /\ mine' = [x \in Workers |-> mine'[x]]
          /\ \A x \in Workers : DOMAIN mine'[x] \subseteq Nat
      BY <2>1, <3>1, <3>2 DEF RowsOK
    <3> QED
      BY <2>4, <3>3, SnapshotOK DEF RowsOK
  <2> QED
    BY <1>6, <2>2, <2>3, <2>4 DEF InsertInTx
<1> QED
  BY <1>1, <1>2, <1>3, <1>4, <1>5, <1>6

LEMMA HandOutTypes ==
  ASSUME TypeOK, NEW w \in Workers, NEW r \in Ranges,
         HandOut(w, r)
  PROVE  /\ range' \in [Workers -> Ranges]
         /\ ranges' \subseteq Ranges
         /\ pc' \in [Workers -> {"start", "max", "reseed", "check", "insert", "commit",
                                 "done", "failed"}]
BY DEF TypeOK, HandOut, Goto, Inserting

LEMMA TypeStep ==
  ASSUME IInv, NEW w \in Workers,
         \/ NothingToAssign(w) \/ Advance(w) \/ ReadMax(w) \/ Reseed(w)
         \/ FindStored(w) \/ SkipDocument(w) \/ InsertPlain(w) \/ InsertInTx(w)
         \/ EndCall(w) \/ Commit(w) \/ Fail(w)
  PROVE  TypeOK'
<1> USE DEF IInv
<1>1. CASE NothingToAssign(w)
  BY <1>1 DEF NothingToAssign, Goto, Inserting, TypeOK
<1>2. CASE Advance(w)
  <2> DEFINE r == Block(seq + 1, Count(w), KindNow)
  <2>1. Count(w) \in Nat /\ Count(w) > 0 /\ seq' = seq + Count(w) /\ seq \in Nat
    BY <1>2, CountType DEF Advance, TypeOK
  <2>2. r \in Ranges
    BY <2>1 DEF Block, Ranges, KindNow, Kinds
  <2>3. CASE HandOut(w, r)
    BY <1>2, <2>1, <2>2, <2>3, HandOutTypes DEF Advance, TypeOK
  <2>4. CASE Goto(w, "max") /\ UNCHANGED <<range, ranges>>
    BY <1>2, <2>1, <2>4 DEF Advance, TypeOK, Goto
  <2> QED
    BY <1>2, <2>3, <2>4 DEF Advance
<1>3. CASE ReadMax(w)
  <2>1. Count(w) \in Nat /\ Count(w) >= 1 /\ covered' \subseteq Nat
    BY <1>3, CountType, SeenType DEF ReadMax, RangesInv, SeedingIsAlone, Seeding
  <2>2. PICK max \in Seen(w) \cup {0} :
          LET base == IF max + 1 > start THEN max + 1 ELSE start IN
            IF base > Count(w)
            THEN /\ range' = [range EXCEPT ![w] = Block(base, Count(w), "seeded")]
                 /\ Goto(w, "reseed")
                 /\ UNCHANGED ranges
            ELSE HandOut(w, Block(1, Count(w), "plain"))
    BY <1>3 DEF ReadMax
  <2> DEFINE base == IF max + 1 > start THEN max + 1 ELSE start
  <2>3. base \in Nat /\ base >= 1
    BY SeenType, StartsAssumption DEF TypeOK
  <2>4. Block(base, Count(w), "seeded") \in Ranges /\ Block(1, Count(w), "plain") \in Ranges
    BY <2>1, <2>3 DEF Block, Ranges, Kinds
  <2>5. CASE HandOut(w, Block(1, Count(w), "plain"))
    BY <1>3, <2>1, <2>4, <2>5, HandOutTypes DEF ReadMax, TypeOK
  <2>6. CASE /\ range' = [range EXCEPT ![w] = Block(base, Count(w), "seeded")]
             /\ Goto(w, "reseed")
             /\ UNCHANGED ranges
    BY <1>3, <2>1, <2>4, <2>6 DEF ReadMax, TypeOK, Goto
  <2> QED
    BY <2>2, <2>5, <2>6
<1>4. CASE Reseed(w)
  <2>1. range[w] \in Ranges /\ range[w].last \in Nat /\ HandOut(w, range[w])
    BY <1>4 DEF Reseed, TypeOK, Ranges
  <2> QED
    BY <1>4, <2>1, HandOutTypes DEF Reseed, TypeOK
<1>5. CASE FindStored(w) \/ SkipDocument(w)
  <2>1. CASE FindStored(w)
    BY <2>1 DEF FindStored, Goto, TypeOK
  <2>2. CASE SkipDocument(w)
    BY <2>2 DEF SkipDocument, NextDocument, TypeOK
  <2> QED
    BY <1>5, <2>1, <2>2
<1>6. CASE InsertPlain(w)
  <2> DEFINE v == Value(w, at[w])
  <2>1. v \in Nat
    BY <1>6, ValueType DEF InsertPlain, Pending
  <2>2. DOMAIN Extend(docs, v, Row(w, at[w])) = DOMAIN docs \cup {v}
    BY DEF Extend
  <2>3. DOMAIN docs' \subseteq Nat
    BY <1>6, <2>1, <2>2 DEF InsertPlain, TypeOK
  <2> QED
    BY <1>6, <2>3 DEF InsertPlain, NextDocument, Goto, TypeOK
<1>7. CASE InsertInTx(w)
  <2>1. 1 \in DOMAIN task[w].batches
    BY PlanType
  <2>2. CASE Reject(w)
    BY <2>2 DEF Reject, Goto, TypeOK
  <2>3. CASE Restart(w)
    BY <2>1, <2>3 DEF Restart, Goto, TypeOK
  <2>4. CASE /\ NextDocument(w)
             /\ UNCHANGED <<start, seq, docs, task, pc, call, range, ranges, covered>>
    BY <2>4 DEF NextDocument, TypeOK
  <2> QED
    BY <1>7, <2>2, <2>3, <2>4 DEF InsertInTx
<1>8. CASE EndCall(w)
  <2>1. call[w] < Len(task[w].batches) => call[w] + 1 \in DOMAIN task[w].batches
    BY PlanType DEF TypeOK
  <2>2. /\ UNCHANGED <<start, seq, docs, task, range, ranges, covered>>
        /\ at' = [at EXCEPT ![w] = 1]
    BY <1>8 DEF EndCall
  <2>3. CASE call[w] < Len(task[w].batches)
    <3>1. call' = [call EXCEPT ![w] = call[w] + 1] /\ pc' = [pc EXCEPT ![w] = "start"]
      BY <1>8, <2>3 DEF EndCall, Goto
    <3> QED
      BY <2>1, <2>2, <2>3, <3>1 DEF TypeOK
  <2>4. CASE ~(call[w] < Len(task[w].batches))
    <3>1. UNCHANGED call /\ pc' \in {[pc EXCEPT ![w] = l] : l \in {"commit", "done"}}
      BY <1>8, <2>4 DEF EndCall, Goto
    <3> QED
      BY <2>2, <3>1 DEF TypeOK
  <2> QED
    BY <2>3, <2>4
<1>9. CASE Commit(w)
  <2>1. DOMAIN docs' \subseteq Nat
    BY <1>9 DEF Commit, TypeOK, RowsOK
  <2> QED
    BY <1>9, <2>1 DEF Commit, Goto, TypeOK
<1>10. CASE Fail(w)
  BY <1>10 DEF Fail, Reject, Goto, TypeOK
<1> QED
  BY <1>1, <1>2, <1>3, <1>4, <1>5, <1>6, <1>7, <1>8, <1>9, <1>10

LEMMA RangesStep ==
  ASSUME IInv, NEW w \in Workers,
         \/ NothingToAssign(w) \/ Advance(w) \/ ReadMax(w) \/ Reseed(w)
         \/ FindStored(w) \/ SkipDocument(w) \/ InsertPlain(w) \/ InsertInTx(w)
         \/ EndCall(w) \/ Commit(w) \/ Fail(w)
  PROVE  RangesInv'
<1> USE DEF IInv
<1>1. CASE Advance(w)
  BY <1>1, AdvanceKeepsRanges
<1>2. CASE ReadMax(w)
  BY <1>2, ReadMaxKeepsRanges
<1>3. CASE Reseed(w)
  BY <1>3, ReseedKeepsRanges
<1>4. CASE NothingToAssign(w) \/ FindStored(w)
  <2>1. /\ UNCHANGED <<seq, range, ranges, task>>
        /\ \A x \in Workers : Seeding(x)' => pc'[x] = pc[x] /\ call'[x] = call[x]
    BY <1>4 DEF NothingToAssign, FindStored, Goto, Inserting, Seeding, TypeOK
  <2> QED
    BY <2>1, QuietKeepsRanges
<1>5. CASE SkipDocument(w) \/ InsertPlain(w)
  <2>1. /\ UNCHANGED <<seq, range, ranges, task>>
        /\ \A x \in Workers : Seeding(x)' => pc'[x] = pc[x] /\ call'[x] = call[x]
    BY <1>5 DEF SkipDocument, InsertPlain, Goto, Seeding, TypeOK
  <2> QED
    BY <2>1, QuietKeepsRanges
<1>6. CASE EndCall(w) \/ Commit(w)
  <2>1. /\ UNCHANGED <<seq, range, ranges, task>>
        /\ \A x \in Workers : Seeding(x)' => pc'[x] = pc[x] /\ call'[x] = call[x]
    BY <1>6 DEF EndCall, Commit, Goto, Seeding, TypeOK
  <2> QED
    BY <2>1, QuietKeepsRanges
<1>7. CASE InsertInTx(w) \/ Fail(w)
  <2>1. CASE Reject(w)
    <3>1. /\ UNCHANGED <<seq, range, ranges, task>>
          /\ \A x \in Workers : Seeding(x)' => pc'[x] = pc[x] /\ call'[x] = call[x]
      BY <2>1 DEF Reject, Goto, Seeding, TypeOK
    <3> QED
      BY <3>1, QuietKeepsRanges
  <2>2. CASE Restart(w)
    <3>1. /\ UNCHANGED <<seq, range, ranges, task>>
          /\ \A x \in Workers : Seeding(x)' => pc'[x] = pc[x] /\ call'[x] = call[x]
      BY <2>2 DEF Restart, Goto, Seeding, TypeOK
    <3> QED
      BY <3>1, QuietKeepsRanges
  <2>3. CASE UNCHANGED <<seq, range, ranges, task, pc, call>>
    BY <2>3, QuietKeepsRanges
  <2> QED
    BY <1>7, <2>1, <2>2, <2>3 DEF InsertInTx, Fail
<1> QED
  BY <1>1, <1>2, <1>3, <1>4, <1>5, <1>6, <1>7

-----------------------------------------------------------------------------
(* Theorems *)

(* Every step keeps the invariant.                                         *)
THEOREM CountersInvariant == Spec => []IInv
<1>1. Init => IInv
  <2> SUFFICES ASSUME Init PROVE IInv
    OBVIOUS
  <2>1. TypeOK
    <3>1. \A w \in Workers : 1 \in DOMAIN task[w].batches
      BY PlansAssumption DEF Init, Task
    <3> QED
      BY <3>1, StoresAssumption DEF Init, TypeOK, Ranges, Block, Kinds
  <2>2. RowsOK
    BY DEF Init, RowsOK
  <2>3. RangesInv
    BY DEF Init, RangesInv, SeqCovers, SeedingIsAlone, RangesOverlapOnlyAtSeed, Seeding
  <2> QED
    BY <2>1, <2>2, <2>3 DEF IInv
<1>2. IInv /\ [Next]_vars => IInv'
  <2> SUFFICES ASSUME IInv, [Next]_vars PROVE IInv'
    OBVIOUS
  <2>1. CASE UNCHANGED vars
    <3>1. TypeOK' /\ RowsOK'
      BY <2>1 DEF vars, IInv, TypeOK, RowsOK
    <3>2. RangesInv'
      BY <2>1, QuietKeepsRanges DEF vars, IInv
    <3> QED
      BY <3>1, <3>2 DEF IInv
  <2>2. CASE Next
    BY <2>2, TypeStep, RowsStep, RangesStep DEF Next, IInv
  <2> QED
    BY <2>1, <2>2
<1> QED
  BY <1>1, <1>2, PTL DEF Spec

(* Type correctness, for any workers and plans.                            *)
THEOREM TypeCorrect == Spec => []TypeOK
<1>1. IInv => TypeOK
  BY DEF IInv
<1> QED
  BY <1>1, CountersInvariant, PTL

(* No value is handed out twice but between a re-seed and an allocation    *)
(* made before it, for any number of workers, batches of any size, any     *)
(* rolled back or repeated transactions and any failing calls              *)
(* (mongo-adapter.ts:1872-1912).                                           *)
THEOREM ValuesAreHandedOutOnce == Spec => []RangesOverlapOnlyAtSeed
<1>1. IInv => RangesOverlapOnlyAtSeed
  BY DEF IInv, RangesInv
<1> QED
  BY <1>1, CountersInvariant, PTL

-----------------------------------------------------------------------------
(* One worker moves                                                        *)

Step(w) ==
  \/ NothingToAssign(w) \/ Advance(w) \/ ReadMax(w) \/ Reseed(w)
  \/ FindStored(w) \/ SkipDocument(w) \/ InsertPlain(w) \/ InsertInTx(w)
  \/ EndCall(w) \/ Commit(w) \/ Fail(w)

CallTypes ==
  /\ skipped = [w \in Workers |-> skipped[w]]
  /\ slots \in [Workers -> Seq(SUBSET Nat)]

(* Where a worker's call stands: its reports so far, and the documents of  *)
(* the current batch.                                                      *)
SlotOK(w) ==
  /\ pc[w] # "failed" =>
       Len(slots[w]) = IF pc[w] \in {"commit", "done"} THEN call[w] ELSE call[w] - 1
  /\ pc[w] \in {"commit", "done"} => call[w] = Len(task[w].batches)
  /\ pc[w] \in {"check", "commit"} => task[w].tx
  /\ at[w] \in 1..(Len(Batch(w)) + 1)
  /\ pc[w] \notin {"insert", "failed"} => at[w] = 1 /\ skipped[w] = {}
  /\ ~task[w].tx => mine[w] = <<>> /\ skipped[w] \subseteq 1..(at[w] - 1)

SlotInv == CallTypes /\ \A w \in Workers : SlotOK(w)

LEMMA OthersStay ==
  ASSUME IInv, CallTypes, NEW w \in Workers, Step(w)
  PROVE  /\ UNCHANGED task
         /\ \A x \in Workers : x # w =>
              /\ pc'[x] = pc[x] /\ call'[x] = call[x] /\ at'[x] = at[x]
              /\ range'[x] = range[x] /\ skipped'[x] = skipped[x]
              /\ slots'[x] = slots[x] /\ mine'[x] = mine[x] /\ view'[x] = view[x]
              /\ Batch(x)' = Batch(x) /\ Count(x)' = Count(x)
<1> USE DEF IInv, TypeOK, RowsOK, CallTypes, Goto
<1>1. /\ UNCHANGED task
      /\ \A x \in Workers : x # w =>
              /\ pc'[x] = pc[x] /\ call'[x] = call[x] /\ at'[x] = at[x]
              /\ range'[x] = range[x] /\ skipped'[x] = skipped[x]
              /\ slots'[x] = slots[x] /\ mine'[x] = mine[x] /\ view'[x] = view[x]
  <2>1. CASE NothingToAssign(w) \/ Advance(w) \/ Reseed(w)
    BY <2>1 DEF NothingToAssign, Advance, Reseed, HandOut
  <2>2. CASE ReadMax(w) \/ FindStored(w)
    BY <2>2 DEF ReadMax, FindStored, HandOut, Snapshot
  <2>3. CASE SkipDocument(w) \/ InsertPlain(w)
    BY <2>3 DEF SkipDocument, InsertPlain, NextDocument
  <2>4. CASE InsertInTx(w)
    BY <2>4 DEF InsertInTx, NextDocument, Reject, Restart, Snapshot
  <2>5. CASE EndCall(w) \/ Commit(w) \/ Fail(w)
    BY <2>5 DEF EndCall, Commit, Fail, Reject
  <2> QED
    BY <2>1, <2>2, <2>3, <2>4, <2>5 DEF Step
<1> QED
  BY <1>1 DEF Batch, Count

LEMMA CallTypesStep ==
  ASSUME IInv, CallTypes, NEW w \in Workers, Step(w)
  PROVE  CallTypes'
<1>1. CASE NothingToAssign(w) \/ Advance(w) \/ ReadMax(w) \/ Reseed(w) \/ SkipDocument(w)
           \/ Commit(w) \/ Fail(w)
  BY <1>1 DEF NothingToAssign, Advance, ReadMax, Reseed, SkipDocument, Commit, Fail, Reject,
              CallTypes
<1>2. CASE FindStored(w) \/ InsertPlain(w)
  BY <1>2 DEF FindStored, InsertPlain, CallTypes
<1>3. CASE InsertInTx(w)
  <2>1. <<>> \in Seq(SUBSET Nat)
    OBVIOUS
  <2> QED
    BY <1>3, <2>1 DEF InsertInTx, Reject, Restart, CallTypes
<1>4. CASE EndCall(w)
  <2>1. DOMAIN Batch(w) \ skipped[w] \in SUBSET Nat
    BY PlanType DEF IInv
  <2>2. Append(slots[w], DOMAIN Batch(w) \ skipped[w]) \in Seq(SUBSET Nat)
    BY <2>1 DEF CallTypes
  <2>3. /\ slots' = [slots EXCEPT ![w] = Append(slots[w], DOMAIN Batch(w) \ skipped[w])]
        /\ skipped' = [skipped EXCEPT ![w] = {}]
    BY <1>4 DEF EndCall
  <2> QED
    BY <2>2, <2>3 DEF CallTypes
<1> QED
  BY <1>1, <1>2, <1>3, <1>4 DEF Step

LEMMA SlotStep ==
  ASSUME IInv, SlotInv, NEW w \in Workers, Step(w)
  PROVE  SlotInv'
<1>1. CallTypes /\ CallTypes'
  BY CallTypesStep DEF SlotInv
<1>2. \A x \in Workers : x # w => SlotOK(x)'
  BY <1>1, OthersStay DEF SlotInv, SlotOK
<1>3. SlotOK(w)'
  <2> USE DEF IInv, TypeOK, RowsOK, CallTypes, Goto, SlotInv
  <2>0. /\ Len(Batch(w)) \in Nat /\ DOMAIN Batch(w) = 1..Len(Batch(w))
        /\ at[w] \in Nat /\ call[w] \in Nat /\ SlotOK(w)
        /\ DOMAIN task[w].batches = 1..Len(task[w].batches)
        /\ Len(task[w].batches) \in Nat \ {0}
        /\ call[w] \in 1..Len(task[w].batches)
    BY PlanType
  <2>1. CASE NothingToAssign(w)
    BY <2>0, <2>1 DEF NothingToAssign, Inserting, SlotOK, Batch
  <2>2. CASE Advance(w)
    BY <2>0, <2>2 DEF Advance, HandOut, Inserting, SlotOK, Batch
  <2>3. CASE ReadMax(w)
    BY <2>0, <2>3 DEF ReadMax, HandOut, Inserting, SlotOK, Batch
  <2>4. CASE Reseed(w)
    BY <2>0, <2>4 DEF Reseed, HandOut, Inserting, SlotOK, Batch
  <2>5. CASE FindStored(w)
    BY <2>0, <2>5 DEF FindStored, SlotOK, Batch
  <2>6. CASE SkipDocument(w)
    BY <2>0, <2>6 DEF SkipDocument, Pending, NextDocument, SlotOK, Batch
  <2>7. CASE InsertPlain(w)
    <3>1. /\ Batch(w)' = Batch(w) /\ ~task[w].tx /\ pc[w] = "insert" /\ at[w] \in DOMAIN Batch(w)
          /\ UNCHANGED <<task, call, slots>> /\ mine'[w] = mine[w]
      BY <2>7 DEF InsertPlain, Pending, Batch
    <3>2. CASE NextDocument(w) /\ pc' = pc /\ skipped' = skipped
      BY <2>0, <3>1, <3>2 DEF NextDocument, SlotOK
    <3>3. CASE NextDocument(w) /\ pc' = pc /\ skipped' = [skipped EXCEPT ![w] = @ \cup {at[w]}]
      BY <2>0, <3>1, <3>3 DEF NextDocument, SlotOK
    <3>4. CASE Goto(w, "failed") /\ UNCHANGED <<at, skipped>>
      BY <2>0, <3>1, <3>4 DEF SlotOK
    <3> QED
      BY <2>7, <3>2, <3>3, <3>4 DEF InsertPlain
  <2>8. CASE InsertInTx(w)
    <3>1. CASE Reject(w)
      BY <2>0, <2>8, <3>1 DEF InsertInTx, Pending, Reject, SlotOK, Batch
    <3>2. CASE Restart(w)
      <4>1. Len(Batch(w)') \in Nat
        <5>1. TypeOK'
          BY <2>8, TypeStep
        <5> QED
          BY <5>1, PlansAssumption DEF Batch, Task
      <4>2. /\ pc'[w] = "start" /\ slots'[w] = <<>> /\ call'[w] = 1 /\ at'[w] = 1
            /\ skipped'[w] = {} /\ mine'[w] = <<>>
        BY <3>2 DEF Restart
      <4> QED
        BY <4>1, <4>2 DEF SlotOK
    <3>3. CASE /\ NextDocument(w) /\ UNCHANGED <<task, pc, call, skipped, slots>>
      BY SMTT(30), <2>0, <2>8, <3>3 DEF InsertInTx, Pending, NextDocument, SlotOK, Batch
    <3> QED
      BY <2>8, <3>1, <3>2, <3>3 DEF InsertInTx
  <2>9. CASE EndCall(w)
    <3>1. /\ Len(slots'[w]) = Len(slots[w]) + 1 /\ at'[w] = 1 /\ skipped'[w] = {}
          /\ UNCHANGED <<task, mine>>
      BY <2>9 DEF EndCall
    <3>2. Len(Batch(w)') \in Nat
      <4>1. TypeOK'
        BY <2>9, TypeStep
      <4> QED
        BY <4>1, PlansAssumption DEF Batch, Task
    <3>3. Len(slots[w]) = call[w] - 1
      BY <2>0, <2>9 DEF EndCall, SlotOK
    <3>4. CASE call[w] < Len(task[w].batches)
      <4>1. call'[w] = call[w] + 1 /\ pc'[w] = "start"
        BY <2>9, <3>4 DEF EndCall
      <4> QED
        BY <2>0, <3>1, <3>2, <3>3, <4>1 DEF SlotOK
    <3>5. CASE ~(call[w] < Len(task[w].batches))
      <4>1. call'[w] = call[w] /\ pc'[w] = IF task[w].tx THEN "commit" ELSE "done"
        BY <2>9, <3>5 DEF EndCall
      <4> QED
        BY <2>0, <3>1, <3>2, <3>3, <3>5, <4>1 DEF SlotOK
    <3> QED
      BY <3>4, <3>5
  <2>10. CASE Commit(w)
    BY <2>0, <2>10 DEF Commit, SlotOK, Batch
  <2>11. CASE Fail(w)
    BY <2>0, <2>11 DEF Fail, Reject, SlotOK, Batch
  <2> QED
    BY <2>1, <2>2, <2>3, <2>4, <2>5, <2>6, <2>7, <2>8, <2>9, <2>10, <2>11 DEF Step
<1> QED
  BY <1>1, <1>2, <1>3 DEF SlotInv

-----------------------------------------------------------------------------
(* Rows and who wrote them                                                 *)

(* Nobody's uncommitted rows meet the stored ones or another's, and they   *)
(* are the worker's own.                                                   *)
DisjointInv ==
  /\ \A w \in Workers : DOMAIN mine[w] \cap DOMAIN docs = {}
  /\ \A w, x \in Workers : w # x => DOMAIN mine[w] \cap DOMAIN mine[x] = {}
  /\ \A w \in Workers : \A v \in DOMAIN mine[w] :
       \E n, k \in Nat : mine[w][v].of = <<w, n, k>>

(* What a step writes.                                                     *)
LEMMA WriteKinds ==
  ASSUME IInv, SlotInv, NEW w \in Workers, Step(w)
  PROVE  \/ UNCHANGED <<docs, mine>>
         \/ UNCHANGED docs /\ mine' = [mine EXCEPT ![w] = <<>>]
         \/ InsertPlain(w) /\ UNCHANGED mine /\ ~Uncommitted(w, Value(w, at[w]))
            /\ Value(w, at[w]) \notin DOMAIN docs /\ mine[w] = <<>>
            /\ docs' = Extend(docs, Value(w, at[w]), Row(w, at[w]))
         \/ InsertInTx(w) /\ UNCHANGED docs /\ ~Uncommitted(w, Value(w, at[w]))
            /\ Value(w, at[w]) \notin DOMAIN docs \cup DOMAIN mine[w]
            /\ mine' = [mine EXCEPT ![w] = Extend(mine[w], Value(w, at[w]), Row(w, at[w]))]
         \/ Commit(w)
<1>1. CASE NothingToAssign(w) \/ Advance(w) \/ ReadMax(w) \/ Reseed(w)
           \/ FindStored(w) \/ SkipDocument(w) \/ EndCall(w)
  BY <1>1 DEF NothingToAssign, Advance, ReadMax, Reseed, FindStored, SkipDocument, EndCall
<1>2. CASE InsertPlain(w)
  <2>1. ~task[w].tx => mine[w] = <<>>
    BY DEF SlotInv, SlotOK
  <2>2. ~task[w].tx /\ ~Uncommitted(w, Value(w, at[w]))
    BY <1>2 DEF InsertPlain
  <2>3. CASE Value(w, at[w]) \notin DOMAIN docs
    BY <1>2, <2>1, <2>2, <2>3 DEF InsertPlain
  <2>4. CASE Value(w, at[w]) \in DOMAIN docs
    BY <1>2, <2>4 DEF InsertPlain
  <2> QED
    BY <2>3, <2>4
<1>3. CASE InsertInTx(w)
  <2>1. CASE Reject(w) \/ Restart(w)
    BY <2>1 DEF Reject, Restart
  <2>2. CASE ~Reject(w) /\ ~Restart(w)
    <3>1. /\ Value(w, at[w]) \notin Seen(w)
          /\ ~(Value(w, at[w]) \in DOMAIN docs \/ Uncommitted(w, Value(w, at[w])))
          /\ mine' = [mine EXCEPT ![w] = Extend(@, Value(w, at[w]), Row(w, at[w]))]
          /\ UNCHANGED docs
      BY <1>3, <2>2 DEF InsertInTx
    <3> QED
      BY <1>3, <3>1 DEF Seen
  <2> QED
    BY <2>1, <2>2
<1>4. CASE Fail(w)
  BY <1>4 DEF Fail, Reject
<1> QED
  BY <1>1, <1>2, <1>3, <1>4 DEF Step

LEMMA ExtendIs ==
  ASSUME NEW d, NEW v, NEW row
  PROVE  /\ DOMAIN Extend(d, v, row) = DOMAIN d \cup {v}
         /\ Extend(d, v, row)[v] = row
         /\ \A x \in DOMAIN d : x # v => Extend(d, v, row)[x] = d[x]
BY DEF Extend

LEMMA CommitIs ==
  ASSUME RowsOK, NEW w \in Workers, Commit(w)
  PROVE  /\ DOMAIN docs' = DOMAIN docs \cup DOMAIN mine[w]
         /\ \A v \in DOMAIN mine[w] : docs'[v] = mine[w][v]
         /\ \A v \in DOMAIN docs \ DOMAIN mine[w] : docs'[v] = docs[v]
         /\ mine' = [mine EXCEPT ![w] = <<>>] /\ mine'[w] = <<>>
         /\ pc[w] = "commit" /\ DOMAIN (<<>>) = {}
BY DEF Commit, RowsOK

LEMMA RowIs ==
  ASSUME IInv, SlotInv, NEW w \in Workers
  PROVE  /\ call[w] \in Nat /\ at[w] \in Nat
         /\ Row(w, at[w]).of = <<w, call[w], at[w]>>
         /\ Row(w, at[w]).kind = KindOf(w, at[w])
BY DEF IInv, TypeOK, Row

LEMMA DisjointStep ==
  ASSUME IInv, SlotInv, DisjointInv, NEW w \in Workers, Step(w)
  PROVE  DisjointInv'
<1> DEFINE v == Value(w, at[w])
           row == Row(w, at[w])
<1>0. mine = [x \in Workers |-> mine[x]] /\ DOMAIN (<<>>) = {}
  BY DEF IInv, RowsOK
<1>1. CASE UNCHANGED <<docs, mine>>
  BY <1>1 DEF DisjointInv
<1>2. CASE UNCHANGED docs /\ mine' = [mine EXCEPT ![w] = <<>>]
  <2>1. \A x \in Workers : mine'[x] = IF x = w THEN <<>> ELSE mine[x]
    BY <1>0, <1>2
  <2> QED
    BY <1>0, <1>2, <2>1 DEF DisjointInv
<1>3. CASE /\ UNCHANGED mine /\ ~Uncommitted(w, v) /\ mine[w] = <<>>
           /\ docs' = Extend(docs, v, row)
  <2>1. DOMAIN docs' = DOMAIN docs \cup {v}
    BY <1>3, ExtendIs
  <2>2. \A x \in Workers : v \notin DOMAIN mine[x]
    BY <1>0, <1>3 DEF Uncommitted
  <2> QED
    BY <1>3, <2>1, <2>2 DEF DisjointInv
<1>4. CASE /\ UNCHANGED docs /\ ~Uncommitted(w, v)
           /\ v \notin DOMAIN docs \cup DOMAIN mine[w]
           /\ mine' = [mine EXCEPT ![w] = Extend(mine[w], v, row)]
  <2>1. \A x \in Workers : mine'[x] = IF x = w THEN Extend(mine[w], v, row) ELSE mine[x]
    BY <1>0, <1>4
  <2>2. /\ DOMAIN mine'[w] = DOMAIN mine[w] \cup {v} /\ mine'[w][v] = row
        /\ \A y \in DOMAIN mine[w] : y # v => mine'[w][y] = mine[w][y]
    <3>1. mine'[w] = Extend(mine[w], v, row)
      BY <2>1
    <3> HIDE DEF v, row
    <3> QED
      BY <3>1 DEF Extend
  <2>3. \A x \in Workers : x # w => v \notin DOMAIN mine[x]
    BY <1>4 DEF Uncommitted
  <2>4. \A y \in DOMAIN mine'[w] : \E n, k \in Nat : mine'[w][y].of = <<w, n, k>>
    <3>1. \E n, k \in Nat : row.of = <<w, n, k>>
      BY RowIs
    <3> QED
      BY <1>4, <2>2, <3>1 DEF DisjointInv
  <2>5. \A x \in Workers : x # w => mine'[x] = mine[x]
    BY <2>1
  <2> HIDE DEF v, row
  <2>6. \A x \in Workers : DOMAIN mine'[x] \cap DOMAIN docs' = {}
    BY <1>4, <2>2, <2>5 DEF DisjointInv
  <2>7. \A x, y \in Workers : x # y => DOMAIN mine'[x] \cap DOMAIN mine'[y] = {}
    BY <2>2, <2>3, <2>5 DEF DisjointInv
  <2> QED
    BY <2>4, <2>5, <2>6, <2>7 DEF DisjointInv
<1>5. CASE Commit(w)
  <2>1. \A x \in Workers : mine'[x] = IF x = w THEN <<>> ELSE mine[x]
    BY <1>0, <1>5, CommitIs DEF IInv
  <2>2. DOMAIN docs' = DOMAIN docs \cup DOMAIN mine[w]
    BY <1>5, CommitIs DEF IInv
  <2> QED
    BY <1>0, <2>1, <2>2 DEF DisjointInv
<1> QED
  BY <1>1, <1>2, <1>3, <1>4, <1>5, WriteKinds

-----------------------------------------------------------------------------
(* Reports                                                                 *)

(* The documents of call n of a worker among the rows of d.                *)
FromCall(d, w, n) ==
  {k \in DOMAIN task[w].batches[n] : \E v \in DOMAIN d : d[v].of = <<w, n, k>>}

(* The documents a worker has inserted in call n, by its own account.      *)
Told(w, n) ==
  IF n <= Len(slots[w]) THEN slots[w][n]
  ELSE IF n = call[w] THEN (1..(at[w] - 1)) \ skipped[w]
  ELSE {}

(* Where a worker's rows are.                                              *)
Written(w) == IF task[w].tx /\ pc[w] # "done" THEN mine[w] ELSE docs

(* What a worker accounts for is what it has written, at every step, and a *)
(* transaction's rows are nowhere but with it.                             *)
ToldOK(w) ==
  \A n \in DOMAIN task[w].batches :
    /\ pc[w] # "failed" => FromCall(Written(w), w, n) = Told(w, n)
    /\ task[w].tx /\ pc[w] # "done" => FromCall(docs, w, n) = {}

ToldInv == \A w \in Workers : ToldOK(w)

CallInv == SlotInv /\ DisjointInv /\ ToldInv

LEMMA FromExtend ==
  ASSUME NEW d, NEW v, v \notin DOMAIN d, NEW row,
         NEW w \in Workers, NEW m \in Nat, NEW k \in Nat, row.of = <<w, m, k>>,
         k \in DOMAIN task[w].batches[m],
         NEW x \in Workers, NEW n \in Nat
  PROVE  FromCall(Extend(d, v, row), x, n) =
           FromCall(d, x, n) \cup (IF x = w /\ n = m THEN {k} ELSE {})
<1> DEFINE e == Extend(d, v, row)
<1>1. /\ DOMAIN e = DOMAIN d \cup {v} /\ e[v] = row
      /\ \A y \in DOMAIN d : e[y] = d[y]
  BY DEF Extend
<1> HIDE DEF e
<1>2. \A j : (\E y \in DOMAIN e : e[y].of = <<x, n, j>>) <=>
               \/ \E y \in DOMAIN d : d[y].of = <<x, n, j>>
               \/ row.of = <<x, n, j>>
  BY <1>1
<1>3. \A j : row.of = <<x, n, j>> <=> x = w /\ n = m /\ j = k
  OBVIOUS
<1> QED
  BY <1>2, <1>3 DEF FromCall, e

LEMMA FromNothing ==
  ASSUME NEW w, NEW n
  PROVE  FromCall(<<>>, w, n) = {}
BY DEF FromCall

(* The rows of a commit: those of the committing worker, and of nobody     *)
(* else.                                                                   *)
LEMMA FromCommit ==
  ASSUME IInv, DisjointInv, NEW w \in Workers, Commit(w),
         NEW x \in Workers, NEW n
  PROVE  /\ x # w => FromCall(docs', x, n) = FromCall(docs, x, n)
         /\ FromCall(docs, w, n) = {} => FromCall(docs', w, n) = FromCall(mine[w], w, n)
<1>1. /\ DOMAIN docs' = DOMAIN docs \cup DOMAIN mine[w]
      /\ \A v \in DOMAIN mine[w] : docs'[v] = mine[w][v]
      /\ \A v \in DOMAIN docs \ DOMAIN mine[w] : docs'[v] = docs[v]
  BY CommitIs DEF IInv
<1>2. \A v \in DOMAIN docs : docs'[v] = docs[v]
  BY <1>1 DEF DisjointInv
<1>3. \A y, j : (\E v \in DOMAIN docs' : docs'[v].of = <<y, n, j>>) <=>
               \/ \E v \in DOMAIN docs : docs[v].of = <<y, n, j>>
               \/ \E v \in DOMAIN mine[w] : mine[w][v].of = <<y, n, j>>
  BY <1>1, <1>2
<1>4. x # w => \A j : ~\E v \in DOMAIN mine[w] : mine[w][v].of = <<x, n, j>>
  BY DEF DisjointInv
<1> QED
  BY <1>3, <1>4 DEF FromCall

(* A step writes no rows of the others.                                    *)
LEMMA OthersDocs ==
  ASSUME IInv, CallInv, NEW w \in Workers, Step(w),
         NEW x \in Workers, x # w, NEW n \in DOMAIN task[x].batches
  PROVE  FromCall(docs', x, n) = FromCall(docs, x, n)
<1> DEFINE v == Value(w, at[w])
           row == Row(w, at[w])
<1>1. CASE docs' = docs
  BY <1>1
<1>2. CASE InsertPlain(w) /\ v \notin DOMAIN docs /\ docs' = Extend(docs, v, row)
  <2>1. at[w] \in DOMAIN task[w].batches[call[w]]
    BY <1>2 DEF InsertPlain, Pending, Batch
  <2>2. call[w] \in Nat /\ at[w] \in Nat /\ row.of = <<w, call[w], at[w]>>
    BY RowIs DEF CallInv
  <2>3. n \in Nat
    BY PlanType DEF IInv
  <2>4. FromCall(Extend(docs, v, row), x, n) =
          FromCall(docs, x, n) \cup (IF x = w /\ n = call[w] THEN {at[w]} ELSE {})
    <3> HIDE DEF v, row
    <3> QED
      BY ONLY <1>2, <2>1, <2>2, <2>3, FromExtend
  <2> QED
    BY <1>2, <2>4
<1>3. CASE Commit(w)
  BY <1>3, FromCommit DEF CallInv
<1> QED
  BY <1>1, <1>2, <1>3, WriteKinds DEF CallInv

LEMMA QuietTold ==
  ASSUME NEW w \in Workers, ToldOK(w), UNCHANGED <<docs, task>>, mine'[w] = mine[w],
         pc'[w] = "done" <=> pc[w] = "done",
         pc[w] = "failed" => pc'[w] = "failed",
         \A n \in DOMAIN task[w].batches : Told(w, n)' = Told(w, n)
  PROVE  ToldOK(w)'
<1>1. Written(w)' = Written(w)
  BY DEF Written
<1>2. \A n : FromCall(Written(w), w, n)' = FromCall(Written(w), w, n)
             /\ FromCall(docs, w, n)' = FromCall(docs, w, n)
  BY <1>1 DEF FromCall
<1> QED
  BY <1>2 DEF ToldOK

LEMMA ToldStep ==
  ASSUME IInv, CallInv, NEW w \in Workers, Step(w)
  PROVE  ToldInv'
<1> USE DEF IInv, CallInv, SlotInv, ToldInv
<1>0. UNCHANGED task /\ CallTypes
  BY OthersStay
<1>1. ASSUME NEW x \in Workers, x # w PROVE ToldOK(x)'
  <2>1. /\ pc'[x] = pc[x] /\ call'[x] = call[x] /\ at'[x] = at[x]
        /\ skipped'[x] = skipped[x] /\ slots'[x] = slots[x] /\ mine'[x] = mine[x]
    BY <1>0, <1>1, OthersStay
  <2>2. SUFFICES ASSUME NEW n \in DOMAIN task[x].batches
                 PROVE  /\ pc[x] # "failed" => FromCall(Written(x), x, n)' = Told(x, n)
                        /\ task[x].tx /\ pc[x] # "done" => FromCall(docs, x, n)' = {}
    BY <1>0, <2>1 DEF ToldOK, Told
  <2>3. FromCall(docs, x, n)' = FromCall(docs, x, n)
    BY <1>0, <1>1, OthersDocs DEF FromCall
  <2>4. FromCall(Written(x), x, n)' = FromCall(Written(x), x, n)
    BY <1>0, <2>1, <2>3 DEF Written, FromCall
  <2> QED
    BY <2>3, <2>4 DEF ToldOK
<1>2. ToldOK(w)'
  <2>0. /\ Len(Batch(w)) \in Nat /\ DOMAIN Batch(w) = 1..Len(Batch(w))
        /\ at[w] \in Nat /\ at[w] >= 1 /\ call[w] \in Nat /\ SlotOK(w) /\ ToldOK(w)
        /\ DOMAIN task[w].batches = 1..Len(task[w].batches)
        /\ Len(task[w].batches) \in Nat \ {0}
        /\ call[w] \in 1..Len(task[w].batches)
        /\ slots[w] \in Seq(SUBSET Nat) /\ Len(slots[w]) \in Nat
    BY SMTT(30), <1>0, PlanType DEF TypeOK, CallTypes, SlotOK
  <2>1. CASE NothingToAssign(w) \/ Advance(w) \/ ReadMax(w) \/ Reseed(w)
    <3>1. /\ UNCHANGED <<docs, call, at, skipped, slots, mine>>
          /\ pc[w] \in {"start", "max", "reseed"}
          /\ pc'[w] \in {"start", "max", "reseed", "check", "insert"}
      BY <2>1 DEF NothingToAssign, Advance, ReadMax, Reseed, HandOut, Goto, Inserting, TypeOK
    <3>2. \A n : Told(w, n)' = Told(w, n)
      BY <3>1 DEF Told
    <3> QED
      BY <1>0, <2>0, <3>1, <3>2, QuietTold
  <2>2. CASE FindStored(w)
    <3>1. /\ UNCHANGED <<docs, call, at, slots, mine>> /\ at[w] = 1 /\ skipped[w] = {}
          /\ pc[w] = "check" /\ pc'[w] = "insert"
      BY <2>0, <2>2 DEF FindStored, Goto, TypeOK, SlotOK
    <3>2. \A n : Told(w, n)' = Told(w, n)
      BY <3>1 DEF Told
    <3> QED
      BY <1>0, <2>0, <3>1, <3>2, QuietTold
  <2>3. CASE SkipDocument(w)
    <3>1. /\ UNCHANGED <<docs, call, slots, mine, pc, skipped>> /\ at'[w] = at[w] + 1
          /\ at[w] \in skipped[w]
      BY <2>3 DEF SkipDocument, NextDocument, TypeOK
    <3>2. (1..(at'[w] - 1)) \ skipped[w] = (1..(at[w] - 1)) \ skipped[w]
      BY <2>0, <3>1
    <3>3. \A n : Told(w, n)' = Told(w, n)
      BY <3>1, <3>2 DEF Told
    <3> QED
      BY <1>0, <2>0, <3>1, <3>3, QuietTold
  <2>4. CASE Fail(w) \/ (InsertInTx(w) /\ Reject(w))
    <3>1. pc'[w] = "failed" /\ UNCHANGED docs /\ pc[w] # "done"
      BY <2>4 DEF Fail, InsertInTx, Pending, Reject, Goto, TypeOK
    <3> QED
      BY <1>0, <2>0, <3>1 DEF ToldOK, FromCall
  <2>5. CASE InsertInTx(w) /\ Restart(w)
    <3>1. /\ pc'[w] = "start" /\ call'[w] = 1 /\ at'[w] = 1 /\ skipped'[w] = {}
          /\ slots'[w] = <<>> /\ mine'[w] = <<>> /\ UNCHANGED docs
          /\ task[w].tx /\ pc[w] = "insert"
      BY <1>0, <2>5 DEF InsertInTx, Pending, Restart, Goto, TypeOK, RowsOK, CallTypes
    <3>2. \A n \in DOMAIN task[w].batches : Told(w, n)' = {}
      BY <2>0, <3>1 DEF Told
    <3>3. \A n : FromCall(Written(w), w, n)' = {}
      BY <1>0, <3>1 DEF Written, FromCall
    <3> QED
      BY <1>0, <2>0, <3>1, <3>2, <3>3 DEF ToldOK, FromCall
  <2>6. CASE InsertPlain(w)
    <3> DEFINE v == Value(w, at[w])
               row == Row(w, at[w])
    <3>1. /\ UNCHANGED <<call, slots, mine>> /\ ~task[w].tx /\ pc[w] = "insert"
          /\ at[w] \in DOMAIN task[w].batches[call[w]]
      <4>1. ~task[w].tx => mine' = mine
        BY <2>6 DEF InsertPlain
      <4> QED
        BY <2>6, <4>1 DEF InsertPlain, Pending, Batch
    <3>2. skipped[w] \subseteq 1..(at[w] - 1)
      BY <2>0, <3>1 DEF SlotOK
    <3>3. CASE v \notin DOMAIN docs
      <4>1. /\ docs' = Extend(docs, v, row) /\ at'[w] = at[w] + 1
            /\ UNCHANGED <<pc, skipped>>
        BY <2>6, <3>3 DEF InsertPlain, NextDocument, TypeOK
      <4>2. /\ call[w] \in Nat /\ at[w] \in Nat /\ row.of = <<w, call[w], at[w]>>
        BY RowIs
      <4>3. ASSUME NEW n \in DOMAIN task[w].batches
            PROVE  FromCall(docs', w, n) =
                     FromCall(docs, w, n) \cup (IF n = call[w] THEN {at[w]} ELSE {})
        <5>1. n \in Nat
          BY <2>0
        <5> HIDE DEF v, row
        <5>2. FromCall(Extend(docs, v, row), w, n) =
                FromCall(docs, w, n) \cup (IF w = w /\ n = call[w] THEN {at[w]} ELSE {})
          BY ONLY <3>1, <3>3, <4>2, <5>1, FromExtend
        <5> QED
          BY <4>1, <5>2
      <4>4. ASSUME NEW n \in DOMAIN task[w].batches
            PROVE  Told(w, n)' = Told(w, n) \cup (IF n = call[w] THEN {at[w]} ELSE {})
        <5>1. (1..(at'[w] - 1)) \ skipped'[w] = ((1..(at[w] - 1)) \ skipped[w]) \cup {at[w]}
          BY <2>0, <3>2, <4>1
        <5>2. call[w] > Len(slots[w])
          BY <2>0, <3>1 DEF SlotOK
        <5> QED
          BY <2>0, <3>1, <4>1, <5>1, <5>2 DEF Told
      <4>5. \A n : FromCall(Written(w), w, n)' = FromCall(docs', w, n)
                   /\ FromCall(Written(w), w, n) = FromCall(docs, w, n)
        BY <1>0, <3>1 DEF Written, FromCall
      <4> HIDE DEF v, row
      <4>6. \A n \in DOMAIN task[w].batches : FromCall(docs, w, n) = Told(w, n)
        BY <2>0, <3>1, <4>5 DEF ToldOK
      <4>7. \A n \in DOMAIN task[w].batches : FromCall(Written(w), w, n)' = Told(w, n)'
        BY <4>3, <4>4, <4>5, <4>6
      <4> QED
        BY <1>0, <3>1, <4>7 DEF ToldOK
    <3>4. CASE v \in DOMAIN docs /\ task[w].ignore
      <4>1. /\ UNCHANGED <<docs, pc>> /\ at'[w] = at[w] + 1
            /\ skipped'[w] = skipped[w] \cup {at[w]}
        BY <1>0, <2>6, <3>4 DEF InsertPlain, NextDocument, CallTypes, TypeOK
      <4>2. (1..(at'[w] - 1)) \ skipped'[w] = (1..(at[w] - 1)) \ skipped[w]
        BY <2>0, <4>1
      <4>3. \A n : Told(w, n)' = Told(w, n)
        BY <3>1, <4>2 DEF Told
      <4> QED
        BY <1>0, <2>0, <3>1, <4>1, <4>3, QuietTold
    <3>5. CASE v \in DOMAIN docs /\ ~task[w].ignore
      <4>1. pc'[w] = "failed"
        BY <2>6, <3>5 DEF InsertPlain, Goto, TypeOK
      <4> QED
        BY <1>0, <3>1, <4>1 DEF ToldOK
    <3> QED
      BY <3>3, <3>4, <3>5
  <2>7. CASE InsertInTx(w) /\ ~Reject(w) /\ ~Restart(w)
    <3> DEFINE v == Value(w, at[w])
               row == Row(w, at[w])
    <3>1. /\ UNCHANGED <<docs, pc, call, slots, skipped>> /\ task[w].tx /\ pc[w] = "insert"
          /\ at'[w] = at[w] + 1 /\ at[w] \notin skipped[w]
          /\ at[w] \in DOMAIN task[w].batches[call[w]]
          /\ mine'[w] = Extend(mine[w], v, row) /\ v \notin DOMAIN mine[w]
      BY <2>7 DEF InsertInTx, Pending, Batch, NextDocument, Seen, TypeOK, RowsOK
    <3>2. call[w] \in Nat /\ at[w] \in Nat /\ row.of = <<w, call[w], at[w]>>
      BY RowIs
    <3>3. ASSUME NEW n \in DOMAIN task[w].batches
          PROVE  FromCall(mine'[w], w, n) =
                   FromCall(mine[w], w, n) \cup (IF n = call[w] THEN {at[w]} ELSE {})
      <4>1. n \in Nat
        BY <2>0
      <4> HIDE DEF v, row
      <4>2. FromCall(Extend(mine[w], v, row), w, n) =
              FromCall(mine[w], w, n) \cup (IF w = w /\ n = call[w] THEN {at[w]} ELSE {})
        BY ONLY <3>1, <3>2, <4>1, FromExtend
      <4> QED
        BY <3>1, <4>2
    <3>4. ASSUME NEW n \in DOMAIN task[w].batches
          PROVE  Told(w, n)' = Told(w, n) \cup (IF n = call[w] THEN {at[w]} ELSE {})
      <4>1. (1..(at'[w] - 1)) \ skipped'[w] = ((1..(at[w] - 1)) \ skipped[w]) \cup {at[w]}
        BY <2>0, <3>1
      <4>2. call[w] > Len(slots[w])
        BY <2>0, <3>1 DEF SlotOK
      <4> QED
        BY <2>0, <3>1, <4>1, <4>2 DEF Told
    <3>5. \A n : FromCall(Written(w), w, n)' = FromCall(mine'[w], w, n)
                 /\ FromCall(Written(w), w, n) = FromCall(mine[w], w, n)
                 /\ FromCall(docs, w, n)' = FromCall(docs, w, n)
      BY <1>0, <3>1 DEF Written, FromCall
    <3> HIDE DEF v, row
    <3>6. \A n \in DOMAIN task[w].batches :
            FromCall(mine[w], w, n) = Told(w, n) /\ FromCall(docs, w, n) = {}
      BY <2>0, <3>1, <3>5 DEF ToldOK
    <3>7. \A n \in DOMAIN task[w].batches :
            FromCall(Written(w), w, n)' = Told(w, n)' /\ FromCall(docs, w, n)' = {}
      BY ZenonT(60), <3>3, <3>4, <3>5, <3>6
    <3> QED
      BY <1>0, <3>7 DEF ToldOK
  <2>8. CASE EndCall(w)
    <3> DEFINE report == DOMAIN Batch(w) \ skipped[w]
    <3>1. /\ UNCHANGED <<docs, mine>> /\ pc[w] = "insert"
          /\ at'[w] = 1 /\ skipped'[w] = {}
          /\ slots'[w] = Append(slots[w], report)
          /\ call'[w] = call[w] \/ call'[w] = call[w] + 1
          /\ at[w] = Len(Batch(w)) + 1
      <4>1. at[w] \notin DOMAIN Batch(w) /\ at[w] \in 1..(Len(Batch(w)) + 1)
        BY <2>0, <2>8 DEF EndCall, SlotOK
      <4> QED
        BY <1>0, <2>0, <2>8, <4>1 DEF EndCall, CallTypes, TypeOK
    <3>2. Len(slots[w]) = call[w] - 1
      BY <2>0, <3>1 DEF SlotOK
    <3>3. /\ Len(slots'[w]) = call[w] /\ slots'[w][call[w]] = report
          /\ \A n \in 1..(call[w] - 1) : slots'[w][n] = slots[w][n]
      BY <2>0, <3>1, <3>2
    <3>4. report = (1..(at[w] - 1)) \ skipped[w]
      BY <2>0, <3>1
    <3>5. ASSUME NEW n \in DOMAIN task[w].batches
          PROVE  Told(w, n)' = Told(w, n)
      <4> HIDE DEF report
      <4>1. n \in Nat /\ n >= 1
        BY <2>0
      <4>2. CASE n < call[w]
        BY <2>0, <3>2, <3>3, <4>1, <4>2 DEF Told
      <4>3. CASE n = call[w]
        <5>1. Told(w, n)' = slots'[w][n]
          BY <2>0, <3>3, <4>1, <4>3 DEF Told
        <5>2. Told(w, n) = (1..(at[w] - 1)) \ skipped[w]
          BY <2>0, <3>2, <4>1, <4>3 DEF Told
        <5> QED
          BY <3>3, <3>4, <4>3, <5>1, <5>2
      <4>4. CASE n > call[w]
        <5>1. Told(w, n) = {}
          BY <2>0, <3>2, <4>1, <4>4 DEF Told
        <5>2. (1..(at'[w] - 1)) \ skipped'[w] = {}
          BY <3>1
        <5>3. Told(w, n)' = {}
          BY <2>0, <3>1, <3>3, <4>1, <4>4, <5>2 DEF Told
        <5> QED
          BY <5>1, <5>3
      <4> QED
        BY <2>0, <4>1, <4>2, <4>3, <4>4
    <3>6. pc'[w] \in {"start", "commit"} \/ (pc'[w] = "done" /\ ~task[w].tx)
      BY <2>8 DEF EndCall, Goto, TypeOK
    <3>7. Written(w)' = Written(w)
      BY <1>0, <3>1, <3>6 DEF Written
    <3>8. \A n : FromCall(Written(w), w, n)' = FromCall(Written(w), w, n)
                 /\ FromCall(docs, w, n)' = FromCall(docs, w, n)
      BY <1>0, <3>1, <3>7 DEF FromCall
    <3> HIDE DEF report
    <3> QED
      BY <1>0, <2>0, <3>1, <3>5, <3>8 DEF ToldOK
  <2>9. CASE Commit(w)
    <3>1. /\ UNCHANGED <<call, at, skipped, slots>> /\ task[w].tx
          /\ pc[w] = "commit" /\ pc'[w] = "done"
      BY <2>0, <2>9 DEF Commit, Goto, TypeOK, SlotOK
    <3>2. \A n : Told(w, n)' = Told(w, n)
      BY <3>1 DEF Told
    <3>3. \A n \in DOMAIN task[w].batches :
            FromCall(docs, w, n) = {} /\ FromCall(mine[w], w, n) = Told(w, n)
      BY <2>0, <3>1 DEF ToldOK, Written
    <3>4. \A n \in DOMAIN task[w].batches :
            FromCall(docs', w, n) = FromCall(mine[w], w, n)
      BY <2>9, <3>3, FromCommit
    <3>5. \A n : FromCall(Written(w), w, n)' = FromCall(docs', w, n)
      BY <1>0, <3>1 DEF Written, FromCall
    <3> QED
      BY <1>0, <3>1, <3>2, <3>3, <3>4, <3>5 DEF ToldOK
  <2> QED
    BY <2>1, <2>2, <2>3, <2>4, <2>5, <2>6, <2>7, <2>8, <2>9 DEF Step
<1> QED
  BY <1>1, <1>2 DEF ToldInv

(* What a worker was told is what is stored: for any workers, batches,     *)
(* conflicts, restarts and failing calls, a worker that is done finds      *)
(* exactly the documents reported to it, and of a rejected transaction     *)
(* nothing is left (mongo-adapter.ts:1474-1510).                           *)
THEOREM ReportsTrue == Spec => []ReportsAreTrue
<1>1. Init => CallInv
  <2> SUFFICES ASSUME Init PROVE CallInv
    OBVIOUS
  <2>1. \A w \in Workers : /\ Batch(w) \in Seq(Nat) /\ Len(task[w].batches) \in Nat \ {0}
                           /\ DOMAIN task[w].batches = 1..Len(task[w].batches)
    BY PlansAssumption DEF Init, Task, Batch
  <2>2. SlotInv
    BY <2>1 DEF Init, SlotInv, CallTypes, SlotOK
  <2>3. DisjointInv
    BY DEF Init, DisjointInv
  <2>4. \A w, n, k : \A v \in DOMAIN docs : docs[v].of # <<w, n, k>>
    <3>1. \A w, n, k : <<>> # <<w, n, k>>
      <4>1. Len(<<>>) = 0 /\ \A w, n, k : Len(<<w, n, k>>) = 3
        OBVIOUS
      <4> QED
        BY <4>1
    <3>2. \A v \in DOMAIN docs : docs[v].of = <<>>
      BY DEF Init
    <3> QED
      BY <3>1, <3>2
  <2>5. ASSUME NEW w \in Workers, NEW n \in DOMAIN task[w].batches
        PROVE  /\ FromCall(Written(w), w, n) = {} /\ FromCall(docs, w, n) = {}
               /\ Told(w, n) = {}
    <3>1. FromCall(docs, w, n) = {} /\ FromCall(mine[w], w, n) = {}
      BY <2>4 DEF Init, FromCall
    <3>2. slots[w] = <<>> /\ at[w] = 1 /\ n >= 1 /\ n \in Nat
      BY <2>1 DEF Init
    <3> QED
      BY <3>1, <3>2 DEF Written, Told
  <2> QED
    BY <2>2, <2>3, <2>5 DEF CallInv, ToldInv, ToldOK
<1>2. IInv /\ CallInv /\ [Next]_vars => CallInv'
  <2> SUFFICES ASSUME IInv, CallInv, [Next]_vars PROVE CallInv'
    OBVIOUS
  <2>1. CASE UNCHANGED vars
    <3>1. SlotInv'
      BY <2>1 DEF vars, CallInv, SlotInv, CallTypes, SlotOK, Batch
    <3>2. DisjointInv'
      BY <2>1 DEF vars, CallInv, DisjointInv
    <3>3. ToldInv'
      BY <2>1, QuietTold DEF vars, CallInv, ToldInv, Told
    <3> QED
      BY <3>1, <3>2, <3>3 DEF CallInv
  <2>2. CASE Next
    <3>1. PICK w \in Workers : Step(w)
      BY <2>2 DEF Next, Step
    <3> QED
      BY <3>1, SlotStep, DisjointStep, ToldStep DEF CallInv
  <2> QED
    BY <2>1, <2>2
<1>3. IInv /\ CallInv => ReportsAreTrue
  <2> SUFFICES ASSUME IInv, CallInv, NEW w \in Workers, NEW n \in DOMAIN task[w].batches
               PROVE  /\ pc[w] = "done" => RowsOf(w, n) = slots[w][n]
                      /\ pc[w] = "failed" /\ task[w].tx => RowsOf(w, n) = {}
    BY DEF ReportsAreTrue
  <2>1. RowsOf(w, n) = FromCall(docs, w, n)
    BY DEF RowsOf, FromCall
  <2>2. pc[w] = "done" => Told(w, n) = slots[w][n]
    BY PlanType DEF CallInv, SlotInv, SlotOK, Told, IInv
  <2> QED
    BY <2>1, <2>2 DEF CallInv, ToldInv, ToldOK, Written
<1> QED
  BY <1>1, <1>2, <1>3, CountersInvariant, PTL DEF Spec

-----------------------------------------------------------------------------
(* Where generated values come from                                        *)

(* Documents before document k of the batch that take a value of the range.*)
GenBefore(w, k) == Cardinality({j \in 1..(k - 1) : Batch(w)[j] = Gen})

(* The worker takes values from its range.                                 *)
Using(w) == pc[w] \in {"check", "insert"} /\ Count(w) > 0

InRange(r, v) == r.first <= v /\ v <= r.last

(* A range is used by the worker it was handed to, and by nobody else.     *)
HeldInv ==
  /\ \A w \in Workers : Using(w) => range[w] \in ranges
  /\ \A w \in Workers : Using(w) \/ pc[w] = "reseed" =>
       range[w].last = range[w].first + Count(w) - 1
  /\ \A w, x \in Workers : Using(w) /\ Using(x) /\ range[w] = range[x] => w = x

(* A generated value comes from a range, and its user is past it.          *)
Comes(v, row) ==
  \/ row.kind = "given"
  \/ \E r \in ranges :
       /\ r.kind = row.kind /\ InRange(r, v)
       /\ \A w \in Workers :
            Using(w) /\ range[w] = r => v < r.first + GenBefore(w, at[w])

OriginInv ==
  /\ \A v \in DOMAIN docs : Comes(v, docs[v])
  /\ \A w \in Workers : \A v \in DOMAIN mine[w] : Comes(v, mine[w][v])
  /\ \A w \in Workers : UNION view[w] \subseteq DOMAIN docs

(* The values the seeding read has seen are below what it seeds and what   *)
(* is handed out later.                                                    *)
CoverInv ==
  /\ \A r \in ranges : r.kind \in {"seeded", "later"} => \A c \in covered : c < r.first
  /\ (\E r \in ranges : r.kind \in {"plain", "seeded"}) => \A c \in covered : c <= seq
  /\ \A w \in Workers : pc[w] = "reseed" => \A c \in covered : c < range[w].first

ClashInv == HeldInv /\ OriginInv /\ CoverInv /\ ClashesHaveReason

LEMMA GenBeforeIs ==
  ASSUME TypeOK, NEW w \in Workers, NEW k \in DOMAIN Batch(w)
  PROVE  /\ k \in Nat \ {0} /\ GenBefore(w, k) \in Nat /\ GenBefore(w, k + 1) \in Nat
         /\ GenBefore(w, 1) = 0
         /\ Batch(w)[k] = Gen => GenBefore(w, k + 1) = GenBefore(w, k) + 1
         /\ Batch(w)[k] # Gen => GenBefore(w, k + 1) = GenBefore(w, k)
         /\ GenBefore(w, k + 1) <= Count(w)
         /\ Batch(w)[k] = Gen => Count(w) > 0
<1> DEFINE b == Batch(w)
           S(n) == {j \in 1..(n - 1) : b[j] = Gen}
           all == {j \in DOMAIN b : b[j] = Gen}
<1>1. k \in Nat \ {0} /\ DOMAIN b = 1..Len(b) /\ Len(b) \in Nat /\ k <= Len(b)
  BY PlanType
<1>2. IsFiniteSet(S(k)) /\ IsFiniteSet(S(k + 1)) /\ IsFiniteSet(all)
  <2>1. IsFiniteSet(1..(k - 1)) /\ IsFiniteSet(DOMAIN b)
    BY <1>1, FS_Interval
  <2>2. \A n : S(n) \subseteq 1..(n - 1)
    OBVIOUS
  <2>3. all \subseteq DOMAIN b
    OBVIOUS
  <2>4. IsFiniteSet(all)
    BY <2>1, <2>3, FS_Subset
  <2>5. IsFiniteSet(S(k))
    <3>1. S(k) \subseteq 1..(k - 1)
      BY <2>2
    <3> QED
      BY <2>1, <3>1, FS_Subset
  <2>6. IsFiniteSet(S(k + 1))
    <3>1. S(k + 1) \subseteq 1..k
      BY <1>1
    <3>2. IsFiniteSet(1..k)
      BY <1>1, FS_Interval
    <3> HIDE DEF S
    <3> QED
      BY <3>1, <3>2, FS_Subset
  <2> QED
    BY <2>4, <2>5, <2>6
<1>3. Cardinality(S(k)) \in Nat /\ Cardinality(S(k + 1)) \in Nat /\ Cardinality(all) \in Nat
  BY <1>2, FS_CardinalityType
<1>4. Cardinality(S(1)) = 0
  <2>1. S(1) = {}
    OBVIOUS
  <2> QED
    BY <2>1, FS_EmptySet
<1>5. b[k] = Gen => Cardinality(S(k + 1)) = Cardinality(S(k)) + 1
  <2>1. b[k] = Gen => S(k + 1) = S(k) \cup {k}
    BY <1>1
  <2>2. k \notin S(k)
    BY <1>1
  <2> HIDE DEF S
  <2> QED
    BY <1>2, <2>1, <2>2, FS_AddElement
<1>6. b[k] # Gen => S(k + 1) = S(k)
  BY <1>1
<1>7. Cardinality(S(k + 1)) <= Cardinality(all)
  <2>1. S(k + 1) \subseteq all
    BY <1>1
  <2> HIDE DEF S, all
  <2> QED
    BY <1>2, <2>1, FS_Subset
<1>8. GenBefore(w, k) = Cardinality(S(k)) /\ GenBefore(w, k + 1) = Cardinality(S(k + 1))
      /\ GenBefore(w, 1) = Cardinality(S(1)) /\ Count(w) = Cardinality(all)
  BY DEF GenBefore, Count
<1> HIDE DEF S, all
<1> QED
  BY <1>1, <1>3, <1>4, <1>5, <1>6, <1>7, <1>8

(* A generated value is the next of its range.                             *)
LEMMA GeneratedIs ==
  ASSUME IInv, HeldInv, NEW w \in Workers, pc[w] \in {"check", "insert"},
         NEW k \in DOMAIN Batch(w), Batch(w)[k] = Gen
  PROVE  /\ Using(w) /\ range[w] \in ranges /\ KindOf(w, k) = range[w].kind
         /\ Value(w, k) = range[w].first + GenBefore(w, k)
         /\ InRange(range[w], Value(w, k))
         /\ range[w].first \in Nat /\ Value(w, k) \in Nat /\ GenBefore(w, k) \in Nat
<1>1. Using(w) /\ GenBefore(w, k) \in Nat /\ GenBefore(w, k) + 1 <= Count(w) /\ Count(w) \in Nat
  BY GenBeforeIs, CountType DEF IInv, Using
<1>2. range[w] \in ranges /\ range[w].last = range[w].first + Count(w) - 1
  BY <1>1 DEF HeldInv
<1>3. range[w].first \in Nat
  BY DEF IInv, TypeOK, Ranges
<1>4. Value(w, k) = range[w].first + GenBefore(w, k) /\ KindOf(w, k) = range[w].kind
  BY DEF Value, GenBefore, KindOf
<1> QED
  BY <1>1, <1>2, <1>3, <1>4 DEF InRange

(* What a step does to the ranges and their users: it hands a new one out, *)
(* or it leaves them and the worker goes at most one document further.     *)
LEMMA RangeKinds ==
  ASSUME IInv, SlotInv, HeldInv, NEW w \in Workers, Step(w)
  PROVE  \/ /\ ranges' = ranges
            /\ Using(w)' => /\ Using(w) /\ range'[w] = range[w]
                            /\ Batch(w)' = Batch(w) /\ Count(w)' = Count(w)
                            /\ \/ at'[w] = at[w]
                               \/ at[w] \in DOMAIN Batch(w) /\ at'[w] = at[w] + 1
            /\ pc'[w] = "reseed" => range'[w].last = range'[w].first + Count(w)' - 1
         \/ \E r \in Ranges \ ranges :
              /\ HandOut(w, r) /\ r.last = r.first + Count(w) - 1
              /\ Batch(w)' = Batch(w) /\ Count(w)' = Count(w)
<1> USE DEF IInv, TypeOK, Goto
<1>0. UNCHANGED task /\ Count(w) \in Nat /\ seq \in Nat
  BY OthersStay, CountType DEF SlotInv
<1>1. CASE NothingToAssign(w)
  <2>1. /\ UNCHANGED <<call, ranges>> /\ Count(w) = 0 /\ pc'[w] = Inserting(w)
    BY <1>1 DEF NothingToAssign
  <2>2. Count(w)' = 0
    BY <1>0, <2>1 DEF Count, Batch
  <2> QED
    BY <2>1, <2>2 DEF Using, Inserting
<1>2. CASE Advance(w)
  <2>1. UNCHANGED call /\ Count(w) > 0 /\ seq' = seq + Count(w)
    BY <1>2 DEF Advance
  <2>2. Count(w)' = Count(w) /\ Batch(w)' = Batch(w)
    BY <1>0, <2>1 DEF Count, Batch
  <2>3. CASE Goto(w, "max") /\ UNCHANGED <<range, ranges>>
    BY <2>3 DEF Using
  <2>4. CASE HandOut(w, Block(seq + 1, Count(w), KindNow))
    <3> DEFINE r == Block(seq + 1, Count(w), KindNow)
    <3>1. r \in Ranges
      BY <1>0, <2>1 DEF Block, Ranges, KindNow, Kinds
    <3>2. r.first = seq + 1 /\ r.last = r.first + Count(w) - 1
      BY DEF Block
    <3>3. r \notin ranges
      <4> HIDE DEF r
      <4>1. \A a \in ranges : a.first \in Nat /\ a.first <= seq
        BY <1>0 DEF RangesInv, SeqCovers, Ranges
      <4> QED
        BY <1>0, <3>2, <4>1
    <3> HIDE DEF r
    <3>4. HandOut(w, r)
      BY <2>4 DEF r
    <3> QED
      BY <2>2, <3>1, <3>2, <3>3, <3>4
  <2> QED
    BY <1>2, <2>3, <2>4 DEF Advance
<1>3. CASE ReadMax(w)
  <2>1. UNCHANGED call /\ Seeding(w)
    BY <1>3 DEF ReadMax, Seeding
  <2>2. Count(w)' = Count(w) /\ Batch(w)' = Batch(w)
    BY <1>0, <2>1 DEF Count, Batch
  <2>3. 1 <= Count(w) /\ \A r \in ranges : r.first > Count(w)
    BY <2>1 DEF RangesInv, SeedingIsAlone
  <2>4. CASE HandOut(w, Block(1, Count(w), "plain"))
    <3> DEFINE r == Block(1, Count(w), "plain")
    <3>1. r \in Ranges
      BY <1>0, <2>3 DEF Block, Ranges, Kinds
    <3>2. r.first = 1 /\ r.last = r.first + Count(w) - 1
      BY DEF Block
    <3>3. r \notin ranges
      <4> HIDE DEF r
      <4> QED
        BY <1>0, <2>3, <3>2
    <3> HIDE DEF r
    <3>4. HandOut(w, r)
      BY <2>4 DEF r
    <3> QED
      BY <2>2, <3>1, <3>2, <3>3, <3>4
  <2>5. CASE \E base : /\ range' = [range EXCEPT ![w] = Block(base, Count(w), "seeded")]
                       /\ Goto(w, "reseed") /\ UNCHANGED ranges
    <3>1. PICK base : range' = [range EXCEPT ![w] = Block(base, Count(w), "seeded")]
      BY <2>5
    <3>2. range'[w].last = range'[w].first + Count(w) - 1 /\ pc'[w] = "reseed"
      BY <2>5, <3>1 DEF Block
    <3> QED
      BY <2>2, <2>5, <3>2 DEF Using
  <2> QED
    BY <1>3, <2>4, <2>5 DEF ReadMax
<1>4. CASE Reseed(w)
  <2>1. UNCHANGED call /\ Seeding(w) /\ pc[w] = "reseed" /\ HandOut(w, range[w])
    BY <1>4 DEF Reseed, Seeding
  <2>2. Count(w)' = Count(w) /\ Batch(w)' = Batch(w)
    BY <1>0, <2>1 DEF Count, Batch
  <2>3. range[w] \notin ranges
    BY <2>1 DEF RangesInv, SeedingIsAlone
  <2>4. range[w].last = range[w].first + Count(w) - 1
    BY <2>1 DEF HeldInv
  <2> QED
    BY <2>1, <2>2, <2>3, <2>4
<1>5. CASE FindStored(w)
  <2>1. UNCHANGED <<call, range, ranges, at>> /\ pc[w] = "check" /\ pc'[w] = "insert"
    BY <1>5 DEF FindStored
  <2>2. Count(w)' = Count(w) /\ Batch(w)' = Batch(w)
    BY <1>0, <2>1 DEF Count, Batch
  <2> QED
    BY <2>1, <2>2 DEF Using
<1>6. CASE SkipDocument(w) \/ InsertPlain(w) \/ (InsertInTx(w) /\ ~Reject(w) /\ ~Restart(w))
  <2>1. /\ UNCHANGED <<call, range, ranges>> /\ Pending(w)
    BY <1>6 DEF SkipDocument, InsertPlain, InsertInTx
  <2>2. Count(w)' = Count(w) /\ Batch(w)' = Batch(w)
    BY <1>0, <2>1 DEF Count, Batch
  <2>3. \/ at'[w] = at[w] + 1 /\ pc' = pc
        \/ pc'[w] = "failed"
    BY <1>6 DEF SkipDocument, InsertPlain, InsertInTx, NextDocument
  <2> QED
    BY <2>1, <2>2, <2>3 DEF Using, Pending
<1>7. CASE (InsertInTx(w) /\ (Reject(w) \/ Restart(w))) \/ EndCall(w) \/ Commit(w) \/ Fail(w)
  <2>1. ranges' = ranges
    BY <1>7 DEF Reject, Restart, EndCall, Commit, Fail
  <2>2. pc'[w] \in {"failed", "start", "commit", "done"}
    BY <1>7 DEF Reject, Restart, EndCall, Commit, Fail
  <2> QED
    BY <2>1, <2>2 DEF Using
<1> QED
  BY <1>1, <1>2, <1>3, <1>4, <1>5, <1>6, <1>7 DEF Step

LEMMA HeldStep ==
  ASSUME IInv, SlotInv, HeldInv, NEW w \in Workers, Step(w)
  PROVE  HeldInv'
<1>1. \A x \in Workers : x # w =>
        /\ Using(x)' = Using(x) /\ range'[x] = range[x] /\ pc'[x] = pc[x]
        /\ Count(x)' = Count(x)
  BY OthersStay DEF SlotInv, Using
<1>2. CASE /\ ranges' = ranges
           /\ Using(w)' => Using(w) /\ range'[w] = range[w] /\ Count(w)' = Count(w)
           /\ pc'[w] = "reseed" => range'[w].last = range'[w].first + Count(w)' - 1
  BY <1>1, <1>2 DEF HeldInv
<1>3. CASE \E r \in Ranges \ ranges :
             /\ HandOut(w, r) /\ r.last = r.first + Count(w) - 1 /\ Count(w)' = Count(w)
  <2>1. PICK r \in Ranges \ ranges :
             /\ HandOut(w, r) /\ r.last = r.first + Count(w) - 1 /\ Count(w)' = Count(w)
    BY <1>3
  <2>2. ranges' = ranges \cup {r} /\ range'[w] = r
    BY <2>1 DEF HandOut, IInv, TypeOK
  <2>3. \A x \in Workers : x # w /\ Using(x)' => range'[x] \in ranges /\ range'[x] # r
    BY <1>1, <2>1 DEF HeldInv
  <2>4. \A x \in Workers : Using(x)' => range'[x] \in ranges'
    BY <2>2, <2>3
  <2>5. \A x \in Workers : Using(x)' \/ pc'[x] = "reseed" =>
          range'[x].last = range'[x].first + Count(x)' - 1
    BY <1>1, <2>1, <2>2 DEF HeldInv
  <2>6. \A x, y \in Workers : Using(x)' /\ Using(y)' /\ range'[x] = range'[y] => x = y
    BY <1>1, <2>2, <2>3 DEF HeldInv
  <2> QED
    BY <2>4, <2>5, <2>6 DEF HeldInv
<1> QED
  BY <1>2, <1>3, RangeKinds

LEMMA ComesStays ==
  ASSUME IInv, SlotInv, HeldInv, NEW w \in Workers, Step(w), NEW v \in Nat, NEW row,
         Comes(v, row)
  PROVE  Comes(v, row)'
<1>1. CASE row.kind = "given"
  BY <1>1 DEF Comes
<1>2. CASE row.kind # "given"
  <2>1. PICK r \in ranges :
          /\ r.kind = row.kind /\ InRange(r, v)
          /\ \A x \in Workers :
               Using(x) /\ range[x] = r => v < r.first + GenBefore(x, at[x])
    BY <1>2 DEF Comes
  <2>2. r \in ranges' /\ r.first \in Nat
    <3>1. ranges \subseteq ranges'
      BY RangeKinds DEF HandOut
    <3> QED
      BY <3>1 DEF IInv, TypeOK, Ranges
  <2>3. ASSUME NEW x \in Workers, Using(x)', range'[x] = r
        PROVE  v < r.first + GenBefore(x, at[x])'
    <3>1. CASE x # w
      <4>1. Using(x) /\ range[x] = r /\ GenBefore(x, at[x])' = GenBefore(x, at[x])
        BY <2>3, <3>1, OthersStay DEF SlotInv, Using, GenBefore
      <4> QED
        BY <2>1, <4>1
    <3>2. CASE x = w
      <4>1. CASE \E q \in Ranges \ ranges : HandOut(w, q)
        <5>1. range'[w] \notin ranges
          BY <4>1 DEF HandOut, IInv, TypeOK
        <5> QED
          BY <2>1, <2>3, <3>2, <5>1
      <4>2. CASE ~\E q \in Ranges \ ranges : HandOut(w, q)
        <5>1. /\ Using(w) /\ range[w] = r /\ Batch(w)' = Batch(w)
              /\ at'[w] = at[w] \/ (at[w] \in DOMAIN Batch(w) /\ at'[w] = at[w] + 1)
          BY <2>3, <3>2, <4>2, RangeKinds
        <5>2. v < r.first + GenBefore(w, at[w])
          BY <2>1, <5>1
        <5>3. CASE at'[w] = at[w]
          BY <3>2, <5>1, <5>2, <5>3 DEF GenBefore
        <5>4. CASE at[w] \in DOMAIN Batch(w) /\ at'[w] = at[w] + 1
          <6>1. GenBefore(w, at[w])' = GenBefore(w, at[w] + 1)
            BY <5>1, <5>4 DEF GenBefore
          <6>2. /\ GenBefore(w, at[w] + 1) \in Nat /\ GenBefore(w, at[w]) \in Nat
                /\ GenBefore(w, at[w] + 1) >= GenBefore(w, at[w])
            BY <5>4, GenBeforeIs DEF IInv
          <6> QED
            BY <2>2, <3>2, <5>2, <6>1, <6>2
        <5> QED
          BY <5>1, <5>3, <5>4
      <4> QED
        BY <4>1, <4>2
    <3> QED
      BY <3>1, <3>2
  <2> QED
    BY <2>1, <2>2, <2>3 DEF Comes, InRange
<1> QED
  BY <1>1, <1>2

(* The row a worker writes comes from its own range.                       *)
LEMMA NewComes ==
  ASSUME IInv, SlotInv, HeldInv, NEW w \in Workers, Step(w), Pending(w),
         pc' = pc, at'[w] = at[w] + 1, UNCHANGED <<call, range, ranges>>,
         NEW v, v = Value(w, at[w]), NEW row, row = Row(w, at[w])
  PROVE  v \in Nat /\ Comes(v, row)'
<1> DEFINE k == at[w]
           r == range[w]
<1>1. k \in DOMAIN Batch(w) /\ pc[w] = "insert" /\ v \in Nat
  BY ValueType DEF Pending, IInv
<1>2. CASE Batch(w)[k] # Gen
  BY <1>1, <1>2 DEF Comes, Row, KindOf
<1>3. CASE Batch(w)[k] = Gen
  <2>1. /\ Using(w) /\ r \in ranges /\ row.kind = r.kind
        /\ v = r.first + GenBefore(w, k) /\ InRange(r, v)
        /\ r.first \in Nat /\ GenBefore(w, k) \in Nat
    BY <1>1, <1>3, GeneratedIs DEF Row
  <2>2. UNCHANGED task
    BY OthersStay DEF SlotInv
  <2>3. \A x \in Workers : Using(x)' = Using(x) /\ range'[x] = range[x]
    BY <2>2 DEF Using, Count, Batch
  <2>4. ASSUME NEW x \in Workers, Using(x)', range'[x] = r
        PROVE  v < r.first + GenBefore(x, at[x])'
    <3>1. x = w
      BY <2>1, <2>3, <2>4 DEF HeldInv
    <3>2. GenBefore(w, at[w])' = GenBefore(w, k + 1)
      BY <2>2 DEF GenBefore, Batch
    <3>3. GenBefore(w, k + 1) = GenBefore(w, k) + 1
      BY <1>1, <1>3, GenBeforeIs DEF IInv
    <3> QED
      BY <2>1, <3>1, <3>2, <3>3
  <2> QED
    BY <1>1, <2>1, <2>4 DEF Comes, InRange
<1> QED
  BY <1>1, <1>2, <1>3

LEMMA OriginStep ==
  ASSUME IInv, SlotInv, HeldInv, OriginInv, NEW w \in Workers, Step(w)
  PROVE  OriginInv'
<1> DEFINE v == Value(w, at[w])
           row == Row(w, at[w])
<1>0. /\ mine = [x \in Workers |-> mine[x]] /\ DOMAIN (<<>>) = {}
      /\ DOMAIN docs \subseteq Nat /\ \A x \in Workers : DOMAIN mine[x] \subseteq Nat
  BY DEF IInv, TypeOK, RowsOK
<1>1. /\ \A y \in DOMAIN docs : Comes(y, docs[y])
      /\ \A x \in Workers : \A y \in DOMAIN mine[x] : Comes(y, mine[x][y])
  BY DEF OriginInv
<1>2. \A y \in Nat : \A q : Comes(y, q) => Comes(y, q)'
  BY ComesStays
<1>3. /\ DOMAIN docs \subseteq DOMAIN docs'
      /\ \A y \in DOMAIN docs' : \A q : q = docs'[y] => Comes(y, q)'
      /\ \A x \in Workers : \A y \in DOMAIN mine'[x] : \A q : q = mine'[x][y] => Comes(y, q)'
  <2>1. CASE UNCHANGED <<docs, mine>>
    BY <1>0, <1>1, <1>2, <2>1
  <2>2. CASE UNCHANGED docs /\ mine' = [mine EXCEPT ![w] = <<>>]
    <3>1. \A x \in Workers : mine'[x] = IF x = w THEN <<>> ELSE mine[x]
      BY <1>0, <2>2
    <3> QED
      BY <1>0, <1>1, <1>2, <2>2, <3>1
  <2>3. CASE /\ InsertPlain(w) /\ UNCHANGED mine /\ v \notin DOMAIN docs
             /\ docs' = Extend(docs, v, row)
    <3>1. /\ Pending(w) /\ pc' = pc /\ at'[w] = at[w] + 1 /\ UNCHANGED <<call, range, ranges>>
      BY <2>3 DEF InsertPlain, NextDocument, IInv, TypeOK
    <3>2. \A y, q : y = v /\ q = row => y \in Nat /\ Comes(y, q)'
      BY <3>1, NewComes
    <3> HIDE DEF v, row
    <3>3. /\ DOMAIN docs' = DOMAIN docs \cup {v} /\ docs'[v] = row
          /\ \A y \in DOMAIN docs : docs'[y] = docs[y]
      BY <2>3 DEF Extend
    <3> QED
      BY <1>0, <1>1, <1>2, <2>3, <3>2, <3>3
  <2>4. CASE /\ InsertInTx(w) /\ UNCHANGED docs /\ v \notin DOMAIN docs \cup DOMAIN mine[w]
             /\ mine' = [mine EXCEPT ![w] = Extend(mine[w], v, row)]
    <3>1. mine'[w] = Extend(mine[w], v, row) /\ \A x \in Workers : x # w => mine'[x] = mine[x]
      BY <1>0, <2>4
    <3>2. /\ DOMAIN mine'[w] = DOMAIN mine[w] \cup {v} /\ mine'[w][v] = row
          /\ \A y \in DOMAIN mine[w] : mine'[w][y] = mine[w][y]
      <4> HIDE DEF v, row
      <4> QED
        BY <2>4, <3>1 DEF Extend
    <3>3. ~Reject(w) /\ ~Restart(w)
      <4>1. v \in DOMAIN mine'[w]
        BY <3>2
      <4> QED
        BY <1>0, <4>1 DEF Reject, Restart
    <3>4. /\ Pending(w) /\ pc' = pc /\ at'[w] = at[w] + 1 /\ UNCHANGED <<call, range, ranges>>
      BY <2>4, <3>3 DEF InsertInTx, NextDocument, IInv, TypeOK
    <3>5. \A y, q : y = v /\ q = row => y \in Nat /\ Comes(y, q)'
      BY <3>4, NewComes
    <3> HIDE DEF v, row
    <3>6. \A y \in DOMAIN mine'[w] : \A q : q = mine'[w][y] => Comes(y, q)'
      BY <1>0, <1>1, <1>2, <2>4, <3>2, <3>5
    <3>7. \A y \in DOMAIN docs' : \A q : q = docs'[y] => Comes(y, q)'
      BY <1>0, <1>1, <1>2, <2>4
    <3>8. \A x \in Workers : x # w =>
            \A y \in DOMAIN mine'[x] : \A q : q = mine'[x][y] => Comes(y, q)'
      BY <1>0, <1>1, <1>2, <3>1
    <3> QED
      BY <2>4, <3>6, <3>7, <3>8
  <2>5. CASE Commit(w)
    <3>1. /\ DOMAIN docs' = DOMAIN docs \cup DOMAIN mine[w]
          /\ \A y \in DOMAIN mine[w] : docs'[y] = mine[w][y]
          /\ \A y \in DOMAIN docs \ DOMAIN mine[w] : docs'[y] = docs[y]
      BY <2>5, CommitIs DEF IInv
    <3>2. \A x \in Workers : mine'[x] = IF x = w THEN <<>> ELSE mine[x]
      BY <1>0, <2>5, CommitIs DEF IInv
    <3>3. \A y \in DOMAIN docs' : \A q : q = docs'[y] => Comes(y, q)'
      BY <1>0, <1>1, <1>2, <3>1
    <3>4. \A x \in Workers : \A y \in DOMAIN mine'[x] : \A q : q = mine'[x][y] => Comes(y, q)'
      BY <1>0, <1>1, <1>2, <3>2
    <3> QED
      BY <3>1, <3>3, <3>4
  <2> QED
    BY <2>1, <2>2, <2>3, <2>4, <2>5, WriteKinds
<1>4. \A x \in Workers : UNION view'[x] \subseteq DOMAIN docs'
  <2>1. \A x \in Workers : UNION view[x] \subseteq DOMAIN docs
    BY DEF OriginInv
  <2>2. view' = view \/ Snapshot(w) \/ view' = [view EXCEPT ![w] = {}]
    BY DEF Step, NothingToAssign, Advance, ReadMax, Reseed, FindStored, SkipDocument,
           InsertPlain, InsertInTx, EndCall, Commit, Fail, Reject, Restart
  <2>3. \A x \in Workers : view'[x] \in {view[x], {}, {DOMAIN docs}}
    BY <2>2 DEF Snapshot, IInv, RowsOK
  <2> QED
    BY <1>3, <2>1, <2>3
<1> QED
  BY <1>3, <1>4 DEF OriginInv, Comes

LEMMA CoverStep ==
  ASSUME IInv, SlotInv, CoverInv, NEW w \in Workers, Step(w)
  PROVE  CoverInv'
<1> USE DEF IInv, TypeOK, Goto
<1>0. /\ \A x \in Workers : x # w => pc'[x] = pc[x] /\ range'[x] = range[x]
      /\ seq \in Nat /\ covered \subseteq Nat /\ Seen(w) \subseteq Nat /\ Count(w) \in Nat
      /\ \A r \in ranges : r.first \in Nat /\ r.last \in Nat
  BY OthersStay, SeenType, CountType DEF SlotInv, Ranges
<1>1. CASE Advance(w)
  <2>1. UNCHANGED covered /\ Count(w) > 0 /\ seq' = seq + Count(w)
    BY <1>1 DEF Advance
  <2>2. CASE Goto(w, "max") /\ UNCHANGED <<range, ranges>>
    BY <1>0, <2>1, <2>2 DEF CoverInv
  <2>3. CASE HandOut(w, Block(seq + 1, Count(w), KindNow))
    <3>1. PICK r : r = Block(seq + 1, Count(w), KindNow)
      OBVIOUS
    <3>2. /\ r.first = seq + 1 /\ r.kind = KindNow /\ ranges' = ranges \cup {r}
          /\ pc'[w] \in {"check", "insert"}
      BY <2>3, <3>1 DEF Block, HandOut, Inserting
    <3>3. r.kind \notin {"plain", "seeded"}
      BY <3>2 DEF KindNow
    <3>4. r.kind = "later" => \E a \in ranges : a.kind \in {"plain", "seeded"}
      BY <3>2 DEF KindNow
    <3>5. r.kind = "later" => \A c \in covered : c < r.first
      BY <1>0, <3>2, <3>4 DEF CoverInv
    <3>6. \A a \in ranges' : a.kind \in {"seeded", "later"} => \A c \in covered' : c < a.first
      BY <2>1, <3>2, <3>3, <3>5 DEF CoverInv
    <3>7. (\E a \in ranges' : a.kind \in {"plain", "seeded"}) => \A c \in covered' : c <= seq'
      BY <1>0, <2>1, <3>2, <3>3 DEF CoverInv
    <3>8. \A x \in Workers : pc'[x] = "reseed" => \A c \in covered' : c < range'[x].first
      BY <1>0, <2>1, <3>2 DEF CoverInv
    <3> QED
      BY <3>6, <3>7, <3>8 DEF CoverInv
  <2> QED
    BY <1>1, <2>2, <2>3 DEF Advance
<1>2. CASE ReadMax(w)
  <2>1. /\ UNCHANGED seq /\ covered' = Seen(w) /\ Seeding(w)
    BY <1>2 DEF ReadMax, Seeding
  <2>2. /\ 1 <= Count(w) /\ Count(w) <= seq
        /\ \A r \in ranges : r.kind = "early"
        /\ \A x \in Workers : Seeding(x) => x = w
    BY <2>1 DEF RangesInv, SeedingIsAlone
  <2>3. \A x \in Workers : x # w => pc'[x] # "reseed"
    BY <1>0, <2>2 DEF Seeding
  <2>4. PICK max \in Seen(w) \cup {0} :
          /\ \A v \in Seen(w) : v <= max
          /\ LET base == IF max + 1 > start THEN max + 1 ELSE start IN
               IF base > Count(w)
               THEN /\ range' = [range EXCEPT ![w] = Block(base, Count(w), "seeded")]
                    /\ Goto(w, "reseed")
                    /\ UNCHANGED ranges
               ELSE HandOut(w, Block(1, Count(w), "plain"))
    BY <1>2 DEF ReadMax
  <2> DEFINE base == IF max + 1 > start THEN max + 1 ELSE start
  <2>5. base \in Nat /\ \A c \in covered' : c \in Nat /\ c < base
    BY <1>0, <2>1, <2>4, StartsAssumption
  <2>6. CASE base > Count(w)
    <3>1. range'[w].first = base /\ ranges' = ranges
      BY <2>4, <2>6 DEF Block
    <3> HIDE DEF base
    <3> QED
      BY <2>2, <2>3, <2>5, <3>1 DEF CoverInv
  <2>7. CASE ~(base > Count(w))
    <3>1. PICK r : r = Block(1, Count(w), "plain")
      OBVIOUS
    <3>2. r.kind = "plain" /\ ranges' = ranges \cup {r} /\ pc'[w] \in {"check", "insert"}
      BY <2>4, <2>7, <3>1 DEF Block, HandOut, Inserting
    <3>3. \A c \in covered' : c <= seq'
      BY <1>0, <2>1, <2>2, <2>5, <2>7
    <3> QED
      BY <2>2, <2>3, <3>2, <3>3 DEF CoverInv
  <2> QED
    BY <2>6, <2>7
<1>3. CASE Reseed(w)
  <2>1. /\ UNCHANGED covered /\ Seeding(w) /\ pc[w] = "reseed"
        /\ seq' = IF range[w].last > seq THEN range[w].last ELSE seq
        /\ ranges' = ranges \cup {range[w]} /\ pc'[w] \in {"check", "insert"}
    BY <1>3 DEF Reseed, Seeding, HandOut, Inserting
  <2>2. /\ range[w].first <= range[w].last
        /\ \A r \in ranges : r.kind = "early"
        /\ \A x \in Workers : Seeding(x) => x = w
    BY <2>1 DEF RangesInv, SeedingIsAlone
  <2>3. \A x \in Workers : x # w => pc'[x] # "reseed"
    BY <1>0, <2>2 DEF Seeding
  <2>4. range[w].first \in Nat /\ range[w].last \in Nat
    BY DEF Ranges
  <2>5. \A c \in covered : c < range[w].first
    BY <2>1 DEF CoverInv
  <2>6. \A c \in covered' : c <= seq'
    BY <1>0, <2>1, <2>2, <2>4, <2>5
  <2> QED
    BY <2>1, <2>2, <2>3, <2>5, <2>6 DEF CoverInv
<1>4. CASE ~Advance(w) /\ ~ReadMax(w) /\ ~Reseed(w)
  <2>1. UNCHANGED <<seq, ranges, covered>> /\ pc'[w] # "reseed"
    <3>1. CASE NothingToAssign(w) \/ FindStored(w) \/ Commit(w)
      BY <3>1 DEF NothingToAssign, FindStored, Commit, Inserting
    <3>2. CASE SkipDocument(w) \/ InsertPlain(w)
      BY <3>2 DEF SkipDocument, InsertPlain, Pending
    <3>3. CASE InsertInTx(w)
      BY <3>3 DEF InsertInTx, Pending, Reject, Restart
    <3>4. CASE EndCall(w) \/ Fail(w)
      BY <3>4 DEF EndCall, Fail, Reject
    <3> QED
      BY <1>4, <3>1, <3>2, <3>3, <3>4 DEF Step
  <2> QED
    BY <1>0, <2>1 DEF CoverInv
<1> QED
  BY <1>1, <1>2, <1>3, <1>4

(* A document that meets a stored row has a reason.                        *)
LEMMA ClashReason ==
  ASSUME IInv, HeldInv, OriginInv, CoverInv, NEW w \in Workers,
         NEW k \in DOMAIN Batch(w), Value(w, k) \in DOMAIN docs \cup DOMAIN mine[w],
         (pc[w] = "check" /\ at[w] = 1) \/ (pc[w] = "insert" /\ at[w] = k)
  PROVE  LET c == Clash(w, k) IN
           \/ c.new = "given"
           \/ c.stored = "given" /\ ~(c.covered /\ c.new \in {"seeded", "later"})
           \/ {c.new, c.stored} = {"seeded", "early"}
<1> DEFINE v == Value(w, k)
           r == range[w]
<1>1. CASE Batch(w)[k] # Gen
  BY <1>1 DEF Clash, KindOf
<1>2. CASE Batch(w)[k] = Gen
  <2>1. /\ Using(w) /\ r \in ranges /\ KindOf(w, k) = r.kind
        /\ v = r.first + GenBefore(w, k) /\ InRange(r, v)
        /\ r.first \in Nat /\ v \in Nat /\ GenBefore(w, k) \in Nat
    BY <1>2, GeneratedIs
  <2>2. Comes(v, SeenRow(w, v))
    BY DEF OriginInv, SeenRow
  <2>3. Clash(w, k).new = r.kind /\ Clash(w, k).stored = SeenRow(w, v).kind
        /\ Clash(w, k).covered = (v \in covered)
    BY <2>1 DEF Clash
  <2>4. CASE SeenRow(w, v).kind = "given"
    <3>1. r.kind \in {"seeded", "later"} => v \notin covered
      BY <2>1 DEF CoverInv, InRange, IInv, TypeOK
    <3> QED
      BY <2>3, <2>4, <3>1
  <2>5. CASE SeenRow(w, v).kind # "given"
    <3>1. PICK q \in ranges :
            /\ q.kind = SeenRow(w, v).kind /\ InRange(q, v)
            /\ Using(w) /\ range[w] = q => v < q.first + GenBefore(w, at[w])
      BY <2>2, <2>5 DEF Comes
    <3>2. q # r
      <4>1. GenBefore(w, 1) = 0
        BY GenBeforeIs DEF IInv
      <4>2. GenBefore(w, at[w]) <= GenBefore(w, k)
        BY <2>1, <4>1
      <4> QED
        BY <2>1, <3>1, <4>1
    <3>3. Overlap(q, r)
      BY <2>1, <3>1 DEF Overlap, InRange, IInv, TypeOK, Ranges
    <3>4. {q.kind, r.kind} = {"seeded", "early"}
      BY <2>1, <3>2, <3>3 DEF IInv, RangesInv, RangesOverlapOnlyAtSeed
    <3> QED
      BY <2>3, <3>1, <3>4
  <2> QED
    BY <2>4, <2>5
<1> QED
  BY <1>1, <1>2

LEMMA ClashStep ==
  ASSUME IInv, SlotInv, ClashInv, NEW w \in Workers, Step(w)
  PROVE  ClashesHaveReason'
<1>1. \A c \in clashes' \ clashes :
        \E k \in DOMAIN Batch(w) :
          /\ c = Clash(w, k) /\ Value(w, k) \in DOMAIN docs \cup DOMAIN mine[w]
          /\ (pc[w] = "check" /\ at[w] = 1) \/ (pc[w] = "insert" /\ at[w] = k)
  <2>0. Seen(w) \subseteq DOMAIN docs \cup DOMAIN mine[w]
    BY DEF Seen, ClashInv, OriginInv
  <2>1. CASE FindStored(w)
    <3>1. at[w] = 1 /\ pc[w] = "check"
      BY <2>1 DEF FindStored, SlotInv, SlotOK
    <3>2. clashes' = clashes \cup
            {Clash(w, k) : k \in {j \in DOMAIN Batch(w) : Value(w, j) \in Seen(w)}}
      BY <2>1 DEF FindStored
    <3> QED
      BY <2>0, <3>1, <3>2
  <2>2. CASE InsertPlain(w)
    <3>1. clashes' = clashes \/ (/\ Value(w, at[w]) \in DOMAIN docs
                                /\ clashes' = clashes \cup {Clash(w, at[w])})
      BY <2>2 DEF InsertPlain
    <3> QED
      BY <2>2, <3>1 DEF InsertPlain, Pending
  <2>3. CASE InsertInTx(w)
    BY <2>0, <2>3 DEF InsertInTx, Pending, Reject, Restart
  <2>4. CASE clashes' = clashes
    BY <2>4
  <2> QED
    BY <2>1, <2>2, <2>3, <2>4 DEF Step, NothingToAssign, Advance, ReadMax, Reseed,
       SkipDocument, EndCall, Commit, Fail
<1> QED
  BY <1>1, ClashReason DEF ClashInv, ClashesHaveReason

(* A generated value meets a stored one only where the code lets it, for   *)
(* any workers, batches, stored rows, start values, conflicts, restarts    *)
(* and failing calls (mongo-adapter.ts:1872-1912).                         *)
THEOREM ClashesExplained == Spec => []ClashesHaveReason
<1>1. Init => SlotInv /\ ClashInv
  <2> SUFFICES ASSUME Init PROVE SlotInv /\ ClashInv
    OBVIOUS
  <2>1. \A w \in Workers : /\ Batch(w) \in Seq(Nat) /\ Len(task[w].batches) \in Nat \ {0}
                           /\ DOMAIN task[w].batches = 1..Len(task[w].batches)
    BY PlansAssumption DEF Init, Task, Batch
  <2>2. SlotInv
    BY <2>1 DEF Init, SlotInv, CallTypes, SlotOK
  <2>3. HeldInv /\ CoverInv /\ ClashesHaveReason
    BY DEF Init, HeldInv, Using, CoverInv, ClashesHaveReason
  <2>4. OriginInv
    BY DEF Init, OriginInv, Comes
  <2> QED
    BY <2>2, <2>3, <2>4 DEF ClashInv
<1>2. IInv /\ SlotInv /\ ClashInv /\ [Next]_vars => SlotInv' /\ ClashInv'
  <2> SUFFICES ASSUME IInv, SlotInv, ClashInv, [Next]_vars PROVE SlotInv' /\ ClashInv'
    OBVIOUS
  <2>1. CASE UNCHANGED vars
    <3>1. SlotInv'
      BY <2>1 DEF vars, SlotInv, CallTypes, SlotOK, Batch
    <3>2. HeldInv'
      BY <2>1 DEF vars, ClashInv, HeldInv, Using, Count, Batch
    <3>3. OriginInv'
      <4>1. /\ UNCHANGED <<docs, mine, view>>
            /\ \A v, q : Comes(v, q) => Comes(v, q)'
        BY <2>1 DEF vars, Comes, Using, Count, Batch, GenBefore
      <4>2. /\ \A v \in DOMAIN docs' : \A q : q = docs'[v] => Comes(v, q)'
            /\ \A w \in Workers : \A v \in DOMAIN mine'[w] :
                 \A q : q = mine'[w][v] => Comes(v, q)'
        BY <4>1 DEF ClashInv, OriginInv
      <4> QED
        BY <4>1, <4>2 DEF ClashInv, OriginInv, Comes
    <3>4. CoverInv' /\ ClashesHaveReason'
      BY <2>1 DEF vars, ClashInv, CoverInv, ClashesHaveReason
    <3> QED
      BY <3>1, <3>2, <3>3, <3>4 DEF ClashInv
  <2>2. CASE Next
    <3>1. PICK w \in Workers : Step(w)
      BY <2>2 DEF Next, Step
    <3> QED
      BY <3>1, SlotStep, HeldStep, OriginStep, CoverStep, ClashStep DEF ClashInv
  <2> QED
    BY <2>1, <2>2
<1>3. ClashInv => ClashesHaveReason
  BY DEF ClashInv
<1> QED
  BY <1>1, <1>2, <1>3, CountersInvariant, PTL DEF Spec
=============================================================================
