----------------------------- MODULE LockProofs -----------------------------
(***************************************************************************)
(* Theorems about the two locks of this code: the transaction gate of one  *)
(* SQLite connection (SqliteTxGate), in one process, and the sync lock in  *)
(* the control table (SyncLock), between processes.                        *)
(*                                                                         *)
(* The gate, for any set of contexts, any number of calls, with or without *)
(* timeouts and failing statements: type correctness, one holder at a      *)
(* time, no forgotten waiter, no BEGIN inside an open SQL transaction, and *)
(* -- when COMMIT does not throw -- that the gate implements a serial      *)
(* connection.                                                             *)
(*                                                                         *)
(* None of these is inductive alone.  The inductive invariant adds that a  *)
(* context has a job queued exactly when its phase says so, who owns the   *)
(* gate in which phase, whose SQL transaction is open in which phase, and  *)
(* the order that makes a failed COMMIT harmless to the next transaction:  *)
(* a pending ROLLBACK is queued before every pending BEGIN.                *)
(*                                                                         *)
(* The sync lock, for any set of runs and any timing constants: type       *)
(* correctness; with a podId of its own per run, that nobody touches       *)
(* another run's live lock and that only a run that has lost its lock      *)
(* aborts; and, when calls are served in time and the heartbeat interval   *)
(* fits into the TTL, mutual exclusion.                                    *)
(***************************************************************************)
EXTENDS SyncLock, SqliteTxGate, SequenceTheorems, TLAPS

-----------------------------------------------------------------------------
(* Queues without repetition: what taking the head, adding one or several  *)
(* elements at the end and removing one do to the members and their order  *)

(* Every member of F stands in q before every member of G.                 *)
Before(q, F, G) ==
  \A i, j \in DOMAIN q : q[i] \in F /\ q[j] \in G => i < j

(* Taking the head of a queue removes just that member, and keeps the      *)
(* order of the others.                                                    *)
LEMMA TailOfQueue ==
  ASSUME NEW S, NEW q \in Seq(S), q # <<>>, IsInjective(q)
  PROVE  /\ Head(q) \in S
         /\ Contains(q, Head(q))
         /\ Tail(q) \in Seq(S)
         /\ IsInjective(Tail(q))
         /\ \A e \in S : Contains(Tail(q), e) <=> Contains(q, e) /\ e # Head(q)
         /\ \A F, G : Before(q, F, G) => Before(Tail(q), F, G)
<1>1. /\ Len(q) \in Nat \ {0} /\ DOMAIN q = 1 .. Len(q)
      /\ Head(q) = q[1] /\ Head(q) \in S
  BY EmptySeq, LenProperties, HeadTailProperties
<1>2. /\ Tail(q) \in Seq(S)
      /\ Len(Tail(q)) = Len(q) - 1
      /\ \A i \in 1 .. Len(q) - 1 : Tail(q)[i] = q[i + 1]
      /\ DOMAIN Tail(q) = 1 .. Len(q) - 1
  BY <1>1, HeadTailProperties, LenProperties
<1>3. IsInjective(Tail(q))
  <2> SUFFICES ASSUME NEW i \in 1 .. Len(q) - 1, NEW j \in 1 .. Len(q) - 1,
                      Tail(q)[i] = Tail(q)[j]
               PROVE  i = j
    BY <1>2 DEF IsInjective
  <2>1. q[i + 1] = q[j + 1] /\ i + 1 \in DOMAIN q /\ j + 1 \in DOMAIN q
    BY <1>1, <1>2
  <2>2. i + 1 = j + 1
    BY <2>1 DEF IsInjective
  <2> QED BY <2>2, <1>1
<1>4. ASSUME NEW e \in S
      PROVE  Contains(Tail(q), e) <=> Contains(q, e) /\ e # Head(q)
  <2>1. ASSUME Contains(Tail(q), e) PROVE Contains(q, e) /\ e # Head(q)
    <3>1. PICK i \in 1 .. Len(q) - 1 : Tail(q)[i] = e
      BY <2>1, <1>2 DEF Contains
    <3>2. i + 1 \in 1 .. Len(q) /\ q[i + 1] = e /\ i + 1 # 1
      BY <3>1, <1>1, <1>2
    <3>3. q[1] # e
      BY <3>2, <1>1 DEF IsInjective
    <3> QED BY <3>2, <3>3, <1>1 DEF Contains
  <2>2. ASSUME Contains(q, e), e # Head(q) PROVE Contains(Tail(q), e)
    <3>1. PICK i \in 1 .. Len(q) : q[i] = e
      BY <2>2 DEF Contains
    <3>2. i # 1
      BY <3>1, <2>2, <1>1
    <3>3. i - 1 \in 1 .. Len(q) - 1 /\ Tail(q)[i - 1] = e
      BY <3>1, <3>2, <1>1, <1>2
    <3> QED BY <3>3, <1>2 DEF Contains
  <2> QED BY <2>1, <2>2
<1>5. ASSUME NEW F, NEW G, Before(q, F, G) PROVE Before(Tail(q), F, G)
  <2> SUFFICES ASSUME NEW i \in 1 .. Len(q) - 1, NEW j \in 1 .. Len(q) - 1,
                      Tail(q)[i] \in F, Tail(q)[j] \in G
               PROVE  i < j
    BY <1>2 DEF Before
  <2>1. /\ i + 1 \in DOMAIN q /\ j + 1 \in DOMAIN q
        /\ q[i + 1] \in F /\ q[j + 1] \in G
    BY <1>1, <1>2
  <2>2. i + 1 < j + 1
    BY <2>1, <1>5 DEF Before
  <2> QED BY <2>2, <1>1
<1>6. Contains(q, Head(q))
  BY <1>1 DEF Contains
<1> QED BY <1>1, <1>2, <1>3, <1>4, <1>5, <1>6

(* Joining two queues that share no member: the members are those of both, *)
(* and an order between members of the first one, or from the first to the *)
(* second, is kept.                                                        *)
LEMMA ConcatOfQueues ==
  ASSUME NEW S, NEW q \in Seq(S), NEW r \in Seq(S),
         IsInjective(q), IsInjective(r),
         \A e \in S : ~(Contains(q, e) /\ Contains(r, e))
  PROVE  /\ q \o r \in Seq(S)
         /\ IsInjective(q \o r)
         /\ \A e \in S : Contains(q \o r, e) <=> Contains(q, e) \/ Contains(r, e)
         /\ \A F, G : Before(q, F, G) /\ (\A e \in F : ~Contains(r, e))
                      => Before(q \o r, F, G)
<1>1. /\ Len(q) \in Nat /\ DOMAIN q = 1 .. Len(q)
      /\ Len(r) \in Nat /\ DOMAIN r = 1 .. Len(r)
  BY LenProperties
<1>2. /\ q \o r \in Seq(S)
      /\ Len(q \o r) = Len(q) + Len(r)
      /\ \A i \in 1 .. Len(q) + Len(r) :
            (q \o r)[i] = IF i <= Len(q) THEN q[i] ELSE r[i - Len(q)]
  BY ConcatProperties
<1>3. DOMAIN (q \o r) = 1 .. Len(q) + Len(r)
  BY <1>2, LenProperties
<1>4. ASSUME NEW i \in 1 .. Len(q) + Len(r), i > Len(q)
      PROVE  i - Len(q) \in 1 .. Len(r) /\ (q \o r)[i] = r[i - Len(q)]
  BY <1>1, <1>2, <1>4
<1>5. ASSUME NEW i \in 1 .. Len(q)
      PROVE  i \in 1 .. Len(q) + Len(r) /\ (q \o r)[i] = q[i]
  BY <1>1, <1>2
<1>6. ASSUME NEW i \in 1 .. Len(r)
      PROVE  Len(q) + i \in 1 .. Len(q) + Len(r) /\ (q \o r)[Len(q) + i] = r[i]
  <2>1. Len(q) + i \in 1 .. Len(q) + Len(r) /\ Len(q) + i > Len(q)
    BY <1>1
  <2>2. (Len(q) + i) - Len(q) = i
    BY <1>1
  <2> QED BY <2>1, <2>2, <1>4
<1>7. ASSUME NEW e \in S
      PROVE  Contains(q \o r, e) <=> Contains(q, e) \/ Contains(r, e)
  <2>1. ASSUME Contains(q \o r, e) PROVE Contains(q, e) \/ Contains(r, e)
    <3>1. PICK i \in 1 .. Len(q) + Len(r) : (q \o r)[i] = e
      BY <2>1, <1>2 DEF Contains
    <3>2. CASE i <= Len(q)
      <4>1. i \in 1 .. Len(q)
        BY <3>2, <1>1
      <4> QED BY <4>1, <3>1, <1>5 DEF Contains
    <3>3. CASE i > Len(q)
      BY <3>1, <3>3, <1>4 DEF Contains
    <3> QED BY <3>2, <3>3, <1>1
  <2>2. ASSUME Contains(q, e) PROVE Contains(q \o r, e)
    BY <2>2, <1>5, <1>2 DEF Contains
  <2>3. ASSUME Contains(r, e) PROVE Contains(q \o r, e)
    BY <2>3, <1>6, <1>2 DEF Contains
  <2> QED BY <2>1, <2>2, <2>3
<1>8. IsInjective(q \o r)
  <2> SUFFICES ASSUME NEW i \in 1 .. Len(q) + Len(r),
                      NEW j \in 1 .. Len(q) + Len(r),
                      (q \o r)[i] = (q \o r)[j]
               PROVE  i = j
    BY <1>3 DEF IsInjective
  <2>1. CASE i <= Len(q) /\ j <= Len(q)
    <3>1. i \in DOMAIN q /\ j \in DOMAIN q /\ q[i] = q[j]
      BY <2>1, <1>1, <1>2
    <3> QED BY <3>1 DEF IsInjective
  <2>2. CASE i > Len(q) /\ j > Len(q)
    <3>1. /\ i - Len(q) \in DOMAIN r /\ j - Len(q) \in DOMAIN r
          /\ r[i - Len(q)] = r[j - Len(q)]
      BY <2>2, <1>1, <1>4
    <3>2. i - Len(q) = j - Len(q)
      BY <3>1 DEF IsInjective
    <3> QED BY <3>2, <1>1
  <2>3. CASE i <= Len(q) /\ j > Len(q)
    <3>1. i \in 1 .. Len(q) /\ q[i] \in S /\ Contains(q, q[i])
      BY <2>3, <1>1, ElementOfSeq DEF Contains
    <3>2. j - Len(q) \in 1 .. Len(r) /\ r[j - Len(q)] = q[i]
      BY <2>3, <3>1, <1>4, <1>5
    <3>3. Contains(r, q[i])
      BY <3>2 DEF Contains
    <3> QED BY <3>1, <3>3
  <2>4. CASE i > Len(q) /\ j <= Len(q)
    <3>1. j \in 1 .. Len(q) /\ q[j] \in S /\ Contains(q, q[j])
      BY <2>4, <1>1, ElementOfSeq DEF Contains
    <3>2. i - Len(q) \in 1 .. Len(r) /\ r[i - Len(q)] = q[j]
      BY <2>4, <3>1, <1>4, <1>5
    <3>3. Contains(r, q[j])
      BY <3>2 DEF Contains
    <3> QED BY <3>1, <3>3
  <2> QED BY <2>1, <2>2, <2>3, <2>4, <1>1
<1>9. ASSUME NEW F, NEW G, Before(q, F, G), \A e \in F : ~Contains(r, e)
      PROVE  Before(q \o r, F, G)
  <2> SUFFICES ASSUME NEW i \in 1 .. Len(q) + Len(r),
                      NEW j \in 1 .. Len(q) + Len(r),
                      (q \o r)[i] \in F, (q \o r)[j] \in G
               PROVE  i < j
    BY <1>3 DEF Before
  <2>1. i <= Len(q)
    <3> SUFFICES ASSUME i > Len(q) PROVE FALSE
      BY <1>1
    <3>1. i - Len(q) \in 1 .. Len(r) /\ (q \o r)[i] = r[i - Len(q)]
      BY <1>4
    <3>2. Contains(r, (q \o r)[i])
      BY <3>1 DEF Contains
    <3> QED BY <3>2, <1>9
  <2>2. i \in DOMAIN q /\ q[i] \in F
    BY <2>1, <1>1, <1>2
  <2>3. CASE j <= Len(q)
    <3>1. j \in DOMAIN q /\ q[j] \in G
      BY <2>3, <1>1, <1>2
    <3> QED BY <2>2, <3>1, <1>9 DEF Before
  <2>4. CASE j > Len(q)
    BY <2>1, <2>4, <1>1
  <2> QED BY <2>3, <2>4, <1>1
<1> QED BY <1>2, <1>7, <1>8, <1>9

(* A queue of one.                                                         *)
LEMMA SingletonQueue ==
  ASSUME NEW S, NEW e \in S
  PROVE  /\ <<e>> \in Seq(S)
         /\ IsInjective(<<e>>)
         /\ \A d \in S : Contains(<<e>>, d) <=> d = e
<1>1. <<e>> \in Seq(S) /\ Len(<<e>>) = 1 /\ <<e>>[1] = e /\ DOMAIN <<e>> = {1}
  OBVIOUS
<1> QED BY <1>1 DEF IsInjective, Contains

(* Adding a new member at the end.  It comes after all of F.               *)
LEMMA AppendToQueue ==
  ASSUME NEW S, NEW q \in Seq(S), NEW d \in S,
         IsInjective(q), ~Contains(q, d)
  PROVE  /\ Append(q, d) \in Seq(S)
         /\ IsInjective(Append(q, d))
         /\ \A e \in S : Contains(Append(q, d), e) <=> Contains(q, e) \/ e = d
         /\ \A F, G : Before(q, F, G) /\ d \notin F
                      => Before(Append(q, d), F, G \cup {d})
<1>1. /\ <<d>> \in Seq(S)
      /\ IsInjective(<<d>>)
      /\ \A e \in S : Contains(<<d>>, e) <=> e = d
  BY SingletonQueue
<1>2. Append(q, d) = q \o <<d>>
  BY AppendIsConcat
<1>3. \A e \in S : ~(Contains(q, e) /\ Contains(<<d>>, e))
  BY <1>1
<1>4. /\ q \o <<d>> \in Seq(S)
      /\ IsInjective(q \o <<d>>)
      /\ \A e \in S :
           Contains(q \o <<d>>, e) <=> Contains(q, e) \/ Contains(<<d>>, e)
  BY <1>1, <1>3, ConcatOfQueues
<1>5. /\ Len(q) \in Nat /\ DOMAIN q = 1 .. Len(q)
      /\ DOMAIN Append(q, d) = 1 .. Len(q) + 1
      /\ \A i \in 1 .. Len(q) : Append(q, d)[i] = q[i]
      /\ Append(q, d)[Len(q) + 1] = d
  BY LenProperties, AppendProperties
<1>6. ASSUME NEW F, NEW G, Before(q, F, G), d \notin F
      PROVE  Before(Append(q, d), F, G \cup {d})
  <2> SUFFICES ASSUME NEW i \in 1 .. Len(q) + 1, NEW j \in 1 .. Len(q) + 1,
                      Append(q, d)[i] \in F, Append(q, d)[j] \in G \cup {d}
               PROVE  i < j
    BY <1>5 DEF Before
  <2>1. i \in 1 .. Len(q) /\ q[i] \in F
    BY <1>5, <1>6
  <2>2. CASE j = Len(q) + 1
    BY <2>1, <2>2, <1>5
  <2>3. CASE j # Len(q) + 1
    <3>1. j \in 1 .. Len(q) /\ q[j] # d
      BY <2>3, <1>5 DEF Contains
    <3>2. q[j] \in G
      BY <3>1, <1>5
    <3> QED BY <2>1, <3>1, <3>2, <1>5, <1>6 DEF Before
  <2> QED BY <2>2, <2>3
<1> QED BY <1>1, <1>2, <1>4, <1>6

(* An order between sets is one between their subsets.                     *)
LEMMA BeforeSubsets ==
  ASSUME NEW q, NEW F, NEW G, Before(q, F, G),
         NEW F1 \in SUBSET F, NEW G1 \in SUBSET G
  PROVE  Before(q, F1, G1)
BY DEF Before

(* Taking one member out of a queue, wherever it stands.                   *)
LEMMA RemoveFromQueue ==
  ASSUME NEW S, NEW q \in Seq(S), IsInjective(q), NEW k \in DOMAIN q
  PROVE  /\ RemoveAt(q, k) \in Seq(S)
         /\ IsInjective(RemoveAt(q, k))
         /\ \A e \in S : Contains(RemoveAt(q, k), e) <=> Contains(q, e) /\ e # q[k]
<1> DEFINE l == SubSeq(q, 1, k - 1)
           r == SubSeq(q, k + 1, Len(q))
<1>1. Len(q) \in Nat /\ DOMAIN q = 1 .. Len(q) /\ k \in 1 .. Len(q)
  BY LenProperties
<1>2. /\ l \in Seq(S) /\ Len(l) = k - 1 /\ DOMAIN l = 1 .. k - 1
      /\ \A i \in 1 .. k - 1 : l[i] = q[i]
  <2>1. \A i \in 1 .. k - 1 : q[i] \in S
    BY <1>1, ElementOfSeq
  <2>2. /\ l \in Seq(S) /\ Len(l) = k - 1
        /\ \A i \in 1 .. k - 1 : l[i] = q[i]
    BY <1>1, <2>1, SubSeqProperties
  <2> QED BY <2>2, LenProperties
<1>3. /\ r \in Seq(S) /\ Len(r) = Len(q) - k /\ DOMAIN r = 1 .. Len(q) - k
      /\ \A i \in 1 .. Len(q) - k : r[i] = q[k + i]
  <2>1. \A i \in k + 1 .. Len(q) : q[i] \in S
    BY <1>1, ElementOfSeq
  <2>2. /\ r \in Seq(S) /\ Len(r) = Len(q) - k
        /\ \A i \in 1 .. Len(q) - k : r[i] = q[k + i]
    BY <1>1, <2>1, SubSeqProperties
  <2> QED BY <2>2, LenProperties
<1>4. IsInjective(l)
  BY <1>1, <1>2 DEF IsInjective
<1>5. IsInjective(r)
  <2> SUFFICES ASSUME NEW i \in 1 .. Len(q) - k, NEW j \in 1 .. Len(q) - k,
                      r[i] = r[j]
               PROVE  i = j
    BY <1>3 DEF IsInjective
  <2>1. k + i \in 1 .. Len(q) /\ k + j \in 1 .. Len(q)
    BY <1>1
  <2>2. r[i] = q[k + i]
    BY <1>3
  <2>3. r[j] = q[k + j]
    BY <1>3
  <2>4. q[k + i] = q[k + j]
    BY <2>2, <2>3
  <2>5. k + i = k + j
    BY <1>1, <2>1, <2>4 DEF IsInjective
  <2> QED BY <2>5, <1>1
<1>6. ASSUME NEW e \in S
      PROVE  Contains(l, e) <=> \E i \in 1 .. Len(q) : i < k /\ q[i] = e
  <2>1. Contains(l, e) <=> \E i \in 1 .. k - 1 : q[i] = e
    BY <1>2 DEF Contains
  <2>2. \A i \in 1 .. Len(q) : i < k <=> i \in 1 .. k - 1
    BY <1>1
  <2>3. \A i \in 1 .. k - 1 : i \in 1 .. Len(q)
    BY <1>1
  <2> QED BY <2>1, <2>2, <2>3
<1>7. ASSUME NEW e \in S
      PROVE  Contains(r, e) <=> \E i \in 1 .. Len(q) : i > k /\ q[i] = e
  <2>1. ASSUME Contains(r, e)
        PROVE  \E i \in 1 .. Len(q) : i > k /\ q[i] = e
    <3>1. PICK i \in 1 .. Len(q) - k : r[i] = e
      BY <2>1, <1>3 DEF Contains
    <3>2. k + i \in 1 .. Len(q) /\ k + i > k /\ q[k + i] = e
      BY <3>1, <1>1, <1>3
    <3> QED BY <3>2
  <2>2. ASSUME NEW i \in 1 .. Len(q), i > k, q[i] = e
        PROVE  Contains(r, e)
    <3>1. i - k \in 1 .. Len(q) - k /\ k + (i - k) = i
      BY <2>2, <1>1
    <3>2. r[i - k] = e
      BY <3>1, <1>3, <2>2
    <3> QED BY <3>1, <3>2, <1>3 DEF Contains
  <2> QED BY <2>1, <2>2
<1>8. \A i, j \in 1 .. Len(q) : q[i] = q[j] => i = j
  BY <1>1 DEF IsInjective
<1>9. ASSUME NEW e \in S PROVE ~(Contains(l, e) /\ Contains(r, e))
  <2> SUFFICES ASSUME Contains(l, e), Contains(r, e) PROVE FALSE
    OBVIOUS
  <2>1. PICK i \in 1 .. Len(q) : i < k /\ q[i] = e
    BY <1>6
  <2>2. PICK j \in 1 .. Len(q) : j > k /\ q[j] = e
    BY <1>7
  <2>3. i = j
    BY <2>1, <2>2, <1>8
  <2> QED BY <2>1, <2>2, <2>3, <1>1
<1>10. /\ l \o r \in Seq(S)
       /\ IsInjective(l \o r)
       /\ \A e \in S : Contains(l \o r, e) <=> Contains(l, e) \/ Contains(r, e)
  <2>1. \A e \in S : ~(Contains(l, e) /\ Contains(r, e))
    BY <1>9
  <2>2. l \in Seq(S) /\ r \in Seq(S)
    BY <1>2, <1>3
  <2> HIDE DEF l, r
  <2> QED BY <1>4, <1>5, <2>1, <2>2, ConcatOfQueues
<1>11. ASSUME NEW e \in S
       PROVE  Contains(l, e) \/ Contains(r, e) <=> Contains(q, e) /\ e # q[k]
  <2>1. ASSUME NEW i \in 1 .. Len(q), q[i] = e PROVE e # q[k] <=> i < k \/ i > k
    BY <2>1, <1>1, <1>8
  <2> QED BY <2>1, <1>6, <1>7 DEF Contains
<1> QED BY <1>10, <1>11 DEF RemoveAt

-----------------------------------------------------------------------------
(* The invariant                                                           *)

RollingBack == {c \in Ctx : pc[c] = "rollback"}
Beginning == {c \in Ctx : pc[c] = "begin"}

QueuedOnce ==
  /\ IsInjective(jobs)
  /\ \A c \in Ctx : Contains(jobs, c) <=> pc[c] \in Jobs

WaitingOnce ==
  /\ IsInjective(waiters)
  /\ \A c \in Ctx : Contains(waiters, c) <=> pc[c] = "waiting"
  /\ waiters # <<>> => held

InTx == {"tx", "txStmt", "commit", "fail", "rollback"}
InExclusive == {"excl", "exclStmt", "exclEnd"}

OwnsByPhase ==
  \A c \in Ctx :
    /\ owns[c] <=> \/ pc[c] \in {"begin"} \cup InExclusive
                   \/ pc[c] \in InTx /\ ~(kind[c] = "tx" /\ pc[c] = "rollback")
    /\ pc[c] \in {"begin"} \cup InTx => kind[c] \in {"tx", "excl"}
    /\ pc[c] \in InExclusive => kind[c] = "excl"

EngineByPhase == \A c \in Ctx : engine = c <=> pc[c] \in InTx

RollbackBeforeBegin == Before(jobs, RollingBack, Beginning)

IInv ==
  /\ TypeOK
  /\ GateHasOneHolder
  /\ QueuedOnce
  /\ WaitingOnce
  /\ OwnsByPhase
  /\ EngineByPhase
  /\ RollbackBeforeBegin

-----------------------------------------------------------------------------
(* What the queues are after a job: the head has run, and                  *)
(* the context continues in phase p, with another job if p is one.         *)

QueuesOK ==
  /\ jobs \in Seq(Ctx)
  /\ waiters \in Seq(Ctx)
  /\ pc \in [Ctx -> Phases]
  /\ QueuedOnce
  /\ WaitingOnce

(* The head of the microtask queue is a context whose phase is a job.      *)
LEMMA HeadHasJob ==
  ASSUME IInv, NEW c, jobs # <<>>, c = Head(jobs)
  PROVE  /\ c \in Ctx /\ pc[c] \in Jobs
         /\ Tail(jobs) \in Seq(Ctx)
         /\ IsInjective(Tail(jobs))
         /\ \A d \in Ctx : Contains(Tail(jobs), d) <=> pc[d] \in Jobs /\ d # c
         /\ Before(Tail(jobs), RollingBack, Beginning)
<1>1. jobs \in Seq(Ctx) /\ IsInjective(jobs)
  BY DEF IInv, TypeOK, QueuedOnce
<1>2. /\ c \in Ctx /\ Contains(jobs, c)
      /\ Tail(jobs) \in Seq(Ctx)
      /\ IsInjective(Tail(jobs))
      /\ \A e \in Ctx : Contains(Tail(jobs), e) <=> Contains(jobs, e) /\ e # c
      /\ \A F, G : Before(jobs, F, G) => Before(Tail(jobs), F, G)
  BY <1>1, TailOfQueue
<1> QED BY <1>2 DEF IInv, QueuedOnce, RollbackBeforeBegin

(* A job that leaves the waiters alone.                                    *)
LEMMA AdvanceKeepsQueues ==
  ASSUME IInv, NEW c, jobs # <<>>, c = Head(jobs),
         NEW p \in Phases \ (Jobs \cup {"waiting"}),
         Goto(c, p), jobs' = Tail(jobs), waiters' = waiters,
         waiters = <<>> \/ held'
  PROVE  /\ QueuesOK'
         /\ RollbackBeforeBegin'
<1>1. /\ c \in Ctx /\ pc[c] \in Jobs
      /\ Tail(jobs) \in Seq(Ctx)
      /\ IsInjective(Tail(jobs))
      /\ \A d \in Ctx : Contains(Tail(jobs), d) <=> pc[d] \in Jobs /\ d # c
      /\ Before(Tail(jobs), RollingBack, Beginning)
  BY HeadHasJob
<1>2. pc \in [Ctx -> Phases] /\ pc' = [pc EXCEPT ![c] = p]
  BY DEF IInv, TypeOK, Goto
<1>3. pc[c] # "waiting"
  BY <1>1 DEF Jobs
<1>4. QueuedOnce'
  BY <1>1, <1>2 DEF QueuedOnce
<1>5. WaitingOnce'
  BY <1>1, <1>2, <1>3 DEF IInv, WaitingOnce
<1>6. RollingBack' \subseteq RollingBack /\ Beginning' \subseteq Beginning
  BY <1>1, <1>2 DEF RollingBack, Beginning, Jobs
<1>7. RollbackBeforeBegin'
  BY <1>1, <1>6, BeforeSubsets DEF RollbackBeforeBegin
<1> QED BY <1>1, <1>2, <1>4, <1>5, <1>7 DEF QueuesOK, IInv, TypeOK

(* release(): every waiter becomes a job, in order, behind the tail.       *)
LEMMA ReleaseKeepsQueues ==
  ASSUME IInv, NEW c, jobs # <<>>, c = Head(jobs),
         NEW p \in Phases \ {"waiting", "begin"}, NEW after,
         \/ p \notin Jobs /\ after = <<>>
         \/ p \in Jobs /\ after = <<c>> /\ Beginning \subseteq {c},
         Release(c, p, after)
  PROVE  /\ QueuesOK'
         /\ RollbackBeforeBegin'
         /\ pc'[c] = p
         /\ \A d \in Ctx \ {c} :
               pc'[d] = IF pc[d] = "waiting" THEN "woken" ELSE pc[d]
<1> DEFINE front == Tail(jobs) \o waiters
<1>1. /\ c \in Ctx /\ pc[c] \in Jobs
      /\ Tail(jobs) \in Seq(Ctx)
      /\ IsInjective(Tail(jobs))
      /\ \A d \in Ctx : Contains(Tail(jobs), d) <=> pc[d] \in Jobs /\ d # c
      /\ Before(Tail(jobs), RollingBack, Beginning)
  BY HeadHasJob
<1>2. /\ waiters \in Seq(Ctx)
      /\ IsInjective(waiters)
      /\ \A d \in Ctx : Contains(waiters, d) <=> pc[d] = "waiting"
  BY DEF IInv, TypeOK, WaitingOnce
<1>3. "waiting" \notin Jobs /\ "woken" \in Jobs /\ "woken" \in Phases
  BY DEF Jobs, Phases
<1>4. /\ front \in Seq(Ctx)
      /\ IsInjective(front)
      /\ \A d \in Ctx : Contains(front, d) <=>
            Contains(Tail(jobs), d) \/ Contains(waiters, d)
      /\ \A F, G : Before(Tail(jobs), F, G) /\ (\A e \in F : ~Contains(waiters, e))
                   => Before(front, F, G)
  <2>1. \A d \in Ctx : ~(Contains(Tail(jobs), d) /\ Contains(waiters, d))
    BY <1>1, <1>2, <1>3
  <2> QED BY <1>1, <1>2, <2>1, ConcatOfQueues
<1>5. Before(front, RollingBack, Beginning)
  <2>1. \A e \in RollingBack : ~Contains(waiters, e)
    BY <1>2 DEF RollingBack
  <2> QED BY <1>1, <1>4, <2>1
<1>6. \A d \in Ctx : Contains(front, d) <=>
         d # c /\ (pc[d] \in Jobs \/ pc[d] = "waiting")
  BY <1>1, <1>2, <1>3, <1>4
<1>7. /\ pc \in [Ctx -> Phases]
      /\ pc' = [d \in Ctx |-> IF d = c THEN p
                               ELSE IF pc[d] = "waiting" THEN "woken" ELSE pc[d]]
  BY <1>2 DEF IInv, TypeOK, Release
<1>8. pc' \in [Ctx -> Phases] /\ waiters' = <<>> /\ waiters' \in Seq(Ctx)
  BY <1>3, <1>7 DEF Release
<1>9. \A d \in Ctx : pc'[d] # "waiting"
  BY <1>7
<1>10. WaitingOnce'
  <2>1. IsInjective(<<>>) /\ \A d : ~Contains(<<>>, d)
    BY EmptySeq DEF IsInjective, Contains
  <2> QED BY <1>8, <1>9, <2>1 DEF WaitingOnce
<1>11. jobs' = front \o after
  BY DEF Release
<1>12. CASE after = <<>>
  <2>1. jobs' = front
    BY <1>4, <1>11, <1>12, ConcatEmptySeq
  <2>2. <<>> # <<c>>
    OBVIOUS
  <2>3. p \notin Jobs
    BY <1>12, <2>2
  <2>4. QueuedOnce'
    BY <2>1, <2>3, <1>3, <1>4, <1>6, <1>7 DEF QueuedOnce
  <2>5. RollingBack' \subseteq RollingBack /\ Beginning' \subseteq Beginning
    BY <1>1, <1>7, <2>3 DEF RollingBack, Beginning, Jobs
  <2>6. RollbackBeforeBegin'
    BY <2>1, <2>5, <1>5, BeforeSubsets DEF RollbackBeforeBegin
  <2> QED BY <2>1, <2>4, <2>6, <1>4, <1>7, <1>8, <1>10 DEF QueuesOK
<1>13. CASE p \in Jobs /\ after = <<c>> /\ Beginning \subseteq {c}
  <2>1. ~Contains(front, c)
    BY <1>1, <1>6
  <2>2. jobs' = Append(front, c)
    BY <1>1, <1>4, <1>11, <1>13, AppendIsConcat
  <2>3. /\ Append(front, c) \in Seq(Ctx)
        /\ IsInjective(Append(front, c))
        /\ \A d \in Ctx : Contains(Append(front, c), d) <=>
              Contains(front, d) \/ d = c
    <3> HIDE DEF front
    <3> QED BY <1>1, <1>4, <2>1, AppendToQueue
  <2>4. QueuedOnce'
    BY <2>2, <2>3, <1>3, <1>6, <1>7, <1>13 DEF QueuedOnce
  <2>5. Beginning' = {}
    BY <1>7, <1>13 DEF Beginning
  <2>6. RollbackBeforeBegin'
    BY <2>5 DEF RollbackBeforeBegin, Before
  <2> QED BY <2>2, <2>3, <2>4, <2>6, <1>7, <1>8, <1>10 DEF QueuesOK
<1> QED BY <1>7, <1>12, <1>13, <1>1

(* A context queues its next job behind everything else: the step of       *)
(* application code, the BEGIN that follows the take of the gate, the      *)
(* ROLLBACK of a transaction inside an exclusive hold.                     *)
LEMMA AppendKeepsQueues ==
  ASSUME IInv, NEW c \in Ctx, NEW p \in Jobs, NEW rest \in Seq(Ctx),
         p = "rollback" => Beginning = {},
         IsInjective(rest),
         \A d \in Ctx : Contains(rest, d) <=> pc[d] \in Jobs /\ d # c,
         Before(rest, RollingBack, Beginning),
         pc[c] \notin {"waiting", "rollback"},
         Goto(c, p), jobs' = Append(rest, c), waiters' = waiters,
         waiters = <<>> \/ held'
  PROVE  QueuesOK' /\ RollbackBeforeBegin'
<1>1. ~Contains(rest, c)
  OBVIOUS
<1>2. c \notin RollingBack
  BY DEF RollingBack
<1>3. /\ Append(rest, c) \in Seq(Ctx)
      /\ IsInjective(Append(rest, c))
      /\ \A d \in Ctx : Contains(Append(rest, c), d) <=> Contains(rest, d) \/ d = c
      /\ Before(Append(rest, c), RollingBack, Beginning \cup {c})
  BY <1>1, <1>2, AppendToQueue
<1>4. pc \in [Ctx -> Phases] /\ pc' = [pc EXCEPT ![c] = p] /\ p \in Phases
  BY DEF IInv, TypeOK, Goto, Phases
<1>5. QueuedOnce'
  BY <1>3, <1>4 DEF QueuedOnce
<1>6. "waiting" \notin Jobs
  BY DEF Jobs
<1>7. WaitingOnce'
  BY <1>4, <1>6 DEF IInv, WaitingOnce
<1>8. ASSUME p # "rollback" PROVE RollbackBeforeBegin'
  <2>1. RollingBack' \subseteq RollingBack /\ Beginning' \subseteq Beginning \cup {c}
    BY <1>4, <1>8 DEF RollingBack, Beginning
  <2> QED BY <1>3, <2>1, BeforeSubsets DEF RollbackBeforeBegin
<1>9. ASSUME p = "rollback" PROVE RollbackBeforeBegin'
  <2>1. Beginning' = {}
    BY <1>4, <1>9 DEF Beginning
  <2> QED BY <2>1 DEF RollbackBeforeBegin, Before
<1> QED BY <1>3, <1>4, <1>5, <1>7, <1>8, <1>9 DEF QueuesOK, IInv, TypeOK

-----------------------------------------------------------------------------
(* What is left of the invariant once the queues are settled.              *)
OwnershipOK == GateHasOneHolder /\ OwnsByPhase /\ EngineByPhase

RestTypeOK ==
  /\ held \in BOOLEAN
  /\ kind \in [Ctx -> Kinds]
  /\ owns \in [Ctx -> BOOLEAN]
  /\ engine \in Ctx \cup {NoCtx}
  /\ fate \in [Ctx -> Fates]
  /\ calls \in [Ctx -> Nat]

(* The four groups of the invariant's conjuncts, proved apart below.       *)
LEMMA IInvParts ==
  /\ QueuesOK /\ RollbackBeforeBegin /\ OwnershipOK /\ RestTypeOK => IInv
  /\ QueuesOK' /\ RollbackBeforeBegin' /\ OwnershipOK' /\ RestTypeOK' => IInv'
BY DEF IInv, QueuesOK, OwnershipOK, RestTypeOK, TypeOK

(* The invariant holds before the first call.                              *)
LEMMA InitIInv == Init => IInv
<1> SUFFICES ASSUME Init PROVE IInv
  OBVIOUS
<1>1. IsInjective(<<>>) /\ \A d : ~Contains(<<>>, d)
  BY EmptySeq DEF IsInjective, Contains
<1>2. QueuesOK
  BY <1>1 DEF Init, QueuesOK, QueuedOnce, WaitingOnce, Phases, Jobs
<1>3. RollbackBeforeBegin
  BY DEF Init, RollbackBeforeBegin, Before, RollingBack
<1>4. OwnershipOK
  BY CtxAssumption
     DEF Init, OwnershipOK, GateHasOneHolder, OwnsByPhase, EngineByPhase, InTx,
         InExclusive
<1>5. RestTypeOK
  BY DEF Init, RestTypeOK, Kinds, Fates
<1> QED BY <1>2, <1>3, <1>4, <1>5, IInvParts

-----------------------------------------------------------------------------
(* One lemma per action, or per kind of step.                              *)

(* A step of application code.                                             *)
LEMMA AppStepKeepsIInv ==
  ASSUME IInv, NEW c \in Ctx, AppStep(c)
  PROVE  IInv'
<1> DEFINE To == {"call", "txStmt", "commit", "fail", "exclStmt", "begin", "exclEnd"}
<1>1. PICK p \in To :
        /\ Schedule(c, p)
        /\ kind' \in [Ctx -> Kinds] /\ calls' \in [Ctx -> Nat]
        /\ \/ /\ pc[c] = "idle" /\ p = "call"
              /\ \A d \in Ctx \ {c} : kind'[d] = kind[d]
           \/ /\ pc[c] = "tx" /\ p \in {"txStmt", "commit", "fail"}
              /\ kind' = kind
           \/ /\ pc[c] = "excl" /\ p \in {"exclStmt", "begin", "exclEnd"}
              /\ kind' = kind
  <2>1. kind \in [Ctx -> Kinds] /\ calls \in [Ctx -> Nat]
    BY DEF IInv, TypeOK
  <2>2. CASE StartCall(c)
    BY <2>1, <2>2 DEF StartCall
  <2>3. CASE StepInTx(c) \/ EndTx(c)
    BY <2>1, <2>3 DEF StepInTx, EndTx
  <2>4. CASE StepInExclusive(c) \/ ReturnFromExclusive(c)
    BY <2>1, <2>4 DEF StepInExclusive, ReturnFromExclusive
  <2> QED BY <2>2, <2>3, <2>4 DEF AppStep
<1>2. /\ jobs \in Seq(Ctx) /\ IsInjective(jobs)
      /\ pc \in [Ctx -> Phases]
      /\ pc[c] \notin Jobs
      /\ \A d \in Ctx : Contains(jobs, d) <=> pc[d] \in Jobs /\ d # c
      /\ waiters = <<>> \/ held
  BY <1>1 DEF IInv, TypeOK, QueuedOnce, WaitingOnce, Jobs
<1>3. /\ Goto(c, p) /\ jobs' = Append(jobs, c)
      /\ UNCHANGED <<held, waiters, owns, engine, fate>>
  BY <1>1 DEF Schedule
<1>4. QueuesOK' /\ RollbackBeforeBegin'
  <2>1. p \in Jobs /\ p # "rollback"
    BY DEF Jobs
  <2>2. pc[c] \notin {"waiting", "rollback"}
    BY <1>1
  <2>3. Before(jobs, RollingBack, Beginning)
    BY DEF IInv, RollbackBeforeBegin
  <2> QED BY <1>2, <1>3, <2>1, <2>2, <2>3, AppendKeepsQueues
<1>5. pc' = [pc EXCEPT ![c] = p]
  BY <1>3 DEF Goto
<1>6. OwnershipOK'
  BY ZenonT(60), <1>1, <1>2, <1>3, <1>5
     DEF IInv, OwnershipOK, GateHasOneHolder, OwnsByPhase, EngineByPhase, InTx,
         InExclusive
<1>7. RestTypeOK'
  BY <1>1, <1>3 DEF IInv, TypeOK, RestTypeOK
<1> QED BY <1>4, <1>6, <1>7, IInvParts

(* The gate is found held: the context waits.                              *)
LEMMA EnqueueKeepsIInv ==
  ASSUME IInv, NEW c \in Ctx, jobs # <<>>, c = Head(jobs),
         pc[c] \in {"call", "woken"}, Enqueue(c), UNCHANGED <<kind, calls>>
  PROVE  IInv'
<1>1. /\ pc[c] \in Jobs
      /\ Tail(jobs) \in Seq(Ctx)
      /\ IsInjective(Tail(jobs))
      /\ \A d \in Ctx : Contains(Tail(jobs), d) <=> pc[d] \in Jobs /\ d # c
      /\ Before(Tail(jobs), RollingBack, Beginning)
  BY HeadHasJob
<1>2. /\ pc \in [Ctx -> Phases] /\ pc' = [pc EXCEPT ![c] = "waiting"]
      /\ jobs' = Tail(jobs) /\ held /\ held' = held
  BY DEF IInv, TypeOK, Enqueue, Goto
<1>3. "waiting" \notin Jobs /\ "waiting" \in Phases
  BY DEF Jobs, Phases
<1>4. QueuedOnce'
  BY <1>1, <1>2, <1>3 DEF QueuedOnce
<1>5. waiters' \in Seq(Ctx) /\ WaitingOnce'
  <2>1. waiters \in Seq(Ctx) /\ IsInjective(waiters) /\ ~Contains(waiters, c)
    BY <1>1, <1>3 DEF IInv, TypeOK, WaitingOnce
  <2>2. /\ Append(waiters, c) \in Seq(Ctx)
        /\ IsInjective(Append(waiters, c))
        /\ \A d \in Ctx : Contains(Append(waiters, c), d) <=>
              Contains(waiters, d) \/ d = c
    BY <2>1, AppendToQueue
  <2> QED BY <2>2, <1>2 DEF IInv, WaitingOnce, Enqueue
<1>6. RollbackBeforeBegin'
  <2>1. RollingBack' \subseteq RollingBack /\ Beginning' \subseteq Beginning
    BY <1>2 DEF RollingBack, Beginning
  <2> QED BY <1>1, <1>2, <2>1, BeforeSubsets DEF RollbackBeforeBegin
<1>7. OwnershipOK'
  BY <1>2
     DEF IInv, OwnershipOK, GateHasOneHolder, OwnsByPhase, EngineByPhase, InTx,
         InExclusive, Enqueue
<1>8. RestTypeOK'
  BY DEF IInv, TypeOK, RestTypeOK, Enqueue
<1> QED BY <1>1, <1>2, <1>3, <1>4, <1>5, <1>6, <1>7, <1>8, IInvParts DEF QueuesOK

(* The gate is found free: the statement runs.                             *)
LEMMA RunStatementKeepsIInv ==
  ASSUME IInv, NEW c \in Ctx, jobs # <<>>, c = Head(jobs),
         pc[c] \in {"call", "woken"}, RunStatement(c), UNCHANGED <<kind, calls>>
  PROVE  IInv'
<1>1. /\ Goto(c, "idle") /\ jobs' = Tail(jobs)
      /\ UNCHANGED <<held, waiters, owns, engine>>
  BY DEF RunStatement
<1>2. QueuesOK' /\ RollbackBeforeBegin'
  <2>1. "idle" \in Phases \ (Jobs \cup {"waiting"})
    BY DEF Phases, Jobs
  <2>2. waiters = <<>> \/ held'
    BY <1>1 DEF IInv, WaitingOnce
  <2>3. waiters' = waiters
    BY <1>1
  <2> QED BY <1>1, <2>1, <2>2, <2>3, AdvanceKeepsQueues
<1>3. pc \in [Ctx -> Phases] /\ pc' = [pc EXCEPT ![c] = "idle"]
  BY <1>1 DEF IInv, TypeOK, Goto
<1>4. OwnershipOK'
  BY <1>1, <1>3
     DEF IInv, OwnershipOK, GateHasOneHolder, OwnsByPhase, EngineByPhase, InTx,
         InExclusive
<1>5. RestTypeOK'
  BY <1>1 DEF IInv, TypeOK, RestTypeOK, RunStatement, Fates
<1> QED BY <1>2, <1>4, <1>5, IInvParts

(* The gate is found free: the context takes it.                           *)
LEMMA TakeGateKeepsIInv ==
  ASSUME IInv, NEW c \in Ctx, jobs # <<>>, c = Head(jobs),
         pc[c] \in {"call", "woken"}, TakeGate(c), UNCHANGED <<kind, calls>>
  PROVE  IInv'
<1>1. /\ pc[c] \in Jobs
      /\ Tail(jobs) \in Seq(Ctx)
      /\ IsInjective(Tail(jobs))
      /\ \A d \in Ctx : Contains(Tail(jobs), d) <=> pc[d] \in Jobs /\ d # c
      /\ Before(Tail(jobs), RollingBack, Beginning)
  BY HeadHasJob
<1>2. /\ ~held /\ held' = TRUE
      /\ owns' = [owns EXCEPT ![c] = TRUE]
      /\ kind[c] \in {"tx", "excl"}
      /\ UNCHANGED <<waiters, engine, fate>>
  BY DEF TakeGate
<1>3. /\ pc \in [Ctx -> Phases] /\ owns \in [Ctx -> BOOLEAN]
      /\ waiters' = waiters /\ pc[c] \notin {"waiting", "rollback"}
      /\ waiters = <<>> \/ held'
  BY <1>2 DEF IInv, TypeOK
<1>4. CASE kind[c] = "tx"
  <2>1. Goto(c, "begin") /\ jobs' = Append(Tail(jobs), c)
    BY <1>4 DEF TakeGate
  <2>2. "begin" \in Jobs
    BY DEF Jobs
  <2>3. QueuesOK' /\ RollbackBeforeBegin'
    BY <1>1, <1>3, <2>1, <2>2, AppendKeepsQueues
  <2>4. pc' = [pc EXCEPT ![c] = "begin"]
    BY <2>1 DEF Goto
  <2>5. OwnershipOK'
    BY <1>2, <1>3, <1>4, <2>4
       DEF IInv, OwnershipOK, GateHasOneHolder, OwnsByPhase, EngineByPhase,
           InTx, InExclusive
  <2>6. RestTypeOK'
    BY <1>2 DEF IInv, TypeOK, RestTypeOK
  <2> QED BY <2>3, <2>5, <2>6, IInvParts
<1>5. CASE kind[c] # "tx"
  <2>1. Goto(c, "excl") /\ jobs' = Tail(jobs)
    BY <1>5 DEF TakeGate
  <2>2. "excl" \in Phases \ (Jobs \cup {"waiting"})
    BY DEF Phases, Jobs
  <2>3. QueuesOK' /\ RollbackBeforeBegin'
    BY <1>3, <2>1, <2>2, AdvanceKeepsQueues
  <2>4. pc' = [pc EXCEPT ![c] = "excl"]
    BY <2>1 DEF Goto
  <2>5. OwnershipOK'
    BY <1>2, <1>3, <1>5, <2>4
       DEF IInv, OwnershipOK, GateHasOneHolder, OwnsByPhase, EngineByPhase,
           InTx, InExclusive
  <2>6. RestTypeOK'
    BY <1>2 DEF IInv, TypeOK, RestTypeOK
  <2> QED BY <2>3, <2>5, <2>6, IInvParts
<1> QED BY <1>4, <1>5

(* A waiter's timer takes it out of the waiter list.                       *)
LEMMA TimeoutKeepsIInv ==
  ASSUME IInv, NEW c \in Ctx, Timeout(c)
  PROVE  IInv'
<1>1. PICK i \in DOMAIN waiters :
        waiters[i] = c /\ waiters' = RemoveAt(waiters, i)
  BY DEF Timeout
<1>2. /\ pc[c] = "waiting" /\ pc' = [pc EXCEPT ![c] = "idle"]
      /\ pc \in [Ctx -> Phases]
      /\ UNCHANGED <<held, jobs, kind, owns, engine, fate, calls>>
  BY DEF Timeout, Goto, IInv, TypeOK
<1>3. "idle" \notin Jobs /\ "waiting" \notin Jobs /\ "idle" \in Phases
  BY DEF Jobs, Phases
<1>4. held
  BY <1>1, EmptySeq DEF IInv, WaitingOnce
<1>5. waiters' \in Seq(Ctx) /\ WaitingOnce'
  <2>1. waiters \in Seq(Ctx) /\ IsInjective(waiters)
    BY DEF IInv, TypeOK, WaitingOnce
  <2>2. /\ RemoveAt(waiters, i) \in Seq(Ctx)
        /\ IsInjective(RemoveAt(waiters, i))
        /\ \A d \in Ctx : Contains(RemoveAt(waiters, i), d) <=>
              Contains(waiters, d) /\ d # waiters[i]
    BY <2>1, RemoveFromQueue
  <2> QED BY <1>1, <1>2, <1>4, <2>2 DEF IInv, WaitingOnce
<1>6. QueuesOK'
  BY <1>2, <1>3, <1>5 DEF QueuesOK, QueuedOnce, IInv, TypeOK
<1>7. RollbackBeforeBegin'
  <2>1. RollingBack' = RollingBack /\ Beginning' = Beginning
    BY <1>2 DEF RollingBack, Beginning
  <2> QED BY <1>2, <2>1 DEF IInv, RollbackBeforeBegin, Before
<1>8. OwnershipOK'
  BY <1>2
     DEF IInv, OwnershipOK, GateHasOneHolder, OwnsByPhase, EngineByPhase, InTx,
         InExclusive
<1>9. RestTypeOK'
  BY <1>2 DEF IInv, TypeOK, RestTypeOK
<1> QED BY <1>6, <1>7, <1>8, <1>9, IInvParts

(* A statement of the holder: nothing but its own phase changes.           *)
LEMMA StatementKeepsIInv ==
  ASSUME IInv, NEW c \in Ctx, StatementInTx(c) \/ StatementInExclusive(c)
  PROVE  IInv'
<1>1. PICK p \in {"tx", "excl"} :
        /\ \/ pc[c] = "txStmt" /\ p = "tx"
           \/ pc[c] = "exclStmt" /\ p = "excl"
        /\ Running(c, pc[c])
        /\ Goto(c, p) /\ jobs' = Tail(jobs)
        /\ UNCHANGED <<held, waiters, kind, owns, engine, fate,
                       calls>>
  BY DEF StatementInTx, StatementInExclusive, Running
<1>2. QueuesOK' /\ RollbackBeforeBegin'
  <2>1. p \in Phases \ (Jobs \cup {"waiting"})
    BY DEF Phases, Jobs
  <2>2. waiters = <<>> \/ held'
    BY <1>1 DEF IInv, WaitingOnce
  <2>3. jobs # <<>> /\ c = Head(jobs) /\ waiters' = waiters
    BY <1>1 DEF Running
  <2> QED BY <1>1, <2>1, <2>2, <2>3, AdvanceKeepsQueues
<1>3. pc \in [Ctx -> Phases] /\ pc' = [pc EXCEPT ![c] = p]
  BY <1>1 DEF IInv, TypeOK, Goto
<1>4. OwnershipOK'
  BY <1>1, <1>3
     DEF IInv, OwnershipOK, GateHasOneHolder, OwnsByPhase, EngineByPhase, InTx,
         InExclusive
<1>5. RestTypeOK'
  BY <1>1 DEF IInv, TypeOK, RestTypeOK
<1> QED BY <1>2, <1>4, <1>5, IInvParts

(* The end of a transaction, or of an attempt to begin one: the state      *)
(* releases what it still owns.                                            *)
LEMMA StateReleaseKeepsOwnership ==
  ASSUME IInv, NEW c \in Ctx, jobs # <<>>, c = Head(jobs),
         pc[c] \in {"begin", "commit", "fail", "rollback"}, kind' = kind,
         NEW p, NEW after,
         \/ p = AfterTx(c) /\ after = <<>>
         \/ p = "rollback" /\ after = <<c>> /\ pc[c] = "commit",
         StateRelease(c, p, after)
  PROVE  /\ QueuesOK' /\ RollbackBeforeBegin'
         /\ GateHasOneHolder' /\ OwnsByPhase'
         /\ held' \in BOOLEAN /\ owns' \in [Ctx -> BOOLEAN]
         /\ pc'[c] = p
         /\ \A d \in Ctx \ {c} : pc'[d] \in InTx <=> pc[d] \in InTx
<1>1. /\ pc \in [Ctx -> Phases] /\ owns \in [Ctx -> BOOLEAN]
      /\ held \in BOOLEAN /\ kind[c] \in {"tx", "excl"}
  BY DEF IInv, TypeOK, OwnsByPhase, InTx
<1>2. /\ AfterTx(c) = IF kind[c] = "excl" THEN "excl" ELSE "idle"
      /\ p \in {"idle", "excl", "rollback"}
      /\ p = "idle" => kind[c] = "tx"
      /\ p = "excl" => kind[c] = "excl"
  BY <1>1 DEF AfterTx
<1>3. CASE kind[c] = "tx" /\ owns[c]
  <2>1. Release(c, p, after)
    BY <1>3 DEF StateRelease
  <2>2. Beginning \subseteq {c}
    BY <1>3 DEF IInv, OwnsByPhase, GateHasOneHolder, Beginning
  <2>3. /\ QueuesOK' /\ RollbackBeforeBegin'
        /\ pc'[c] = p
        /\ \A d \in Ctx \ {c} :
              pc'[d] = IF pc[d] = "waiting" THEN "woken" ELSE pc[d]
    <3>1. p \in Phases \ {"waiting", "begin"}
      BY <1>2 DEF Phases, Jobs
    <3>2. \/ p \notin Jobs /\ after = <<>>
          \/ p \in Jobs /\ after = <<c>> /\ Beginning \subseteq {c}
      BY <1>2, <2>2 DEF Jobs
    <3> QED BY <2>1, <3>1, <3>2, ReleaseKeepsQueues
  <2>4. held' = FALSE /\ owns' = [owns EXCEPT ![c] = FALSE]
    BY <2>1 DEF Release
  <2>5. GateHasOneHolder'
    BY <1>1, <1>3, <2>4 DEF IInv, GateHasOneHolder
  <2>6. OwnsByPhase'
    BY <1>1, <1>2, <1>3, <2>3, <2>4 DEF IInv, OwnsByPhase, InTx, InExclusive
  <2>7. \A d \in Ctx \ {c} : pc'[d] \in InTx <=> pc[d] \in InTx
    BY <2>3 DEF InTx
  <2> QED BY <1>1, <2>3, <2>4, <2>5, <2>6, <2>7
<1>4. CASE ~(kind[c] = "tx" /\ owns[c])
  <2>1. /\ Goto(c, p) /\ jobs' = Tail(jobs) \o after
        /\ UNCHANGED <<held, owns, waiters>>
    BY <1>4 DEF StateRelease
  <2>2. pc' = [pc EXCEPT ![c] = p]
    BY <2>1 DEF Goto
  <2>3. /\ pc[c] \in Jobs
        /\ Tail(jobs) \in Seq(Ctx)
        /\ IsInjective(Tail(jobs))
        /\ \A d \in Ctx : Contains(Tail(jobs), d) <=> pc[d] \in Jobs /\ d # c
        /\ Before(Tail(jobs), RollingBack, Beginning)
    BY HeadHasJob
  <2>4. waiters' = waiters /\ (waiters = <<>> \/ held')
    BY <2>1 DEF IInv, WaitingOnce
  <2>5. QueuesOK' /\ RollbackBeforeBegin'
    <3>1. CASE after = <<>>
      <4>1. jobs' = Tail(jobs)
        BY <2>1, <2>3, <3>1, ConcatEmptySeq
      <4>2. <<>> # <<c>>
        OBVIOUS
      <4>3. p \in Phases \ (Jobs \cup {"waiting"})
        BY <3>1, <4>2, <1>2 DEF Phases, Jobs
      <4> QED BY <2>1, <2>4, <4>1, <4>3, AdvanceKeepsQueues
    <3>2. CASE after = <<c>> /\ p = "rollback" /\ pc[c] = "commit"
      <4>1. jobs' = Append(Tail(jobs), c)
        BY <2>1, <2>3, <3>2, AppendIsConcat
      <4>2. owns[c]
        BY <3>2 DEF IInv, OwnsByPhase, InTx
      <4>3. Beginning = {}
        BY <3>2, <4>2 DEF IInv, OwnsByPhase, GateHasOneHolder, Beginning
      <4>4. p \in Jobs /\ pc[c] \notin {"waiting", "rollback"}
        BY <3>2 DEF Jobs
      <4> QED BY <2>1, <2>3, <2>4, <4>1, <4>3, <4>4, AppendKeepsQueues
    <3> QED BY <3>1, <3>2
  <2>6. GateHasOneHolder'
    BY <2>1 DEF IInv, GateHasOneHolder
  <2>7. OwnsByPhase'
    BY <1>1, <1>2, <1>4, <2>1, <2>2 DEF IInv, OwnsByPhase, InTx, InExclusive
  <2> QED BY <1>1, <2>1, <2>2, <2>5, <2>6, <2>7
<1> QED BY <1>3, <1>4

(* BEGIN IMMEDIATE, or its failure.                                        *)
LEMMA BeginKeepsIInv ==
  ASSUME IInv, NEW c \in Ctx, Begin(c)
  PROVE  IInv'
<1>1. /\ pc[c] = "begin" /\ jobs # <<>> /\ c = Head(jobs)
      /\ UNCHANGED <<kind, fate, calls>>
      /\ pc \in [Ctx -> Phases]
  BY DEF Begin, Running, IInv, TypeOK
<1>2. CASE /\ engine = NoCtx /\ engine' = c
           /\ Goto(c, "tx") /\ jobs' = Tail(jobs)
           /\ UNCHANGED <<held, owns, waiters>>
  <2>1. QueuesOK' /\ RollbackBeforeBegin'
    <3>1. "tx" \in Phases \ (Jobs \cup {"waiting"})
      BY DEF Phases, Jobs
    <3>2. waiters' = waiters /\ (waiters = <<>> \/ held')
      BY <1>2 DEF IInv, WaitingOnce
    <3> QED BY <1>1, <1>2, <3>1, <3>2, AdvanceKeepsQueues
  <2>2. pc' = [pc EXCEPT ![c] = "tx"]
    BY <1>2 DEF Goto
  <2>3. OwnershipOK'
    BY <1>1, <1>2, <2>2, CtxAssumption
       DEF IInv, OwnershipOK, GateHasOneHolder, OwnsByPhase, EngineByPhase,
           InTx, InExclusive
  <2>4. RestTypeOK'
    BY <1>1, <1>2 DEF IInv, TypeOK, RestTypeOK
  <2> QED BY <2>1, <2>3, <2>4, IInvParts
<1>3. CASE StateRelease(c, AfterTx(c), <<>>) /\ engine' = engine
  <2>1. /\ QueuesOK' /\ RollbackBeforeBegin'
        /\ GateHasOneHolder' /\ OwnsByPhase'
        /\ held' \in BOOLEAN /\ owns' \in [Ctx -> BOOLEAN]
        /\ pc'[c] = AfterTx(c)
        /\ \A d \in Ctx \ {c} : pc'[d] \in InTx <=> pc[d] \in InTx
    BY <1>1, <1>3, StateReleaseKeepsOwnership
  <2>2. EngineByPhase'
    BY <1>1, <1>3, <2>1 DEF IInv, EngineByPhase, InTx, AfterTx
  <2>3. RestTypeOK'
    BY <1>1, <1>3, <2>1 DEF IInv, TypeOK, RestTypeOK
  <2> QED BY <2>1, <2>2, <2>3, IInvParts DEF OwnershipOK
<1> QED BY <1>2, <1>3 DEF Begin

(* COMMIT, whether it succeeds or throws, and ROLLBACK.                    *)
LEMMA EndOfTransactionKeepsIInv ==
  ASSUME IInv, NEW c \in Ctx, Commit(c) \/ Rollback(c)
  PROVE  IInv'
<1>1. /\ pc[c] \in {"commit", "fail", "rollback"}
      /\ jobs # <<>> /\ c = Head(jobs)
      /\ UNCHANGED <<kind, calls>>
      /\ engine = c
  BY DEF Commit, Rollback, Running, IInv, EngineByPhase, InTx
<1>2. CASE \E outcome \in {"durable", "lost"} :
             Settle(outcome) /\ StateRelease(c, AfterTx(c), <<>>)
  <2>1. /\ QueuesOK' /\ RollbackBeforeBegin'
        /\ GateHasOneHolder' /\ OwnsByPhase'
        /\ held' \in BOOLEAN /\ owns' \in [Ctx -> BOOLEAN]
        /\ pc'[c] = AfterTx(c)
        /\ \A d \in Ctx \ {c} : pc'[d] \in InTx <=> pc[d] \in InTx
    BY <1>1, <1>2, StateReleaseKeepsOwnership
  <2>2. EngineByPhase'
    <3>1. engine' = NoCtx
      BY <1>2 DEF Settle
    <3>2. \A d \in Ctx : pc'[d] \notin InTx
      BY <1>1, <2>1 DEF IInv, EngineByPhase, InTx, AfterTx
    <3> QED BY <3>1, <3>2, CtxAssumption DEF EngineByPhase, InTx
  <2>3. RestTypeOK'
    <3>1. fate' \in [Ctx -> Fates] /\ engine' = NoCtx
      BY <1>2 DEF Settle, IInv, TypeOK, Fates
    <3> QED BY <1>1, <2>1, <3>1 DEF IInv, TypeOK, RestTypeOK
  <2> QED BY <2>1, <2>2, <2>3, IInvParts DEF OwnershipOK
<1>3. CASE /\ pc[c] = "commit" /\ StateRelease(c, "rollback", <<c>>)
           /\ UNCHANGED <<engine, fate>>
  <2>1. /\ QueuesOK' /\ RollbackBeforeBegin'
        /\ GateHasOneHolder' /\ OwnsByPhase'
        /\ held' \in BOOLEAN /\ owns' \in [Ctx -> BOOLEAN]
        /\ pc'[c] = "rollback"
        /\ \A d \in Ctx \ {c} : pc'[d] \in InTx <=> pc[d] \in InTx
    BY <1>1, <1>3, StateReleaseKeepsOwnership
  <2>2. EngineByPhase'
    BY <1>1, <1>3, <2>1 DEF IInv, EngineByPhase, InTx
  <2>3. RestTypeOK'
    BY <1>1, <1>3, <2>1 DEF IInv, TypeOK, RestTypeOK
  <2> QED BY <2>1, <2>2, <2>3, IInvParts DEF OwnershipOK
<1>4. CASE Commit(c)
  BY <1>2, <1>3, <1>4 DEF Commit, Running
<1>5. CASE Rollback(c)
  BY <1>2, <1>5 DEF Rollback
<1> QED BY <1>4, <1>5

(* The end of an exclusive hold.                                           *)
LEMMA EndExclusiveKeepsIInv ==
  ASSUME IInv, NEW c \in Ctx, EndExclusive(c)
  PROVE  IInv'
<1>1. /\ pc[c] = "exclEnd" /\ jobs # <<>> /\ c = Head(jobs)
      /\ Release(c, "idle", <<>>)
      /\ UNCHANGED <<kind, engine, fate, calls>>
      /\ held' = FALSE /\ owns' = [owns EXCEPT ![c] = FALSE]
      /\ owns \in [Ctx -> BOOLEAN]
  BY DEF EndExclusive, Running, Release, IInv, TypeOK
<1>2. /\ QueuesOK' /\ RollbackBeforeBegin'
      /\ pc'[c] = "idle"
      /\ \A d \in Ctx \ {c} :
            pc'[d] = IF pc[d] = "waiting" THEN "woken" ELSE pc[d]
  <2>1. "idle" \in Phases \ {"waiting", "begin"} /\ "idle" \notin Jobs
    BY DEF Phases, Jobs
  <2> QED BY <1>1, <2>1, ReleaseKeepsQueues
<1>3. OwnershipOK'
  BY <1>1, <1>2
     DEF IInv, OwnershipOK, GateHasOneHolder, OwnsByPhase, EngineByPhase, InTx,
         InExclusive
<1>4. RestTypeOK'
  BY <1>1 DEF IInv, TypeOK, RestTypeOK
<1> QED BY <1>2, <1>3, <1>4, IInvParts

-----------------------------------------------------------------------------
(* Every step keeps the invariant.                                         *)
LEMMA NextKeepsIInv == IInv /\ [Next]_vars => IInv'
<1> SUFFICES ASSUME IInv, [Next]_vars PROVE IInv'
  OBVIOUS
<1>1. ASSUME NEW c \in Ctx, AppStep(c) PROVE IInv'
  BY <1>1, AppStepKeepsIInv
<1>2. ASSUME NEW c \in Ctx, Enter(c) PROVE IInv'
  <2>1. /\ jobs # <<>> /\ c = Head(jobs) /\ pc[c] \in {"call", "woken"}
        /\ UNCHANGED <<kind, calls>>
        /\ Enqueue(c) \/ RunStatement(c) \/ TakeGate(c)
    BY <1>2 DEF Enter, Running
  <2> QED BY <2>1, EnqueueKeepsIInv, RunStatementKeepsIInv, TakeGateKeepsIInv
<1>3. ASSUME NEW c \in Ctx, Begin(c) PROVE IInv'
  BY <1>3, BeginKeepsIInv
<1>4. ASSUME NEW c \in Ctx, StatementInTx(c) \/ StatementInExclusive(c)
      PROVE  IInv'
  BY <1>4, StatementKeepsIInv
<1>5. ASSUME NEW c \in Ctx, Commit(c) \/ Rollback(c) PROVE IInv'
  BY <1>5, EndOfTransactionKeepsIInv
<1>6. ASSUME NEW c \in Ctx, EndExclusive(c) PROVE IInv'
  BY <1>6, EndExclusiveKeepsIInv
<1>7. ASSUME NEW c \in Ctx, Timeout(c) PROVE IInv'
  BY <1>7, TimeoutKeepsIInv
<1>8. CASE UNCHANGED vars
  BY <1>8
     DEF vars, IInv, TypeOK, GateHasOneHolder, QueuedOnce, WaitingOnce,
         OwnsByPhase, EngineByPhase, RollbackBeforeBegin, RollingBack, Beginning
<1> QED BY <1>1, <1>2, <1>3, <1>4, <1>5, <1>6, <1>7, <1>8 DEF Next, RunJob

(* The invariant holds in every state the gate reaches.                    *)
LEMMA IInvIsInvariant == Spec => []IInv
BY InitIInv, NextKeepsIInv, PTL DEF Spec

-----------------------------------------------------------------------------
(* Every variable keeps its type, for any set of contexts (tx-gate.ts,     *)
(* sqlite-adapter.ts:336-436).                                             *)
THEOREM TypeCorrect == Spec => []TypeOK
<1>1. IInv => TypeOK
  BY DEF IInv
<1> QED BY IInvIsInvariant, <1>1, PTL

(* At most one context owns the gate, and the gate is held exactly when    *)
(* one does (tx-gate.ts:160-190, 253-257).                                 *)
THEOREM OneHolder == Spec => []GateHasOneHolder
<1>1. IInv => GateHasOneHolder
  BY DEF IInv
<1> QED BY IInvIsInvariant, <1>1, PTL

(* A context that waits is in the waiter list of a gate that is held: its  *)
(* wake-up cannot be lost (tx-gate.ts:106-113, 184-190).                   *)
THEOREM NoLostWakeUp == Spec => []NoForgottenWaiter
<1>1. IInv => NoForgottenWaiter
  <2> SUFFICES ASSUME IInv, NEW c \in Ctx, pc[c] = "waiting"
               PROVE  held /\ Contains(waiters, c)
    BY DEF NoForgottenWaiter
  <2>1. Contains(waiters, c)
    BY DEF IInv, WaitingOnce
  <2>2. waiters # <<>>
    BY <2>1, EmptySeq DEF Contains
  <2> QED BY <2>1, <2>2 DEF IInv, WaitingOnce
<1> QED BY IInvIsInvariant, <1>1, PTL

(* A transaction's statements, COMMIT and ROLLBACK reach the SQL           *)
(* transaction its own context began (base-adapter.ts:482-512).            *)
THEOREM OwnTransaction == Spec => []TransactionKeepsConnection
<1>1. IInv => TransactionKeepsConnection
  BY DEF IInv, EngineByPhase, InTx, TransactionKeepsConnection
<1> QED BY IInvIsInvariant, <1>1, PTL

(* No BEGIN runs inside an open SQL transaction, although a COMMIT that    *)
(* throws frees the gate before its ROLLBACK (sqlite-adapter.ts:399-436).  *)
THEOREM NoNestedBegin == Spec => []BeginFindsNoTransaction
<1>1. IInv => BeginFindsNoTransaction
  <2> SUFFICES ASSUME IInv, NEW c \in Ctx, jobs # <<>>, c = Head(jobs),
                      pc[c] = "begin", engine # NoCtx
               PROVE  FALSE
    BY DEF BeginFindsNoTransaction, Running
  <2>1. engine \in Ctx /\ pc[engine] \in InTx
    BY DEF IInv, TypeOK, EngineByPhase
  <2>2. owns[c] /\ engine # c
    BY <2>1 DEF IInv, OwnsByPhase, InTx
  <2>3. pc[engine] = "rollback"
    BY <2>1, <2>2 DEF IInv, OwnsByPhase, GateHasOneHolder
  <2>4. /\ jobs \in Seq(Ctx) /\ Len(jobs) \in Nat \ {0}
        /\ DOMAIN jobs = 1 .. Len(jobs) /\ jobs[1] = c
    BY EmptySeq, LenProperties DEF IInv, TypeOK
  <2>5. PICK i \in 1 .. Len(jobs) : jobs[i] = engine
    BY <2>1, <2>3 DEF IInv, QueuedOnce, Contains, Jobs
  <2>6. i < 1
    BY <2>1, <2>3, <2>4, <2>5
       DEF IInv, RollbackBeforeBegin, Before, RollingBack, Beginning
  <2> QED BY <2>4, <2>5, <2>6
<1> QED BY IInvIsInvariant, <1>1, PTL

-----------------------------------------------------------------------------
(* While COMMIT does not throw, no context is ever between a failed COMMIT *)
(* and its ROLLBACK, so a free gate means a connection without transaction.*)

NoFailedCommit == RollingBack = {}

CInv == IInv /\ NoFailedCommit /\ NoStatementInForeignTransaction

(* Contexts inside a transaction own the gate; a free gate has no          *)
(* transaction.                                                            *)
LEMMA FreeGateFreeConnection ==
  ASSUME IInv, NoFailedCommit
  PROVE  /\ \A c \in Ctx : pc[c] \in InTx => owns[c]
         /\ engine # NoCtx => engine \in Ctx /\ owns[engine]
         /\ ~held => engine = NoCtx
<1>1. \A c \in Ctx : pc[c] \in InTx => owns[c]
  BY DEF IInv, OwnsByPhase, NoFailedCommit, RollingBack
<1>2. engine # NoCtx => engine \in Ctx /\ owns[engine]
  BY <1>1 DEF IInv, TypeOK, EngineByPhase
<1>3. ~held => engine = NoCtx
  BY <1>2 DEF IInv, GateHasOneHolder
<1> QED BY <1>1, <1>2, <1>3

(* Every step keeps the stronger invariant while COMMIT does not throw.    *)
LEMMA CInvStep ==
  ASSUME "commit" \notin Failures, CInv, [Next]_vars
  PROVE  CInv'
<1>1. IInv'
  BY NextKeepsIInv DEF CInv
<1>2. pc \in [Ctx -> Phases] /\ fate \in [Ctx -> Fates]
  BY DEF CInv, IInv, TypeOK
<1>3. \A c \in Ctx : pc[c] # "rollback" /\ fate[c] # "open"
  BY DEF CInv, NoFailedCommit, RollingBack, NoStatementInForeignTransaction
<1>4. ASSUME NEW c \in Ctx, NEW p \in Phases \ {"rollback"}, Goto(c, p)
      PROVE  \A d \in Ctx : pc'[d] # "rollback"
  BY <1>2, <1>3, <1>4 DEF Goto
<1>5. ASSUME NEW c \in Ctx, NEW p \in Phases \ {"rollback"}, NEW after,
             Release(c, p, after)
      PROVE  \A d \in Ctx : pc'[d] # "rollback"
  BY <1>2, <1>3, <1>5 DEF Release
<1>6. ASSUME NEW c \in Ctx, StateRelease(c, AfterTx(c), <<>>)
      PROVE  \A d \in Ctx : pc'[d] # "rollback"
  <2>1. AfterTx(c) \in Phases \ {"rollback"}
    BY DEF AfterTx, Phases, Jobs
  <2> QED BY <1>4, <1>5, <1>6, <2>1 DEF StateRelease
<1>7. \A d \in Ctx : pc'[d] # "rollback" /\ fate'[d] # "open"
  <2>1. ASSUME NEW c \in Ctx, AppStep(c)
        PROVE  \A d \in Ctx : pc'[d] # "rollback" /\ fate'[d] # "open"
    <3>1. PICK p \in Phases \ {"rollback"} : Schedule(c, p)
      BY <2>1 DEF AppStep, StartCall, StepInTx, EndTx, StepInExclusive,
                  ReturnFromExclusive, Phases, Jobs
    <3>2. Goto(c, p) /\ fate' = fate
      BY <3>1 DEF Schedule
    <3> QED BY <1>3, <1>4, <3>2
  <2>2. ASSUME NEW c \in Ctx, Enter(c)
        PROVE  \A d \in Ctx : pc'[d] # "rollback" /\ fate'[d] # "open"
    <3>1. CASE Enqueue(c)
      <4>1. Goto(c, "waiting") /\ fate' = fate /\ "waiting" \in Phases
        BY <3>1 DEF Enqueue, Phases
      <4> QED BY <1>3, <1>4, <4>1
    <3>2. CASE RunStatement(c)
      <4>1. Goto(c, "idle") /\ fate' = [fate EXCEPT ![c] = "durable"]
        BY <3>2, FreeGateFreeConnection DEF CInv, RunStatement
      <4> QED BY <1>2, <1>3, <1>4, <4>1 DEF Phases
    <3>3. CASE TakeGate(c)
      <4>1. (Goto(c, "begin") \/ Goto(c, "excl")) /\ fate' = fate
        BY <3>3 DEF TakeGate
      <4> QED BY <1>3, <1>4, <4>1 DEF Phases, Jobs
    <3> QED BY <2>2, <3>1, <3>2, <3>3 DEF Enter
  <2>3. ASSUME NEW c \in Ctx, Begin(c)
        PROVE  \A d \in Ctx : pc'[d] # "rollback" /\ fate'[d] # "open"
    <3>1. fate' = fate /\ (Goto(c, "tx") \/ StateRelease(c, AfterTx(c), <<>>))
      BY <2>3 DEF Begin
    <3> QED BY <1>3, <1>4, <1>6, <3>1 DEF Phases
  <2>4. ASSUME NEW c \in Ctx, StatementInTx(c) \/ StatementInExclusive(c)
        PROVE  \A d \in Ctx : pc'[d] # "rollback" /\ fate'[d] # "open"
    <3>1. (Goto(c, "tx") \/ Goto(c, "excl")) /\ fate' = fate
      BY <2>4 DEF StatementInTx, StatementInExclusive
    <3> QED BY <1>3, <1>4, <3>1 DEF Phases
  <2>5. ASSUME NEW c \in Ctx, Commit(c) \/ Rollback(c)
        PROVE  \A d \in Ctx : pc'[d] # "rollback" /\ fate'[d] # "open"
    <3>1. PICK outcome \in {"durable", "lost"} :
            Settle(outcome) /\ StateRelease(c, AfterTx(c), <<>>)
      BY <2>5 DEF Commit, Rollback
    <3>2. \A d \in Ctx : fate'[d] # "open"
      BY <1>3, <3>1 DEF Settle
    <3> QED BY <1>6, <3>1, <3>2
  <2>6. ASSUME NEW c \in Ctx, EndExclusive(c)
        PROVE  \A d \in Ctx : pc'[d] # "rollback" /\ fate'[d] # "open"
    <3>1. Release(c, "idle", <<>>) /\ fate' = fate /\ "idle" \in Phases
      BY <2>6 DEF EndExclusive, Phases
    <3> QED BY <1>3, <1>5, <3>1
  <2>7. ASSUME NEW c \in Ctx, Timeout(c)
        PROVE  \A d \in Ctx : pc'[d] # "rollback" /\ fate'[d] # "open"
    <3>1. Goto(c, "idle") /\ fate' = fate /\ "idle" \in Phases
      BY <2>7 DEF Timeout, Phases
    <3> QED BY <1>3, <1>4, <3>1
  <2>8. CASE UNCHANGED vars
    BY <1>3, <2>8 DEF vars
  <2> QED BY <2>1, <2>2, <2>3, <2>4, <2>5, <2>6, <2>7, <2>8 DEF Next, RunJob
<1> QED BY <1>1, <1>7
        DEF CInv, NoFailedCommit, RollingBack, NoStatementInForeignTransaction

(* The stronger invariant holds before the first call.                     *)
LEMMA CInvInit == Init => CInv
BY InitIInv DEF Init, CInv, NoFailedCommit, RollingBack,
                NoStatementInForeignTransaction

(* Without failing COMMITs, no plain statement runs inside the transaction *)
(* of another context (tx-gate.ts:133-147).                                *)
THEOREM NoForeignStatement ==
  ASSUME "commit" \notin Failures
  PROVE  Spec => []NoStatementInForeignTransaction
<1>1. CInv /\ [Next]_vars => CInv'
  BY CInvStep
<1>2. CInv => NoStatementInForeignTransaction
  BY DEF CInv
<1> QED BY CInvInit, <1>1, <1>2, PTL DEF Spec

-----------------------------------------------------------------------------
(* Refinement.  The abstract holders are the owners of the gate.           *)
Holders == {c \in Ctx : owns[c]}

(* The gate has at most one owner, and none when it is free.               *)
LEMMA HoldersOfOwner ==
  ASSUME IInv
  PROVE  /\ \A c \in Ctx : owns[c] => Holders = {c}
         /\ ~held => Holders = {}
BY DEF IInv, GateHasOneHolder, Holders

(* The holders after the gate is taken or released.                        *)
LEMMA HoldersAfter ==
  ASSUME IInv, NEW c \in Ctx, NEW b \in BOOLEAN, owns[c] \/ ~held,
         owns' = [owns EXCEPT ![c] = b]
  PROVE  Holders' = IF b THEN {c} ELSE {}
<1>1. owns \in [Ctx -> BOOLEAN] /\ \A d \in Ctx \ {c} : ~owns[d]
  BY DEF IInv, TypeOK, GateHasOneHolder
<1> QED BY <1>1 DEF Holders

(* Every step of the gate is a step of the serial connection, or none.     *)
LEMMA StepRefines ==
  ASSUME "commit" \notin Failures, CInv, [Next]_vars
  PROVE  [Conn!ConnNext]_(Conn!connVars)
<1> USE DEF Holders
<1>0. /\ IInv /\ NoFailedCommit
      /\ owns \in [Ctx -> BOOLEAN] /\ fate \in [Ctx -> Fates]
      /\ \A c \in Ctx : fate[c] # "open"
      /\ NoCtx \notin Ctx
  BY CtxAssumption DEF CInv, IInv, TypeOK, NoStatementInForeignTransaction
<1>1. ASSUME owns' = owns, engine' = engine, fate' = fate
      PROVE  UNCHANGED Conn!connVars
  BY <1>1 DEF Conn!connVars
<1>2. ASSUME NEW c \in Ctx, Enter(c)
      PROVE  [Conn!ConnNext]_(Conn!connVars)
  <2>1. CASE Enqueue(c)
    BY <1>1, <2>1 DEF Enqueue
  <2>2. CASE RunStatement(c)
    <3>1. /\ ~held /\ engine = NoCtx /\ Holders = {}
          /\ fate' = [fate EXCEPT ![c] = "durable"]
          /\ owns' = owns /\ engine' = engine
      BY <1>0, <2>2, FreeGateFreeConnection, HoldersOfOwner DEF RunStatement
    <3>2. Conn!PlainStatement(c)
      BY <3>1 DEF Conn!PlainStatement
    <3> QED BY <3>2 DEF Conn!ConnNext
  <2>3. CASE TakeGate(c)
    <3>1. /\ ~held /\ engine = NoCtx /\ Holders = {}
          /\ owns' = [owns EXCEPT ![c] = TRUE]
          /\ fate' = fate /\ engine' = engine
      BY <1>0, <2>3, FreeGateFreeConnection, HoldersOfOwner DEF TakeGate
    <3>2. Holders' = {c}
      BY <1>0, <3>1, HoldersAfter
    <3>3. Conn!Take(c)
      BY <3>1, <3>2 DEF Conn!Take
    <3> QED BY <3>3 DEF Conn!ConnNext
  <2> QED BY <1>2, <2>1, <2>2, <2>3 DEF Enter
<1>3. ASSUME NEW c \in Ctx, StateRelease(c, AfterTx(c), <<>>), owns[c]
      PROVE  Holders = {c} /\ Holders' \in {{c}, {}}
  <2>1. owns' = owns \/ owns' = [owns EXCEPT ![c] = FALSE]
    BY <1>3 DEF StateRelease, Release
  <2>2. Holders = {c}
    BY <1>0, <1>3, HoldersOfOwner
  <2>3. CASE owns' = owns
    BY <2>2, <2>3
  <2>4. CASE owns' = [owns EXCEPT ![c] = FALSE]
    BY <1>0, <1>3, <2>2, <2>4, HoldersAfter
  <2> QED BY <2>1, <2>3, <2>4
<1>4. ASSUME NEW c \in Ctx, Begin(c)
      PROVE  [Conn!ConnNext]_(Conn!connVars)
  <2>1. pc[c] = "begin" /\ owns[c] /\ fate' = fate /\ Holders = {c}
    BY <1>0, <1>4, HoldersOfOwner DEF Begin, Running, IInv, OwnsByPhase
  <2>2. engine = NoCtx
    <3>1. engine # NoCtx => engine \in Ctx /\ owns[engine] /\ pc[engine] \in InTx
      BY <1>0, FreeGateFreeConnection DEF IInv, EngineByPhase
    <3>2. engine # c
      BY <1>0, <2>1 DEF IInv, EngineByPhase, InTx
    <3> QED BY <1>0, <2>1, <3>1, <3>2 DEF IInv, GateHasOneHolder
  <2>3. CASE engine' = c /\ owns' = owns
    <3>1. Conn!BeginTransaction(c)
      BY <2>1, <2>2, <2>3 DEF Conn!BeginTransaction
    <3> QED BY <3>1 DEF Conn!ConnNext
  <2>4. CASE StateRelease(c, AfterTx(c), <<>>) /\ engine' = engine
    <3>1. Holders' \in {{c}, {}}
      BY <1>3, <2>1, <2>4
    <3>2. CASE Holders' = {}
      <4>1. Conn!GiveBack(c)
        BY <2>1, <2>2, <2>4, <3>2 DEF Conn!GiveBack
      <4> QED BY <4>1 DEF Conn!ConnNext
    <3>3. CASE Holders' = {c}
      BY <2>1, <2>4, <3>3 DEF Conn!connVars
    <3> QED BY <3>1, <3>2, <3>3
  <2> QED BY <1>4, <2>3, <2>4 DEF Begin
<1>5. ASSUME NEW c \in Ctx, Commit(c) \/ Rollback(c)
      PROVE  [Conn!ConnNext]_(Conn!connVars)
  <2>1. PICK outcome : Settle(outcome) /\ StateRelease(c, AfterTx(c), <<>>)
    BY <1>5 DEF Commit, Rollback
  <2>2. engine = c /\ owns[c]
    BY <1>0, <1>5, FreeGateFreeConnection
       DEF Commit, Rollback, Running, IInv, EngineByPhase, InTx
  <2>3. engine' = NoCtx
    BY <2>1 DEF Settle
  <2>4. fate' = fate
    <3>1. fate' = [d \in Ctx |-> fate[d]]
      BY <1>0, <2>1 DEF Settle
    <3> QED BY <1>0, <3>1
  <2>5. Holders = {c} /\ Holders' \in {{c}, {}}
    BY <1>3, <2>1, <2>2
  <2>6. Conn!EndTransaction(c)
    BY <2>2, <2>3, <2>4, <2>5 DEF Conn!EndTransaction
  <2> QED BY <2>6 DEF Conn!ConnNext
<1>6. ASSUME NEW c \in Ctx, EndExclusive(c)
      PROVE  [Conn!ConnNext]_(Conn!connVars)
  <2>1. /\ pc[c] = "exclEnd" /\ owns' = [owns EXCEPT ![c] = FALSE]
        /\ fate' = fate /\ engine' = engine
    BY <1>6 DEF EndExclusive, Running, Release
  <2>2. owns[c] /\ Holders = {c}
    BY <1>0, <2>1, HoldersOfOwner DEF IInv, OwnsByPhase, InExclusive
  <2>3. engine = NoCtx
    <3>1. engine # NoCtx => engine \in Ctx /\ owns[engine] /\ pc[engine] \in InTx
      BY <1>0, FreeGateFreeConnection DEF IInv, EngineByPhase
    <3>2. engine # c
      BY <1>0, <2>1 DEF IInv, EngineByPhase, InTx
    <3> QED BY <1>0, <2>2, <3>1, <3>2 DEF IInv, GateHasOneHolder
  <2>4. Holders' = {}
    BY <1>0, <2>1, <2>2, HoldersAfter
  <2>5. Conn!GiveBack(c)
    BY <2>1, <2>2, <2>3, <2>4 DEF Conn!GiveBack
  <2> QED BY <2>5 DEF Conn!ConnNext
<1>7. ASSUME NEW c \in Ctx,
             \/ AppStep(c) \/ Timeout(c)
             \/ StatementInTx(c) \/ StatementInExclusive(c)
      PROVE  UNCHANGED Conn!connVars
  <2>1. owns' = owns /\ engine' = engine /\ fate' = fate
    BY <1>7 DEF AppStep, StartCall, StepInTx, EndTx, StepInExclusive,
                ReturnFromExclusive, Schedule, Timeout, StatementInTx,
                StatementInExclusive
  <2> QED BY <1>1, <2>1
<1>8. CASE UNCHANGED vars
  BY <1>1, <1>8 DEF vars
<1> QED BY <1>2, <1>4, <1>5, <1>6, <1>7, <1>8 DEF Next, RunJob

(* As long as COMMIT does not throw, the gate implements a serial          *)
(* connection for any set of contexts (tx-gate.ts:133-147).                *)
THEOREM GateImplementsConnection ==
  ASSUME "commit" \notin Failures
  PROVE  Spec => ImplementsSerialConnection
<1>1. Init => Conn!ConnInit
  BY DEF Init, Conn!ConnInit
<1>2. CInv /\ [Next]_vars => CInv' /\ [Conn!ConnNext]_(Conn!connVars)
  BY CInvStep, StepRefines
<1> QED BY CInvInit, <1>1, <1>2, PTL
        DEF Spec, ImplementsSerialConnection, Conn!ConnSpec

-----------------------------------------------------------------------------
(* The sync lock *)

(* Each run has a podId of its own (the default is a random UUID).         *)
OwnPods == \A r, s \in Runs : PodId[r] = PodId[s] => r = s

(* The TTL survives MaxBeatFails refreshes in a row that fail.             *)
BeatsFitTtl == (MaxBeatFails + 1) * HeartbeatInterval <= Ttl

(* The heartbeat interval is a number of milliseconds.                     *)
LEMMA IntervalType == HeartbeatInterval \in Nat
  BY TimesAssumption DEF HeartbeatInterval

-----------------------------------------------------------------------------
(* The initial state is type correct.                                      *)
LEMMA LockTypeInit == LockInit => LockTypeOK
  BY TimesAssumption, SMTT(20) DEF LockInit, LockTypeOK, Places, InFlight

(* Every step keeps the types, among them that no stamp lies in the future *)
(* and no row outlives now + Ttl.                                          *)
LEMMA LockTypeStep == LockTypeOK /\ [LockNext]_lockVars => LockTypeOK'
<1> SUFFICES ASSUME LockTypeOK, [LockNext]_lockVars PROVE LockTypeOK'
  OBVIOUS
<1> USE TimesAssumption, NoLockAssumption, IntervalType DEF LockTypeOK, Places, InFlight, LockRows
<1>t. CASE Tick
  BY <1>t DEF Tick
<1>1. ASSUME NEW r \in Runs, Start(r) PROVE LockTypeOK'
  BY <1>1, SMTT(30) DEF Start, GoTo, NoHeartbeatChange
<1>2. ASSUME NEW r \in Runs, TryCall(r) PROVE LockTypeOK'
  BY <1>2, SMTT(30) DEF TryCall, GoTo, NoHeartbeatChange
<1>3. ASSUME NEW r \in Runs, TryRead(r) PROVE LockTypeOK'
  BY <1>3, SMTT(30) DEF TryRead, GoTo, NoHeartbeatChange
<1>4. ASSUME NEW r \in Runs, TryClear(r) PROVE LockTypeOK'
  BY <1>4, SMTT(30) DEF TryClear, DeleteExpired, GoTo, NoHeartbeatChange
<1>5. ASSUME NEW r \in Runs, TryInsert(r) PROVE LockTypeOK'
  <2>1. RowOf(r) \in LockRows
    BY DEF RowOf
  <2>2. now' = now /\ stamp' = stamp /\ deadline' = deadline /\ until' = until
    BY <1>5 DEF TryInsert
  <2>3. lock' \in LockRows \cup {NoLock}
    BY <1>5, <2>1 DEF TryInsert
  <2>4. place' \in [Runs -> Places]
    BY <1>5 DEF TryInsert, Acquired, GoTo
  <2>5. /\ nextBeat' \in [Runs -> Nat]
        /\ abort' \in [Runs -> BOOLEAN]
        /\ beat' = beat /\ beatAt' = beatAt /\ fails' = fails
    <3>1. Acquired(r) \/ NoHeartbeatChange
      BY <1>5 DEF TryInsert
    <3>2. CASE Acquired(r)
      BY <3>2 DEF Acquired
    <3>3. CASE NoHeartbeatChange
      BY <3>3 DEF NoHeartbeatChange
    <3> QED BY <3>1, <3>2, <3>3
  <2>6. stamp' \in [Runs -> 0..now'] /\ beatAt' \in [Runs -> 0..now']
    BY <2>2, <2>5
  <2>7. lock' \in LockRows' \cup {NoLock}
    BY <2>2, <2>3
  <2>8. now' \in Nat /\ deadline' \in [Runs -> Nat] /\ until' \in [Runs -> Nat]
    BY <2>2
  <2>9. beat' \in [Runs -> {"none", "update", "lookup"}] /\ fails' \in [Runs -> 0..MaxBeatFails]
    BY <2>5
  <2> HIDE DEF Places, LockRows
  <2> QED BY <2>4, <2>5, <2>6, <2>7, <2>8, <2>9
<1>6. ASSUME NEW r \in Runs, ReadBack(r) PROVE LockTypeOK'
  <2>1. CASE Acquired(r)
    BY <1>6, <2>1 DEF ReadBack, Acquired, GoTo
  <2>2. CASE NoHeartbeatChange /\ GoTo(r, "poll")
    BY <1>6, <2>2 DEF ReadBack, NoHeartbeatChange, GoTo
  <2> QED BY <1>6, <2>1, <2>2 DEF ReadBack
<1>7. ASSUME NEW r \in Runs, Poll(r) PROVE LockTypeOK'
  BY <1>7, SMTT(30) DEF Poll, MinOf, GoTo, NoHeartbeatChange
<1>8. ASSUME NEW r \in Runs, PollClear(r) PROVE LockTypeOK'
  BY <1>8, SMTT(30) DEF PollClear, DeleteExpired, GoTo, NoHeartbeatChange
<1>9. ASSUME NEW r \in Runs, WakeUp(r) PROVE LockTypeOK'
  BY <1>9, SMTT(30) DEF WakeUp, GoTo, NoHeartbeatChange
<1>10. ASSUME NEW r \in Runs, AfterWait(r) PROVE LockTypeOK'
  BY <1>10, SMTT(30) DEF AfterWait, GoTo, NoHeartbeatChange
<1>11. ASSUME NEW r \in Runs, BeatStart(r) PROVE LockTypeOK'
  BY <1>11, SMTT(30) DEF BeatStart, GoTo, NoHeartbeatChange
<1>12. ASSUME NEW r \in Runs, BeatUpdate(r) PROVE LockTypeOK'
  <2>1. CASE OwnRow(r)
    <3>1. /\ lock \in LockRows
          /\ lock' = [lock EXCEPT !.exp = beatAt[r] + Ttl]
          /\ beatAt[r] + Ttl \in 0..now + Ttl
      BY <1>12, <2>1 DEF BeatUpdate, OwnRow
    <3>2. lock' \in LockRows
      BY <3>1
    <3> QED BY <1>12, <2>1, <3>2 DEF BeatUpdate
  <2>2. CASE ~OwnRow(r)
    BY <1>12, <2>2 DEF BeatUpdate
  <2> QED BY <2>1, <2>2
<1>13. ASSUME NEW r \in Runs, BeatLookup(r) PROVE LockTypeOK'
  BY <1>13, SMTT(30) DEF BeatLookup, GoTo, NoHeartbeatChange
<1>14. ASSUME NEW r \in Runs, BeatFails(r) PROVE LockTypeOK'
  BY <1>14, SMTT(30) DEF BeatFails, GoTo, NoHeartbeatChange
<1>15. ASSUME NEW r \in Runs, Finish(r) PROVE LockTypeOK'
  BY <1>15, SMTT(30) DEF Finish, GoTo, NoHeartbeatChange
<1>16. ASSUME NEW r \in Runs, ReleaseLock(r) PROVE LockTypeOK'
  BY <1>16, SMTT(30) DEF ReleaseLock, GoTo, NoHeartbeatChange
<1>17. ASSUME NEW r \in Runs, Dies(r) PROVE LockTypeOK'
  BY <1>17, SMTT(30) DEF Dies, GoTo, NoHeartbeatChange
<1>u. CASE UNCHANGED lockVars
  BY <1>u DEF lockVars
<1> QED BY <1>t, <1>u, <1>1, <1>2, <1>3, <1>4, <1>5, <1>6, <1>7, <1>8, <1>9, <1>10, <1>11, <1>12, <1>13,
     <1>14, <1>15, <1>16, <1>17 DEF LockNext, Acquire, Heartbeat

(* The state of the lock has its types in every reachable state.           *)
THEOREM LockTypeCorrect == LockSpec => []LockTypeOK
  BY LockTypeInit, LockTypeStep, PTL DEF LockSpec

-----------------------------------------------------------------------------
(* Ownership, for any timing *)

(* A refresh is in flight only in a run that has acquired the lock, and it *)
(* asks who holds the lock only when the row is not its own; a run that    *)
(* has acquired does not get its row back once it has lost it.             *)
OwnershipOf(r) ==
  /\ beat[r] # "none" => place[r] \in {"held", "stopping"}
  /\ beat[r] = "lookup" => ~OwnRow(r)
  /\ place[r] = "held" /\ abort[r] => ~OwnRow(r)

OwnershipInv == LockTypeOK /\ \A r \in Runs : OwnershipOf(r)

(* With its own podId, the row a run matches is the row it wrote.          *)
LEMMA OwnRowIsMine ==
  ASSUME OwnPods, LockTypeOK, NEW r \in Runs, OwnRow(r)
  PROVE  lock \in LockRows /\ lock.run = r
  BY DEF OwnPods, LockTypeOK, OwnRow, LockRows

(* No step of a run but its own insert gives it the row.                   *)
LEMMA RowsAppearByInsert ==
  ASSUME OwnPods, LockTypeOK, LockNext, NEW r \in Runs, place[r] # "insert", ~OwnRow(r)
  PROVE  ~OwnRow(r)'
<1> USE DEF OwnRow
<1>1. CASE lock' = lock \/ lock' = NoLock
  BY <1>1
<1>2. ASSUME NEW s \in Runs, BeatUpdate(s) PROVE ~OwnRow(r)'
  <2>1. CASE OwnRow(s)
    <3>1. lock \in LockRows
      BY <2>1, OwnRowIsMine
    <3>2. lock'.run = lock.run
      BY <1>2, <2>1, <3>1 DEF BeatUpdate, LockRows
    <3> QED BY <2>1, <3>2
  <2> QED BY <1>2, <2>1 DEF BeatUpdate
<1>3. ASSUME NEW s \in Runs, TryInsert(s) PROVE ~OwnRow(r)'
  <2>1. s # r
    BY <1>3 DEF TryInsert
  <2>2. CASE lock' = RowOf(s)
    <3>1. lock'.run = s
      BY <2>2 DEF RowOf
    <3> QED BY <2>1, <3>1 DEF OwnPods
  <2> QED BY <1>1, <1>3, <2>2 DEF TryInsert
<1>4. ASSUME NEW s \in Runs,
             Start(s) \/ TryCall(s) \/ TryRead(s) \/ TryClear(s) \/ ReadBack(s)
             \/ Poll(s) \/ PollClear(s) \/ WakeUp(s)
      PROVE  ~OwnRow(r)'
  BY <1>1, <1>4 DEF Start, TryCall, TryRead, TryClear, ReadBack, Poll, PollClear,
                    WakeUp, DeleteExpired
<1>5. ASSUME NEW s \in Runs,
             AfterWait(s) \/ BeatStart(s) \/ BeatLookup(s) \/ BeatFails(s)
             \/ Finish(s) \/ ReleaseLock(s) \/ Dies(s)
      PROVE  ~OwnRow(r)'
  BY <1>1, <1>5 DEF AfterWait, BeatStart, BeatLookup, BeatFails, Finish, ReleaseLock, Dies
<1>6. CASE Tick
  BY <1>1, <1>6 DEF Tick
<1> QED BY <1>2, <1>3, <1>4, <1>5, <1>6 DEF LockNext, Acquire, Heartbeat

(* OwnershipInv holds before the first run.                                *)
LEMMA OwnershipInit == LockInit => OwnershipInv
  BY LockTypeInit DEF LockInit, OwnershipInv, OwnershipOf

(* Every step keeps OwnershipInv, under any delay.                         *)
LEMMA OwnershipStep ==
  ASSUME OwnPods, OwnershipInv, [LockNext]_lockVars PROVE OwnershipInv'
<1>1. LockTypeOK'
  BY LockTypeStep DEF OwnershipInv
<1>2. CASE UNCHANGED lockVars
  BY <1>1, <1>2 DEF lockVars, OwnershipInv, OwnershipOf, OwnRow
<1>3. ASSUME NEW r \in Runs, LockNext PROVE OwnershipOf(r)'
  <2> USE DEF OwnershipInv, OwnershipOf, LockTypeOK
  <2>0. place[r] # "insert" /\ ~OwnRow(r) => ~OwnRow(r)'
    BY <1>3, RowsAppearByInsert
  <2>1. ASSUME NEW s \in Runs,
               Start(s) \/ TryCall(s) \/ TryRead(s) \/ TryClear(s)
               \/ Poll(s) \/ PollClear(s) \/ WakeUp(s) \/ AfterWait(s)
        PROVE  OwnershipOf(r)'
    BY <2>0, <2>1, SMTT(60) DEF Start, TryCall, TryRead, TryClear, Poll, PollClear,
       WakeUp, AfterWait, GoTo, NoHeartbeatChange
  <2>2. ASSUME NEW s \in Runs, TryInsert(s) PROVE OwnershipOf(r)'
    BY <2>0, <2>2, SMTT(60) DEF TryInsert, Acquired, GoTo, NoHeartbeatChange
  <2>3. ASSUME NEW s \in Runs, ReadBack(s) PROVE OwnershipOf(r)'
    BY <2>0, <2>3, SMTT(60) DEF ReadBack, Acquired, GoTo, NoHeartbeatChange
  <2>4. ASSUME NEW s \in Runs, BeatStart(s) \/ BeatLookup(s) \/ BeatFails(s)
        PROVE  OwnershipOf(r)'
    BY <2>0, <2>4, SMTT(60) DEF BeatStart, BeatLookup, BeatFails
  <2>5. ASSUME NEW s \in Runs, BeatUpdate(s) PROVE OwnershipOf(r)'
    BY <2>0, <2>5, SMTT(60) DEF BeatUpdate
  <2>6. ASSUME NEW s \in Runs, Finish(s) \/ ReleaseLock(s) \/ Dies(s) PROVE OwnershipOf(r)'
    BY <2>0, <2>6, SMTT(60) DEF Finish, ReleaseLock, Dies, GoTo, NoHeartbeatChange
  <2>7. CASE Tick
    BY <2>0, <2>7 DEF Tick
  <2> QED BY <1>3, <2>1, <2>2, <2>3, <2>4, <2>5, <2>6, <2>7 DEF LockNext, Acquire, Heartbeat
<1> QED BY <1>1, <1>2, <1>3 DEF OwnershipInv

(* A run aborts only when its lock is really gone, however late its        *)
(* refreshes are served and however many of them fail.                     *)
THEOREM AbortsAfterLossOnly ==
  ASSUME OwnPods PROVE LockSpec => []AbortedRunLostLock
<1>1. LockInit => OwnershipInv
  BY OwnershipInit
<1>2. OwnershipInv /\ [LockNext]_lockVars => OwnershipInv'
  BY OwnershipStep
<1>3. OwnershipInv => AbortedRunLostLock
  BY DEF OwnershipInv, OwnershipOf, AbortedRunLostLock
<1> QED BY <1>1, <1>2, <1>3, PTL DEF LockSpec

(* A live row is refreshed and released by the run that wrote it, and by   *)
(* nobody else, however late a statement executes.                         *)
THEOREM LiveLockIsOwners ==
  ASSUME OwnPods PROVE LockSpec => OthersLeaveLiveLockAlone
<1>1. ASSUME LockTypeOK, [LockNext]_lockVars
      PROVE  [lock # NoLock /\ lock' # lock /\ lock.exp >= now
                => BeatUpdate(lock.run) \/ ReleaseLock(lock.run)]_lockVars
  <2> SUFFICES ASSUME LockNext, lock # NoLock, lock' # lock, lock.exp >= now
               PROVE  BeatUpdate(lock.run) \/ ReleaseLock(lock.run)
    BY <1>1
  <2>0. lock \in LockRows /\ now \in Nat /\ stamp \in [Runs -> 0..now]
    BY <1>1 DEF LockTypeOK
  <2>1. ASSUME NEW r \in Runs, TryClear(r) \/ PollClear(r) PROVE FALSE
    <3>1. lock.exp < stamp[r]
      BY <2>1 DEF TryClear, PollClear, DeleteExpired
    <3> QED BY <2>0, <3>1, TimesAssumption DEF LockRows
  <2>2. ASSUME NEW r \in Runs, BeatUpdate(r) \/ ReleaseLock(r)
        PROVE  BeatUpdate(lock.run) \/ ReleaseLock(lock.run)
    <3>1. OwnRow(r)
      BY <2>2 DEF BeatUpdate, ReleaseLock
    <3> QED BY <1>1, <2>2, <3>1, OwnRowIsMine
  <2>3. ASSUME NEW r \in Runs,
               Start(r) \/ TryCall(r) \/ TryRead(r) \/ TryInsert(r) \/ ReadBack(r)
               \/ Poll(r) \/ WakeUp(r) \/ AfterWait(r)
        PROVE  FALSE
    BY <2>3 DEF Start, TryCall, TryRead, TryInsert, ReadBack, Poll, WakeUp, AfterWait
  <2>4. ASSUME NEW r \in Runs,
               BeatStart(r) \/ BeatLookup(r) \/ BeatFails(r) \/ Finish(r) \/ Dies(r)
        PROVE  FALSE
    BY <2>4 DEF BeatStart, BeatLookup, BeatFails, Finish, Dies
  <2>5. CASE Tick
    BY <2>5 DEF Tick
  <2> QED BY <2>1, <2>2, <2>3, <2>4, <2>5 DEF LockNext, Acquire, Heartbeat
<1> QED BY <1>1, LockTypeCorrect, PTL DEF LockSpec, OthersLeaveLiveLockAlone

-----------------------------------------------------------------------------
(* Mutual exclusion among the runs whose calls and heartbeats are served  *)
(* in time, whatever the others do.                                        *)

(* What the missed refreshes still leave of the TTL.                       *)
Slack(r) == (MaxBeatFails - fails[r]) * HeartbeatInterval

(* A call acts within the clock unit in which it read the clock; before a  *)
(* run acquires, none of its refreshes has failed; a run that holds the    *)
(* lock holds the row, and the row outlives its next refresh by the slack. *)
TimingOf(r) ==
  /\ place[r] \in InFlight => stamp[r] = now
  /\ place[r] \in InFlight \cup {"idle", "try", "poll", "sleep", "freed"} => fails[r] = 0
  /\ place[r] = "held" =>
       /\ lock \in LockRows /\ lock.run = r
       /\ IF beat[r] = "none"
          THEN now <= nextBeat[r] /\ nextBeat[r] + Slack(r) <= lock.exp
          ELSE beatAt[r] = now /\ nextBeat[r] = now + HeartbeatInterval
               /\ now + Slack(r) <= lock.exp

TimingInv == OwnershipInv /\ \A r \in Prompt : TimingOf(r)

(* The slack of a run is a natural number.                                 *)
LEMMA SlackType == LockTypeOK => \A r \in Runs : Slack(r) \in Nat
<1> SUFFICES ASSUME LockTypeOK, NEW r \in Runs PROVE Slack(r) \in Nat
  OBVIOUS
<1>1. MaxBeatFails - fails[r] \in Nat
  BY TimesAssumption DEF LockTypeOK
<1> QED BY <1>1, IntervalType DEF Slack

(* The row a run has just stored or refreshed lasts until its next beat,   *)
(* with all the slack.                                                     *)
LEMMA FreshRowLasts ==
  ASSUME BeatsFitTtl
  PROVE  HeartbeatInterval + MaxBeatFails * HeartbeatInterval <= Ttl
<1>1. (MaxBeatFails + 1) * HeartbeatInterval
        = HeartbeatInterval + MaxBeatFails * HeartbeatInterval
  BY IntervalType, TimesAssumption
<1> QED BY <1>1 DEF BeatsFitTtl

(* A prompt holder has its row, and the row is live.                       *)
LEMMA HeldRowIsLive ==
  ASSUME TimingInv, NEW r \in Prompt, place[r] = "held"
  PROVE  lock \in LockRows /\ lock.run = r /\ now <= lock.exp
<1>1. /\ TimingOf(r) /\ Slack(r) \in Nat
      /\ now \in Nat /\ nextBeat[r] \in Nat
  BY SlackType, SwitchesAssumption DEF TimingInv, OwnershipInv, LockTypeOK
<1>2. lock \in LockRows /\ lock.run = r /\ lock.exp \in Int
  BY <1>1, TimesAssumption DEF TimingOf, LockRows, TimingInv, OwnershipInv, LockTypeOK
<1> QED BY <1>1, <1>2 DEF TimingOf

(* So a prompt holder keeps the lock.                                      *)
LEMMA HeldRowIsOwn == TimingInv => HolderKeepsLock
  BY HeldRowIsLive, NoLockAssumption, TimesAssumption
     DEF HolderKeepsLock, TimingInv, OwnershipInv, LockTypeOK, LockRows

(* TimingInv holds before the first run.                                   *)
LEMMA TimingInit == LockInit => TimingInv
  BY OwnershipInit, SwitchesAssumption DEF LockInit, TimingInv, TimingOf, InFlight

(* No step of another run, and no passing of time, takes the row from a    *)
(* run that holds the lock.                                                *)
LEMMA HeldRowStays ==
  ASSUME OwnPods, TimingInv, NEW r \in Prompt, place[r] = "held",
         NEW s \in Runs, s # r,
         Acquire(s) \/ AfterWait(s) \/ Heartbeat(s) \/ Finish(s) \/ ReleaseLock(s) \/ Dies(s)
  PROVE  lock' = lock
<1>0. LockTypeOK /\ lock \in LockRows /\ lock # NoLock /\ lock.run = r /\ now <= lock.exp
  BY HeldRowIsLive, NoLockAssumption, TimesAssumption
     DEF TimingInv, OwnershipInv, LockTypeOK, LockRows
<1>1. ~OwnRow(s)
  BY <1>0, OwnRowIsMine
<1>2. CASE TryClear(s) \/ PollClear(s)
  <2>1. stamp[s] <= now
    BY <1>0 DEF LockTypeOK
  <2>2. ~(lock.exp < stamp[s])
    BY <1>0, <2>1, TimesAssumption DEF LockTypeOK, LockRows
  <2> QED BY <1>2, <2>1, <2>2 DEF TryClear, PollClear, DeleteExpired
<1>3. CASE Start(s) \/ TryCall(s) \/ TryRead(s) \/ TryInsert(s) \/ ReadBack(s)
           \/ Poll(s) \/ WakeUp(s) \/ AfterWait(s)
  BY <1>0, <1>3 DEF Start, TryCall, TryRead, TryInsert, ReadBack, Poll, WakeUp, AfterWait
<1>4. CASE Heartbeat(s) \/ Finish(s) \/ ReleaseLock(s) \/ Dies(s)
  BY <1>1, <1>4 DEF Heartbeat, BeatStart, BeatUpdate, BeatLookup, BeatFails, Finish,
                    ReleaseLock, Dies
<1> QED BY <1>2, <1>3, <1>4 DEF Acquire

(* A run's own step keeps its timing.                                      *)
LEMMA OwnStepKeepsTiming ==
  ASSUME OwnPods, BeatsFitTtl, TimingInv, LockTypeOK', NEW r \in Prompt,
         Acquire(r) \/ AfterWait(r) \/ Heartbeat(r) \/ Finish(r) \/ ReleaseLock(r) \/ Dies(r)
  PROVE  TimingOf(r)'
<1>0. /\ r \in Runs /\ LockTypeOK /\ TimingOf(r) /\ OwnershipOf(r)
      /\ now \in Nat /\ stamp[r] \in Nat /\ fails[r] \in 0..MaxBeatFails
      /\ nextBeat[r] \in Nat /\ HeartbeatInterval \in Nat /\ Slack(r) \in Nat
  BY SlackType, IntervalType, TimesAssumption, SwitchesAssumption
     DEF TimingInv, OwnershipInv, LockTypeOK
<1>a. ASSUME Acquired(r), place[r] \in {"insert", "readback"}, now' = now, stamp' = stamp,
             lock' \in LockRows', lock'.run = r, lock'.exp = now + Ttl
      PROVE  TimingOf(r)'
  <2>1. beat[r] = "none" /\ fails[r] = 0
    BY <1>0, <1>a DEF TimingOf, OwnershipOf, InFlight
  <2>2. place'[r] = "held" /\ nextBeat'[r] = now + HeartbeatInterval
        /\ beat'[r] = "none" /\ fails'[r] = 0
    BY <1>0, <1>a, <2>1 DEF Acquired, GoTo, LockTypeOK
  <2>3. Slack(r)' = MaxBeatFails * HeartbeatInterval
    BY <2>2, TimesAssumption DEF Slack, HeartbeatInterval
  <2>4. now + HeartbeatInterval + MaxBeatFails * HeartbeatInterval <= now + Ttl
    BY <1>0, FreshRowLasts, TimesAssumption
  <2>5. nextBeat'[r] + Slack(r)' <= lock'.exp
    BY <1>a, <2>2, <2>3, <2>4
  <2>6. now' <= nextBeat'[r]
    BY <1>0, <1>a, <2>2
  <2> QED BY <1>a, <2>2, <2>5, <2>6 DEF TimingOf, InFlight
<1>1. CASE Start(r) \/ TryCall(r) \/ TryRead(r) \/ TryClear(r)
  BY <1>0, <1>1 DEF Start, TryCall, TryRead, TryClear, GoTo, NoHeartbeatChange,
                    TimingOf, InFlight, LockTypeOK
<1>2. CASE TryInsert(r)
  <2>1. stamp[r] = now
    BY <1>0, <1>2 DEF TryInsert, TimingOf, InFlight
  <2>2. CASE lock' = RowOf(r) /\ Acquired(r)
    <3>1. lock' \in LockRows' /\ lock'.run = r /\ lock'.exp = now + Ttl
      BY <1>0, <1>2, <2>1, <2>2, TimesAssumption DEF RowOf, LockRows, TryInsert
    <3> QED BY <1>2, <1>a, <2>2, <3>1 DEF TryInsert
  <2>3. CASE GoTo(r, "readback") /\ NoHeartbeatChange
    BY <1>0, <1>2, <2>1, <2>3 DEF TryInsert, GoTo, NoHeartbeatChange, TimingOf, InFlight, LockTypeOK
  <2> QED BY <1>2, <2>2, <2>3 DEF TryInsert
<1>3. CASE ReadBack(r)
  <2>1. stamp[r] = now
    BY <1>0, <1>3 DEF ReadBack, TimingOf, InFlight
  <2>2. CASE SameRow(r) /\ Acquired(r)
    <3>1. lock \in LockRows /\ lock.run = r /\ lock.exp = now + Ttl
      BY <1>0, <2>1, <2>2, OwnRowIsMine DEF SameRow
    <3>2. lock' = lock /\ now' = now /\ stamp' = stamp
      BY <1>3 DEF ReadBack
    <3>3. LockRows' = LockRows
      BY <3>2 DEF LockRows
    <3> QED BY <1>3, <1>a, <2>2, <3>1, <3>2, <3>3 DEF ReadBack
  <2>3. CASE GoTo(r, "poll") /\ NoHeartbeatChange
    BY <1>0, <1>3, <2>3 DEF ReadBack, GoTo, NoHeartbeatChange, TimingOf, InFlight, LockTypeOK
  <2> QED BY <1>3, <2>2, <2>3 DEF ReadBack
<1>4. CASE Poll(r) \/ PollClear(r) \/ WakeUp(r) \/ AfterWait(r)
  BY <1>0, <1>4 DEF Poll, PollClear, WakeUp, AfterWait, GoTo, NoHeartbeatChange,
                    TimingOf, InFlight, LockTypeOK
<1>5. CASE BeatStart(r)
  <2>1. now = nextBeat[r] /\ now + Slack(r) <= lock.exp
        /\ lock \in LockRows /\ lock.run = r
    BY <1>0, <1>5 DEF BeatStart, TimingOf
  <2>2. /\ now' = now /\ lock' = lock /\ place' = place /\ fails' = fails /\ stamp' = stamp
        /\ beat'[r] = "update" /\ beatAt'[r] = now
        /\ nextBeat'[r] = now + HeartbeatInterval
    BY <1>0, <1>5 DEF BeatStart, LockTypeOK
  <2>3. Slack(r)' = Slack(r) /\ LockRows' = LockRows /\ place[r] = "held"
    BY <1>5, <2>2 DEF Slack, LockRows, BeatStart, HeartbeatInterval
  <2> QED BY <2>1, <2>2, <2>3 DEF TimingOf, InFlight
<1>6. CASE BeatUpdate(r)
  <2>1. CASE place[r] = "held"
    <3>1. /\ lock \in LockRows /\ lock.run = r /\ OwnRow(r)
          /\ beatAt[r] = now /\ nextBeat[r] = now + HeartbeatInterval
      BY <1>0, <1>6, <2>1, NoLockAssumption, TimesAssumption
         DEF BeatUpdate, TimingOf, OwnRow, LockRows, LockTypeOK
    <3>2. /\ lock' = [lock EXCEPT !.exp = now + Ttl] /\ now' = now /\ place' = place
          /\ beat'[r] = "none" /\ fails'[r] = 0 /\ nextBeat' = nextBeat
          /\ stamp' = stamp
      BY <1>0, <1>6, <3>1 DEF BeatUpdate, LockTypeOK
    <3>3. lock' \in LockRows' /\ lock'.run = r /\ lock'.exp = now + Ttl
      BY <1>0, <3>1, <3>2, TimesAssumption DEF LockRows
    <3>4. Slack(r)' = MaxBeatFails * HeartbeatInterval
      BY <3>2, TimesAssumption DEF Slack, HeartbeatInterval
    <3>5. nextBeat'[r] + Slack(r)' <= lock'.exp
      BY <1>0, <3>1, <3>2, <3>3, <3>4, FreshRowLasts, TimesAssumption
    <3>6. now' <= nextBeat'[r]
      BY <1>0, <3>1, <3>2
    <3> QED BY <2>1, <3>2, <3>3, <3>5, <3>6 DEF TimingOf, InFlight
  <2>2. CASE place[r] # "held"
    BY <1>0, <1>6, <2>2 DEF BeatUpdate, OwnershipOf, TimingOf, InFlight, LockTypeOK
  <2> QED BY <2>1, <2>2
<1>7. CASE BeatLookup(r)
  <2>1. ASSUME place[r] = "held" PROVE FALSE
    <3>1. lock \in LockRows /\ lock.run = r
      BY <2>1, HeldRowIsLive
    <3>2. lock # NoLock
      BY <1>0, <3>1, NoLockAssumption, TimesAssumption DEF LockTypeOK, LockRows
    <3> QED BY <1>0, <1>7, <3>1, <3>2 DEF BeatLookup, OwnershipOf, OwnRow
  <2> QED BY <1>0, <1>7, <2>1 DEF BeatLookup, OwnershipOf, TimingOf, InFlight, LockTypeOK
<1>8. CASE BeatFails(r)
  <2>1. /\ now' = now /\ lock' = lock /\ place' = place /\ nextBeat' = nextBeat
        /\ stamp' = stamp
        /\ beat'[r] = "none" /\ fails'[r] = fails[r] + 1
    BY <1>0, <1>8 DEF BeatFails, LockTypeOK
  <2>2. CASE place[r] = "held"
    <3>1. Slack(r)' = Slack(r) - HeartbeatInterval
      <4>1. (MaxBeatFails - (fails[r] + 1)) * HeartbeatInterval
              = (MaxBeatFails - fails[r]) * HeartbeatInterval - HeartbeatInterval
        BY <1>0, TimesAssumption
      <4> QED BY <2>1, <4>1 DEF Slack, HeartbeatInterval
    <3>2. /\ lock \in LockRows /\ lock.run = r
          /\ nextBeat[r] = now + HeartbeatInterval /\ now + Slack(r) <= lock.exp
      BY <1>0, <1>8, <2>2 DEF BeatFails, TimingOf
    <3>3. LockRows' = LockRows
      BY <2>1 DEF LockRows
    <3>4. nextBeat'[r] + Slack(r)' <= lock'.exp
      BY <1>0, <2>1, <3>1, <3>2
    <3>5. now' <= nextBeat'[r]
      BY <1>0, <2>1, <3>2
    <3> QED BY <2>1, <2>2, <3>2, <3>3, <3>4, <3>5 DEF TimingOf, InFlight
  <2>3. CASE place[r] # "held"
    BY <1>0, <1>8, <2>1, <2>3 DEF BeatFails, OwnershipOf, TimingOf, InFlight
  <2> QED BY <2>2, <2>3
<1>9. CASE Finish(r) \/ ReleaseLock(r) \/ Dies(r)
  BY <1>0, <1>9 DEF Finish, ReleaseLock, Dies, GoTo, NoHeartbeatChange, TimingOf, InFlight, LockTypeOK
<1> QED BY <1>1, <1>2, <1>3, <1>4, <1>5, <1>6, <1>7, <1>8, <1>9 DEF Acquire, Heartbeat

(* The timing of a run survives the steps of the others.                   *)
LEMMA OtherStepKeepsTiming ==
  ASSUME OwnPods, TimingInv, NEW r \in Prompt, NEW s \in Runs, s # r,
         Acquire(s) \/ AfterWait(s) \/ Heartbeat(s) \/ Finish(s) \/ ReleaseLock(s) \/ Dies(s)
  PROVE  TimingOf(r)'
<1>0. r \in Runs /\ LockTypeOK /\ TimingOf(r)
  BY SwitchesAssumption DEF TimingInv, OwnershipInv
<1>1. /\ now' = now /\ place'[r] = place[r] /\ stamp'[r] = stamp[r]
      /\ beat'[r] = beat[r] /\ beatAt'[r] = beatAt[r]
      /\ nextBeat'[r] = nextBeat[r] /\ fails'[r] = fails[r]
  <2>1. CASE Acquire(s)
    BY <1>0, <2>1 DEF Acquire, Start, TryCall, TryRead, TryClear, TryInsert, ReadBack, Poll,
       PollClear, WakeUp, Acquired, GoTo, NoHeartbeatChange, LockTypeOK
  <2>2. CASE Heartbeat(s)
    BY <1>0, <2>2 DEF Heartbeat, BeatStart, BeatUpdate, BeatLookup, BeatFails, LockTypeOK
  <2>3. CASE AfterWait(s) \/ Finish(s) \/ ReleaseLock(s) \/ Dies(s)
    BY <1>0, <2>3 DEF AfterWait, Finish, ReleaseLock, Dies, GoTo, NoHeartbeatChange, LockTypeOK
  <2> QED BY <2>1, <2>2, <2>3
<1>2. Slack(r)' = Slack(r) /\ LockRows' = LockRows
  BY <1>1 DEF Slack, HeartbeatInterval, LockRows
<1>3. place[r] = "held" => lock' = lock
  BY HeldRowStays
<1> QED BY <1>0, <1>1, <1>2, <1>3 DEF TimingOf, InFlight

(* Time passes only when no call and no beat is due.                       *)
LEMMA TickKeepsTiming ==
  ASSUME TimingInv, NEW r \in Prompt, Tick PROVE TimingOf(r)'
<1>0. r \in Runs /\ LockTypeOK /\ TimingOf(r) /\ Quiet(r)
  BY SwitchesAssumption DEF TimingInv, OwnershipInv, Tick
<1>1. /\ now' = now + 1 /\ lock' = lock /\ place' = place /\ fails' = fails
      /\ beat' = beat /\ nextBeat' = nextBeat
  BY DEF Tick
<1>2. lock \in LockRows => lock' \in LockRows'
  BY <1>0, <1>1, TimesAssumption DEF LockRows, LockTypeOK
<1>3. place[r] = "held" => beat[r] = "none" /\ now + 1 <= nextBeat[r]
  BY <1>0 DEF Quiet, LockTypeOK
<1>4. Slack(r)' = Slack(r)
  BY <1>1 DEF Slack, HeartbeatInterval
<1> QED BY <1>0, <1>1, <1>2, <1>3, <1>4 DEF TimingOf, InFlight, Quiet

(* Every step keeps TimingInv.                                             *)
LEMMA TimingStep ==
  ASSUME OwnPods, BeatsFitTtl, TimingInv, [LockNext]_lockVars PROVE TimingInv'
<1>1. OwnershipInv' /\ LockTypeOK'
  BY OwnershipStep DEF TimingInv, OwnershipInv
<1>2. CASE UNCHANGED lockVars
  BY <1>1, <1>2 DEF lockVars, TimingInv, TimingOf, Slack, InFlight, LockRows
<1>3. ASSUME LockNext, NEW r \in Prompt PROVE TimingOf(r)'
  <2>1. ASSUME NEW s \in Runs,
               Acquire(s) \/ AfterWait(s) \/ Heartbeat(s) \/ Finish(s) \/ ReleaseLock(s) \/ Dies(s)
        PROVE  TimingOf(r)'
    BY <1>1, <2>1, OwnStepKeepsTiming, OtherStepKeepsTiming
  <2>2. CASE Tick
    BY <2>2, TickKeepsTiming
  <2> QED BY <1>3, <2>1, <2>2 DEF LockNext
<1> QED BY <1>1, <1>2, <1>3 DEF TimingInv

(* A run whose calls and heartbeats are served in time holds the lock row  *)
(* as long as it syncs, however late the other runs are, if every run has  *)
(* its own podId and the heartbeat interval, with the failures it must     *)
(* survive, fits into the TTL (schema-sync.ts:584-620).                    *)
THEOREM HolderIsNotRobbed ==
  ASSUME OwnPods, BeatsFitTtl PROVE LockSpec => []HolderKeepsLock
<1>1. LockInit => TimingInv
  BY TimingInit
<1>2. TimingInv /\ [LockNext]_lockVars => TimingInv'
  BY TimingStep
<1>3. TimingInv => HolderKeepsLock
  BY HeldRowIsOwn
<1> QED BY <1>1, <1>2, <1>3, PTL DEF LockSpec

(* Two runs that are both served in time never sync at the same time.      *)
THEOREM MutualExclusion ==
  ASSUME OwnPods, BeatsFitTtl
  PROVE  LockSpec => [](\A r, s \in Prompt : place[r] = "held" /\ place[s] = "held" => r = s)
<1>1. HolderKeepsLock => \A r, s \in Prompt : place[r] = "held" /\ place[s] = "held" => r = s
  BY DEF HolderKeepsLock
<1> QED BY <1>1, HolderIsNotRobbed, PTL

=============================================================================
