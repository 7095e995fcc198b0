---------------------- MODULE PooledTransactionsProofs ----------------------
(***************************************************************************)
(* Theorems about transactions over connection pools, for any contexts,    *)
(* pools, nesting between them and number of failures: type correctness,   *)
(* a dedicated connection for every transaction, clean idle connections,   *)
(* isolation levels, and the truth of what callers are told.               *)
(*                                                                         *)
(* The inductive invariant has three layers.  Core is the shape of the     *)
(* calls: who queues where, what is nested in what, which pool a           *)
(* connection belongs to.  Ownership holds of every pool on which no COMMIT*)
(* has been refused: borrowers and holders are the same contexts, and the  *)
(* server's session is in the state the call's phase says.  Truth follows  *)
(* a call's writes through its session to what its caller is told.         *)
(***************************************************************************)
EXTENDS PooledTransactions, SequencesExt, SequenceTheorems, TLAPS

InStack(c, o) == o \in Elements(stack[c])
ConnOf(c, o) == call[c][o].conn

Opening == {"queued", "setLevel", "begin", "query"}
Ending == {"commit", "rollback", "again"}

(* A context opens at most one call at a time, on a pool that is not in    *)
(* its stack; it waits at most once, and no pool is twice in a stack.      *)
Shape ==
  /\ \A c \in Contexts :
       /\ opening[c] # None <=> phase[c] \in Opening
       /\ opening[c] \notin Elements(stack[c])
       /\ IsInjective(stack[c])
       /\ phase[c] \in Ending => stack[c] # <<>>
       /\ phase[c] = "setLevel" => opening[c] \in MySql
  /\ \A o \in Owners : IsInjective(queue[o])

(* A call's connection is one of its pool.                                 *)
Linked ==
  \A c \in Contexts, o \in Owners :
    /\ ConnOf(c, o) \in Conns => PoolOf[ConnOf(c, o)] = o
    /\ Holds(c, o) => ConnOf(c, o) \in Conns
    /\ call[c][o].asked <= call[c][o].level

Core == TypeOK /\ Shape /\ Linked

-----------------------------------------------------------------------------
(* Stacks and queues                                                       *)

(* Contains is membership in Elements.                                     *)
LEMMA MembersAreElements ==
  ASSUME NEW S, NEW q \in Seq(S)
  PROVE  /\ Elements(q) \subseteq S
         /\ \A e : Contains(q, e) <=> e \in Elements(q)
<1>1. DOMAIN q = 1..Len(q) /\ \A i \in 1..Len(q) : q[i] \in S
  BY LenProperties, ElementOfSeq
<1> QED
  BY <1>1 DEF Elements, Contains

(* The first waiter leaves the queue.                                      *)
LEMMA HeadLeaves ==
  ASSUME NEW S, NEW q \in Seq(S), IsInjective(q), q # <<>>
  PROVE  /\ Head(q) \in Elements(q)
         /\ Tail(q) \in Seq(S) /\ IsInjective(Tail(q))
         /\ Elements(Tail(q)) = Elements(q) \ {Head(q)}
<1>1. /\ Len(q) \in Nat \ {0} /\ DOMAIN q = 1..Len(q) /\ Head(q) = q[1]
      /\ \A i, j \in 1..Len(q) : q[i] = q[j] => i = j
  BY EmptySeq, LenProperties, HeadTailProperties DEF IsInjective
<1>2. /\ Tail(q) \in Seq(S) /\ Len(Tail(q)) = Len(q) - 1
      /\ DOMAIN Tail(q) = 1..Len(q) - 1
      /\ \A i \in 1..Len(q) - 1 : Tail(q)[i] = q[i + 1]
  BY <1>1, HeadTailProperties, LenProperties
<1>3. IsInjective(Tail(q))
  <2> SUFFICES ASSUME NEW i \in 1..Len(q) - 1, NEW j \in 1..Len(q) - 1,
                      Tail(q)[i] = Tail(q)[j]
               PROVE  i = j
    BY <1>2 DEF IsInjective
  <2>1. q[i + 1] = q[j + 1] /\ i + 1 \in 1..Len(q) /\ j + 1 \in 1..Len(q)
    BY <1>1, <1>2
  <2> QED
    BY <2>1, <1>1
<1>4. ASSUME NEW e PROVE e \in Elements(Tail(q)) <=> e \in Elements(q) /\ e # Head(q)
  <2>1. e \in Elements(q) <=> \E i \in 1..Len(q) : e = q[i]
    BY <1>1 DEF Elements
  <2>2. e \in Elements(Tail(q)) <=> \E i \in 1..Len(q) - 1 : e = q[i + 1]
    BY <1>2 DEF Elements
  <2>3. (\E i \in 1..Len(q) - 1 : e = q[i + 1]) <=> \E i \in 1..Len(q) : i # 1 /\ e = q[i]
    <3>1. ASSUME NEW i \in 1..Len(q), i # 1 PROVE i - 1 \in 1..Len(q) - 1 /\ (i - 1) + 1 = i
      BY <3>1, <1>1
    <3>2. ASSUME NEW i \in 1..Len(q) - 1 PROVE i + 1 \in 1..Len(q) /\ i + 1 # 1
      BY <1>1
    <3> QED
      BY <3>1, <3>2
  <2> QED
    BY <2>1, <2>2, <2>3, <1>1
<1>5. Head(q) \in Elements(q)
  BY <1>1 DEF Elements
<1> QED
  BY <1>2, <1>3, <1>4, <1>5

(* A context joins a queue, or a pool a stack.                             *)
LEMMA LastJoins ==
  ASSUME NEW S, NEW q \in Seq(S), IsInjective(q), NEW d \in S, d \notin Elements(q)
  PROVE  /\ Append(q, d) \in Seq(S) /\ IsInjective(Append(q, d))
         /\ Elements(Append(q, d)) = Elements(q) \cup {d}
         /\ Append(q, d) # <<>>
         /\ Append(q, d)[Len(Append(q, d))] = d
<1>1. /\ Len(q) \in Nat /\ DOMAIN q = 1..Len(q)
      /\ Append(q, d) \in Seq(S) /\ DOMAIN Append(q, d) = 1..Len(q) + 1
      /\ Len(Append(q, d)) = Len(q) + 1
      /\ \A i \in 1..Len(q) : Append(q, d)[i] = q[i]
      /\ Append(q, d)[Len(q) + 1] = d
  BY LenProperties, AppendProperties
<1>2. /\ \A i \in 1..Len(q) : q[i] # d
      /\ \A i, j \in 1..Len(q) : q[i] = q[j] => i = j
  BY <1>1 DEF Elements, IsInjective
<1>3. IsInjective(Append(q, d))
  <2> SUFFICES ASSUME NEW i \in 1..Len(q) + 1, NEW j \in 1..Len(q) + 1,
                      Append(q, d)[i] = Append(q, d)[j]
               PROVE  i = j
    BY <1>1 DEF IsInjective
  <2> QED
    BY <1>1, <1>2
<1>4. ASSUME NEW e PROVE e \in Elements(Append(q, d)) <=> e \in Elements(q) \/ e = d
  <2>1. e \in Elements(q) <=> \E i \in 1..Len(q) : e = q[i]
    BY <1>1 DEF Elements
  <2>2. e \in Elements(Append(q, d)) <=> \E i \in 1..Len(q) + 1 : e = Append(q, d)[i]
    BY <1>1 DEF Elements
  <2> QED
    BY <2>1, <2>2, <1>1
<1>5. Append(q, d) # <<>>
  BY <1>1, EmptySeq
<1> QED
  BY <1>1, <1>3, <1>4, <1>5

(* The innermost transaction leaves the stack.                             *)
LEMMA LastLeaves ==
  ASSUME NEW S, NEW q \in Seq(S), IsInjective(q), q # <<>>,
         NEW f, f = SubSeq(q, 1, Len(q) - 1)
  PROVE  /\ q[Len(q)] \in Elements(q)
         /\ f \in Seq(S) /\ IsInjective(f)
         /\ Elements(f) = Elements(q) \ {q[Len(q)]}
<1>1. /\ Len(q) \in Nat \ {0} /\ DOMAIN q = 1..Len(q)
      /\ \A i \in 1..Len(q) : q[i] \in S
  BY EmptySeq, LenProperties, ElementOfSeq
<1>2. f \in Seq(S)
  BY <1>1
<1>3. Len(f) = Len(q) - 1 /\ \A i \in 1..Len(q) - 1 : f[i] = q[i]
  BY <1>1
<1>4. DOMAIN f = 1..Len(q) - 1
  BY <1>2, <1>3, LenProperties
<1>5. IsInjective(f)
  BY <1>1, <1>3, <1>4 DEF IsInjective
<1>6. Elements(f) = Elements(q) \ {q[Len(q)]}
  BY <1>1, <1>3, <1>4 DEF IsInjective, Elements
<1>7. q[Len(q)] \in Elements(q)
  BY <1>1 DEF Elements
<1> QED
  BY <1>2, <1>5, <1>6, <1>7

-----------------------------------------------------------------------------
(* Handing a connection over                                               *)

(* Call <<c, o>> has given connection k back: c goes on in phase p, its    *)
(* call is r, and d is the waiter that is served, or None.                 *)
Handed(c, o, k, p, r, d) ==
  /\ borrower' = [borrower EXCEPT ![k] = d]
  /\ phase' \in [Contexts -> Phases]
  /\ \A x \in Contexts :
       phase'[x] = IF x = c THEN p
                   ELSE IF x = d THEN FirstStep(o, call[d][o]) ELSE phase[x]
  /\ call' \in [Contexts -> [Owners -> Calls]]
  /\ \A x \in Contexts, y \in Owners :
       call'[x][y] = IF x = c /\ y = o THEN r
                     ELSE IF x = d /\ y = o THEN [call[d][o] EXCEPT !.conn = k]
                     ELSE call[x][y]
  /\ d \in Contexts => phase[d] = "queued" /\ opening[d] = o /\ d # c
  /\ queue' \in [Owners -> Seq(Contexts)]
  /\ \A y \in Owners :
       /\ IsInjective(queue'[y])
       /\ Elements(queue'[y]) = IF y = o THEN Elements(queue[y]) \ {d}
                                ELSE Elements(queue[y])

(* A release serves the first waiter of the pool's queue, or nobody.       *)
LEMMA ReleaseHandsOver ==
  ASSUME Core, NEW c \in Contexts, NEW o \in Owners, NEW k \in Conns,
         PoolOf[k] = o, phase[c] # "queued",
         NEW p \in Phases, NEW r \in Calls,
         NEW ca, ca = [call EXCEPT ![c][o] = r],
         Release(k, [phase EXCEPT ![c] = p], ca)
  PROVE  \E d \in Contexts \cup {None} : Handed(c, o, k, p, r, d)
<1> DEFINE ph == [phase EXCEPT ![c] = p]
<1>1. /\ phase \in [Contexts -> Phases] /\ call \in [Contexts -> [Owners -> Calls]]
      /\ queue \in [Owners -> Seq(Contexts)]
      /\ borrower \in [Conns -> Contexts \cup {None}]
      /\ \A y \in Owners : IsInjective(queue[y])
      /\ Elements(queue[o]) = {x \in Contexts : phase[x] = "queued" /\ opening[x] = o}
  BY DEF Core, TypeOK, Shape
<1>2. /\ ph \in [Contexts -> Phases]
      /\ \A x \in Contexts : ph[x] = IF x = c THEN p ELSE phase[x]
  BY <1>1
<1>3. /\ ca \in [Contexts -> [Owners -> Calls]]
      /\ \A x \in Contexts, y \in Owners :
           ca[x][y] = IF x = c /\ y = o THEN r ELSE call[x][y]
  BY <1>1
<1>4. None \notin Contexts /\ \A y \in Owners : Elements(queue[y]) \subseteq Contexts
  BY <1>1, NoneAssumption, MembersAreElements
<1>5. CASE borrower[k] # None /\ queue[o] # <<>>
  <2> DEFINE d == Head(queue[o])
  <2>1. /\ borrower' = [borrower EXCEPT ![k] = d]
        /\ queue' = [queue EXCEPT ![o] = Tail(@)]
        /\ phase' = [ph EXCEPT ![d] = FirstStep(o, ca[d][o])]
        /\ call' = [ca EXCEPT ![d][o].conn = k]
    BY <1>5 DEF Release
  <2>2. /\ d \in Elements(queue[o])
        /\ Tail(queue[o]) \in Seq(Contexts) /\ IsInjective(Tail(queue[o]))
        /\ Elements(Tail(queue[o])) = Elements(queue[o]) \ {d}
    BY <1>1, <1>5, HeadLeaves
  <2>3. d \in Contexts /\ phase[d] = "queued" /\ opening[d] = o /\ d # c
    BY <1>1, <2>2
  <2> HIDE DEF d, ph
  <2>4. ca[d][o] = call[d][o] /\ call[d][o] \in Calls
    BY <1>1, <1>3, <2>3
  <2>5. FirstStep(o, call[d][o]) \in Phases
    BY DEF FirstStep, Phases
  <2>6. /\ phase' \in [Contexts -> Phases]
        /\ \A x \in Contexts :
             phase'[x] = IF x = c THEN p
                         ELSE IF x = d THEN FirstStep(o, call[d][o]) ELSE phase[x]
    BY <1>2, <2>1, <2>3, <2>4, <2>5
  <2>7. [call[d][o] EXCEPT !.conn = k] \in Calls
    BY <2>4 DEF Calls
  <2>8. /\ call' \in [Contexts -> [Owners -> Calls]]
        /\ \A x \in Contexts, y \in Owners :
             call'[x][y] = IF x = d /\ y = o THEN [call[d][o] EXCEPT !.conn = k]
                           ELSE ca[x][y]
    BY <1>3, <2>1, <2>3, <2>4, <2>7
  <2>9. /\ queue' \in [Owners -> Seq(Contexts)]
        /\ \A y \in Owners :
             /\ IsInjective(queue'[y])
             /\ Elements(queue'[y]) = IF y = o THEN Elements(queue[y]) \ {d}
                                      ELSE Elements(queue[y])
    BY <1>1, <2>1, <2>2
  <2>10. \A x \in Contexts, y \in Owners :
          call'[x][y] = IF x = c /\ y = o THEN r
                        ELSE IF x = d /\ y = o THEN [call[d][o] EXCEPT !.conn = k]
                        ELSE call[x][y]
    BY <1>3, <2>3, <2>8
  <2>11. Handed(c, o, k, p, r, d)
    BY <2>1, <2>3, <2>6, <2>8, <2>9, <2>10, Zenon DEF Handed
  <2> QED
    BY <2>3, <2>11
<1>6. CASE borrower[k] = None \/ queue[o] = <<>>
  <2> HIDE DEF ph
  <2>1. phase' = ph /\ call' = ca /\ queue' = queue
        /\ borrower' = [borrower EXCEPT ![k] = None]
    BY <1>1, <1>6 DEF Release, ph
  <2>2. \A y \in Owners : Elements(queue[y]) \ {None} = Elements(queue[y])
    BY <1>4
  <2>3. Handed(c, o, k, p, r, None)
    BY <1>1, <1>2, <1>3, <1>4, <2>1, <2>2 DEF Handed
  <2> QED
    BY <2>3
<1> QED
  BY <1>5, <1>6

(* What else changes when call <<c, o>> gives its connection back: it is   *)
(* no longer being opened, and st is left of the stack, without o unless   *)
(* COMMIT has thrown.                                                      *)
Leaves(c, o, p, st) ==
  /\ phase[c] \in (Opening \cup Ending) \ {"queued"}
  /\ opening[c] \in {None, o}
  /\ phase[c] = "again" => Top(c) = o
  /\ opening' = [opening EXCEPT ![c] = None]
  /\ stack' = [stack EXCEPT ![c] = st]
  /\ st \in Seq(Owners) /\ IsInjective(st)
  /\ \A y \in Owners \ {o} : y \in Elements(st) <=> InStack(c, y)
  /\ \/ p = "run" /\ o \notin Elements(st)
     \/ p = "again" /\ st # <<>> /\ st[Len(st)] = o

(* The parts of the state that the shape of the calls does not depend on.  *)
RestTyped ==
  /\ session \in [Conns -> Sessions]
  /\ ending \in [Contexts -> [Owners -> Endings]]
  /\ refused \subseteq Refusing
  /\ calls \in [Contexts -> 0..MaxCalls]
  /\ mishaps \in 0..MaxMishaps

(* The connection has passed from call <<c, o>> to that of d.              *)
PassesOn(c, o, d, x, y) ==
  Holds(x, y)' <=> \/ Holds(x, y) /\ ~(x = c /\ y = o)
                   \/ x = d /\ y = o

(* A call that is given its connection goes on to open its transaction.    *)
LEMMA FirstStepOpens ==
  ASSUME NEW o, NEW r
  PROVE  /\ FirstStep(o, r) \in Opening \ {"queued"}
         /\ FirstStep(o, r) \notin Ending
         /\ FirstStep(o, r) = "setLevel" => o \in MySql
  BY DEF FirstStep, Opening, Ending

(* After a release the connection is held by the waiter, and by no other.  *)
LEMMA LeavingChangesHolders ==
  ASSUME Core, NEW c \in Contexts, NEW o \in Owners, NEW k \in Conns,
         NEW p \in {"run", "again"}, NEW r \in Calls, NEW st,
         NEW d \in Contexts \cup {None},
         Handed(c, o, k, p, r, d), Leaves(c, o, p, st),
         NEW x \in Contexts, NEW y \in Owners
  PROVE  PassesOn(c, o, d, x, y)
<1> USE DEF PassesOn
<1>1. /\ stack \in [Contexts -> Seq(Owners)] /\ opening \in [Contexts -> Owners \cup {None}]
      /\ opening[x] # None <=> phase[x] \in Opening
      /\ opening[c] # None <=> phase[c] \in Opening
      /\ opening[c] \notin Elements(stack[c])
      /\ None \notin Owners \cup Contexts
  BY NoneAssumption DEF Core, TypeOK, Shape
<1>2. CASE x = c
  <2>1. x # d
    BY <1>1, <1>2 DEF Handed
  <2>2. phase'[x] = p /\ opening'[x] = None /\ stack'[x] = st
    BY <1>1, <1>2 DEF Handed, Leaves
  <2>3. CASE y = o
    <3>1. ~Holds(x, y)'
      BY <1>1, <1>2, <2>2, <2>3 DEF Leaves, Holds, Top
    <3> QED
      BY <1>2, <2>1, <2>3, <3>1
  <2>4. CASE y # o
    <3>1. Holds(x, y)' <=> y \in Elements(st)
      BY <1>1, <1>2, <2>2, <2>4 DEF Leaves, Holds, Top
    <3>2. Holds(x, y) <=> InStack(c, y)
      BY <1>1, <1>2, <2>4 DEF Leaves, Holds, InStack, Top
    <3> QED
      BY <2>1, <2>4, <3>1, <3>2 DEF Leaves
  <2> QED
    BY <2>3, <2>4
<1>3. CASE x # c
  <2>1. opening'[x] = opening[x] /\ stack'[x] = stack[x]
    BY <1>1, <1>3 DEF Leaves
  <2>2. CASE x = d
    <3>1. /\ phase[x] = "queued" /\ opening[x] = o
          /\ phase'[x] = FirstStep(o, call[d][o])
      BY <1>3, <2>2 DEF Handed
    <3>2. Holds(x, y)' <=> InStack(x, y) \/ y = o
      BY <2>1, <3>1, FirstStepOpens DEF Holds, InStack, Opening, Ending
    <3>3. Holds(x, y) <=> InStack(x, y)
      BY <3>1 DEF Holds, InStack
    <3> QED
      BY <1>3, <2>2, <3>2, <3>3
  <2>3. CASE x # d
    <3>1. phase'[x] = phase[x]
      BY <1>3, <2>3 DEF Handed
    <3> QED
      BY <1>3, <2>1, <2>3, <3>1 DEF Holds, Top
  <2> QED
    BY <2>2, <2>3
<1> QED
  BY <1>2, <1>3

(* A release keeps types, the shape of the calls and their pools.          *)
LEMMA LeavingKeepsCore ==
  ASSUME Core, NEW c \in Contexts, NEW o \in Owners, NEW k \in Conns,
         PoolOf[k] = o,
         NEW p \in {"run", "again"}, NEW r \in Calls, NEW st,
         r.conn \in Conns => PoolOf[r.conn] = o, r.asked <= r.level,
         NEW d \in Contexts \cup {None},
         Handed(c, o, k, p, r, d), Leaves(c, o, p, st), RestTyped'
  PROVE  Core'
<1>1. /\ stack \in [Contexts -> Seq(Owners)] /\ opening \in [Contexts -> Owners \cup {None}]
      /\ borrower \in [Conns -> Contexts \cup {None}]
      /\ None \notin Owners \cup Contexts
      /\ \A x \in Contexts :
           /\ opening[x] # None <=> phase[x] \in Opening
           /\ opening[x] \notin Elements(stack[x])
           /\ IsInjective(stack[x])
           /\ phase[x] \in Ending => stack[x] # <<>>
           /\ phase[x] = "setLevel" => opening[x] \in MySql
      /\ \A y \in Owners :
           Elements(queue[y]) = {x \in Contexts : phase[x] = "queued" /\ opening[x] = y}
  BY NoneAssumption DEF Core, TypeOK, Shape
<1>2. /\ stack' \in [Contexts -> Seq(Owners)]
      /\ opening' \in [Contexts -> Owners \cup {None}]
      /\ \A x \in Contexts :
           /\ stack'[x] = IF x = c THEN st ELSE stack[x]
           /\ opening'[x] = IF x = c THEN None ELSE opening[x]
  BY <1>1 DEF Leaves
<1>3. borrower' \in [Conns -> Contexts \cup {None}]
  BY <1>1 DEF Handed
<1>4. ASSUME NEW y \in Owners
      PROVE  Elements(queue'[y]) = {x \in Contexts : phase'[x] = "queued" /\ opening'[x] = y}
  <2>1. Elements(queue'[y]) = IF y = o THEN Elements(queue[y]) \ {d} ELSE Elements(queue[y])
    BY DEF Handed
  <2>2. ASSUME NEW x \in Contexts
        PROVE  phase'[x] = "queued" <=> phase[x] = "queued" /\ x # d
    <3>1. p # "queued" /\ phase[c] # "queued"
      BY DEF Leaves
    <3>2. FirstStep(o, call[d][o]) # "queued"
      BY FirstStepOpens
    <3> QED
      BY <3>1, <3>2 DEF Handed
  <2>3. d \in Contexts => phase[d] = "queued" /\ opening[d] = o
    BY DEF Handed
  <2>4. phase[c] # "queued"
    BY DEF Leaves
  <2> QED
    BY <1>1, <1>2, <2>1, <2>2, <2>3, <2>4
<1>5. TypeOK'
  BY <1>2, <1>3, <1>4 DEF Handed, RestTyped, TypeOK
<1>6. ASSUME NEW x \in Contexts
      PROVE  /\ opening'[x] # None <=> phase'[x] \in Opening
             /\ opening'[x] \notin Elements(stack'[x])
             /\ IsInjective(stack'[x])
             /\ phase'[x] \in Ending => stack'[x] # <<>>
             /\ phase'[x] = "setLevel" => opening'[x] \in MySql
  <2>1. CASE x = c
    <3>1. phase'[x] = p
      BY <2>1 DEF Handed
    <3>2. Elements(st) \subseteq Owners
      BY MembersAreElements DEF Leaves
    <3> QED
      BY <1>1, <1>2, <2>1, <3>1, <3>2 DEF Leaves, Opening, Ending
  <2>2. CASE x # c /\ x = d
    <3>1. /\ phase'[x] = FirstStep(o, call[d][o])
          /\ phase[x] = "queued" /\ opening[x] = o
      BY <2>2 DEF Handed
    <3> QED
      BY <1>1, <1>2, <2>2, <3>1, FirstStepOpens DEF Opening
  <2>3. CASE x # c /\ x # d
    <3>1. phase'[x] = phase[x]
      BY <2>3 DEF Handed
    <3> QED
      BY <1>1, <1>2, <2>3, <3>1
  <2> QED
    BY <2>1, <2>2, <2>3
<1>7. Shape'
  BY <1>6 DEF Shape, Handed
<1>8. ASSUME NEW x \in Contexts, NEW y \in Owners
      PROVE  /\ ConnOf(x, y)' \in Conns => PoolOf[ConnOf(x, y)'] = y
             /\ Holds(x, y)' => ConnOf(x, y)' \in Conns
             /\ call'[x][y].asked <= call'[x][y].level
  <2>1. /\ ConnOf(x, y) \in Conns => PoolOf[ConnOf(x, y)] = y
        /\ Holds(x, y) => ConnOf(x, y) \in Conns
        /\ call[x][y].asked <= call[x][y].level
    BY DEF Core, Linked
  <2>2. PassesOn(c, o, d, x, y)
    BY LeavingChangesHolders
  <2>3. CASE x = c /\ y = o
    <3>1. call'[x][y] = r /\ x # d
      BY <1>1, <2>3 DEF Handed
    <3> QED
      BY <2>2, <2>3, <3>1 DEF ConnOf, PassesOn
  <2>4. CASE x = d /\ y = o /\ x # c
    <3>0. call[x][y] \in Calls
      BY DEF Core, TypeOK
    <3>1. call'[x][y] = [call[x][y] EXCEPT !.conn = k]
      BY <2>4 DEF Handed
    <3>2. /\ call'[x][y].conn = k
          /\ call'[x][y].asked = call[x][y].asked /\ call'[x][y].level = call[x][y].level
      BY <3>0, <3>1 DEF Calls
    <3> QED
      BY <2>1, <2>4, <3>2 DEF ConnOf
  <2>5. CASE ~(x = c /\ y = o) /\ ~(x = d /\ y = o)
    <3>1. call'[x][y] = call[x][y]
      BY <2>5 DEF Handed
    <3> QED
      BY <2>1, <2>2, <2>5, <3>1 DEF ConnOf, PassesOn
  <2> QED
    BY <2>3, <2>4, <2>5
<1>9. Linked'
  BY <1>8 DEF Linked, ConnOf
<1> QED
  BY <1>5, <1>7, <1>9 DEF Core

-----------------------------------------------------------------------------
(* Ownership, on the pools on which no COMMIT has been refused             *)

Broken == [Fresh EXCEPT !.broken = TRUE]

LevelOf(o, r) == IF r.level # 0 THEN r.level ELSE Default(o)

(* The session of a call in its transaction, and just before BEGIN.        *)
InTransaction(c, o, r, s) ==
  /\ s \in Sessions /\ ~s.broken
  /\ s.writers \subseteq {<<c, o>>}
  /\ s.pending = 0
  /\ s.tx = "open" => s.level = LevelOf(o, r)

AboutToBegin(o, r) ==
  [Fresh EXCEPT !.pending = IF o \in MySql THEN r.level ELSE 0]

Fits(c, o, r, s) ==
  \/ s = Broken
  \/ InStack(c, o) /\ InTransaction(c, o, r, s)
  \/ ~InStack(c, o) /\ phase[c] # "begin" /\ s = Fresh
  \/ ~InStack(c, o) /\ phase[c] = "begin" /\ s = AboutToBegin(o, r)

(* A call that holds a connection has borrowed it, and finds on it the     *)
(* session it expects; after a COMMIT that threw it has given it up.       *)
OwnedBy(c, o) ==
  o \notin refused =>
    /\ Holds(c, o) =>
         /\ borrower[ConnOf(c, o)] = c
         /\ Fits(c, o, call[c][o], session[ConnOf(c, o)])
    /\ phase[c] = "again" /\ o = Top(c) => ConnOf(c, o) = None

(* Whoever has borrowed a connection holds it.                             *)
LentTo(k, c) == Holds(c, PoolOf[k]) /\ ConnOf(c, PoolOf[k]) = k

Lent == \A k \in Conns :
  PoolOf[k] \notin refused /\ borrower[k] # None => LentTo(k, borrower[k])

Ownership ==
  /\ \A c \in Contexts, o \in Owners : OwnedBy(c, o)
  /\ Lent
  /\ IdleIsClean

-----------------------------------------------------------------------------
(* Truth                                                                   *)

Undone(e) == e.fate \subseteq {"undone"}

(* MySQL's callback has gone on after a failed statement.                  *)
MayLie(o, e) == e.erred /\ o \in MySql

(* A call that is still going on, on session s: without an error nothing   *)
(* of it is lost or committed; on PostgreSQL nothing ever is before COMMIT.*)
GoesOn(o, e, s) ==
  /\ e.told = "none" /\ ~e.lostAck
  /\ ~e.erred /\ ~s.broken => e.fate = {} /\ s.tx = "open"
  /\ ~MayLie(o, e) => Undone(e) /\ (s.tx = "none" => s.broken)

TellsTruth(o, e) ==
  /\ e.told = "resolved" /\ ~e.erred => e.fate \subseteq {"committed"}
  /\ e.told = "rejected" /\ ~MayLie(o, e) => Undone(e) \/ e.lostAck

TruthOf(c, o) ==
  o \notin refused =>
    /\ phase[c] = "queued" /\ opening[c] = o => ending[c][o] = Open
    /\ Holds(c, o) /\ ~InStack(c, o) => ending[c][o] = Open
    /\ Holds(c, o) /\ InStack(c, o) =>
         GoesOn(o, ending[c][o], session[ConnOf(c, o)])
    /\ phase[c] = "again" /\ o = Top(c) =>
         /\ ending[c][o].told = "none"
         /\ MayLie(o, ending[c][o]) \/ ending[c][o].lostAck \/ Undone(ending[c][o])
    /\ TellsTruth(o, ending[c][o])

(* A session's writers are calls of its pool.                              *)
WritersOfPool ==
  \A k \in Conns : \A id \in session[k].writers : id[2] = PoolOf[k]

Truth ==
  /\ \A c \in Contexts, o \in Owners : TruthOf(c, o)
  /\ WritersOfPool

IInv == Core /\ Ownership /\ Truth

-----------------------------------------------------------------------------
(* What a step leaves alone                                                *)

(* As far as call <<x, y>> can see, nothing has happened.                  *)
Untouched(x, y) ==
  /\ Holds(x, y)' <=> Holds(x, y)
  /\ call'[x][y] = call[x][y]
  /\ Holds(x, y) =>
       /\ InStack(x, y)' <=> InStack(x, y)
       /\ InStack(x, y) \/ phase'[x] = phase[x]
       /\ borrower'[ConnOf(x, y)] = borrower[ConnOf(x, y)]
       /\ session'[ConnOf(x, y)] = session[ConnOf(x, y)]
  /\ phase'[x] = "again" /\ y = Top(x)' => phase[x] = "again" /\ y = Top(x)
  /\ phase'[x] = "queued" /\ opening'[x] = y => phase[x] = "queued" /\ opening[x] = y

OwnedNext(x, y) == OwnedBy(x, y)'
TruthNext(x, y) == TruthOf(x, y)'

(* A call that a step does not touch still owns its connection.            *)
LEMMA UntouchedStaysOwned ==
  ASSUME NEW x, NEW y, Untouched(x, y), OwnedBy(x, y), y \notin refused
  PROVE  OwnedNext(x, y)
<1>1. ConnOf(x, y)' = ConnOf(x, y)
  BY DEF Untouched, ConnOf
<1> QED
  BY <1>1 DEF OwnedNext, OwnedBy, Untouched, Fits

(* A call that a step does not touch is still told the truth.              *)
LEMMA UntouchedStaysTrue ==
  ASSUME NEW x, NEW y, Untouched(x, y), TruthOf(x, y), y \notin refused,
         ending'[x][y] = ending[x][y]
  PROVE  TruthNext(x, y)
<1>1. ConnOf(x, y)' = ConnOf(x, y)
  BY DEF Untouched, ConnOf
<1> QED
  BY <1>1 DEF TruthNext, TruthOf, Untouched

(* Giving a connection back touches the call that does and the one that    *)
(* is served.                                                              *)
LEMMA LeavingTouchesFew ==
  ASSUME Core, Ownership,
         NEW c \in Contexts, NEW o \in Owners, NEW k \in Conns, PoolOf[k] = o,
         NEW p \in {"run", "again"}, NEW r \in Calls, NEW st,
         NEW d \in Contexts \cup {None},
         Handed(c, o, k, p, r, d), Leaves(c, o, p, st),
         \A l \in Conns \ {k} : session'[l] = session[l],
         o \notin refused => Holds(c, o) /\ ConnOf(c, o) = k,
         NEW x \in Contexts, NEW y \in Owners,
         ~(x = c /\ y = o), ~(x = d /\ y = o), y \notin refused
  PROVE  Untouched(x, y)
<1>1. /\ stack \in [Contexts -> Seq(Owners)] /\ opening \in [Contexts -> Owners \cup {None}]
      /\ borrower \in [Conns -> Contexts \cup {None}]
      /\ None \notin Owners \cup Contexts
      /\ opening[x] # None <=> phase[x] \in Opening
      /\ ConnOf(x, y) \in Conns => PoolOf[ConnOf(x, y)] = y
      /\ Holds(x, y) => ConnOf(x, y) \in Conns
  BY NoneAssumption DEF Core, TypeOK, Shape, Linked
<1>2. /\ stack'[x] = IF x = c THEN st ELSE stack[x]
      /\ opening'[x] = IF x = c THEN None ELSE opening[x]
  BY <1>1 DEF Leaves
<1>3. call'[x][y] = call[x][y] /\ (Holds(x, y)' <=> Holds(x, y))
  <2>1. PassesOn(c, o, d, x, y)
    BY LeavingChangesHolders
  <2> QED
    BY <2>1 DEF Handed, PassesOn
<1>4. ASSUME Holds(x, y)
      PROVE  /\ borrower'[ConnOf(x, y)] = borrower[ConnOf(x, y)]
             /\ session'[ConnOf(x, y)] = session[ConnOf(x, y)]
  <2>1. ConnOf(x, y) # k
    <3>1. CASE y = o
      <4>1. borrower[ConnOf(x, y)] = x /\ borrower[k] = c /\ x # c
        BY <1>4, <3>1 DEF Ownership, OwnedBy
      <4> QED
        BY <4>1
    <3>2. CASE y # o
      BY <1>1, <1>4, <3>2
    <3> QED
      BY <3>1, <3>2
  <2> QED
    BY <1>1, <1>4, <2>1 DEF Handed
<1>5. CASE x = c
  <2>1. y # o /\ phase'[x] = p
    BY <1>5 DEF Handed
  <2> QED
    BY <1>1, <1>2, <1>3, <1>4, <1>5, <2>1
       DEF Untouched, Leaves, InStack, Holds, Top
<1>6. CASE x # c /\ x = d
  <2>1. /\ y # o /\ phase[x] = "queued" /\ opening[x] = o
        /\ phase'[x] \notin Ending /\ phase'[x] # "queued"
    BY <1>6, FirstStepOpens DEF Handed
  <2>2. Holds(x, y) => InStack(x, y)
    BY <2>1 DEF Holds, InStack
  <2> QED
    BY <1>2, <1>3, <1>4, <1>6, <2>1, <2>2 DEF Untouched, InStack, Ending
<1>7. CASE x # c /\ x # d
  <2>1. phase'[x] = phase[x]
    BY <1>7 DEF Handed
  <2> QED
    BY <1>2, <1>3, <1>4, <1>7, <2>1 DEF Untouched, InStack, Top
<1> QED
  BY <1>5, <1>6, <1>7

(* A release keeps the other calls' connections, and hands over a clean    *)
(* one.                                                                    *)
LEMMA LeavingKeepsOwnership ==
  ASSUME Core, Ownership,
         NEW c \in Contexts, NEW o \in Owners, NEW k \in Conns, PoolOf[k] = o,
         NEW p \in {"run", "again"}, NEW r \in Calls, NEW st,
         NEW d \in Contexts \cup {None},
         Handed(c, o, k, p, r, d), Leaves(c, o, p, st),
         \A l \in Conns \ {k} : session'[l] = session[l],
         refused \subseteq refused' /\ refused' \subseteq refused \cup {o},
         o \notin refused => Holds(c, o) /\ ConnOf(c, o) = k,
         o \notin refused' => session'[k] = Fresh /\ (p = "again" => r.conn = None)
  PROVE  Ownership'
<1>1. /\ stack \in [Contexts -> Seq(Owners)] /\ opening \in [Contexts -> Owners \cup {None}]
      /\ borrower \in [Conns -> Contexts \cup {None}]
      /\ None \notin Owners \cup Contexts
      /\ \A x \in Contexts : opening[x] \notin Elements(stack[x])
  BY NoneAssumption DEF Core, TypeOK, Shape
<1>2. \A x \in Contexts : x # c => stack'[x] = stack[x]
  BY <1>1 DEF Leaves
<1>3. \A l \in Conns : borrower'[l] = IF l = k THEN d ELSE borrower[l]
  BY <1>1 DEF Handed
<1>4. \A y \in Owners : y \notin refused' => y \notin refused /\ (y # o \/ o \notin refused)
  OBVIOUS
<1>5. d \in Contexts => /\ phase[d] = "queued" /\ opening[d] = o /\ d # c
                        /\ ~InStack(d, o) /\ ~Holds(d, o)
  BY <1>1 DEF Handed, InStack, Holds
<1>6. ASSUME d \in Contexts PROVE /\ ConnOf(d, o)' = k
                                  /\ call'[d][o].level = call[d][o].level
  <2>1. call'[d][o] = [call[d][o] EXCEPT !.conn = k]
    BY <1>5, <1>6 DEF Handed
  <2>2. call[d][o] \in Calls
    BY <1>6 DEF Core, TypeOK
  <2> QED
    BY <2>1, <2>2 DEF Calls, ConnOf
<1>7. ASSUME NEW x \in Contexts, NEW y \in Owners, y \notin refused'
      PROVE  OwnedBy(x, y)'
  <2>0. PassesOn(c, o, d, x, y) /\ OwnedBy(x, y) /\ y \notin refused
    BY <1>4, <1>7, LeavingChangesHolders DEF Ownership
  <2>1. CASE y = o /\ x = c
    <3>1. ~Holds(x, y)' /\ call'[x][y] = r /\ phase'[x] = p
      BY <1>5, <2>0, <2>1 DEF PassesOn, Handed
    <3> QED
      BY <2>1, <3>1 DEF OwnedBy, ConnOf
  <2>2. CASE y = o /\ x = d /\ x # c
    <3>1. phase'[x] = FirstStep(o, call[d][o])
      BY <2>2 DEF Handed
    <3>2. ~InStack(x, y)'
      BY <1>2, <1>5, <2>2 DEF InStack
    <3>3. phase'[x] = "begin" => Fresh = AboutToBegin(y, call'[x][y])
      <4>1. phase'[x] = "begin" => o \notin MySql \/ call[x][y].level = 0
        BY <2>2, <3>1 DEF FirstStep
      <4> QED
        BY <1>6, <2>2, <4>1 DEF AboutToBegin, Fresh
    <3>4. phase'[x] # "again"
      BY <3>1, FirstStepOpens DEF Ending
    <3> QED
      BY <1>3, <1>6, <1>7, <2>2, <3>2, <3>3, <3>4 DEF OwnedBy, Fits
  <2>3. CASE ~(x = c /\ y = o) /\ ~(x = d /\ y = o)
    <3>1. Untouched(x, y)
      BY <2>0, <2>3, LeavingTouchesFew
    <3> QED
      BY <2>0, <3>1, UntouchedStaysOwned DEF OwnedNext
  <2> QED
    BY <2>1, <2>2, <2>3
<1>8. ASSUME NEW l \in Conns, NEW y \in Owners, y = PoolOf[l], y \notin refused',
             NEW b \in Contexts, b = borrower'[l]
      PROVE  Holds(b, y)' /\ ConnOf(b, y)' = l
  <2>0. PassesOn(c, o, d, b, y)
    BY LeavingChangesHolders
  <2>1. CASE l = k
    BY <1>3, <1>6, <1>8, <1>5, <2>0, <2>1 DEF PassesOn
  <2>2. CASE l # k
    <3>1. b = borrower[l] /\ b # None /\ y \notin refused
      BY <1>1, <1>3, <1>4, <1>8, <2>2
    <3>2. Holds(b, y) /\ ConnOf(b, y) = l
      BY <1>8, <3>1 DEF Ownership, Lent, LentTo
    <3>3. ~(b = c /\ y = o) /\ ~(b = d /\ y = o)
      BY <1>4, <1>5, <1>8, <2>2, <3>1, <3>2
    <3>4. call'[b][y] = call[b][y]
      BY <3>3 DEF Handed
    <3> QED
      BY <2>0, <3>2, <3>3, <3>4 DEF PassesOn, ConnOf
  <2> QED
    BY <2>1, <2>2
<1>9. Lent'
  <2> SUFFICES ASSUME NEW l \in Conns, (PoolOf[l] \notin refused /\ borrower[l] # None)'
               PROVE  LentTo(l, borrower[l])'
    BY DEF Lent
  <2>1. borrower'[l] \in Contexts /\ PoolOf[l] \in Owners
    BY <1>1, <1>3, PoolsAssumption
  <2> QED
    BY <1>8, <2>1 DEF LentTo
<1>10. IdleIsClean'
  BY <1>1, <1>3, <1>4, <1>5 DEF IdleIsClean, Ownership
<1>11. \A x \in Contexts, y \in Owners : OwnedBy(x, y)'
  BY <1>7 DEF OwnedBy
<1> QED
  BY <1>9, <1>10, <1>11 DEF Ownership

(* The call that leaves is told the truth, or will be.                     *)
LeftTruthfully(c, o, p) ==
  /\ p = "run" => TellsTruth(o, ending'[c][o])
  /\ p = "again" =>
       /\ ending'[c][o].told = "none"
       /\ \/ MayLie(o, ending'[c][o]) \/ ending'[c][o].lostAck
          \/ Undone(ending'[c][o])

(* A release keeps what the other callers were told true.                  *)
LEMMA LeavingKeepsTruth ==
  ASSUME Core, Ownership, Truth,
         NEW c \in Contexts, NEW o \in Owners, NEW k \in Conns, PoolOf[k] = o,
         NEW p \in {"run", "again"}, NEW r \in Calls, NEW st,
         NEW d \in Contexts \cup {None},
         Handed(c, o, k, p, r, d), Leaves(c, o, p, st),
         \A l \in Conns \ {k} : session'[l] = session[l],
         \A id \in session'[k].writers : id[2] = o,
         refused \subseteq refused' /\ refused' \subseteq refused \cup {o},
         o \notin refused => Holds(c, o) /\ ConnOf(c, o) = k,
         \A x \in Contexts, y \in Owners :
           y \notin refused' /\ ~(x = c /\ y = o) => ending'[x][y] = ending[x][y],
         o \notin refused' => LeftTruthfully(c, o, p)
  PROVE  Truth'
<1>1. /\ stack \in [Contexts -> Seq(Owners)] /\ opening \in [Contexts -> Owners \cup {None}]
      /\ None \notin Owners \cup Contexts
      /\ \A x \in Contexts : opening[x] \notin Elements(stack[x])
  BY NoneAssumption DEF Core, TypeOK, Shape
<1>2. \A x \in Contexts : x # c => stack'[x] = stack[x] /\ opening'[x] = opening[x]
  BY <1>1 DEF Leaves
<1>3. ASSUME NEW x \in Contexts, NEW y \in Owners, y \notin refused'
      PROVE  TruthOf(x, y)'
  <2>0. PassesOn(c, o, d, x, y) /\ TruthOf(x, y) /\ y \notin refused
    BY ZenonT(60), <1>3, LeavingChangesHolders DEF Truth
  <2>1. CASE y = o /\ x = c
    <3>1. x # d /\ phase'[x] = p
      BY <1>1, <2>1 DEF Handed
    <3>2. ~Holds(x, y)'
      BY <2>0, <2>1, <3>1 DEF PassesOn
    <3>3. p = "again" => TellsTruth(o, ending'[c][o])
      BY <1>3, <2>1 DEF LeftTruthfully, TellsTruth
    <3> QED
      BY <1>3, <2>1, <3>1, <3>2, <3>3 DEF TruthOf, LeftTruthfully
  <2>2. CASE y = o /\ x = d /\ x # c
    <3>1. /\ phase[x] = "queued" /\ opening[x] = o
          /\ phase'[x] \notin Ending /\ phase'[x] # "queued"
      BY <2>2, FirstStepOpens DEF Handed
    <3>2. ~InStack(x, y)'
      BY <1>1, <1>2, <2>2, <3>1 DEF InStack
    <3>3. ending'[x][y] = ending[x][y] /\ ending[x][y] = Open
      BY <1>3, <2>0, <2>2, <3>1 DEF TruthOf
    <3> QED
      BY <2>0, <3>1, <3>2, <3>3 DEF TruthOf, Ending
  <2>3. CASE ~(x = c /\ y = o) /\ ~(x = d /\ y = o)
    <3>1. Untouched(x, y)
      BY SMTT(40), <2>0, <2>3, LeavingTouchesFew
    <3> QED
      BY <1>3, <2>0, <2>3, <3>1, UntouchedStaysTrue DEF TruthNext
  <2> QED
    BY <2>1, <2>2, <2>3
<1>4. WritersOfPool'
  BY DEF WritersOfPool, Truth
<1>5. \A x \in Contexts, y \in Owners : TruthOf(x, y)'
  BY <1>3 DEF TruthOf
<1> QED
  BY <1>4, <1>5 DEF Truth

(* Everything a step does that ends with a release by call <<c, o>>.       *)
GivesBack(c, o, k, p, r, st) ==
  /\ PoolOf[k] = o
  /\ r \in Calls /\ (r.conn \in Conns => PoolOf[r.conn] = o) /\ r.asked <= r.level
  /\ Release(k, [phase EXCEPT ![c] = p], [call EXCEPT ![c][o] = r])
  /\ Leaves(c, o, p, st)
  /\ RestTyped'
  /\ \A l \in Conns \ {k} : session'[l] = session[l]
  /\ \A id \in session'[k].writers : id[2] = o
  /\ refused \subseteq refused' /\ refused' \subseteq refused \cup {o}
  /\ o \notin refused => Holds(c, o) /\ ConnOf(c, o) = k
  /\ o \notin refused' => session'[k] = Fresh /\ (p = "again" => r.conn = None)
  /\ \A x \in Contexts, y \in Owners :
       y \notin refused' /\ ~(x = c /\ y = o) => ending'[x][y] = ending[x][y]
  /\ o \notin refused' => LeftTruthfully(c, o, p)

(* A step that ends with a release keeps the invariant.                    *)
LEMMA LeavingKeepsIInv ==
  ASSUME IInv,
         NEW c \in Contexts, NEW o \in Owners, NEW k \in Conns,
         NEW p \in {"run", "again"}, NEW r, NEW st,
         GivesBack(c, o, k, p, r, st)
  PROVE  IInv'
<1>1. Core /\ Ownership /\ Truth
  BY DEF IInv
<1>2. /\ PoolOf[k] = o
      /\ r \in Calls /\ (r.conn \in Conns => PoolOf[r.conn] = o) /\ r.asked <= r.level
      /\ Release(k, [phase EXCEPT ![c] = p], [call EXCEPT ![c][o] = r])
      /\ Leaves(c, o, p, st)
      /\ RestTyped'
      /\ \A l \in Conns \ {k} : session'[l] = session[l]
      /\ \A id \in session'[k].writers : id[2] = o
      /\ refused \subseteq refused' /\ refused' \subseteq refused \cup {o}
      /\ o \notin refused => Holds(c, o) /\ ConnOf(c, o) = k
      /\ o \notin refused' => session'[k] = Fresh /\ (p = "again" => r.conn = None)
      /\ \A x \in Contexts, y \in Owners :
           y \notin refused' /\ ~(x = c /\ y = o) => ending'[x][y] = ending[x][y]
      /\ o \notin refused' => LeftTruthfully(c, o, p)
  BY DEF GivesBack
<1>3. p \in Phases /\ phase[c] # "queued"
  BY <1>2 DEF Phases, Leaves
<1>4. PICK d \in Contexts \cup {None} : Handed(c, o, k, p, r, d)
  BY <1>1, <1>2, <1>3, ReleaseHandsOver
<1>5. Core'
  BY <1>1, <1>2, <1>4, LeavingKeepsCore
<1>6. Ownership'
  BY <1>1, <1>2, <1>4, LeavingKeepsOwnership
<1>7. Truth'
  BY <1>1, <1>2, <1>4, LeavingKeepsTruth
<1> QED
  BY <1>5, <1>6, <1>7 DEF IInv

-----------------------------------------------------------------------------
(* The steps that give a connection back                                   *)

EndingTable == [Contexts -> [Owners -> Endings]]
Answers == {"resolved", "rejected"}
Fates == {"committed", "undone"}

(* f is e with another fate, or another answer.                           *)
FateOf(e, f, fate) ==
  /\ f.fate = e.fate \cup fate
  /\ f.told = e.told /\ f.erred = e.erred /\ f.lostAck = e.lostAck

AnswerOf(e, f, t) ==
  /\ f.told = t
  /\ f.fate = e.fate /\ f.erred = e.erred /\ f.lostAck = e.lostAck

(* Call e has ended as g: fate f, if it had writes, and answer t.          *)
Ended(e, g, f, t) ==
  /\ g.told = t /\ g.erred = e.erred /\ g.lostAck = e.lostAck
  /\ g.fate \subseteq e.fate \cup {f}

(* The answers and the fates the steps below write have their types.       *)
LEMMA TheAnswers ==
  /\ "resolved" \in Answers /\ "rejected" \in Answers
  /\ "committed" \in Fates /\ "undone" \in Fates
  BY DEF Answers, Fates

(* Settled changes the fate of the calls it names, and of no other.        *)
LEMMA SettledSettles ==
  ASSUME ending \in EndingTable, NEW ids, NEW f \in Fates
  PROVE  /\ Settled(ids, f) \in EndingTable
         /\ \A x \in Contexts, y \in Owners :
              /\ <<x, y>> \notin ids => Settled(ids, f)[x][y] = ending[x][y]
              /\ <<x, y>> \in ids => FateOf(ending[x][y], Settled(ids, f)[x][y], {f})
<1>1. ASSUME NEW x \in Contexts, NEW y \in Owners
      PROVE  /\ [ending[x][y] EXCEPT !.fate = @ \cup {f}] \in Endings
             /\ FateOf(ending[x][y], [ending[x][y] EXCEPT !.fate = @ \cup {f}], {f})
  <2>1. ending[x][y] \in Endings
    BY DEF EndingTable
  <2> QED
    BY <2>1 DEF Endings, FateOf, Fates
<1> QED
  BY <1>1 DEF EndingTable, Settled

(* Tell changes what one caller was told, and nothing else.                *)
LEMMA TellTells ==
  ASSUME NEW en \in EndingTable, NEW c \in Contexts, NEW o \in Owners,
         NEW t \in Answers
  PROVE  /\ Tell(en, c, o, t) \in EndingTable
         /\ \A x \in Contexts, y \in Owners :
              ~(x = c /\ y = o) => Tell(en, c, o, t)[x][y] = en[x][y]
         /\ AnswerOf(en[c][o], Tell(en, c, o, t)[c][o], t)
<1>0. en[c][o] \in Endings
  BY DEF EndingTable
<1>1. /\ [en[c][o] EXCEPT !.told = t] \in Endings
      /\ AnswerOf(en[c][o], [en[c][o] EXCEPT !.told = t], t)
  BY <1>0 DEF Endings, AnswerOf, Answers
<1> QED
  BY <1>1 DEF EndingTable, Tell

(* The types and the fields of the initial records.                        *)
LEMMA Records ==
  /\ NoCall \in Calls /\ NoCall.conn = None /\ NoCall.asked <= NoCall.level
  /\ Fresh \in Sessions /\ Fresh.writers = {} /\ ~Fresh.broken /\ Fresh.tx = "none"
  /\ Fresh.pending = 0
  /\ Broken \in Sessions /\ Broken.writers = {} /\ Broken.broken
  /\ Broken # Fresh /\ Broken.tx = "none"
  /\ Open \in Endings /\ Open.fate = {} /\ Open.told = "none" /\ ~Open.erred
  /\ ~Open.lostAck
<1>1. NoCall \in Calls /\ NoCall.conn = None /\ NoCall.asked <= NoCall.level
  BY DEF NoCall, Calls
<1>2. /\ Fresh \in Sessions /\ Fresh.writers = {} /\ ~Fresh.broken /\ Fresh.tx = "none"
      /\ Fresh.pending = 0
  BY DEF Fresh, Sessions
<1>3. Broken \in Sessions /\ Broken.broken /\ Broken.writers = Fresh.writers
      /\ Broken.tx = Fresh.tx
  BY <1>2 DEF Broken, Sessions
<1>4. /\ Broken \in Sessions /\ Broken.writers = {} /\ Broken.broken
      /\ Broken # Fresh /\ Broken.tx = "none"
  BY <1>2, <1>3
<1>5. /\ Open \in Endings /\ Open.fate = {} /\ Open.told = "none" /\ ~Open.erred
      /\ ~Open.lostAck
  BY DEF Open, Endings
<1> QED
  BY <1>1, <1>2, <1>4, <1>5

(* The writers of a session of pool o come to an end, which only call      *)
(* <<c, o>> notices outside the pools that have refused a COMMIT.          *)
LEMMA SettledFew ==
  ASSUME ending \in EndingTable, NEW c \in Contexts, NEW o \in Owners, NEW ids,
         \A id \in ids : id[2] = o, o \notin refused => ids \subseteq {<<c, o>>},
         NEW f \in Fates
  PROVE  /\ Settled(ids, f) \in EndingTable
         /\ \A x \in Contexts, y \in Owners :
              y \notin refused /\ ~(x = c /\ y = o) =>
                Settled(ids, f)[x][y] = ending[x][y]
         /\ Ended(ending[c][o], Settled(ids, f)[c][o], f, ending[c][o].told)
<1> DEFINE en == Settled(ids, f)
<1>1. /\ en \in EndingTable
      /\ \A x \in Contexts, y \in Owners :
           /\ <<x, y>> \notin ids => en[x][y] = ending[x][y]
           /\ <<x, y>> \in ids => FateOf(ending[x][y], en[x][y], {f})
  BY SettledSettles
<1> HIDE DEF en
<1>2. ASSUME NEW x \in Contexts, NEW y \in Owners, y \notin refused, ~(x = c /\ y = o)
      PROVE  en[x][y] = ending[x][y]
  <2>1. <<x, y>> \notin ids
    <3>1. <<x, y>>[2] = y /\ <<x, y>> # <<c, o>>
      BY <1>2
    <3> QED
      BY <1>2, <3>1
  <2> QED
    BY <1>1, <1>2, <2>1
<1>3. Ended(ending[c][o], en[c][o], f, ending[c][o].told)
  BY <1>1 DEF FateOf, Ended
<1> QED
  BY <1>1, <1>2, <1>3 DEF en

(* They do, and call <<c, o>> is told.                                     *)
LEMMA SettledTells ==
  ASSUME ending \in EndingTable, NEW c \in Contexts, NEW o \in Owners, NEW ids,
         \A id \in ids : id[2] = o, o \notin refused => ids \subseteq {<<c, o>>},
         NEW f \in Fates, NEW t \in Answers,
         ending' = Tell(Settled(ids, f), c, o, t)
  PROVE  /\ ending' \in EndingTable
         /\ \A x \in Contexts, y \in Owners :
              y \notin refused /\ ~(x = c /\ y = o) => ending'[x][y] = ending[x][y]
         /\ Ended(ending[c][o], ending'[c][o], f, t)
<1> DEFINE en == Settled(ids, f)
<1>1. /\ en \in EndingTable
      /\ \A x \in Contexts, y \in Owners :
           y \notin refused /\ ~(x = c /\ y = o) => en[x][y] = ending[x][y]
      /\ Ended(ending[c][o], en[c][o], f, ending[c][o].told)
  BY SettledFew
<1>2. ending' = Tell(en, c, o, t)
  OBVIOUS
<1> HIDE DEF en
<1>3. /\ ending' \in EndingTable
      /\ \A x \in Contexts, y \in Owners :
           ~(x = c /\ y = o) => ending'[x][y] = en[x][y]
      /\ AnswerOf(en[c][o], ending'[c][o], t)
  BY <1>1, <1>2, TellTells
<1> QED
  BY <1>1, <1>3 DEF AnswerOf, Ended

(* A call that is opening and has its connection.                          *)
LEMMA OpeningHolds ==
  ASSUME IInv, NEW c \in Contexts, phase[c] \in Opening \ {"queued"},
         NEW o, o = opening[c]
  PROVE  /\ o \in Owners /\ ~InStack(c, o) /\ Holds(c, o)
         /\ ConnOf(c, o) \in Conns /\ PoolOf[ConnOf(c, o)] = o
         /\ session[ConnOf(c, o)] \in Sessions
         /\ \A id \in session[ConnOf(c, o)].writers : id[2] = o
         /\ o \notin refused =>
              /\ ending[c][o] = Open
              /\ borrower[ConnOf(c, o)] = c
              /\ \/ session[ConnOf(c, o)] = Broken
                 \/ phase[c] # "begin" /\ session[ConnOf(c, o)] = Fresh
                 \/ /\ phase[c] = "begin"
                    /\ session[ConnOf(c, o)] = AboutToBegin(o, call[c][o])
<1>1. o \in Owners /\ ~InStack(c, o) /\ Holds(c, o)
  BY DEF IInv, Core, TypeOK, Shape, InStack, Holds, Opening
<1>2. ConnOf(c, o) \in Conns /\ PoolOf[ConnOf(c, o)] = o
  BY <1>1 DEF IInv, Core, Linked
<1>3. session[ConnOf(c, o)] \in Sessions
  BY <1>2 DEF IInv, Core, TypeOK
<1>4. \A id \in session[ConnOf(c, o)].writers : id[2] = o
  BY <1>2 DEF IInv, Truth, WritersOfPool
<1>5. OwnedBy(c, o) /\ TruthOf(c, o)
  BY <1>1 DEF IInv, Ownership, Truth
<1> QED
  BY <1>1, <1>2, <1>3, <1>4, <1>5 DEF OwnedBy, TruthOf, Fits

(* The innermost transaction, when its callback has ended.                 *)
LEMMA TopHolds ==
  ASSUME IInv, NEW c \in Contexts, phase[c] \in Ending, NEW o, o = Top(c)
  PROVE  /\ o \in Owners /\ InStack(c, o) /\ opening[c] = None
         /\ ConnOf(c, o) \in Conns => PoolOf[ConnOf(c, o)] = o
         /\ phase[c] # "again" =>
              /\ Holds(c, o) /\ ConnOf(c, o) \in Conns
              /\ o \notin refused =>
                   /\ borrower[ConnOf(c, o)] = c
                   /\ GoesOn(o, ending[c][o], session[ConnOf(c, o)])
                   /\ \/ session[ConnOf(c, o)] = Broken
                      \/ InTransaction(c, o, call[c][o], session[ConnOf(c, o)])
         /\ phase[c] = "again" /\ o \notin refused =>
              /\ ConnOf(c, o) = None
              /\ ending[c][o].told = "none"
              /\ \/ MayLie(o, ending[c][o]) \/ ending[c][o].lostAck
                 \/ Undone(ending[c][o])
         /\ \A l \in Conns : session[l] \in Sessions
         /\ \A l \in Conns : \A id \in session[l].writers : id[2] = PoolOf[l]
<1>1. /\ stack[c] \in Seq(Owners) /\ IsInjective(stack[c]) /\ stack[c] # <<>>
      /\ opening[c] = None
  BY DEF IInv, Core, TypeOK, Shape, Ending, Opening
<1>2. o \in Owners /\ InStack(c, o)
  <2>1. o \in Elements(stack[c])
    BY <1>1, LastLeaves DEF Top
  <2> QED
    BY <1>1, <2>1, MembersAreElements DEF InStack
<1>3. ConnOf(c, o) \in Conns => PoolOf[ConnOf(c, o)] = o
  BY <1>2 DEF IInv, Core, Linked
<1>4. OwnedBy(c, o) /\ TruthOf(c, o)
  BY <1>2 DEF IInv, Ownership, Truth
<1>5. phase[c] # "again" => Holds(c, o) /\ ConnOf(c, o) \in Conns
  BY <1>2 DEF IInv, Core, Linked, Holds, InStack
<1>6. /\ \A l \in Conns : session[l] \in Sessions
      /\ \A l \in Conns : \A id \in session[l].writers : id[2] = PoolOf[l]
  BY DEF IInv, Core, TypeOK, Truth, WritersOfPool
<1> QED
  BY <1>1, <1>2, <1>3, <1>4, <1>5, <1>6 DEF OwnedBy, TruthOf, Fits

(* The call at the top of the stack returns, or is to be rolled back.      *)
LEMMA TopLeaves ==
  ASSUME IInv, NEW c \in Contexts, phase[c] \in Ending, NEW o, o = Top(c),
         opening' = opening
  PROVE  /\ stack' = Pop(c) =>
              Leaves(c, o, "run", SubSeq(stack[c], 1, Len(stack[c]) - 1))
         /\ stack' = stack => Leaves(c, o, "again", stack[c])
<1>1. /\ stack \in [Contexts -> Seq(Owners)] /\ opening \in [Contexts -> Owners \cup {None}]
      /\ IsInjective(stack[c]) /\ stack[c] # <<>> /\ opening[c] = None
      /\ stack[c] \in Seq(Owners)
  BY DEF IInv, Core, TypeOK, Shape, Ending, Opening
<1> DEFINE st == SubSeq(stack[c], 1, Len(stack[c]) - 1)
<1>2. /\ st \in Seq(Owners) /\ IsInjective(st)
      /\ Elements(st) = Elements(stack[c]) \ {o}
  BY <1>1, LastLeaves DEF Top
<1>3. opening' = [opening EXCEPT ![c] = None]
  BY <1>1
<1>4. phase[c] # "queued"
  BY DEF Ending
<1>5. stack' = Pop(c) => stack' = [stack EXCEPT ![c] = st]
  BY DEF Pop
<1>6. stack' = stack => stack' = [stack EXCEPT ![c] = stack[c]]
  BY <1>1
<1> HIDE DEF st
<1>7. ASSUME stack' = Pop(c) PROVE Leaves(c, o, "run", st)
  BY <1>1, <1>2, <1>3, <1>4, <1>5, <1>7 DEF Leaves, InStack, Top
<1>8. ASSUME stack' = stack PROVE Leaves(c, o, "again", stack[c])
  BY <1>1, <1>3, <1>4, <1>6, <1>8 DEF Leaves, InStack, Top
<1> QED
  BY <1>7, <1>8 DEF st

(* A call that was opening its transaction gives up, or has executed its   *)
(* statement.                                                              *)
LEMMA OpeningLeaves ==
  ASSUME IInv, NEW c \in Contexts, phase[c] \in Opening \ {"queued"},
         NEW o, o = opening[c],
         opening' = [opening EXCEPT ![c] = None], stack' = stack
  PROVE  Leaves(c, o, "run", stack[c])
<1>1. /\ stack \in [Contexts -> Seq(Owners)] /\ IsInjective(stack[c])
      /\ stack[c] \in Seq(Owners)
      /\ opening[c] \notin Elements(stack[c])
  BY DEF IInv, Core, TypeOK, Shape
<1>2. stack' = [stack EXCEPT ![c] = stack[c]]
  BY <1>1
<1>3. phase[c] # "again"
  BY DEF Opening
<1> QED
  BY <1>1, <1>2, <1>3 DEF Leaves, InStack

(* A failed BEGIN gives its connection back.                               *)
LEMMA GiveUpKeepsIInv ==
  ASSUME IInv, NEW c \in Contexts, phase[c] \in {"setLevel", "begin"},
         NEW s \in Sessions, GiveUp(c, s), mishaps' \in 0..MaxMishaps,
         \A id \in s.writers : id[2] = opening[c],
         opening[c] \notin refused => s = Fresh
  PROVE  IInv'
<1> DEFINE o == opening[c]
           k == ConnOf(c, o)
<1>1. phase[c] \in Opening \ {"queued"}
  BY DEF Opening
<1>2. /\ o \in Owners /\ Holds(c, o) /\ k \in Conns /\ PoolOf[k] = o
      /\ ConnOf(c, o) = k
      /\ o \notin refused => ending[c][o] = Open
  BY <1>1, OpeningHolds
<1>3. /\ session' = [session EXCEPT ![k] = s]
      /\ Release(k, [phase EXCEPT ![c] = "run"], [call EXCEPT ![c][o] = NoCall])
      /\ ending' = Tell(ending, c, o, "rejected")
      /\ opening' = [opening EXCEPT ![c] = None]
      /\ stack' = stack /\ refused' = refused /\ calls' = calls
  BY DEF GiveUp, ConnOf
<1>4. Leaves(c, o, "run", stack[c])
  BY <1>1, <1>3, OpeningLeaves
<1>5. /\ session \in [Conns -> Sessions] /\ ending \in EndingTable
      /\ refused \subseteq Refusing /\ calls \in [Contexts -> 0..MaxCalls]
  BY DEF IInv, Core, TypeOK, EndingTable
<1>6. (\A id \in s.writers : id[2] = o) /\ (o \notin refused => s = Fresh)
  OBVIOUS
<1> HIDE DEF o, k
<1>7. /\ ending' \in EndingTable
      /\ \A x \in Contexts, y \in Owners :
           ~(x = c /\ y = o) => ending'[x][y] = ending[x][y]
      /\ AnswerOf(ending[c][o], ending'[c][o], "rejected")
  BY <1>2, <1>3, <1>5, TellTells, TheAnswers
<1>8. /\ session' \in [Conns -> Sessions] /\ session'[k] = s
      /\ \A l \in Conns \ {k} : session'[l] = session[l]
  BY <1>2, <1>3, <1>5
<1>9. RestTyped'
  BY <1>3, <1>5, <1>7, <1>8 DEF RestTyped, EndingTable
<1>10. o \notin refused' => LeftTruthfully(c, o, "run")
  <2>1. ASSUME o \notin refused' PROVE TellsTruth(o, ending'[c][o])
    BY <1>2, <1>3, <1>7, <2>1, Records DEF AnswerOf, TellsTruth, Undone
  <2> QED
    BY <2>1 DEF LeftTruthfully
<1>11. NoCall \in Calls /\ NoCall.conn \notin Conns /\ NoCall.asked <= NoCall.level
  BY Records, NoneAssumption
<1>12. GivesBack(c, o, k, "run", NoCall, stack[c])
  BY <1>2, <1>3, <1>4, <1>6, <1>7, <1>8, <1>9, <1>10, <1>11 DEF GivesBack
<1> QED
  BY <1>2, <1>12, LeavingKeepsIInv

(* A plain statement borrows a connection for itself alone.                *)
LEMMA QueryKeepsIInv ==
  ASSUME IInv, NEW c \in Contexts, Query(c) PROVE IInv'
<1> DEFINE o == opening[c]
           k == ConnOf(c, o)
           s == session[k]
<1>1. phase[c] = "query" /\ phase[c] \in Opening \ {"queued"}
  BY DEF Query, Opening
<1>2. /\ o \in Owners /\ Holds(c, o) /\ k \in Conns /\ PoolOf[k] = o
      /\ ConnOf(c, o) = k /\ s = session[k]
      /\ s \in Sessions /\ \A id \in s.writers : id[2] = o
      /\ o \notin refused => ending[c][o] = Open /\ (s = Broken \/ s = Fresh)
  BY <1>1, OpeningHolds
<1>3. /\ Release(k, [phase EXCEPT ![c] = "run"], [call EXCEPT ![c][o] = NoCall])
      /\ opening' = [opening EXCEPT ![c] = None]
      /\ stack' = stack /\ refused' = refused /\ calls' = calls /\ mishaps' = mishaps
  BY DEF Query, ConnOf
<1>4. Leaves(c, o, "run", stack[c])
  BY <1>1, <1>3, OpeningLeaves
<1>5. /\ session \in [Conns -> Sessions] /\ ending \in EndingTable
      /\ refused \subseteq Refusing /\ calls \in [Contexts -> 0..MaxCalls]
      /\ mishaps \in 0..MaxMishaps
  BY DEF IInv, Core, TypeOK, EndingTable
<1>6. \/ /\ ~s.broken /\ s.tx = "none" /\ session' = session
         /\ ending' = Tell(Settled({<<c, o>>}, "committed"), c, o, "resolved")
      \/ /\ ~s.broken /\ s.tx = "open"
         /\ session' = [session EXCEPT ![k].writers = @ \cup {<<c, o>>}]
         /\ ending' = Tell(ending, c, o, "resolved")
      \/ /\ s.broken \/ s.tx = "aborted"
         /\ session' = [session EXCEPT ![k] = Fresh]
         /\ ending' = Tell(Settled(s.writers, "undone"), c, o, "rejected")
  BY DEF Query, ConnOf
<1>7. NoCall \in Calls /\ NoCall.conn \notin Conns /\ NoCall.asked <= NoCall.level
  BY Records, NoneAssumption
<1> HIDE DEF o, k, s
<1>8. CASE ~s.broken /\ s.tx = "none" /\ session' = session
           /\ ending' = Tell(Settled({<<c, o>>}, "committed"), c, o, "resolved")
  <2> DEFINE en == Settled({<<c, o>>}, "committed")
  <2>1. /\ en \in EndingTable
        /\ \A x \in Contexts, y \in Owners :
             /\ <<x, y>> \notin {<<c, o>>} => en[x][y] = ending[x][y]
             /\ <<x, y>> \in {<<c, o>>} => FateOf(ending[x][y], en[x][y], {"committed"})
    BY <1>5, SettledSettles, TheAnswers
  <2>2. ending' = Tell(en, c, o, "resolved")
    BY <1>8
  <2> HIDE DEF en
  <2>3. /\ ending' \in EndingTable
        /\ \A x \in Contexts, y \in Owners :
             ~(x = c /\ y = o) => ending'[x][y] = en[x][y]
        /\ AnswerOf(en[c][o], ending'[c][o], "resolved")
    BY <1>2, <2>1, <2>2, TellTells, TheAnswers
  <2>4. \A x \in Contexts, y \in Owners :
          ~(x = c /\ y = o) => ending'[x][y] = ending[x][y]
    BY <2>1, <2>3
  <2>5. o \notin refused' => LeftTruthfully(c, o, "run")
    <3>1. ASSUME o \notin refused' PROVE TellsTruth(o, ending'[c][o])
      <4>1. FateOf(Open, en[c][o], {"committed"})
        BY <1>2, <1>3, <2>1, <3>1
      <4>2. en[c][o].fate = {"committed"}
        BY <4>1, Records DEF FateOf
      <4> QED
        BY <2>3, <4>2 DEF AnswerOf, TellsTruth
    <3> QED
      BY <3>1 DEF LeftTruthfully
  <2>6. RestTyped'
    BY <1>3, <1>5, <1>8, <2>3 DEF RestTyped, EndingTable
  <2>7. session'[k] = s /\ (o \notin refused' => s = Fresh)
    BY <1>2, <1>3, <1>8, Records
  <2>8. GivesBack(c, o, k, "run", NoCall, stack[c])
    BY <1>2, <1>3, <1>4, <1>7, <1>8, <2>4, <2>5, <2>6, <2>7 DEF GivesBack
  <2> QED
    BY <1>2, <2>8, LeavingKeepsIInv
<1>9. CASE ~s.broken /\ s.tx = "open"
           /\ session' = [session EXCEPT ![k].writers = @ \cup {<<c, o>>}]
           /\ ending' = Tell(ending, c, o, "resolved")
  <2>1. o \in refused
    BY <1>2, <1>9, Records
  <2>2. /\ ending' \in EndingTable
        /\ \A x \in Contexts, y \in Owners :
             ~(x = c /\ y = o) => ending'[x][y] = ending[x][y]
    BY <1>2, <1>5, <1>9, TellTells, TheAnswers
  <2>3. [s EXCEPT !.writers = @ \cup {<<c, o>>}] \in Sessions
    BY <1>2 DEF Sessions, Ids
  <2>4. /\ session' \in [Conns -> Sessions]
        /\ session'[k] = [s EXCEPT !.writers = @ \cup {<<c, o>>}]
        /\ \A l \in Conns \ {k} : session'[l] = session[l]
    BY <1>2, <1>5, <1>9, <2>3
  <2>5. session'[k].writers = s.writers \cup {<<c, o>>}
    BY <1>2, <2>4 DEF Sessions
  <2>6. RestTyped'
    BY <1>3, <1>5, <2>2, <2>4 DEF RestTyped, EndingTable
  <2>7. \A id \in session'[k].writers : id[2] = o
    BY <1>2, <2>5
  <2>8. GivesBack(c, o, k, "run", NoCall, stack[c])
    BY <1>2, <1>3, <1>4, <1>7, <2>1, <2>2, <2>4, <2>6, <2>7 DEF GivesBack
  <2> QED
    BY <1>2, <2>8, LeavingKeepsIInv
<1>10. CASE (s.broken \/ s.tx = "aborted")
            /\ session' = [session EXCEPT ![k] = Fresh]
            /\ ending' = Tell(Settled(s.writers, "undone"), c, o, "rejected")
  <2>1. o \notin refused => s.writers = {}
    BY <1>2, Records
  <2>2. /\ ending' \in EndingTable
        /\ \A x \in Contexts, y \in Owners :
             y \notin refused /\ ~(x = c /\ y = o) => ending'[x][y] = ending[x][y]
        /\ Ended(ending[c][o], ending'[c][o], "undone", "rejected")
    BY <1>2, <1>5, <1>10, <2>1, SettledTells, TheAnswers
  <2>3. o \notin refused' => LeftTruthfully(c, o, "run")
    <3>1. ASSUME o \notin refused' PROVE TellsTruth(o, ending'[c][o])
      <4>1. ending[c][o].fate = {}
        BY <1>2, <1>3, <3>1, Records
      <4> QED
        BY <2>2, <4>1 DEF Ended, TellsTruth, Undone
    <3> QED
      BY <3>1 DEF LeftTruthfully
  <2>4. /\ session' \in [Conns -> Sessions] /\ session'[k] = Fresh
        /\ \A l \in Conns \ {k} : session'[l] = session[l]
    BY <1>2, <1>5, <1>10, Records
  <2>5. RestTyped'
    BY <1>3, <1>5, <2>2, <2>4 DEF RestTyped, EndingTable
  <2>6. \A id \in session'[k].writers : id[2] = o
    BY <2>4, Records
  <2>7. GivesBack(c, o, k, "run", NoCall, stack[c])
    BY <1>2, <1>3, <1>4, <1>7, <2>2, <2>3, <2>4, <2>5, <2>6 DEF GivesBack
  <2> QED
    BY <1>2, <2>7, LeavingKeepsIInv
<1> QED
  BY <1>6, <1>8, <1>9, <1>10

(* The session on which a transaction has ended is that of an idle         *)
(* connection.                                                             *)
LEMMA ClosedSession ==
  ASSUME NEW s \in Sessions
  PROVE  /\ Closed(s) \in Sessions /\ Closed(s).writers = {}
         /\ ~s.broken /\ s.pending = 0 => Closed(s) = Fresh
         /\ RolledBack(s) \in Sessions /\ RolledBack(s).writers = {}
         /\ s.broken \/ s.pending = 0 => RolledBack(s) = Fresh
<1> DEFINE t == [s EXCEPT !.tx = "none"]
           u == [t EXCEPT !.level = 0]
           v == [u EXCEPT !.writers = {}]
<1>1. /\ t \in Sessions
      /\ t.tx = "none" /\ t.pending = s.pending /\ t.broken = s.broken
  BY DEF Sessions
<1> HIDE DEF t
<1>2. /\ u \in Sessions /\ u.level = 0
      /\ u.tx = t.tx /\ u.pending = t.pending /\ u.broken = t.broken
  BY <1>1 DEF Sessions
<1> HIDE DEF u
<1>3. /\ v \in Sessions /\ v.writers = {}
      /\ v.tx = u.tx /\ v.level = u.level /\ v.pending = u.pending
      /\ v.broken = u.broken
  BY <1>2 DEF Sessions
<1>4. v = Closed(s)
  BY DEF t, u, Closed
<1> HIDE DEF v
<1>5. ASSUME ~s.broken, s.pending = 0 PROVE v = Fresh
  <2>1. v.broken = FALSE
    BY <1>1, <1>2, <1>3, <1>5 DEF Sessions
  <2> QED
    BY <1>1, <1>2, <1>3, <1>5, <2>1 DEF Sessions, Fresh
<1> QED
  BY <1>3, <1>4, <1>5, Records DEF RolledBack

(* A COMMIT that succeeds settles the writes of its session.               *)
LEMMA CommitDoneKeepsIInv ==
  ASSUME IInv, NEW c \in Contexts, CommitDone(c) PROVE IInv'
<1> DEFINE o == Top(c)
           k == ConnOf(c, o)
           s == session[k]
           f == CommitFate(s)
           st == SubSeq(stack[c], 1, Len(stack[c]) - 1)
<1>1. /\ phase[c] = "commit" /\ phase[c] \in Ending /\ ~s.broken
      /\ session' = [session EXCEPT ![k] = Closed(s)]
      /\ refused' = refused /\ mishaps' = mishaps
      /\ opening' = opening /\ calls' = calls
  BY DEF CommitDone, Ending, Return, Stay, ConnOf
<1>2. /\ o \in Owners /\ Holds(c, o) /\ k \in Conns /\ PoolOf[k] = o
      /\ ConnOf(c, o) = k /\ s = session[k] /\ s \in Sessions
      /\ \A id \in s.writers : id[2] = o
      /\ o \notin refused =>
           /\ borrower[k] = c
           /\ GoesOn(o, ending[c][o], s)
           /\ s = Broken \/ InTransaction(c, o, call[c][o], s)
  BY <1>1, TopHolds
<1>3. /\ stack' = Pop(c) => Leaves(c, o, "run", st)
      /\ stack' = stack => Leaves(c, o, "again", stack[c])
  BY <1>1, TopLeaves
<1>4. \/ /\ Release(k, [phase EXCEPT ![c] = "run"], [call EXCEPT ![c][o] = NoCall])
         /\ ending' = Tell(Settled(s.writers, f), c, o, "resolved")
         /\ stack' = Pop(c)
      \/ /\ borrower[k] = None
         /\ Release(k, [phase EXCEPT ![c] = "again"], call)
         /\ ending' = Settled(s.writers, f)
         /\ stack' = stack
  BY DEF CommitDone, Return, Stay, ConnOf
<1>5. /\ session \in [Conns -> Sessions] /\ ending \in EndingTable
      /\ call \in [Contexts -> [Owners -> Calls]]
      /\ refused \subseteq Refusing /\ calls \in [Contexts -> 0..MaxCalls]
      /\ mishaps \in 0..MaxMishaps
  BY DEF IInv, Core, TypeOK, EndingTable
<1>6. f \in Fates /\ (s.tx = "open" => f = "committed")
  BY DEF CommitFate, Fates
<1>7. NoCall \in Calls /\ NoCall.conn \notin Conns /\ NoCall.asked <= NoCall.level
  BY Records, NoneAssumption
<1> HIDE DEF o, k, s, f, st
<1>8. o \notin refused => /\ s.writers \subseteq {<<c, o>>} /\ s.pending = 0
  BY <1>1, <1>2, Records DEF InTransaction
<1>9. /\ session' \in [Conns -> Sessions] /\ session'[k] = Closed(s)
      /\ \A l \in Conns \ {k} : session'[l] = session[l]
  BY <1>1, <1>2, <1>5, ClosedSession
<1>10. /\ \A id \in session'[k].writers : id[2] = o
       /\ o \notin refused' => session'[k] = Fresh
  BY <1>1, <1>2, <1>8, <1>9, ClosedSession
<1>11. CASE /\ Release(k, [phase EXCEPT ![c] = "run"], [call EXCEPT ![c][o] = NoCall])
            /\ ending' = Tell(Settled(s.writers, f), c, o, "resolved")
            /\ stack' = Pop(c)
  <2>1. /\ ending' \in EndingTable
        /\ \A x \in Contexts, y \in Owners :
             y \notin refused /\ ~(x = c /\ y = o) => ending'[x][y] = ending[x][y]
        /\ Ended(ending[c][o], ending'[c][o], f, "resolved")
    BY ZenonT(60), <1>2, <1>5, <1>6, <1>8, <1>11, SettledTells, TheAnswers
  <2>2. o \notin refused' => LeftTruthfully(c, o, "run")
    <3>1. ASSUME o \notin refused' PROVE TellsTruth(o, ending'[c][o])
      BY <1>1, <1>2, <1>6, <2>1, <3>1 DEF GoesOn, Ended, TellsTruth
    <3> QED
      BY <3>1 DEF LeftTruthfully
  <2>3. RestTyped'
    BY <1>1, <1>5, <1>9, <2>1 DEF RestTyped, EndingTable
  <2>4. GivesBack(c, o, k, "run", NoCall, st)
    BY <1>1, <1>2, <1>3, <1>7, <1>9, <1>10, <1>11, <2>1, <2>2, <2>3 DEF GivesBack
  <2> QED
    BY <1>2, <2>4, LeavingKeepsIInv
<1>12. CASE /\ borrower[k] = None
            /\ Release(k, [phase EXCEPT ![c] = "again"], call)
            /\ ending' = Settled(s.writers, f)
            /\ stack' = stack
  <2>1. o \in refused
    BY <1>2, <1>12, NoneAssumption
  <2> DEFINE en == Settled(s.writers, f)
  <2>2. /\ en \in EndingTable
        /\ \A x \in Contexts, y \in Owners :
             y \notin refused /\ ~(x = c /\ y = o) => en[x][y] = ending[x][y]
        /\ Ended(ending[c][o], en[c][o], f, ending[c][o].told)
    BY <1>2, <1>5, <1>6, <1>8, SettledFew
  <2>7. ending' = en
    BY <1>12
  <2> HIDE DEF en
  <2>3. RestTyped'
    BY <1>1, <1>5, <1>9, <2>2, <2>7 DEF RestTyped, EndingTable
  <2>4. /\ call = [call EXCEPT ![c][o] = call[c][o]] /\ call[c][o] \in Calls
        /\ call[c][o].conn = k /\ call[c][o].asked <= call[c][o].level
    BY <1>2, <1>5 DEF ConnOf, IInv, Core, Linked
  <2>5. Release(k, [phase EXCEPT ![c] = "again"], [call EXCEPT ![c][o] = call[c][o]])
    BY <1>12, <2>4
  <2>6. GivesBack(c, o, k, "again", call[c][o], stack[c])
    BY <1>1, <1>2, <1>3, <1>9, <1>10, <1>12, <2>1, <2>2, <2>3, <2>4, <2>5, <2>7
       DEF GivesBack
  <2> QED
    BY <1>2, <2>6, LeavingKeepsIInv
<1> QED
  BY <1>4, <1>11, <1>12

(* A failure is one of at most MaxMishaps.                                 *)
LEMMA FailureCounts ==
  ASSUME mishaps \in 0..MaxMishaps, NEW s, Fails(s) PROVE mishaps' \in 0..MaxMishaps
  BY BoundsAssumption DEF Fails

(* The connection of a failed COMMIT.                                      *)
LEMMA CommitLostKeepsIInv ==
  ASSUME IInv, NEW c \in Contexts, CommitLost(c) PROVE IInv'
<1> DEFINE o == Top(c)
           k == ConnOf(c, o)
           s == session[k]
           f == CommitFate(s)
           en == Settled(s.writers, f)
           r == [call[c][o] EXCEPT !.conn = None]
<1>1. /\ phase[c] = "commit" /\ phase[c] \in Ending /\ Fails(s)
      /\ session' = [session EXCEPT ![k] = Fresh]
      /\ refused' = refused
      /\ opening' = opening /\ calls' = calls /\ stack' = stack
      /\ \/ s.broken /\ ending' = ending
         \/ ~s.broken /\ ending' = [en EXCEPT ![c][o].lostAck = TRUE]
      /\ Release(k, [phase EXCEPT ![c] = "again"], [call EXCEPT ![c][o].conn = None])
  BY DEF CommitLost, Ending, Stay, ConnOf
<1>2. /\ o \in Owners /\ Holds(c, o) /\ k \in Conns /\ PoolOf[k] = o
      /\ ConnOf(c, o) = k /\ s = session[k] /\ s \in Sessions
      /\ \A id \in s.writers : id[2] = o
      /\ o \notin refused =>
           /\ GoesOn(o, ending[c][o], s)
           /\ s = Broken \/ InTransaction(c, o, call[c][o], s)
  <2>1. /\ o \in Owners /\ Holds(c, o) /\ k \in Conns /\ PoolOf[k] = o
        /\ o \notin refused =>
             /\ GoesOn(o, ending[c][o], s)
             /\ s = Broken \/ InTransaction(c, o, call[c][o], s)
    BY <1>1, TopHolds
  <2>2. /\ \A l \in Conns : session[l] \in Sessions
        /\ \A l \in Conns : \A id \in session[l].writers : id[2] = PoolOf[l]
    BY <1>1, TopHolds
  <2> HIDE DEF o
  <2> QED BY <2>1, <2>2
<1>3. Leaves(c, o, "again", stack[c])
  BY <1>1, TopLeaves
<1>4. /\ session \in [Conns -> Sessions] /\ ending \in EndingTable
      /\ call \in [Contexts -> [Owners -> Calls]]
      /\ refused \subseteq Refusing /\ calls \in [Contexts -> 0..MaxCalls]
      /\ mishaps \in 0..MaxMishaps
  BY DEF IInv, Core, TypeOK, EndingTable
<1>5. f \in Fates
  BY DEF CommitFate, Fates
<1>6. [call EXCEPT ![c][o].conn = None] = [call EXCEPT ![c][o] = r]
  BY <1>2, <1>4
<1>7. call[c][o] \in Calls /\ call[c][o].asked <= call[c][o].level
  BY <1>2, <1>4 DEF IInv, Core, Linked
<1>8. r \in Calls /\ r.conn = None /\ r.asked <= r.level
  BY <1>7 DEF Calls
<1> HIDE DEF o, k, s, f, r
<1>9. o \notin refused => s.writers \subseteq {<<c, o>>}
  BY <1>2, Records DEF InTransaction
<1>10. /\ en \in EndingTable
       /\ \A x \in Contexts, y \in Owners :
            y \notin refused /\ ~(x = c /\ y = o) => en[x][y] = ending[x][y]
       /\ Ended(ending[c][o], en[c][o], f, ending[c][o].told)
  BY <1>2, <1>4, <1>5, <1>9, SettledFew
<1> HIDE DEF en
<1>11. en[c][o] \in Endings /\ en[c][o].told = ending[c][o].told
  BY <1>2, <1>10 DEF EndingTable, Ended
<1> DEFINE e == [en[c][o] EXCEPT !.lostAck = TRUE]
<1>12. e \in Endings /\ e.told = ending[c][o].told /\ e.lostAck
  BY <1>11 DEF Endings
<1>13. /\ ending' \in EndingTable
       /\ \A x \in Contexts, y \in Owners :
            y \notin refused /\ ~(x = c /\ y = o) => ending'[x][y] = ending[x][y]
       /\ ending'[c][o].told = ending[c][o].told
       /\ ending'[c][o].lostAck \/ (s.broken /\ ending'[c][o] = ending[c][o])
  <2>1. CASE s.broken /\ ending' = ending
    BY <1>4, <2>1
  <2>2. CASE ending' = [en EXCEPT ![c][o].lostAck = TRUE]
    <3>1. ending' = [en EXCEPT ![c][o] = e]
      BY <1>2, <1>10, <2>2 DEF EndingTable
    <3> HIDE DEF e
    <3>2. ending' \in EndingTable
      BY <1>2, <1>10, <1>12, <3>1 DEF EndingTable
    <3>3. \A x \in Contexts, y \in Owners :
            ending'[x][y] = IF x = c /\ y = o THEN e ELSE en[x][y]
      BY <1>2, <1>10, <3>1 DEF EndingTable
    <3>4. ending'[c][o] = e
      BY <1>2, <3>3
    <3>5. ending'[c][o].told = ending[c][o].told /\ ending'[c][o].lostAck
      BY <1>12, <3>4
    <3>6. \A x \in Contexts, y \in Owners :
            y \notin refused /\ ~(x = c /\ y = o) => ending'[x][y] = ending[x][y]
      BY <1>10, <3>3
    <3> QED
      BY <3>2, <3>5, <3>6
  <2> QED
    BY <1>1, <2>1, <2>2
<1>14. /\ session' \in [Conns -> Sessions] /\ session'[k] = Fresh
       /\ \A l \in Conns \ {k} : session'[l] = session[l]
  BY <1>1, <1>2, <1>4, Records
<1>15. o \notin refused' => LeftTruthfully(c, o, "again")
  BY <1>1, <1>2, <1>13 DEF GoesOn, LeftTruthfully
<1>16. RestTyped'
  BY <1>1, <1>4, <1>13, <1>14, FailureCounts DEF RestTyped, EndingTable
<1>17. /\ r.conn \notin Conns
       /\ \A id \in session'[k].writers : id[2] = o
  BY <1>8, <1>14, Records, NoneAssumption
<1>18. Release(k, [phase EXCEPT ![c] = "again"], [call EXCEPT ![c][o] = r])
  BY <1>1, <1>6
<1>19. GivesBack(c, o, k, "again", r, stack[c])
  BY <1>1, <1>2, <1>3, <1>8, <1>13, <1>14, <1>15, <1>16, <1>17, <1>18 DEF GivesBack
<1> QED
  BY <1>2, <1>19, LeavingKeepsIInv

(* A COMMIT refused by the server: its pool leaves the scope of the        *)
(* invariant.                                                              *)
LEMMA CommitRefusedKeepsIInv ==
  ASSUME IInv, NEW c \in Contexts, CommitRefused(c) PROVE IInv'
<1> DEFINE o == Top(c)
           k == ConnOf(c, o)
           s == session[k]
           f == "undone"
           en == Settled(s.writers, f)
<1>1. /\ phase[c] = "commit" /\ phase[c] \in Ending /\ ~s.broken
      /\ session' = [session EXCEPT ![k] = Closed(s)]
      /\ o \in Refusing /\ refused' = refused \cup {o}
      /\ mishaps < MaxMishaps /\ mishaps' = mishaps + 1
      /\ opening' = opening /\ calls' = calls /\ stack' = stack
      /\ ending' = en
      /\ Release(k, [phase EXCEPT ![c] = "again"], call)
  BY DEF CommitRefused, Ending, Stay, ConnOf
<1>2. /\ o \in Owners /\ Holds(c, o) /\ k \in Conns /\ PoolOf[k] = o
      /\ ConnOf(c, o) = k /\ s = session[k] /\ s \in Sessions
      /\ \A id \in s.writers : id[2] = o
      /\ o \notin refused => s = Broken \/ InTransaction(c, o, call[c][o], s)
  BY <1>1, TopHolds
<1>3. Leaves(c, o, "again", stack[c])
  BY <1>1, TopLeaves
<1>4. /\ session \in [Conns -> Sessions] /\ ending \in EndingTable
      /\ call \in [Contexts -> [Owners -> Calls]]
      /\ refused \subseteq Refusing /\ calls \in [Contexts -> 0..MaxCalls]
      /\ mishaps \in 0..MaxMishaps
  BY DEF IInv, Core, TypeOK, EndingTable
<1>5. f \in Fates
  BY TheAnswers
<1> HIDE DEF o, k, s, f
<1>6. o \notin refused => s.writers \subseteq {<<c, o>>}
  BY <1>2, Records DEF InTransaction
<1>7. /\ en \in EndingTable
      /\ \A x \in Contexts, y \in Owners :
           y \notin refused /\ ~(x = c /\ y = o) => en[x][y] = ending[x][y]
      /\ Ended(ending[c][o], en[c][o], f, ending[c][o].told)
  BY <1>2, <1>4, <1>5, <1>6, SettledFew
<1> HIDE DEF en
<1>8. /\ session' \in [Conns -> Sessions] /\ session'[k].writers = {}
      /\ \A l \in Conns \ {k} : session'[l] = session[l]
  BY <1>1, <1>2, <1>4, ClosedSession
<1>9. refused' \subseteq Refusing /\ mishaps' \in 0..MaxMishaps
  BY <1>1, <1>4, BoundsAssumption
<1>10. RestTyped'
  BY <1>1, <1>4, <1>7, <1>8, <1>9 DEF RestTyped, EndingTable
<1>11. /\ call = [call EXCEPT ![c][o] = call[c][o]] /\ call[c][o] \in Calls
       /\ call[c][o].conn = k /\ call[c][o].asked <= call[c][o].level
  BY <1>2, <1>4 DEF ConnOf, IInv, Core, Linked
<1>12. Release(k, [phase EXCEPT ![c] = "again"], [call EXCEPT ![c][o] = call[c][o]])
  BY <1>1, <1>11
<1>13. GivesBack(c, o, k, "again", call[c][o], stack[c])
  BY <1>1, <1>2, <1>3, <1>7, <1>8, <1>10, <1>11, <1>12 DEF GivesBack
<1> QED
  BY <1>2, <1>13, LeavingKeepsIInv

(* ROLLBACK undoes the writes of the session and gives it back.            *)
LEMMA RollbackKeepsIInv ==
  ASSUME IInv, NEW c \in Contexts, Rollback(c), ConnOf(c, Top(c)) # None PROVE IInv'
<1> DEFINE o == Top(c)
           k == ConnOf(c, o)
           s == session[k]
           st == SubSeq(stack[c], 1, Len(stack[c]) - 1)
<1>1. /\ phase[c] \in {"rollback", "again"} /\ phase[c] \in Ending
      /\ session' = [session EXCEPT ![k] = RolledBack(s)]
      /\ refused' = refused /\ mishaps' = mishaps
      /\ opening' = opening /\ calls' = calls /\ stack' = Pop(c)
      /\ ending' = Tell(Settled(s.writers, "undone"), c, o, "rejected")
      /\ Release(k, [phase EXCEPT ![c] = "run"], [call EXCEPT ![c][o] = NoCall])
  BY DEF Rollback, Ending, Return, ConnOf
<1>2. /\ session \in [Conns -> Sessions] /\ ending \in EndingTable
      /\ call \in [Contexts -> [Owners -> Calls]]
      /\ refused \subseteq Refusing /\ calls \in [Contexts -> 0..MaxCalls]
      /\ mishaps \in 0..MaxMishaps
  BY DEF IInv, Core, TypeOK, EndingTable
<1>3. o \in Owners
  BY <1>1, TopHolds
<1>4. k \in Conns
  <2>1. call[c][o] \in Calls
    BY <1>2, <1>3
  <2> QED
    BY <2>1 DEF Calls, ConnOf
<1>5. /\ PoolOf[k] = o /\ ConnOf(c, o) = k /\ s = session[k] /\ s \in Sessions
      /\ \A id \in s.writers : id[2] = o
      /\ o \notin refused =>
           /\ Holds(c, o)
           /\ GoesOn(o, ending[c][o], s)
           /\ s = Broken \/ InTransaction(c, o, call[c][o], s)
  BY <1>1, <1>4, TopHolds
<1>6. Leaves(c, o, "run", st)
  BY <1>1, TopLeaves
<1>7. NoCall \in Calls /\ NoCall.conn \notin Conns /\ NoCall.asked <= NoCall.level
  BY Records, NoneAssumption
<1> HIDE DEF o, k, s, st
<1>8. o \notin refused => s.writers \subseteq {<<c, o>>} /\ (s.broken \/ s.pending = 0)
  BY <1>5, Records DEF InTransaction
<1>9. /\ ending' \in EndingTable
      /\ \A x \in Contexts, y \in Owners :
           y \notin refused /\ ~(x = c /\ y = o) => ending'[x][y] = ending[x][y]
      /\ Ended(ending[c][o], ending'[c][o], "undone", "rejected")
  BY <1>1, <1>2, <1>3, <1>5, <1>8, SettledTells, TheAnswers
<1>10. o \notin refused' => LeftTruthfully(c, o, "run")
  <2>1. ASSUME o \notin refused' PROVE TellsTruth(o, ending'[c][o])
    <3>1. /\ ending'[c][o].told = "rejected"
          /\ ending'[c][o].erred = ending[c][o].erred
          /\ ending'[c][o].fate \subseteq ending[c][o].fate \cup {"undone"}
      BY <1>9 DEF Ended
    <3>2. ~MayLie(o, ending[c][o]) => Undone(ending[c][o])
      BY <1>1, <1>5, <2>1 DEF GoesOn
    <3> QED
      BY <3>1, <3>2 DEF MayLie, Undone, TellsTruth
  <2> QED
    BY <2>1 DEF LeftTruthfully
<1>11. /\ session' \in [Conns -> Sessions] /\ session'[k] = RolledBack(s)
       /\ \A l \in Conns \ {k} : session'[l] = session[l]
  BY <1>1, <1>2, <1>4, <1>5, ClosedSession
<1>12. /\ \A id \in session'[k].writers : id[2] = o
       /\ o \notin refused' => session'[k] = Fresh
  BY <1>1, <1>5, <1>8, <1>11, ClosedSession
<1>13. RestTyped'
  BY <1>1, <1>2, <1>9, <1>11 DEF RestTyped, EndingTable
<1>14. GivesBack(c, o, k, "run", NoCall, st)
  BY <1>1, <1>5, <1>6, <1>7, <1>9, <1>10, <1>11, <1>12, <1>13 DEF GivesBack
<1> QED
  BY <1>3, <1>4, <1>14, LeavingKeepsIInv

-----------------------------------------------------------------------------
(* The steps that keep their connections                                   *)

(* Only call <<c, o>> notices the step, except that calls of the past may  *)
(* be forgotten.                                                           *)
OnlyTouches(c, o) ==
  \A x \in Contexts, y \in Owners :
    y \notin refused /\ ~(x = c /\ y = o) =>
      /\ Untouched(x, y)
      /\ ending'[x][y] = ending[x][y] \/ (ending'[x][y] = Open /\ ~Holds(x, y))

(* A step that touches one call and keeps its connection keeps the         *)
(* invariant if that call's own part holds after it.                       *)
LEMMA TouchingOneKeepsIInv ==
  ASSUME IInv, NEW c \in Contexts, NEW o \in Owners, refused' = refused,
         OnlyTouches(c, o), o \notin refused => OwnedNext(c, o) /\ TruthNext(c, o),
         Core', Lent', IdleIsClean', WritersOfPool'
  PROVE  IInv'
<1>1. ASSUME NEW x \in Contexts, NEW y \in Owners, y \notin refused
      PROVE  OwnedNext(x, y) /\ TruthNext(x, y)
  <2>1. OwnedBy(x, y) /\ TruthOf(x, y)
    BY DEF IInv, Ownership, Truth
  <2>2. CASE x = c /\ y = o
    BY <1>1, <2>2
  <2>3. CASE ~(x = c /\ y = o)
    <3>1. /\ Untouched(x, y)
          /\ ending'[x][y] = ending[x][y] \/ (ending'[x][y] = Open /\ ~Holds(x, y))
      BY <1>1, <2>3 DEF OnlyTouches
    <3>2. OwnedNext(x, y)
      BY <1>1, <2>1, <3>1, UntouchedStaysOwned
    <3>3. CASE ending'[x][y] = ending[x][y]
      BY <1>1, <2>1, <3>1, <3>2, <3>3, UntouchedStaysTrue
    <3>4. CASE ending'[x][y] = Open /\ ~Holds(x, y)
      <4>1. TellsTruth(y, Open) /\ Undone(Open) /\ Open.told = "none"
        BY Records DEF TellsTruth, Undone
      <4>2. ~Holds(x, y)'
        BY <3>1, <3>4 DEF Untouched
      <4>3. TruthNext(x, y)
        BY <3>4, <4>1, <4>2 DEF TruthNext, TruthOf
      <4> QED
        BY <3>2, <4>3
    <3> QED
      BY <3>1, <3>3, <3>4
  <2> QED
    BY <2>2, <2>3
<1>2. \A x \in Contexts, y \in Owners : OwnedBy(x, y)'
  BY <1>1 DEF OwnedNext, OwnedBy
<1>3. \A x \in Contexts, y \in Owners : TruthOf(x, y)'
  BY <1>1 DEF TruthNext, TruthOf
<1> QED
  BY <1>2, <1>3 DEF IInv, Ownership, Truth

(* A call on connection k of pool o, while c goes on, begins or ends its   *)
(* callback.                                                               *)
WorksOn(c, o, k) ==
  /\ PoolOf[k] = o
  /\ UNCHANGED <<stack, opening, call, borrower, queue, refused>>
  /\ RestTyped'
  /\ phase' \in [Contexts -> Phases]
  /\ \A x \in Contexts : x # c => phase'[x] = phase[x]
  /\ \/ phase'[c] = phase[c]
     \/ phase[c] = "setLevel" /\ phase'[c] = "begin" /\ opening[c] = o
     \/ phase[c] = "run" /\ stack[c] # <<>> /\ phase'[c] \in {"commit", "rollback"}
  /\ \A l \in Conns \ {k} : session'[l] = session[l]
  /\ \A id \in session'[k].writers : id[2] = o
  /\ o \notin refused =>
       /\ Holds(c, o) /\ ConnOf(c, o) = k
       /\ Fits(c, o, call[c][o], session[k])'
       /\ ~InStack(c, o) => ending'[c][o] = Open
       /\ InStack(c, o) => GoesOn(o, ending'[c][o], session'[k])
  /\ \A x \in Contexts, y \in Owners :
       y \notin refused /\ ~(x = c /\ y = o) => ending'[x][y] = ending[x][y]

(* A step of a call that keeps its connection keeps the invariant.         *)
LEMMA WorkKeepsIInv ==
  ASSUME IInv, NEW c \in Contexts, NEW o \in Owners, NEW k \in Conns, WorksOn(c, o, k)
  PROVE  IInv'
<1>1. /\ stack' = stack /\ opening' = opening /\ call' = call
      /\ borrower' = borrower /\ queue' = queue /\ refused' = refused
      /\ PoolOf[k] = o
      /\ \A l \in Conns \ {k} : session'[l] = session[l]
  BY DEF WorksOn
<1>2. ASSUME NEW x \in Contexts
      PROVE  /\ phase'[x] = "queued" <=> phase[x] = "queued"
             /\ phase'[x] = "again" <=> phase[x] = "again"
             /\ phase'[x] \in Opening <=> phase[x] \in Opening
             /\ phase'[x] \in {"setLevel", "begin", "query"} <=>
                  phase[x] \in {"setLevel", "begin", "query"}
             /\ phase'[x] \in Ending => stack[x] # <<>>
             /\ phase'[x] = "setLevel" => opening[x] \in MySql
  <2>1. /\ phase[x] \in Ending => stack[x] # <<>>
        /\ phase[x] = "setLevel" => opening[x] \in MySql
    BY DEF IInv, Core, Shape
  <2> QED
    BY <2>1 DEF WorksOn, Opening, Ending
<1>3. ASSUME NEW x \in Contexts, NEW y \in Owners
      PROVE  /\ Holds(x, y)' <=> Holds(x, y)
             /\ InStack(x, y)' <=> InStack(x, y)
             /\ ConnOf(x, y)' = ConnOf(x, y)
  BY <1>1, <1>2 DEF Holds, InStack, ConnOf, Top
<1>4. TypeOK'
  <2>1. RestTyped' /\ phase' \in [Contexts -> Phases]
    BY DEF WorksOn
  <2> QED
    BY <1>1, <1>2, <2>1 DEF IInv, Core, TypeOK, RestTyped
<1>5. Shape'
  BY <1>1, <1>2 DEF IInv, Core, Shape
<1>6. Linked'
  BY <1>1, <1>3 DEF IInv, Core, Linked
<1>7. WritersOfPool'
  BY <1>1 DEF WorksOn, WritersOfPool, IInv, Truth
<1>8. Lent'
  <2> SUFFICES ASSUME NEW l \in Conns, (PoolOf[l] \notin refused /\ borrower[l] # None)'
               PROVE  LentTo(l, borrower[l])'
    BY DEF Lent
  <2>1. borrower[l] \in Contexts /\ PoolOf[l] \in Owners
    BY <1>1, PoolsAssumption DEF IInv, Core, TypeOK
  <2>2. LentTo(l, borrower[l])
    BY <1>1 DEF IInv, Ownership, Lent
  <2> QED
    BY <1>1, <1>3, <2>1, <2>2 DEF LentTo
<1>9. IdleIsClean'
  <2>1. o \notin refused => borrower[k] = c
    BY DEF WorksOn, IInv, Ownership, OwnedBy
  <2>2. c # None
    BY NoneAssumption
  <2> QED
    BY <1>1, <2>1, <2>2 DEF IdleIsClean, IInv, Ownership
<1>10. ASSUME NEW x \in Contexts, NEW y \in Owners, y \notin refused, ~(x = c /\ y = o)
       PROVE  Untouched(x, y) /\ ending'[x][y] = ending[x][y]
  <2>1. ending'[x][y] = ending[x][y]
    BY <1>10 DEF WorksOn
  <2>2. Holds(x, y) => ConnOf(x, y) \in Conns /\ PoolOf[ConnOf(x, y)] = y
    BY DEF IInv, Core, Linked
  <2>3. ASSUME Holds(x, y) PROVE session'[ConnOf(x, y)] = session[ConnOf(x, y)]
    <3>1. ConnOf(x, y) # k
      <4>1. CASE y = o
        <5>1. /\ borrower[ConnOf(x, y)] = x /\ borrower[k] = c
          BY <1>10, <2>3, <4>1 DEF WorksOn, IInv, Ownership, OwnedBy
        <5> QED
          BY <1>10, <4>1, <5>1
      <4>2. CASE y # o
        BY <1>1, <2>2, <2>3, <4>2
      <4> QED
        BY <4>1, <4>2
    <3> QED
      BY <1>1, <2>2, <2>3, <3>1
  <2>4. ASSUME Holds(x, y) PROVE InStack(x, y) \/ phase'[x] = phase[x]
    <3>1. ~InStack(x, y) => opening[x] = y /\ phase[x] # "run"
      BY <2>4 DEF Holds, InStack
    <3> QED
      BY <1>10, <3>1 DEF WorksOn
  <2> QED
    BY <1>1, <1>2, <1>3, <2>1, <2>3, <2>4 DEF Untouched, Top
<1>11. ASSUME o \notin refused PROVE OwnedNext(c, o) /\ TruthNext(c, o)
  <2>1. /\ Holds(c, o) /\ ConnOf(c, o) = k
        /\ Fits(c, o, call[c][o], session[k])'
        /\ ~InStack(c, o) => ending'[c][o] = Open
        /\ InStack(c, o) => GoesOn(o, ending'[c][o], session'[k])
    BY <1>11 DEF WorksOn
  <2>2. borrower[k] = c
    BY <1>11, <2>1 DEF IInv, Ownership, OwnedBy
  <2>3. ~(phase[c] = "again" /\ o = Top(c)) /\ ~(phase[c] = "queued" /\ opening[c] = o)
    <3>1. opening[c] \notin Elements(stack[c])
      BY DEF IInv, Core, Shape
    <3> QED
      BY <2>1, <3>1 DEF Holds
  <2>4. ~(phase'[c] = "again" /\ o = Top(c)')
    BY <1>1, <1>2, <2>3 DEF Top
  <2>5. OwnedNext(c, o)
    BY <1>1, <1>3, <2>1, <2>2, <2>4 DEF OwnedNext, OwnedBy
  <2>6. TellsTruth(o, ending'[c][o])
    BY <2>1, Records DEF TellsTruth, GoesOn
  <2>7. TruthNext(c, o)
    BY <1>1, <1>2, <1>3, <2>1, <2>3, <2>4, <2>6 DEF TruthNext, TruthOf
  <2> QED
    BY <2>5, <2>7
<1>12. OnlyTouches(c, o)
  BY <1>10 DEF OnlyTouches
<1>13. Core'
  BY <1>4, <1>5, <1>6 DEF Core
<1> QED
  BY <1>1, <1>7, <1>8, <1>9, <1>11, <1>12, <1>13, TouchingOneKeepsIInv

(* A statement of call e has failed.                                       *)
Failed(e, g) ==
  /\ g.erred
  /\ g.told = e.told /\ g.fate = e.fate /\ g.lostAck = e.lostAck

Noted(en, c, o) == [en EXCEPT ![c][o].erred = TRUE]

(* A failed statement is noted in its own call only.                       *)
LEMMA FailureIsNoted ==
  ASSUME NEW en \in EndingTable, NEW c \in Contexts, NEW o \in Owners
  PROVE  /\ Noted(en, c, o) \in EndingTable
         /\ \A x \in Contexts, y \in Owners :
              ~(x = c /\ y = o) => Noted(en, c, o)[x][y] = en[x][y]
         /\ Failed(en[c][o], Noted(en, c, o)[c][o])
<1>1. en[c][o] \in Endings
  BY DEF EndingTable
<1>2. /\ [en[c][o] EXCEPT !.erred = TRUE] \in Endings
      /\ Failed(en[c][o], [en[c][o] EXCEPT !.erred = TRUE])
  BY <1>1 DEF Endings, Failed
<1> QED
  BY <1>2 DEF EndingTable, Noted

(* The innermost code of a context is in the transactions of its stack.    *)
LEMMA CodeHolds ==
  ASSUME IInv, NEW c \in Contexts, NEW o \in Owners, phase[c] = "run", InStack(c, o)
  PROVE  /\ Holds(c, o) /\ ConnOf(c, o) \in Conns /\ PoolOf[ConnOf(c, o)] = o
         /\ session[ConnOf(c, o)] \in Sessions
         /\ \A id \in session[ConnOf(c, o)].writers : id[2] = o
         /\ o \notin refused =>
              /\ borrower[ConnOf(c, o)] = c
              /\ GoesOn(o, ending[c][o], session[ConnOf(c, o)])
              /\ \/ session[ConnOf(c, o)] = Broken
                 \/ InTransaction(c, o, call[c][o], session[ConnOf(c, o)])
<1>1. Holds(c, o)
  BY DEF Holds, InStack
<1>2. ConnOf(c, o) \in Conns /\ PoolOf[ConnOf(c, o)] = o
  BY <1>1 DEF IInv, Core, Linked
<1>3. /\ session[ConnOf(c, o)] \in Sessions
      /\ \A id \in session[ConnOf(c, o)].writers : id[2] = o
  BY <1>2 DEF IInv, Core, TypeOK, Truth, WritersOfPool
<1>4. OwnedBy(c, o) /\ TruthOf(c, o)
  BY DEF IInv, Ownership, Truth
<1> QED
  BY <1>1, <1>2, <1>3, <1>4 DEF OwnedBy, TruthOf, Fits

(* The end of a callback, by return or by throw.                           *)
LEMMA CallbackEndKeepsIInv ==
  ASSUME IInv, NEW c \in Contexts, Finish(c) \/ Throw(c) PROVE IInv'
<1>0. SUFFICES ASSUME NEW o, o = Top(c), NEW k, k = ConnOf(c, o) PROVE IInv'
  OBVIOUS
<1>1. /\ phase[c] = "run" /\ stack[c] # <<>>
      /\ phase' = [phase EXCEPT ![c] = "commit"] \/ phase' = [phase EXCEPT ![c] = "rollback"]
      /\ UNCHANGED <<stack, opening, call, ending, borrower, queue, session,
                     refused, calls, mishaps>>
  BY DEF Finish, Throw
<1>2. o \in Owners /\ InStack(c, o)
  <2>1. stack[c] \in Seq(Owners) /\ IsInjective(stack[c])
    BY DEF IInv, Core, TypeOK, Shape
  <2>2. o \in Elements(stack[c])
    BY <1>0, <1>1, <2>1, LastLeaves DEF Top
  <2> QED
    BY <2>1, <2>2, MembersAreElements DEF InStack
<1>3. /\ Holds(c, o) /\ k \in Conns /\ PoolOf[k] = o /\ ConnOf(c, o) = k
      /\ \A id \in session[k].writers : id[2] = o
      /\ o \notin refused =>
           /\ GoesOn(o, ending[c][o], session[k])
           /\ session[k] = Broken \/ InTransaction(c, o, call[c][o], session[k])
  BY <1>0, <1>1, <1>2, CodeHolds
<1>4. /\ phase \in [Contexts -> Phases] /\ RestTyped
      /\ "commit" \in Phases /\ "rollback" \in Phases
  BY DEF IInv, Core, TypeOK, RestTyped, Phases
<1>5. /\ phase' \in [Contexts -> Phases]
      /\ \A x \in Contexts : x # c => phase'[x] = phase[x]
      /\ phase'[c] \in {"commit", "rollback"}
  BY <1>1, <1>4
<1>6. RestTyped'
  BY <1>1, <1>4 DEF RestTyped
<1>7. o \notin refused => Fits(c, o, call[c][o], session[k])'
  <2>1. /\ InStack(c, o)' /\ call' = call /\ session' = session
    BY <1>1, <1>2 DEF InStack
  <2> QED
    BY <1>3, <2>1 DEF Fits
<1>8. WorksOn(c, o, k)
  BY <1>1, <1>2, <1>3, <1>5, <1>6, <1>7 DEF WorksOn
<1> QED
  BY <1>2, <1>3, <1>8, WorkKeepsIInv

(* The one-shot isolation level of MySQL.                                  *)
LEMMA SetLevelKeepsIInv ==
  ASSUME IInv, NEW c \in Contexts, SetLevel(c) PROVE IInv'
<1>0. SUFFICES ASSUME NEW o, o = opening[c], NEW k, k = ConnOf(c, o),
                      NEW s, s = session[k], NEW l, l = call[c][o].level
               PROVE  IInv'
  OBVIOUS
<1>1. /\ phase[c] = "setLevel" /\ phase[c] \in Opening \ {"queued"}
      /\ \/ /\ ~s.broken
            /\ session' = [session EXCEPT ![k].pending = l]
            /\ phase' = [phase EXCEPT ![c] = "begin"]
            /\ UNCHANGED <<stack, opening, call, ending, borrower, queue,
                           refused, calls, mishaps>>
         \/ Fails(s) /\ GiveUp(c, Returned(s))
  BY <1>0 DEF SetLevel, Opening, ConnOf
<1>2. /\ o \in Owners /\ Holds(c, o) /\ k \in Conns /\ PoolOf[k] = o
      /\ ConnOf(c, o) = k /\ s = session[k] /\ ~InStack(c, o)
      /\ s \in Sessions /\ \A id \in s.writers : id[2] = o
      /\ o \notin refused => ending[c][o] = Open /\ (s = Broken \/ s = Fresh)
  BY <1>0, <1>1, OpeningHolds
<1>3. /\ session \in [Conns -> Sessions] /\ phase \in [Contexts -> Phases]
      /\ RestTyped /\ "begin" \in Phases /\ call[c][o] \in Calls /\ o \in MySql
  BY <1>0, <1>1, <1>2 DEF IInv, Core, TypeOK, RestTyped, Phases, Shape
<1>4. o = opening[c] /\ l = call[c][o].level
  BY <1>0
<1>5. CASE Fails(s) /\ GiveUp(c, Returned(s))
  <2>1. /\ Returned(s) \in Sessions /\ \A id \in Returned(s).writers : id[2] = o
        /\ o \notin refused => Returned(s) = Fresh
    BY <1>2, Records DEF Returned
  <2>2. mishaps' \in 0..MaxMishaps
    BY <1>3, <1>5, FailureCounts DEF RestTyped
  <2> QED
    BY <1>1, <1>4, <1>5, <2>1, <2>2, GiveUpKeepsIInv
<1>6. CASE /\ ~s.broken
           /\ session' = [session EXCEPT ![k].pending = l]
           /\ phase' = [phase EXCEPT ![c] = "begin"]
           /\ UNCHANGED <<stack, opening, call, ending, borrower, queue,
                          refused, calls, mishaps>>
  <2>0. SUFFICES ASSUME NEW t, t = [s EXCEPT !.pending = l] PROVE IInv'
    OBVIOUS
  <2>1. l \in 0..3
    BY <1>3, <1>4 DEF Calls
  <2>2. t \in Sessions /\ t.writers = s.writers
    BY <1>2, <2>0, <2>1 DEF Sessions
  <2>3. session' = [session EXCEPT ![k] = t]
    BY <1>2, <1>3, <1>6, <2>0
  <2>4. o \notin refused => t = AboutToBegin(o, call[c][o])
    BY <1>2, <1>3, <1>4, <1>6, <2>0, Records DEF AboutToBegin
  <2>5. /\ session' \in [Conns -> Sessions] /\ session'[k] = t
        /\ \A j \in Conns \ {k} : session'[j] = session[j]
    BY <1>2, <1>3, <2>2, <2>3
  <2>6. /\ phase' \in [Contexts -> Phases] /\ phase'[c] = "begin"
        /\ \A x \in Contexts : x # c => phase'[x] = phase[x]
    BY <1>3, <1>6
  <2>7. RestTyped'
    BY <1>3, <1>6, <2>5 DEF RestTyped
  <2>8. o \notin refused => Fits(c, o, call[c][o], session[k])'
    <3>1. ~InStack(c, o)' /\ call' = call
      BY <1>2, <1>6 DEF InStack
    <3> QED
      BY <2>4, <2>5, <2>6, <3>1 DEF Fits
  <2>9. WorksOn(c, o, k)
    BY <1>1, <1>2, <1>4, <1>6, <2>2, <2>5, <2>6, <2>7, <2>8 DEF WorksOn
  <2> QED
    BY <1>2, <2>9, WorkKeepsIInv
<1> QED
  BY <1>1, <1>5, <1>6

(* A statement of the callback, or its failure, which leaves session t.    *)
CodeStep(c, o, k, t) ==
  /\ phase[c] = "run" /\ InStack(c, o) /\ k = ConnOf(c, o)
  /\ UNCHANGED <<stack, phase, opening, call, borrower, queue, refused, calls>>
  /\ mishaps' \in 0..MaxMishaps /\ ending' \in EndingTable
  /\ t \in Sessions /\ session' = [session EXCEPT ![k] = t]
  /\ \A id \in t.writers : id[2] = o
  /\ o \notin refused => /\ t = Broken \/ InTransaction(c, o, call[c][o], t)
                         /\ GoesOn(o, ending'[c][o], t)
  /\ \A x \in Contexts, y \in Owners :
       y \notin refused /\ ~(x = c /\ y = o) => ending'[x][y] = ending[x][y]

(* A step of a running callback keeps the invariant.                       *)
LEMMA CodeKeepsIInv ==
  ASSUME IInv, NEW c \in Contexts, NEW o \in Owners, NEW k, NEW t, CodeStep(c, o, k, t)
  PROVE  IInv'
<1>0. /\ phase[c] = "run" /\ InStack(c, o) /\ k = ConnOf(c, o)
      /\ UNCHANGED <<stack, phase, opening, call, borrower, queue, refused, calls>>
      /\ mishaps' \in 0..MaxMishaps /\ ending' \in EndingTable
      /\ t \in Sessions /\ session' = [session EXCEPT ![k] = t]
      /\ \A id \in t.writers : id[2] = o
      /\ o \notin refused => /\ t = Broken \/ InTransaction(c, o, call[c][o], t)
                             /\ GoesOn(o, ending'[c][o], t)
      /\ \A x \in Contexts, y \in Owners :
           y \notin refused /\ ~(x = c /\ y = o) => ending'[x][y] = ending[x][y]
  BY DEF CodeStep
<1>1. Holds(c, o) /\ k \in Conns /\ PoolOf[k] = o
  BY <1>0, CodeHolds
<1>2. /\ session \in [Conns -> Sessions] /\ phase \in [Contexts -> Phases] /\ RestTyped
  BY DEF IInv, Core, TypeOK, RestTyped
<1>3. /\ session' \in [Conns -> Sessions] /\ session'[k] = t
      /\ \A l \in Conns \ {k} : session'[l] = session[l]
  BY <1>0, <1>1, <1>2
<1>4. RestTyped'
  BY <1>0, <1>2, <1>3 DEF RestTyped, EndingTable
<1>5. o \notin refused => Fits(c, o, call[c][o], session[k])'
  <2>1. InStack(c, o)' /\ call' = call
    BY <1>0 DEF InStack
  <2> QED
    BY <1>0, <1>3, <2>1 DEF Fits
<1>6. WorksOn(c, o, k)
  BY <1>0, <1>1, <1>2, <1>3, <1>4, <1>5 DEF WorksOn
<1> QED
  BY <1>1, <1>6, WorkKeepsIInv

(* A statement, in the transaction of its pool or on its own.              *)
LEMMA StatementKeepsIInv ==
  ASSUME IInv, NEW c \in Contexts, NEW o \in Owners, Statement(c, o) PROVE IInv'
<1>0. SUFFICES ASSUME NEW k, k = ConnOf(c, o), NEW s, s = session[k] PROVE IInv'
  OBVIOUS
<1>1. /\ phase[c] = "run" /\ InStack(c, o)
      /\ UNCHANGED <<stack, phase, opening, call, borrower, queue, refused, calls, mishaps>>
      /\ \/ /\ ~s.broken /\ s.tx = "open"
            /\ session' = [session EXCEPT ![k].writers = @ \cup {<<c, o>>}]
            /\ UNCHANGED ending
         \/ /\ ~s.broken /\ s.tx = "none"
            /\ ending' = Settled({<<c, o>>}, "committed")
            /\ UNCHANGED session
         \/ /\ s.broken \/ s.tx = "aborted"
            /\ ending' = Noted(ending, c, o)
            /\ UNCHANGED session
  BY <1>0 DEF Statement, Execute, InStack, ConnOf, Noted
<1>2. /\ k \in Conns /\ s \in Sessions /\ \A id \in s.writers : id[2] = o
      /\ o \notin refused =>
           /\ GoesOn(o, ending[c][o], s)
           /\ s = Broken \/ InTransaction(c, o, call[c][o], s)
  BY <1>0, <1>1, CodeHolds
<1>3. /\ session \in [Conns -> Sessions] /\ ending \in EndingTable
      /\ mishaps' \in 0..MaxMishaps
  BY <1>1 DEF IInv, Core, TypeOK, EndingTable
<1>4. CASE /\ ~s.broken /\ s.tx = "open"
           /\ session' = [session EXCEPT ![k].writers = @ \cup {<<c, o>>}]
           /\ UNCHANGED ending
  <2>1. SUFFICES ASSUME NEW t, t = [s EXCEPT !.writers = @ \cup {<<c, o>>}] PROVE IInv'
    OBVIOUS
  <2>2. /\ t \in Sessions /\ t.writers = s.writers \cup {<<c, o>>}
        /\ t.tx = "open" /\ t.broken = s.broken /\ t.pending = s.pending
        /\ t.level = s.level
    BY <1>2, <1>4, <2>1 DEF Sessions, Ids
  <2>3. session' = [session EXCEPT ![k] = t]
    BY <1>0, <1>2, <1>3, <1>4, <2>1
  <2>4. \A id \in t.writers : id[2] = o
    BY <1>2, <2>2
  <2>5. ASSUME o \notin refused
        PROVE  InTransaction(c, o, call[c][o], t) /\ GoesOn(o, ending'[c][o], t)
    <3>1. InTransaction(c, o, call[c][o], s) /\ GoesOn(o, ending[c][o], s)
      BY <1>2, <1>4, <2>5, Records
    <3>2. InTransaction(c, o, call[c][o], t)
      BY <1>4, <2>2, <3>1 DEF InTransaction
    <3>3. GoesOn(o, ending'[c][o], t)
      BY <1>4, <2>2, <3>1 DEF GoesOn
    <3> QED
      BY <3>2, <3>3
  <2>6. CodeStep(c, o, k, t)
    BY <1>0, <1>1, <1>3, <1>4, <2>2, <2>3, <2>4, <2>5 DEF CodeStep
  <2> QED
    BY <2>6, CodeKeepsIInv
<1>5. session' = session => session' = [session EXCEPT ![k] = s]
  BY <1>0, <1>2, <1>3
<1>6. CASE /\ ~s.broken /\ s.tx = "none"
           /\ ending' = Settled({<<c, o>>}, "committed")
           /\ UNCHANGED session
  <2>1. SUFFICES ASSUME NEW ids, ids = {<<c, o>>} PROVE IInv'
    OBVIOUS
  <2> DEFINE en == Settled(ids, "committed")
  <2>2. (\A id \in ids : id[2] = o) /\ ids \subseteq {<<c, o>>}
    BY <2>1
  <2>3. /\ en \in EndingTable
        /\ \A x \in Contexts, y \in Owners :
             y \notin refused /\ ~(x = c /\ y = o) => en[x][y] = ending[x][y]
        /\ Ended(ending[c][o], en[c][o], "committed", ending[c][o].told)
    BY <1>3, <2>2, SettledFew, TheAnswers
  <2>4. ending' = en
    BY <1>6, <2>1
  <2> HIDE DEF en
  <2>6. /\ ending' \in EndingTable
        /\ \A x \in Contexts, y \in Owners :
             y \notin refused /\ ~(x = c /\ y = o) => ending'[x][y] = ending[x][y]
    BY <2>3, <2>4
  <2>5. ASSUME o \notin refused PROVE GoesOn(o, ending'[c][o], s)
    <3>1. GoesOn(o, ending[c][o], s)
      BY <1>2, <2>5
    <3>2. MayLie(o, ending[c][o])
      BY <1>6, <3>1 DEF GoesOn
    <3> QED
      BY <2>3, <2>4, <3>1, <3>2 DEF GoesOn, MayLie, Ended
  <2>7. CodeStep(c, o, k, s)
    BY <1>0, <1>1, <1>2, <1>3, <1>5, <1>6, <2>5, <2>6 DEF CodeStep
  <2> QED
    BY <2>7, CodeKeepsIInv
<1>7. CASE /\ s.broken \/ s.tx = "aborted"
           /\ ending' = Noted(ending, c, o)
           /\ UNCHANGED session
  <2>1. /\ ending' \in EndingTable
        /\ \A x \in Contexts, y \in Owners :
             ~(x = c /\ y = o) => ending'[x][y] = ending[x][y]
        /\ Failed(ending[c][o], ending'[c][o])
    BY <1>3, <1>7, FailureIsNoted
  <2>2. ASSUME o \notin refused PROVE GoesOn(o, ending'[c][o], s)
    <3>1. GoesOn(o, ending[c][o], s)
      BY <1>2, <2>2
    <3> QED
      BY <2>1, <3>1 DEF GoesOn, MayLie, Failed, Undone
  <2>3. CodeStep(c, o, k, s)
    BY <1>0, <1>1, <1>2, <1>3, <1>5, <1>7, <2>1, <2>2 DEF CodeStep
  <2> QED
    BY <2>3, CodeKeepsIInv
<1> QED
  BY <1>1, <1>4, <1>6, <1>7

(* A statement that fails, with what the server makes of its transaction.  *)
LEMMA StatementFailsKeepsIInv ==
  ASSUME IInv, NEW c \in Contexts, NEW o \in Owners, StatementFails(c, o) PROVE IInv'
<1>0. SUFFICES ASSUME NEW k, k = ConnOf(c, o), NEW s, s = session[k] PROVE IInv'
  OBVIOUS
<1>1. /\ phase[c] = "run" /\ InStack(c, o) /\ ~s.broken /\ s.tx = "open"
      /\ UNCHANGED <<stack, phase, opening, call, borrower, queue, refused, calls>>
      /\ mishaps < MaxMishaps /\ mishaps' = mishaps + 1
      /\ \/ /\ o \notin MySql
            /\ session' = [session EXCEPT ![k].tx = "aborted"]
            /\ ending' = Noted(ending, c, o)
         \/ /\ o \in MySql
            /\ ending' = Noted(ending, c, o)
            /\ UNCHANGED session
         \/ /\ o \in MySql
            /\ session' = [session EXCEPT ![k] = Closed(s)]
            /\ ending' = Noted(Settled(s.writers, "undone"), c, o)
  BY <1>0 DEF StatementFails, InStack, ConnOf, Noted
<1>2. /\ k \in Conns /\ s \in Sessions /\ \A id \in s.writers : id[2] = o
      /\ o \notin refused =>
           /\ GoesOn(o, ending[c][o], s)
           /\ InTransaction(c, o, call[c][o], s)
  BY <1>0, <1>1, CodeHolds, Records
<1>3. /\ session \in [Conns -> Sessions] /\ ending \in EndingTable
      /\ mishaps' \in 0..MaxMishaps
  BY <1>1, BoundsAssumption DEF IInv, Core, TypeOK, EndingTable
<1>4. CASE /\ ending' = Noted(ending, c, o)
           /\ \/ o \notin MySql /\ session' = [session EXCEPT ![k].tx = "aborted"]
              \/ o \in MySql /\ session' = session
  <2>1. /\ ending' \in EndingTable
        /\ \A x \in Contexts, y \in Owners :
             ~(x = c /\ y = o) => ending'[x][y] = ending[x][y]
        /\ Failed(ending[c][o], ending'[c][o])
    BY <1>3, <1>4, FailureIsNoted
  <2>2. CASE o \notin MySql /\ session' = [session EXCEPT ![k].tx = "aborted"]
    <3>1. SUFFICES ASSUME NEW t, t = [s EXCEPT !.tx = "aborted"] PROVE IInv'
      OBVIOUS
    <3>2. /\ t \in Sessions /\ t.writers = s.writers
          /\ t.tx = "aborted" /\ t.broken = s.broken /\ t.pending = s.pending
      BY <1>2, <3>1 DEF Sessions
    <3>3. session' = [session EXCEPT ![k] = t]
      BY <1>0, <1>2, <1>3, <2>2, <3>1
    <3>4. ASSUME o \notin refused
          PROVE  InTransaction(c, o, call[c][o], t) /\ GoesOn(o, ending'[c][o], t)
      <4>1. InTransaction(c, o, call[c][o], s) /\ GoesOn(o, ending[c][o], s)
        BY <1>2, <3>4
      <4>2. InTransaction(c, o, call[c][o], t)
        BY <3>2, <4>1 DEF InTransaction
      <4>3. GoesOn(o, ending'[c][o], t)
        BY <2>1, <2>2, <3>2, <4>1 DEF GoesOn, MayLie, Failed, Undone
      <4> QED
        BY <4>2, <4>3
    <3>5. CodeStep(c, o, k, t)
      BY <1>0, <1>1, <1>2, <1>3, <2>1, <3>2, <3>3, <3>4 DEF CodeStep
    <3> QED
      BY <3>5, CodeKeepsIInv
  <2>3. CASE o \in MySql /\ session' = session
    <3>1. session' = [session EXCEPT ![k] = s]
      BY <1>0, <1>2, <1>3, <2>3
    <3>2. ASSUME o \notin refused PROVE GoesOn(o, ending'[c][o], s)
      <4>1. GoesOn(o, ending[c][o], s)
        BY <1>2, <3>2
      <4> QED
        BY <2>1, <2>3, <4>1 DEF GoesOn, MayLie, Failed
    <3>3. CodeStep(c, o, k, s)
      BY <1>0, <1>1, <1>2, <1>3, <2>1, <3>1, <3>2 DEF CodeStep
    <3> QED
      BY <3>3, CodeKeepsIInv
  <2> QED
    BY <1>4, <2>2, <2>3
<1>5. CASE /\ o \in MySql /\ session' = [session EXCEPT ![k] = Closed(s)]
           /\ ending' = Noted(Settled(s.writers, "undone"), c, o)
  <2> DEFINE en == Settled(s.writers, "undone")
  <2>1. o \notin refused => s.writers \subseteq {<<c, o>>}
    BY <1>2 DEF InTransaction
  <2>2. /\ en \in EndingTable
        /\ \A x \in Contexts, y \in Owners :
             y \notin refused /\ ~(x = c /\ y = o) => en[x][y] = ending[x][y]
        /\ Ended(ending[c][o], en[c][o], "undone", ending[c][o].told)
    BY <1>2, <1>3, <2>1, SettledFew, TheAnswers
  <2>3. ending' = Noted(en, c, o)
    BY <1>5
  <2> HIDE DEF en
  <2>4. /\ ending' \in EndingTable
        /\ \A x \in Contexts, y \in Owners :
             ~(x = c /\ y = o) => ending'[x][y] = en[x][y]
        /\ Failed(en[c][o], ending'[c][o])
    BY <2>2, <2>3, FailureIsNoted
  <2>5. \A x \in Contexts, y \in Owners :
          y \notin refused /\ ~(x = c /\ y = o) => ending'[x][y] = ending[x][y]
    BY <2>2, <2>4
  <2>0. SUFFICES ASSUME NEW t, t = Closed(s) PROVE IInv'
    OBVIOUS
  <2>6. /\ t \in Sessions /\ t.writers = {}
        /\ o \notin refused => t = Fresh
    BY <1>1, <1>2, <2>0, ClosedSession DEF InTransaction
  <2>7. ASSUME o \notin refused
        PROVE  InTransaction(c, o, call[c][o], t) /\ GoesOn(o, ending'[c][o], t)
    <3>1. InTransaction(c, o, call[c][o], Fresh)
      BY Records DEF InTransaction
    <3>2. GoesOn(o, ending[c][o], s)
      BY <1>2, <2>7
    <3>3. GoesOn(o, ending'[c][o], Fresh)
      BY <1>5, <2>2, <2>4, <3>2 DEF GoesOn, MayLie, Failed, Ended
    <3> QED
      BY <2>6, <2>7, <3>1, <3>3
  <2>8. CodeStep(c, o, k, t)
    BY <1>0, <1>1, <1>2, <1>3, <1>5, <2>0, <2>4, <2>5, <2>6, <2>7 DEF CodeStep
  <2> QED
    BY <2>8, CodeKeepsIInv
<1> QED
  BY <1>1, <1>4, <1>5

(* A connection lost at any moment, whoever holds it.                      *)
LEMMA LoseConnectionKeepsIInv ==
  ASSUME IInv, NEW k \in Conns, LoseConnection(k) PROVE IInv'
<1>0. SUFFICES ASSUME NEW o, o = PoolOf[k], NEW c, c = borrower[k], NEW s, s = session[k]
               PROVE  IInv'
  OBVIOUS
<1>1. /\ c # None /\ ~s.broken
      /\ mishaps < MaxMishaps /\ mishaps' = mishaps + 1
      /\ session' = [session EXCEPT ![k] = Broken]
      /\ ending' = Settled(s.writers, "undone")
      /\ UNCHANGED <<stack, phase, opening, call, borrower, queue, refused, calls>>
  BY <1>0 DEF LoseConnection, Broken
<1>2. /\ session \in [Conns -> Sessions] /\ ending \in EndingTable
      /\ phase \in [Contexts -> Phases] /\ RestTyped
      /\ borrower \in [Conns -> Contexts \cup {None}]
      /\ mishaps' \in 0..MaxMishaps
  BY <1>1, BoundsAssumption DEF IInv, Core, TypeOK, RestTyped, EndingTable
<1>3. /\ c \in Contexts /\ o \in Owners /\ s \in Sessions
      /\ \A id \in s.writers : id[2] = o
  BY <1>0, <1>1, <1>2, PoolsAssumption DEF IInv, Truth, WritersOfPool
<1>4. o \notin refused => /\ Holds(c, o) /\ ConnOf(c, o) = k
                          /\ Fits(c, o, call[c][o], s)
                          /\ InStack(c, o) => GoesOn(o, ending[c][o], s)
                          /\ ~InStack(c, o) => ending[c][o] = Open
  BY <1>0, <1>1, <1>3 DEF IInv, Ownership, Lent, LentTo, OwnedBy, Truth, TruthOf
<1>5. ASSUME o \notin refused
      PROVE  /\ s.writers \subseteq {<<c, o>>}
             /\ ~InStack(c, o) => s.writers = {}
  <2>1. s # Broken
    BY <1>1, Records
  <2>2. AboutToBegin(o, call[c][o]).writers = {}
    BY DEF AboutToBegin, Fresh
  <2> QED
    BY <1>4, <1>5, <2>1, <2>2, Records DEF Fits, InTransaction
<1> DEFINE en == Settled(s.writers, "undone")
<1>6. /\ en \in EndingTable
      /\ \A x \in Contexts, y \in Owners :
           y \notin refused /\ ~(x = c /\ y = o) => en[x][y] = ending[x][y]
      /\ Ended(ending[c][o], en[c][o], "undone", ending[c][o].told)
  BY <1>2, <1>3, <1>5, SettledFew, TheAnswers
<1>7. \A x \in Contexts, y \in Owners :
        /\ <<x, y>> \notin s.writers => en[x][y] = ending[x][y]
        /\ <<x, y>> \in s.writers => FateOf(ending[x][y], en[x][y], {"undone"})
  BY <1>2, SettledSettles, TheAnswers
<1>8. ending' = en
  BY <1>1
<1> HIDE DEF en
<1>9. /\ ending' \in EndingTable
      /\ \A x \in Contexts, y \in Owners :
           y \notin refused /\ ~(x = c /\ y = o) => ending'[x][y] = ending[x][y]
  BY <1>6, <1>8
<1>10. ASSUME o \notin refused, InStack(c, o) PROVE GoesOn(o, ending'[c][o], Broken)
  <2>1. GoesOn(o, ending[c][o], s)
    BY <1>4, <1>10
  <2> QED
    BY <1>6, <1>8, <2>1, Records DEF GoesOn, MayLie, Undone, Ended
<1>11. ASSUME o \notin refused, ~InStack(c, o) PROVE ending'[c][o] = Open
  <2>1. <<c, o>> \notin s.writers
    BY <1>5, <1>11
  <2> QED
    BY <1>3, <1>4, <1>7, <1>8, <1>11, <2>1
<1>12. /\ session' \in [Conns -> Sessions] /\ session'[k] = Broken
       /\ \A l \in Conns \ {k} : session'[l] = session[l]
  BY <1>1, <1>2, Records
<1>13. RestTyped'
  BY <1>1, <1>2, <1>9, <1>12 DEF RestTyped, EndingTable
<1>14. Fits(c, o, call[c][o], session[k])'
  BY <1>12 DEF Fits
<1>15. \A id \in session'[k].writers : id[2] = o
  BY <1>12, Records
<1>16. WorksOn(c, o, k)
  BY <1>0, <1>1, <1>2, <1>4, <1>9, <1>10, <1>11, <1>12, <1>13, <1>14, <1>15 DEF WorksOn
<1> QED
  BY <1>3, <1>16, WorkKeepsIInv

(* BEGIN succeeds: the pool of the call enters the stack.                  *)
LEMMA BegunKeepsIInv ==
  ASSUME IInv, NEW c \in Contexts, NEW o, o = opening[c], NEW k, k = ConnOf(c, o),
         NEW s, s = session[k], phase[c] = "begin", ~s.broken,
         session' = [session EXCEPT ![k] = Begun(o, call[c][o].level, s)],
         stack' = [stack EXCEPT ![c] = Append(@, o)],
         phase' = [phase EXCEPT ![c] = "run"],
         opening' = [opening EXCEPT ![c] = None],
         UNCHANGED <<call, ending, borrower, queue, refused, calls, mishaps>>
  PROVE  IInv'
<1>0. SUFFICES ASSUME NEW t, t = Begun(o, call[c][o].level, s) PROVE IInv'
  OBVIOUS
<1>1. phase[c] \in Opening \ {"queued"}
  BY DEF Opening
<1>2. /\ o \in Owners /\ Holds(c, o) /\ k \in Conns /\ PoolOf[k] = o
      /\ ~InStack(c, o) /\ s \in Sessions /\ \A id \in s.writers : id[2] = o
      /\ o \notin refused =>
           /\ borrower[k] = c /\ ending[c][o] = Open
           /\ s = Broken \/ s = AboutToBegin(o, call[c][o])
  BY <1>1, OpeningHolds
<1>3. /\ stack \in [Contexts -> Seq(Owners)] /\ opening \in [Contexts -> Owners \cup {None}]
      /\ session \in [Conns -> Sessions] /\ phase \in [Contexts -> Phases]
      /\ RestTyped /\ call[c][o] \in Calls /\ "run" \in Phases
      /\ None \notin Owners \cup Contexts
      /\ \A y \in Owners :
           Elements(queue[y]) = {x \in Contexts : phase[x] = "queued" /\ opening[x] = y}
  BY <1>2, NoneAssumption DEF IInv, Core, TypeOK, RestTyped, Phases
<1>4. /\ Append(stack[c], o) \in Seq(Owners) /\ IsInjective(Append(stack[c], o))
      /\ Elements(Append(stack[c], o)) = Elements(stack[c]) \cup {o}
  <2>1. stack[c] \in Seq(Owners) /\ IsInjective(stack[c]) /\ o \notin Elements(stack[c])
    BY <1>2, <1>3 DEF IInv, Core, Shape, InStack
  <2> QED
    BY <1>2, <2>1, LastJoins
<1>5. \A x \in Contexts :
        /\ stack'[x] = IF x = c THEN Append(stack[c], o) ELSE stack[x]
        /\ opening'[x] = IF x = c THEN None ELSE opening[x]
        /\ phase'[x] = IF x = c THEN "run" ELSE phase[x]
  BY <1>3
<1>6. ASSUME NEW x \in Contexts, NEW y \in Owners
      PROVE  /\ InStack(x, y)' <=> InStack(x, y) \/ (x = c /\ y = o)
             /\ Holds(x, y)' <=> Holds(x, y)
             /\ ConnOf(x, y)' = ConnOf(x, y)
  <2>1. InStack(x, y)' <=> InStack(x, y) \/ (x = c /\ y = o)
    BY <1>4, <1>5 DEF InStack
  <2>2. CASE x = c
    BY <1>4, <1>5, <2>1, <2>2 DEF Holds, InStack, ConnOf
  <2>3. CASE x # c
    BY <1>5, <2>1, <2>3 DEF Holds, InStack, ConnOf, Top
  <2> QED
    BY <2>1, <2>2, <2>3
<1>7. /\ t \in Sessions /\ t.writers = s.writers
      /\ o \notin refused => /\ InTransaction(c, o, call[c][o], t)
                             /\ t.tx = "open"
  <2>1. LevelOf(o, call[c][o]) \in 0..3
    BY <1>3 DEF LevelOf, Default, Calls
  <2>2. CASE s.tx # "none"
    <3>1. t = s
      BY <1>0, <2>2 DEF Begun
    <3>2. o \in refused
      BY <1>2, <2>2, Records DEF AboutToBegin, Fresh
    <3> QED
      BY <1>2, <3>1, <3>2
  <2>3. CASE s.tx = "none"
    <3>1. SUFFICES ASSUME NEW n, n = IF o \in MySql
                                     THEN IF s.pending # 0 THEN s.pending ELSE Default(o)
                                     ELSE LevelOf(o, call[c][o])
                   PROVE  /\ t \in Sessions /\ t.writers = s.writers
                          /\ o \notin refused => /\ InTransaction(c, o, call[c][o], t)
                                                 /\ t.tx = "open"
      OBVIOUS
    <3>2. n \in 0..3
      BY <1>2, <2>1, <3>1 DEF Sessions, Default
    <3>3. t = [s EXCEPT !.tx = "open", !.pending = 0, !.level = n]
      BY <1>0, <2>3, <3>1 DEF Begun, LevelOf
    <3> DEFINE u == [s EXCEPT !.tx = "open"]
               v == [u EXCEPT !.pending = 0]
               w == [v EXCEPT !.level = n]
    <3>4. u \in Sessions /\ u.tx = "open" /\ u.writers = s.writers /\ u.broken = s.broken
      BY <1>2 DEF Sessions
    <3> HIDE DEF u
    <3>5. /\ v \in Sessions /\ v.tx = u.tx /\ v.writers = u.writers /\ v.broken = u.broken
          /\ v.pending = 0
      BY <3>4 DEF Sessions
    <3> HIDE DEF v
    <3>6. /\ w \in Sessions /\ w.tx = v.tx /\ w.writers = v.writers /\ w.broken = v.broken
          /\ w.pending = v.pending /\ w.level = n
      BY <3>2, <3>5 DEF Sessions
    <3>7. t = w
      BY <3>3 DEF u, v
    <3> HIDE DEF w
    <3>8. /\ t \in Sessions /\ t.writers = s.writers /\ t.tx = "open"
          /\ t.broken = s.broken /\ t.pending = 0 /\ t.level = n
      BY <3>4, <3>5, <3>6, <3>7
    <3>9. ASSUME o \notin refused PROVE InTransaction(c, o, call[c][o], t)
      <4>1. s = AboutToBegin(o, call[c][o])
        BY <1>2, <3>9, Records
      <4>2. /\ s.writers = {}
            /\ s.pending = IF o \in MySql THEN call[c][o].level ELSE 0
        BY <4>1 DEF AboutToBegin, Fresh
      <4>3. n = LevelOf(o, call[c][o])
        BY <3>1, <4>2 DEF LevelOf
      <4> QED
        BY <3>8, <4>2, <4>3 DEF InTransaction
    <3> QED
      BY <3>8, <3>9
  <2> QED
    BY <2>2, <2>3
<1>8. /\ session' \in [Conns -> Sessions] /\ session'[k] = t
      /\ \A l \in Conns \ {k} : session'[l] = session[l]
  BY <1>0, <1>2, <1>3, <1>7
<1>9. TypeOK'
  <2>1. /\ stack' \in [Contexts -> Seq(Owners)] /\ phase' \in [Contexts -> Phases]
        /\ opening' \in [Contexts -> Owners \cup {None}]
    BY <1>3, <1>4
  <2>2. \A y \in Owners :
          Elements(queue[y]) = {x \in Contexts : phase'[x] = "queued" /\ opening'[x] = y}
    BY <1>1, <1>3, <1>5
  <2> QED
    BY <1>8, <2>1, <2>2 DEF IInv, Core, TypeOK
<1>10. Shape'
  <2>1. \A x \in Contexts :
          /\ opening'[x] # None <=> phase'[x] \in Opening
          /\ opening'[x] \notin Elements(stack'[x])
          /\ IsInjective(stack'[x])
          /\ phase'[x] \in Ending => stack'[x] # <<>>
          /\ phase'[x] = "setLevel" => opening'[x] \in MySql
    <3>1. None \notin Elements(Append(stack[c], o))
      BY <1>3, <1>4, MembersAreElements
    <3> QED
      BY <1>4, <1>5, <3>1 DEF IInv, Core, Shape, Opening, Ending
  <2> QED
    BY <2>1 DEF IInv, Core, Shape
<1>11. Linked'
  BY <1>6 DEF IInv, Core, Linked
<1>12. Lent'
  <2> SUFFICES ASSUME NEW l \in Conns, (PoolOf[l] \notin refused /\ borrower[l] # None)'
               PROVE  LentTo(l, borrower[l])'
    BY DEF Lent
  <2>1. borrower[l] \in Contexts /\ PoolOf[l] \in Owners
    BY PoolsAssumption DEF IInv, Core, TypeOK
  <2>2. LentTo(l, borrower[l])
    BY DEF IInv, Ownership, Lent
  <2> QED
    BY <1>6, <2>1, <2>2 DEF LentTo
<1>13. IdleIsClean'
  BY <1>2, <1>3, <1>8 DEF IdleIsClean, IInv, Ownership
<1>14. WritersOfPool'
  BY <1>2, <1>7, <1>8 DEF WritersOfPool, IInv, Truth
<1>15. ASSUME NEW x \in Contexts, NEW y \in Owners, y \notin refused, ~(x = c /\ y = o)
       PROVE  Untouched(x, y) /\ ending'[x][y] = ending[x][y]
  <2>1. Holds(x, y) => ConnOf(x, y) \in Conns /\ PoolOf[ConnOf(x, y)] = y
    BY DEF IInv, Core, Linked
  <2>2. ASSUME Holds(x, y) PROVE session'[ConnOf(x, y)] = session[ConnOf(x, y)]
    <3>1. CASE y = o
      <4>1. borrower[ConnOf(x, y)] = x /\ borrower[k] = c
        BY <1>2, <1>15, <2>2, <3>1 DEF IInv, Ownership, OwnedBy
      <4> QED
        BY <1>8, <1>15, <2>1, <2>2, <3>1, <4>1
    <3>2. CASE y # o
      BY <1>2, <1>8, <2>1, <2>2, <3>2
    <3> QED
      BY <3>1, <3>2
  <2>3. ASSUME Holds(x, y) PROVE InStack(x, y) \/ phase'[x] = phase[x]
    BY <1>5, <1>15, <2>3 DEF Holds, InStack
  <2>4. phase'[x] = "again" /\ y = Top(x)' => phase[x] = "again" /\ y = Top(x)
    BY <1>5 DEF Top
  <2>5. phase'[x] = "queued" /\ opening'[x] = y => phase[x] = "queued" /\ opening[x] = y
    BY <1>5
  <2> QED
    BY <1>6, <1>15, <2>2, <2>3, <2>4, <2>5 DEF Untouched
<1>16. ASSUME o \notin refused PROVE OwnedNext(c, o) /\ TruthNext(c, o)
  <2>1. /\ Holds(c, o)' /\ InStack(c, o)' /\ ConnOf(c, o)' = k
        /\ phase'[c] = "run" /\ borrower'[k] = c
    BY <1>2, <1>5, <1>6, <1>16
  <2>2. Fits(c, o, call[c][o], session[k])'
    BY <1>7, <1>8, <1>16, <2>1 DEF Fits
  <2>3. GoesOn(o, Open, t) /\ TellsTruth(o, Open)
    BY <1>7, <1>16, Records DEF GoesOn, TellsTruth, Undone
  <2>4. OwnedNext(c, o)
    BY <2>1, <2>2 DEF OwnedNext, OwnedBy
  <2>5. TruthNext(c, o)
    BY <1>2, <1>8, <1>16, <2>1, <2>3 DEF TruthNext, TruthOf
  <2> QED
    BY <2>4, <2>5
<1>17. OnlyTouches(c, o)
  BY <1>15 DEF OnlyTouches
<1>18. Core'
  BY <1>9, <1>10, <1>11 DEF Core
<1> QED
  BY <1>2, <1>12, <1>13, <1>14, <1>16, <1>17, <1>18, TouchingOneKeepsIInv

(* BEGIN or START TRANSACTION, which may fail.                             *)
LEMMA BeginKeepsIInv ==
  ASSUME IInv, NEW c \in Contexts, Begin(c) PROVE IInv'
<1>0. SUFFICES ASSUME NEW o, o = opening[c], NEW k, k = ConnOf(c, o),
                      NEW s, s = session[k], NEW l, l = call[c][o].level
               PROVE  IInv'
  OBVIOUS
<1>1. /\ phase[c] = "begin" /\ phase[c] \in Opening \ {"queued"}
      /\ \/ /\ ~s.broken
            /\ session' = [session EXCEPT ![k] = Begun(o, l, s)]
            /\ stack' = [stack EXCEPT ![c] = Append(@, o)]
            /\ phase' = [phase EXCEPT ![c] = "run"]
            /\ opening' = [opening EXCEPT ![c] = None]
            /\ UNCHANGED <<call, ending, borrower, queue, refused, calls, mishaps>>
         \/ Fails(s) /\ GiveUp(c, Unbegun(o, l, s))
  BY <1>0 DEF Begin, Opening, ConnOf
<1>2. /\ o \in Owners /\ s \in Sessions /\ \A id \in s.writers : id[2] = o
      /\ o \notin refused => s = Broken \/ s = AboutToBegin(o, call[c][o])
  BY <1>0, <1>1, OpeningHolds
<1>3. CASE Fails(s) /\ GiveUp(c, Unbegun(o, l, s))
  <2>1. AboutToBegin(o, call[c][o]) = Fresh \/ (o \in MySql /\ l # 0)
    BY <1>0 DEF AboutToBegin, Fresh
  <2>2. /\ Unbegun(o, l, s) \in Sessions /\ \A id \in Unbegun(o, l, s).writers : id[2] = o
        /\ o \notin refused => Unbegun(o, l, s) = Fresh
    BY <1>2, <2>1, Records DEF Unbegun, Returned
  <2>3. mishaps' \in 0..MaxMishaps
    BY <1>3, FailureCounts DEF IInv, Core, TypeOK
  <2> QED
    BY <1>0, <1>1, <1>3, <2>2, <2>3, GiveUpKeepsIInv
<1> QED
  BY <1>0, <1>1, <1>3, BegunKeepsIInv

(* A nested call joins: only the strictest level asked for is remembered.  *)
LEMMA JoinKeepsIInv ==
  ASSUME IInv, NEW c \in Contexts, NEW o \in Owners, NEW level \in Levels,
         Join(c, o, level)
  PROVE  IInv'
<1>0. SUFFICES ASSUME NEW r, r = [call[c][o] EXCEPT
                                    !.asked = IF level > @ THEN level ELSE @]
               PROVE  IInv'
  OBVIOUS
<1>1. /\ phase[c] = "run" /\ InStack(c, o) /\ call[c][o].level >= level
      /\ call' = [call EXCEPT ![c][o].asked = IF level > @ THEN level ELSE @]
      /\ UNCHANGED <<stack, phase, opening, ending, borrower, queue, session,
                     refused, calls, mishaps>>
  BY DEF Join, InStack
<1>2. call \in [Contexts -> [Owners -> Calls]] /\ level \in 0..3
  BY LevelsAssumption DEF IInv, Core, TypeOK
<1>3. call[c][o] \in Calls /\ call[c][o].asked <= call[c][o].level
  BY <1>2 DEF IInv, Core, Linked
<1>4. /\ r \in Calls /\ r.asked <= r.level
      /\ r.level = call[c][o].level /\ r.conn = call[c][o].conn
  BY <1>0, <1>1, <1>2, <1>3 DEF Calls
<1>5. call' = [call EXCEPT ![c][o] = r]
  BY <1>0, <1>1, <1>2
<1>6. /\ call' \in [Contexts -> [Owners -> Calls]] /\ call'[c][o] = r
      /\ \A x \in Contexts, y \in Owners : ~(x = c /\ y = o) => call'[x][y] = call[x][y]
  BY <1>2, <1>4, <1>5
<1>7. ASSUME NEW x \in Contexts, NEW y \in Owners
      PROVE  /\ InStack(x, y)' <=> InStack(x, y)
             /\ Holds(x, y)' <=> Holds(x, y)
             /\ ConnOf(x, y)' = ConnOf(x, y)
             /\ call'[x][y].asked <= call'[x][y].level
  <2>1. call[x][y].asked <= call[x][y].level
    BY DEF IInv, Core, Linked
  <2>2. InStack(x, y)' <=> InStack(x, y)
    BY <1>1 DEF InStack
  <2>3. Holds(x, y)' <=> Holds(x, y)
    BY <1>1 DEF Holds, Top
  <2> QED
    BY <1>4, <1>6, <2>1, <2>2, <2>3 DEF ConnOf
<1>8. TypeOK'
  BY <1>1, <1>6 DEF IInv, Core, TypeOK
<1>9. Shape'
  BY <1>1 DEF IInv, Core, Shape
<1>10. Linked'
  BY <1>7 DEF IInv, Core, Linked
<1>11. IdleIsClean' /\ WritersOfPool'
  BY <1>1 DEF IInv, Ownership, Truth, IdleIsClean, WritersOfPool
<1>12. Lent'
  <2> SUFFICES ASSUME NEW l \in Conns, (PoolOf[l] \notin refused /\ borrower[l] # None)'
               PROVE  LentTo(l, borrower[l])'
    BY DEF Lent
  <2>1. borrower[l] \in Contexts /\ PoolOf[l] \in Owners
    BY <1>1, PoolsAssumption DEF IInv, Core, TypeOK
  <2>2. LentTo(l, borrower[l]) /\ borrower' = borrower
    BY <1>1 DEF IInv, Ownership, Lent
  <2> QED
    BY <1>7, <2>1, <2>2 DEF LentTo
<1>13. ASSUME NEW x \in Contexts, NEW y \in Owners, y \notin refused, ~(x = c /\ y = o)
       PROVE  Untouched(x, y) /\ ending'[x][y] = ending[x][y]
  BY <1>1, <1>6, <1>7, <1>13 DEF Untouched, Top
<1>14. ASSUME o \notin refused PROVE OwnedNext(c, o) /\ TruthNext(c, o)
  <2>1. OwnedBy(c, o) /\ TruthOf(c, o)
    BY DEF IInv, Ownership, Truth
  <2>2. /\ Holds(c, o) /\ Holds(c, o)' /\ InStack(c, o)' /\ ConnOf(c, o)' = ConnOf(c, o)
        /\ phase'[c] = "run" /\ session' = session /\ borrower' = borrower /\ ending' = ending
    BY <1>1, <1>7 DEF Holds, InStack
  <2>3. InTransaction(c, o, call[c][o], session[ConnOf(c, o)]) =>
          InTransaction(c, o, call'[c][o], session[ConnOf(c, o)])
    BY <1>4, <1>6 DEF InTransaction, LevelOf
  <2>4. \/ session[ConnOf(c, o)] = Broken
        \/ InTransaction(c, o, call[c][o], session[ConnOf(c, o)])
    BY <1>1, <1>14, <2>1, <2>2 DEF OwnedBy, Fits
  <2>5. OwnedNext(c, o)
    BY <1>1, <1>14, <2>1, <2>2, <2>3, <2>4 DEF OwnedNext, OwnedBy, Fits
  <2>6. TruthNext(c, o)
    BY <1>1, <1>14, <2>1, <2>2 DEF TruthNext, TruthOf
  <2> QED
    BY <2>5, <2>6
<1>15. OnlyTouches(c, o)
  BY <1>13 DEF OnlyTouches
<1>16. Core'
  BY <1>8, <1>9, <1>10 DEF Core
<1> QED
  BY <1>1, <1>11, <1>12, <1>14, <1>15, <1>16, TouchingOneKeepsIInv

(* A lost COMMIT's call has no connection to roll back.                    *)
LEMMA NothingToRollBack ==
  ASSUME IInv, NEW c \in Contexts, Rollback(c), ConnOf(c, Top(c)) = None PROVE IInv'
<1>0. SUFFICES ASSUME NEW o, o = Top(c),
                      NEW st, st = SubSeq(stack[c], 1, Len(stack[c]) - 1)
               PROVE  IInv'
  OBVIOUS
<1>1. /\ phase[c] \in {"rollback", "again"} /\ phase[c] \in Ending
      /\ stack' = [stack EXCEPT ![c] = st]
      /\ phase' = [phase EXCEPT ![c] = "run"]
      /\ ending' = Tell(ending, c, o, "rejected")
      /\ call' = [call EXCEPT ![c][o] = NoCall]
      /\ UNCHANGED <<opening, borrower, queue, session, refused, calls, mishaps>>
  BY <1>0 DEF Rollback, Ending, Return, ConnOf, Pop
<1>2. /\ o \in Owners /\ InStack(c, o) /\ opening[c] = None
      /\ ConnOf(c, o) = None /\ None \notin Conns
      /\ phase[c] # "again" => ConnOf(c, o) \in Conns
      /\ phase[c] = "again" /\ o \notin refused =>
           \/ MayLie(o, ending[c][o]) \/ ending[c][o].lostAck
           \/ Undone(ending[c][o])
  BY <1>0, <1>1, TopHolds, NoneAssumption
<1>3. phase[c] = "again"
  BY <1>1, <1>2
<1>4. /\ stack \in [Contexts -> Seq(Owners)] /\ phase \in [Contexts -> Phases]
      /\ call \in [Contexts -> [Owners -> Calls]] /\ ending \in EndingTable
      /\ "run" \in Phases /\ NoCall \in Calls
      /\ NoCall.conn = None /\ NoCall.asked <= NoCall.level
  BY Records DEF IInv, Core, TypeOK, EndingTable, Phases
<1>5. /\ st \in Seq(Owners) /\ IsInjective(st)
      /\ Elements(st) = Elements(stack[c]) \ {o}
  <2>1. stack[c] \in Seq(Owners) /\ IsInjective(stack[c]) /\ stack[c] # <<>>
    BY <1>1 DEF IInv, Core, TypeOK, Shape
  <2> QED
    BY <1>0, <2>1, LastLeaves DEF Top
<1>6. /\ \A x \in Contexts :
           /\ stack'[x] = IF x = c THEN st ELSE stack[x]
           /\ phase'[x] = IF x = c THEN "run" ELSE phase[x]
      /\ \A x \in Contexts, y \in Owners :
           call'[x][y] = IF x = c /\ y = o THEN NoCall ELSE call[x][y]
      /\ call' \in [Contexts -> [Owners -> Calls]]
  BY <1>1, <1>2, <1>4
<1>7. /\ ending' \in EndingTable
      /\ \A x \in Contexts, y \in Owners :
           ~(x = c /\ y = o) => ending'[x][y] = ending[x][y]
      /\ AnswerOf(ending[c][o], ending'[c][o], "rejected")
  BY <1>1, <1>2, <1>4, TellTells, TheAnswers
<1>8. ASSUME NEW x \in Contexts, NEW y \in Owners
      PROVE  /\ InStack(x, y)' <=> InStack(x, y) /\ ~(x = c /\ y = o)
             /\ Holds(x, y)' <=> Holds(x, y)
  <2>1. InStack(x, y)' <=> InStack(x, y) /\ ~(x = c /\ y = o)
    BY <1>5, <1>6 DEF InStack
  <2>2. CASE x = c
    BY <1>0, <1>3, <1>6, <2>1, <2>2 DEF Holds, InStack
  <2>3. CASE x # c
    BY <1>1, <1>6, <2>1, <2>3 DEF Holds, Top
  <2> QED
    BY <2>1, <2>2, <2>3
<1>9. ~Holds(c, o)
  BY <1>0, <1>3 DEF Holds
<1>10. TypeOK'
  <2>1. /\ stack' \in [Contexts -> Seq(Owners)] /\ phase' \in [Contexts -> Phases]
    BY <1>1, <1>4, <1>5
  <2>2. \A x \in Contexts : phase'[x] = "queued" <=> phase[x] = "queued"
    BY <1>3, <1>6
  <2> QED
    BY <1>1, <1>6, <1>7, <2>1, <2>2 DEF IInv, Core, TypeOK, EndingTable
<1>11. Shape'
  <2>1. \A x \in Contexts :
          /\ opening'[x] # None <=> phase'[x] \in Opening
          /\ opening'[x] \notin Elements(stack'[x])
          /\ IsInjective(stack'[x])
          /\ phase'[x] \in Ending => stack'[x] # <<>>
          /\ phase'[x] = "setLevel" => opening'[x] \in MySql
    BY <1>1, <1>2, <1>5, <1>6 DEF IInv, Core, Shape, Opening, Ending
  <2> QED
    BY <1>1, <2>1 DEF IInv, Core, Shape
<1>12. Linked'
  <2>1. ASSUME NEW x \in Contexts, NEW y \in Owners
        PROVE  /\ ConnOf(x, y)' \in Conns => PoolOf[ConnOf(x, y)'] = y
               /\ Holds(x, y)' => ConnOf(x, y)' \in Conns
               /\ call'[x][y].asked <= call'[x][y].level
    <3>1. CASE x = c /\ y = o
      BY <1>2, <1>4, <1>6, <1>8, <1>9, <3>1 DEF ConnOf
    <3>2. CASE ~(x = c /\ y = o)
      BY <1>6, <1>8, <3>2 DEF ConnOf, IInv, Core, Linked
    <3> QED
      BY <3>1, <3>2
  <2> QED
    BY <2>1 DEF Linked, ConnOf
<1>13. IdleIsClean' /\ WritersOfPool'
  BY <1>1 DEF IInv, Ownership, Truth, IdleIsClean, WritersOfPool
<1>14. Lent'
  <2> SUFFICES ASSUME NEW l \in Conns, (PoolOf[l] \notin refused /\ borrower[l] # None)'
               PROVE  LentTo(l, borrower[l])'
    BY DEF Lent
  <2>1. borrower[l] \in Contexts /\ PoolOf[l] \in Owners
    BY <1>1, PoolsAssumption DEF IInv, Core, TypeOK
  <2>2. LentTo(l, borrower[l]) /\ borrower' = borrower
    BY <1>1 DEF IInv, Ownership, Lent
  <2>3. ~(borrower[l] = c /\ PoolOf[l] = o)
    BY <1>9, <2>2 DEF LentTo
  <2> QED
    BY <1>6, <1>8, <2>1, <2>2, <2>3 DEF LentTo, ConnOf
<1>15. ASSUME NEW x \in Contexts, NEW y \in Owners, y \notin refused, ~(x = c /\ y = o)
       PROVE  Untouched(x, y) /\ ending'[x][y] = ending[x][y]
  <2>1. Holds(x, y) => InStack(x, y) \/ phase'[x] = phase[x]
    BY <1>3, <1>6 DEF Holds, InStack
  <2>2. phase'[x] = "again" /\ y = Top(x)' => phase[x] = "again" /\ y = Top(x)
    BY <1>6 DEF Top
  <2>3. phase'[x] = "queued" /\ opening'[x] = y => phase[x] = "queued" /\ opening[x] = y
    BY <1>1, <1>6
  <2> QED
    BY <1>1, <1>6, <1>7, <1>8, <1>15, <2>1, <2>2, <2>3 DEF Untouched
<1>16. ASSUME o \notin refused PROVE OwnedNext(c, o) /\ TruthNext(c, o)
  <2>1. ~Holds(c, o)' /\ phase'[c] = "run"
    BY <1>2, <1>6, <1>8, <1>9
  <2>2. TellsTruth(o, ending'[c][o])
    BY <1>2, <1>3, <1>7, <1>16 DEF TellsTruth, AnswerOf, MayLie, Undone
  <2> QED
    BY <2>1, <2>2 DEF OwnedNext, OwnedBy, TruthNext, TruthOf
<1>17. OnlyTouches(c, o)
  BY <1>15 DEF OnlyTouches
<1>18. Core'
  BY <1>10, <1>11, <1>12 DEF Core
<1> QED
  BY <1>1, <1>2, <1>13, <1>14, <1>16, <1>17, <1>18, TouchingOneKeepsIInv

(* A call starts with record r: it gets an idle connection and goes on in  *)
(* phase p, or it queues.                                                  *)
Starts(c, o, p, r) ==
  /\ phase[c] = "run" /\ ~InStack(c, o)
  /\ opening' = [opening EXCEPT ![c] = o]
  /\ phase' = [phase EXCEPT ![c] = p] /\ p \in Opening
  /\ p = "begin" => o \notin MySql \/ r.level = 0
  /\ p = "setLevel" => o \in MySql
  /\ call' = [call EXCEPT ![c][o] = r]
  /\ r \in Calls /\ r.asked <= r.level
  /\ p = "queued" => r.conn = None /\ UNCHANGED borrower
  /\ p # "queued" => /\ r.conn \in Conns /\ PoolOf[r.conn] = o
                     /\ borrower[r.conn] = None
                     /\ borrower' = [borrower EXCEPT ![r.conn] = c]
  /\ queue' = IF p = "queued" THEN [queue EXCEPT ![o] = Append(@, c)] ELSE queue
  /\ ending' = IF stack[c] = <<>> THEN [ending EXCEPT ![c] = [y \in Owners |-> Open]]
               ELSE [ending EXCEPT ![c][o] = Open]
  /\ calls' \in [Contexts -> 0..MaxCalls]
  /\ UNCHANGED <<stack, session, refused, mishaps>>

(* A call begins: it borrows an idle connection or queues for one.         *)
LEMMA StartKeepsIInv ==
  ASSUME IInv, NEW c \in Contexts, NEW o \in Owners, NEW p, NEW r, Starts(c, o, p, r)
  PROVE  IInv'
<1>1. /\ phase[c] = "run" /\ ~InStack(c, o)
      /\ p \in Opening
      /\ p = "begin" => o \notin MySql \/ r.level = 0
      /\ p = "setLevel" => o \in MySql
      /\ r \in Calls /\ r.asked <= r.level
      /\ p = "queued" => r.conn = None /\ borrower' = borrower
      /\ p # "queued" => /\ r.conn \in Conns /\ PoolOf[r.conn] = o
                         /\ borrower[r.conn] = None
                         /\ borrower' = [borrower EXCEPT ![r.conn] = c]
      /\ stack' = stack /\ session' = session /\ refused' = refused /\ mishaps' = mishaps
      /\ calls' \in [Contexts -> 0..MaxCalls]
  BY DEF Starts
<1>2. /\ opening' = [opening EXCEPT ![c] = o]
      /\ phase' = [phase EXCEPT ![c] = p]
      /\ call' = [call EXCEPT ![c][o] = r]
      /\ queue' = IF p = "queued" THEN [queue EXCEPT ![o] = Append(@, c)] ELSE queue
      /\ ending' = IF stack[c] = <<>> THEN [ending EXCEPT ![c] = [y \in Owners |-> Open]]
                   ELSE [ending EXCEPT ![c][o] = Open]
  BY DEF Starts
<1>3. /\ phase \in [Contexts -> Phases] /\ opening \in [Contexts -> Owners \cup {None}]
      /\ call \in [Contexts -> [Owners -> Calls]] /\ ending \in EndingTable
      /\ borrower \in [Conns -> Contexts \cup {None}]
      /\ queue \in [Owners -> Seq(Contexts)]
      /\ stack \in [Contexts -> Seq(Owners)] /\ session \in [Conns -> Sessions]
      /\ None \notin Conns \cup Contexts \cup Owners
      /\ p \in Phases /\ Open \in Endings
      /\ \A y \in Owners :
           Elements(queue[y]) = {x \in Contexts : phase[x] = "queued" /\ opening[x] = y}
  BY <1>1, NoneAssumption, Records DEF IInv, Core, TypeOK, EndingTable, Opening, Phases
<1>4. opening[c] = None /\ \A x \in Contexts : opening[x] # None <=> phase[x] \in Opening
  BY <1>1 DEF IInv, Core, Shape, Opening
<1>5. /\ \A x \in Contexts :
           /\ phase'[x] = IF x = c THEN p ELSE phase[x]
           /\ opening'[x] = IF x = c THEN o ELSE opening[x]
      /\ \A x \in Contexts, y \in Owners :
           call'[x][y] = IF x = c /\ y = o THEN r ELSE call[x][y]
      /\ call' \in [Contexts -> [Owners -> Calls]]
      /\ phase' \in [Contexts -> Phases] /\ opening' \in [Contexts -> Owners \cup {None}]
  BY <1>1, <1>2, <1>3
<1>6. \A l \in Conns : borrower'[l] = IF l = r.conn THEN c ELSE borrower[l]
  BY <1>1, <1>3
<1>7. borrower' \in [Conns -> Contexts \cup {None}]
  BY <1>1, <1>3
<1>8. /\ queue' \in [Owners -> Seq(Contexts)]
      /\ \A y \in Owners :
           /\ IsInjective(queue'[y])
           /\ Elements(queue'[y]) = IF y = o /\ p = "queued" THEN Elements(queue[y]) \cup {c}
                                    ELSE Elements(queue[y])
  <2>1. \A y \in Owners : IsInjective(queue[y])
    BY DEF IInv, Core, Shape
  <2>2. CASE p = "queued"
    <3>1. c \notin Elements(queue[o])
      BY <1>1, <1>3
    <3>2. /\ Append(queue[o], c) \in Seq(Contexts) /\ IsInjective(Append(queue[o], c))
          /\ Elements(Append(queue[o], c)) = Elements(queue[o]) \cup {c}
      BY <1>3, <2>1, <3>1, LastJoins
    <3>3. queue' = [queue EXCEPT ![o] = Append(queue[o], c)]
      BY <1>2, <2>2
    <3> QED
      BY <1>3, <2>1, <2>2, <3>2, <3>3
  <2>3. CASE p # "queued"
    BY <1>2, <1>3, <2>1, <2>3
  <2> QED
    BY <2>2, <2>3
<1>9. /\ ending' \in EndingTable /\ ending'[c][o] = Open
      /\ \A x \in Contexts, y \in Owners :
           ending'[x][y] = ending[x][y] \/ (ending'[x][y] = Open /\ x = c /\ stack[c] = <<>>)
             \/ (x = c /\ y = o)
  <2>1. CASE stack[c] = <<>>
    <3>1. ending' = [ending EXCEPT ![c] = [y \in Owners |-> Open]]
      BY <1>2, <2>1
    <3> QED
      BY <1>3, <2>1, <3>1 DEF EndingTable
  <2>2. CASE stack[c] # <<>>
    <3>1. ending' = [ending EXCEPT ![c][o] = Open]
      BY <1>2, <2>2
    <3> QED
      BY <1>3, <3>1 DEF EndingTable
  <2> QED
    BY <2>1, <2>2
<1>10. ~Holds(c, o) /\ (stack[c] = <<>> => \A y \in Owners : ~Holds(c, y))
  <2>1. Elements(<<>>) = {}
    BY DEF Elements
  <2> QED
    BY <1>1, <2>1 DEF Holds, InStack
<1>11. ASSUME NEW x \in Contexts, NEW y \in Owners
       PROVE  /\ InStack(x, y)' <=> InStack(x, y)
              /\ Holds(x, y)' <=> Holds(x, y) \/ (x = c /\ y = o /\ p # "queued")
  <2>1. InStack(x, y)' <=> InStack(x, y)
    BY <1>1 DEF InStack
  <2>2. CASE x = c
    BY <1>1, <1>5, <2>1, <2>2 DEF Holds, InStack, Opening
  <2>3. CASE x # c
    BY <1>1, <1>5, <2>1, <2>3 DEF Holds, Top
  <2> QED
    BY <2>1, <2>2, <2>3
<1>12. TypeOK'
  <2>1. ASSUME NEW y \in Owners
        PROVE  Elements(queue'[y]) = {x \in Contexts : phase'[x] = "queued" /\ opening'[x] = y}
    <3>1. Elements(queue[y]) = {x \in Contexts : phase[x] = "queued" /\ opening[x] = y}
      BY <1>3
    <3>2. \A x \in Contexts :
            phase'[x] = "queued" /\ opening'[x] = y <=>
              \/ phase[x] = "queued" /\ opening[x] = y
              \/ x = c /\ y = o /\ p = "queued"
      BY <1>1, <1>5
    <3>3. Elements(queue'[y]) = IF y = o /\ p = "queued" THEN Elements(queue[y]) \cup {c}
                                ELSE Elements(queue[y])
      BY <1>8
    <3>4. CASE y = o /\ p = "queued"
      BY <3>1, <3>2, <3>3, <3>4
    <3>5. CASE ~(y = o /\ p = "queued")
      BY <3>1, <3>2, <3>3, <3>5
    <3> QED
      BY <3>4, <3>5
  <2> QED
    BY <1>1, <1>5, <1>7, <1>8, <1>9, <2>1 DEF IInv, Core, TypeOK, EndingTable
<1>13. Shape'
  <2>1. \A x \in Contexts :
          /\ opening'[x] # None <=> phase'[x] \in Opening
          /\ opening'[x] \notin Elements(stack'[x])
          /\ IsInjective(stack'[x])
          /\ phase'[x] \in Ending => stack'[x] # <<>>
          /\ phase'[x] = "setLevel" => opening'[x] \in MySql
    BY ZenonT(60), <1>1, <1>3, <1>5 DEF IInv, Core, Shape, Opening, Ending, InStack
  <2> QED
    BY <1>8, <2>1 DEF Shape
<1>14. Linked'
  <2>1. ASSUME NEW x \in Contexts, NEW y \in Owners
        PROVE  /\ ConnOf(x, y)' \in Conns => PoolOf[ConnOf(x, y)'] = y
               /\ Holds(x, y)' => ConnOf(x, y)' \in Conns
               /\ call'[x][y].asked <= call'[x][y].level
    <3>1. CASE x = c /\ y = o
      BY SMTT(40), <1>1, <1>3, <1>5, <1>10, <1>11, <3>1 DEF ConnOf
    <3>2. CASE ~(x = c /\ y = o)
      BY <1>5, <1>11, <3>2 DEF ConnOf, IInv, Core, Linked
    <3> QED
      BY <3>1, <3>2
  <2> QED
    BY <2>1 DEF Linked, ConnOf
<1>15. IdleIsClean' /\ WritersOfPool'
  <2>1. WritersOfPool'
    BY <1>1 DEF IInv, Truth, WritersOfPool
  <2>2. IdleIsClean'
    BY <1>1, <1>3, <1>6 DEF IInv, Ownership, IdleIsClean
  <2> QED
    BY <2>1, <2>2
<1>16. Lent'
  <2> SUFFICES ASSUME NEW l \in Conns, (PoolOf[l] \notin refused /\ borrower[l] # None)'
               PROVE  LentTo(l, borrower[l])'
    BY DEF Lent
  <2>1. PoolOf[l] \in Owners
    BY PoolsAssumption
  <2>2. CASE l = r.conn
    <3>1. borrower'[l] = c /\ PoolOf[l] = o /\ p # "queued"
      BY <1>1, <1>3, <1>6, <2>2
    <3>2. Holds(c, o)' /\ ConnOf(c, o)' = l
      BY <1>5, <1>11, <2>2, <3>1 DEF ConnOf
    <3> QED
      BY <3>1, <3>2 DEF LentTo
  <2>3. CASE l # r.conn
    <3>1. borrower'[l] = borrower[l] /\ borrower[l] \in Contexts
      BY <1>3, <1>6, <2>3
    <3>2. LentTo(l, borrower[l])
      BY <1>1, <3>1 DEF IInv, Ownership, Lent
    <3>3. ~(borrower[l] = c /\ PoolOf[l] = o)
      BY <1>10, <3>2 DEF LentTo
    <3> QED
      BY <1>5, <1>11, <2>1, <3>1, <3>2, <3>3 DEF LentTo, ConnOf
  <2> QED
    BY <2>2, <2>3
<1>17. ASSUME NEW x \in Contexts, NEW y \in Owners, y \notin refused, ~(x = c /\ y = o)
       PROVE  /\ Untouched(x, y)
              /\ ending'[x][y] = ending[x][y] \/ (ending'[x][y] = Open /\ ~Holds(x, y))
  <2>1. ending'[x][y] = ending[x][y] \/ (ending'[x][y] = Open /\ ~Holds(x, y))
    BY <1>9, <1>10, <1>17
  <2>2. ASSUME Holds(x, y) PROVE borrower'[ConnOf(x, y)] = borrower[ConnOf(x, y)]
    <3>1. borrower[ConnOf(x, y)] = x /\ ConnOf(x, y) \in Conns
      BY <1>17, <2>2 DEF IInv, Core, Linked, Ownership, OwnedBy
    <3>2. ConnOf(x, y) # r.conn
      BY <1>1, <1>3, <3>1
    <3> QED
      BY <1>6, <3>1, <3>2
  <2>3. Holds(x, y) => InStack(x, y) \/ phase'[x] = phase[x]
    BY <1>1, <1>5 DEF Holds, InStack
  <2>4. phase'[x] = "again" /\ y = Top(x)' => phase[x] = "again" /\ y = Top(x)
    BY <1>1, <1>5 DEF Top, Opening
  <2>5. phase'[x] = "queued" /\ opening'[x] = y => phase[x] = "queued" /\ opening[x] = y
    BY <1>5, <1>17
  <2> QED
    BY <1>1, <1>5, <1>11, <1>17, <2>1, <2>2, <2>3, <2>4, <2>5 DEF Untouched
<1>18. ASSUME o \notin refused PROVE OwnedNext(c, o) /\ TruthNext(c, o)
  <2>1. /\ ~InStack(c, o)' /\ phase'[c] = p /\ phase'[c] # "again"
        /\ ConnOf(c, o)' = r.conn /\ call'[c][o] = r
        /\ Holds(c, o)' <=> p # "queued"
    BY <1>1, <1>5, <1>10, <1>11 DEF ConnOf, Opening
  <2>2. ASSUME p # "queued"
        PROVE  borrower'[r.conn] = c /\ Fits(c, o, call[c][o], session[r.conn])'
    <3>1. session[r.conn] = Fresh /\ borrower'[r.conn] = c
      BY <1>1, <1>6, <1>18, <2>2 DEF IInv, Ownership, IdleIsClean
    <3>2. p = "begin" => Fresh = AboutToBegin(o, r)
      BY <1>1 DEF AboutToBegin, Fresh
    <3> QED
      BY <1>1, <2>1, <3>1, <3>2 DEF Fits
  <2>3. OwnedNext(c, o)
    BY <2>1, <2>2 DEF OwnedNext, OwnedBy, Fits
  <2>4. TellsTruth(o, Open)
    BY Records DEF TellsTruth
  <2>5. TruthNext(c, o)
    BY <1>9, <2>1, <2>4 DEF TruthNext, TruthOf
  <2> QED
    BY <2>3, <2>5
<1>19. OnlyTouches(c, o)
  BY <1>17 DEF OnlyTouches
<1>20. Core'
  BY <1>12, <1>13, <1>14 DEF Core
<1> QED
  BY <1>1, <1>15, <1>16, <1>18, <1>19, <1>20, TouchingOneKeepsIInv

(* A call begins, as a transaction or a plain statement.                   *)
LEMMA StartCallKeepsIInv ==
  ASSUME IInv, NEW c \in Contexts, NEW o \in Owners, NEW kind \in {"tx", "query"},
         NEW level \in Levels, StartCall(c, o, kind, level)
  PROVE  IInv'
<1>0. SUFFICES ASSUME NEW r, r = [kind |-> kind, level |-> level, asked |-> level,
                                  conn |-> None],
                      NEW ca, ca = [call EXCEPT ![c][o] = r]
               PROVE  IInv'
  OBVIOUS
<1>1. /\ phase[c] = "run" /\ ~InStack(c, o)
      /\ calls[c] < MaxCalls /\ calls' = [calls EXCEPT ![c] = @ + 1]
      /\ opening' = [opening EXCEPT ![c] = o]
      /\ ending' = IF stack[c] = <<>> THEN [ending EXCEPT ![c] = [y \in Owners |-> Open]]
                   ELSE [ending EXCEPT ![c][o] = Open]
      /\ Acquire(c, o, ca)
      /\ UNCHANGED <<stack, session, refused, mishaps>>
  BY <1>0 DEF StartCall, InStack
<1>2. /\ call \in [Contexts -> [Owners -> Calls]] /\ calls \in [Contexts -> 0..MaxCalls]
      /\ level \in 0..3
  BY LevelsAssumption DEF IInv, Core, TypeOK
<1>3. calls' \in [Contexts -> 0..MaxCalls]
  BY <1>1, <1>2, BoundsAssumption
<1>4. /\ r \in Calls /\ r.conn = None /\ r.asked <= r.level
  BY <1>0, <1>2 DEF Calls
<1>5. ca[c][o] = r
  BY <1>0, <1>2
<1>6. CASE /\ queue' = queue /\ phase' = [phase EXCEPT ![c] = FirstStep(o, ca[c][o])]
           /\ \E k \in Idle(o) :
                /\ borrower' = [borrower EXCEPT ![k] = c]
                /\ call' = [ca EXCEPT ![c][o].conn = k]
  <2>1. PICK k \in Idle(o) : /\ borrower' = [borrower EXCEPT ![k] = c]
                             /\ call' = [ca EXCEPT ![c][o].conn = k]
    BY <1>6
  <2>2. k \in Conns /\ PoolOf[k] = o /\ borrower[k] = None
    BY DEF Idle
  <2>3. SUFFICES ASSUME NEW q, q = [r EXCEPT !.conn = k] PROVE IInv'
    OBVIOUS
  <2>4. /\ q \in Calls /\ q.conn = k /\ q.asked = r.asked /\ q.level = r.level
        /\ q.kind = r.kind
    BY <1>4, <2>2, <2>3 DEF Calls
  <2>5. call' = [call EXCEPT ![c][o] = q]
    BY <1>0, <1>2, <2>1, <2>3
  <2>6. SUFFICES ASSUME NEW p, p = FirstStep(o, r) PROVE IInv'
    OBVIOUS
  <2>7. /\ p \in Opening /\ p # "queued"
        /\ p = "begin" => o \notin MySql \/ r.level = 0
        /\ p = "setLevel" => o \in MySql
    BY <2>6 DEF FirstStep, Opening
  <2>8. Starts(c, o, p, q)
    BY <1>1, <1>3, <1>4, <1>5, <1>6, <2>1, <2>2, <2>4, <2>5, <2>6, <2>7 DEF Starts
  <2> QED
    BY <2>8, StartKeepsIInv
<1>7. CASE /\ queue' = [queue EXCEPT ![o] = Append(@, c)]
           /\ phase' = [phase EXCEPT ![c] = "queued"]
           /\ call' = ca /\ borrower' = borrower
  <2>1. "queued" \in Opening
    BY DEF Opening
  <2>2. Starts(c, o, "queued", r)
    BY <1>0, <1>1, <1>3, <1>4, <1>7, <2>1 DEF Starts
  <2> QED
    BY <2>2, StartKeepsIInv
<1> QED
  BY <1>1, <1>6, <1>7 DEF Acquire

-----------------------------------------------------------------------------
(* The invariant                                                           *)

(* The invariant holds before the first call.                              *)
LEMMA InitEstablishesIInv ==
  ASSUME Init PROVE IInv
<1>1. /\ \A c \in Contexts : stack[c] = <<>> /\ phase[c] = "run" /\ opening[c] = None
      /\ \A c \in Contexts, o \in Owners : call[c][o] = NoCall /\ ending[c][o] = Open
      /\ \A k \in Conns : borrower[k] = None /\ session[k] = Fresh
      /\ \A o \in Owners : queue[o] = <<>>
  BY DEF Init
<1>2. Elements(<<>>) = {} /\ IsInjective(<<>>)
  BY DEF Elements, IsInjective
<1>3. None \notin Conns \cup Contexts \cup Owners
  BY NoneAssumption
<1>4. \A c \in Contexts, o \in Owners : ~InStack(c, o) /\ ~Holds(c, o)
  BY <1>1, <1>2 DEF InStack, Holds
<1>5. TypeOK
  <2>1. /\ "run" \in Phases /\ NoCall \in Calls /\ Open \in Endings /\ Fresh \in Sessions
    BY Records DEF Phases
  <2>2. \A o \in Owners :
          Elements(queue[o]) = {c \in Contexts : phase[c] = "queued" /\ opening[c] = o}
    BY <1>1, <1>2
  <2>3. /\ stack \in [Contexts -> Seq(Owners)] /\ queue \in [Owners -> Seq(Contexts)]
        /\ phase \in [Contexts -> Phases] /\ opening \in [Contexts -> Owners \cup {None}]
        /\ borrower \in [Conns -> Contexts \cup {None}]
    BY <2>1 DEF Init
  <2>4. /\ call \in [Contexts -> [Owners -> Calls]]
        /\ ending \in [Contexts -> [Owners -> Endings]]
        /\ session \in [Conns -> Sessions] /\ refused \subseteq Refusing
    BY <2>1 DEF Init
  <2>5. /\ calls \in [Contexts -> 0..MaxCalls] /\ mishaps \in 0..MaxMishaps
    BY BoundsAssumption DEF Init
  <2> QED
    BY <2>2, <2>3, <2>4, <2>5 DEF TypeOK
<1>6. Shape
  BY <1>1, <1>2, <1>3 DEF Shape, Opening, Ending
<1>7. Linked
  BY <1>1, <1>3, <1>4, Records DEF Linked, ConnOf
<1>8. Ownership
  <2>1. Lent /\ IdleIsClean
    BY <1>1 DEF Lent, IdleIsClean
  <2> QED
    BY <1>1, <1>4, <2>1 DEF Ownership, OwnedBy
<1>9. Truth
  <2>1. WritersOfPool
    BY <1>1, Records DEF WritersOfPool
  <2>2. \A o : TellsTruth(o, Open)
    BY Records DEF TellsTruth
  <2> QED
    BY <1>1, <1>4, <2>1, <2>2 DEF Truth, TruthOf
<1> QED
  BY <1>5, <1>6, <1>7, <1>8, <1>9 DEF IInv, Core

(* The invariant reads the state only.                                     *)
LEMMA StutteringKeepsIInv ==
  ASSUME IInv, UNCHANGED vars PROVE IInv'
<1>1. /\ stack' = stack /\ phase' = phase /\ opening' = opening /\ call' = call
      /\ ending' = ending /\ borrower' = borrower /\ queue' = queue
      /\ session' = session /\ refused' = refused /\ calls' = calls /\ mishaps' = mishaps
  BY DEF vars
<1>2. /\ \A c, o : (Holds(c, o)' <=> Holds(c, o)) /\ (InStack(c, o)' <=> InStack(c, o))
      /\ \A c, o : ConnOf(c, o)' = ConnOf(c, o)
      /\ \A c : Top(c)' = Top(c)
  BY <1>1 DEF Holds, InStack, ConnOf, Top
<1>3. TypeOK' /\ Shape' /\ Linked'
  BY <1>1, <1>2 DEF IInv, Core, TypeOK, Shape, Linked
<1>4. Ownership'
  BY <1>1, <1>2 DEF IInv, Ownership, OwnedBy, Fits, Lent, LentTo, IdleIsClean
<1>5. Truth'
  BY <1>1, <1>2 DEF IInv, Truth, TruthOf, WritersOfPool
<1> QED
  BY <1>3, <1>4, <1>5 DEF IInv, Core

(* Every step keeps the invariant.                                         *)
LEMMA StepKeepsIInv ==
  ASSUME IInv, [Next]_vars PROVE IInv'
<1>1. ASSUME NEW c \in Contexts, Callback(c) PROVE IInv'
  <2>1. ASSUME NEW o \in Owners, NEW kind \in {"tx", "query"}, NEW level \in Levels,
               StartCall(c, o, kind, level)
        PROVE  IInv'
    BY <2>1, StartCallKeepsIInv
  <2>2. ASSUME NEW o \in Owners, NEW level \in Levels, Join(c, o, level) PROVE IInv'
    BY <2>2, JoinKeepsIInv
  <2>3. ASSUME NEW o \in Owners, Statement(c, o) \/ StatementFails(c, o) PROVE IInv'
    BY <2>3, StatementKeepsIInv, StatementFailsKeepsIInv
  <2> QED
    BY <1>1, <2>1, <2>2, <2>3 DEF Callback
<1>2. ASSUME NEW c \in Contexts, Rollback(c) PROVE IInv'
  BY <1>2, RollbackKeepsIInv, NothingToRollBack
<1>3. ASSUME NEW c \in Contexts, AdapterStep(c) PROVE IInv'
  BY <1>2, <1>3, SetLevelKeepsIInv, BeginKeepsIInv, QueryKeepsIInv, CommitDoneKeepsIInv,
     CommitLostKeepsIInv, CommitRefusedKeepsIInv DEF AdapterStep
<1>4. ASSUME NEW c \in Contexts, Finish(c) \/ Throw(c) PROVE IInv'
  BY <1>4, CallbackEndKeepsIInv
<1>5. ASSUME NEW k \in Conns, LoseConnection(k) PROVE IInv'
  BY <1>5, LoseConnectionKeepsIInv
<1> QED
  BY <1>1, <1>3, <1>4, <1>5, StutteringKeepsIInv DEF Next

(* In every state the adapters reach, whatever fails: calls, queues and    *)
(* pools fit together, connections belong to one call, and callers are     *)
(* told the truth about their writes.                                      *)
THEOREM Inductive == Spec => []IInv
<1>1. Init => IInv
  BY InitEstablishesIInv
<1>2. IInv /\ [Next]_vars => IInv'
  BY StepKeepsIInv
<1> QED
  BY <1>1, <1>2, PTL DEF Spec

-----------------------------------------------------------------------------
(* What callers and operators of the pools rely on                         *)

(* Every state the adapters reach is well formed; in particular exactly    *)
(* the contexts that await getConnection are in the queue of the pool they *)
(* asked.                                                                  *)
THEOREM TypeCorrect == Spec => []TypeOK
<1>1. IInv => TypeOK
  BY DEF IInv, Core
<1> QED
  BY <1>1, Inductive, PTL

(* A call of withTransaction has its connection to itself from             *)
(* getConnection to release(), however many calls wait for one, whichever  *)
(* connections are lost and whatever transactions of other pools are       *)
(* nested in it, on every pool that has refused no COMMIT.                 *)
THEOREM ConnectionsAreDedicated == Spec => []DedicatedConnection
<1>1. ASSUME IInv, NEW c \in Contexts, NEW o \in Owners \ refused, Holds(c, o)
      PROVE  Dedicated(c, o)
  <2>1. /\ borrower[ConnOf(c, o)] = c
        /\ Fits(c, o, call[c][o], session[ConnOf(c, o)])
    BY <1>1 DEF IInv, Ownership, OwnedBy
  <2>2. AboutToBegin(o, call[c][o]).writers = {}
    BY DEF AboutToBegin, Fresh
  <2> QED
    BY <2>1, <2>2, Records DEF Dedicated, Fits, InTransaction, ConnOf
<1>2. IInv => DedicatedConnection
  BY <1>1 DEF DedicatedConnection
<1> QED
  BY <1>2, Inductive, PTL

(* Nothing of a call is left on the connection it gives back: the next     *)
(* borrower finds no open transaction and no one-shot isolation level.     *)
THEOREM IdleConnectionsAreClean == Spec => []IdleIsClean
<1>1. IInv => IdleIsClean
  BY DEF IInv, Ownership
<1> QED
  BY <1>1, Inductive, PTL

(* A transaction runs at the isolation level its call asked for, which is  *)
(* at least as strict as any nested call that joined it asked for.         *)
THEOREM LevelsAreAsked == Spec => []LevelIsAsked
<1>1. ASSUME IInv, NEW c \in Contexts, NEW o \in Owners \ refused,
             Holds(c, o), InStack(c, o), session[ConnOf(c, o)].tx = "open"
      PROVE  /\ session[ConnOf(c, o)].level = LevelOf(o, call[c][o])
             /\ session[ConnOf(c, o)].level >= call[c][o].asked
  <2>1. Fits(c, o, call[c][o], session[ConnOf(c, o)])
    BY <1>1 DEF IInv, Ownership, OwnedBy
  <2>2. session[ConnOf(c, o)].level = LevelOf(o, call[c][o])
    BY <1>1, <2>1, Records DEF Fits, InTransaction
  <2>3. call[c][o] \in Calls /\ call[c][o].asked <= call[c][o].level
    BY <1>1 DEF IInv, Core, TypeOK, Linked
  <2>4. LevelOf(o, call[c][o]) >= call[c][o].asked
    BY <2>3 DEF LevelOf, Default, Calls
  <2> QED
    BY <2>2, <2>4
<1>2. IInv => LevelIsAsked
  BY <1>1 DEF LevelIsAsked, InStack, ConnOf, LevelOf
<1> QED
  BY <1>2, Inductive, PTL

(* Whatever fails, and wherever: a call that resolved has committed all of *)
(* its writes and one that was rejected none, but for the exceptions the   *)
(* property names, on every pool that has refused no COMMIT.               *)
THEOREM CallersAreToldTheTruth == Spec => []ToldTheTruth
<1>1. ASSUME IInv, NEW c \in Contexts, NEW o \in Owners \ refused
      PROVE  TellsTruth(o, ending[c][o])
  BY <1>1 DEF IInv, Truth, TruthOf
<1>2. IInv => ToldTheTruth
  BY <1>1 DEF ToldTheTruth, TellsTruth, MayLie, Undone
<1> QED
  BY <1>2, Inductive, PTL

=============================================================================
