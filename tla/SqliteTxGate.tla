---------------------------- MODULE SqliteTxGate ----------------------------
(***************************************************************************)
(* The transaction gate of the SQLite adapter: one logical mutex in front  *)
(* of the one synchronous connection a driver owns.                        *)
(*                                                                         *)
(* Source: packages/db-sqlite/src/tx-gate.ts, the transaction primitives   *)
(* of packages/db-sqlite/src/sqlite-adapter.ts and withTransaction of      *)
(* packages/db/src/base-adapter.ts.                                        *)
(*                                                                         *)
(* The program runs on one JavaScript thread.  A process here is an async  *)
(* context (a request).  Whatever a context does next is a job in the FIFO *)
(* microtask queue `jobs`; a job runs to completion, so an action below is *)
(* a whole synchronous segment between two `await`s.  A timer callback     *)
(* runs only when the microtask queue is empty.                            *)
(***************************************************************************)
EXTENDS Naturals, Sequences, SequencesExt

CONSTANTS
  Ctx,          \* async contexts that use one driver
  NoCtx,        \* "nobody"
  MaxCalls,     \* bound: top-level calls a context makes
  Failures,     \* statements that may throw, a subset of FailureKinds
  HasWaitTimeout \* BOOLEAN: transactionWaitTimeoutMs is set

FailureKinds == {"begin", "commit"}

ASSUME CtxAssumption == NoCtx \notin Ctx
ASSUME MaxCallsAssumption == MaxCalls \in Nat
ASSUME FailuresAssumption == Failures \subseteq FailureKinds
ASSUME HasWaitTimeoutAssumption == HasWaitTimeout \in BOOLEAN

VARIABLES
  held,     \* SqliteTxGate.held
  waiters,  \* SqliteTxGate._waiters: contexts whose next() is pending
  jobs,     \* the microtask queue: contexts with a continuation to run
  pc,       \* where each context is
  kind,     \* what the context's current call is
  owns,     \* the context must release the gate (SqliteTxState._holdsGate,
            \* or a runExclusive frame that has acquired)
  engine,   \* whose SQL transaction is open on the connection, or NoCtx
  fate,     \* what became of the context's last plain statement
  calls     \* top-level calls made by each context

vars == <<held, waiters, jobs, pc, kind, owns, engine, fate, calls>>

Kinds == {"stmt", "tx", "excl"}

(* "idle"      application code outside any call of this adapter           *)
(* "call"      a job: make the call                                        *)
(* "waiting"   in `waiters`                                                *)
(* "woken"     a job: re-check `held` after a wake-up                      *)
(* "begin"     a job: the gate is taken, execute BEGIN IMMEDIATE           *)
(* "tx"        application code inside the transaction                     *)
(* "txStmt", "commit", "fail"  jobs: the next step of that code            *)
(* "rollback"  a job: COMMIT has thrown, the catch block rolls back        *)
(* "excl"      application code inside an exclusive hold                   *)
(* "exclStmt", "exclEnd"  jobs: the next step of that code                 *)
Jobs == {"call", "woken", "begin", "txStmt", "commit", "fail", "rollback",
         "exclStmt", "exclEnd"}
Phases == Jobs \cup {"idle", "waiting", "tx", "excl"}
Fates == {"none", "durable", "open", "lost"}

TypeOK ==
  /\ held \in BOOLEAN
  /\ waiters \in Seq(Ctx)
  /\ jobs \in Seq(Ctx)
  /\ pc \in [Ctx -> Phases]
  /\ kind \in [Ctx -> Kinds]
  /\ owns \in [Ctx -> BOOLEAN]
  /\ engine \in Ctx \cup {NoCtx}
  /\ fate \in [Ctx -> Fates]
  /\ calls \in [Ctx -> Nat]

Init ==
  /\ held = FALSE
  /\ waiters = <<>>
  /\ jobs = <<>>
  /\ pc = [c \in Ctx |-> "idle"]
  /\ kind = [c \in Ctx |-> "stmt"]
  /\ owns = [c \in Ctx |-> FALSE]
  /\ engine = NoCtx
  /\ fate = [c \in Ctx |-> "none"]
  /\ calls = [c \in Ctx |-> 0]

-----------------------------------------------------------------------------
(* Helpers *)

Running(c, p) == jobs # <<>> /\ c = Head(jobs) /\ pc[c] = p

Goto(c, p) == pc' = [pc EXCEPT ![c] = p]

(* Mutant: only the first waiter is woken, the list is forgotten anyway.   *)
ReleaseWakesFirst(c, p, after) ==
  /\ held' = FALSE
  /\ owns' = [owns EXCEPT ![c] = FALSE]
  /\ waiters' = <<>>
  /\ pc' = [d \in Ctx |-> IF d = c THEN p
                          ELSE IF waiters # <<>> /\ d = Head(waiters) THEN "woken"
                          ELSE pc[d]]
  /\ jobs' = Tail(jobs) \o (IF waiters = <<>> THEN <<>> ELSE <<Head(waiters)>>) \o after

(* release(): free the gate, forget the waiter list, wake each of them in  *)
(* registration order; `after` are the jobs queued behind the wake-ups.    *)
Release(c, p, after) ==
  /\ held' = FALSE
  /\ owns' = [owns EXCEPT ![c] = FALSE]
  /\ waiters' = <<>>
  /\ pc' = [d \in Ctx |-> IF d = c THEN p
                          ELSE IF Contains(waiters, d) THEN "woken"
                          ELSE pc[d]]
  /\ jobs' = Tail(jobs) \o waiters \o after

(* Mutant: a transaction inside an exclusive hold releases the gate too.   *)
StateReleaseAlways(c, p, after) == Release(c, p, after)

(* SqliteTxState.release(): exactly once, and nothing inside an exclusive  *)
(* hold, whose transactions own nothing.                                   *)
StateRelease(c, p, after) ==
  IF kind[c] = "tx" /\ owns[c]
  THEN Release(c, p, after)
  ELSE /\ Goto(c, p)
       /\ jobs' = Tail(jobs) \o after
       /\ UNCHANGED <<held, owns, waiters>>

(* Where application code continues once its transaction is over.          *)
AfterTx(c) == IF kind[c] = "excl" THEN "excl" ELSE "idle"

(* The plain statements in the open transaction end with it.               *)
Settle(outcome) ==
  /\ engine' = NoCtx
  /\ fate' = [d \in Ctx |-> IF fate[d] = "open" THEN outcome ELSE fate[d]]

-----------------------------------------------------------------------------
(* Application code: each step queues the job that takes the next one.     *)

Schedule(c, p) ==
  /\ Goto(c, p)
  /\ jobs' = Append(jobs, c)
  /\ UNCHANGED <<held, waiters, owns, engine, fate>>

StartCall(c) ==
  /\ pc[c] = "idle"
  /\ calls[c] < MaxCalls
  /\ calls' = [calls EXCEPT ![c] = @ + 1]
  /\ \E k \in Kinds : kind' = [kind EXCEPT ![c] = k]
  /\ Schedule(c, "call")

StepInTx(c) ==
  /\ pc[c] = "tx"
  /\ Schedule(c, "txStmt")
  /\ UNCHANGED <<kind, calls>>

(* The transaction function returns, or throws.                            *)
EndTx(c) ==
  /\ pc[c] = "tx"
  /\ \E p \in {"commit", "fail"} : Schedule(c, p)
  /\ UNCHANGED <<kind, calls>>

StepInExclusive(c) ==
  /\ pc[c] = "excl"
  /\ \E p \in {"exclStmt", "begin"} : Schedule(c, p)
  /\ UNCHANGED <<kind, calls>>

ReturnFromExclusive(c) ==
  /\ pc[c] = "excl"
  /\ Schedule(c, "exclEnd")
  /\ UNCHANGED <<kind, calls>>

-----------------------------------------------------------------------------
(* Entering the gate: _stmt / runWhenFree, _beginTransaction / acquire,    *)
(* _withExclusiveConnection / runExclusive.  The first check and the       *)
(* re-check after a wake-up are the same code: the do-while on `held`.     *)

Enqueue(c) ==
  /\ held
  /\ waiters' = Append(waiters, c)
  /\ jobs' = Tail(jobs)
  /\ Goto(c, "waiting")
  /\ UNCHANGED <<held, owns, engine, fate>>

(* runWhenFree's fn(): the plain statement runs in this same segment.      *)
RunStatement(c) ==
  /\ ~held
  /\ kind[c] = "stmt"
  /\ IF engine = NoCtx
     THEN fate' = [fate EXCEPT ![c] = "durable"]
     ELSE fate' = [fate EXCEPT ![c] = "open"]
  /\ Goto(c, "idle")
  /\ jobs' = Tail(jobs)
  /\ UNCHANGED <<held, waiters, owns, engine>>

(* acquire()'s `this.held = true`; BEGIN is the next job of the context.   *)
TakeGate(c) ==
  /\ ~held
  /\ kind[c] \in {"tx", "excl"}
  /\ held' = TRUE
  /\ owns' = [owns EXCEPT ![c] = TRUE]
  /\ IF kind[c] = "tx"
     THEN Goto(c, "begin") /\ jobs' = Append(Tail(jobs), c)
     ELSE Goto(c, "excl") /\ jobs' = Tail(jobs)
  /\ UNCHANGED <<waiters, engine, fate>>

Enter(c) ==
  /\ \E p \in {"call", "woken"} : Running(c, p)
  /\ Enqueue(c) \/ RunStatement(c) \/ TakeGate(c)
  /\ UNCHANGED <<kind, calls>>

(* The timeout timer of a GateWaiter: timers run between microtask drains. *)
Timeout(c) ==
  /\ HasWaitTimeout
  /\ jobs = <<>>
  /\ pc[c] = "waiting"
  /\ \E i \in DOMAIN waiters :
       waiters[i] = c /\ waiters' = RemoveAt(waiters, i)
  /\ Goto(c, "idle")
  /\ UNCHANGED <<held, jobs, kind, owns, engine, fate, calls>>

-----------------------------------------------------------------------------
(* The transaction *)

(* _beginTransaction after acquire(): BEGIN IMMEDIATE, or its failure.     *)
Begin(c) ==
  /\ Running(c, "begin")
  /\ \/ /\ engine = NoCtx
        /\ engine' = c
        /\ Goto(c, "tx")
        /\ jobs' = Tail(jobs)
        /\ UNCHANGED <<held, owns, waiters>>
     \/ /\ engine # NoCtx \/ "begin" \in Failures
        /\ StateRelease(c, AfterTx(c), <<>>)
        /\ UNCHANGED engine
  /\ UNCHANGED <<kind, fate, calls>>

(* A statement of the transaction itself (the fast path of _stmt).         *)
StatementInTx(c) ==
  /\ Running(c, "txStmt")
  /\ Goto(c, "tx")
  /\ jobs' = Tail(jobs)
  /\ UNCHANGED <<held, waiters, kind, owns, engine, fate,
                 calls>>

(* Mutant: a COMMIT that throws is not followed by a ROLLBACK.             *)
CommitWithoutRollback(c) ==
  /\ Running(c, "commit")
  /\ \/ Settle("durable")
     \/ "commit" \in Failures /\ UNCHANGED <<engine, fate>>
  /\ StateRelease(c, AfterTx(c), <<>>)
  /\ UNCHANGED <<kind, calls>>

(* _commitTransaction: COMMIT, and release() in `finally` either way.  A   *)
(* COMMIT that throws (SQLITE_BUSY under another process's read lock, a    *)
(* deferred constraint) leaves the SQL transaction open; withTransaction's *)
(* catch block is a job behind the wake-ups that release() has queued.     *)
Commit(c) ==
  /\ Running(c, "commit")
  /\ \/ /\ Settle("durable")
        /\ StateRelease(c, AfterTx(c), <<>>)
     \/ /\ "commit" \in Failures
        /\ StateRelease(c, "rollback", <<c>>)
        /\ UNCHANGED <<engine, fate>>
  /\ UNCHANGED <<kind, calls>>

(* Mutant: a ROLLBACK does not release the gate.                           *)
RollbackKeepsGate(c) ==
  /\ \E p \in {"fail", "rollback"} : Running(c, p)
  /\ Settle("lost")
  /\ Goto(c, AfterTx(c))
  /\ jobs' = Tail(jobs)
  /\ UNCHANGED <<held, owns, waiters, kind, calls>>

(* _rollbackTransaction, reached because fn threw or because COMMIT threw. *)
Rollback(c) ==
  /\ \E p \in {"fail", "rollback"} : Running(c, p)
  /\ Settle("lost")
  /\ StateRelease(c, AfterTx(c), <<>>)
  /\ UNCHANGED <<kind, calls>>

-----------------------------------------------------------------------------
(* The exclusive hold (schema sync): statements, nested transactions, end. *)

StatementInExclusive(c) ==
  /\ Running(c, "exclStmt")
  /\ Goto(c, "excl")
  /\ jobs' = Tail(jobs)
  /\ UNCHANGED <<held, waiters, kind, owns, engine, fate, calls>>

EndExclusive(c) ==
  /\ Running(c, "exclEnd")
  /\ Release(c, "idle", <<>>)
  /\ UNCHANGED <<kind, engine, fate, calls>>

-----------------------------------------------------------------------------
RunJob(c) ==
  \/ Enter(c)
  \/ Begin(c) \/ StatementInTx(c) \/ Commit(c) \/ Rollback(c)
  \/ StatementInExclusive(c) \/ EndExclusive(c)

AppStep(c) ==
  \/ StartCall(c)
  \/ StepInTx(c) \/ EndTx(c)
  \/ StepInExclusive(c) \/ ReturnFromExclusive(c)

Next == \E c \in Ctx : AppStep(c) \/ RunJob(c) \/ Timeout(c)

Spec == Init /\ [][Next]_vars

(* The event loop always runs the queued job; a function handed to         *)
(* withTransaction or runExclusive returns or throws in the end, however   *)
(* many statements it makes first.                                         *)
Fairness ==
  /\ WF_vars(\E c \in Ctx : RunJob(c))
  /\ \A c \in Ctx : SF_vars(EndTx(c)) /\ SF_vars(ReturnFromExclusive(c))

FairSpec == Spec /\ Fairness

-----------------------------------------------------------------------------
(* Properties *)

(* The gate is held exactly when some context still has to release it, and *)
(* that context is the only one: two woken acquirers never both take the   *)
(* gate, and no release is made twice or forgotten (tx-gate.ts:160-190,    *)
(* 253-257).                                                               *)
GateHasOneHolder ==
  /\ held <=> \E c \in Ctx : owns[c]
  /\ \A c, d \in Ctx : owns[c] /\ owns[d] => c = d

(* BEGIN never runs on a connection whose SQL transaction is still open,   *)
(* even when a failed COMMIT has released the gate before the ROLLBACK:    *)
(* the rollback job is always ahead of the BEGIN of any context that took  *)
(* the gate meanwhile (sqlite-adapter.ts:399-436, base-adapter.ts:499-511).*)
BeginFindsNoTransaction ==
  \A c \in Ctx : Running(c, "begin") => engine = NoCtx

(* A statement of a transaction, its COMMIT and its ROLLBACK always reach  *)
(* the SQL transaction that its own context has begun (base-adapter.ts:    *)
(* 482-512): nobody ends or replaces it in between.                        *)
TransactionKeepsConnection ==
  \A c \in Ctx :
    pc[c] \in {"tx", "txStmt", "commit", "fail", "rollback"} => engine = c

(* No lost wake-up: a context whose wait is pending is in the waiter list, *)
(* and somebody still holds the gate who will wake it (tx-gate.ts:184-190, *)
(* 106-113).                                                               *)
NoForgottenWaiter ==
  \A c \in Ctx : pc[c] = "waiting" => held /\ Contains(waiters, c)

(* No plain statement runs inside the transaction of another context       *)
(* (tx-gate.ts:133-147: it would be rolled back with it).                  *)
NoStatementInForeignTransaction == \A c \in Ctx : fate[c] # "open"

(* Every call ends: whoever waits for the gate gets it or times out, and   *)
(* nobody waits on anybody for ever (the bound MaxCalls ends barging).     *)
EveryCallReturns == \A c \in Ctx : pc[c] # "idle" ~> pc[c] = "idle"

(* The gate implements a serial connection, as long as COMMIT does not     *)
(* throw (tx-gate.ts:133-147).                                             *)
Conn == INSTANCE SerialConnection
          WITH holders <- {c \in Ctx : owns[c]}, txn <- engine, effect <- fate

ImplementsSerialConnection == Conn!ConnSpec

=============================================================================
