------------------------- MODULE PooledTransactions -------------------------
(***************************************************************************)
(* withTransaction over connection pools: the PostgreSQL and MySQL         *)
(* adapters, each with a pool of its own.  A call borrows one connection   *)
(* for its whole span, nested calls on the same pool join it through       *)
(* AsyncLocalStorage, a nested call on another pool opens its own.         *)
(*                                                                         *)
(* Source: packages/db/src/base-adapter.ts (findTxContext,                 *)
(* withTransaction), packages/db-postgres/src/postgres-adapter.ts and      *)
(* packages/db-mysql/src/mysql-adapter.ts (_begin-, _commit-,              *)
(* _rollbackTransaction, _exec), pg-driver.ts and mysql2-driver.ts         *)
(* (getConnection, run).                                                   *)
(*                                                                         *)
(* The pools and the servers' sessions are not code of this repository:    *)
(* they are modelled as those drivers use them.                            *)
(***************************************************************************)
EXTENDS Naturals, Sequences, FiniteSets

CONSTANTS
  Contexts,   \* async contexts (requests), each a chain of awaits
  Owners,     \* transaction owners: one pool (driver) each
  MySql,      \* the owners that are MySQL pools; the others are PostgreSQL
  Conns,      \* connections, all that the pools may open
  PoolOf,     \* the pool of each connection
  None,       \* no connection, no borrower
  Levels,     \* the isolation levels callers ask for; 0 asks for none
  Nests,      \* <<outer, inner>>: calls on inner are made inside outer's
  Refusing,   \* pools whose server may answer COMMIT with an error
  MaxCalls,   \* bound: calls of one context
  MaxMishaps  \* bound: failures of all kinds together

ASSUME OwnersAssumption ==
  /\ MySql \subseteq Owners /\ Refusing \subseteq Owners
  /\ Nests \subseteq Owners \X Owners
ASSUME PoolsAssumption == PoolOf \in [Conns -> Owners]
ASSUME NoneAssumption == None \notin Conns \cup Contexts \cup Owners
ASSUME LevelsAssumption == Levels \subseteq 0..3
ASSUME BoundsAssumption == MaxCalls \in Nat /\ MaxMishaps \in Nat

VARIABLES
  stack,    \* the owners whose transactions enclose the context's code
  phase,    \* what the context awaits
  opening,  \* the owner of the call that is getting its connection
  call,     \* [context -> [owner -> its last call]]
  ending,   \* what became of that call's writes, and what it was told
  borrower, \* who has checked the connection out
  queue,    \* the contexts waiting for a connection of the pool
  session,  \* the server's side of each connection
  refused,  \* the pools on which a COMMIT has been answered with an error
  calls, mishaps

vars == <<stack, phase, opening, call, ending, borrower, queue, session,
          refused, calls, mishaps>>
-----------------------------------------------------------------------------
(* "run"       the code of the innermost callback (or no call at all)      *)
(* "queued"    getConnection                                               *)
(* "setLevel"  SET TRANSACTION ISOLATION LEVEL (MySQL)                     *)
(* "begin"     BEGIN / START TRANSACTION                                   *)
(* "query"     the statement of a call outside any transaction             *)
(* "commit"    COMMIT                                                      *)
(* "rollback"  ROLLBACK after the callback has thrown                      *)
(* "again"     ROLLBACK after a COMMIT that threw                          *)
Phases == {"run", "queued", "setLevel", "begin", "query", "commit",
           "rollback", "again"}

Ids == Contexts \X Owners

Calls == [kind : {"tx", "query"}, level : 0..3, asked : 0..3,
          conn : Conns \cup {None}]
Endings == [fate : SUBSET {"committed", "undone"},
            told : {"none", "resolved", "rejected"},
            erred : BOOLEAN, lostAck : BOOLEAN]
Sessions == [tx : {"none", "open", "aborted"}, level : 0..3,
             pending : 0..3, writers : SUBSET Ids, broken : BOOLEAN]

Fresh == [tx |-> "none", level |-> 0, pending |-> 0, writers |-> {},
          broken |-> FALSE]
NoCall == [kind |-> "query", level |-> 0, asked |-> 0, conn |-> None]
Open == [fate |-> {}, told |-> "none", erred |-> FALSE, lostAck |-> FALSE]

Elements(s) == {s[i] : i \in 1..Len(s)}

TypeOK ==
  /\ stack \in [Contexts -> Seq(Owners)]
  /\ phase \in [Contexts -> Phases]
  /\ opening \in [Contexts -> Owners \cup {None}]
  /\ call \in [Contexts -> [Owners -> Calls]]
  /\ ending \in [Contexts -> [Owners -> Endings]]
  /\ borrower \in [Conns -> Contexts \cup {None}]
  /\ queue \in [Owners -> Seq(Contexts)]
  /\ \A o \in Owners :
       Elements(queue[o]) = {c \in Contexts : phase[c] = "queued" /\ opening[c] = o}
  /\ session \in [Conns -> Sessions]
  /\ refused \subseteq Refusing
  /\ calls \in [Contexts -> 0..MaxCalls]
  /\ mishaps \in 0..MaxMishaps

Init ==
  /\ stack = [c \in Contexts |-> <<>>]
  /\ phase = [c \in Contexts |-> "run"]
  /\ opening = [c \in Contexts |-> None]
  /\ call = [c \in Contexts |-> [o \in Owners |-> NoCall]]
  /\ ending = [c \in Contexts |-> [o \in Owners |-> Open]]
  /\ borrower = [k \in Conns |-> None]
  /\ queue = [o \in Owners |-> <<>>]
  /\ session = [k \in Conns |-> Fresh]
  /\ refused = {}
  /\ calls = [c \in Contexts |-> 0]
  /\ mishaps = 0
-----------------------------------------------------------------------------
(* The pool *)

(* What a call does once it has its connection.                            *)
FirstStep(o, r) ==
  IF r.kind = "query" THEN "query"
  ELSE IF o \in MySql /\ r.level # 0 THEN "setLevel" ELSE "begin"

Idle(o) == {k \in Conns : PoolOf[k] = o /\ borrower[k] = None}

(* getConnection: an idle connection, or the end of the pool's queue.  ca  *)
(* are the calls as the rest of the step leaves them.                      *)
Acquire(c, o, ca) ==
  \/ /\ queue[o] = <<>>
     /\ \E k \in Idle(o) :
          /\ borrower' = [borrower EXCEPT ![k] = c]
          /\ call' = [ca EXCEPT ![c][o].conn = k]
     /\ phase' = [phase EXCEPT ![c] = FirstStep(o, ca[c][o])]
     /\ UNCHANGED queue
  \/ /\ queue[o] # <<>> \/ Idle(o) = {}
     /\ queue' = [queue EXCEPT ![o] = Append(@, c)]
     /\ phase' = [phase EXCEPT ![c] = "queued"]
     /\ call' = ca
     /\ UNCHANGED borrower

(* conn.release(): the connection goes to the first waiter of its pool.    *)
(* A connection nobody has checked out makes it throw and change nothing.  *)
(* ph and ca are phases and calls as the rest of the step leaves them.     *)
Release(k, ph, ca) ==
  LET o == PoolOf[k]
      d == Head(queue[o])
  IN \/ /\ borrower[k] # None /\ queue[o] # <<>>
        /\ borrower' = [borrower EXCEPT ![k] = d]
        /\ queue' = [queue EXCEPT ![o] = Tail(@)]
        /\ phase' = [ph EXCEPT ![d] = FirstStep(o, ca[d][o])]
        /\ call' = [ca EXCEPT ![d][o].conn = k]
     \/ /\ borrower[k] # None /\ queue[o] = <<>>
        /\ borrower' = [borrower EXCEPT ![k] = None]
        /\ phase' = ph /\ call' = ca
        /\ UNCHANGED queue
     \/ /\ borrower[k] = None
        /\ phase' = ph /\ call' = ca
        /\ UNCHANGED <<borrower, queue>>

(* The session the next borrower finds: release() throws a lost connection *)
(* away, and the pool opens a new one in its place.                        *)
Returned(s) == IF s.broken THEN Fresh ELSE s

-----------------------------------------------------------------------------
(* The server *)

Default(o) == IF o \in MySql THEN 2 ELSE 1

Top(c) == stack[c][Len(stack[c])]
Pop(c) == [stack EXCEPT ![c] = SubSeq(@, 1, Len(@) - 1)]

(* The writes of ids come to the end f.                                    *)
Settled(ids, f) ==
  [c \in Contexts |-> [o \in Owners |->
     IF <<c, o>> \in ids THEN [ending[c][o] EXCEPT !.fate = @ \cup {f}]
     ELSE ending[c][o]]]

Tell(en, c, o, t) == [en EXCEPT ![c][o].told = t]

Closed(s) == [s EXCEPT !.tx = "none", !.level = 0, !.writers = {}]

(* A statement of call <<c, o>> executes on the connection of call         *)
(* <<c, at>>.                                                              *)
Execute(c, o, at) ==
  LET k == call[c][at].conn
      s == session[k]
  IN \/ /\ ~s.broken /\ s.tx = "open"
        /\ session' = [session EXCEPT ![k].writers = @ \cup {<<c, o>>}]
        /\ UNCHANGED ending
     \/ /\ ~s.broken /\ s.tx = "none"
        /\ ending' = Settled({<<c, o>>}, "committed")
        /\ UNCHANGED session
     \/ /\ s.broken \/ s.tx = "aborted"
        /\ ending' = [ending EXCEPT ![c][o].erred = TRUE]
        /\ UNCHANGED session

-----------------------------------------------------------------------------
(* Calls *)

(* withTransaction on a pool without an enclosing transaction of its own,  *)
(* or a plain statement there (_exec: the driver, not a connection).       *)
StartCall(c, o, kind, level) ==
  /\ phase[c] = "run" /\ calls[c] < MaxCalls
  /\ o \notin Elements(stack[c])
  /\ stack[c] # <<>> => <<Top(c), o>> \in Nests
  /\ kind = "query" => level = 0
  /\ calls' = [calls EXCEPT ![c] = @ + 1]
  /\ opening' = [opening EXCEPT ![c] = o]
  /\ ending' = IF stack[c] = <<>> THEN [ending EXCEPT ![c] = [p \in Owners |-> Open]]
                ELSE [ending EXCEPT ![c][o] = Open]
  /\ Acquire(c, o, [call EXCEPT ![c][o] =
        [kind |-> kind, level |-> level, asked |-> level, conn |-> None]])
  /\ UNCHANGED <<stack, session, refused, mishaps>>

(* Mutant: a nested call never compares its level with the open one.       *)
JoinAnyLevel(c, o, level) ==
  /\ phase[c] = "run"
  /\ o \in Elements(stack[c])
  /\ call' = [call EXCEPT ![c][o].asked = IF level > @ THEN level ELSE @]
  /\ UNCHANGED <<stack, phase, opening, ending, borrower, queue, session,
                 refused, calls, mishaps>>

(* withTransaction inside a transaction of the same pool joins it; asking  *)
(* for a stricter level than it was opened with is refused.                *)
Join(c, o, level) ==
  /\ phase[c] = "run"
  /\ o \in Elements(stack[c])
  /\ call[c][o].level >= level
  /\ call' = [call EXCEPT ![c][o].asked = IF level > @ THEN level ELSE @]
  /\ UNCHANGED <<stack, phase, opening, ending, borrower, queue, session,
                 refused, calls, mishaps>>

(* Mutant: a failed BEGIN keeps its connection.                            *)
GiveUpLeaks(c, s) ==
  LET o == opening[c]
      k == call[c][o].conn
  IN /\ session' = [session EXCEPT ![k] = s]
     /\ phase' = [phase EXCEPT ![c] = "run"]
     /\ call' = [call EXCEPT ![c][o] = NoCall]
     /\ ending' = Tell(ending, c, o, "rejected")
     /\ opening' = [opening EXCEPT ![c] = None]
     /\ UNCHANGED <<stack, borrower, queue, refused, calls>>

(* _beginTransaction has thrown, its connection given back as s.           *)
GiveUp(c, s) ==
  LET o == opening[c]
      k == call[c][o].conn
  IN /\ session' = [session EXCEPT ![k] = s]
     /\ Release(k, [phase EXCEPT ![c] = "run"], [call EXCEPT ![c][o] = NoCall])
     /\ ending' = Tell(ending, c, o, "rejected")
     /\ opening' = [opening EXCEPT ![c] = None]
     /\ UNCHANGED <<stack, refused, calls>>

(* A failure: of a connection already lost, or one the bound allows.       *)
Fails(s) ==
  \/ s.broken /\ UNCHANGED mishaps
  \/ ~s.broken /\ mishaps < MaxMishaps /\ mishaps' = mishaps + 1

SetLevel(c) ==
  LET o == opening[c]
      k == call[c][o].conn
  IN /\ phase[c] = "setLevel"
     /\ \/ /\ ~session[k].broken
           /\ session' = [session EXCEPT ![k].pending = call[c][o].level]
           /\ phase' = [phase EXCEPT ![c] = "begin"]
           /\ UNCHANGED <<stack, opening, call, ending, borrower, queue,
                          refused, calls, mishaps>>
        \/ /\ Fails(session[k])
           /\ GiveUp(c, Returned(session[k]))

(* The session after BEGIN.  An open transaction (of somebody else, after  *)
(* a double release) goes on.                                              *)
Begun(o, level, s) ==
  IF s.tx # "none" THEN s
  ELSE [s EXCEPT !.tx = "open", !.pending = 0,
          !.level = IF o \in MySql
                    THEN IF s.pending # 0 THEN s.pending ELSE Default(o)
                    ELSE IF level # 0 THEN level ELSE Default(o)]

(* Mutant: the connection is released with the level still pending.        *)
UnbegunReleased(o, level, s) == Returned(s)

(* The session a failed BEGIN leaves: MySQL destroys a connection on which *)
(* a one-shot level is pending.                                            *)
Unbegun(o, level, s) ==
  IF o \in MySql /\ level # 0 THEN Fresh ELSE Returned(s)

Begin(c) ==
  LET o == opening[c]
      r == call[c][o]
      s == session[r.conn]
  IN /\ phase[c] = "begin"
     /\ \/ /\ ~s.broken
           /\ session' = [session EXCEPT ![r.conn] = Begun(o, r.level, s)]
           /\ stack' = [stack EXCEPT ![c] = Append(@, o)]
           /\ phase' = [phase EXCEPT ![c] = "run"]
           /\ opening' = [opening EXCEPT ![c] = None]
           /\ UNCHANGED <<call, ending, borrower, queue, refused, calls, mishaps>>
        \/ /\ Fails(s)
           /\ GiveUp(c, Unbegun(o, r.level, s))

(* pool.query: the statement, then the release; an error discards the      *)
(* connection.                                                             *)
Query(c) ==
  LET o == opening[c]
      k == call[c][o].conn
      s == session[k]
      after == [phase EXCEPT ![c] = "run"]
      freed == [call EXCEPT ![c][o] = NoCall]
  IN /\ phase[c] = "query"
     /\ opening' = [opening EXCEPT ![c] = None]
     /\ Release(k, after, freed)
     /\ \/ /\ ~s.broken /\ s.tx = "none"
           /\ ending' = Tell(Settled({<<c, o>>}, "committed"), c, o, "resolved")
           /\ UNCHANGED session
        \/ /\ ~s.broken /\ s.tx = "open"
           /\ session' = [session EXCEPT ![k].writers = @ \cup {<<c, o>>}]
           /\ ending' = Tell(ending, c, o, "resolved")
        \/ /\ s.broken \/ s.tx = "aborted"
           /\ session' = [session EXCEPT ![k] = Fresh]
           /\ ending' = Tell(Settled(s.writers, "undone"), c, o, "rejected")
     /\ UNCHANGED <<stack, refused, calls, mishaps>>

(* Mutant: _exec looks only at the innermost transaction.                  *)
StatementOfInnermost(c, o) ==
  /\ phase[c] = "run" /\ o \in Elements(stack[c])
  /\ Execute(c, o, Top(c))
  /\ UNCHANGED <<stack, phase, opening, call, borrower, queue, refused, calls, mishaps>>

(* Mutant: the statement goes to the pool, not to the transaction.         *)
StatementOnPool(c, o) ==
  /\ phase[c] = "run" /\ o \in Elements(stack[c])
  /\ ending' = Settled({<<c, o>>}, "committed")
  /\ UNCHANGED <<stack, phase, opening, call, borrower, queue, session,
                 refused, calls, mishaps>>

(* A statement in the callback: _exec finds the transaction of its own     *)
(* pool, however many others are open inside it.                           *)
Statement(c, o) ==
  /\ phase[c] = "run" /\ o \in Elements(stack[c])
  /\ Execute(c, o, o)
  /\ UNCHANGED <<stack, phase, opening, call, borrower, queue, refused, calls, mishaps>>

(* A statement fails and the callback goes on: PostgreSQL aborts the       *)
(* transaction; MySQL undoes the statement only, or, for a deadlock, all   *)
(* of the transaction.                                                     *)
StatementFails(c, o) ==
  LET k == call[c][o].conn
      s == session[k]
      erred == [ending EXCEPT ![c][o].erred = TRUE]
  IN /\ phase[c] = "run" /\ o \in Elements(stack[c])
     /\ ~s.broken /\ s.tx = "open"
     /\ mishaps < MaxMishaps /\ mishaps' = mishaps + 1
     /\ \/ /\ o \notin MySql
           /\ session' = [session EXCEPT ![k].tx = "aborted"]
           /\ ending' = erred
        \/ /\ o \in MySql
           /\ ending' = erred
           /\ UNCHANGED session
        \/ /\ o \in MySql
           /\ session' = [session EXCEPT ![k] = Closed(s)]
           /\ ending' = [Settled(s.writers, "undone") EXCEPT ![c][o].erred = TRUE]
     /\ UNCHANGED <<stack, phase, opening, call, borrower, queue, refused, calls>>

(* The callback has resolved, or thrown.                                   *)
Finish(c) ==
  /\ phase[c] = "run" /\ stack[c] # <<>>
  /\ phase' = [phase EXCEPT ![c] = "commit"]
  /\ UNCHANGED <<stack, opening, call, ending, borrower, queue, session,
                 refused, calls, mishaps>>

Throw(c) ==
  /\ phase[c] = "run" /\ stack[c] # <<>>
  /\ phase' = [phase EXCEPT ![c] = "rollback"]
  /\ UNCHANGED <<stack, opening, call, ending, borrower, queue, session,
                 refused, calls, mishaps>>

(* The call returns to the code around it.                                 *)
Return(c) ==
  /\ stack' = Pop(c)
  /\ UNCHANGED <<opening, calls>>

Stay == UNCHANGED <<stack, opening, calls>>

(* What a COMMIT the server has executed makes of the transaction's        *)
(* writes: PostgreSQL answers COMMIT in an aborted transaction with a      *)
(* ROLLBACK, and no error.                                                 *)
CommitFate(s) == IF s.tx = "aborted" THEN "undone" ELSE "committed"

(* COMMIT succeeds, release() follows in the finally block; if that throws *)
(* the catch block takes over.                                             *)
CommitDone(c) ==
  LET o == Top(c)
      k == call[c][o].conn
      s == session[k]
      settled == Settled(s.writers, CommitFate(s))
  IN /\ phase[c] = "commit" /\ ~s.broken
     /\ session' = [session EXCEPT ![k] = Closed(s)]
     /\ \/ /\ borrower[k] # None
           /\ Release(k, [phase EXCEPT ![c] = "run"], [call EXCEPT ![c][o] = NoCall])
           /\ ending' = Tell(settled, c, o, "resolved")
           /\ Return(c)
        \/ /\ borrower[k] = None
           /\ Release(k, [phase EXCEPT ![c] = "again"], call)
           /\ ending' = settled
           /\ Stay
     /\ UNCHANGED <<refused, mishaps>>

(* The connection is lost: before the server got the COMMIT, or before its *)
(* answer arrived.  release() discards it.                                 *)
CommitLost(c) ==
  LET o == Top(c)
      k == call[c][o].conn
      s == session[k]
      settled == Settled(s.writers, CommitFate(s))
  IN /\ phase[c] = "commit"
     /\ Fails(s)
     /\ \/ s.broken /\ ending' = ending
        \/ ~s.broken /\ ending' = [settled EXCEPT ![c][o].lostAck = TRUE]
     /\ session' = [session EXCEPT ![k] = Fresh]
     /\ Release(k, [phase EXCEPT ![c] = "again"], [call EXCEPT ![c][o].conn = None])
     /\ Stay
     /\ UNCHANGED refused

(* The server answers COMMIT with an error and rolls back (a serialization *)
(* failure, a deferred constraint): the finally block releases the         *)
(* connection, which is sound.                                             *)
CommitRefused(c) ==
  LET o == Top(c)
      k == call[c][o].conn
      s == session[k]
  IN /\ phase[c] = "commit" /\ o \in Refusing
     /\ ~s.broken /\ s.tx = "open"
     /\ mishaps < MaxMishaps /\ mishaps' = mishaps + 1
     /\ refused' = refused \cup {o}
     /\ ending' = Settled(s.writers, "undone")
     /\ session' = [session EXCEPT ![k] = Closed(s)]
     /\ Release(k, [phase EXCEPT ![c] = "again"], call)
     /\ Stay

(* The session after _rollbackTransaction.                                 *)
RolledBack(s) == IF s.broken THEN Fresh ELSE Closed(s)

(* withTransaction's catch block: ROLLBACK and release(), whose errors are *)
(* swallowed.  After a COMMIT that threw, the connection has already been  *)
(* released: the ROLLBACK goes to whatever it does now, and release() is   *)
(* that of its next borrower, if there is one.                             *)
Rollback(c) ==
  LET o == Top(c)
      k == call[c][o].conn
      after == [phase EXCEPT ![c] = "run"]
      freed == [call EXCEPT ![c][o] = NoCall]
  IN /\ phase[c] \in {"rollback", "again"}
     /\ \/ /\ k = None
           /\ phase' = after
           /\ ending' = Tell(ending, c, o, "rejected")
           /\ call' = freed
           /\ UNCHANGED <<borrower, queue, session>>
        \/ /\ k # None
           /\ session' = [session EXCEPT ![k] = RolledBack(@)]
           /\ ending' = Tell(Settled(session[k].writers, "undone"), c, o, "rejected")
           /\ Release(k, after, freed)
     /\ Return(c)
     /\ UNCHANGED <<refused, mishaps>>

(* The backend of a checked-out connection dies: its server rolls back.    *)
LoseConnection(k) ==
  /\ borrower[k] # None /\ ~session[k].broken
  /\ mishaps < MaxMishaps /\ mishaps' = mishaps + 1
  /\ session' = [session EXCEPT ![k] = [Fresh EXCEPT !.broken = TRUE]]
  /\ ending' = Settled(session[k].writers, "undone")
  /\ UNCHANGED <<stack, phase, opening, call, borrower, queue, refused, calls>>

Callback(c) ==
  \/ \E o \in Owners, kind \in {"tx", "query"}, level \in Levels :
       StartCall(c, o, kind, level)
  \/ \E o \in Owners, level \in Levels : Join(c, o, level)
  \/ \E o \in Owners : Statement(c, o) \/ StatementFails(c, o)

AdapterStep(c) ==
  \/ SetLevel(c) \/ Begin(c) \/ Query(c)
  \/ CommitDone(c) \/ CommitLost(c) \/ CommitRefused(c)
  \/ Rollback(c)

Next ==
  \/ \E c \in Contexts : Callback(c) \/ Finish(c) \/ Throw(c) \/ AdapterStep(c)
  \/ \E k \in Conns : LoseConnection(k)

Spec == Init /\ [][Next]_vars

(* Every statement is answered, and every callback ends.                   *)
Fairness ==
  \A c \in Contexts :
    /\ WF_vars(AdapterStep(c))
    /\ WF_vars(Finish(c) \/ Throw(c))

FairSpec == Spec /\ Fairness
-----------------------------------------------------------------------------
(* Properties *)

(* The context holds a connection of the pool.                             *)
Holds(c, o) ==
  \/ o \in Elements(stack[c]) /\ (phase[c] = "again" => o # Top(c))
  \/ phase[c] \in {"setLevel", "begin", "query"} /\ opening[c] = o

(* The call has its connection to itself: no other context has it checked  *)
(* out, and only that call's statements are in the transaction open on it. *)
Dedicated(c, o) ==
  LET k == call[c][o].conn
  IN borrower[k] = c /\ session[k].writers \subseteq {<<c, o>>}

(* "A dedicated pooled connection is held for the whole withTransaction    *)
(* span."                                                                  *)
DedicatedSpan ==
  \A c \in Contexts, o \in Owners : Holds(c, o) => Dedicated(c, o)

(* It is, on every pool on which no COMMIT has been refused so far: the    *)
(* second release that follows a refused COMMIT harms its own pool only.   *)
DedicatedConnection ==
  \A c \in Contexts, o \in Owners \ refused : Holds(c, o) => Dedicated(c, o)

(* A connection nobody has checked out carries nothing over to the next    *)
(* borrower: no open transaction, no one-shot isolation level.             *)
IdleIsClean ==
  \A k \in Conns :
    borrower[k] = None /\ PoolOf[k] \notin refused => session[k] = Fresh

(* A transaction runs at the level its call asked for (the engine's        *)
(* default without one), and no nested call that joined it asked for more. *)
LevelIsAsked ==
  \A c \in Contexts, o \in Owners \ refused :
    LET r == call[c][o]
        s == session[r.conn]
    IN Holds(c, o) /\ o \in Elements(stack[c]) /\ s.tx = "open" =>
         /\ s.level = IF r.level # 0 THEN r.level ELSE Default(o)
         /\ s.level >= r.asked

(* What a call is told is true of all its writes: resolved, they are       *)
(* committed, unless the callback went on after a failed statement;        *)
(* rejected, none is, unless the connection was lost on the way back from  *)
(* COMMIT, or MySQL's callback went on after a failed statement.           *)
ToldTheTruth ==
  \A c \in Contexts, o \in Owners \ refused :
    LET e == ending[c][o]
    IN /\ e.told = "resolved" /\ ~e.erred => e.fate \subseteq {"committed"}
       /\ e.told = "rejected" /\ ~(e.erred /\ o \in MySql) =>
            e.fate \subseteq {"undone"} \/ e.lostAck

(* Every call ends, its wait for a connection included, as long as no two  *)
(* pools are nested in each other.                                         *)
EveryCallReturns ==
  \A c \in Contexts : calls[c] > 0 ~> (phase[c] = "run" /\ stack[c] = <<>>)
=============================================================================
