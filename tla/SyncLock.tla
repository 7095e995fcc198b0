------------------------------ MODULE SyncLock ------------------------------
(***************************************************************************)
(* The distributed lock of schema sync: a row of the control table, with   *)
(* an expiry, that every sync run acquires, refreshes by a heartbeat and   *)
(* deletes.                                                                *)
(*                                                                         *)
(* Source: packages/db/src/schema/sync-store.ts (tryAcquireLock,           *)
(* refreshLock, releaseLock, waitForLock, tryInsert) and                   *)
(* packages/db/src/schema/schema-sync.ts (acquireLock, startHeartbeat,     *)
(* run).                                                                   *)
(*                                                                         *)
(* A process is one run of syncSchema.  Every database call is one atomic  *)
(* step of its own, so the clock and the other runs may move between the   *)
(* moment a run reads its clock and the moment its statement executes.     *)
(***************************************************************************)
EXTENDS SyncRuns, Integers, FiniteSets

CONSTANTS
  PodId,        \* the podId each run passes, [Runs -> ids]
  NoLock,       \* no lock row
  Ttl,          \* lockTtlMs
  MinBeat,      \* the smallest heartbeat interval (1000 ms)
  WaitTimeout,  \* waitTimeoutMs
  PollInterval, \* pollIntervalMs
  MaxTime,      \* bound: the clock stops here
  LastStart,    \* bound: no run starts later than this
  Prompt,       \* runs whose calls and timers are served within one clock unit
  Unreliable,   \* BOOLEAN: acknowledgements get lost, releases fail
  MaxBeatFails  \* refreshes of one run that may fail in a row

ASSUME TimesAssumption ==
  /\ Ttl \in Nat /\ MinBeat \in Nat /\ WaitTimeout \in Nat
  /\ PollInterval \in Nat /\ MaxTime \in Nat /\ LastStart \in Nat
  /\ MaxBeatFails \in Nat
ASSUME SwitchesAssumption ==
  MayCrash \subseteq Runs /\ Prompt \subseteq Runs /\ Unreliable \in BOOLEAN
ASSUME NoLockAssumption == NoLock \notin [run : Runs, at : Int, exp : Int]

VARIABLES
  now,      \* the clock all runs read (Date.now())
  lock,     \* the lock row, or NoLock
  place,       \* where each run is
  stamp,    \* `now` as the run's current call captured it
  deadline, \* end of the run's waiting
  until,    \* end of the run's current poll pause
  beat,     \* the heartbeat's call in flight
  beatAt,   \* `now` as the heartbeat's call captured it
  nextBeat, \* when the heartbeat timer fires next
  fails,    \* refreshes that failed since the last one that did not
  abort     \* the run's heartbeat has set abortReason

lockVars == <<now, lock, place, stamp, deadline, until, beat, beatAt, nextBeat, fails, abort>>

(* A row is stamped with a moment that has passed, and expires Ttl after   *)
(* its insert or its last refresh.                                         *)
LockRows == [run : Runs, at : 0..now, exp : 0..now + Ttl]

(* "idle"      not started                                                 *)
(* "try"       about to call tryAcquireLock                                *)
(* "read", "clear", "insert", "readback"  its statements, in order         *)
(* "poll"      in waitForLock's loop; "pollClear" its delete, "sleep" its  *)
(*             pause                                                       *)
(* "freed"     waitForLock has resolved true                               *)
(* "held"      acquired: heartbeat runs, schema sync proceeds              *)
(* "stopping"  finally block: heartbeat stopped, release to be sent        *)
(* "done", "timedOut", "dead"  the end                                     *)
InFlight == {"read", "clear", "insert", "readback", "pollClear"}
Places == InFlight \cup
  {"idle", "try", "poll", "sleep", "freed", "held", "stopping",
   "done", "timedOut", "dead"}

LockTypeOK ==
  /\ now \in Nat
  /\ lock \in LockRows \cup {NoLock}
  /\ place \in [Runs -> Places]
  /\ stamp \in [Runs -> 0..now]
  /\ deadline \in [Runs -> Nat]
  /\ until \in [Runs -> Nat]
  /\ beat \in [Runs -> {"none", "update", "lookup"}]
  /\ beatAt \in [Runs -> 0..now]
  /\ nextBeat \in [Runs -> Nat]
  /\ fails \in [Runs -> 0..MaxBeatFails]
  /\ abort \in [Runs -> BOOLEAN]

LockInit ==
  /\ now = 0
  /\ lock = NoLock
  /\ place = [r \in Runs |-> "idle"]
  /\ stamp = [r \in Runs |-> 0]
  /\ deadline = [r \in Runs |-> 0]
  /\ until = [r \in Runs |-> 0]
  /\ beat = [r \in Runs |-> "none"]
  /\ beatAt = [r \in Runs |-> 0]
  /\ nextBeat = [r \in Runs |-> 0]
  /\ fails = [r \in Runs |-> 0]
  /\ abort = [r \in Runs |-> FALSE]

-----------------------------------------------------------------------------
(* Mutant: one heartbeat per TTL instead of three.                         *)
HeartbeatOncePerTtl == IF Ttl > MinBeat THEN Ttl ELSE MinBeat

HeartbeatInterval == IF Ttl \div 3 > MinBeat THEN Ttl \div 3 ELSE MinBeat

IsExpired(row, t) == row.exp > 0 /\ row.exp < t

(* Mutant: the statements match the lock row without looking at its podId. *)
AnyRow(r) == lock # NoLock

(* The conditional statements of SyncStore match on the podId.             *)
OwnRow(r) == lock # NoLock /\ PodId[lock.run] = PodId[r]

RowOf(r) == [run |-> r, at |-> stamp[r], exp |-> stamp[r] + Ttl]

(* isSameRow: the stored row carries every value this attempt wrote.       *)
SameRow(r) == OwnRow(r) /\ lock.at = stamp[r] /\ lock.exp = stamp[r] + Ttl

(* deleteMany({_id, expiresAt: {$lt: t}})                                  *)
DeleteExpired(t) ==
  lock' = IF lock # NoLock /\ lock.exp < t THEN NoLock ELSE lock

MinOf(a, b) == IF a < b THEN a ELSE b

GoTo(r, p) == place' = [place EXCEPT ![r] = p]

NoHeartbeatChange == UNCHANGED <<beat, beatAt, nextBeat, fails, abort>>

(* acquireLock has returned: startHeartbeat.                               *)
Acquired(r) ==
  /\ GoTo(r, "held")
  /\ nextBeat' = [nextBeat EXCEPT ![r] = now + HeartbeatInterval]
  /\ abort' = [abort EXCEPT ![r] = FALSE]
  /\ UNCHANGED <<beat, beatAt, fails>>

-----------------------------------------------------------------------------
(* acquireLock and tryAcquireLock *)

Start(r) ==
  /\ place[r] = "idle"
  /\ now <= LastStart
  /\ deadline' = [deadline EXCEPT ![r] = now + WaitTimeout]
  /\ GoTo(r, "try")
  /\ UNCHANGED <<now, lock, stamp, until>> /\ NoHeartbeatChange

TryCall(r) ==
  /\ place[r] = "try"
  /\ stamp' = [stamp EXCEPT ![r] = now]
  /\ GoTo(r, "read")
  /\ UNCHANGED <<now, lock, deadline, until>> /\ NoHeartbeatChange

TryRead(r) ==
  /\ place[r] = "read"
  /\ \/ lock = NoLock /\ GoTo(r, "insert")
     \/ lock # NoLock /\ IsExpired(lock, stamp[r]) /\ GoTo(r, "clear")
     \/ lock # NoLock /\ ~IsExpired(lock, stamp[r]) /\ GoTo(r, "poll")
  /\ UNCHANGED <<now, lock, stamp, deadline, until>> /\ NoHeartbeatChange

TryClear(r) ==
  /\ place[r] = "clear"
  /\ DeleteExpired(stamp[r])
  /\ GoTo(r, "insert")
  /\ UNCHANGED <<now, stamp, deadline, until>> /\ NoHeartbeatChange

(* insertOne: stored; stored, but the acknowledgement is lost and the      *)
(* driver's retry conflicts; or a conflict with the row of another.        *)
TryInsert(r) ==
  /\ place[r] = "insert"
  /\ \/ /\ lock = NoLock
        /\ lock' = RowOf(r)
        /\ \/ Acquired(r)
           \/ Unreliable /\ GoTo(r, "readback") /\ NoHeartbeatChange
     \/ /\ lock # NoLock
        /\ GoTo(r, "readback")
        /\ UNCHANGED lock /\ NoHeartbeatChange
  /\ UNCHANGED <<now, stamp, deadline, until>>

ReadBack(r) ==
  /\ place[r] = "readback"
  /\ \/ SameRow(r) /\ Acquired(r)
     \/ ~SameRow(r) /\ GoTo(r, "poll") /\ NoHeartbeatChange
  /\ UNCHANGED <<now, lock, stamp, deadline, until>>

-----------------------------------------------------------------------------
(* waitForLock *)

(* Mutant: a waiter does not clear an expired row.                         *)
PollIgnoresExpiry(r) ==
  /\ place[r] = "poll"
  /\ \/ now >= deadline[r] /\ GoTo(r, "timedOut") /\ UNCHANGED until
     \/ /\ now < deadline[r] /\ lock = NoLock
        /\ GoTo(r, "freed") /\ UNCHANGED until
     \/ /\ now < deadline[r] /\ lock # NoLock
        /\ until' = [until EXCEPT ![r] = MinOf(now + PollInterval, deadline[r])]
        /\ GoTo(r, "sleep")
  /\ UNCHANGED <<now, lock, stamp, deadline>> /\ NoHeartbeatChange

Poll(r) ==
  /\ place[r] = "poll"
  /\ \/ now >= deadline[r] /\ GoTo(r, "timedOut") /\ UNCHANGED <<stamp, until>>
     \/ /\ now < deadline[r] /\ lock = NoLock
        /\ GoTo(r, "freed") /\ UNCHANGED <<stamp, until>>
     \/ /\ now < deadline[r] /\ lock # NoLock /\ IsExpired(lock, now)
        /\ stamp' = [stamp EXCEPT ![r] = now]
        /\ GoTo(r, "pollClear") /\ UNCHANGED until
     \/ /\ now < deadline[r] /\ lock # NoLock /\ ~IsExpired(lock, now)
        /\ until' = [until EXCEPT ![r] = MinOf(now + PollInterval, deadline[r])]
        /\ GoTo(r, "sleep") /\ UNCHANGED stamp
  /\ UNCHANGED <<now, lock, deadline>> /\ NoHeartbeatChange

PollClear(r) ==
  /\ place[r] = "pollClear"
  /\ DeleteExpired(stamp[r])
  /\ GoTo(r, "freed")
  /\ UNCHANGED <<now, stamp, deadline, until>> /\ NoHeartbeatChange

WakeUp(r) ==
  /\ place[r] = "sleep"
  /\ now >= until[r]
  /\ GoTo(r, "poll")
  /\ UNCHANGED <<now, lock, stamp, deadline, until>> /\ NoHeartbeatChange

(* After a wait the run finds that the peer has done its work, or it loops *)
(* (which of the two, SchemaSync models).                                  *)
AfterWait(r) ==
  /\ place[r] = "freed"
  /\ \E p \in {"try", "done"} : GoTo(r, p)
  /\ UNCHANGED <<now, lock, stamp, deadline, until>> /\ NoHeartbeatChange

-----------------------------------------------------------------------------
(* The heartbeat: at most one refresh in flight, none started once stopped.*)

BeatStart(r) ==
  /\ place[r] = "held"
  /\ beat[r] = "none"
  /\ now >= nextBeat[r]
  /\ beat' = [beat EXCEPT ![r] = "update"]
  /\ beatAt' = [beatAt EXCEPT ![r] = now]
  /\ nextBeat' = [nextBeat EXCEPT ![r] = now + HeartbeatInterval]
  /\ UNCHANGED <<now, lock, place, stamp, deadline, until, fails, abort>>

(* Mutant: a refresh that ends after its run is never settled.             *)
BeatUpdateStaysInFlight(r) ==
  /\ beat[r] = "update"
  /\ IF OwnRow(r)
     THEN /\ lock' = [lock EXCEPT !.exp = beatAt[r] + Ttl]
          /\ beat' = [beat EXCEPT ![r] = IF place[r] = "held" THEN "none" ELSE @]
     ELSE beat' = [beat EXCEPT ![r] = "lookup"] /\ UNCHANGED lock
  /\ fails' = [fails EXCEPT ![r] = 0]
  /\ UNCHANGED <<now, place, stamp, deadline, until, beatAt, nextBeat, abort>>

(* refreshLock's updateMany, matched by podId.                             *)
BeatUpdate(r) ==
  /\ beat[r] = "update"
  /\ IF OwnRow(r)
     THEN /\ lock' = [lock EXCEPT !.exp = beatAt[r] + Ttl]
          /\ beat' = [beat EXCEPT ![r] = "none"]
     ELSE /\ beat' = [beat EXCEPT ![r] = "lookup"]
          /\ UNCHANGED lock
  /\ fails' = [fails EXCEPT ![r] = 0]
  /\ UNCHANGED <<now, place, stamp, deadline, until, beatAt, nextBeat, abort>>

(* ... its readLock: "stolen" and "missing" both set abortReason, unless   *)
(* the heartbeat was stopped meanwhile.                                    *)
BeatLookup(r) ==
  /\ beat[r] = "lookup"
  /\ beat' = [beat EXCEPT ![r] = "none"]
  /\ abort' = [abort EXCEPT ![r] = @ \/ place[r] = "held"]
  /\ UNCHANGED <<now, lock, place, stamp, deadline, until, beatAt, nextBeat, fails>>

(* Mutant: a refresh that throws counts as a lost lock.                    *)
BeatFailsAborts(r) ==
  /\ beat[r] # "none"
  /\ fails[r] < MaxBeatFails
  /\ fails' = [fails EXCEPT ![r] = @ + 1]
  /\ beat' = [beat EXCEPT ![r] = "none"]
  /\ abort' = [abort EXCEPT ![r] = @ \/ place[r] = "held"]
  /\ UNCHANGED <<now, lock, place, stamp, deadline, until, beatAt, nextBeat>>

(* A refresh that throws is logged and retried by the next beat.           *)
BeatFails(r) ==
  /\ beat[r] # "none"
  /\ fails[r] < MaxBeatFails
  /\ fails' = [fails EXCEPT ![r] = @ + 1]
  /\ beat' = [beat EXCEPT ![r] = "none"]
  /\ UNCHANGED <<now, lock, place, stamp, deadline, until, beatAt, nextBeat, abort>>

-----------------------------------------------------------------------------
(* The end of a run: finally { heartbeat.stop(); releaseLock() } *)

Finish(r) ==
  /\ place[r] = "held"
  /\ GoTo(r, "stopping")
  /\ UNCHANGED <<now, lock, stamp, deadline, until>> /\ NoHeartbeatChange

(* releaseLock's deleteMany, matched by podId; a failure is only logged.   *)
ReleaseLock(r) ==
  /\ place[r] = "stopping"
  /\ beat[r] = "none"
  /\ \/ lock' = IF OwnRow(r) THEN NoLock ELSE lock
     \/ Unreliable /\ UNCHANGED lock
  /\ GoTo(r, "done")
  /\ UNCHANGED <<now, stamp, deadline, until>> /\ NoHeartbeatChange

Dies(r) ==
  /\ r \in MayCrash
  /\ place[r] \notin {"idle", "done", "timedOut", "dead"}
  /\ GoTo(r, "dead")
  /\ beat' = [beat EXCEPT ![r] = "none"]
  /\ UNCHANGED <<now, lock, stamp, deadline, until, beatAt, nextBeat, fails, abort>>

-----------------------------------------------------------------------------
(* Nothing of the run is waiting to be executed at this moment.            *)
Quiet(r) ==
  /\ place[r] \in {"idle", "sleep", "held", "done", "timedOut", "dead"}
  /\ place[r] = "sleep" => now < until[r]
  /\ place[r] = "held" => beat[r] = "none" /\ now < nextBeat[r]

Tick ==
  /\ now < MaxTime
  /\ \A r \in Prompt : Quiet(r)
  /\ now' = now + 1
  /\ UNCHANGED <<lock, place, stamp, deadline, until, beat, beatAt, nextBeat, fails, abort>>

Acquire(r) ==
  \/ Start(r)
  \/ TryCall(r) \/ TryRead(r) \/ TryClear(r) \/ TryInsert(r) \/ ReadBack(r)
  \/ Poll(r) \/ PollClear(r) \/ WakeUp(r)

Heartbeat(r) == BeatStart(r) \/ BeatUpdate(r) \/ BeatLookup(r) \/ BeatFails(r)

LockNext ==
  \/ Tick
  \/ \E r \in Runs :
       \/ Acquire(r) \/ AfterWait(r)
       \/ Heartbeat(r)
       \/ Finish(r) \/ ReleaseLock(r) \/ Dies(r)

LockSpec == LockInit /\ [][LockNext]_lockVars

(* Time passes; a live process executes its pending calls, its heartbeat   *)
(* and, in the end, its work.                                              *)
LockFairness ==
  /\ WF_lockVars(Tick)
  /\ \A r \in Runs :
       /\ WF_lockVars(Acquire(r)) /\ WF_lockVars(AfterWait(r))
       /\ WF_lockVars(BeatUpdate(r) \/ BeatLookup(r))
       /\ WF_lockVars(Finish(r)) /\ WF_lockVars(ReleaseLock(r))

FairLockSpec == LockSpec /\ LockFairness

-----------------------------------------------------------------------------
(* Properties *)

(* A run whose calls and heartbeats are served in time holds the lock row  *)
(* as long as it syncs: no other run, however late its own calls are,      *)
(* takes it away, and so no two such runs sync at the same time            *)
(* (docs/sync/index.md: "the distributed lock prevents concurrent          *)
(* migrations", "a heartbeat keeps the lock alive while sync runs").       *)
HolderKeepsLock ==
  \A r \in Prompt : place[r] = "held" => lock # NoLock /\ lock.run = r

(* A live lock row is changed only by the run that wrote it: its refresh   *)
(* or its release.  Nobody else's delete, refresh or release hits it,      *)
(* whatever is delayed between reading the row and acting on it            *)
(* (sync-store.ts:230-279, docs/sync/index.md:53).                         *)
OthersLeaveLiveLockAlone ==
  [][lock # NoLock /\ lock' # lock /\ lock.exp >= now
       => BeatUpdate(lock.run) \/ ReleaseLock(lock.run)]_lockVars

(* A run gives up only because it has really lost its lock: a refresh that *)
(* failed, or was answered late, never makes a holder abort                *)
(* (schema-sync.ts:596-620, "will retry").                                 *)
AbortedRunLostLock ==
  \A r \in Runs : place[r] = "held" /\ abort[r] => ~OwnRow(r)

(* A run that starts after the lock's holder has died is never turned away *)
(* by the dead holder's row: it does not time out (with two runs and a     *)
(* wait longer than the TTL; docs/sync/index.md: "If a process crashes,    *)
(* the lock expires naturally and the next instance picks up").            *)
DeadHolderDoesNotBlock ==
  \A r, s \in Runs :
    [](r # s /\ place[r] = "dead" /\ place[s] = "idle" => [](place[s] # "timedOut"))

(* Every run that asked for the lock comes to an end: it syncs, learns     *)
(* that a peer did, or times out (schema-sync.ts:654-681).                 *)
EveryRunEnds ==
  \A r \in Runs : place[r] = "try" ~> place[r] \in {"done", "timedOut", "dead"}
=============================================================================
