------------------------ MODULE SchemaSyncInvariant ------------------------
(***************************************************************************)
(* Why SchemaSync keeps its promises: the inductive invariants behind the  *)
(* theorems of SchemaSyncProofs about the tables and the data steps.       *)
(***************************************************************************)
EXTENDS SchemaSync

-----------------------------------------------------------------------------
(* Where a run is *)

BeforeCheck == {"start", "quickSteps", "acquire", "wait", "peerHash", "peerSteps", "check"}
InWalk == {"walk", "table", "constraints", "deferred", "snapshots", "track", "hash"}
InSteps == {"steps", "fn", "record"}

(* Visiting its tables, or applying the beforeConstraints steps amid them. *)
Visiting(r) == pc[r] \in InWalk \/ (pc[r] \in InSteps /\ job[r].phase = "early")

(* What a run's place says of its job: the phase and the double check, ... *)
PhaseOK(p, j) ==
  /\ p \in BeforeCheck => j.phase = "late"
  /\ p \in {"tracking", "introspect"} \cup InWalk \cup InSteps => j.unread = {}
  /\ p \in {"tracking", "introspect"} \cup InWalk => ~j.match
  /\ p \in InWalk => j.phase = "early"
  /\ p \in InSteps /\ j.phase = "early" => ~j.match

(* ... the tables it has still to visit, those it has deferred and those   *)
(* it drops; once the deferred pass is over no "beforeConstraints" step is *)
(* left unless something has failed, and no table is visited before that.  *)
WalkOK(r, p, j) ==
  /\ j.tables \subseteq Inventory(r) /\ j.drops \cap Inventory(r) = {}
  /\ j.tables # {} => j.pass
  /\ p \in BeforeCheck \cup {"tracking", "introspect"} => j.deferred = {}
  /\ p \in {"walk", "table"} /\ j.pass /\ j.deferred # {} => j.todo \cap Early # {}
  /\ p = "constraints" => j.todo \cap Early = {} /\ j.deferred = {} /\ j.tables # {}
  /\ p \in {"snapshots", "track", "hash"} => ~j.pass
  /\ p \in {"walk", "snapshots", "track", "hash"} /\ ~j.pass =>
       /\ j.deferred = {} /\ j.tables = {}
       /\ j.failed = {} /\ ~j.stepError => j.todo \cap Early = {}
  /\ p = "snapshots" => j.unsaved \cap j.failed \cap Inventory(r) = {}
  /\ p \in {"track", "hash"} => j.unsaved = {}
  /\ p = "hash" => j.failed = {}
  /\ p = "deferred" =>
       j.tables = {} /\ j.pass /\ (j.failed = {} => j.todo \cap Early = {})
  /\ p \in InSteps /\ j.phase = "early" => j.tables = {} /\ j.pass /\ j.failed = {}
  /\ p \in InSteps /\ j.phase = "late" /\ ~j.match => j.todo \cap Early = {}

LocalInv == \A r \in Runs : PhaseOK(pc[r], job[r]) /\ WalkOK(r, pc[r], job[r])

(* A step is missing from the list of a run only when it is recorded.      *)
ListInv == \A r \in Runs : "steps" \notin job[r].unread => StepIds \subseteq recorded \cup job[r].todo

(* The statements left for a table are of those it began with.             *)
OpsInv ==
  \A r \in Runs : pc[r] = "table" =>
    \A t \in Tables : AtTable(r, t) => job[r].ops \subseteq ColumnOps(r, t)

-----------------------------------------------------------------------------
(* Removed tables *)

Foreign == {t \in Tables : \A r \in Runs : t \notin Inventory(r)}

(* What a run knows of a table that no run wants and that still exists: it *)
(* is in the tracked list the run discovered, and then among the tables it *)
(* drops or keeps.                                                         *)
Remembers(p, j, t) ==
  /\ p = "introspect" => t \in j.prev
  /\ p \in {"walk", "table", "constraints", "deferred"} \/ (p \in InSteps /\ j.phase = "early") =>
       t \in j.drops \cup j.retained
  /\ p \in {"snapshots", "track", "hash"} => t \in j.retained

OrphanInv ==
  \A t \in Foreign : live[t] # {} =>
    t \in tracked /\ \A r \in Runs : Remembers(pc[r], job[r], t)

-----------------------------------------------------------------------------
(* How often a step runs *)

AtFn(s) == {r \in Runs : pc[r] = "fn" /\ AtStep(r, s)}
AtRecord(s) == {r \in Runs : pc[r] = "record" /\ AtStep(r, s)}
Dead == {r \in Runs : pc[r] = "dead"}
Workers == {r \in Runs : Working(r)}

(* Workers who do not hold the lock have lost it.                          *)
WorkInv == Cardinality(Workers \ {holder}) <= lost

(* With transactions a step's effect and its record are one, and the run   *)
(* that is at a step has claimed it.                                       *)
TxInv ==
  realTx => \A s \in StepIds :
    /\ applied[s] = IF s \in recorded THEN 1 ELSE 0
    /\ \A r \in AtFn(s) : claim[s] = r /\ s \notin recorded
    /\ AtRecord(s) = {}

(* Without, every unrecorded execution belongs to a run that is about to   *)
(* record it or has died, and the record only lets those finish that had   *)
(* looked for it before.                                                   *)
PassInv ==
  ~realTx => \A s \in StepIds :
    /\ s \notin recorded => applied[s] <= Cardinality(AtRecord(s) \cup Dead)
    /\ s \in recorded => applied[s] + Cardinality(AtFn(s)) <= 1 + lost + Cardinality(Dead)
    /\ s \in recorded \/ AtRecord(s) # {} => applied[s] > 0

-----------------------------------------------------------------------------
(* One version: what follows is about runs that deploy the same schema,    *)
(* the instances of one deployment.                                        *)

AllCarry(v) == \A r \in Runs : Carries[r] = v

Wanted(v) == {t \in Tables : Desired[v][t] # {}}

(* A table without its keys is to be rebuilt, as its snapshot tells: ...   *)
Good(v, t) == live[t] = {} \/ keyed[t] = WantedKeys(v, t)
Stale(v, s, t) == s # "none" /\ Keys[s][t] # Keys[v][t]

(* ... a run that has not been at it will rebuild it.                      *)
ToRebuild(r, t) ==
  /\ t \in job[r].tables /\ job[r].seen[t] # {} /\ KeysDiffer(r, t)
  /\ ~(pc[r] = "constraints" /\ AtTable(r, t))

KeysInv(v) ==
  /\ keying = "none" => \A t \in Tables : keyed[t] = {}
  /\ keying = "recreate" => \A t \in Wanted(v) :
       /\ Good(v, t) \/ Stale(v, snapshot[t], t)
       /\ \A r \in Runs : Visiting(r) => Good(v, t) \/ t \in job[r].failed \/ ToRebuild(r, t)

(* As long as no lease was lost, what a run has discovered is up to date.  *)
StoredInv ==
  lost = 0 => \A r \in Runs :
    Visiting(r) /\ pc[r] \notin {"snapshots", "track", "hash"} => job[r].stored = snapshot

Ready(v, t) ==
  /\ Desired[v][t] \subseteq live[t] /\ keyed[t] = WantedKeys(v, t)
  /\ indexed[t] = v \/ (keying = "recreate" /\ lost > 0)

Settled(v) == \A t \in Wanted(v) : Ready(v, t) /\ ~Stale(v, snapshot[t], t)

(* A walking run accounts for every table of its version: it is still to   *)
(* be visited, waits for its constraints, has an error entry, or is done;  *)
(* and in the end its snapshot is that version's.                          *)
Covered(v, j) ==
  \A t \in Wanted(v) : t \in j.tables \cup j.deferred \cup j.failed \/ Ready(v, t)

Saved(v, j) ==
  \A t \in Wanted(v) : t \in j.unsaved \cup j.failed \/ ~Stale(v, snapshot[t], t)

(* What a run believes is true: while it walks, that every table is        *)
(* accounted for; that its hash is the stored one; that the tables are     *)
(* done when it turns to the late steps; and what it reports.              *)
Faithful(v, r) ==
  /\ Visiting(r) => Covered(v, job[r])
  /\ pc[r] \in {"snapshots", "track", "hash"} => Saved(v, job[r])
  /\ job[r].match \/ pc[r] \in {"quickSteps", "peerSteps"} => hash = v
  /\ pc[r] \in InSteps /\ job[r].phase = "late" => Settled(v)
  /\ status[r] \in Succeeded => Settled(v) /\ StepIds \subseteq recorded

TruthInv(v) ==
  /\ hash \in {Before, v} /\ (hash = v => Settled(v))
  /\ \A r \in Runs : Faithful(v, r)

=============================================================================
