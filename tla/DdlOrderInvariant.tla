------------------------- MODULE DdlOrderInvariant -------------------------
(***************************************************************************)
(* Why DdlOrder keeps its promises: the inductive invariants behind the    *)
(* theorems of SchemaSyncProofs, of Tarjan's walk and of the runs.         *)
(***************************************************************************)
EXTENDS DdlOrder

-----------------------------------------------------------------------------
(* Tarjan's walk, on the record `t` of DependencyOrder *)

Transitive(nodes, D) == \A a, b, c \in nodes : <<a, b>> \in D /\ <<b, c>> \in D => <<a, c>> \in D

(* What the proof needs of a graph: its adjacency lists, and a relation    *)
(* that is reflexive, transitive and holds between neighbours.             *)
GoodGraph(nodes, adj, D) ==
  /\ nodes \in SUBSET Nat /\ IsFiniteSet(nodes)
  /\ adj \in [nodes -> Seq(nodes)]
  /\ \A a \in nodes : <<a, a>> \in D /\ \A b \in ToSet(adj[a]) : <<a, b>> \in D
  /\ Transitive(nodes, D)
  /\ \A a \in nodes : Len(adj[a]) < Cardinality(nodes)

CallsOf(nodes) == [node : nodes, rest : Seq(nodes)]

TarjanType(nodes) ==
  [index : [nodes -> Nat], low : [nodes -> Nat], counter : Nat, stack : Seq(nodes), order : Seq(Seq(nodes)),
   calls : Seq(CallsOf(nodes)), roots : Seq(nodes)]

OnStack(t) == ToSet(t.stack)
NamesOf(order) == UNION {ToSet(order[i]) : i \in DOMAIN order}
Grouped(t) == NamesOf(t.order)
NodesOf(calls) == {c.node : c \in ToSet(calls)}
Called(t) == NodesOf(t.calls)
CallNodes(calls) == [i \in DOMAIN calls |-> calls[i].node]

(* The neighbours each node has looked at, while these calls are under way.*)
Looked(nodes, adj, calls) ==
  [n \in nodes |-> {m \in ToSet(adj[n]) : \A c \in ToSet(calls) : c.node = n => m \notin ToSet(c.rest)}]

(* A list of nodes in the order of their indexes. *)
Rises(index, s) == \A i, j \in DOMAIN s : i < j => index[s[i]] < index[s[j]]

(* So are the stack and the nodes of the calls; a call's node is on the    *)
(* stack, and no node of the stack is below the first call's.              *)
StackHolds(t) ==
  /\ Rises(t.index, t.stack)
  /\ Rises(t.index, CallNodes(t.calls))
  /\ Called(t) \subseteq OnStack(t)
  /\ \A n \in OnStack(t) : \E c \in Called(t) : t.index[c] <= t.index[n]

(* A node is numbered when it is on the stack or in a group, never both;   *)
(* the others, but for those of X, are still to be looked at.              *)
NumbersHold(nodes, t, X) ==
  /\ \A n \in nodes : t.index[n] <= t.counter
  /\ \A n \in nodes : t.index[n] # 0 <=> n \in OnStack(t) \cup Grouped(t)
  /\ OnStack(t) \cap Grouped(t) = {}
  /\ \A n \in nodes \ X : t.index[n] = 0 => n \in ToSet(t.roots)

(* What a numbered node has looked at is numbered, but for the nodes of X. *)
EdgesHold(nodes, adj, t, X) ==
  /\ \A c \in ToSet(t.calls) : ToSet(c.rest) \subseteq ToSet(adj[c.node])
  /\ \A n \in nodes : t.index[n] # 0 => \A m \in Looked(nodes, adj, t.calls)[n] \ X : t.index[m] # 0

(* The lowlinks: of a node on the stack that a node reaches; below the     *)
(* node itself when its call has ended; and the lowlink of a call is not   *)
(* above those of the nodes it owns, up to the next call, nor above what   *)
(* these have looked at.                                                   *)
Owns(index, called, c, n) ==
  index[c] <= index[n] /\ \A d \in called : index[d] <= index[c] \/ index[n] < index[d]

Lows(D, index, low, on, called, looked) ==
  /\ \A n \in on : /\ low[n] <= index[n]
                   /\ n \notin called => low[n] # index[n]
                   /\ \E m \in on : index[m] = low[n] /\ <<n, m>> \in D
  /\ \A c \in called, n \in on : index[c] <= index[n] => <<c, n>> \in D
  /\ \A c \in called, n \in on : Owns(index, called, c, n) =>
       low[c] <= low[n] /\ \A m \in looked[n] \cap on : low[c] <= index[m]

LowsHold(nodes, adj, D, t) ==
  Lows(D, t.index, t.low, OnStack(t), Called(t), Looked(nodes, adj, t.calls))

(* The groups: each mutually dependent, and depending on no later one.     *)
GroupsHold(adj, D, order) ==
  /\ \A i \in DOMAIN order : order[i] = Sorted(ToSet(order[i]))
  /\ \A i, j \in DOMAIN order : i # j => ToSet(order[i]) \cap ToSet(order[j]) = {}
  /\ \A i \in DOMAIN order : \A a, b \in ToSet(order[i]) : <<a, b>> \in D
  /\ \A i \in DOMAIN order : \A a \in ToSet(order[i]) :
       \A b \in ToSet(adj[a]) : \E j \in 1..i : b \in ToSet(order[j])

(* The invariant; the nodes of X may be overlooked for a moment. *)
TarjanInvBut(nodes, adj, D, t, X) ==
  /\ t \in TarjanType(nodes)
  /\ StackHolds(t)
  /\ NumbersHold(nodes, t, X)
  /\ EdgesHold(nodes, adj, t, X)
  /\ LowsHold(nodes, adj, D, t)
  /\ GroupsHold(adj, D, t.order)

TarjanInv(nodes, adj, D, t) == TarjanInvBut(nodes, adj, D, t, {})

-----------------------------------------------------------------------------
(* The runs *)

Drops == [kind : {"drop"}, group : SUBSET Removed]
Shapes == [kind : {"table"}, name : model.tables, cycle : SUBSET model.tables]
DropOf(g) == [kind |-> "drop", group |-> ToSet(g)]

(* A walk drops removed tables only, and comes to the deferred constraints *)
(* after its last table.                                                   *)
GoodWalk(w) ==
  /\ w \in Seq(Drops \cup Shapes \cup [kind : {"deferred"}])
  /\ \A i \in DOMAIN w : w[i].kind = "table" => \E j \in (i + 1)..Len(w) : w[j].kind = "deferred"

HasTable(w, t) == \E x \in ToSet(w) : x.kind = "table" /\ x.name = t
HasDrop(w, n) == \E x \in ToSet(w) : x.kind = "drop" /\ n \in x.group

Walking == run.stage \in {"predrop", "walk", "shape", "create", "constraints"}
OnTable == Head(run.walk).kind = "table"

(* t is the model's: what the run's hash says of every table. *)
IsTheModels(t) == t \in db.tables /\ ~DropsTable(t) /\ Outbound(t) = Goal(t)

(* The engine: a constraint has its target, and the key its target has.    *)
EngineHolds == \A r \in db.refs : r[2] \in db.tables /\ r[3] = LiveKey(r[2])

(* The control table: only managed tables are tracked, every removed table *)
(* that is left is, and a snapshot names the key of now or of the model.   *)
StoreHolds ==
  /\ store.tracked \subseteq model.tables \cup model.before
  /\ (model.before \ model.tables) \cap db.tables \subseteq store.tracked
  /\ \A s \in store.snaps : s[3] \in {"old", GoalKey(s[2])}
  /\ store.settled => run.stage = "idle" /\ SettledIsTheModel

(* Constraints of the model's tables on keys about to be rebuilt: listed   *)
(* before the walk, and gone in it.                                        *)
KeysToRebuild ==
  {r \in db.refs : r[1] \in model.tables /\ r[2] \in model.tables /\ Rekeys(r[2])}
PredropHolds ==
  /\ run.stage = "predrop" =>
       /\ KeysToRebuild \subseteq run.predrop
       /\ \A r \in run.predrop : r[1] \in model.tables /\ r[2] \in model.tables /\ model.change[r[2]] # "none"
       /\ \A t \in model.tables : HasTable(run.walk, t)
  /\ run.stage \notin {"idle", "predrop"} => KeysToRebuild = {}

(* Where a table step stands. *)
StepHolds ==
  /\ run.stage \in {"shape", "create", "constraints"} => run.walk # <<>> /\ OnTable
  /\ run.stage = "shape" => DropsTable(Head(run.walk).name)
  /\ run.stage = "create" => Head(run.walk).name \notin db.tables
  /\ run.stage = "constraints" => Head(run.walk).name \in db.tables /\ ~DropsTable(Head(run.walk).name)

(* The tables whose constraints wait for the others of their cycle. *)
DeferredHolds ==
  /\ run.deferred # <<>> => \E i \in DOMAIN run.walk : run.walk[i].kind = "deferred"
  /\ \A t \in ToSet(run.deferred) : t \in model.tables /\ t \in db.tables /\ ~DropsTable(t)

(* Every table still has its step, or waits, or is in error, or is right. *)
TablesHold ==
  \A t \in model.tables :
    t \in run.errors \/ HasTable(run.walk, t) \/ t \in ToSet(run.deferred) \/ IsTheModels(t)
RemovedHold ==
  \A n \in Removed : n \in run.errors \/ HasDrop(run.walk, n) \/ n \notin db.tables

WalkHolds ==
  /\ run.stage # "idle" => runs < MaxRuns
  /\ Walking => GoodWalk(run.walk) /\ DeferredHolds /\ TablesHold /\ RemovedHold
  /\ run.stage \in {"track", "hash"} =>
       /\ \A t \in model.tables : t \in run.errors \/ IsTheModels(t)
       /\ \A n \in model.before \ model.tables : n \in run.errors \/ n \notin db.tables

DdlIInv ==
  DdlTypeOK /\ EngineHolds /\ StoreHolds /\ PredropHolds /\ StepHolds /\ WalkHolds

(* The names of a model are finitely many numbers: what topoOrder needs.   *)
ModelHolds ==
  /\ model.tables \in SUBSET Nat /\ IsFiniteSet(model.tables)
  /\ model.before \in SUBSET Nat /\ IsFiniteSet(model.before)
=============================================================================
