--------------------------- MODULE DependencyOrder ---------------------------
(***************************************************************************)
(* The pure functions schema sync orders its DDL by, and what they promise.*)
(* A graph is a set of pairs <<from, to>>: `from` depends on `to`.  Names  *)
(* are numbers, so that "sorted by name" is the order of the numbers.      *)
(*                                                                         *)
(* Source: packages/db/src/schema/dependency-order.ts.                     *)
(***************************************************************************)
EXTENDS Integers, Sequences, FiniteSets, SequencesExt

Smaller(a, b) == IF a < b THEN a ELSE b

(* toSorted: a set of names as a sequence in the order of the names.       *)
Sorted(S) ==
  [i \in 1..Cardinality(S) |-> CHOOSE n \in S : Cardinality({m \in S : m < n}) = i - 1]

(* The adjacency lists: no self-loops, no names outside `nodes`. *)
Adjacency(nodes, edges) ==
  [n \in nodes |-> Sorted({to \in nodes \ {n} : <<n, to>> \in edges})]

-----------------------------------------------------------------------------
(* Tarjan's algorithm.  `t` holds its variables: index and lowlink of each *)
(* name (0: not visited), the counter, the stack, the order; and where it  *)
(* is: the calls of visit under way, each with the neighbours it has still *)
(* to look at, and the names the outermost loop has still to look at.      *)

Numbered(t, node) == t.index[node] # 0

Enter(t, node, neighbours) ==
  [t EXCEPT !.counter = @ + 1, !.index[node] = t.counter + 1, !.low[node] = t.counter + 1,
            !.stack = Append(@, node), !.calls = Append(@, [node |-> node, rest |-> neighbours])]

Lower(t, node, number) == [t EXCEPT !.low[node] = Smaller(@, number)]

(* Mutant: nodes of complete groups, off the stack, count as well. *)
MeetOffStack(t, node, next) == Lower(t, node, t.index[next])

(* A neighbour that is visited already. *)
Meet(t, node, next) ==
  IF next \in ToSet(t.stack) THEN Lower(t, node, t.index[next]) ELSE t

(* The group of a node that reaches nothing below it on the stack.         *)
Complete(t, node) ==
  LET from == CHOOSE i \in DOMAIN t.stack : t.stack[i] = node
      group == {t.stack[i] : i \in from..Len(t.stack)}
  IN  IF t.low[node] # t.index[node] THEN t
      ELSE [t EXCEPT !.stack = SubSeq(@, 1, from - 1), !.order = Append(@, Sorted(group))]

(* The end of a call; its caller takes its lowlink. *)
Return(t, node) ==
  LET calls == Front(t.calls)
      left == [t EXCEPT !.calls = calls]
  IN  IF calls = <<>> THEN left ELSE Lower(left, Last(calls).node, t.low[node])

(* The outermost loop, or the call in progress, goes on to its next name.  *)
NextRoot(t) == [t EXCEPT !.roots = Tail(@)]
NextNeighbour(t) == [t EXCEPT !.calls[Len(t.calls)].rest = Tail(@)]

TarjanStep(adjacency, t) ==
  IF t.calls = <<>>
  THEN IF t.roots = <<>> THEN t
       ELSE LET root == Head(t.roots)
            IN  IF Numbered(t, root) THEN NextRoot(t) ELSE Enter(NextRoot(t), root, adjacency[root])
  ELSE LET call == Last(t.calls)
           next == Head(call.rest)
       IN  IF call.rest = <<>> THEN Return(Complete(t, call.node), call.node)
           ELSE IF Numbered(t, next) THEN Meet(NextNeighbour(t), call.node, next)
           ELSE Enter(NextNeighbour(t), next, adjacency[next])

TarjanStart(nodes) ==
  LET none == [n \in nodes |-> 0]
  IN  [index |-> none, low |-> none, counter |-> 0, stack |-> <<>>, order |-> <<>>,
       calls |-> <<>>, roots |-> Sorted(nodes)]

(* The strongly connected components, dependencies first: the order when   *)
(* every name and every neighbour has had its step, and every call its end.*)
topoOrder(nodes, edges) ==
  LET adjacency == Adjacency(nodes, edges)
      after[i \in Nat] == IF i = 0 THEN TarjanStart(nodes) ELSE TarjanStep(adjacency, after[i - 1])
      size == Cardinality(nodes)
  IN  after[2 * size + size * size].order

(* The seeds and everything that depends on one of them: the fixed point   *)
(* over the edge list.                                                     *)
reachable(seeds, edges) ==
  LET after[i \in Nat] ==
        IF i = 0 THEN seeds ELSE after[i - 1] \cup {e[1] : e \in {d \in edges : d[2] \in after[i - 1]}}
  IN  after[Cardinality(edges)]

-----------------------------------------------------------------------------
(***************************************************************************)
(* What topoOrder promises, without an algorithm: every name once, in one  *)
(* group with exactly the names it is mutually dependent on, sorted, and   *)
(* no group before one it depends on.                                      *)
(***************************************************************************)

(* Who depends on whom, directly or not: b is in every set of names that   *)
(* holds a and whatever a member of it depends on.                         *)
Depends(nodes, edges) ==
  LET closed == {S \in SUBSET nodes : \A a \in S, b \in nodes : <<a, b>> \in edges => b \in S}
  IN  {p \in nodes \X nodes : \A S \in closed : p[1] \in S => p[2] \in S}

IsDependencyOrder(order, nodes, edges) ==
  LET depends == Depends(nodes, edges)
  IN  /\ order \in Seq(Seq(nodes))
      /\ \A n \in nodes : \E i \in DOMAIN order : n \in ToSet(order[i])
      /\ \A i \in DOMAIN order : order[i] = Sorted(ToSet(order[i]))
      /\ \A i, j \in DOMAIN order : i # j => ToSet(order[i]) \cap ToSet(order[j]) = {}
      /\ \A i, j \in DOMAIN order : \A a \in ToSet(order[i]), b \in ToSet(order[j]) :
           <<a, b>> \in depends => j <= i /\ (j = i <=> <<b, a>> \in depends)

=============================================================================
