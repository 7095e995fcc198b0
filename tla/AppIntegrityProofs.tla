------------------------- MODULE AppIntegrityProofs -------------------------
(***************************************************************************)
(* Theorems about AppIntegrity.                                            *)
(*                                                                         *)
(* OrphansOnlyByRace rests on one invariant of the cascade (DeleteInv):    *)
(* every row that matches the filter of a nested call is in the hands of   *)
(* some call (Seen), and for every reference of those rows that no call is *)
(* at work on, no child is left (Handled).  So whenever a row goes, its    *)
(* children have gone, or some call still has the reference in hand        *)
(* (Covered).  Everybody else's deletes only take rows and references away *)
(* (Shrinks), which these three survive; rows somebody has written         *)
(* meanwhile (Touched) are exempt.                                         *)
(*                                                                         *)
(* DeleteIsExact rests on the same three, with the rows that were missing  *)
(* from the start exempt, and on two more facts of a cascade nobody        *)
(* disturbs: what it has changed so far is only what the delete may change *)
(* (Within), and its frames hold only rows to be deleted (Follows).  When  *)
(* the root deletes, nothing is in hand, so the rows that are gone are     *)
(* closed under the cascades; the rows to be deleted are the smallest such *)
(* set (IsClosure).                                                        *)
(***************************************************************************)
EXTENDS AppIntegrity, FiniteSetTheorems, SequenceTheorems, WellFoundedInduction, TLAPS

-----------------------------------------------------------------------------
(* Values: databases and stacks of one case l                              *)

DBs(l) == [Tables -> [Keys -> StoredRows(l) \cup {NoRow}]]
FrameSet(l) ==
  [table : Tables, filter : Filters, entered : BOOLEAN, records : SUBSET Keys,
   restrict : SUBSET DOMAIN l.fks, left : SUBSET DOMAIN l.fks]
Stacks(l) == Seq(FrameSet(l))

Par(l, f) == l.fks[f].parent
Chi(l, f) == l.fks[f].child
Tracked(l) == {f \in DOMAIN l.fks : l.fks[f].action # "setDefault"}

(* Row k of f's child table exists and references p.                       *)
Points(l, v, f, k, p) == v[Chi(l, f)][k] # NoRow /\ v[Chi(l, f)][k][f] = p

(* Matching, of a case.                                                    *)
Hits(l, v, t, filter) ==
  {k \in Live(v, t) :
     \/ filter.by = "keys" /\ k \in filter.keys
     \/ filter.by = "ref"  /\ v[t][k][filter.fk] \in filter.keys
     \/ filter.by = "some" /\ \E j \in Live(v, Chi(l, filter.fk)) :
                                 v[Chi(l, filter.fk)][j][filter.fk] = k}

(* From u to v rows are only removed and references only cleared, but for  *)
(* the rows in X.                                                          *)
RowShrinks(l, a, b) ==
  b = NoRow \/ (a # NoRow /\ \A f \in DOMAIN l.fks : b[f] = a[f] \/ b[f] = Null)
Shrinks(l, u, v, X) ==
  \A t \in Tables : \A k \in Keys : <<t, k>> \in X \/ RowShrinks(l, u[t][k], v[t][k])

(* Call i of the stack s has reference f to check or to act on, or the call*)
(* above it is deleting the rows with that reference.                      *)
Doing(s, i, f) ==
  f \in s[i].left \cup s[i].restrict \/ (i < Len(s) /\ s[i + 1].filter.fk = f)

(* The shape of a stack.                                                   *)
FramesOK(l, s) ==
  /\ \A i \in 1..Len(s) :
       /\ \A f \in s[i].left \cup s[i].restrict : Par(l, f) = s[i].table
       /\ ~s[i].entered => s[i].records = {} /\ s[i].restrict = {} /\ s[i].left = {}
       /\ s[i].entered /\ s[i].filter.by = "some" => \A f \in DOMAIN l.fks : Par(l, f) # s[i].table
       /\ s[i].filter.by = "ref" => s[i].filter.fk \in DOMAIN l.fks /\ Chi(l, s[i].filter.fk) = s[i].table
  /\ \A i \in 1..Len(s) : i < Len(s) =>
       /\ s[i].entered /\ s[i].restrict = {}
       /\ s[i + 1].filter.by = "ref" /\ s[i + 1].filter.keys = s[i].records

Seen(l, s, v, X) ==
  \A i \in 1..Len(s) : s[i].entered /\ (\E f \in DOMAIN l.fks : Par(l, f) = s[i].table) =>
    \A k \in Hits(l, v, s[i].table, s[i].filter) :
      <<s[i].table, k>> \in X \/ \E j \in 1..i : s[j].table = s[i].table /\ k \in s[j].records

Handled(l, s, v, X) ==
  \A i \in 1..Len(s), f \in Tracked(l), p \in Keys, k \in Keys :
    /\ p \in s[i].records /\ Par(l, f) = s[i].table
    /\ Points(l, v, f, k, p) /\ ~Doing(s, i, f)
    => <<Chi(l, f), k>> \in X

(* The references somebody is at work on.                                  *)
Hand(l, s) ==
  {h \in Tracked(l) \X Keys :
     \E i \in 1..Len(s) : s[i].table = Par(l, h[1]) /\ h[2] \in s[i].records /\ Doing(s, i, h[1])}

Covered(l, v, X, H) ==
  \A f \in Tracked(l), k \in Keys, p \in Keys :
    Points(l, v, f, k, p) /\ v[Par(l, f)][p] = NoRow
    => <<Chi(l, f), k>> \in X \/ <<Par(l, f), p>> \in X \/ <<f, p>> \in H

(* What holds of a cascade with the rows X exempt, and what its steps do.  *)
CascadeOK(l, s, v, X) == FramesOK(l, s) /\ Seen(l, s, v, X) /\ Handled(l, s, v, X)

(* From stack s and database u to r and v, whatever others have in hand.   *)
Moves(l, s, u, r, v, X) ==
  /\ CascadeOK(l, r, v, X) /\ Shrinks(l, u, v, {})
  /\ \A H : Covered(l, u, X, H \cup Hand(l, s)) => Covered(l, v, X, H \cup Hand(l, r))

(* What an insert or a patch does to a database.                           *)
Effect(l, call, v) ==
  [v EXCEPT ![call.table] = [k \in Keys |->
     IF k \notin DOMAIN call.rows THEN v[call.table][k]
     ELSE IF call.op = "insert" THEN call.rows[k]
     ELSE IF v[call.table][k] = NoRow THEN NoRow
     ELSE [f \in DOMAIN l.fks |-> IF f \in call.fks THEN call.rows[k][f] ELSE v[call.table][k][f]]]]

-----------------------------------------------------------------------------
(* Invariants *)

(* The stages of a call.                                                   *)
PcInv ==
  \A c \in Clients :
    /\ pc[c] \in {"idle", "cascade", "check"} => outcome[c] = "none"
    /\ pc[c] = "finish" => outcome[c] # "none"
    /\ pc[c] # "done" => IsDelete(c) \/ IsWrite(c)
    /\ pc[c] = "cascade" => IsDelete(c)
    /\ pc[c] = "check" => IsWrite(c)
    /\ IsWrite(c) => checks[c] \subseteq Call(c).fks

(* Whoever is not alone knows.                                             *)
OverlapInv == \A c, d \in Clients : c # d /\ Active(c) /\ Active(d) => overlapped[c]

(* The rows written beside another call.                                   *)
Written(w) == IsWrite(w) /\ overlapped[w] /\ outcome[w] = "ok" /\ (realTx => pc[w] = "done")
Touched ==
  {x \in Tables \X Keys :
     \E w \in Clients : Written(w) /\ Call(w).table = x[1] /\ x[2] \in DOMAIN Call(w).rows}

DeleteInv ==
  \A c \in Clients : pc[c] = "cascade" =>
    /\ FramesOK(load, stack[c])
    /\ Seen(load, stack[c], View(c), Touched)
    /\ Handled(load, stack[c], View(c), Touched)

(* Without real transactions, while no delete has failed.                  *)
NoFailedDelete == \A c \in Clients : IsDelete(c) => outcome[c] \notin Failed
Hands(C) == UNION {Hand(load, stack[c]) : c \in C}
PassInv == ~realTx /\ NoFailedDelete => Covered(load, db, Touched, Hands(Clients))

(* With real transactions: what is committed, and what a client will       *)
(* commit compared with its snapshot.                                      *)
CommittedInv == realTx => Covered(load, db, Touched, {})
SnapshotInv ==
  \A c \in Clients : realTx /\ Active(c) => Shrinks(load, tx[c].snapshot, db, Touched)
DeleteViewInv ==
  \A c \in Clients : realTx /\ Active(c) /\ IsDelete(c) /\ outcome[c] \notin Failed =>
    /\ Shrinks(load, tx[c].snapshot, tx[c].view, {})
    /\ Covered(load, tx[c].view, Touched, Hand(load, stack[c]))
WriteViewInv ==
  \A c \in Clients : realTx /\ Active(c) /\ IsWrite(c) =>
    tx[c].view = IF outcome[c] = "ok" THEN Effect(load, Call(c), tx[c].snapshot)
                 ELSE tx[c].snapshot

(* An insert or a patch nobody disturbed has the database it began with.   *)
AloneInv ==
  \A c \in Clients : Active(c) /\ IsWrite(c) /\ ~overlapped[c] =>
    /\ realTx \/ pc[c] = "check" => db = start[c]
    /\ realTx => tx[c].snapshot = start[c]

(* The references of f in S, in a call's rows, are there.                  *)
Verified(l, call, v, S) ==
  \A f \in S : {call.rows[k][f] : k \in DOMAIN call.rows} \ {Null} \subseteq Live(v, Par(l, f))

(* The checks that have passed, and the verdict.                           *)
VerdictInv ==
  \A c \in Clients : IsWrite(c) /\ ~overlapped[c] =>
    /\ pc[c] = "check" => Verified(load, Call(c), start[c], Call(c).fks \ checks[c])
    /\ pc[c] \in {"finish", "done"} =>
         (outcome[c] = "missing" <=> ~Verified(load, Call(c), start[c], Call(c).fks))

(* What an insert or a patch goes through, alone, and what keeps references*)
(* whole.                                                                  *)
AloneIInv == TypeOK /\ PcInv /\ OverlapInv /\ WriteViewInv /\ AloneInv /\ VerdictInv
OrphanInv == DeleteInv /\ PassInv /\ CommittedInv /\ SnapshotInv /\ DeleteViewInv

-----------------------------------------------------------------------------
(* Rows that shrink                                                        *)

(* The foreign keys of a case.                                             *)
LEMMA FkFacts ==
  ASSUME NEW l \in Workloads, NEW f \in DOMAIN l.fks
  PROVE  /\ Chi(l, f) \in Tables /\ Par(l, f) \in Tables /\ l.fks[f].action \in Actions
         /\ f \in Nat
<1>1. l.fks \in Seq(ForeignKeys)
  BY WorkloadsAssumption
<1>2. DOMAIN l.fks = 1..Len(l.fks) /\ Len(l.fks) \in Nat /\ l.fks[f] \in ForeignKeys
  BY <1>1
<1> QED
  BY <1>2 DEF ForeignKeys, Chi, Par

LEMMA TrackedFacts ==
  ASSUME NEW l \in Workloads, NEW f \in Tracked(l)
  PROVE  /\ f \in DOMAIN l.fks
         /\ Chi(l, f) \in Tables /\ Par(l, f) \in Tables
  BY FkFacts DEF Tracked

(* A row that has only shrunk pointed where it points.                     *)
LEMMA ShrinkPoints ==
  ASSUME NEW l \in Workloads, NEW u, NEW v, NEW X, Shrinks(l, u, v, X),
         NEW f \in DOMAIN l.fks, NEW k \in Keys, NEW p \in Keys,
         <<Chi(l, f), k>> \notin X, Points(l, v, f, k, p)
  PROVE  Points(l, u, f, k, p)
<1>1. RowShrinks(l, u[Chi(l, f)][k], v[Chi(l, f)][k])
  BY FkFacts DEF Shrinks
<1> QED
  BY <1>1, NullAssumption DEF RowShrinks, Points

LEMMA ShrinkPointsAll ==
  ASSUME NEW l \in Workloads, NEW u, NEW v, Shrinks(l, u, v, {}),
         NEW f \in DOMAIN l.fks, NEW k \in Keys, NEW p \in Keys, Points(l, v, f, k, p)
  PROVE  Points(l, u, f, k, p)
<1>1. RowShrinks(l, u[Chi(l, f)][k], v[Chi(l, f)][k])
  BY FkFacts DEF Shrinks
<1> QED
  BY <1>1, NullAssumption DEF RowShrinks, Points

(* A row that was missing is missing.                                      *)
LEMMA ShrinkDead ==
  ASSUME NEW l \in Workloads, NEW u, NEW v, NEW X, Shrinks(l, u, v, X),
         NEW t \in Tables, NEW k \in Keys, <<t, k>> \notin X, u[t][k] = NoRow
  PROVE  v[t][k] = NoRow
  BY DEF Shrinks, RowShrinks

LEMMA ShrinkReflexive ==
  ASSUME NEW l, NEW v, NEW X
  PROVE  Shrinks(l, v, v, X)
  BY DEF Shrinks, RowShrinks

LEMMA ShrinkTransitive ==
  ASSUME NEW l, NEW u, NEW v, NEW w, NEW X, Shrinks(l, u, v, X), Shrinks(l, v, w, X)
  PROVE  Shrinks(l, u, w, X)
<1> SUFFICES ASSUME NEW t \in Tables, NEW k \in Keys, <<t, k>> \notin X
             PROVE  RowShrinks(l, u[t][k], w[t][k])
  BY DEF Shrinks
<1>1. RowShrinks(l, u[t][k], v[t][k]) /\ RowShrinks(l, v[t][k], w[t][k])
  BY DEF Shrinks
<1> QED
  BY <1>1 DEF RowShrinks

LEMMA ShrinkMonotone ==
  ASSUME NEW l, NEW u, NEW v, NEW X, NEW Y, X \subseteq Y, Shrinks(l, u, v, X)
  PROVE  Shrinks(l, u, v, Y)
  BY DEF Shrinks

(* What matches a filter after a shrink matched it before.                 *)
LEMMA ShrinkHits ==
  ASSUME NEW l \in Workloads, NEW u, NEW v, NEW X, Shrinks(l, u, v, X),
         NEW t \in Tables, NEW filter \in Filters, filter.by # "some",
         filter.by = "ref" => filter.fk \in DOMAIN l.fks,
         NEW k \in Hits(l, v, t, filter), <<t, k>> \notin X
  PROVE  k \in Hits(l, u, t, filter)
<1>1. k \in Keys /\ v[t][k] # NoRow
  BY DEF Hits, Live
<1>2. RowShrinks(l, u[t][k], v[t][k]) /\ u[t][k] # NoRow
  BY <1>1 DEF Shrinks, RowShrinks
<1>3. filter.keys \subseteq Keys
  BY DEF Filters
<1>4. k \in Live(u, t)
  BY <1>1, <1>2 DEF Live
<1>5. CASE filter.by = "keys"
  BY <1>4, <1>5 DEF Hits
<1>6. CASE filter.by = "ref"
  <2>1. v[t][k][filter.fk] \in filter.keys
    BY <1>6 DEF Hits
  <2>2. v[t][k][filter.fk] = u[t][k][filter.fk]
    BY <1>1, <1>2, <1>3, <1>6, <2>1, NullAssumption DEF RowShrinks
  <2> QED
    BY <1>4, <1>6, <2>1, <2>2 DEF Hits
<1> QED
  BY <1>5, <1>6 DEF Filters

-----------------------------------------------------------------------------
(* More rows written by others                                             *)

LEMMA SeenMonotone ==
  ASSUME NEW l, NEW s, NEW v, NEW X, NEW Y, X \subseteq Y, Seen(l, s, v, X)
  PROVE  Seen(l, s, v, Y)
  BY DEF Seen

LEMMA HandledMonotone ==
  ASSUME NEW l, NEW s, NEW v, NEW X, NEW Y, X \subseteq Y, Handled(l, s, v, X)
  PROVE  Handled(l, s, v, Y)
  BY DEF Handled

LEMMA CoveredMonotone ==
  ASSUME NEW l, NEW v, NEW X, NEW Y, NEW G, NEW H, X \subseteq Y, G \subseteq H, Covered(l, v, X, G)
  PROVE  Covered(l, v, Y, H)
<1> SUFFICES ASSUME NEW f \in Tracked(l), NEW k \in Keys, NEW p \in Keys,
                    Points(l, v, f, k, p), v[Par(l, f)][p] = NoRow
             PROVE  <<Chi(l, f), k>> \in Y \/ <<Par(l, f), p>> \in Y \/ <<f, p>> \in H
  BY DEF Covered
<1>1. <<Chi(l, f), k>> \in X \/ <<Par(l, f), p>> \in X \/ <<f, p>> \in G
  BY DEF Covered
<1> QED
  BY <1>1

(* When the database stays and no reference leaves the hands.              *)
LEMMA StillMoves ==
  ASSUME NEW l, NEW s, NEW r, NEW v, NEW X, CascadeOK(l, r, v, X), Hand(l, s) \subseteq Hand(l, r)
  PROVE  Moves(l, s, v, r, v, X)
<1>1. Shrinks(l, v, v, {})
  BY ShrinkReflexive
<1>2. ASSUME NEW H, Covered(l, v, X, H \cup Hand(l, s))
      PROVE  Covered(l, v, X, H \cup Hand(l, r))
  <2>1. H \cup Hand(l, s) \subseteq H \cup Hand(l, r) /\ X \subseteq X
    OBVIOUS
  <2> QED
    BY <1>2, <2>1, CoveredMonotone
<1> QED
  BY <1>1, <1>2 DEF Moves

-----------------------------------------------------------------------------
(* The stack while others delete                                           *)

LEMMA FrameFacts ==
  ASSUME NEW l \in Workloads, NEW s \in Stacks(l), NEW i \in 1..Len(s)
  PROVE  /\ s[i].table \in Tables /\ s[i].filter \in Filters /\ s[i].entered \in BOOLEAN
         /\ s[i].records \subseteq Keys
         /\ s[i].restrict \subseteq DOMAIN l.fks /\ s[i].left \subseteq DOMAIN l.fks
<1>1. s[i] \in FrameSet(l)
  BY DEF Stacks
<1> QED
  BY <1>1 DEF FrameSet

LEMMA SeenStable ==
  ASSUME NEW l \in Workloads, NEW s \in Stacks(l), FramesOK(l, s),
         NEW u, NEW v, NEW X, Shrinks(l, u, v, X), Seen(l, s, u, X)
  PROVE  Seen(l, s, v, X)
<1> SUFFICES ASSUME NEW i \in 1..Len(s), s[i].entered,
                    NEW f \in DOMAIN l.fks, Par(l, f) = s[i].table,
                    NEW k \in Hits(l, v, s[i].table, s[i].filter), <<s[i].table, k>> \notin X
             PROVE  \E j \in 1..i : s[j].table = s[i].table /\ k \in s[j].records
  BY DEF Seen
<1>1. s[i].filter.by # "some" /\ (s[i].filter.by = "ref" => s[i].filter.fk \in DOMAIN l.fks)
  BY DEF FramesOK
<1>2. k \in Hits(l, u, s[i].table, s[i].filter)
  BY <1>1, FrameFacts, ShrinkHits
<1> QED
  BY <1>2 DEF Seen

LEMMA HandledStable ==
  ASSUME NEW l \in Workloads, NEW s, NEW u, NEW v, NEW X, Shrinks(l, u, v, X), Handled(l, s, u, X)
  PROVE  Handled(l, s, v, X)
<1> SUFFICES ASSUME NEW i \in 1..Len(s), NEW f \in Tracked(l), NEW p \in Keys, NEW k \in Keys,
                    p \in s[i].records, Par(l, f) = s[i].table,
                    Points(l, v, f, k, p), ~Doing(s, i, f), <<Chi(l, f), k>> \notin X
             PROVE  FALSE
  BY DEF Handled
<1>1. Points(l, u, f, k, p)
  BY ShrinkPoints, TrackedFacts
<1> QED
  BY <1>1 DEF Handled

-----------------------------------------------------------------------------
(* The steps of a delete                                                   *)

LEMMA ReplaceTop ==
  ASSUME NEW S, NEW s \in Seq(S), s # <<>>, NEW e \in S,
         NEW r, r = [s EXCEPT ![Len(s)] = e]
  PROVE  /\ Len(s) \in Nat \ {0} /\ r \in Seq(S) /\ Len(r) = Len(s)
         /\ r[Len(s)] = e /\ \A i \in 1..Len(s) : i # Len(s) => r[i] = s[i]
<1>1. Len(s) \in Nat /\ Len(s) # 0 /\ DOMAIN s = 1..Len(s)
  OBVIOUS
<1>2. r \in Seq(S) /\ Len(r) = Len(s)
  BY <1>1
<1>3. r[Len(s)] = e
  BY <1>1
<1>4. ASSUME NEW i \in 1..Len(s), i # Len(s) PROVE r[i] = s[i]
  BY <1>1, <1>4
<1> QED
  BY <1>1, <1>2, <1>3, <1>4

LEMMA AppendTop ==
  ASSUME NEW S, NEW s \in Seq(S), NEW e \in S, NEW n, n = Len(s)
  PROVE  /\ Append(s, e) \in Seq(S) /\ Len(Append(s, e)) = n + 1 /\ Append(s, e)[n + 1] = e
         /\ \A i \in 1..n : Append(s, e)[i] = s[i]
  BY AppendProperties

(* A nested call has found its rows.                                       *)
LEMMA EnterStep ==
  ASSUME NEW l \in Workloads, NEW s \in Stacks(l), s # <<>>, ~s[Len(s)].entered,
         NEW v, NEW X, CascadeOK(l, s, v, X),
         NEW fr \in FrameSet(l), fr.table = s[Len(s)].table, fr.entered = TRUE,
         fr.records \subseteq Hits(l, v, s[Len(s)].table, s[Len(s)].filter),
         (\E f \in DOMAIN l.fks : Par(l, f) = fr.table) =>
           \A k \in Hits(l, v, s[Len(s)].table, s[Len(s)].filter) : k \notin fr.records =>
             \E j \in 1..Len(s) : s[j].table = fr.table /\ k \in s[j].records,
         fr.filter = IF s[Len(s)].filter.by = "some" /\ \E f \in DOMAIN l.fks : Par(l, f) = fr.table
                     THEN ByKeys(Hits(l, v, s[Len(s)].table, s[Len(s)].filter))
                     ELSE s[Len(s)].filter,
         fr.left \cup fr.restrict = IF fr.records = {} THEN {} ELSE {f \in DOMAIN l.fks : Par(l, f) = fr.table}
  PROVE  Moves(l, s, v, [s EXCEPT ![Len(s)] = fr], v, X)
<1> SUFFICES ASSUME NEW n, n = Len(s), NEW t, t = s[n].table, ~s[n].entered,
                    NEW found, found = Hits(l, v, t, s[n].filter),
                    NEW new, new = fr.records, new \subseteq found, fr.table = t,
                    (\E f \in DOMAIN l.fks : Par(l, f) = t) =>
                      \A k \in found \ new : \E j \in 1..n : s[j].table = t /\ k \in s[j].records,
                    fr.filter = IF s[n].filter.by = "some" /\ \E f \in DOMAIN l.fks : Par(l, f) = t
                                THEN ByKeys(found) ELSE s[n].filter,
                    fr.left \cup fr.restrict = IF new = {} THEN {} ELSE {f \in DOMAIN l.fks : Par(l, f) = t},
                    NEW r, r = [s EXCEPT ![n] = fr]
             PROVE  Moves(l, s, v, r, v, X)
  OBVIOUS
<1> USE DEF CascadeOK
<1>1. /\ n \in Nat \ {0} /\ r \in Stacks(l) /\ Len(r) = n
      /\ r[n] = fr /\ \A i \in 1..n : i # n => r[i] = s[i]
  BY ReplaceTop DEF Stacks
<1>2. s[n].records = {} /\ s[n].left = {} /\ s[n].restrict = {}
  BY <1>1 DEF FramesOK
<1>3. /\ \A i \in 1..n : r[i].table = s[i].table /\ s[i].records \subseteq r[i].records
      /\ \A i \in 1..n : i # 1 => r[i].filter = s[i].filter
      /\ n # 1 => s[n].filter.by = "ref"
  <2>1. n # 1 => s[n].filter.by = "ref"
    <3>1. n # 1 => n - 1 \in 1..Len(s) /\ n - 1 < Len(s) /\ (n - 1) + 1 = n
      BY <1>1
    <3> QED
      BY <3>1 DEF FramesOK
  <2> QED
    BY <1>1, <1>2, <2>1
<1>4. FramesOK(l, r)
  <2>1. ASSUME NEW i \in 1..Len(r)
        PROVE  /\ \A f \in r[i].left \cup r[i].restrict : Par(l, f) = r[i].table
               /\ ~r[i].entered => r[i].records = {} /\ r[i].restrict = {} /\ r[i].left = {}
               /\ r[i].entered /\ r[i].filter.by = "some" => \A f \in DOMAIN l.fks : Par(l, f) # r[i].table
               /\ r[i].filter.by = "ref" => r[i].filter.fk \in DOMAIN l.fks /\ Chi(l, r[i].filter.fk) = r[i].table
    <3>1. CASE i # n
      BY <1>1, <2>1, <3>1 DEF FramesOK
    <3>2. CASE i = n
      <4>1. \A f \in fr.left \cup fr.restrict : Par(l, f) = t
        OBVIOUS
      <4>2. fr.filter.by = "some" => \A f \in DOMAIN l.fks : Par(l, f) # t
        BY DEF ByKeys
      <4>3. fr.filter.by = "ref" => fr.filter.fk \in DOMAIN l.fks /\ Chi(l, fr.filter.fk) = t
        BY <1>1 DEF ByKeys, FramesOK
      <4> QED
        BY <1>1, <3>2, <4>1, <4>2, <4>3
    <3> QED
      BY <3>1, <3>2
  <2>2. ASSUME NEW i \in 1..Len(r), i < Len(r)
        PROVE  /\ r[i].entered /\ r[i].restrict = {}
               /\ r[i + 1].filter.by = "ref" /\ r[i + 1].filter.keys = r[i].records
    <3>1. i \in 1..n /\ i # n /\ i + 1 \in 1..n /\ i + 1 # 1
      BY <1>1, <2>2
    <3> QED
      BY <1>1, <1>3, <2>2, <3>1 DEF FramesOK
  <2> QED
    BY <2>1, <2>2 DEF FramesOK
<1>5. Seen(l, r, v, X)
  <2> SUFFICES ASSUME NEW i \in 1..n, r[i].entered,
                      NEW f \in DOMAIN l.fks, Par(l, f) = r[i].table,
                      NEW k \in Hits(l, v, r[i].table, r[i].filter), <<r[i].table, k>> \notin X
               PROVE  \E j \in 1..i : r[j].table = r[i].table /\ k \in r[j].records
    BY <1>1 DEF Seen
  <2>1. CASE i # n
    <3>1. \E j \in 1..i : s[j].table = s[i].table /\ k \in s[j].records
      BY <1>1, <2>1 DEF Seen
    <3>2. \A j \in 1..i : j \in 1..n
      BY <1>1
    <3> QED
      BY <1>3, <3>1, <3>2
  <2>2. CASE i = n
    <3>1. k \in found
      <4>1. CASE s[n].filter.by = "some"
        <5>1. fr.filter = ByKeys(found)
          BY <1>1, <2>2, <4>1
        <5>2. ByKeys(found).by = "keys" /\ ByKeys(found).keys = found
          BY DEF ByKeys
        <5>3. k \in Hits(l, v, t, fr.filter)
          BY <1>1, <2>2
        <5> QED
          BY <5>1, <5>2, <5>3 DEF Hits
      <4>2. CASE s[n].filter.by # "some"
        BY <1>1, <2>2, <4>2
      <4> QED
        BY <4>1, <4>2
    <3>2. CASE k \in new
      BY <1>1, <2>2, <3>2
    <3>3. CASE k \notin new
      <4>1. \E j \in 1..n : s[j].table = t /\ k \in s[j].records
        BY <1>1, <2>2, <3>1, <3>3
      <4> QED
        BY <1>1, <1>3, <2>2, <4>1
    <3> QED
      BY <3>2, <3>3
  <2> QED
    BY <2>1, <2>2
<1>6. ASSUME NEW i \in 1..n, NEW f, i # n
      PROVE  Doing(r, i, f) <=> Doing(s, i, f)
  <2>1. i < n <=> i < Len(r)
    BY <1>1
  <2>2. i + 1 \in 1..n /\ i + 1 # 1
    BY <1>1, <1>6
  <2> QED
    BY <1>1, <1>3, <1>6, <2>2 DEF Doing
<1>7. Handled(l, r, v, X)
  <2> SUFFICES ASSUME NEW i \in 1..n, NEW f \in Tracked(l), NEW p \in Keys, NEW k \in Keys,
                      p \in r[i].records, Par(l, f) = r[i].table,
                      Points(l, v, f, k, p), ~Doing(r, i, f)
               PROVE  <<Chi(l, f), k>> \in X
    BY <1>1 DEF Handled
  <2>1. CASE i # n
    BY <1>1, <1>6, <2>1 DEF Handled
  <2>2. CASE i = n
    <3>1. f \in fr.left \cup fr.restrict
      BY <1>1, <2>2, TrackedFacts
    <3> QED
      BY <1>1, <2>2, <3>1 DEF Doing
  <2> QED
    BY <2>1, <2>2
<1>8. Hand(l, s) \subseteq Hand(l, r)
  <2> SUFFICES ASSUME NEW h \in Tracked(l) \X Keys, NEW i \in 1..n,
                      s[i].table = Par(l, h[1]), h[2] \in s[i].records, Doing(s, i, h[1])
               PROVE  \E j \in 1..n : r[j].table = Par(l, h[1]) /\ h[2] \in r[j].records /\ Doing(r, j, h[1])
    BY <1>1 DEF Hand
  <2>1. i # n
    BY <1>2
  <2> QED
    <3>1. r[i].table = Par(l, h[1]) /\ h[2] \in r[i].records /\ Doing(r, i, h[1])
      BY <1>3, <1>6, <2>1
    <3> QED
      BY <3>1
<1> QED
  BY <1>4, <1>5, <1>7, <1>8, StillMoves DEF CascadeOK

(* One reference of the top call is done: nobody is left who makes it.     *)
LEMMA DropStep ==
  ASSUME NEW l \in Workloads, NEW s \in Stacks(l), s # <<>>,
         NEW n, n = Len(s), s[n].entered,
         NEW u, NEW v, NEW X, Shrinks(l, u, v, {}),
         \A t \in Tables, k \in Keys : v[t][k] = NoRow => u[t][k] = NoRow,
         CascadeOK(l, s, u, X),
         NEW f, f \in Tracked(l) =>
           \A k \in Keys, p \in Keys : p \in s[n].records => ~Points(l, v, f, k, p),
         NEW fr \in FrameSet(l), fr.table = s[n].table, fr.entered = TRUE,
         fr.records = s[n].records, fr.filter = s[n].filter,
         fr.left \cup fr.restrict = (s[n].left \cup s[n].restrict) \ {f},
         NEW r, r = [s EXCEPT ![n] = fr]
  PROVE  Moves(l, s, u, r, v, X)
<1> USE DEF CascadeOK
<1>1. /\ n \in Nat \ {0} /\ r \in Stacks(l) /\ Len(r) = n
      /\ r[n] = fr /\ \A i \in 1..n : i # n => r[i] = s[i]
  BY ReplaceTop DEF Stacks
<1>2. \A i \in 1..n : /\ r[i].table = s[i].table /\ r[i].records = s[i].records
                       /\ r[i].filter = s[i].filter /\ r[i].entered = s[i].entered
                       /\ r[i].left \cup r[i].restrict \subseteq s[i].left \cup s[i].restrict
  BY <1>1
<1>3. FramesOK(l, r)
  <2>1. ASSUME NEW i \in 1..Len(r)
        PROVE  /\ \A g \in r[i].left \cup r[i].restrict : Par(l, g) = r[i].table
               /\ ~r[i].entered => r[i].records = {} /\ r[i].restrict = {} /\ r[i].left = {}
               /\ r[i].entered /\ r[i].filter.by = "some" => \A g \in DOMAIN l.fks : Par(l, g) # r[i].table
               /\ r[i].filter.by = "ref" => r[i].filter.fk \in DOMAIN l.fks /\ Chi(l, r[i].filter.fk) = r[i].table
    <3>1. CASE i # n
      BY <1>1, <2>1, <3>1 DEF FramesOK
    <3>2. CASE i = n
      <4>1. \A g \in fr.left \cup fr.restrict : Par(l, g) = fr.table
        BY <1>1 DEF FramesOK
      <4>2. fr.filter.by = "some" => \A g \in DOMAIN l.fks : Par(l, g) # fr.table
        BY <1>1 DEF FramesOK
      <4>3. fr.filter.by = "ref" => fr.filter.fk \in DOMAIN l.fks /\ Chi(l, fr.filter.fk) = fr.table
        BY <1>1 DEF FramesOK
      <4> QED
        BY <1>1, <3>2, <4>1, <4>2, <4>3
    <3> QED
      BY <3>1, <3>2
  <2>2. ASSUME NEW i \in 1..Len(r), i < Len(r)
        PROVE  /\ r[i].entered /\ r[i].restrict = {}
               /\ r[i + 1].filter.by = "ref" /\ r[i + 1].filter.keys = r[i].records
    <3>1. i \in 1..n /\ i # n /\ i + 1 \in 1..n
      BY <1>1, <2>2
    <3> QED
      BY <1>1, <1>2, <2>2, <3>1 DEF FramesOK
  <2> QED
    BY <2>1, <2>2 DEF FramesOK
<1>4. Shrinks(l, u, v, X)
  BY ShrinkMonotone
<1>5. Seen(l, r, v, X)
  <2>1. Seen(l, s, v, X)
    BY <1>4, SeenStable
  <2> SUFFICES ASSUME NEW i \in 1..n, r[i].entered,
                      NEW g \in DOMAIN l.fks, Par(l, g) = r[i].table,
                      NEW k \in Hits(l, v, r[i].table, r[i].filter), <<r[i].table, k>> \notin X
               PROVE  \E j \in 1..i : r[j].table = r[i].table /\ k \in r[j].records
    BY <1>1 DEF Seen
  <2>2. \E j \in 1..i : s[j].table = s[i].table /\ k \in s[j].records
    BY <1>2, <2>1 DEF Seen
  <2>3. \A j \in 1..i : j \in 1..n
    BY <1>1
  <2> QED
    BY <1>2, <2>2, <2>3
<1>6. ASSUME NEW i \in 1..n, NEW g, g # f \/ i # n
      PROVE  Doing(r, i, g) <=> Doing(s, i, g)
  <2>1. i < Len(r) <=> i < Len(s)
    BY <1>1
  <2>2. i < Len(s) => r[i + 1].filter = s[i + 1].filter
    BY <1>1, <1>2
  <2>3. g \in r[i].left \cup r[i].restrict <=> g \in s[i].left \cup s[i].restrict
    BY <1>1, <1>6
  <2> QED
    BY <2>1, <2>2, <2>3 DEF Doing
<1>7. Handled(l, r, v, X)
  <2>1. Handled(l, s, v, X)
    BY <1>4, HandledStable
  <2> SUFFICES ASSUME NEW i \in 1..n, NEW g \in Tracked(l), NEW p \in Keys, NEW k \in Keys,
                      p \in r[i].records, Par(l, g) = r[i].table,
                      Points(l, v, g, k, p), ~Doing(r, i, g)
               PROVE  <<Chi(l, g), k>> \in X
    BY <1>1 DEF Handled
  <2>2. CASE g = f /\ i = n
    BY <1>2, <2>2
  <2>3. CASE g # f \/ i # n
    BY <1>2, <1>6, <2>1, <2>3 DEF Handled
  <2> QED
    BY <2>2, <2>3
<1>8. ASSUME NEW H, Covered(l, u, X, H \cup Hand(l, s))
      PROVE  Covered(l, v, X, H \cup Hand(l, r))
  <2> SUFFICES ASSUME NEW g \in Tracked(l), NEW k \in Keys, NEW p \in Keys,
                      Points(l, v, g, k, p), v[Par(l, g)][p] = NoRow,
                      <<Chi(l, g), k>> \notin X, <<Par(l, g), p>> \notin X, <<g, p>> \notin H
               PROVE  <<g, p>> \in Hand(l, r)
    BY DEF Covered
  <2>1. Points(l, u, g, k, p)
    BY ShrinkPointsAll, TrackedFacts
  <2>2. u[Par(l, g)][p] = NoRow
    BY TrackedFacts
  <2>3. <<g, p>> \in Hand(l, s)
    BY <1>8, <2>1, <2>2 DEF Covered
  <2>4. \E i \in 1..n : s[i].table = Par(l, g) /\ p \in s[i].records /\ Doing(s, i, g)
    BY <2>3 DEF Hand
  <2>5. \E i \in 1..n : r[i].table = Par(l, g) /\ p \in r[i].records /\ Doing(r, i, g)
    <3>1. PICK i \in 1..n : s[i].table = Par(l, g) /\ p \in s[i].records /\ Doing(s, i, g)
      BY <2>4
    <3>2. g # f \/ i # n
      BY <3>1
    <3>3. r[i].table = Par(l, g) /\ p \in r[i].records /\ Doing(r, i, g)
      BY <1>2, <1>6, <3>1, <3>2
    <3> QED
      BY <3>3
  <2> QED
    BY <1>1, <2>5 DEF Hand
<1> QED
  BY <1>3, <1>5, <1>7, <1>8 DEF Moves

(* A cascade: the children of the top call's rows become the next call.    *)
LEMMA DescendStep ==
  ASSUME NEW l \in Workloads, NEW s \in Stacks(l), s # <<>>,
         s[Len(s)].entered, s[Len(s)].restrict = {},
         NEW v, NEW X, CascadeOK(l, s, v, X),
         NEW f \in s[Len(s)].left,
         NEW fr \in FrameSet(l), fr.table = s[Len(s)].table, fr.filter = s[Len(s)].filter,
         fr.entered = TRUE, fr.records = s[Len(s)].records, fr.restrict = {},
         fr.left = s[Len(s)].left \ {f},
         NEW next \in FrameSet(l), next.table = Chi(l, f), next.filter = ByRef(f, s[Len(s)].records),
         next.entered = FALSE, next.records = {}, next.restrict = {}, next.left = {}
  PROVE  Moves(l, s, v, Append([s EXCEPT ![Len(s)] = fr], next), v, X)
<1> SUFFICES ASSUME NEW n, n = Len(s), s[n].entered, s[n].restrict = {}, f \in s[n].left,
                    fr.table = s[n].table, fr.filter = s[n].filter, fr.records = s[n].records,
                    fr.left = s[n].left \ {f}, next.filter = ByRef(f, s[n].records),
                    NEW r, r = Append([s EXCEPT ![n] = fr], next)
             PROVE  Moves(l, s, v, r, v, X)
  OBVIOUS
<1> USE DEF CascadeOK
<1>1. n \in Nat \ {0} /\ n \in 1..Len(s)
  BY DEF Stacks
<1>2. f \in DOMAIN l.fks /\ Chi(l, f) \in Tables /\ Par(l, f) = s[n].table /\ f \in Nat
  BY <1>1, FrameFacts, FkFacts DEF FramesOK
<1>5. next.filter.by = "ref" /\ next.filter.fk = f /\ next.filter.keys = s[n].records
  BY DEF ByRef
<1>6. /\ r \in Stacks(l) /\ Len(r) = n + 1 /\ r[n + 1] = next
      /\ r[n] = fr /\ \A i \in 1..n : i # n => r[i] = s[i]
  <2>1. ASSUME NEW m, m = [s EXCEPT ![n] = fr]
        PROVE  /\ m \in Seq(FrameSet(l)) /\ Len(m) = n
               /\ m[n] = fr /\ \A i \in 1..n : i # n => m[i] = s[i]
    BY <2>1, ReplaceTop DEF Stacks
  <2>2. ASSUME NEW m, m \in Seq(FrameSet(l)), Len(m) = n, r = Append(m, next)
        PROVE  /\ r \in Seq(FrameSet(l)) /\ Len(r) = n + 1 /\ r[n + 1] = next
               /\ \A i \in 1..n : r[i] = m[i]
    <3>1. /\ Append(m, next) \in Seq(FrameSet(l)) /\ Len(Append(m, next)) = Len(m) + 1
          /\ Append(m, next)[Len(m) + 1] = next
          /\ \A i \in 1..Len(m) : Append(m, next)[i] = m[i]
      BY <2>2, AppendTop
    <3> QED
      BY <2>2, <3>1
  <2> QED
    BY <1>1, <2>1, <2>2 DEF Stacks
<1>7. \A i \in 1..n : /\ r[i].table = s[i].table /\ r[i].records = s[i].records
                       /\ r[i].filter = s[i].filter /\ r[i].entered = s[i].entered
  <2>1. s[n].entered = TRUE
    BY <1>1, FrameFacts
  <2>2. /\ fr.table = s[n].table /\ fr.records = s[n].records
        /\ fr.filter = s[n].filter /\ fr.entered = s[n].entered
    BY <2>1
  <2> SUFFICES ASSUME NEW i \in 1..n
               PROVE  /\ r[i].table = s[i].table /\ r[i].records = s[i].records
                      /\ r[i].filter = s[i].filter /\ r[i].entered = s[i].entered
    OBVIOUS
  <2>3. CASE i = n
    <3>1. r[i] = fr
      BY <1>6, <2>3
    <3> QED
      BY <2>2, <2>3, <3>1
  <2>4. CASE i # n
    <3>1. r[i] = s[i]
      BY <1>6, <2>4
    <3> QED
      BY <3>1
  <2> QED
    BY <2>3, <2>4
<1>8. FramesOK(l, r)
  <2>1. ASSUME NEW i \in 1..Len(r)
        PROVE  /\ \A g \in r[i].left \cup r[i].restrict : Par(l, g) = r[i].table
               /\ ~r[i].entered => r[i].records = {} /\ r[i].restrict = {} /\ r[i].left = {}
               /\ r[i].entered /\ r[i].filter.by = "some" => \A g \in DOMAIN l.fks : Par(l, g) # r[i].table
               /\ r[i].filter.by = "ref" => r[i].filter.fk \in DOMAIN l.fks /\ Chi(l, r[i].filter.fk) = r[i].table
    <3>1. CASE i = n + 1
      <4>1. r[i] = next
        BY <1>6, <3>1
      <4> QED
        BY <1>2, <1>5, <4>1
    <3>2. CASE i = n
      <4>1. \A g \in s[n].left \cup s[n].restrict : Par(l, g) = s[n].table
        BY <1>1 DEF FramesOK
      <4>2. s[n].entered /\ s[n].filter.by = "some" => \A g \in DOMAIN l.fks : Par(l, g) # s[n].table
        BY <1>1 DEF FramesOK
      <4>3. s[n].filter.by = "ref" => s[n].filter.fk \in DOMAIN l.fks /\ Chi(l, s[n].filter.fk) = s[n].table
        BY <1>1 DEF FramesOK
      <4>4. r[i] = fr
        BY <1>6, <3>2
      <4>5. \A g \in fr.left \cup fr.restrict : Par(l, g) = fr.table
        BY <4>1
      <4>6. fr.entered /\ fr.filter.by = "some" => \A g \in DOMAIN l.fks : Par(l, g) # fr.table
        BY <4>2
      <4>7. fr.filter.by = "ref" => fr.filter.fk \in DOMAIN l.fks /\ Chi(l, fr.filter.fk) = fr.table
        BY <4>3
      <4> QED
        BY <4>4, <4>5, <4>6, <4>7
    <3>3. CASE i # n /\ i # n + 1
      <4>1. i \in 1..Len(s) /\ r[i] = s[i]
        BY <1>1, <1>6, <2>1, <3>3
      <4> QED
        BY <4>1 DEF FramesOK
    <3> QED
      BY <3>1, <3>2, <3>3
  <2>2. ASSUME NEW i \in 1..Len(r), i < Len(r)
        PROVE  /\ r[i].entered /\ r[i].restrict = {}
               /\ r[i + 1].filter.by = "ref" /\ r[i + 1].filter.keys = r[i].records
    <3>1. CASE i = n
      BY <1>5, <1>6, <3>1
    <3>2. CASE i # n
      <4>1. i \in 1..n /\ i + 1 \in 1..n /\ i < Len(s)
        BY <1>1, <1>6, <2>2, <3>2
      <4> QED
        BY <1>6, <1>7, <3>2, <4>1 DEF FramesOK
    <3> QED
      BY <3>1, <3>2
  <2> QED
    BY <2>1, <2>2 DEF FramesOK
<1>9. Seen(l, r, v, X)
  <2> SUFFICES ASSUME NEW i \in 1..Len(r), r[i].entered,
                      NEW g \in DOMAIN l.fks, Par(l, g) = r[i].table,
                      NEW k \in Hits(l, v, r[i].table, r[i].filter), <<r[i].table, k>> \notin X
               PROVE  \E j \in 1..i : r[j].table = r[i].table /\ k \in r[j].records
    BY DEF Seen
  <2>1. i \in 1..n
    BY <1>1, <1>5, <1>6
  <2>2. \E j \in 1..i : s[j].table = s[i].table /\ k \in s[j].records
    <3>1. /\ i \in 1..Len(s) /\ s[i].entered /\ Par(l, g) = s[i].table
          /\ k \in Hits(l, v, s[i].table, s[i].filter) /\ <<s[i].table, k>> \notin X
      BY <1>7, <2>1
    <3> QED
      BY <3>1 DEF Seen
  <2>3. \A j \in 1..i : j \in 1..n
    BY <1>1, <2>1
  <2> QED
    BY <1>7, <2>1, <2>2, <2>3
<1>10. ASSUME NEW i \in 1..n, NEW g \in DOMAIN l.fks
       PROVE  Doing(r, i, g) <=> Doing(s, i, g)
  <2>1. CASE i = n
    <3>1. i < Len(r) /\ ~(i < Len(s)) /\ r[i + 1].filter.fk = f
      BY <1>1, <1>5, <1>6, <2>1
    <3>2. r[i].left \cup r[i].restrict = (s[i].left \cup s[i].restrict) \ {f}
      BY <1>6, <2>1
    <3> QED
      BY <2>1, <3>1, <3>2 DEF Doing
  <2>2. CASE i # n
    <3>1. i < Len(r) /\ i < Len(s) /\ i + 1 \in 1..n
      BY <1>1, <1>6, <2>2
    <3> QED
      BY <1>6, <1>7, <2>2, <3>1 DEF Doing
  <2> QED
    BY <2>1, <2>2
<1>11. Handled(l, r, v, X)
  <2> SUFFICES ASSUME NEW i \in 1..n + 1, NEW g \in Tracked(l), NEW p \in Keys, NEW k \in Keys,
                      p \in r[i].records, Par(l, g) = r[i].table,
                      Points(l, v, g, k, p), ~Doing(r, i, g)
               PROVE  <<Chi(l, g), k>> \in X
    BY <1>6 DEF Handled
  <2>1. i \in 1..n
    BY <1>1, <1>5, <1>6
  <2>2. g \in DOMAIN l.fks
    BY TrackedFacts
  <2> QED
    BY <1>7, <1>10, <2>1, <2>2 DEF Handled
<1>12. Hand(l, s) \subseteq Hand(l, r)
  <2> SUFFICES ASSUME NEW h \in Tracked(l) \X Keys, NEW i \in 1..n,
                      s[i].table = Par(l, h[1]), h[2] \in s[i].records, Doing(s, i, h[1])
               PROVE  \E j \in 1..n + 1 : r[j].table = Par(l, h[1]) /\ h[2] \in r[j].records /\ Doing(r, j, h[1])
    BY <1>6 DEF Hand
  <2>1. h[1] \in DOMAIN l.fks /\ i \in 1..n + 1
    BY <1>1, TrackedFacts
  <2> QED
    BY <1>7, <1>10, <2>1
<1> QED
  BY <1>8, <1>9, <1>11, <1>12, StillMoves DEF CascadeOK

LEMMA WithoutShrinks ==
  ASSUME NEW l \in Workloads, NEW v \in DBs(l), NEW t \in Tables, NEW S
  PROVE  /\ Without(v, t, S) \in DBs(l) /\ Shrinks(l, v, Without(v, t, S), {})
         /\ \A u \in Tables, k \in Keys :
              Without(v, t, S)[u][k] = IF u = t /\ k \in S THEN NoRow ELSE v[u][k]
<1>1. v \in [Tables -> [Keys -> StoredRows(l) \cup {NoRow}]]
  BY DEF DBs
<1>2. Without(v, t, S) \in DBs(l)
  BY <1>1 DEF Without, DBs
<1>3. ASSUME NEW u \in Tables, NEW k \in Keys
      PROVE  Without(v, t, S)[u][k] = IF u = t /\ k \in S THEN NoRow ELSE v[u][k]
  BY <1>1 DEF Without
<1>4. Shrinks(l, v, Without(v, t, S), {})
  <2> SUFFICES ASSUME NEW u \in Tables, NEW k \in Keys
               PROVE  RowShrinks(l, v[u][k], Without(v, t, S)[u][k])
    BY DEF Shrinks
  <2> QED
    BY <1>3 DEF RowShrinks
<1> QED
  BY <1>2, <1>3, <1>4

LEMMA FrontFacts ==
  ASSUME NEW S, NEW s \in Seq(S), s # <<>>
  PROVE  /\ Front(s) \in Seq(S) /\ Len(Front(s)) = Len(s) - 1
         /\ \A i \in 1..Len(s) - 1 : Front(s)[i] = s[i]
         /\ Front(s) = <<>> <=> Len(s) = 1
<1>1. Len(s) \in Nat \ {0}
  BY EmptySeq, LenProperties
<1> DEFINE n == Len(s) - 1
           r == SubSeq(s, 1, n)
<1>2. n \in Nat /\ n \in Int /\ 1 \in Int /\ \A i \in 1..n : s[i] \in S
  BY <1>1, ElementOfSeq
<1>3. Front(s) = r
  BY DEF Front
<1>4. /\ r \in Seq(S) /\ Len(r) = IF 1 <= n THEN n - 1 + 1 ELSE 0
      /\ \A i \in 1..n - 1 + 1 : r[i] = s[1 + i - 1]
  <2> HIDE DEF n
  <2> QED
    BY <1>2, SubSeqProperties
<1> HIDE DEF r
<1>5. Len(r) = n /\ \A i \in 1..n : r[i] = s[i]
  <2> HIDE DEF n
  <2>1. n - 1 + 1 = n /\ (~(1 <= n) => n = 0) /\ \A i \in 1..n : 1 + i - 1 = i
    BY <1>2
  <2>2. ASSUME NEW i \in 1..n PROVE r[i] = s[i]
    BY <1>4, <2>1
  <2> QED
    BY <1>4, <2>1, <2>2
<1>6. r = <<>> <=> Len(s) = 1
  BY <1>1, <1>4, <1>5, EmptySeq, LenProperties
<1> QED
  BY <1>3, <1>4, <1>5, <1>6

(* The top call deletes what matches its filter and returns.               *)
LEMMA DeleteStep ==
  ASSUME NEW l \in Workloads, NEW s \in Stacks(l), s # <<>>,
         s[Len(s)].entered, s[Len(s)].restrict = {}, s[Len(s)].left = {},
         NEW u \in DBs(l), NEW X, CascadeOK(l, s, u, X)
  PROVE  Moves(l, s, u, Front(s), Without(u, s[Len(s)].table, Hits(l, u, s[Len(s)].table, s[Len(s)].filter)), X)
<1> SUFFICES ASSUME NEW n, n = Len(s), s[n].entered, s[n].restrict = {}, s[n].left = {},
                    NEW gone, gone = Hits(l, u, s[n].table, s[n].filter),
                    NEW v, v = Without(u, s[n].table, gone),
                    NEW r, r = Front(s)
             PROVE  Moves(l, s, u, r, v, X)
  OBVIOUS
<1>a. n \in 1..Len(s) /\ s[n].table \in Tables
  <2>1. n \in 1..Len(s)
    BY DEF Stacks
  <2> QED
    BY <2>1, FrameFacts
<1>b. /\ v \in DBs(l) /\ Shrinks(l, u, v, {})
      /\ \A t \in Tables, k \in Keys :
           v[t][k] = IF t = s[n].table /\ k \in gone THEN NoRow ELSE u[t][k]
  BY <1>a, WithoutShrinks
<1>c. r \in Stacks(l) /\ Len(r) = n - 1 /\ \A i \in 1..n - 1 : r[i] = s[i]
  BY FrontFacts DEF Stacks
<1> USE <1>b, <1>c
<1> USE DEF CascadeOK
<1>1. n \in Nat \ {0} /\ n \in 1..Len(s)
  BY DEF Stacks
<1>2. \A i \in 1..n - 1 : i \in 1..Len(s) /\ r[i] = s[i] /\ i < Len(s)
  BY <1>1
<1>3. FramesOK(l, r)
  <2>1. ASSUME NEW i \in 1..Len(r)
        PROVE  /\ \A g \in r[i].left \cup r[i].restrict : Par(l, g) = r[i].table
               /\ ~r[i].entered => r[i].records = {} /\ r[i].restrict = {} /\ r[i].left = {}
               /\ r[i].entered /\ r[i].filter.by = "some" => \A g \in DOMAIN l.fks : Par(l, g) # r[i].table
               /\ r[i].filter.by = "ref" => r[i].filter.fk \in DOMAIN l.fks /\ Chi(l, r[i].filter.fk) = r[i].table
    BY <1>2 DEF FramesOK
  <2>2. ASSUME NEW i \in 1..Len(r), i < Len(r)
        PROVE  /\ r[i].entered /\ r[i].restrict = {}
               /\ r[i + 1].filter.by = "ref" /\ r[i + 1].filter.keys = r[i].records
    <3>1. i + 1 \in 1..n - 1
      BY <1>1, <2>2
    <3> QED
      <4>1. i \in 1..Len(s) /\ i < Len(s) /\ r[i] = s[i] /\ r[i + 1] = s[i + 1]
        BY <1>2, <2>2, <3>1
      <4> QED
        BY <4>1 DEF FramesOK
  <2> QED
    BY <2>1, <2>2 DEF FramesOK
<1>4. Shrinks(l, u, v, X)
  BY ShrinkMonotone
<1>5. Seen(l, r, v, X)
  <2>1. Seen(l, s, v, X)
    BY <1>4, SeenStable
  <2> SUFFICES ASSUME NEW i \in 1..n - 1, r[i].entered,
                      NEW g \in DOMAIN l.fks, Par(l, g) = r[i].table,
                      NEW k \in Hits(l, v, r[i].table, r[i].filter), <<r[i].table, k>> \notin X
               PROVE  \E j \in 1..i : r[j].table = r[i].table /\ k \in r[j].records
    BY DEF Seen
  <2>2. \E j \in 1..i : s[j].table = s[i].table /\ k \in s[j].records
    <3>1. /\ i \in 1..Len(s) /\ s[i].entered /\ Par(l, g) = s[i].table
          /\ k \in Hits(l, v, s[i].table, s[i].filter) /\ <<s[i].table, k>> \notin X
      BY <1>2, <2>1
    <3> QED
      BY <2>1, <3>1 DEF Seen
  <2>3. \A j \in 1..i : j \in 1..n - 1
    BY <1>1
  <2> QED
    BY <1>2, <2>2, <2>3
<1>6. n # 1 => /\ n - 1 \in 1..n - 1 /\ s[n].filter.by = "ref" /\ s[n].filter.keys = s[n - 1].records
               /\ s[n].filter.fk \in DOMAIN l.fks /\ Chi(l, s[n].filter.fk) = s[n].table
  <2>1. n # 1 => n - 1 \in 1..Len(s) /\ n - 1 < Len(s) /\ (n - 1) + 1 = n
    BY <1>1
  <2> QED
    BY <1>1, <2>1 DEF FramesOK
(* What is no longer in hand has lost the rows that make the reference.    *)
<1>7. ASSUME NEW i \in 1..n, NEW f \in Tracked(l), NEW k \in Keys, NEW p \in Keys,
             p \in s[i].records, Doing(s, i, f), Points(l, u, f, k, p), Points(l, v, f, k, p)
      PROVE  i \in 1..n - 1 /\ Doing(r, i, f)
  <2>1. i # n
    BY <1>1, <1>7 DEF Doing
  <2>2. i \in 1..n - 1 /\ r[i] = s[i]
    BY <1>1, <1>2, <2>1
  <2>3. CASE i # n - 1
    <3>1. i + 1 \in 1..n - 1 /\ i < Len(r)
      BY <1>1, <2>2, <2>3
    <3> QED
      BY <1>2, <1>7, <2>2, <3>1 DEF Doing
  <2>4. CASE i = n - 1 /\ s[n].filter.fk = f
    <3>1. s[n].filter.by = "ref" /\ s[n].filter.keys = s[i].records /\ Chi(l, f) = s[n].table
      BY <1>1, <1>6, <2>1, <2>2, <2>4
    <3>2. k \in gone
      <4>1. /\ u[s[n].table][k] # NoRow /\ s[n].filter.by = "ref"
            /\ u[s[n].table][k][s[n].filter.fk] \in s[n].filter.keys
        BY <1>7, <2>4, <3>1 DEF Points
      <4>2. k \in Hits(l, u, s[n].table, s[n].filter)
        BY <4>1 DEF Hits, Live
      <4> QED
        BY <4>2
    <3>3. v[Chi(l, f)][k] = NoRow
      BY <3>1, <3>2, TrackedFacts
    <3> QED
      BY <1>7, <3>3 DEF Points
  <2>5. CASE i = n - 1 /\ s[n].filter.fk # f
    <3>1. (n - 1) + 1 = n
      BY <1>1
    <3>2. f \in s[i].left \cup s[i].restrict
      BY <1>7, <2>5, <3>1 DEF Doing
    <3> QED
      BY <2>2, <3>2 DEF Doing
  <2> QED
    BY <2>3, <2>4, <2>5
<1>8. Handled(l, r, v, X)
  <2> SUFFICES ASSUME NEW i \in 1..n - 1, NEW f \in Tracked(l), NEW p \in Keys, NEW k \in Keys,
                      p \in r[i].records, Par(l, f) = r[i].table,
                      Points(l, v, f, k, p), ~Doing(r, i, f)
               PROVE  <<Chi(l, f), k>> \in X
    BY DEF Handled
  <2>1. i \in 1..n /\ r[i] = s[i] /\ i \in 1..Len(s)
    BY <1>1, <1>2
  <2>2. Points(l, u, f, k, p)
    BY ShrinkPointsAll, TrackedFacts
  <2>3. ~Doing(s, i, f)
    BY <1>7, <2>1, <2>2
  <2> QED
    BY <2>1, <2>2, <2>3 DEF Handled
<1>9. ASSUME NEW H, Covered(l, u, X, H \cup Hand(l, s))
      PROVE  Covered(l, v, X, H \cup Hand(l, r))
  <2> SUFFICES ASSUME NEW f \in Tracked(l), NEW k \in Keys, NEW p \in Keys,
                      Points(l, v, f, k, p), v[Par(l, f)][p] = NoRow,
                      <<Chi(l, f), k>> \notin X, <<Par(l, f), p>> \notin X, <<f, p>> \notin H
               PROVE  <<f, p>> \in Hand(l, r)
    BY DEF Covered
  <2>1. Points(l, u, f, k, p)
    BY ShrinkPointsAll, TrackedFacts
  <2>2. ASSUME NEW i \in 1..n, s[i].table = Par(l, f), p \in s[i].records, Doing(s, i, f)
        PROVE  <<f, p>> \in Hand(l, r)
    <3>1. i \in 1..n - 1 /\ Doing(r, i, f)
      BY <1>7, <2>1, <2>2
    <3>2. r[i].table = Par(l, f) /\ p \in r[i].records
      BY <1>2, <2>2, <3>1
    <3> QED
      BY <3>1, <3>2 DEF Hand
  <2>3. CASE u[Par(l, f)][p] = NoRow
    <3>1. <<f, p>> \in Hand(l, s)
      BY <1>9, <2>1, <2>3 DEF Covered
    <3>2. \E i \in 1..n : s[i].table = Par(l, f) /\ p \in s[i].records /\ Doing(s, i, f)
      BY <3>1 DEF Hand
    <3> QED
      BY <2>2, <3>2
  <2>4. CASE u[Par(l, f)][p] # NoRow
    <3>1. Par(l, f) = s[n].table /\ p \in gone /\ f \in DOMAIN l.fks
      BY <2>4, TrackedFacts
    <3>2. PICK j \in 1..n : s[j].table = s[n].table /\ p \in s[j].records
      BY <1>1, <3>1 DEF Seen
    <3>3. Doing(s, j, f)
      BY <2>1, <3>1, <3>2 DEF Handled
    <3> QED
      BY <2>2, <3>1, <3>2, <3>3
  <2> QED
    BY <2>3, <2>4
<1> QED
  BY <1>3, <1>5, <1>8, <1>9 DEF Moves

-----------------------------------------------------------------------------
(* Inserts, patches and commits                                            *)

(* Databases that are equal but for rows in X.                             *)
LEMMA EqualButFor ==
  ASSUME NEW l \in Workloads, NEW u, NEW v, NEW X, NEW H,
         \A t \in Tables, k \in Keys : <<t, k>> \in X \/ v[t][k] = u[t][k]
  PROVE  /\ Shrinks(l, u, v, X)
         /\ Covered(l, u, X, H) => Covered(l, v, X, H)
<1>1. Shrinks(l, u, v, X)
  BY DEF Shrinks, RowShrinks
<1>2. ASSUME Covered(l, u, X, H) PROVE Covered(l, v, X, H)
  <2> SUFFICES ASSUME NEW f \in Tracked(l), NEW k \in Keys, NEW p \in Keys,
                      Points(l, v, f, k, p), v[Par(l, f)][p] = NoRow,
                      <<Chi(l, f), k>> \notin X, <<Par(l, f), p>> \notin X
               PROVE  <<f, p>> \in H
    BY DEF Covered
  <2>1. Points(l, u, f, k, p) /\ u[Par(l, f)][p] = NoRow
    BY TrackedFacts DEF Points
  <2> QED
    BY <1>2, <2>1 DEF Covered
<1> QED
  BY <1>1, <1>2

IsWriteCall(l, call) == CallOK(l, call) /\ call.op \in {"insert", "patch"}

LEMMA WriteCallFacts ==
  ASSUME NEW l \in Workloads, NEW call, IsWriteCall(l, call)
  PROVE  /\ call.table \in Tables /\ DOMAIN call.rows \subseteq Keys /\ IsFiniteSet(DOMAIN call.rows)
         /\ call.fks \subseteq {f \in DOMAIN l.fks : Chi(l, f) = call.table}
         /\ call.op = "insert" => \A f \in DOMAIN l.fks : Chi(l, f) = call.table => f \in call.fks
         /\ \A k \in DOMAIN call.rows : call.rows[k] \in StoredRows(l) /\ call.rows[k] # NoRow
<1>1. call.op # "none" /\ call.op # "delete"
  BY DEF IsWriteCall
<1>2. NoRow \notin StoredRows(l)
  BY WorkloadsAssumption
<1> QED
  BY <1>1, <1>2 DEF IsWriteCall, CallOK, Chi

LEMMA EffectFacts ==
  ASSUME NEW l \in Workloads, NEW call, IsWriteCall(l, call), NEW v \in DBs(l)
  PROVE  /\ Effect(l, call, v) \in DBs(l)
         /\ \A t \in Tables, k \in Keys :
              ~(t = call.table /\ k \in DOMAIN call.rows) => Effect(l, call, v)[t][k] = v[t][k]
         /\ \A t \in Tables, k \in Keys : v[t][k] # NoRow => Effect(l, call, v)[t][k] # NoRow
         /\ \A f \in DOMAIN l.fks, k \in DOMAIN call.rows :
              Chi(l, f) = call.table /\ Effect(l, call, v)[call.table][k] # NoRow =>
                IF f \in call.fks THEN Effect(l, call, v)[call.table][k][f] = call.rows[k][f]
                ELSE v[call.table][k] # NoRow /\ Effect(l, call, v)[call.table][k][f] = v[call.table][k][f]
<1> DEFINE new(k) == IF k \notin DOMAIN call.rows THEN v[call.table][k]
                     ELSE IF call.op = "insert" THEN call.rows[k]
                     ELSE IF v[call.table][k] = NoRow THEN NoRow
                     ELSE [f \in DOMAIN l.fks |-> IF f \in call.fks THEN call.rows[k][f] ELSE v[call.table][k][f]]
<1>1. v \in [Tables -> [Keys -> StoredRows(l) \cup {NoRow}]]
  BY DEF DBs
<1>2. /\ call.table \in Tables /\ DOMAIN call.rows \subseteq Keys
      /\ \A k \in DOMAIN call.rows : call.rows[k] \in StoredRows(l)
  BY WriteCallFacts
<1>3. ASSUME NEW k \in Keys PROVE new(k) \in StoredRows(l) \cup {NoRow}
  <2>1. CASE k \notin DOMAIN call.rows
    BY <1>1, <1>2, <2>1
  <2>2. CASE k \in DOMAIN call.rows /\ (call.op = "insert" \/ v[call.table][k] = NoRow)
    BY <1>1, <1>2, <2>2
  <2>3. CASE k \in DOMAIN call.rows /\ ~(call.op = "insert" \/ v[call.table][k] = NoRow)
    <3>1. v[call.table][k] \in [DOMAIN l.fks -> Keys \cup {Null}]
      BY <1>1, <1>2, <2>3 DEF StoredRows
    <3>2. call.rows[k] \in [DOMAIN l.fks -> Keys \cup {Null}]
      BY <1>2, <2>3 DEF StoredRows
    <3>3. [f \in DOMAIN l.fks |-> IF f \in call.fks THEN call.rows[k][f] ELSE v[call.table][k][f]] \in StoredRows(l)
      BY <3>1, <3>2 DEF StoredRows
    <3> QED
      BY <2>3, <3>3
  <2> QED
    BY <2>1, <2>2, <2>3
<1>4. /\ Effect(l, call, v)[call.table] = [k \in Keys |-> new(k)]
      /\ \A t \in Tables : t # call.table => Effect(l, call, v)[t] = v[t]
      /\ DOMAIN Effect(l, call, v) = Tables
      /\ Effect(l, call, v) = [t \in Tables |-> IF t = call.table THEN [k \in Keys |-> new(k)] ELSE v[t]]
  BY <1>1, <1>2 DEF Effect
<1>5. \A k \in Keys : Effect(l, call, v)[call.table][k] = new(k)
  BY <1>4
<1>6. Effect(l, call, v) \in DBs(l)
  <2> HIDE DEF new
  <2>1. [k \in Keys |-> new(k)] \in [Keys -> StoredRows(l) \cup {NoRow}]
    BY <1>3
  <2> QED
    BY <1>1, <1>4, <2>1 DEF DBs
<1>7. ASSUME NEW t \in Tables, NEW k \in Keys, ~(t = call.table /\ k \in DOMAIN call.rows)
      PROVE  Effect(l, call, v)[t][k] = v[t][k]
  BY <1>4, <1>5, <1>7
<1>8. ASSUME NEW t \in Tables, NEW k \in Keys, v[t][k] # NoRow
      PROVE  Effect(l, call, v)[t][k] # NoRow
  <2>1. NoRow \notin StoredRows(l)
    BY WorkloadsAssumption
  <2>2. CASE t = call.table /\ k \in DOMAIN call.rows
    <3>1. Effect(l, call, v)[t][k] = new(k) /\ new(k) \in StoredRows(l) \cup {NoRow}
      BY <1>3, <1>5, <2>2
    <3>2. CASE call.op = "insert"
      BY <1>2, <2>1, <2>2, <3>1, <3>2
    <3>3. CASE call.op # "insert"
      <4>1. v[call.table][k] \in [DOMAIN l.fks -> Keys \cup {Null}]
        BY <1>1, <1>2, <1>8, <2>2 DEF StoredRows
      <4>2. call.rows[k] \in [DOMAIN l.fks -> Keys \cup {Null}]
        BY <1>2, <2>2 DEF StoredRows
      <4>3. [f \in DOMAIN l.fks |-> IF f \in call.fks THEN call.rows[k][f] ELSE v[call.table][k][f]] \in StoredRows(l)
        BY <4>1, <4>2 DEF StoredRows
      <4> QED
        BY <1>8, <2>1, <2>2, <3>1, <3>3, <4>3
    <3> QED
      BY <3>2, <3>3
  <2>3. CASE ~(t = call.table /\ k \in DOMAIN call.rows)
    BY <1>7, <1>8, <2>3
  <2> QED
    BY <2>2, <2>3
<1>9. ASSUME NEW f \in DOMAIN l.fks, NEW k \in DOMAIN call.rows,
             Chi(l, f) = call.table, Effect(l, call, v)[call.table][k] # NoRow
      PROVE  IF f \in call.fks THEN Effect(l, call, v)[call.table][k][f] = call.rows[k][f]
             ELSE v[call.table][k] # NoRow /\ Effect(l, call, v)[call.table][k][f] = v[call.table][k][f]
  <2>1. Effect(l, call, v)[call.table][k] = new(k)
    BY <1>2, <1>5
  <2>2. CASE call.op = "insert"
    <3>1. f \in call.fks
      BY <1>9, <2>2, WriteCallFacts
    <3> QED
      BY <2>1, <2>2, <3>1
  <2>3. CASE call.op # "insert"
    <3>1. v[call.table][k] # NoRow
      BY <1>9, <2>1, <2>3
    <3>2. new(k) = [g \in DOMAIN l.fks |-> IF g \in call.fks THEN call.rows[k][g] ELSE v[call.table][k][g]]
      BY <2>3, <3>1
    <3> QED
      BY <2>1, <3>1, <3>2
  <2> QED
    BY <2>2, <2>3
<1> QED
  BY <1>6, <1>7, <1>8, <1>9

(* A write whose references are all there leaves none dangling.            *)
LEMMA EffectCovered ==
  ASSUME NEW l \in Workloads, NEW call, IsWriteCall(l, call), NEW v \in DBs(l), NEW X, NEW H,
         \A f \in call.fks, k \in DOMAIN call.rows :
           call.rows[k][f] # Null => call.rows[k][f] \in Live(v, Par(l, f)),
         Covered(l, v, X, H)
  PROVE  Covered(l, Effect(l, call, v), X, H)
<1> DEFINE w == Effect(l, call, v)
<1> SUFFICES ASSUME NEW f \in Tracked(l), NEW k \in Keys, NEW p \in Keys,
                    Points(l, w, f, k, p), w[Par(l, f)][p] = NoRow,
                    <<Chi(l, f), k>> \notin X, <<Par(l, f), p>> \notin X
             PROVE  <<f, p>> \in H
  BY DEF Covered
<1>1. v[Par(l, f)][p] = NoRow
  BY EffectFacts, TrackedFacts
<1>2. CASE Chi(l, f) = call.table /\ k \in DOMAIN call.rows
  <2>1. w[call.table][k] # NoRow /\ w[call.table][k][f] = p
    BY <1>2 DEF Points
  <2>2. CASE f \in call.fks
    <3>1. call.rows[k][f] = p
      BY <1>2, <2>1, <2>2, EffectFacts, TrackedFacts
    <3>2. p \in Live(v, Par(l, f))
      BY <1>2, <2>2, <3>1, NullAssumption
    <3> QED
      BY <1>1, <3>2 DEF Live
  <2>3. CASE f \notin call.fks
    <3>1. v[call.table][k] # NoRow /\ v[call.table][k][f] = p
      BY <1>2, <2>1, <2>3, EffectFacts, TrackedFacts
    <3>2. Points(l, v, f, k, p)
      BY <1>2, <3>1 DEF Points
    <3> QED
      BY <1>1, <3>2 DEF Covered
  <2> QED
    BY <2>2, <2>3
<1>3. CASE ~(Chi(l, f) = call.table /\ k \in DOMAIN call.rows)
  <2>1. w[Chi(l, f)][k] = v[Chi(l, f)][k]
    BY <1>3, EffectFacts, TrackedFacts
  <2>2. Points(l, v, f, k, p)
    BY <2>1 DEF Points
  <2> QED
    BY <1>1, <2>2 DEF Covered
<1> QED
  BY <1>2, <1>3

(* A delete commits: its rows are as in its snapshot, the others have only *)
(* shrunk since.                                                           *)
LEMMA CommitStep ==
  ASSUME NEW l \in Workloads, NEW old, NEW view, NEW d, NEW X,
         Covered(l, d, X, {}), Shrinks(l, old, d, X),
         Covered(l, view, X, {}), Shrinks(l, old, view, {}),
         \A t \in Tables, k \in Keys : view[t][k] # old[t][k] => d[t][k] = old[t][k],
         NEW m, \A t \in Tables, k \in Keys :
                  m[t][k] = IF view[t][k] # old[t][k] THEN view[t][k] ELSE d[t][k]
  PROVE  Covered(l, m, X, {}) /\ Shrinks(l, d, m, X)
<1>1. Shrinks(l, d, m, {})
  <2> SUFFICES ASSUME NEW t \in Tables, NEW k \in Keys PROVE RowShrinks(l, d[t][k], m[t][k])
    BY DEF Shrinks
  <2>1. RowShrinks(l, old[t][k], view[t][k])
    BY DEF Shrinks
  <2>2. RowShrinks(l, d[t][k], d[t][k])
    BY DEF RowShrinks
  <2> QED
    BY <2>1, <2>2
<1>2. Covered(l, m, X, {})
  <2> SUFFICES ASSUME NEW f \in Tracked(l), NEW k \in Keys, NEW p \in Keys,
                      Points(l, m, f, k, p), m[Par(l, f)][p] = NoRow,
                      <<Chi(l, f), k>> \notin X, <<Par(l, f), p>> \notin X
               PROVE  FALSE
    BY DEF Covered
  <2> DEFINE t == Chi(l, f) u == Par(l, f)
  <2>1. t \in Tables /\ u \in Tables /\ f \in DOMAIN l.fks
    BY TrackedFacts
  <2>2. Points(l, d, f, k, p)
    BY <1>1, <2>1, ShrinkPoints
  <2>3. Points(l, view, f, k, p)
    <3>1. CASE view[t][k] # old[t][k]
      <4>1. m[t][k] = view[t][k]
        BY <2>1, <3>1
      <4> QED
        BY <4>1 DEF Points
    <3>2. CASE view[t][k] = old[t][k]
      <4>1. Points(l, old, f, k, p)
        BY <2>1, <2>2, ShrinkPoints
      <4> QED
        BY <3>2, <4>1 DEF Points
    <3> QED
      BY <3>1, <3>2
  <2>4. view[u][p] = NoRow \/ d[u][p] = NoRow
    BY <2>1
  <2> QED
    BY <2>2, <2>3, <2>4 DEF Covered
<1> QED
  BY <1>1, <1>2, ShrinkMonotone

-----------------------------------------------------------------------------
(* The lookup of an insert or a patch                                      *)

(* Keys are told apart by their first field: one-column keys in the code's *)
(* terms.  The lookup matches each field of a composite key on its own and *)
(* compares with the number of first values (application-integrity.ts:126),*)
(* so that it may pass with a missing reference.                           *)
KeyIsFirstField == \A k, j \in Keys : k[1] = j[1] => k = j

LEMMA LookupCounts ==
  ASSUME KeyIsFirstField, NEW v, NEW t, NEW S \in SUBSET Keys, IsFiniteSet(S)
  PROVE  Found(v, t, S) < Expected(S) <=> ~(S \subseteq Live(v, t))
<1> DEFINE here == S \cap Live(v, t)
           firsts == {k[1] : k \in S}
           first == [k \in S |-> k[1]]
<1>1. Expected(S) = Cardinality(S)
  <2>1. first \in Surjection(S, firsts)
    BY DEF Surjection
  <2>2. first \in Injection(S, firsts)
    BY <2>1 DEF Surjection, Injection, IsInjective, KeyIsFirstField
  <2> HIDE DEF first, firsts
  <2>3. Cardinality(firsts) = Cardinality(S)
    BY <2>1, <2>2, FS_Surjection
  <2> QED
    BY <2>3 DEF Expected, firsts
<1>2. {k \in Live(v, t) : \A i \in DOMAIN k : \E s \in S : s[i] = k[i]} = here
  <2> SUFFICES ASSUME NEW k \in Live(v, t)
               PROVE  (\A i \in DOMAIN k : \E s \in S : s[i] = k[i]) <=> k \in S
    OBVIOUS
  <2>1. k \in Keys /\ 1 \in DOMAIN k
    BY KeysAssumption DEF Live
  <2>2. ASSUME \A i \in DOMAIN k : \E s \in S : s[i] = k[i] PROVE k \in S
    BY <2>1, <2>2 DEF KeyIsFirstField
  <2> QED
    BY <2>2
<1>3. Found(v, t, S) = Cardinality(here)
  BY <1>2 DEF Found
<1>4. /\ IsFiniteSet(here) /\ Cardinality(here) <= Cardinality(S)
      /\ Cardinality(S) = Cardinality(here) => S = here
  BY FS_Subset
<1>5. Cardinality(here) \in Nat /\ Cardinality(S) \in Nat
  BY <1>4, FS_CardinalityType
<1>6. S = here <=> S \subseteq Live(v, t)
  OBVIOUS
<1> QED
  BY <1>1, <1>3, <1>4, <1>5, <1>6

(* What a write references is finite.                                      *)
LEMMA ReferencedFacts ==
  ASSUME NEW l \in Workloads, NEW call, IsWriteCall(l, call), NEW f \in call.fks,
         NEW S, S = {call.rows[k][f] : k \in DOMAIN call.rows} \ {Null}
  PROVE  S \subseteq Keys /\ IsFiniteSet(S)
<1> DEFINE values == {call.rows[k][f] : k \in DOMAIN call.rows}
           value == [k \in DOMAIN call.rows |-> call.rows[k][f]]
<1>1. f \in DOMAIN l.fks /\ IsFiniteSet(DOMAIN call.rows)
  BY WriteCallFacts
<1>2. S \subseteq Keys
  <2>1. \A k \in DOMAIN call.rows : call.rows[k] \in [DOMAIN l.fks -> Keys \cup {Null}]
    BY WriteCallFacts DEF StoredRows
  <2> QED
    BY <1>1, <2>1
<1>3. value \in Surjection(DOMAIN call.rows, values)
  BY DEF Surjection
<1>4. IsFiniteSet(values)
  <2> HIDE DEF values, value
  <2> QED
    BY <1>1, <1>3, FS_Surjection
<1>5. IsFiniteSet(S)
  BY <1>4, FS_Subset
<1> QED
  BY <1>2, <1>5

-----------------------------------------------------------------------------
(* Type correctness                                                        *)

LEMMA WithRefFacts ==
  ASSUME NEW l \in Workloads, NEW v \in DBs(l), NEW f \in DOMAIN l.fks, NEW t, t = Chi(l, f),
         NEW S \in SUBSET Live(v, t), NEW w, w = WithRef(v, t, S, f, Null)
  PROVE  /\ w \in DBs(l) /\ Shrinks(l, v, w, {})
         /\ \A u \in Tables, k \in Keys : w[u][k] = NoRow => v[u][k] = NoRow
         /\ \A k \in S : w[t][k][f] = Null
<1>1. v \in [Tables -> [Keys -> StoredRows(l) \cup {NoRow}]] /\ t \in Tables /\ S \subseteq Keys
  BY FkFacts DEF DBs, Live
<1>2. NoRow \notin StoredRows(l)
  BY WorkloadsAssumption
<1> DEFINE new(k) == IF k \in S THEN [v[t][k] EXCEPT ![f] = Null] ELSE v[t][k]
<1>3. ASSUME NEW k \in S
      PROVE  /\ new(k) \in StoredRows(l) /\ new(k)[f] = Null
             /\ \A g \in DOMAIN l.fks : new(k)[g] = v[t][k][g] \/ new(k)[g] = Null
  <2>1. v[t][k] \in [DOMAIN l.fks -> Keys \cup {Null}]
    BY <1>1, <1>3 DEF Live, StoredRows
  <2>2. [v[t][k] EXCEPT ![f] = Null] \in [DOMAIN l.fks -> Keys \cup {Null}]
    BY <2>1
  <2> QED
    BY <1>3, <2>1, <2>2 DEF StoredRows
<1>4. w = [u \in Tables |-> IF u = t THEN [k \in Keys |-> new(k)] ELSE v[u]]
  BY <1>1 DEF WithRef
<1>5. ASSUME NEW k \in Keys PROVE new(k) \in StoredRows(l) \cup {NoRow}
  <2>1. CASE k \in S
    BY <1>3, <2>1
  <2>2. CASE k \notin S
    BY <1>1, <2>2
  <2> QED
    BY <2>1, <2>2
<1>6. \A u \in Tables, k \in Keys : w[u][k] = IF u = t THEN new(k) ELSE v[u][k]
  BY <1>4
<1>7. \A k \in Keys : k \notin S => new(k) = v[t][k]
  OBVIOUS
<1> HIDE DEF new
<1>8. w \in DBs(l)
  <2>1. [k \in Keys |-> new(k)] \in [Keys -> StoredRows(l) \cup {NoRow}]
    BY <1>5
  <2> QED
    BY <1>1, <1>4, <2>1 DEF DBs
<1>9. Shrinks(l, v, w, {})
  <2> SUFFICES ASSUME NEW u \in Tables, NEW k \in Keys PROVE RowShrinks(l, v[u][k], w[u][k])
    BY DEF Shrinks
  <2>1. CASE u = t /\ k \in S
    <3>1. w[u][k] = new(k) /\ v[u][k] # NoRow
      BY <1>6, <2>1 DEF Live
    <3> QED
      BY <1>3, <2>1, <3>1 DEF RowShrinks
  <2>2. CASE ~(u = t /\ k \in S)
    <3>1. w[u][k] = v[u][k]
      BY <1>6, <1>7, <2>2
    <3> QED
      BY <3>1 DEF RowShrinks
  <2> QED
    BY <2>1, <2>2
<1>10. ASSUME NEW u \in Tables, NEW k \in Keys, w[u][k] = NoRow PROVE v[u][k] = NoRow
  BY <1>2, <1>3, <1>6, <1>7, <1>10
<1>11. \A k \in S : w[t][k][f] = Null
  BY <1>1, <1>3, <1>6
<1> QED
  BY <1>8, <1>9, <1>10, <1>11

(* What a well-typed state says about the case it runs.                    *)
LEMMA LoadFacts ==
  ASSUME TypeOK
  PROVE  /\ load \in Workloads /\ Databases = DBs(load) /\ Frames = FrameSet(load)
         /\ Fks = load.fks /\ db \in DBs(load)
         /\ \A c \in Clients : stack[c] \in Stacks(load)
         /\ \A c \in Clients : Active(c) => View(c) \in DBs(load)
         /\ \A c \in Clients : CallOK(load, Call(c))
         /\ \A v, t, filter : Matching(v, t, filter) = Hits(load, v, t, filter)
<1>1. load \in Workloads /\ Databases = DBs(load) /\ Frames = FrameSet(load) /\ Fks = load.fks
  BY DEF TypeOK, Databases, Rows, DBs, Frames, FrameSet, Fks
<1>2. db \in DBs(load) /\ \A c \in Clients : stack[c] \in Stacks(load)
  BY <1>1 DEF TypeOK, Stacks
<1>3. ASSUME NEW c \in Clients, Active(c) PROVE View(c) \in DBs(load)
  BY <1>1, <1>2, <1>3 DEF TypeOK, View, Transactions
<1>4. \A c \in Clients : CallOK(load, Call(c))
  BY <1>1, WorkloadsAssumption DEF Call
<1>5. ASSUME NEW v, NEW t, NEW filter PROVE Matching(v, t, filter) = Hits(load, v, t, filter)
  BY DEF Matching, Hits, Fks, Chi
<1> QED
  BY <1>1, <1>2, <1>3, <1>4, <1>5

LEMMA TypeByParts ==
  ASSUME TypeOK, UNCHANGED <<load, realTx>>,
         db' \in Databases, tx' \in [Clients -> Transactions \cup {Null}],
         pc' \in [Clients -> {"idle", "cascade", "check", "finish", "done"}],
         outcome' \in [Clients -> Failed \cup {"none", "ok"}],
         stack' \in [Clients -> Seq(Frames)], checks' \in [Clients -> SUBSET DOMAIN Fks],
         start' \in [Clients -> Databases], overlapped' \in [Clients -> BOOLEAN],
         \A c \in Clients : pc'[c] = "cascade" <=> stack'[c] # <<>>,
         \A c \in Clients : realTx /\ pc'[c] \in {"cascade", "check", "finish"} => tx'[c] \in Transactions
  PROVE  TypeOK'
<1>1. /\ Databases' = Databases /\ Frames' = Frames /\ Transactions' = Transactions
      /\ Failed' = Failed /\ Fks' = Fks
  BY DEF Databases, Rows, Frames, Transactions, Fks, Failed
<1> QED
  BY <1>1 DEF TypeOK, Active

(* A statement's effect.                                                   *)
LEMMA WriteFacts ==
  ASSUME TypeOK, NEW c \in Clients, Active(c), NEW new \in Databases, Write(c, new)
  PROVE  /\ db' \in Databases /\ tx' \in [Clients -> Transactions \cup {Null}]
         /\ \A d \in Clients : realTx /\ Active(d) => tx'[d] \in Transactions
         /\ \A d \in Clients : d # c => tx'[d] = tx[d]
         /\ realTx => db' = db /\ tx'[c].view = new /\ tx'[c].snapshot = tx[c].snapshot
         /\ ~realTx => db' = new /\ tx' = tx
<1>1. CASE realTx
  <2>1. db' = db /\ tx' = [tx EXCEPT ![c].view = new] /\ tx[c] \in Transactions
    BY <1>1 DEF Write, TypeOK
  <2>2. tx' = [tx EXCEPT ![c] = [tx[c] EXCEPT !.view = new]]
    BY <2>1
  <2>3. /\ [tx[c] EXCEPT !.view = new] \in Transactions
        /\ [tx[c] EXCEPT !.view = new].view = new
        /\ [tx[c] EXCEPT !.view = new].snapshot = tx[c].snapshot
    BY <2>1 DEF Transactions
  <2>4. tx \in [Clients -> Transactions \cup {Null}] /\ db \in Databases
        /\ \A d \in Clients : Active(d) => tx[d] \in Transactions
    BY <1>1 DEF TypeOK
  <2> HIDE DEF Write
  <2> QED
    BY <1>1, <2>1, <2>2, <2>3, <2>4
<1>2. CASE ~realTx
  BY <1>2 DEF Write, TypeOK
<1> QED
  BY <1>1, <1>2

LEMMA SetTopFacts ==
  ASSUME TypeOK, NEW c \in Clients, pc[c] = "cascade", NEW frame \in Frames, SetTop(c, frame)
  PROVE  /\ stack' \in [Clients -> Seq(Frames)]
         /\ stack'[c] = [stack[c] EXCEPT ![Len(stack[c])] = frame] /\ stack'[c] # <<>>
         /\ \A d \in Clients : d # c => stack'[d] = stack[d]
<1>1. stack \in [Clients -> Seq(Frames)] /\ stack[c] # <<>>
  BY DEF TypeOK
<1>2. stack' = [stack EXCEPT ![c] = [stack[c] EXCEPT ![Len(stack[c])] = frame]]
  BY DEF SetTop
<1>3. ASSUME NEW r, r = [stack[c] EXCEPT ![Len(stack[c])] = frame]
      PROVE  r \in Seq(Frames) /\ r # <<>>
  <2>1. r \in Seq(Frames) /\ Len(r) = Len(stack[c]) /\ Len(stack[c]) \in Nat \ {0}
    BY <1>1, <1>3, ReplaceTop
  <2> QED
    BY <2>1, EmptySeq
<1> QED
  BY <1>1, <1>2, <1>3

LEMMA TopFacts ==
  ASSUME TypeOK, NEW c \in Clients, pc[c] = "cascade"
  PROVE  /\ stack[c] # <<>> /\ Len(stack[c]) \in Nat \ {0} /\ stack[c] \in Stacks(load)
         /\ Top(c) = stack[c][Len(stack[c])] /\ Top(c) \in Frames
<1>1. stack[c] \in Seq(Frames) /\ stack[c] # <<>>
  BY DEF TypeOK
<1>2. Len(stack[c]) \in Nat \ {0}
  BY <1>1
<1> QED
  BY <1>1, <1>2, LoadFacts DEF Top, Last, Stacks

LEMMA EnterTyped ==
  ASSUME TypeOK, NEW c \in Clients, Enter(c)
  PROVE  TypeOK'
<1>1. /\ pc[c] = "cascade" /\ Active(c)
      /\ UNCHANGED <<load, realTx, db, tx, checks, start, overlapped>>
  BY DEF Enter, Active
<1> DEFINE t == Top(c).table
           found == Matching(View(c), t, Top(c).filter)
           new == IF Targets(t, Actions) = {} THEN {} ELSE NewRecords(c, t, found)
<1>2. CASE Throw(c, "cycle")
  <2>1. /\ pc' = [pc EXCEPT ![c] = "finish"] /\ stack' = [stack EXCEPT ![c] = <<>>]
        /\ outcome' = [outcome EXCEPT ![c] = "cycle"]
    BY <1>2 DEF Throw, Goto
  <2> QED
    BY <1>1, <2>1, TypeByParts DEF TypeOK, Failed, Active
<1>3. CASE ~Throw(c, "cycle")
  <2> DEFINE frame ==
        [Top(c) EXCEPT
           !.entered = TRUE, !.records = new,
           !.filter = IF @.by = "some" /\ Targets(t, Actions) # {} THEN ByKeys(found) ELSE @,
           !.restrict = IF new = {} THEN {} ELSE Targets(t, {"restrict"}),
           !.left = IF new = {} THEN {} ELSE Targets(t, Actions \ {"restrict"})]
  <2>1. SetTop(c, frame) /\ UNCHANGED <<pc, outcome>>
    BY <1>3 DEF Enter
  <2>2. found \subseteq Keys
    BY DEF Matching, Live
  <2>3. new \subseteq Keys
    BY <2>2 DEF NewRecords
  <2>4. ByKeys(found) \in Filters
    BY <2>2 DEF ByKeys, Filters
  <2>5. Targets(t, {"restrict"}) \subseteq DOMAIN Fks /\ Targets(t, Actions \ {"restrict"}) \subseteq DOMAIN Fks
    BY DEF Targets
  <2>6. frame \in Frames
    <3> HIDE DEF found, new, t
    <3> QED
      BY ZenonT(60), <1>1, <2>3, <2>4, <2>5, TopFacts DEF Frames
  <2> HIDE DEF frame
  <2>7. /\ stack' \in [Clients -> Seq(Frames)] /\ stack'[c] # <<>>
        /\ \A d \in Clients : d # c => stack'[d] = stack[d]
    BY <1>1, <2>1, <2>6, SetTopFacts
  <2> QED
    BY <1>1, <2>1, <2>7, TypeByParts DEF TypeOK, Active
<1> QED
  BY <1>2, <1>3

LEMMA RestrictCheckTyped ==
  ASSUME TypeOK, NEW c \in Clients, RestrictCheck(c)
  PROVE  TypeOK'
<1>1. pc[c] = "cascade" /\ UNCHANGED <<load, realTx, db, tx, checks, start, overlapped>>
  BY DEF RestrictCheck
<1>2. CASE Throw(c, "conflict")
  <2>1. /\ pc' = [pc EXCEPT ![c] = "finish"] /\ stack' = [stack EXCEPT ![c] = <<>>]
        /\ outcome' = [outcome EXCEPT ![c] = "conflict"]
    BY <1>2 DEF Throw, Goto
  <2> QED
    BY <1>1, <2>1, TypeByParts DEF TypeOK, Failed, Active
<1>3. ASSUME NEW f, SetTop(c, [Top(c) EXCEPT !.restrict = @ \ {f}]), UNCHANGED <<pc, outcome>>
      PROVE  TypeOK'
  <2>1. [Top(c) EXCEPT !.restrict = @ \ {f}] \in Frames
    BY <1>1, TopFacts DEF Frames
  <2>2. /\ stack' \in [Clients -> Seq(Frames)] /\ stack'[c] # <<>>
        /\ \A d \in Clients : d # c => stack'[d] = stack[d]
    BY <1>1, <1>3, <2>1, SetTopFacts
  <2> QED
    BY <1>1, <1>3, <2>2, TypeByParts DEF TypeOK, Active
<1> QED
  BY <1>2, <1>3 DEF RestrictCheck

(* The parts of a cascade's step.                                          *)
LEMMA RemainingFacts ==
  ASSUME TypeOK, NEW c \in Clients, pc[c] = "cascade", NEW f
  PROVE  /\ Remaining(c, f) \in Frames
         /\ Remaining(c, f).table = Top(c).table /\ Remaining(c, f).filter = Top(c).filter
         /\ Remaining(c, f).entered = Top(c).entered /\ Remaining(c, f).records = Top(c).records
         /\ Remaining(c, f).restrict = Top(c).restrict /\ Remaining(c, f).left = Top(c).left \ {f}
  BY TopFacts DEF Remaining, Frames

LEMMA NextFrameFacts ==
  ASSUME TypeOK, NEW c \in Clients, pc[c] = "cascade", NEW f \in Top(c).left,
         NEW next, next = Frame(Fks[f].child, ByRef(f, Top(c).records))
  PROVE  /\ next \in Frames /\ next.table = Fks[f].child /\ next.filter = ByRef(f, Top(c).records)
         /\ next.entered = FALSE /\ next.records = {} /\ next.restrict = {} /\ next.left = {}
<1>1. f \in DOMAIN load.fks /\ Top(c).records \subseteq Keys /\ Fks = load.fks
  BY TopFacts DEF Frames, Fks
<1>2. Fks[f].child \in Tables /\ f \in Nat
  BY <1>1, LoadFacts, FkFacts DEF Chi
<1>3. ByRef(f, Top(c).records) \in Filters
  BY <1>1, <1>2 DEF ByRef, Filters
<1> QED
  BY <1>2, <1>3 DEF Frame, Frames

LEMMA DescendFacts ==
  ASSUME TypeOK, NEW c \in Clients, pc[c] = "cascade", NEW f \in Top(c).left, Descend(c, f),
         NEW next, next = Frame(Fks[f].child, ByRef(f, Top(c).records))
  PROVE  /\ stack'[c] = Append([stack[c] EXCEPT ![Len(stack[c])] = Remaining(c, f)], next)
         /\ stack' \in [Clients -> Seq(Frames)] /\ stack'[c] # <<>>
         /\ \A d \in Clients : d # c => stack'[d] = stack[d]
<1>1. stack \in [Clients -> Seq(Frames)] /\ stack[c] # <<>>
  BY DEF TypeOK
<1>2. stack' = [stack EXCEPT ![c] = Append([stack[c] EXCEPT ![Len(stack[c])] = Remaining(c, f)], next)]
  BY <1>1 DEF Descend
<1>3. next \in Frames /\ Remaining(c, f) \in Frames
  BY NextFrameFacts, RemainingFacts
<1>4. ASSUME NEW m, m = [stack[c] EXCEPT ![Len(stack[c])] = Remaining(c, f)]
      PROVE  Append(m, next) \in Seq(Frames) /\ Append(m, next) # <<>>
  <2>1. m \in Seq(Frames)
    BY <1>1, <1>3, <1>4, ReplaceTop
  <2> QED
    BY <1>3, <2>1, AppendProperties
<1> QED
  BY <1>1, <1>2, <1>4

LEMMA ChildrenFacts ==
  ASSUME TypeOK, NEW c \in Clients, pc[c] = "cascade", NEW f \in Top(c).left,
         NEW w, w = WithRef(View(c), Fks[f].child, Children(c, f), f, Null)
  PROVE  /\ f \in DOMAIN load.fks /\ Fks[f].child = Chi(load, f) /\ View(c) \in DBs(load)
         /\ w \in Databases /\ Shrinks(load, View(c), w, {})
         /\ \A u \in Tables, k \in Keys : w[u][k] = NoRow => View(c)[u][k] = NoRow
         /\ \A k \in Children(c, f) : w[Chi(load, f)][k][f] = Null
<1>1. f \in DOMAIN load.fks /\ Fks[f].child = Chi(load, f)
  BY TopFacts DEF Frames, Fks, Chi
<1>2. load \in Workloads /\ View(c) \in DBs(load) /\ Databases = DBs(load)
  BY LoadFacts DEF Active
<1>3. Children(c, f) \in SUBSET Live(View(c), Chi(load, f))
  BY <1>1 DEF Children, Matching
<1> QED
  BY <1>1, <1>2, <1>3, WithRefFacts

LEMMA ActTyped ==
  ASSUME TypeOK, NEW c \in Clients, Act(c)
  PROVE  TypeOK'
<1>1. pc[c] = "cascade" /\ Active(c) /\ UNCHANGED <<load, realTx, pc, outcome, checks, start, overlapped>>
  BY DEF Act, Active
<1>2. PICK f \in Top(c).left :
        \/ Fks[f].action = "cascade" /\ Descend(c, f) /\ UNCHANGED <<db, tx>>
        \/ /\ Fks[f].action = "setNull"
           /\ Write(c, WithRef(View(c), Fks[f].child, Children(c, f), f, Null))
           /\ SetTop(c, Remaining(c, f))
        \/ Fks[f].action = "setDefault" /\ SetTop(c, Remaining(c, f)) /\ UNCHANGED <<db, tx>>
  BY DEF Act
<1>3. CASE Descend(c, f) /\ UNCHANGED <<db, tx>>
  <2>1. /\ stack' \in [Clients -> Seq(Frames)] /\ stack'[c] # <<>>
        /\ \A d \in Clients : d # c => stack'[d] = stack[d]
    BY <1>1, <1>3, DescendFacts
  <2> QED
    BY <1>1, <1>3, <2>1, TypeByParts DEF TypeOK, Active
<1>4. ASSUME SetTop(c, Remaining(c, f))
      PROVE  /\ stack' \in [Clients -> Seq(Frames)] /\ stack'[c] # <<>>
             /\ \A d \in Clients : d # c => stack'[d] = stack[d]
  BY <1>1, <1>4, RemainingFacts, SetTopFacts
<1>5. CASE SetTop(c, Remaining(c, f)) /\ UNCHANGED <<db, tx>>
  BY <1>1, <1>4, <1>5, TypeByParts DEF TypeOK, Active
<1>6. CASE /\ Write(c, WithRef(View(c), Fks[f].child, Children(c, f), f, Null))
           /\ SetTop(c, Remaining(c, f))
  <2>1. WithRef(View(c), Fks[f].child, Children(c, f), f, Null) \in Databases
    BY <1>1, ChildrenFacts
  <2>2. /\ db' \in Databases /\ tx' \in [Clients -> Transactions \cup {Null}]
        /\ \A d \in Clients : realTx /\ Active(d) => tx'[d] \in Transactions
    BY <1>1, <1>6, <2>1, WriteFacts
  <2> QED
    BY <1>1, <1>4, <1>6, <2>2, TypeByParts DEF TypeOK, Active
<1> QED
  BY <1>2, <1>3, <1>5, <1>6

LEMMA DeleteTyped ==
  ASSUME TypeOK, NEW c \in Clients, Delete(c)
  PROVE  TypeOK'
<1> DEFINE t == Top(c).table
           w == Without(View(c), t, Matching(View(c), t, Top(c).filter))
<1>1. /\ pc[c] = "cascade" /\ Active(c) /\ Write(c, w) /\ stack' = [stack EXCEPT ![c] = Front(stack[c])]
      /\ UNCHANGED <<load, realTx, checks, start, overlapped>>
  BY DEF Delete, Active
<1>2. w \in Databases
  <2>1. t \in Tables
    BY <1>1, TopFacts DEF Frames
  <2> HIDE DEF t
  <2> QED
    BY <1>1, <2>1, LoadFacts, WithoutShrinks
<1> HIDE DEF w
<1>3. /\ db' \in Databases /\ tx' \in [Clients -> Transactions \cup {Null}]
      /\ \A d \in Clients : realTx /\ Active(d) => tx'[d] \in Transactions
  BY <1>1, <1>2, WriteFacts
<1>4. /\ Front(stack[c]) \in Seq(Frames)
      /\ Front(stack[c]) = <<>> <=> Len(stack[c]) = 1
  <2>1. stack[c] \in Seq(Frames) /\ stack[c] # <<>>
    BY <1>1 DEF TypeOK
  <2> QED
    BY <2>1, FrontFacts
<1>5. stack' \in [Clients -> Seq(Frames)] /\ stack'[c] = Front(stack[c])
      /\ \A d \in Clients : d # c => stack'[d] = stack[d]
  BY <1>1, <1>4 DEF TypeOK
<1>6. CASE Len(stack[c]) = 1
  <2>1. pc' = [pc EXCEPT ![c] = "finish"] /\ outcome' = [outcome EXCEPT ![c] = "ok"]
    BY <1>6 DEF Delete, Goto
  <2> QED
    BY <1>1, <1>3, <1>4, <1>5, <1>6, <2>1, TypeByParts DEF TypeOK, Active
<1>7. CASE Len(stack[c]) # 1
  <2>1. UNCHANGED <<pc, outcome>>
    BY <1>7 DEF Delete
  <2> QED
    BY <1>1, <1>3, <1>4, <1>5, <1>7, <2>1, TypeByParts DEF TypeOK, Active
<1> QED
  BY <1>6, <1>7

LEMMA BeginTyped ==
  ASSUME TypeOK, NEW c \in Clients, Begin(c)
  PROVE  TypeOK'
<1>1. /\ pc[c] = "idle" /\ UNCHANGED <<load, realTx, db, outcome>>
      /\ pc' = [pc EXCEPT ![c] = IF IsDelete(c) THEN "cascade" ELSE "check"]
      /\ tx' = IF realTx THEN [tx EXCEPT ![c] = [view |-> db, snapshot |-> db]] ELSE tx
      /\ stack' = [stack EXCEPT ![c] = IF IsDelete(c) THEN <<Frame(Call(c).table, Call(c).filter)>> ELSE <<>>]
      /\ checks' = [checks EXCEPT ![c] = IF IsWrite(c) THEN Call(c).fks ELSE {}]
      /\ start' = [start EXCEPT ![c] = db]
  BY DEF Begin, Goto
<1>2. overlapped' \in [Clients -> BOOLEAN]
  BY DEF Begin, TypeOK
<1>3. [view |-> db, snapshot |-> db] \in Transactions
  BY DEF Transactions, TypeOK
<1>4. tx' \in [Clients -> Transactions \cup {Null}]
      /\ \A d \in Clients : realTx /\ (Active(d) \/ d = c) => tx'[d] \in Transactions
  BY <1>1, <1>3 DEF TypeOK
<1>5. IsDelete(c) => Frame(Call(c).table, Call(c).filter) \in Frames
  <2>1. CallOK(load, Call(c))
    BY LoadFacts
  <2>2. IsDelete(c) => Call(c).table \in Tables /\ Call(c).filter \in Filters
    BY <2>1 DEF CallOK, IsDelete, Filters
  <2> QED
    BY <2>2 DEF Frame, Frames
<1>6. stack' \in [Clients -> Seq(Frames)] /\ (stack'[c] # <<>> <=> IsDelete(c))
      /\ \A d \in Clients : d # c => stack'[d] = stack[d]
  <2>1. IsDelete(c) => <<Frame(Call(c).table, Call(c).filter)>> \in Seq(Frames)
    BY <1>5
  <2>2. <<Frame(Call(c).table, Call(c).filter)>> # <<>>
    OBVIOUS
  <2> QED
    BY <1>1, <2>1, <2>2 DEF TypeOK
<1>7. checks' \in [Clients -> SUBSET DOMAIN Fks]
  <2>1. IsWrite(c) => Call(c).fks \subseteq DOMAIN Fks
    BY LoadFacts DEF CallOK, IsWrite
  <2> QED
    BY <1>1, <2>1 DEF TypeOK
<1> QED
  BY <1>1, <1>2, <1>4, <1>6, <1>7, TypeByParts DEF TypeOK, Active

LEMMA CheckTyped ==
  ASSUME TypeOK, NEW c \in Clients, Check(c)
  PROVE  TypeOK'
<1>1. pc[c] = "check" /\ UNCHANGED <<load, realTx, db, tx, start, overlapped>>
  BY DEF Check
<1>2. CASE Throw(c, "missing") /\ UNCHANGED checks
  <2>1. /\ pc' = [pc EXCEPT ![c] = "finish"] /\ stack' = [stack EXCEPT ![c] = <<>>]
        /\ outcome' = [outcome EXCEPT ![c] = "missing"]
    BY <1>2 DEF Throw, Goto
  <2> QED
    BY <1>1, <1>2, <2>1, TypeByParts DEF TypeOK, Failed, Active
<1>3. ASSUME NEW f, checks' = [checks EXCEPT ![c] = @ \ {f}], UNCHANGED <<pc, outcome, stack>>
      PROVE  TypeOK'
  <2>1. checks' \in [Clients -> SUBSET DOMAIN Fks]
    BY <1>3 DEF TypeOK
  <2> QED
    BY <1>1, <1>3, <2>1, TypeByParts DEF TypeOK, Active
<1> QED
  BY <1>2, <1>3 DEF Check

LEMMA EffectIs ==
  ASSUME TypeOK, NEW c \in Clients, NEW v \in DBs(load)
  PROVE  /\ Call(c).op = "insert" => Inserted(c, v) = Effect(load, Call(c), v)
         /\ Call(c).op # "insert" => Patched(c, v) = Effect(load, Call(c), v)
<1> DEFINE t == Call(c).table
<1>1. ASSUME Call(c).op = "insert"
      PROVE  Inserted(c, v) = Effect(load, Call(c), v)
  <2>1. ASSUME NEW k \in Keys
        PROVE  (IF k \in DOMAIN Call(c).rows THEN Call(c).rows[k] ELSE v[t][k])
               = (IF k \notin DOMAIN Call(c).rows THEN v[t][k]
                  ELSE IF Call(c).op = "insert" THEN Call(c).rows[k]
                  ELSE IF v[t][k] = NoRow THEN NoRow
                  ELSE [f \in DOMAIN load.fks |-> IF f \in Call(c).fks THEN Call(c).rows[k][f] ELSE v[t][k][f]])
    BY <1>1
  <2> QED
    BY <2>1 DEF Inserted, Effect
<1>2. ASSUME Call(c).op # "insert"
      PROVE  Patched(c, v) = Effect(load, Call(c), v)
  <2>1. ASSUME NEW k \in Keys
        PROVE  (IF k \in DOMAIN Call(c).rows /\ v[t][k] # NoRow
                THEN [f \in DOMAIN load.fks |-> IF f \in Call(c).fks THEN Call(c).rows[k][f] ELSE v[t][k][f]]
                ELSE v[t][k])
               = (IF k \notin DOMAIN Call(c).rows THEN v[t][k]
                  ELSE IF Call(c).op = "insert" THEN Call(c).rows[k]
                  ELSE IF v[t][k] = NoRow THEN NoRow
                  ELSE [f \in DOMAIN load.fks |-> IF f \in Call(c).fks THEN Call(c).rows[k][f] ELSE v[t][k][f]])
    BY <1>2
  <2> QED
    BY <2>1 DEF Patched, Effect, Fks
<1> QED
  BY <1>1, <1>2

LEMMA IsWriteCallOf ==
  ASSUME TypeOK, NEW c \in Clients, IsWrite(c)
  PROVE  load \in Workloads /\ IsWriteCall(load, Call(c))
  BY LoadFacts DEF IsWrite, IsWriteCall

(* The write statement: nothing if a key is taken, else the effect.        *)
LEMMA WriteRowsFacts ==
  ASSUME TypeOK, PcInv, NEW c \in Clients, WriteRows(c)
  PROVE  /\ pc[c] = "check" /\ checks[c] = {} /\ IsWrite(c) /\ Active(c)
         /\ pc' = [pc EXCEPT ![c] = "finish"]
         /\ UNCHANGED <<load, realTx, stack, checks, start, overlapped>>
         /\ \E new \in Databases, o \in {"ok", "duplicate"} :
              /\ Write(c, new) /\ outcome' = [outcome EXCEPT ![c] = o]
              /\ new = IF o = "ok" THEN Effect(load, Call(c), View(c)) ELSE View(c)
<1>1. /\ pc[c] = "check" /\ checks[c] = {} /\ pc' = [pc EXCEPT ![c] = "finish"]
      /\ UNCHANGED <<load, realTx, stack, checks, start, overlapped>>
  BY DEF WriteRows, Goto
<1>2. IsWrite(c) /\ Active(c)
  BY <1>1 DEF PcInv, Active
<1> DEFINE taken == Call(c).op = "insert" /\ DOMAIN Call(c).rows \cap Live(View(c), Call(c).table) # {}
           new == IF taken THEN View(c)
                  ELSE IF Call(c).op = "insert" THEN Inserted(c, View(c)) ELSE Patched(c, View(c))
<1>3. Write(c, new) /\ outcome' = [outcome EXCEPT ![c] = IF taken THEN "duplicate" ELSE "ok"]
  BY DEF WriteRows
<1>4. View(c) \in DBs(load) /\ Databases = DBs(load)
  BY <1>2, LoadFacts
<1>5. ~taken => new = Effect(load, Call(c), View(c))
  BY <1>4, EffectIs
<1>6. taken => new = View(c)
  OBVIOUS
<1> HIDE DEF taken, new
<1>7. new \in Databases
  BY <1>2, <1>4, <1>5, <1>6, IsWriteCallOf, EffectFacts
<1>8. CASE taken
  <2>1. Write(c, new) /\ outcome' = [outcome EXCEPT ![c] = "duplicate"] /\ new = View(c)
    BY <1>3, <1>6, <1>8
  <2> QED
    BY <1>1, <1>2, <1>7, <2>1
<1>9. CASE ~taken
  <2>1. /\ Write(c, new) /\ outcome' = [outcome EXCEPT ![c] = "ok"]
        /\ new = Effect(load, Call(c), View(c))
    BY <1>3, <1>5, <1>9
  <2> QED
    BY <1>1, <1>2, <1>7, <2>1
<1> QED
  BY <1>8, <1>9

LEMMA WriteRowsTyped ==
  ASSUME TypeOK, PcInv, NEW c \in Clients, WriteRows(c)
  PROVE  TypeOK'
<1>1. /\ pc[c] = "check" /\ Active(c) /\ pc' = [pc EXCEPT ![c] = "finish"]
      /\ UNCHANGED <<load, realTx, stack, checks, start, overlapped>>
  BY WriteRowsFacts
<1>2. PICK new \in Databases, o \in {"ok", "duplicate"} :
        Write(c, new) /\ outcome' = [outcome EXCEPT ![c] = o]
  BY WriteRowsFacts
<1>3. /\ db' \in Databases /\ tx' \in [Clients -> Transactions \cup {Null}]
      /\ \A d \in Clients : realTx /\ Active(d) => tx'[d] \in Transactions
  BY <1>1, <1>2, WriteFacts
<1>4. outcome' \in [Clients -> Failed \cup {"none", "ok"}]
  BY <1>2 DEF TypeOK, Failed
<1> QED
  BY <1>1, <1>3, <1>4, TypeByParts DEF TypeOK, Active

(* The end of a transaction: a retry, a commit or nothing to commit.       *)
LEMMA FinishFacts ==
  ASSUME TypeOK, NEW c \in Clients, Finish(c)
  PROVE  /\ pc[c] = "finish" /\ Active(c) /\ tx' = [tx EXCEPT ![c] = Null]
         /\ UNCHANGED <<load, realTx, stack, checks, start, overlapped>>
         /\ db' \in Databases
         /\ \/ /\ realTx /\ outcome[c] = "ok" /\ db' = db
               /\ pc' = [pc EXCEPT ![c] = "idle"] /\ outcome' = [outcome EXCEPT ![c] = "none"]
            \/ /\ realTx /\ outcome[c] = "ok"
               /\ \A t \in Tables, k \in Keys :
                    tx[c].view[t][k] # tx[c].snapshot[t][k] => db[t][k] = tx[c].snapshot[t][k]
               /\ \A t \in Tables, k \in Keys :
                    db'[t][k] = IF tx[c].view[t][k] # tx[c].snapshot[t][k]
                                THEN tx[c].view[t][k] ELSE db[t][k]
               /\ pc' = [pc EXCEPT ![c] = "done"] /\ UNCHANGED outcome
            \/ /\ ~realTx \/ outcome[c] \in Failed
               /\ pc' = [pc EXCEPT ![c] = "done"] /\ UNCHANGED <<db, outcome>>
<1>1. /\ pc[c] = "finish" /\ Active(c) /\ tx' = [tx EXCEPT ![c] = Null]
      /\ UNCHANGED <<load, realTx, stack, checks, start, overlapped>>
  BY DEF Finish, Active
<1>2. CASE /\ realTx /\ outcome[c] = "ok" /\ WriteConflict(c)
           /\ Goto(c, "idle") /\ outcome' = [outcome EXCEPT ![c] = "none"]
           /\ UNCHANGED db
  BY <1>1, <1>2 DEF Goto, TypeOK
<1>3. CASE /\ realTx /\ outcome[c] = "ok" /\ ~WriteConflict(c)
           /\ db' = [t \in Tables |-> [k \in Keys |->
                       IF Changed(c, t, k) THEN tx[c].view[t][k] ELSE db[t][k]]]
           /\ Goto(c, "done") /\ UNCHANGED outcome
  <2>1. tx[c].view \in Databases /\ db \in Databases
    BY <1>1, <1>3 DEF TypeOK, Transactions
  <2>2. \A t \in Tables, k \in Keys :
          db'[t][k] = IF tx[c].view[t][k] # tx[c].snapshot[t][k] THEN tx[c].view[t][k] ELSE db[t][k]
    BY <1>3 DEF Changed
  <2>3. db' \in Databases
    BY <1>3, <2>1 DEF Databases
  <2>4. \A t \in Tables, k \in Keys :
          tx[c].view[t][k] # tx[c].snapshot[t][k] => db[t][k] = tx[c].snapshot[t][k]
    BY <1>3 DEF WriteConflict, Changed
  <2> QED
    BY <1>1, <1>3, <2>2, <2>3, <2>4 DEF Goto
<1>4. CASE /\ ~realTx \/ outcome[c] \in Failed
           /\ Goto(c, "done") /\ UNCHANGED <<db, outcome>>
  BY <1>1, <1>4 DEF Goto, TypeOK
<1> QED
  BY <1>2, <1>3, <1>4 DEF Finish

LEMMA FinishTyped ==
  ASSUME TypeOK, PcInv, NEW c \in Clients, Finish(c)
  PROVE  TypeOK'
<1>1. /\ pc[c] = "finish" /\ tx' = [tx EXCEPT ![c] = Null] /\ db' \in Databases
      /\ UNCHANGED <<load, realTx, stack, checks, start, overlapped>>
  BY FinishFacts
<1>2. /\ pc' = [pc EXCEPT ![c] = "idle"] \/ pc' = [pc EXCEPT ![c] = "done"]
      /\ UNCHANGED outcome \/ outcome' = [outcome EXCEPT ![c] = "none"]
  BY FinishFacts
<1>3. pc' \in [Clients -> {"idle", "cascade", "check", "finish", "done"}]
      /\ pc'[c] \in {"idle", "done"} /\ \A d \in Clients : d # c => pc'[d] = pc[d]
  BY <1>2 DEF TypeOK
<1>4. outcome' \in [Clients -> Failed \cup {"none", "ok"}]
  BY <1>2 DEF TypeOK
<1>5. tx' \in [Clients -> Transactions \cup {Null}] /\ \A d \in Clients : d # c => tx'[d] = tx[d]
  BY <1>1 DEF TypeOK
<1> QED
  BY <1>1, <1>3, <1>4, <1>5, TypeByParts DEF TypeOK, Active

LEMMA PcByParts ==
  ASSUME PcInv, NEW c \in Clients, load' = load,
         \A d \in Clients : d # c => pc'[d] = pc[d] /\ outcome'[d] = outcome[d] /\ checks'[d] = checks[d],
         pc'[c] \in {"idle", "cascade", "check"} => outcome'[c] = "none",
         pc'[c] = "finish" => outcome'[c] # "none",
         pc'[c] # "done" => IsDelete(c) \/ IsWrite(c),
         pc'[c] = "cascade" => IsDelete(c), pc'[c] = "check" => IsWrite(c),
         IsWrite(c) => checks'[c] \subseteq Call(c).fks
  PROVE  PcInv'
<1>1. \A d \in Clients : Call(d)' = Call(d) /\ IsDelete(d)' = IsDelete(d) /\ IsWrite(d)' = IsWrite(d)
  BY DEF Call, IsDelete, IsWrite
<1> SUFFICES ASSUME NEW d \in Clients
             PROVE  /\ pc'[d] \in {"idle", "cascade", "check"} => outcome'[d] = "none"
                    /\ pc'[d] = "finish" => outcome'[d] # "none"
                    /\ pc'[d] # "done" => IsDelete(d) \/ IsWrite(d)
                    /\ pc'[d] = "cascade" => IsDelete(d)
                    /\ pc'[d] = "check" => IsWrite(d)
                    /\ IsWrite(d) => checks'[d] \subseteq Call(d).fks
  BY <1>1 DEF PcInv
<1>2. CASE d = c
  BY <1>2
<1>3. CASE d # c
  BY <1>3 DEF PcInv
<1> QED
  BY <1>2, <1>3

LEMMA ThrowFacts ==
  ASSUME TypeOK, NEW c \in Clients, NEW e \in Failed, Throw(c, e)
  PROVE  /\ pc' = [pc EXCEPT ![c] = "finish"] /\ stack' = [stack EXCEPT ![c] = <<>>]
         /\ outcome' = [outcome EXCEPT ![c] = e]
         /\ pc'[c] = "finish" /\ outcome'[c] = e /\ stack'[c] = <<>> /\ e \notin {"none", "ok"}
         /\ \A d \in Clients : d # c => /\ pc'[d] = pc[d] /\ outcome'[d] = outcome[d]
                                         /\ stack'[d] = stack[d]
  BY DEF Throw, Goto, TypeOK, Failed

LEMMA PcStep ==
  ASSUME TypeOK, PcInv, [Next]_vars
  PROVE  PcInv'
<1>1. CASE UNCHANGED vars
  BY <1>1 DEF vars, calls, PcInv, IsDelete, IsWrite, Call
<1>2. ASSUME NEW c \in Clients, Step(c) PROVE PcInv'
  <2>1. CASE Begin(c)
    <3>1. /\ pc[c] = "idle" /\ UNCHANGED <<load, outcome>>
          /\ pc' = [pc EXCEPT ![c] = IF IsDelete(c) THEN "cascade" ELSE "check"]
          /\ checks' = [checks EXCEPT ![c] = IF IsWrite(c) THEN Call(c).fks ELSE {}]
      BY <2>1 DEF Begin, Goto
    <3>2. outcome[c] = "none" /\ (IsDelete(c) \/ IsWrite(c))
      BY <3>1 DEF PcInv
    <3>3. /\ pc'[c] = IF IsDelete(c) THEN "cascade" ELSE "check"
          /\ checks'[c] = IF IsWrite(c) THEN Call(c).fks ELSE {}
          /\ \A d \in Clients : d # c => pc'[d] = pc[d] /\ checks'[d] = checks[d]
      BY <3>1 DEF TypeOK
    <3> QED
      BY <3>1, <3>2, <3>3, PcByParts
  <2>2. CASE UNCHANGED <<load, pc, outcome, checks>>
    BY <2>2 DEF PcInv, IsDelete, IsWrite, Call
  <2>3. ASSUME NEW e \in Failed, Throw(c, e), UNCHANGED <<load, checks>>, pc[c] # "done" PROVE PcInv'
    <3>1. /\ pc'[c] = "finish" /\ outcome'[c] = e /\ e \notin {"none", "ok"}
          /\ \A d \in Clients : d # c => pc'[d] = pc[d] /\ outcome'[d] = outcome[d]
      BY <2>3, ThrowFacts
    <3> QED
      BY <2>3, <3>1, PcByParts DEF PcInv
  <2>4. CASE Enter(c)
    <3>1. pc[c] = "cascade" /\ UNCHANGED <<load, checks>>
          /\ (Throw(c, "cycle") \/ UNCHANGED <<pc, outcome>>)
      BY <2>4 DEF Enter
    <3> QED
      BY <2>2, <2>3, <3>1 DEF Failed
  <2>5. CASE RestrictCheck(c)
    <3>1. pc[c] = "cascade" /\ UNCHANGED <<load, checks>>
          /\ (Throw(c, "conflict") \/ UNCHANGED <<pc, outcome>>)
      BY <2>5 DEF RestrictCheck
    <3> QED
      BY <2>2, <2>3, <3>1 DEF Failed
  <2>6. CASE Act(c)
    BY <2>2, <2>6 DEF Act
  <2>7. CASE Delete(c)
    <3>1. /\ pc[c] = "cascade" /\ UNCHANGED <<load, checks>>
          /\ \/ pc' = [pc EXCEPT ![c] = "finish"] /\ outcome' = [outcome EXCEPT ![c] = "ok"]
             \/ UNCHANGED <<pc, outcome>>
      BY <2>7 DEF Delete, Goto
    <3>2. CASE pc' = [pc EXCEPT ![c] = "finish"] /\ outcome' = [outcome EXCEPT ![c] = "ok"]
      <4>1. /\ pc'[c] = "finish" /\ outcome'[c] = "ok"
            /\ \A d \in Clients : d # c => pc'[d] = pc[d] /\ outcome'[d] = outcome[d]
        BY <3>2 DEF TypeOK
      <4> QED
        BY <3>1, <4>1, PcByParts DEF PcInv
    <3> QED
      BY <2>2, <3>1, <3>2
  <2>8. CASE Check(c)
    <3>1. pc[c] = "check" /\ UNCHANGED load
      BY <2>8 DEF Check
    <3>2. CASE Throw(c, "missing") /\ UNCHANGED checks
      BY <2>3, <3>1, <3>2 DEF Failed
    <3>3. CASE \E f \in checks[c] : checks' = [checks EXCEPT ![c] = @ \ {f}] /\ UNCHANGED <<pc, outcome>>
      <4>1. UNCHANGED <<pc, outcome>> /\ checks'[c] \subseteq checks[c]
            /\ \A d \in Clients : d # c => checks'[d] = checks[d]
        BY <3>3 DEF TypeOK
      <4>2. IsWrite(c) => checks'[c] \subseteq Call(c).fks
        BY <4>1 DEF PcInv
      <4> QED
        BY <3>1, <4>1, <4>2, PcByParts DEF PcInv
    <3> QED
      BY <2>8, <3>2, <3>3 DEF Check
  <2>9. CASE WriteRows(c)
    <3>1. /\ pc[c] = "check" /\ pc' = [pc EXCEPT ![c] = "finish"] /\ UNCHANGED <<load, checks>>
      BY <2>9, WriteRowsFacts
    <3>2. \E o \in {"ok", "duplicate"} : outcome' = [outcome EXCEPT ![c] = o]
      BY <2>9, WriteRowsFacts
    <3>3. /\ pc'[c] = "finish" /\ outcome'[c] # "none"
          /\ \A d \in Clients : d # c => pc'[d] = pc[d] /\ outcome'[d] = outcome[d]
      BY <3>1, <3>2 DEF TypeOK
    <3> QED
      BY <3>1, <3>3, PcByParts DEF PcInv
  <2>10. CASE Finish(c)
    <3>1. /\ pc[c] = "finish" /\ UNCHANGED <<load, checks>>
          /\ \/ pc' = [pc EXCEPT ![c] = "idle"] /\ outcome' = [outcome EXCEPT ![c] = "none"]
             \/ pc' = [pc EXCEPT ![c] = "done"] /\ UNCHANGED outcome
      BY <2>10, FinishFacts
    <3>2. /\ (pc'[c] = "idle" /\ outcome'[c] = "none") \/ pc'[c] = "done"
          /\ \A d \in Clients : d # c => pc'[d] = pc[d] /\ outcome'[d] = outcome[d]
      BY <3>1 DEF TypeOK
    <3>3. IsDelete(c) \/ IsWrite(c)
      BY <3>1 DEF PcInv
    <3> QED
      BY <3>1, <3>2, <3>3, PcByParts DEF PcInv
  <2> QED
    BY <1>2, <2>1, <2>4, <2>5, <2>6, <2>7, <2>8, <2>9, <2>10 DEF Step
<1> QED
  BY <1>1, <1>2 DEF Next

LEMMA TypeStep ==
  ASSUME TypeOK, PcInv, [Next]_vars
  PROVE  TypeOK'
<1>1. CASE UNCHANGED vars
  <2>1. UNCHANGED <<load, realTx, db, tx, pc, outcome, stack, checks, start, overlapped>>
    BY <1>1 DEF vars, calls
  <2> QED
    BY <2>1, TypeByParts DEF TypeOK, Active
<1>2. ASSUME NEW c \in Clients, Step(c) PROVE TypeOK'
  BY <1>2, BeginTyped, EnterTyped, RestrictCheckTyped, ActTyped, DeleteTyped, CheckTyped,
     WriteRowsTyped, FinishTyped DEF Step
<1> QED
  BY <1>1, <1>2 DEF Next

LEMMA TypeInit ==
  ASSUME Init
  PROVE  TypeOK /\ PcInv
<1>1. load \in Workloads /\ load.db \in Databases
  BY WorkloadsAssumption DEF Init, Databases, Rows
<1>2. TypeOK
  <2>1. <<>> \in Seq(Frames)
    OBVIOUS
  <2> QED
    BY <1>1, <2>1 DEF Init, TypeOK, Active
<1>3. PcInv
  BY DEF Init, PcInv, IsDelete, IsWrite
<1> QED
  BY <1>2, <1>3

(* Every step keeps every variable in its range, for any case, any number  *)
(* of clients and both kinds of transactions (application-integrity.ts).   *)
THEOREM TypeCorrect == Spec => []TypeOK
<1>1. Init => TypeOK /\ PcInv
  BY TypeInit
<1>2. (TypeOK /\ PcInv) /\ [Next]_vars => (TypeOK /\ PcInv)'
  BY TypeStep, PcStep
<1> QED
  BY <1>1, <1>2, PTL DEF Spec

-----------------------------------------------------------------------------
(* Who is alone, and the verdict of the check                              *)

(* What every step leaves alone.                                           *)
LEMMA StepFrame ==
  ASSUME TypeOK, PcInv, NEW c \in Clients, Step(c)
  PROVE  /\ UNCHANGED <<load, realTx>>
         /\ \A d \in Clients : /\ Call(d)' = Call(d) /\ (IsDelete(d)' <=> IsDelete(d))
                               /\ (IsWrite(d)' <=> IsWrite(d))
         /\ \A d \in Clients : d # c =>
              /\ pc'[d] = pc[d] /\ outcome'[d] = outcome[d] /\ stack'[d] = stack[d]
              /\ tx'[d] = tx[d] /\ checks'[d] = checks[d] /\ start'[d] = start[d]
              /\ Active(d)' <=> Active(d)
         /\ \A d \in Clients : overlapped[d] => overlapped'[d]
         /\ Begin(c) \/ (Active(c) /\ UNCHANGED <<overlapped, start>>)
<1>1. UNCHANGED <<load, realTx>>
  BY DEF Step, Begin, Enter, RestrictCheck, Act, Delete, Check, WriteRows, Finish
<1>2. \A d \in Clients : /\ Call(d)' = Call(d) /\ (IsDelete(d)' <=> IsDelete(d))
                         /\ (IsWrite(d)' <=> IsWrite(d))
  BY <1>1 DEF Call, IsDelete, IsWrite
<1> DEFINE Same == \A d \in Clients : d # c =>
                     /\ pc'[d] = pc[d] /\ outcome'[d] = outcome[d] /\ stack'[d] = stack[d]
                     /\ tx'[d] = tx[d] /\ checks'[d] = checks[d] /\ start'[d] = start[d]
<1>3. CASE Begin(c)
  <2>1. Same
    BY <1>3 DEF Begin, Goto, TypeOK
  <2>2. \A d \in Clients : overlapped[d] => overlapped'[d]
    BY <1>3 DEF Begin
  <2> QED
    BY <1>1, <1>2, <1>3, <2>1, <2>2 DEF Active
<1>4. CASE ~Begin(c)
  <2>1. Active(c) /\ UNCHANGED <<overlapped, start>>
    BY <1>4 DEF Step, Enter, RestrictCheck, Act, Delete, Check, WriteRows, Finish, Active
  <2>2. Same
    <3>1. CASE Enter(c)
      <4>1. pc[c] = "cascade" /\ UNCHANGED <<tx, checks, start>>
        BY <3>1 DEF Enter
      <4>2. Throw(c, "cycle") \/ \E frame : SetTop(c, frame) /\ UNCHANGED <<pc, outcome>>
        BY <3>1 DEF Enter
      <4> QED
        BY <4>1, <4>2 DEF Throw, Goto, SetTop, TypeOK
    <3>2. CASE RestrictCheck(c)
      <4>1. pc[c] = "cascade" /\ UNCHANGED <<tx, checks, start>>
        BY <3>2 DEF RestrictCheck
      <4>2. Throw(c, "conflict") \/ \E frame : SetTop(c, frame) /\ UNCHANGED <<pc, outcome>>
        BY <3>2 DEF RestrictCheck
      <4> QED
        BY <4>1, <4>2 DEF Throw, Goto, SetTop, TypeOK
    <3>3. CASE Act(c)
      <4>1. UNCHANGED <<pc, outcome, checks, start>>
        BY <3>3 DEF Act
      <4>2. (UNCHANGED tx \/ \E new : Write(c, new)) /\ \E new : stack' = [stack EXCEPT ![c] = new]
        BY <3>3 DEF Act, Descend, SetTop
      <4> QED
        BY <4>1, <4>2 DEF Write, TypeOK
    <3>4. CASE Delete(c)
      <4>1. UNCHANGED <<checks, start>> /\ \E new : Write(c, new)
        BY <3>4 DEF Delete
      <4>2. \E new : stack' = [stack EXCEPT ![c] = new]
        BY <3>4 DEF Delete
      <4>3. UNCHANGED <<pc, outcome>> \/ \E p, o : pc' = [pc EXCEPT ![c] = p] /\ outcome' = [outcome EXCEPT ![c] = o]
        BY <3>4 DEF Delete, Goto
      <4> QED
        BY <4>1, <4>2, <4>3 DEF Write, TypeOK
    <3>5. CASE Check(c)
      <4>1. UNCHANGED <<tx, start>>
        BY <3>5 DEF Check
      <4>2. \/ Throw(c, "missing") /\ UNCHANGED checks
            \/ UNCHANGED <<pc, outcome, stack>> /\ \E new : checks' = [checks EXCEPT ![c] = new]
        BY <3>5 DEF Check
      <4> QED
        BY <4>1, <4>2 DEF Throw, Goto, TypeOK
    <3>6. CASE WriteRows(c)
      <4>1. /\ pc' = [pc EXCEPT ![c] = "finish"] /\ UNCHANGED <<stack, checks, start>>
            /\ \E new, o : Write(c, new) /\ outcome' = [outcome EXCEPT ![c] = o]
        BY <3>6, WriteRowsFacts
      <4> QED
        BY <4>1 DEF Write, TypeOK
    <3>7. CASE Finish(c)
      <4>1. /\ tx' = [tx EXCEPT ![c] = Null] /\ UNCHANGED <<stack, checks, start>>
            /\ \E p : pc' = [pc EXCEPT ![c] = p]
            /\ UNCHANGED outcome \/ outcome' = [outcome EXCEPT ![c] = "none"]
        BY <3>7, FinishFacts
      <4> QED
        BY <4>1 DEF TypeOK
    <3> QED
      BY <1>4, <3>1, <3>2, <3>3, <3>4, <3>5, <3>6, <3>7 DEF Step
  <2> QED
    BY <1>1, <1>2, <2>1, <2>2 DEF Active
<1> QED
  BY <1>3, <1>4

LEMMA OverlapStep ==
  ASSUME TypeOK, PcInv, OverlapInv, NEW c \in Clients, Step(c)
  PROVE  /\ OverlapInv'
         /\ \A d \in Clients : d # c /\ Active(d) => overlapped'[d] /\ (Active(c)' => overlapped'[c])
<1>1. CASE Begin(c)
  <2>1. overlapped' = [d \in Clients |-> \/ overlapped[d]
                                         \/ d = c /\ \E e \in Clients : Active(e)
                                         \/ d # c /\ Active(d)]
    BY <1>1 DEF Begin
  <2>2. \A d \in Clients : d # c => (Active(d)' <=> Active(d))
    BY StepFrame
  <2> QED
    BY <2>1, <2>2 DEF OverlapInv
<1>2. CASE ~Begin(c)
  <2>1. /\ Active(c) /\ overlapped' = overlapped
        /\ \A d \in Clients : d # c => (Active(d)' <=> Active(d))
    BY <1>2, StepFrame
  <2> QED
    BY <2>1 DEF OverlapInv
<1> QED
  BY <1>1, <1>2

(* The write statement, seen from its call.                                *)
LEMMA WriteRowsAt ==
  ASSUME TypeOK, PcInv, NEW c \in Clients, WriteRows(c)
  PROVE  /\ pc[c] = "check" /\ checks[c] = {} /\ outcome[c] = "none" /\ IsWrite(c) /\ Active(c)
         /\ pc'[c] = "finish" /\ UNCHANGED <<start, overlapped, stack>>
         /\ \E new \in Databases : /\ Write(c, new) /\ outcome'[c] \in {"ok", "duplicate"}
                                   /\ new = IF outcome'[c] = "ok" THEN Effect(load, Call(c), View(c)) ELSE View(c)
<1>1. /\ pc[c] = "check" /\ checks[c] = {} /\ pc' = [pc EXCEPT ![c] = "finish"]
      /\ IsWrite(c) /\ Active(c) /\ UNCHANGED <<start, overlapped, stack>>
  BY WriteRowsFacts
<1>2. pc'[c] = "finish" /\ outcome[c] = "none"
  BY <1>1 DEF TypeOK, PcInv
<1>3. PICK new \in Databases, o \in {"ok", "duplicate"} :
        /\ Write(c, new) /\ outcome' = [outcome EXCEPT ![c] = o]
        /\ new = IF o = "ok" THEN Effect(load, Call(c), View(c)) ELSE View(c)
  BY WriteRowsFacts
<1>4. outcome'[c] = o
  BY <1>3 DEF TypeOK
<1> QED
  BY <1>1, <1>2, <1>3, <1>4

(* What the steps of an insert or a patch do.                              *)
LEMMA WriterSteps ==
  ASSUME TypeOK, PcInv, NEW c \in Clients, Step(c), IsWrite(c)
  PROVE  \/ /\ Begin(c) /\ pc'[c] = "check" /\ checks'[c] = Call(c).fks /\ start'[c] = db
            /\ outcome'[c] = "none" /\ db' = db
            /\ realTx => tx'[c] = [view |-> db, snapshot |-> db]
         \/ /\ Check(c) /\ pc[c] = "check" /\ UNCHANGED <<db, tx, start, overlapped>>
            /\ \/ /\ \E f \in checks[c] : LookupFails(c, f)
                  /\ pc'[c] = "finish" /\ outcome'[c] = "missing"
               \/ /\ \E f \in checks[c] : ~LookupFails(c, f) /\ checks'[c] = checks[c] \ {f}
                  /\ pc'[c] = "check" /\ outcome'[c] = outcome[c]
         \/ /\ WriteRows(c) /\ pc[c] = "check" /\ checks[c] = {} /\ pc'[c] = "finish"
            /\ UNCHANGED <<start, overlapped>>
            /\ \E new \in Databases : /\ Write(c, new) /\ outcome'[c] \in {"ok", "duplicate"}
                                      /\ new = IF outcome'[c] = "ok" THEN Effect(load, Call(c), View(c)) ELSE View(c)
         \/ /\ Finish(c) /\ pc[c] = "finish" /\ ~Active(c)' /\ UNCHANGED <<start, overlapped>>
            /\ pc'[c] = "idle" \/ (pc'[c] = "done" /\ outcome'[c] = outcome[c])
<1>1. ~IsDelete(c)
  BY DEF IsWrite, IsDelete
<1>2. CASE Begin(c)
  <2>1. outcome[c] = "none"
    BY <1>2 DEF Begin, PcInv
  <2>2. /\ pc' = [pc EXCEPT ![c] = "check"] /\ checks' = [checks EXCEPT ![c] = Call(c).fks]
        /\ start' = [start EXCEPT ![c] = db] /\ db' = db /\ outcome' = outcome
        /\ tx' = IF realTx THEN [tx EXCEPT ![c] = [view |-> db, snapshot |-> db]] ELSE tx
    BY <1>1, <1>2 DEF Begin, Goto
  <2> QED
    BY <1>2, <2>1, <2>2 DEF TypeOK
<1>3. ASSUME Enter(c) \/ RestrictCheck(c) \/ Act(c) \/ Delete(c) PROVE FALSE
  BY <1>1, <1>3 DEF Enter, RestrictCheck, Act, Delete, PcInv
<1>4. CASE Check(c)
  <2>1. pc[c] = "check" /\ UNCHANGED <<db, tx, start, overlapped>>
    BY <1>4 DEF Check
  <2>2. CASE \E f \in checks[c] : LookupFails(c, f) /\ Throw(c, "missing")
    <3>1. pc'[c] = "finish" /\ outcome'[c] = "missing"
      BY <2>2, ThrowFacts DEF Failed
    <3> QED
      BY <1>4, <2>1, <2>2, <3>1
  <2>3. CASE \E f \in checks[c] : ~LookupFails(c, f) /\ checks' = [checks EXCEPT ![c] = @ \ {f}] /\ UNCHANGED <<pc, outcome>>
    <3>1. \E f \in checks[c] : ~LookupFails(c, f) /\ checks'[c] = checks[c] \ {f}
      BY <2>3 DEF TypeOK
    <3> QED
      BY <1>4, <2>1, <2>3, <3>1
  <2> QED
    BY <1>4, <2>2, <2>3 DEF Check
<1>5. CASE WriteRows(c)
  BY <1>5, WriteRowsAt
<1>6. CASE Finish(c)
  <2>1. /\ pc[c] = "finish" /\ UNCHANGED <<start, overlapped>>
        /\ pc' = [pc EXCEPT ![c] = "idle"] \/ (pc' = [pc EXCEPT ![c] = "done"] /\ UNCHANGED outcome)
    BY <1>6, FinishFacts
  <2>2. pc'[c] = "idle" \/ (pc'[c] = "done" /\ outcome'[c] = outcome[c])
    BY <2>1 DEF TypeOK
  <2>3. ~Active(c)'
    BY <2>2 DEF Active
  <2> QED
    BY <1>6, <2>1, <2>2, <2>3
<1> QED
  BY <1>2, <1>3, <1>4, <1>5, <1>6 DEF Step

LEMMA WriteViewStep ==
  ASSUME TypeOK, PcInv, WriteViewInv, NEW c \in Clients, Step(c)
  PROVE  WriteViewInv'
<1> USE StepFrame
<1> SUFFICES ASSUME NEW d \in Clients, realTx, Active(d)', IsWrite(d)
             PROVE  tx'[d].view = IF outcome'[d] = "ok" THEN Effect(load, Call(d), tx'[d].snapshot)
                                  ELSE tx'[d].snapshot
  BY DEF WriteViewInv
<1>1. CASE d # c
  <2>1. tx'[d] = tx[d] /\ outcome'[d] = outcome[d] /\ Active(d)
    BY <1>1
  <2> QED
    BY <2>1 DEF WriteViewInv
<1>2. CASE d = c
  <2>1. CASE outcome'[c] = "none" /\ tx'[c] = [view |-> db, snapshot |-> db]
    BY <1>2, <2>1
  <2>2. CASE Check(c)
    <3>4. pc[c] = "check" /\ tx' = tx
      BY <2>2 DEF Check
    <3>1. Active(c) /\ outcome[c] = "none"
      BY <3>4 DEF Active, PcInv
    <3>2. tx[c].view = tx[c].snapshot
      BY <1>2, <3>1 DEF WriteViewInv
    <3>3. outcome'[c] # "ok"
      <4>1. Throw(c, "missing") \/ UNCHANGED outcome
        BY <2>2 DEF Check
      <4> QED
        BY <3>1, <4>1, ThrowFacts DEF Failed
    <3> QED
      BY <1>2, <3>2, <3>3, <3>4
  <2>3. CASE WriteRows(c)
    <3>1. Active(c) /\ outcome[c] = "none"
      BY <2>3, WriteRowsAt
    <3>2. tx[c].view = tx[c].snapshot /\ View(c) = tx[c].snapshot
      BY <1>2, <3>1 DEF WriteViewInv, View
    <3>3. PICK new \in Databases : /\ Write(c, new)
                                   /\ new = IF outcome'[c] = "ok" THEN Effect(load, Call(c), View(c)) ELSE View(c)
      BY <2>3, WriteRowsAt
    <3>4. tx'[c].view = new /\ tx'[c].snapshot = tx[c].snapshot
      BY <3>1, <3>3, WriteFacts
    <3> QED
      BY <1>2, <3>2, <3>3, <3>4
  <2> QED
    BY <1>2, <2>1, <2>2, <2>3, WriterSteps
<1> QED
  BY <1>1, <1>2

LEMMA AloneStep ==
  ASSUME TypeOK, PcInv, OverlapInv, AloneInv, NEW c \in Clients, Step(c)
  PROVE  AloneInv'
<1> USE StepFrame
<1> SUFFICES ASSUME NEW d \in Clients, Active(d)', IsWrite(d), ~overlapped'[d]
             PROVE  /\ realTx \/ pc'[d] = "check" => db' = start'[d]
                    /\ realTx => tx'[d].snapshot = start'[d]
  BY DEF AloneInv
<1>1. d = c
  BY OverlapStep
<1>2. CASE Begin(c)
  <2>1. start'[c] = db /\ db' = db /\ (realTx => tx'[c] = [view |-> db, snapshot |-> db])
    BY <1>1, <1>2, WriterSteps DEF Check, WriteRows, Finish, Begin
  <2> QED
    BY <1>1, <2>1
<1>3. CASE ~Begin(c)
  <2>1. /\ Active(c) /\ ~overlapped[c] /\ start' = start
        /\ realTx \/ pc[c] = "check" => db = start[c]
        /\ realTx => tx[c].snapshot = start[c]
    BY <1>1, <1>3 DEF AloneInv
  <2>2. CASE Check(c)
    <3>1. pc[c] = "check" /\ UNCHANGED <<db, tx>>
      BY <2>2 DEF Check
    <3> QED
      BY <1>1, <2>1, <3>1
  <2>3. CASE WriteRows(c)
    <3>1. PICK new \in Databases : Write(c, new) /\ pc'[c] = "finish"
      BY <2>3, WriteRowsAt
    <3>2. realTx => db' = db /\ tx'[c].snapshot = tx[c].snapshot
      BY <2>1, <3>1, WriteFacts
    <3> QED
      BY <1>1, <2>1, <3>1, <3>2
  <2> QED
    BY <1>1, <1>3, <2>2, <2>3, WriterSteps
<1> QED
  BY <1>2, <1>3

LEMMA LookupIs ==
  ASSUME KeyIsFirstField, TypeOK, NEW c \in Clients, IsWrite(c), NEW f \in Call(c).fks
  PROVE  LookupFails(c, f) <=> ~Verified(load, Call(c), View(c), {f})
<1>1. Referenced(c, f) \subseteq Keys /\ IsFiniteSet(Referenced(c, f))
  BY IsWriteCallOf, ReferencedFacts DEF Referenced
<1>2. LookupFails(c, f) <=> ~(Referenced(c, f) \subseteq Live(View(c), Fks[f].parent))
  BY <1>1, LookupCounts DEF LookupFails
<1> QED
  BY <1>2 DEF Verified, Referenced, Par, Fks

LEMMA VerdictStep ==
  ASSUME KeyIsFirstField, TypeOK, PcInv, WriteViewInv, AloneInv, VerdictInv,
         NEW c \in Clients, Step(c)
  PROVE  VerdictInv'
<1> USE StepFrame
<1> SUFFICES ASSUME NEW d \in Clients, IsWrite(d), ~overlapped'[d]
             PROVE  /\ pc'[d] = "check" => Verified(load, Call(d), start'[d], Call(d).fks \ checks'[d])
                    /\ pc'[d] \in {"finish", "done"} =>
                         (outcome'[d] = "missing" <=> ~Verified(load, Call(d), start'[d], Call(d).fks))
  BY DEF VerdictInv
<1>1. ~overlapped[d]
  OBVIOUS
<1>2. CASE d # c
  <2>1. /\ pc'[d] = pc[d] /\ outcome'[d] = outcome[d] /\ checks'[d] = checks[d] /\ start'[d] = start[d]
    BY <1>2
  <2> QED
    BY <1>1, <2>1 DEF VerdictInv
<1>3. CASE d = c
  <2>1. /\ pc[c] = "check" => Verified(load, Call(c), start[c], Call(c).fks \ checks[c])
        /\ pc[c] \in {"finish", "done"} =>
             (outcome[c] = "missing" <=> ~Verified(load, Call(c), start[c], Call(c).fks))
        /\ checks[c] \subseteq Call(c).fks
    BY <1>1, <1>3 DEF VerdictInv, PcInv
  <2>2. pc[c] = "check" => View(c) = start[c]
    <3> SUFFICES ASSUME pc[c] = "check" PROVE View(c) = start[c]
      OBVIOUS
    <3>1. Active(c) /\ outcome[c] = "none"
      BY DEF Active, PcInv
    <3>2. db = start[c] /\ (realTx => tx[c].snapshot = start[c])
      BY <1>1, <1>3, <3>1 DEF AloneInv
    <3>3. realTx => tx[c].view = tx[c].snapshot
      BY <1>3, <3>1 DEF WriteViewInv
    <3> QED
      BY <3>2, <3>3 DEF View
  <2>3. CASE pc'[c] = "check" /\ checks'[c] = Call(c).fks
    BY <1>3, <2>3 DEF Verified
  <2>4. CASE Check(c)
    <3>1. start' = start /\ pc[c] = "check"
      BY <2>4 DEF Check
    <3>2. CASE \E f \in checks[c] : LookupFails(c, f) /\ Throw(c, "missing")
      <4>1. PICK f \in checks[c] : LookupFails(c, f)
        BY <3>2
      <4>2. pc'[c] = "finish" /\ outcome'[c] = "missing"
        BY <3>2, ThrowFacts DEF Failed
      <4>3. f \in Call(c).fks /\ ~Verified(load, Call(c), start[c], {f})
        BY <1>3, <2>1, <2>2, <3>1, <4>1, LookupIs
      <4>4. ~Verified(load, Call(c), start[c], Call(c).fks)
        BY <4>3 DEF Verified
      <4> QED
        BY <1>3, <3>1, <4>2, <4>4
    <3>3. CASE \E f \in checks[c] : ~LookupFails(c, f) /\ checks' = [checks EXCEPT ![c] = @ \ {f}] /\ UNCHANGED pc
      <4>1. PICK f \in checks[c] : ~LookupFails(c, f) /\ checks' = [checks EXCEPT ![c] = @ \ {f}] /\ UNCHANGED pc
        BY <3>3
      <4>2. checks'[c] = checks[c] \ {f} /\ pc'[c] = "check"
        BY <3>1, <4>1 DEF TypeOK
      <4>3. f \in Call(c).fks /\ Verified(load, Call(c), start[c], {f})
        BY <1>3, <2>1, <2>2, <3>1, <4>1, LookupIs
      <4>4. Verified(load, Call(c), start[c], Call(c).fks \ (checks[c] \ {f}))
        BY <2>1, <3>1, <4>3 DEF Verified
      <4> QED
        BY <1>3, <3>1, <4>2, <4>4
    <3> QED
      BY <2>4, <3>2, <3>3 DEF Check
  <2>5. CASE WriteRows(c)
    <3>1. /\ pc[c] = "check" /\ checks[c] = {} /\ pc'[c] = "finish" /\ start' = start
          /\ outcome'[c] \in {"ok", "duplicate"}
      BY <2>5, WriteRowsAt
    <3>2. Verified(load, Call(c), start[c], Call(c).fks)
      BY <2>1, <3>1 DEF Verified
    <3> QED
      BY <1>3, <3>1, <3>2
  <2>6. CASE pc[c] = "finish" /\ start' = start /\ (pc'[c] = "idle" \/ (pc'[c] = "done" /\ outcome'[c] = outcome[c]))
    BY <1>3, <2>1, <2>6
  <2> QED
    BY <1>3, <2>3, <2>4, <2>5, <2>6, WriterSteps
<1> QED
  BY <1>2, <1>3

LEMMA AloneInit ==
  ASSUME Init
  PROVE  AloneIInv
<1>1. TypeOK /\ PcInv
  BY TypeInit
<1>2. \A c \in Clients : /\ pc[c] \in {"idle", "done"} /\ ~Active(c)
                         /\ pc[c] = "done" => ~IsWrite(c)
  BY DEF Init, Active
<1> QED
  BY <1>1, <1>2 DEF AloneIInv, OverlapInv, WriteViewInv, AloneInv, VerdictInv

LEMMA AloneIStep ==
  ASSUME KeyIsFirstField, AloneIInv, [Next]_vars
  PROVE  AloneIInv'
<1>1. TypeOK' /\ PcInv'
  BY TypeStep, PcStep DEF AloneIInv
<1>2. CASE UNCHANGED vars
  <2>1. /\ UNCHANGED <<load, realTx, db, tx, pc, outcome, stack, checks, start, overlapped>>
    BY <1>2 DEF vars, calls
  <2>2. \A c \in Clients : /\ Call(c)' = Call(c) /\ (IsWrite(c)' <=> IsWrite(c))
                           /\ (Active(c)' <=> Active(c))
    BY <2>1 DEF Call, IsWrite, Active
  <2>3. OverlapInv'
    BY <2>1, <2>2 DEF AloneIInv, OverlapInv
  <2>4. WriteViewInv'
    BY <2>1, <2>2 DEF AloneIInv, WriteViewInv
  <2>5. AloneInv'
    BY <2>1, <2>2 DEF AloneIInv, AloneInv
  <2>6. VerdictInv'
    BY <2>1, <2>2 DEF AloneIInv, VerdictInv
  <2> QED
    BY <1>1, <2>3, <2>4, <2>5, <2>6 DEF AloneIInv
<1>3. CASE Next
  <2>1. PICK c \in Clients : Step(c)
    BY <1>3 DEF Next
  <2> QED
    BY <1>1, <2>1, OverlapStep, WriteViewStep, AloneStep, VerdictStep DEF AloneIInv
<1> QED
  BY <1>2, <1>3

(* An insert or a patch with nobody else at work is refused with           *)
(* FK_VIOLATION exactly when one of its references is missing, for any     *)
(* keys told apart by their first field: distinct references make distinct *)
(* first values and one row each, so the count of the lookup is short      *)
(* exactly then (application-integrity.ts:41-45, 126).                     *)
THEOREM VerdictCorrect ==
  ASSUME KeyIsFirstField
  PROVE  Spec => []VerdictIsRight
<1>1. Init => AloneIInv
  BY AloneInit
<1>2. AloneIInv /\ [Next]_vars => AloneIInv'
  BY AloneIStep
<1>3. AloneIInv => VerdictIsRight
  <2> SUFFICES ASSUME AloneIInv, NEW c \in Clients, IsWrite(c), pc[c] = "done", ~overlapped[c]
               PROVE  outcome[c] = "missing" <=> ~Complete(c)
    BY DEF VerdictIsRight
  <2>1. Complete(c) <=> Verified(load, Call(c), start[c], Call(c).fks)
    BY DEF Complete, Verified, Referenced, Par, Fks
  <2> QED
    BY <2>1 DEF AloneIInv, VerdictInv
<1> QED
  BY <1>1, <1>2, <1>3, PTL DEF Spec

-----------------------------------------------------------------------------
(* The steps of a cascade                                                  *)

(* What a step of c in its cascade does, X being the rows exempt.          *)
Moved(c, X) ==
  \/ pc'[c] = "finish" /\ outcome'[c] \in Failed /\ UNCHANGED <<db, tx>>
  \/ /\ Moves(load, stack[c], View(c), stack'[c], View(c)', X)
     /\ pc'[c] = "cascade" \/ (pc'[c] = "finish" /\ stack'[c] = <<>>)

LEMMA CascadeFacts ==
  ASSUME TypeOK, NEW c \in Clients, pc[c] = "cascade", NEW s, s = stack[c], NEW n, n = Len(s)
  PROVE  /\ load \in Workloads /\ s \in Stacks(load) /\ s # <<>> /\ n \in 1..Len(s)
         /\ Top(c) = s[n] /\ View(c) \in DBs(load) /\ Frames = FrameSet(load)
         /\ Fks = load.fks /\ Active(c)
         /\ \A v, t, filter : Matching(v, t, filter) = Hits(load, v, t, filter)
<1>1. Active(c)
  BY DEF Active
<1>2. Len(stack[c]) \in 1..Len(stack[c])
  BY TopFacts
<1> QED
  BY <1>1, <1>2, TopFacts, LoadFacts

(* The restrict check of f has found no child.                             *)
NoneLeft(l, s, v, f, fr) ==
  LET top == s[Len(s)]
  IN  /\ Hits(l, v, Chi(l, f), ByRef(f, top.records)) = {}
      /\ fr.table = top.table /\ fr.filter = top.filter /\ top.entered /\ fr.entered = TRUE
      /\ fr.records = top.records /\ fr.left = top.left /\ fr.restrict = top.restrict \ {f}

LEMMA RestrictCheckFacts ==
  ASSUME TypeOK, NEW c \in Clients, RestrictCheck(c)
  PROVE  /\ pc[c] = "cascade" /\ UNCHANGED <<load, realTx, db, tx>>
         /\ \E f \in stack[c][Len(stack[c])].restrict :
              /\ f \in DOMAIN load.fks
              /\ \/ /\ Hits(load, View(c), Chi(load, f), ByRef(f, stack[c][Len(stack[c])].records)) # {}
                    /\ Throw(c, "conflict")
                 \/ /\ UNCHANGED <<pc, outcome>>
                    /\ \E fr \in FrameSet(load) :
                         /\ NoneLeft(load, stack[c], View(c), f, fr)
                         /\ stack'[c] = [stack[c] EXCEPT ![Len(stack[c])] = fr]
<1> DEFINE s == stack[c]
           n == Len(stack[c])
           v == View(c)
<1>1. pc[c] = "cascade" /\ UNCHANGED <<load, realTx, db, tx>> /\ Top(c).entered
  BY DEF RestrictCheck
<1>2. /\ load \in Workloads /\ Top(c) = s[n] /\ Frames = FrameSet(load) /\ Fks = load.fks
      /\ \A u, t, filter : Matching(u, t, filter) = Hits(load, u, t, filter)
  BY <1>1, CascadeFacts
<1>3. PICK f \in Top(c).restrict :
        \/ /\ Children(c, f) # {}
           /\ Throw(c, "conflict")
        \/ /\ Children(c, f) = {}
           /\ SetTop(c, [Top(c) EXCEPT !.restrict = @ \ {f}])
           /\ UNCHANGED <<pc, outcome>>
  BY DEF RestrictCheck
<1>4. Top(c) \in Frames
  BY <1>1, TopFacts
<1>5. f \in DOMAIN load.fks /\ f \in s[n].restrict
  BY <1>2, <1>3, <1>4 DEF Frames
<1>6. Children(c, f) = Hits(load, v, Chi(load, f), ByRef(f, s[n].records))
  BY <1>2 DEF Children, Chi
<1>7. PICK fr : fr = [Top(c) EXCEPT !.restrict = @ \ {f}]
  OBVIOUS
<1>8. /\ fr \in Frames /\ fr.table = Top(c).table /\ fr.entered = TRUE
      /\ fr.records = Top(c).records /\ fr.filter = Top(c).filter
      /\ fr.left = Top(c).left /\ fr.restrict = Top(c).restrict \ {f}
  BY <1>1, <1>4, <1>7 DEF Frames
<1>9. SetTop(c, fr) => stack'[c] = [s EXCEPT ![n] = fr]
  BY <1>1, <1>8, SetTopFacts
<1>10. CASE Children(c, f) # {}
  BY <1>1, <1>3, <1>5, <1>6, <1>10
<1>11. CASE Children(c, f) = {}
  <2>1. NoneLeft(load, s, v, f, fr)
    BY <1>1, <1>2, <1>6, <1>8, <1>11 DEF NoneLeft
  <2>2. fr \in FrameSet(load) /\ stack'[c] = [s EXCEPT ![n] = fr] /\ UNCHANGED <<pc, outcome>>
    BY <1>2, <1>3, <1>7, <1>8, <1>9, <1>11
  <2> QED
    BY <1>1, <1>5, <2>1, <2>2
<1> QED
  BY <1>10, <1>11

LEMMA RestrictCheckMoves ==
  ASSUME TypeOK, NEW c \in Clients, RestrictCheck(c), NEW X, CascadeOK(load, stack[c], View(c), X)
  PROVE  Moved(c, X)
<1> DEFINE s == stack[c]
           n == Len(stack[c])
           v == View(c)
<1>1. pc[c] = "cascade" /\ UNCHANGED <<load, realTx, db, tx>>
  BY RestrictCheckFacts
<1>2. load \in Workloads /\ s \in Stacks(load) /\ s # <<>> /\ n \in 1..Len(s)
  BY <1>1, CascadeFacts
<1>3. CASE Throw(c, "conflict")
  BY <1>1, <1>3, ThrowFacts DEF Moved, Failed
<1>4. CASE ~Throw(c, "conflict")
  <2>1. PICK f \in s[n].restrict :
          /\ f \in DOMAIN load.fks /\ UNCHANGED <<pc, outcome>>
          /\ \E fr \in FrameSet(load) : NoneLeft(load, s, v, f, fr) /\ stack'[c] = [s EXCEPT ![n] = fr]
    BY <1>4, RestrictCheckFacts
  <2>2. PICK fr \in FrameSet(load) : NoneLeft(load, s, v, f, fr) /\ stack'[c] = [s EXCEPT ![n] = fr]
    BY <2>1
  <2>3. \A k \in Keys, p \in Keys : p \in s[n].records => ~Points(load, v, f, k, p)
    BY <2>2 DEF NoneLeft, Hits, Live, ByRef, Points
  <2>4. View(c)' = v
    BY <1>1 DEF View
  <2>5. Shrinks(load, v, v, {})
    BY ShrinkReflexive
  <2>6. Moves(load, s, v, stack'[c], v, X)
    <3>1. CASE f \notin s[n].left
      <4>1. fr.left \cup fr.restrict = (s[n].left \cup s[n].restrict) \ {f}
        BY <2>2, <3>1 DEF NoneLeft
      <4> HIDE DEF s, n, v
      <4> QED
        BY <1>2, <2>2, <2>3, <2>5, <4>1, DropStep DEF s, n, v, NoneLeft
    <3>2. CASE f \in s[n].left
      <4>1. 0 \notin DOMAIN load.fks
        BY <1>2, WorkloadsAssumption
      <4>2. fr.left \cup fr.restrict = (s[n].left \cup s[n].restrict) \ {0} /\ 0 \notin Tracked(load)
        BY <1>2, <2>2, <3>2, <4>1, FrameFacts DEF Tracked, NoneLeft
      <4> HIDE DEF s, n, v
      <4> QED
        BY <1>2, <2>2, <2>5, <4>2, DropStep DEF s, n, v, NoneLeft
    <3> QED
      BY <3>1, <3>2
  <2> QED
    BY <1>1, <2>1, <2>4, <2>6 DEF Moved
<1> QED
  BY <1>3, <1>4

(* A nested call has found its rows.                                       *)
Entered(l, s, v, fr) ==
  LET n == Len(s)
      t == s[n].table
      found == Hits(l, v, t, s[n].filter)
  IN  /\ ~s[n].entered /\ fr.table = t /\ fr.entered = TRUE /\ fr.records \subseteq found
      /\ (\E f \in DOMAIN l.fks : Par(l, f) = t) =>
           \A k \in found : k \notin fr.records =>
             \E j \in 1..n : s[j].table = t /\ k \in s[j].records
      /\ fr.filter = IF s[n].filter.by = "some" /\ \E f \in DOMAIN l.fks : Par(l, f) = t
                     THEN ByKeys(found) ELSE s[n].filter
      /\ fr.left \cup fr.restrict = IF fr.records = {} THEN {} ELSE {f \in DOMAIN l.fks : Par(l, f) = t}
      /\ \A f \in fr.restrict : l.fks[f].action = "restrict"

LEMMA FoundFacts ==
  ASSUME TypeOK, NEW c \in Clients, Enter(c), ~Throw(c, "cycle")
  PROVE  /\ pc[c] = "cascade" /\ UNCHANGED <<load, realTx, db, tx, pc, outcome>>
         /\ \E fr \in FrameSet(load) :
              /\ Entered(load, stack[c], View(c), fr)
              /\ stack'[c] = [stack[c] EXCEPT ![Len(stack[c])] = fr]
<1> SUFFICES ASSUME NEW s, s = stack[c], NEW n, n = Len(s), NEW v, v = View(c),
                    NEW t, t = s[n].table, NEW found, found = Hits(load, v, t, s[n].filter)
             PROVE  /\ pc[c] = "cascade" /\ UNCHANGED <<load, realTx, db, tx, pc, outcome>>
                    /\ \E fr \in FrameSet(load) :
                         /\ Entered(load, s, v, fr)
                         /\ stack'[c] = [s EXCEPT ![n] = fr]
  OBVIOUS
<1>1. pc[c] = "cascade" /\ UNCHANGED <<load, realTx, db, tx>> /\ ~Top(c).entered
  BY DEF Enter
<1>2. /\ load \in Workloads /\ s \in Stacks(load) /\ s # <<>> /\ n \in 1..Len(s)
      /\ Top(c) = s[n] /\ Frames = FrameSet(load) /\ Fks = load.fks
      /\ Top(c).table = t /\ Matching(View(c), t, Top(c).filter) = found
  BY <1>1, CascadeFacts
<1> DEFINE new == IF Targets(t, Actions) = {} THEN {} ELSE NewRecords(c, t, found)
<1>3. PICK fr : fr = [Top(c) EXCEPT
         !.entered = TRUE, !.records = new,
         !.filter = IF @.by = "some" /\ Targets(t, Actions) # {} THEN ByKeys(found) ELSE @,
         !.restrict = IF new = {} THEN {} ELSE Targets(t, {"restrict"}),
         !.left = IF new = {} THEN {} ELSE Targets(t, Actions \ {"restrict"})]
  OBVIOUS
<1>4. SetTop(c, fr) /\ UNCHANGED <<pc, outcome>>
  BY <1>2, <1>3 DEF Enter
<1>5. Top(c) \in Frames
  BY <1>1, TopFacts
<1>6. /\ fr.table = t /\ fr.entered = TRUE /\ fr.records = new
      /\ fr.filter = IF Top(c).filter.by = "some" /\ Targets(t, Actions) # {}
                     THEN ByKeys(found) ELSE Top(c).filter
      /\ fr.restrict = IF new = {} THEN {} ELSE Targets(t, {"restrict"})
      /\ fr.left = IF new = {} THEN {} ELSE Targets(t, Actions \ {"restrict"})
  <2>1. DOMAIN Top(c) = {"table", "filter", "entered", "records", "restrict", "left"}
    BY <1>5 DEF Frames
  <2> HIDE DEF new
  <2> QED
    BY <1>2, <1>3, <2>1
<1>7. Targets(t, Actions) = {f \in DOMAIN load.fks : Par(load, f) = t}
  <2>1. \A f \in DOMAIN load.fks : load.fks[f].action \in Actions
    BY <1>2, FkFacts
  <2> QED
    BY <1>2, <2>1 DEF Targets, Par
<1>8. fr.left \cup fr.restrict = IF new = {} THEN {} ELSE {f \in DOMAIN load.fks : Par(load, f) = t}
  <2>1. Targets(t, {"restrict"}) \cup Targets(t, Actions \ {"restrict"}) = Targets(t, Actions)
    BY DEF Targets, Actions
  <2> QED
    BY <1>6, <1>7, <2>1
<1>9. new \subseteq found
  BY DEF NewRecords
<1>10. fr \in FrameSet(load)
  <2>1. found \subseteq Keys
    BY DEF Hits, Live
  <2>2. ByKeys(found) \in Filters /\ Top(c).filter \in Filters /\ t \in Tables
    BY <1>2, <1>5, <2>1 DEF ByKeys, Filters, Frames
  <2>3. /\ Targets(t, {"restrict"}) \subseteq DOMAIN load.fks
        /\ Targets(t, Actions \ {"restrict"}) \subseteq DOMAIN load.fks
    BY <1>2 DEF Targets
  <2> HIDE DEF new
  <2> QED
    BY <1>2, <1>3, <1>5, <1>9, <2>1, <2>2, <2>3 DEF FrameSet
<1>11. (\E f \in DOMAIN load.fks : Par(load, f) = t) =>
         \A k \in found \ new : \E j \in 1..n : s[j].table = t /\ k \in s[j].records
  <2> SUFFICES ASSUME Targets(t, Actions) # {}, NEW k \in found, k \notin new
               PROVE  \E j \in 1..n : s[j].table = t /\ k \in s[j].records
    BY <1>7
  <2>1. <<t, k>> \in Visited(c)
    BY DEF NewRecords
  <2>2. PICK j \in DOMAIN s : s[j].table = t /\ k \in s[j].records
    BY <2>1 DEF Visited
  <2>3. DOMAIN s = 1..n
    BY <1>2 DEF Stacks
  <2> QED
    BY <2>2, <2>3
<1>12. stack'[c] = [s EXCEPT ![n] = fr]
  BY <1>1, <1>2, <1>4, <1>10, SetTopFacts
<1>13. \A f \in fr.restrict : load.fks[f].action = "restrict"
  <2> HIDE DEF new
  <2> QED
    BY <1>2, <1>6 DEF Targets
<1>14. ~s[n].entered
  BY <1>1, <1>2
<1>15. /\ fr.table = t /\ fr.entered = TRUE /\ fr.records \subseteq found
       /\ (\E f \in DOMAIN load.fks : Par(load, f) = t) =>
            \A k \in found : k \notin fr.records =>
              \E j \in 1..n : s[j].table = t /\ k \in s[j].records
  <2> HIDE DEF new
  <2> QED
    BY <1>6, <1>9, <1>11
<1>16. /\ fr.filter = IF s[n].filter.by = "some" /\ \E f \in DOMAIN load.fks : Par(load, f) = t
                      THEN ByKeys(found) ELSE s[n].filter
       /\ fr.left \cup fr.restrict = IF fr.records = {} THEN {}
                                     ELSE {f \in DOMAIN load.fks : Par(load, f) = t}
  <2> HIDE DEF new
  <2> QED
    BY <1>2, <1>6, <1>7, <1>8
<1>17. Entered(load, s, v, fr)
  BY <1>13, <1>14, <1>15, <1>16 DEF Entered
<1> HIDE DEF new
<1> QED
  BY <1>1, <1>4, <1>10, <1>12, <1>17

LEMMA EnterMoves ==
  ASSUME TypeOK, NEW c \in Clients, Enter(c), NEW X, CascadeOK(load, stack[c], View(c), X)
  PROVE  Moved(c, X)
<1>1. CASE Throw(c, "cycle")
  BY <1>1, ThrowFacts DEF Enter, Moved, Failed
<1>2. CASE ~Throw(c, "cycle")
  <2> DEFINE s == stack[c]
             v == View(c)
  <2>1. pc[c] = "cascade" /\ UNCHANGED <<load, realTx, db, tx, pc, outcome>>
    BY <1>2, FoundFacts
  <2>2. PICK fr \in FrameSet(load) : Entered(load, s, v, fr) /\ stack'[c] = [s EXCEPT ![Len(s)] = fr]
    BY <1>2, FoundFacts
  <2>3. load \in Workloads /\ s \in Stacks(load) /\ s # <<>>
    BY <2>1, CascadeFacts
  <2>4. Moves(load, s, v, stack'[c], v, X)
    <3> HIDE DEF s, v
    <3>1. /\ ~s[Len(s)].entered /\ fr.table = s[Len(s)].table /\ fr.entered = TRUE
          /\ fr.records \subseteq Hits(load, v, s[Len(s)].table, s[Len(s)].filter)
          /\ (\E f \in DOMAIN load.fks : Par(load, f) = fr.table) =>
               \A k \in Hits(load, v, s[Len(s)].table, s[Len(s)].filter) : k \notin fr.records =>
                 \E j \in 1..Len(s) : s[j].table = fr.table /\ k \in s[j].records
      BY <2>2 DEF Entered
    <3>2. /\ fr.filter = IF s[Len(s)].filter.by = "some" /\ \E f \in DOMAIN load.fks : Par(load, f) = fr.table
                         THEN ByKeys(Hits(load, v, s[Len(s)].table, s[Len(s)].filter))
                         ELSE s[Len(s)].filter
          /\ fr.left \cup fr.restrict = IF fr.records = {} THEN {}
                                        ELSE {f \in DOMAIN load.fks : Par(load, f) = fr.table}
      BY <2>2 DEF Entered
    <3>3. CascadeOK(load, s, v, X)
      BY DEF s, v
    <3>4. Moves(load, s, v, [s EXCEPT ![Len(s)] = fr], v, X)
      BY <2>3, <3>1, <3>2, <3>3, EnterStep
    <3> QED
      BY <2>2, <3>4
  <2>5. View(c)' = v
    BY <2>1 DEF View
  <2> QED
    BY <2>1, <2>4, <2>5 DEF Moved
<1> QED
  BY <1>1, <1>2

(* The top of the stack deletes its rows and returns.                      *)
LEMMA DeleteFacts ==
  ASSUME TypeOK, NEW c \in Clients, Delete(c)
  PROVE  LET s == stack[c]
             top == s[Len(s)]
         IN  /\ pc[c] = "cascade" /\ top.entered /\ top.restrict = {} /\ top.left = {}
             /\ UNCHANGED <<load, realTx>> /\ stack'[c] = Front(s)
             /\ View(c)' = Without(View(c), top.table, Hits(load, View(c), top.table, top.filter))
             /\ \/ Len(s) = 1 /\ pc'[c] = "finish" /\ outcome'[c] = "ok" /\ stack'[c] = <<>>
                \/ Len(s) # 1 /\ pc'[c] = "cascade"
<1> DEFINE s == stack[c]
           top == s[Len(s)]
           v == View(c)
           gone == Matching(v, Top(c).table, Top(c).filter)
           w == Without(v, Top(c).table, gone)
<1>1. /\ pc[c] = "cascade" /\ Active(c) /\ Top(c).entered /\ Top(c).restrict = {} /\ Top(c).left = {}
      /\ UNCHANGED <<load, realTx>> /\ Write(c, w) /\ stack' = [stack EXCEPT ![c] = Front(s)]
  BY DEF Delete, Active
<1>2. /\ load \in Workloads /\ s \in Stacks(load) /\ s # <<>>
      /\ Top(c) = top /\ v \in DBs(load) /\ Databases = DBs(load)
      /\ gone = Hits(load, v, top.table, top.filter)
  BY <1>1, CascadeFacts, LoadFacts
<1>3. stack'[c] = Front(s) /\ (Front(s) = <<>> <=> Len(s) = 1)
  BY <1>1, <1>2, FrontFacts DEF TypeOK, Stacks
<1>4. w \in Databases
  <2>1. Top(c).table \in Tables
    BY <1>1, TopFacts DEF Frames
  <2> HIDE DEF gone
  <2> QED
    BY <1>2, <2>1, WithoutShrinks
<1>5. View(c)' = w
  <2> HIDE DEF w
  <2> QED
    BY <1>1, <1>4, WriteFacts DEF View
<1>6. \/ Len(s) = 1 /\ pc'[c] = "finish" /\ outcome'[c] = "ok"
      \/ Len(s) # 1 /\ pc'[c] = "cascade"
  <2>1. /\ pc \in [Clients -> {"idle", "cascade", "check", "finish", "done"}]
        /\ outcome \in [Clients -> Failed \cup {"none", "ok"}]
    BY DEF TypeOK
  <2> QED
    BY <1>1, <2>1 DEF Delete, Goto
<1> QED
  BY <1>1, <1>2, <1>3, <1>5, <1>6

LEMMA DeleteMoves ==
  ASSUME TypeOK, NEW c \in Clients, Delete(c), NEW X, CascadeOK(load, stack[c], View(c), X)
  PROVE  Moved(c, X)
<1> DEFINE s == stack[c]
           v == View(c)
           top == s[Len(s)]
<1>1. /\ pc[c] = "cascade" /\ top.entered /\ top.restrict = {} /\ top.left = {}
      /\ UNCHANGED <<load, realTx>> /\ stack'[c] = Front(s)
      /\ View(c)' = Without(v, top.table, Hits(load, v, top.table, top.filter))
      /\ \/ pc'[c] = "finish" /\ stack'[c] = <<>>
         \/ pc'[c] = "cascade"
  BY DeleteFacts
<1>2. load \in Workloads /\ s \in Stacks(load) /\ s # <<>> /\ v \in DBs(load)
  BY <1>1, CascadeFacts
<1>3. Moves(load, s, v, Front(s), Without(v, top.table, Hits(load, v, top.table, top.filter)), X)
  <2> HIDE DEF s, v
  <2> QED
    BY <1>1, <1>2, DeleteStep DEF s, v
<1> QED
  BY <1>1, <1>3 DEF Moved

(* The top of the stack has taken up reference f; what it calls for it.    *)
Resumed(s, f, fr) ==
  LET top == s[Len(s)]
  IN  /\ fr.table = top.table /\ fr.filter = top.filter /\ fr.records = top.records
      /\ top.entered /\ fr.entered = TRUE /\ top.restrict = {} /\ fr.restrict = {}
      /\ fr.left = top.left \ {f}
Nested(l, s, f, next) ==
  /\ next.table = Chi(l, f) /\ next.filter = ByRef(f, s[Len(s)].records) /\ next.entered = FALSE
  /\ next.records = {} /\ next.restrict = {} /\ next.left = {}
Cleared(l, s, v, f) ==
  WithRef(v, Chi(l, f), Hits(l, v, Chi(l, f), ByRef(f, s[Len(s)].records)), f, Null)

LEMMA ActFacts ==
  ASSUME TypeOK, NEW c \in Clients, Act(c)
  PROVE  /\ pc[c] = "cascade" /\ UNCHANGED <<load, realTx, pc, outcome>>
         /\ \E f \in stack[c][Len(stack[c])].left, fr \in FrameSet(load) :
              /\ f \in DOMAIN load.fks /\ Resumed(stack[c], f, fr)
              /\ \/ /\ load.fks[f].action = "cascade" /\ View(c)' = View(c)
                    /\ \E next \in FrameSet(load) :
                         /\ Nested(load, stack[c], f, next)
                         /\ stack'[c] = Append([stack[c] EXCEPT ![Len(stack[c])] = fr], next)
                 \/ /\ load.fks[f].action = "setNull"
                    /\ View(c)' = Cleared(load, stack[c], View(c), f)
                    /\ stack'[c] = [stack[c] EXCEPT ![Len(stack[c])] = fr]
                 \/ /\ load.fks[f].action = "setDefault" /\ View(c)' = View(c)
                    /\ stack'[c] = [stack[c] EXCEPT ![Len(stack[c])] = fr]
<1> DEFINE s == stack[c]
           n == Len(stack[c])
           v == View(c)
<1>1. /\ pc[c] = "cascade" /\ Active(c) /\ Top(c).entered /\ Top(c).restrict = {}
      /\ UNCHANGED <<load, realTx, pc, outcome>>
  BY DEF Act, Active
<1>2. PICK f \in Top(c).left :
        \/ Fks[f].action = "cascade" /\ Descend(c, f) /\ UNCHANGED <<db, tx>>
        \/ /\ Fks[f].action = "setNull"
           /\ Write(c, WithRef(View(c), Fks[f].child, Children(c, f), f, Null))
           /\ SetTop(c, Remaining(c, f))
        \/ Fks[f].action = "setDefault" /\ SetTop(c, Remaining(c, f)) /\ UNCHANGED <<db, tx>>
  BY DEF Act
<1>3. /\ load \in Workloads /\ s \in Stacks(load) /\ s # <<>> /\ n \in 1..Len(s)
      /\ Top(c) = s[n] /\ v \in DBs(load) /\ Frames = FrameSet(load) /\ Fks = load.fks
      /\ \A t, filter : Matching(v, t, filter) = Hits(load, v, t, filter)
  <2>1. pc[c] = "cascade"
    BY <1>1
  <2> QED
    BY ZenonT(60), <2>1, CascadeFacts
<1>4. PICK fr : fr = Remaining(c, f)
  OBVIOUS
<1>5. /\ fr \in FrameSet(load) /\ fr.table = s[n].table /\ fr.filter = s[n].filter
      /\ fr.entered = TRUE /\ fr.records = s[n].records
      /\ fr.restrict = {} /\ fr.left = s[n].left \ {f}
      /\ s[n].entered /\ s[n].restrict = {}
  BY <1>1, <1>3, <1>4, RemainingFacts
<1>6. f \in DOMAIN load.fks /\ f \in s[n].left
  BY <1>1, <1>3, TopFacts DEF Frames
<1>7. Resumed(s, f, fr)
  BY <1>5 DEF Resumed
<1>8. CASE Fks[f].action = "cascade" /\ Descend(c, f) /\ UNCHANGED <<db, tx>>
  <2>1. PICK next : next = Frame(Fks[f].child, ByRef(f, Top(c).records))
    OBVIOUS
  <2>2. next \in FrameSet(load) /\ Nested(load, s, f, next)
    <3>1. /\ next \in Frames /\ next.table = Fks[f].child /\ next.filter = ByRef(f, Top(c).records)
          /\ next.entered = FALSE /\ next.records = {} /\ next.restrict = {} /\ next.left = {}
      BY <1>1, <2>1, NextFrameFacts
    <3>2. Frames = FrameSet(load) /\ Top(c) = s[n] /\ Fks[f].child = Chi(load, f)
      BY <1>3 DEF Chi
    <3> QED
      BY <3>1, <3>2 DEF Nested
  <2>3. stack'[c] = Append([s EXCEPT ![n] = fr], next)
    BY <1>1, <1>4, <1>8, <2>1, DescendFacts
  <2>4. View(c)' = v /\ load.fks[f].action = "cascade"
    BY <1>1, <1>3, <1>8 DEF View
  <2> QED
    BY <1>1, <1>5, <1>6, <1>7, <2>2, <2>3, <2>4
<1>9. ASSUME SetTop(c, Remaining(c, f)) PROVE stack'[c] = [s EXCEPT ![n] = fr]
  BY <1>1, <1>3, <1>4, <1>5, <1>9, SetTopFacts
<1>10. CASE /\ Fks[f].action = "setNull"
            /\ Write(c, WithRef(View(c), Fks[f].child, Children(c, f), f, Null))
            /\ SetTop(c, Remaining(c, f))
  <2>1. PICK w : w = WithRef(View(c), Fks[f].child, Children(c, f), f, Null)
    OBVIOUS
  <2>2. w \in Databases
    BY <1>1, <2>1, ChildrenFacts
  <2>3. View(c)' = w
    BY <1>1, <1>10, <2>1, <2>2, WriteFacts DEF View
  <2>4. w = Cleared(load, s, v, f)
    <3>1. Fks[f].child = Chi(load, f) /\ Children(c, f) = Hits(load, v, Chi(load, f), ByRef(f, s[n].records))
      BY <1>3 DEF Children, Chi
    <3> QED
      BY <2>1, <3>1 DEF Cleared
  <2>5. load.fks[f].action = "setNull" /\ stack'[c] = [s EXCEPT ![n] = fr]
    BY <1>3, <1>9, <1>10
  <2> QED
    BY <1>1, <1>5, <1>6, <1>7, <2>3, <2>4, <2>5
<1>11. CASE Fks[f].action = "setDefault" /\ SetTop(c, Remaining(c, f)) /\ UNCHANGED <<db, tx>>
  <2>1. load.fks[f].action = "setDefault" /\ View(c)' = v /\ stack'[c] = [s EXCEPT ![n] = fr]
    BY <1>1, <1>3, <1>9, <1>11 DEF View
  <2> QED
    BY <1>1, <1>5, <1>6, <1>7, <2>1
<1> QED
  BY <1>2, <1>8, <1>10, <1>11

(* What clearing the references that the top of the stack has in hand does.*)
LEMMA ClearedFacts ==
  ASSUME NEW l \in Workloads, NEW s \in Stacks(l), NEW v \in DBs(l), NEW f \in DOMAIN l.fks,
         s[Len(s)].records \subseteq Keys
  PROVE  /\ Cleared(l, s, v, f) \in DBs(l) /\ Shrinks(l, v, Cleared(l, s, v, f), {})
         /\ \A u \in Tables, k \in Keys : Cleared(l, s, v, f)[u][k] = NoRow => v[u][k] = NoRow
         /\ \A k \in Keys, p \in Keys : p \in s[Len(s)].records => ~Points(l, Cleared(l, s, v, f), f, k, p)
<1> DEFINE S == Hits(l, v, Chi(l, f), ByRef(f, s[Len(s)].records))
           w == Cleared(l, s, v, f)
<1>1. S \in SUBSET Live(v, Chi(l, f))
  BY DEF Hits
<1>2. /\ w \in DBs(l) /\ Shrinks(l, v, w, {})
      /\ \A u \in Tables, k \in Keys : w[u][k] = NoRow => v[u][k] = NoRow
      /\ \A k \in S : w[Chi(l, f)][k][f] = Null
  <2>1. w = WithRef(v, Chi(l, f), S, f, Null)
    BY DEF Cleared
  <2> HIDE DEF S, w
  <2> QED
    BY <1>1, <2>1, WithRefFacts
<1> HIDE DEF w
<1>3. ASSUME NEW k \in Keys, NEW p \in Keys, p \in s[Len(s)].records, Points(l, w, f, k, p)
      PROVE  FALSE
  <2>1. Points(l, v, f, k, p)
    BY <1>2, <1>3, ShrinkPointsAll
  <2>2. k \in S
    BY <1>3, <2>1 DEF Points, Hits, Live, ByRef
  <2> QED
    BY <1>2, <1>3, <2>2, NullAssumption DEF Points
<1> QED
  BY <1>2, <1>3 DEF w

LEMMA ActMoves ==
  ASSUME TypeOK, NEW c \in Clients, Act(c), NEW X, CascadeOK(load, stack[c], View(c), X)
  PROVE  Moved(c, X)
<1> DEFINE s == stack[c]
           n == Len(stack[c])
           v == View(c)
<1>1. pc[c] = "cascade" /\ UNCHANGED <<load, realTx, pc, outcome>>
  BY ActFacts
<1>2. load \in Workloads /\ s \in Stacks(load) /\ s # <<>> /\ n \in 1..Len(s) /\ v \in DBs(load)
  BY <1>1, CascadeFacts
<1>3. PICK f \in s[n].left, fr \in FrameSet(load) :
        /\ f \in DOMAIN load.fks /\ Resumed(s, f, fr)
        /\ \/ /\ load.fks[f].action = "cascade" /\ View(c)' = v
              /\ \E next \in FrameSet(load) :
                   /\ Nested(load, s, f, next)
                   /\ stack'[c] = Append([s EXCEPT ![n] = fr], next)
           \/ /\ load.fks[f].action = "setNull" /\ View(c)' = Cleared(load, s, v, f)
              /\ stack'[c] = [s EXCEPT ![n] = fr]
           \/ /\ load.fks[f].action = "setDefault" /\ View(c)' = v
              /\ stack'[c] = [s EXCEPT ![n] = fr]
  BY ActFacts
<1>4. /\ fr.table = s[n].table /\ fr.filter = s[n].filter /\ fr.records = s[n].records
      /\ s[n].entered /\ fr.entered = TRUE /\ s[n].restrict = {} /\ fr.restrict = {}
      /\ fr.left = s[n].left \ {f} /\ s[n].records \subseteq Keys
  BY <1>2, <1>3, FrameFacts DEF Resumed
<1>5. fr.left \cup fr.restrict = (s[n].left \cup s[n].restrict) \ {f}
  BY <1>4
<1>6. CASE /\ View(c)' = v
           /\ \E next \in FrameSet(load) : /\ Nested(load, s, f, next)
                                           /\ stack'[c] = Append([s EXCEPT ![n] = fr], next)
  <2>1. PICK next \in FrameSet(load) :
          Nested(load, s, f, next) /\ stack'[c] = Append([s EXCEPT ![n] = fr], next)
    BY <1>6
  <2>2. /\ next.table = Chi(load, f) /\ next.filter = ByRef(f, s[n].records) /\ next.entered = FALSE
        /\ next.records = {} /\ next.restrict = {} /\ next.left = {}
    BY <2>1 DEF Nested
  <2>3. CascadeOK(load, s, v, X)
    OBVIOUS
  <2> HIDE DEF s, v
  <2>4. Moves(load, s, v, Append([s EXCEPT ![Len(s)] = fr], next), v, X)
    BY <1>2, <1>3, <1>4, <2>2, <2>3, DescendStep DEF s
  <2> QED
    BY <1>1, <1>6, <2>1, <2>4 DEF Moved, s, v
<1>7. CASE View(c)' = Cleared(load, s, v, f) /\ stack'[c] = [s EXCEPT ![n] = fr]
  <2>1. PICK w : w = Cleared(load, s, v, f)
    OBVIOUS
  <2>2. /\ Shrinks(load, v, w, {})
        /\ \A u \in Tables, k \in Keys : w[u][k] = NoRow => v[u][k] = NoRow
        /\ \A k \in Keys, p \in Keys : p \in s[n].records => ~Points(load, w, f, k, p)
    <3>1. load \in Workloads /\ s \in Stacks(load) /\ v \in DBs(load) /\ f \in DOMAIN load.fks
          /\ s[Len(s)].records \subseteq Keys
      BY <1>2, <1>3, <1>4
    <3> HIDE DEF s, v
    <3>2. /\ Shrinks(load, v, Cleared(load, s, v, f), {})
          /\ \A u \in Tables, k \in Keys : Cleared(load, s, v, f)[u][k] = NoRow => v[u][k] = NoRow
          /\ \A k \in Keys, p \in Keys : p \in s[Len(s)].records => ~Points(load, Cleared(load, s, v, f), f, k, p)
      BY <3>1, ClearedFacts
    <3>3. s[n] = s[Len(s)]
      BY DEF s
    <3> HIDE DEF n
    <3> QED
      BY <2>1, <3>2, <3>3
  <2>3. Moves(load, s, v, stack'[c], w, X)
    <3> HIDE DEF s, n, v
    <3> QED
      BY <1>2, <1>3, <1>4, <1>5, <1>7, <2>2, DropStep DEF s, n, v
  <2> QED
    BY <1>1, <1>7, <2>1, <2>3 DEF Moved
<1>8. CASE load.fks[f].action = "setDefault" /\ View(c)' = v /\ stack'[c] = [s EXCEPT ![n] = fr]
  <2>1. f \notin Tracked(load) /\ Shrinks(load, v, v, {})
    BY <1>8, ShrinkReflexive DEF Tracked
  <2>2. Moves(load, s, v, stack'[c], v, X)
    <3> HIDE DEF s, n, v
    <3> QED
      BY <1>2, <1>3, <1>4, <1>5, <1>8, <2>1, DropStep DEF s, n, v
  <2> QED
    BY <1>1, <1>8, <2>2 DEF Moved
<1> QED
  BY <1>3, <1>6, <1>7, <1>8

(* Every step of a client in its cascade.                                  *)
LEMMA CascadeMoves ==
  ASSUME TypeOK, NEW c \in Clients, Step(c), pc[c] = "cascade",
         NEW X, CascadeOK(load, stack[c], View(c), X)
  PROVE  Moved(c, X)
<1>1. Enter(c) \/ RestrictCheck(c) \/ Act(c) \/ Delete(c)
  BY DEF Step, Begin, Check, WriteRows, Finish
<1> QED
  BY <1>1, EnterMoves, RestrictCheckMoves, ActMoves, DeleteMoves

-----------------------------------------------------------------------------
(* What the other clients' writes exempt                                   *)

(* Once written, a row stays so.                                           *)
LEMMA TouchedGrows ==
  ASSUME TypeOK, PcInv, NEW c \in Clients, Step(c)
  PROVE  Touched \subseteq Touched'
<1> SUFFICES ASSUME NEW w \in Clients, Written(w) PROVE Written(w)'
  BY StepFrame DEF Touched
<1>1. UNCHANGED realTx /\ (IsWrite(w)' <=> IsWrite(w)) /\ overlapped'[w]
  BY StepFrame DEF Written
<1>2. CASE w # c
  BY <1>1, <1>2, StepFrame DEF Written
<1>3. CASE w = c
  <2>1. IsWrite(c) /\ outcome[c] = "ok" /\ (realTx => pc[c] = "done")
    BY <1>3 DEF Written
  <2>2. pc[c] \in {"finish", "done"}
    BY <2>1 DEF PcInv, TypeOK
  <2>3. Finish(c) /\ pc[c] = "finish"
    BY <2>2 DEF Step, Begin, Enter, RestrictCheck, Act, Delete, Check, WriteRows, Finish
  <2>4. ~realTx
    BY <2>1, <2>3
  <2>5. outcome' = outcome
    BY <2>3, <2>4, FinishFacts
  <2> QED
    BY <1>1, <1>3, <2>1, <2>4, <2>5 DEF Written
<1> QED
  BY <1>2, <1>3

(* A failed delete is not taken back, without real transactions.           *)
LEMMA FailuresStay ==
  ASSUME TypeOK, PcInv, NEW c \in Clients, Step(c), ~realTx, NoFailedDelete'
  PROVE  NoFailedDelete
<1> SUFFICES ASSUME NEW d \in Clients, IsDelete(d), outcome[d] \in Failed
             PROVE  outcome'[d] \in Failed
  BY StepFrame DEF NoFailedDelete, Failed
<1>1. CASE d # c
  BY <1>1, StepFrame
<1>2. CASE d = c
  <2>1. pc[c] \in {"finish", "done"}
    BY <1>2 DEF PcInv, TypeOK, Failed
  <2>2. Finish(c)
    BY <2>1 DEF Step, Begin, Enter, RestrictCheck, Act, Delete, Check, WriteRows, Finish
  <2>3. outcome' = outcome
    BY <2>2, FinishFacts
  <2> QED
    BY <1>2, <2>3
<1> QED
  BY <1>1, <1>2

-----------------------------------------------------------------------------
(* The database under the feet of the others                               *)

(* Between its Begin and its end a real transaction keeps its snapshot.    *)
LEMMA SnapshotKept ==
  ASSUME TypeOK, PcInv, NEW c \in Clients, Step(c), realTx, Active(c), ~Finish(c)
  PROVE  db' = db /\ tx'[c].snapshot = tx[c].snapshot
<1>1. CASE UNCHANGED <<db, tx>>
  BY <1>1
<1>2. CASE Act(c)
  <2>1. CASE \E f \in Top(c).left : Write(c, WithRef(View(c), Fks[f].child, Children(c, f), f, Null))
    <3>1. PICK f \in Top(c).left : Write(c, WithRef(View(c), Fks[f].child, Children(c, f), f, Null))
      BY <2>1
    <3>2. WithRef(View(c), Fks[f].child, Children(c, f), f, Null) \in Databases
      BY <1>2, ChildrenFacts DEF Act
    <3> QED
      BY <3>1, <3>2, WriteFacts
  <2> QED
    BY <1>1, <1>2, <2>1 DEF Act
<1>3. CASE Delete(c)
  <2> DEFINE gone == Matching(View(c), Top(c).table, Top(c).filter)
             w == Without(View(c), Top(c).table, gone)
  <2>1. Write(c, w)
    BY <1>3 DEF Delete
  <2>2. w \in Databases
    <3>1. Top(c).table \in Tables
      BY <1>3, TopFacts DEF Delete, Frames
    <3> HIDE DEF gone
    <3> QED
      BY <3>1, LoadFacts, WithoutShrinks
  <2> HIDE DEF w
  <2> QED
    BY <2>1, <2>2, WriteFacts
<1>4. CASE WriteRows(c)
  BY <1>4, WriteRowsAt, WriteFacts
<1>5. CASE Begin(c)
  BY <1>5 DEF Begin, Active
<1> QED
  BY <1>1, <1>2, <1>3, <1>4, <1>5 DEF Step, Enter, RestrictCheck, Check

(* An insert or a patch without a real transaction.                        *)
LEMMA WriteRowsDb ==
  ASSUME AloneIInv, NEW c \in Clients, WriteRows(c), ~realTx
  PROVE  /\ overlapped[c] => Shrinks(load, db, db', Touched')
         /\ \A H : Covered(load, db, Touched', H) => Covered(load, db', Touched', H)
<1> USE DEF AloneIInv
<1>1. /\ pc[c] = "check" /\ checks[c] = {} /\ IsWrite(c) /\ Active(c) /\ UNCHANGED <<start, overlapped>>
      /\ UNCHANGED <<load, realTx>>
  BY WriteRowsAt DEF WriteRows
<1>2. /\ outcome'[c] \in {"ok", "duplicate"}
      /\ db' = IF outcome'[c] = "ok" THEN Effect(load, Call(c), db) ELSE db
  <2>1. PICK new \in Databases : /\ Write(c, new) /\ outcome'[c] \in {"ok", "duplicate"}
                                 /\ new = IF outcome'[c] = "ok" THEN Effect(load, Call(c), View(c)) ELSE View(c)
    BY WriteRowsAt
  <2>2. db' = new /\ View(c) = db
    BY <1>1, <2>1, WriteFacts DEF View
  <2> QED
    BY <2>1, <2>2
<1>3. load \in Workloads /\ IsWriteCall(load, Call(c)) /\ db \in DBs(load)
  BY <1>1, IsWriteCallOf, LoadFacts
<1>4. CASE outcome'[c] = "duplicate"
  <2>1. db' = db
    BY <1>2, <1>4
  <2> QED
    BY <2>1, ShrinkReflexive
<1>5. CASE outcome'[c] = "ok" /\ overlapped[c]
  <2>1. Written(c)' /\ Call(c)' = Call(c)
    BY <1>1, <1>5 DEF Written, IsWrite, Call
  <2>2. ASSUME NEW t \in Tables, NEW k \in Keys PROVE <<t, k>> \in Touched' \/ db'[t][k] = db[t][k]
    <3>1. CASE t = Call(c).table /\ k \in DOMAIN Call(c).rows
      BY <2>1, <3>1 DEF Touched
    <3>2. CASE ~(t = Call(c).table /\ k \in DOMAIN Call(c).rows)
      BY <1>2, <1>3, <1>5, <3>2, EffectFacts
    <3> QED
      BY <3>1, <3>2
  <2> QED
    BY <1>3, <2>2, EqualButFor
<1>6. CASE outcome'[c] = "ok" /\ ~overlapped[c]
  <2>1. db = start[c]
    BY <1>1, <1>6 DEF AloneInv
  <2>2. Verified(load, Call(c), db, Call(c).fks)
    BY <1>1, <1>6, <2>1 DEF VerdictInv, Verified
  <2>3. \A f \in Call(c).fks, k \in DOMAIN Call(c).rows :
          Call(c).rows[k][f] # Null => Call(c).rows[k][f] \in Live(db, Par(load, f))
    BY <2>2 DEF Verified
  <2>4. db' = Effect(load, Call(c), db)
    BY <1>2, <1>6
  <2> QED
    BY <1>3, <1>6, <2>3, <2>4, EffectCovered
<1> QED
  BY <1>2, <1>4, <1>5, <1>6

(* A real transaction commits an insert or a patch.                        *)
LEMMA CommitWrite ==
  ASSUME AloneIInv, NEW c \in Clients, Finish(c), IsWrite(c), realTx, db' # db
  PROVE  /\ overlapped[c] => Shrinks(load, db, db', Touched')
         /\ Covered(load, db, Touched', {}) => Covered(load, db', Touched', {})
<1> USE DEF AloneIInv
<1>1. /\ pc[c] = "finish" /\ Active(c) /\ UNCHANGED <<load, realTx, overlapped>>
      /\ outcome[c] = "ok" /\ UNCHANGED outcome /\ pc'[c] = "done"
      /\ \A t \in Tables, k \in Keys :
           db'[t][k] = IF tx[c].view[t][k] # tx[c].snapshot[t][k]
                       THEN tx[c].view[t][k] ELSE db[t][k]
  <2>1. /\ pc[c] = "finish" /\ Active(c) /\ UNCHANGED <<load, realTx, overlapped>>
        /\ outcome[c] = "ok" /\ UNCHANGED outcome /\ pc' = [pc EXCEPT ![c] = "done"]
        /\ \A t \in Tables, k \in Keys :
             db'[t][k] = IF tx[c].view[t][k] # tx[c].snapshot[t][k]
                         THEN tx[c].view[t][k] ELSE db[t][k]
    BY ZenonT(60), FinishFacts DEF Failed
  <2>2. pc'[c] = "done"
    BY <2>1 DEF TypeOK
  <2> QED
    BY <2>1, <2>2
<1>2. tx[c].view = Effect(load, Call(c), tx[c].snapshot) /\ tx[c].snapshot \in DBs(load)
  <2>1. tx[c] \in Transactions /\ Databases = DBs(load)
    BY <1>1, LoadFacts DEF TypeOK
  <2> QED
    BY <1>1, <2>1 DEF WriteViewInv, Transactions
<1>3. load \in Workloads /\ IsWriteCall(load, Call(c)) /\ db \in DBs(load)
  BY IsWriteCallOf, LoadFacts
<1>4. CASE overlapped[c]
  <2>1. Written(c)' /\ Call(c)' = Call(c)
    BY <1>1, <1>4 DEF Written, IsWrite, Call
  <2>2. ASSUME NEW t \in Tables, NEW k \in Keys PROVE <<t, k>> \in Touched' \/ db'[t][k] = db[t][k]
    <3>1. CASE t = Call(c).table /\ k \in DOMAIN Call(c).rows
      BY <2>1, <3>1 DEF Touched
    <3>2. CASE ~(t = Call(c).table /\ k \in DOMAIN Call(c).rows)
      <4>1. tx[c].view[t][k] = tx[c].snapshot[t][k]
        BY <1>2, <1>3, <3>2, EffectFacts
      <4> QED
        BY <1>1, <4>1
    <3> QED
      BY <3>1, <3>2
  <2> QED
    BY <1>3, <2>2, EqualButFor
<1>5. CASE ~overlapped[c]
  <2>1. db = start[c] /\ tx[c].snapshot = db
    BY <1>1, <1>5 DEF AloneInv
  <2>2. Verified(load, Call(c), db, Call(c).fks)
    BY <1>1, <1>5, <2>1 DEF VerdictInv
  <2>3. \A f \in Call(c).fks, k \in DOMAIN Call(c).rows :
          Call(c).rows[k][f] # Null => Call(c).rows[k][f] \in Live(db, Par(load, f))
    BY <2>2 DEF Verified
  <2>4. ASSUME Covered(load, db, Touched', {})
        PROVE  Covered(load, db', Touched', {})
    <3>1. Covered(load, Effect(load, Call(c), db), Touched', {})
      BY <1>3, <2>3, <2>4, EffectCovered
    <3>2. ASSUME NEW t \in Tables, NEW k \in Keys
          PROVE  db'[t][k] = Effect(load, Call(c), db)[t][k]
      BY <1>1, <1>2, <2>1
    <3> QED
      BY <1>3, <3>1, <3>2, EqualButFor
  <2> QED
    BY <1>5, <2>4
<1> QED
  BY <1>4, <1>5

(* It commits a delete.                                                    *)
LEMMA CommitDelete ==
  ASSUME AloneIInv, CommittedInv, SnapshotInv, DeleteViewInv,
         NEW c \in Clients, Finish(c), IsDelete(c), realTx, db' # db
  PROVE  Shrinks(load, db, db', Touched') /\ Covered(load, db', Touched', {})
<1> USE DEF AloneIInv
<1>1. /\ pc[c] = "finish" /\ Active(c) /\ outcome[c] = "ok"
      /\ \A t \in Tables, k \in Keys :
           tx[c].view[t][k] # tx[c].snapshot[t][k] => db[t][k] = tx[c].snapshot[t][k]
      /\ \A t \in Tables, k \in Keys :
           db'[t][k] = IF tx[c].view[t][k] # tx[c].snapshot[t][k]
                       THEN tx[c].view[t][k] ELSE db[t][k]
  BY FinishFacts DEF TypeOK, Failed
<1>2. load \in Workloads /\ stack[c] = <<>> /\ Touched \subseteq Touched'
  BY <1>1, TouchedGrows DEF TypeOK, Step
<1>3. Hand(load, stack[c]) = {}
  BY <1>2 DEF Hand
<1>4. /\ Shrinks(load, tx[c].snapshot, tx[c].view, {})
      /\ Covered(load, tx[c].view, Touched, {})
  BY <1>1, <1>3 DEF DeleteViewInv, Failed
<1>5. Covered(load, tx[c].view, Touched', {}) /\ Covered(load, db, Touched', {})
  BY <1>2, <1>4, CoveredMonotone DEF CommittedInv
<1>6. Shrinks(load, tx[c].snapshot, db, Touched')
  BY <1>1, <1>2, ShrinkMonotone DEF SnapshotInv
<1> QED
  BY <1>1, <1>2, <1>4, <1>5, <1>6, CommitStep

(* To another client at work, a step only takes rows and references away.  *)
LEMMA OthersShrink ==
  ASSUME AloneIInv, OrphanInv, NEW c \in Clients, Step(c),
         NEW d \in Clients, d # c, Active(d)
  PROVE  Shrinks(load, db, db', Touched')
<1> USE DEF AloneIInv, OrphanInv
<1>1. CASE db' = db
  BY <1>1, ShrinkReflexive
<1>2. CASE pc[c] = "cascade" /\ db' # db
  <2>1. ~realTx /\ UNCHANGED realTx
    <3>1. Active(c) /\ ~Finish(c)
      BY <1>2 DEF Active, Finish
    <3> QED
      BY <1>2, <3>1, SnapshotKept, StepFrame
  <2>2. CascadeOK(load, stack[c], View(c), Touched)
    BY <1>2 DEF DeleteInv, CascadeOK
  <2>3. Moved(c, Touched)
    BY <1>2, <2>2, CascadeMoves
  <2>4. Shrinks(load, View(c), View(c)', {})
    BY <1>2, <2>3 DEF Moved, Moves
  <2>5. View(c) = db /\ View(c)' = db'
    BY <2>1 DEF View
  <2> QED
    BY <2>4, <2>5, ShrinkMonotone
<1>3. CASE WriteRows(c) /\ db' # db
  <2>1. Active(c) /\ ~Finish(c)
    BY <1>3, WriteRowsAt DEF Finish
  <2>2. ~realTx /\ overlapped[c]
    BY <1>3, <2>1, SnapshotKept DEF OverlapInv
  <2> QED
    BY <1>3, <2>2, WriteRowsDb
<1>4. CASE Finish(c) /\ db' # db
  <2>1. Active(c) /\ realTx /\ overlapped[c]
    BY <1>4, FinishFacts DEF OverlapInv
  <2>2. IsDelete(c) \/ IsWrite(c)
    BY <1>4 DEF PcInv, Finish
  <2> QED
    BY <1>4, <2>1, <2>2, CommitWrite, CommitDelete
<1> QED
  BY <1>1, <1>2, <1>3, <1>4 DEF Step, Begin, Enter, RestrictCheck, Act, Delete, Check

LEMMA FinishRests ==
  ASSUME TypeOK, NEW c \in Clients, Finish(c)
  PROVE  ~Active(c)'
<1>1. pc' = [pc EXCEPT ![c] = "idle"] \/ pc' = [pc EXCEPT ![c] = "done"]
  BY FinishFacts
<1>2. pc \in [Clients -> {"idle", "cascade", "check", "finish", "done"}]
  BY DEF TypeOK
<1> QED
  BY <1>1, <1>2 DEF Active

-----------------------------------------------------------------------------
(* The cascades' invariant                                                 *)

(* A client's first frame has nothing in hand yet.                         *)
LEMMA BeginFrame ==
  ASSUME TypeOK, PcInv, NEW c \in Clients, Begin(c), NEW v, NEW X
  PROVE  CascadeOK(load, stack'[c], v, X) /\ Hand(load, stack'[c]) = {} /\ stack[c] = <<>>
<1>1. stack[c] = <<>> /\ stack'[c] = IF IsDelete(c) THEN <<Frame(Call(c).table, Call(c).filter)>> ELSE <<>>
  BY DEF Begin, TypeOK
<1>2. CASE ~IsDelete(c)
  <2>1. Len(stack'[c]) = 0
    BY <1>1, <1>2
  <2> QED
    BY <1>1, <2>1 DEF CascadeOK, FramesOK, Seen, Handled, Hand
<1>3. CASE IsDelete(c)
  <2> PICK fr : fr = Frame(Call(c).table, Call(c).filter)
    OBVIOUS
  <2>1. /\ ~fr.entered /\ fr.records = {} /\ fr.restrict = {} /\ fr.left = {}
        /\ fr.filter.by = "ref" => fr.filter.fk \in DOMAIN load.fks /\ Chi(load, fr.filter.fk) = fr.table
    <3>1. CallOK(load, Call(c))
      BY LoadFacts
    <3>2. Call(c).filter.by = "ref" => /\ Call(c).filter.fk \in DOMAIN load.fks
                                       /\ Chi(load, Call(c).filter.fk) = Call(c).table
      BY <1>3, <3>1 DEF CallOK, IsDelete, Chi
    <3> QED
      BY <3>2 DEF Frame
  <2>2. PICK r : r = <<fr>>
    OBVIOUS
  <2>3. Len(r) = 1 /\ r[1] = fr /\ \A i \in 1..Len(r) : i = 1
    BY <2>2
  <2>4. FramesOK(load, r)
    BY <2>1, <2>3 DEF FramesOK
  <2>5. Seen(load, r, v, X) /\ Handled(load, r, v, X)
    BY <2>1, <2>3 DEF Seen, Handled
  <2>6. Hand(load, r) = {}
    BY <2>1, <2>3 DEF Hand
  <2> QED
    BY <1>1, <1>3, <2>2, <2>4, <2>5, <2>6 DEF CascadeOK
<1> QED
  BY <1>2, <1>3

LEMMA DeleteInvStep ==
  ASSUME AloneIInv, OrphanInv, NEW c \in Clients, Step(c)
  PROVE  DeleteInv'
<1> USE DEF AloneIInv, OrphanInv
<1>1. load' = load /\ realTx' = realTx /\ Touched \subseteq Touched' /\ load \in Workloads
  BY StepFrame, TouchedGrows DEF TypeOK
<1> SUFFICES ASSUME NEW d \in Clients, pc'[d] = "cascade"
             PROVE  CascadeOK(load, stack'[d], View(d)', Touched')
  BY <1>1 DEF DeleteInv, CascadeOK
<1>2. CASE d # c
  <2>1. /\ pc[d] = "cascade" /\ stack'[d] = stack[d] /\ tx'[d] = tx[d] /\ Active(d)
    BY <1>2, StepFrame DEF Active
  <2>2. FramesOK(load, stack[d]) /\ Seen(load, stack[d], View(d), Touched) /\ Handled(load, stack[d], View(d), Touched)
    BY <2>1 DEF DeleteInv
  <2>3. Seen(load, stack[d], View(d), Touched') /\ Handled(load, stack[d], View(d), Touched')
    BY <1>1, <2>2, SeenMonotone, HandledMonotone
  <2>4. CASE realTx
    <3>1. View(d)' = View(d)
      BY <1>1, <2>1, <2>4 DEF View
    <3> QED
      BY <2>1, <2>2, <2>3, <3>1 DEF CascadeOK
  <2>5. CASE ~realTx
    <3>1. View(d) = db /\ View(d)' = db'
      BY <1>1, <2>5 DEF View
    <3>2. Shrinks(load, db, db', Touched') /\ stack[d] \in Stacks(load)
      BY <1>2, <2>1, OthersShrink, LoadFacts
    <3>3. Seen(load, stack[d], db', Touched') /\ Handled(load, stack[d], db', Touched')
      BY <1>1, <2>2, <2>3, <3>1, <3>2, SeenStable, HandledStable
    <3> QED
      BY <2>1, <2>2, <3>1, <3>3 DEF CascadeOK
  <2> QED
    BY <2>4, <2>5
<1>3. CASE d = c /\ Begin(c)
  BY <1>3, BeginFrame
<1>4. CASE d = c /\ ~Begin(c)
  <2>1. pc[c] = "cascade"
    BY <1>4, FinishFacts DEF Step, Enter, RestrictCheck, Act, Delete, Check, Throw, WriteRows, Goto, TypeOK
  <2>2. CascadeOK(load, stack[c], View(c), Touched')
    BY <1>1, <2>1, SeenMonotone, HandledMonotone DEF DeleteInv, CascadeOK
  <2>3. Moved(c, Touched')
    BY <2>1, <2>2, CascadeMoves
  <2> QED
    BY <1>4, <2>3 DEF Moved, Moves
<1> QED
  BY <1>2, <1>3, <1>4

-----------------------------------------------------------------------------
(* Nothing dangles that nobody has in hand                                 *)

(* Only a cascade has anything in hand.                                    *)
LEMMA HandsFacts ==
  ASSUME TypeOK, NEW c \in Clients
  PROVE  /\ Hands(Clients) = Hands(Clients \ {c}) \cup Hand(load, stack[c])
         /\ pc[c] # "cascade" => Hand(load, stack[c]) = {}
<1>1. Hands(Clients) = Hands(Clients \ {c}) \cup Hand(load, stack[c])
  BY DEF Hands
<1>2. ASSUME pc[c] # "cascade" PROVE Hand(load, stack[c]) = {}
  <2>1. stack[c] = <<>>
    BY <1>2 DEF TypeOK
  <2> QED
    BY <2>1 DEF Hand
<1> QED
  BY <1>1, <1>2

LEMMA PassInvStep ==
  ASSUME AloneIInv, OrphanInv, NEW c \in Clients, Step(c)
  PROVE  PassInv'
<1> USE DEF AloneIInv, OrphanInv
<1>1. load' = load /\ realTx' = realTx /\ Touched \subseteq Touched' /\ load \in Workloads /\ TypeOK'
  BY StepFrame, TouchedGrows, TypeStep DEF TypeOK, Next
<1> SUFFICES ASSUME ~realTx, NoFailedDelete'
             PROVE  Covered(load, db', Touched', Hands(Clients)')
  BY <1>1 DEF PassInv
<1> DEFINE H == Hands(Clients \ {c})
<1>2. Covered(load, db, Touched', H \cup Hand(load, stack[c]))
  <2>1. Covered(load, db, Touched, Hands(Clients))
    BY FailuresStay DEF PassInv
  <2> QED
    BY <1>1, <2>1, HandsFacts, CoveredMonotone
<1>3. Hands(Clients)' = H \cup Hand(load, stack'[c])
  <2>1. \A d \in Clients \ {c} : Hand(load, stack[d])' = Hand(load, stack[d])
    BY <1>1, StepFrame
  <2>2. Hands(Clients \ {c})' = H
    BY <2>1 DEF Hands
  <2>3. Hands(Clients)' = Hands(Clients \ {c})' \cup Hand(load, stack[c])'
    BY DEF Hands
  <2> QED
    BY <1>1, <2>2, <2>3
<1> HIDE DEF H
<1>4. CASE pc[c] = "cascade"
  <2>1. CascadeOK(load, stack[c], View(c), Touched')
    BY <1>1, <1>4, SeenMonotone, HandledMonotone DEF DeleteInv, CascadeOK
  <2>2. Moved(c, Touched')
    BY <1>4, <2>1, CascadeMoves
  <2>3. IsDelete(c) /\ (IsDelete(c)' <=> IsDelete(c))
    BY <1>4, StepFrame DEF PcInv
  <2>4. outcome'[c] \notin Failed
    BY <2>3 DEF NoFailedDelete, Failed
  <2>5. View(c) = db /\ View(c)' = db'
    BY <1>1 DEF View
  <2>6. Covered(load, db', Touched', H \cup Hand(load, stack'[c]))
    BY <1>2, <2>2, <2>4, <2>5 DEF Moved, Moves
  <2> QED
    BY <1>3, <2>6
<1>5. CASE pc[c] # "cascade"
  <2>1. Hand(load, stack[c]) = {}
    BY <1>5, HandsFacts
  <2>2. Covered(load, db, Touched', H)
    BY <1>2, <2>1
  <2>3. Covered(load, db', Touched', H)
    <3>1. CASE db' = db
      BY <2>2, <3>1
    <3>2. CASE WriteRows(c)
      BY <2>2, <3>2, WriteRowsDb
    <3>3. CASE Finish(c)
      BY <2>2, <3>3, FinishFacts
    <3> QED
      BY <1>5, <3>1, <3>2, <3>3 DEF Step, Begin, Enter, RestrictCheck, Act, Delete, Check
  <2>4. H \subseteq Hands(Clients)'
    BY <1>3
  <2> QED
    BY <2>3, <2>4, CoveredMonotone
<1> QED
  BY <1>4, <1>5

LEMMA CommittedInvStep ==
  ASSUME AloneIInv, OrphanInv, NEW c \in Clients, Step(c)
  PROVE  CommittedInv'
<1> USE DEF AloneIInv, OrphanInv
<1>1. load' = load /\ realTx' = realTx /\ Touched \subseteq Touched'
  BY StepFrame, TouchedGrows
<1> SUFFICES ASSUME realTx PROVE Covered(load, db', Touched', {})
  BY <1>1 DEF CommittedInv
<1>2. Covered(load, db, Touched', {})
  BY <1>1, CoveredMonotone DEF CommittedInv
<1>3. CASE db' = db
  BY <1>2, <1>3
<1>4. CASE db' # db
  <2>1. Finish(c)
    BY <1>4, SnapshotKept, StepFrame DEF Begin
  <2>2. IsDelete(c) \/ IsWrite(c)
    BY <2>1 DEF PcInv, Finish
  <2> QED
    BY <1>2, <1>4, <2>1, <2>2, CommitWrite, CommitDelete
<1> QED
  BY <1>3, <1>4

LEMMA SnapshotInvStep ==
  ASSUME AloneIInv, OrphanInv, NEW c \in Clients, Step(c)
  PROVE  SnapshotInv'
<1> USE DEF AloneIInv, OrphanInv
<1>1. load' = load /\ realTx' = realTx /\ Touched \subseteq Touched'
  BY StepFrame, TouchedGrows
<1> SUFFICES ASSUME NEW d \in Clients, realTx, Active(d)'
             PROVE  Shrinks(load, tx'[d].snapshot, db', Touched')
  BY <1>1 DEF SnapshotInv
<1>2. CASE d # c
  <2>1. Active(d) /\ tx'[d] = tx[d]
    BY <1>2, StepFrame
  <2>2. Shrinks(load, tx[d].snapshot, db, Touched')
    BY <1>1, <2>1, ShrinkMonotone DEF SnapshotInv
  <2>3. Shrinks(load, db, db', Touched')
    BY <1>2, <2>1, OthersShrink
  <2> QED
    BY <2>1, <2>2, <2>3, ShrinkTransitive
<1>3. CASE d = c /\ Begin(c)
  <2>1. db' = db /\ tx'[c] = [view |-> db, snapshot |-> db]
    BY <1>3 DEF Begin, TypeOK
  <2> QED
    BY <1>3, <2>1, ShrinkReflexive
<1>4. CASE d = c /\ ~Begin(c)
  <2>1. Active(c) /\ ~Finish(c)
    BY <1>4, StepFrame, FinishRests
  <2>2. db' = db /\ tx'[c].snapshot = tx[c].snapshot
    BY <2>1, SnapshotKept
  <2> QED
    BY <1>1, <1>4, <2>1, <2>2, ShrinkMonotone DEF SnapshotInv
<1> QED
  BY <1>2, <1>3, <1>4

LEMMA DeleteViewInvStep ==
  ASSUME AloneIInv, OrphanInv, NEW c \in Clients, Step(c)
  PROVE  DeleteViewInv'
<1> USE DEF AloneIInv, OrphanInv
<1>1. load' = load /\ realTx' = realTx /\ Touched \subseteq Touched'
  BY StepFrame, TouchedGrows
<1> SUFFICES ASSUME NEW d \in Clients, realTx, Active(d)', IsDelete(d), outcome'[d] \notin Failed
             PROVE  /\ Shrinks(load, tx'[d].snapshot, tx'[d].view, {})
                    /\ Covered(load, tx'[d].view, Touched', Hand(load, stack'[d]))
  BY <1>1, StepFrame DEF DeleteViewInv, Failed
<1>2. CASE d # c
  <2>1. Active(d) /\ tx'[d] = tx[d] /\ stack'[d] = stack[d] /\ outcome'[d] = outcome[d]
    BY <1>2, StepFrame
  <2>2. /\ Shrinks(load, tx[d].snapshot, tx[d].view, {})
        /\ Covered(load, tx[d].view, Touched, Hand(load, stack[d]))
    BY <2>1 DEF DeleteViewInv
  <2> QED
    BY <1>1, <2>1, <2>2, CoveredMonotone
<1>3. CASE d = c /\ Begin(c)
  <2>1. tx'[c] = [view |-> db, snapshot |-> db]
    BY <1>3 DEF Begin, TypeOK
  <2>2. Covered(load, db, Touched', Hand(load, stack'[c]))
    BY <1>1, <1>3, BeginFrame, CoveredMonotone DEF CommittedInv
  <2> QED
    BY <1>3, <2>1, <2>2, ShrinkReflexive
<1>4. CASE d = c /\ ~Begin(c)
  <2>1. Active(c) /\ ~Finish(c)
    BY <1>4, StepFrame, FinishRests
  <2>2. pc[c] = "cascade"
    <3>1. pc[c] # "check"
      BY <1>4 DEF PcInv, IsDelete, IsWrite
    <3>2. pc[c] # "finish"
      BY <2>1 DEF Step, Begin, Enter, RestrictCheck, Act, Delete, Check, WriteRows
    <3> QED
      BY <2>1, <3>1, <3>2 DEF Active
  <2>3. outcome[c] \notin Failed
    BY <2>2 DEF PcInv, Failed
  <2>4. /\ Shrinks(load, tx[c].snapshot, tx[c].view, {})
        /\ Covered(load, tx[c].view, Touched', {} \cup Hand(load, stack[c]))
    BY <1>1, <1>4, <2>1, <2>3, CoveredMonotone DEF DeleteViewInv
  <2>5. CascadeOK(load, stack[c], View(c), Touched')
    BY <1>1, <2>2, SeenMonotone, HandledMonotone DEF DeleteInv, CascadeOK
  <2>6. Moved(c, Touched')
    BY <2>2, <2>5, CascadeMoves
  <2>7. View(c) = tx[c].view /\ View(c)' = tx'[c].view /\ tx'[c].snapshot = tx[c].snapshot
    BY <1>1, <2>1, SnapshotKept DEF View
  <2>8. Moves(load, stack[c], tx[c].view, stack'[c], tx'[c].view, Touched')
    BY <1>4, <2>6, <2>7 DEF Moved
  <2>9. Covered(load, tx'[c].view, Touched', {} \cup Hand(load, stack'[c]))
    BY <2>4, <2>8 DEF Moves
  <2>10. Shrinks(load, tx[c].snapshot, tx'[c].view, {})
    BY <2>4, <2>8, ShrinkTransitive DEF Moves
  <2> QED
    BY <1>4, <2>7, <2>9, <2>10
<1> QED
  BY <1>2, <1>3, <1>4

LEMMA OrphanInit ==
  ASSUME Init
  PROVE  OrphanInv
<1>1. TypeOK /\ load \in Workloads /\ db = load.db
  BY TypeInit DEF Init
<1>2. \A c \in Clients : pc[c] # "cascade" /\ ~Active(c)
  BY DEF Init, Active
<1>3. Covered(load, db, Touched, {})
  <2> SUFFICES ASSUME NEW f \in Tracked(load), NEW k \in Keys, NEW p \in Keys,
                      Points(load, db, f, k, p), db[Par(load, f)][p] = NoRow
               PROVE  FALSE
    BY DEF Covered
  <2>1. Consistent(load) /\ f \in DOMAIN load.fks
    BY <1>1, WorkloadsAssumption, TrackedFacts
  <2> QED
    BY <1>1, <2>1, NullAssumption DEF Consistent, Points, Chi, Par
<1>4. Covered(load, db, Touched, Hands(Clients))
  BY <1>3, CoveredMonotone
<1> QED
  BY <1>2, <1>3, <1>4 DEF OrphanInv, DeleteInv, PassInv, CommittedInv, SnapshotInv, DeleteViewInv

LEMMA OrphanStep ==
  ASSUME AloneIInv, OrphanInv, [Next]_vars
  PROVE  OrphanInv'
<1>1. CASE UNCHANGED vars
  <2>1. UNCHANGED <<load, realTx, db, tx, pc, outcome, stack, checks, start, overlapped>>
    BY <1>1 DEF vars, calls
  <2>2. /\ \A c \in Clients : /\ Call(c)' = Call(c) /\ (IsWrite(c)' <=> IsWrite(c))
                              /\ (IsDelete(c)' <=> IsDelete(c))
                              /\ (Active(c)' <=> Active(c)) /\ View(c)' = View(c)
    BY <2>1 DEF Call, IsWrite, IsDelete, Active, View
  <2>3. Touched' = Touched /\ Hands(Clients)' = Hands(Clients) /\ (NoFailedDelete' <=> NoFailedDelete)
    BY <2>1, <2>2 DEF Touched, Written, Hands, NoFailedDelete, Failed
  <2>4. DeleteInv' /\ PassInv'
    BY <2>1, <2>2, <2>3 DEF OrphanInv, DeleteInv, PassInv
  <2>5. CommittedInv' /\ SnapshotInv' /\ DeleteViewInv'
    BY <2>1, <2>2, <2>3 DEF OrphanInv, CommittedInv, SnapshotInv, DeleteViewInv, Failed
  <2> QED
    BY <2>4, <2>5 DEF OrphanInv
<1>2. CASE Next
  <2>1. PICK c \in Clients : Step(c)
    BY <1>2 DEF Next
  <2> QED
    BY <2>1, DeleteInvStep, PassInvStep, CommittedInvStep, SnapshotInvStep, DeleteViewInvStep DEF OrphanInv
<1> QED
  BY <1>1, <1>2

(* When all is quiet, a reference dangles only if an insert or a patch that*)
(* ran beside another call wrote the row it is in or the row it points to, *)
(* for any schema of foreign keys (cycles, self references, diamonds), any *)
(* number of clients and both kinds of transactions: deletes alone, however*)
(* they interleave, leave none (application-integrity.ts:231-286; deleteOne*)
(* and deleteMany, db-table.ts:1624, 1803, 1892).  Keys are told apart by  *)
(* their first field, without which the check of an insert may pass in     *)
(* error (application-integrity.ts:126).                                   *)
THEOREM NoOrphansButByRace ==
  ASSUME KeyIsFirstField
  PROVE  Spec => []OrphansOnlyByRace
<1>1. Init => AloneIInv /\ OrphanInv
  BY AloneInit, OrphanInit
<1>2. (AloneIInv /\ OrphanInv) /\ [Next]_vars => (AloneIInv /\ OrphanInv)'
  BY AloneIStep, OrphanStep
<1>3. AloneIInv /\ OrphanInv => OrphansOnlyByRace
  <2> SUFFICES ASSUME AloneIInv, OrphanInv, \A c \in Clients : ~Active(c),
                      realTx \/ \A c \in Clients : IsDelete(c) => outcome[c] \notin Failed,
                      NEW f \in DOMAIN Fks, NEW k \in Keys, Dangling(f, k), Fks[f].action # "setDefault"
               PROVE  Raced(Fks[f].child, k) \/ Raced(Fks[f].parent, db[Fks[f].child][k][f])
    BY DEF OrphansOnlyByRace
  <2>1. TypeOK /\ load \in Workloads /\ Fks = load.fks /\ db \in DBs(load)
    BY LoadFacts DEF AloneIInv
  <2>2. Covered(load, db, Touched, {})
    <3>1. CASE realTx
      BY <3>1 DEF OrphanInv, CommittedInv
    <3>2. CASE ~realTx
      <4>1. \A c \in Clients : Hand(load, stack[c]) = {}
        BY <2>1, HandsFacts DEF Active
      <4>2. Hands(Clients) = {}
        BY <4>1 DEF Hands
      <4> QED
        BY <3>2, <4>2 DEF OrphanInv, PassInv, NoFailedDelete
    <3> QED
      BY <3>1, <3>2
  <2>3. f \in Tracked(load) /\ Fks[f].child = Chi(load, f) /\ Fks[f].parent = Par(load, f)
    BY <2>1 DEF Tracked, Chi, Par
  <2>4. PICK p : p = db[Chi(load, f)][k][f]
    OBVIOUS
  <2>5. Points(load, db, f, k, p) /\ p # Null /\ db[Par(load, f)][p] = NoRow
    BY <2>3, <2>4 DEF Dangling, Points
  <2>6. p \in Keys
    <3>1. db[Chi(load, f)][k] \in StoredRows(load)
      BY <2>1, <2>3, <2>5, TrackedFacts DEF DBs, Points
    <3> QED
      BY <2>3, <2>4, <2>5, <3>1 DEF StoredRows, Tracked
  <2>7. <<Chi(load, f), k>> \in Touched \/ <<Par(load, f), p>> \in Touched
    BY <2>2, <2>3, <2>5, <2>6 DEF Covered
  <2> QED
    BY <2>3, <2>4, <2>7 DEF Touched, Written, Raced
<1> QED
  BY <1>1, <1>2, <1>3, PTL DEF Spec

-----------------------------------------------------------------------------
(* The rows a delete takes with it                                         *)

(* Every set of numbers has a smallest: induction over the definition of   *)
(* Doomed.                                                                 *)
LEMMA Smallest ==
  ASSUME NEW T \in SUBSET Nat, T # {}
  PROVE  \E n \in T : \A m \in T : n <= m
<1> DEFINE R == StrictSubsetOrdering(Nat)
           S == FiniteSubsetsOf(Nat)
           I == {1..n : n \in T}
<1>1. IsWellFoundedOn(R, S)
  BY FS_StrictSubsetOrderingWellFounded
<1>2. I \subseteq S
  BY FS_Interval DEF FiniteSubsetsOf
<1>3. PICK x \in I : \A y \in I : <<y, x>> \notin R
  <2>1. I # {}
    OBVIOUS
  <2> HIDE DEF R, S, I
  <2> QED
    BY <1>1, <1>2, <2>1, WFMin
<1>4. PICK n \in T : x = 1..n
  BY DEF I
<1>5. ASSUME NEW m \in T, m < n
      PROVE  FALSE
  <2>1. 1..m \in I /\ 1..m \in SUBSET Nat /\ 1..n \in SUBSET Nat
    OBVIOUS
  <2>2. n \in 1..n /\ n \notin 1..m /\ 1..m \subseteq 1..n
    BY <1>5
  <2>3. 1..m # 1..n
    BY <2>2
  <2>4. <<1..m, 1..n>> \in R
    BY <2>1, <2>2, <2>3 DEF StrictSubsetOrdering
  <2> QED
    BY <1>3, <1>4, <2>1, <2>4
<1> QED
  BY <1>5

(* If 0 is in S, and with every number of 0..m the next one, so is m.      *)
LEMMA UpTo ==
  ASSUME NEW m \in Nat, NEW S, 0 \in S, \A n \in 0..m : n \in S /\ n < m => n + 1 \in S
  PROVE  m \in S
<1> DEFINE T == {n \in 0..m : n \notin S}
<1>1. CASE T = {}
  BY <1>1
<1>2. CASE T # {}
  <2>1. T \in SUBSET Nat
    OBVIOUS
  <2>2. PICK n \in T : \A x \in T : n <= x
    <3> HIDE DEF T
    <3> QED
      BY <1>2, <2>1, Smallest
  <2>3. n # 0 /\ n - 1 \in 0..m /\ n - 1 < m /\ n - 1 < n
    BY <2>2
  <2>4. n - 1 \in S
    BY <2>2, <2>3
  <2> QED
    BY <2>2, <2>3, <2>4
<1> QED
  BY <1>1, <1>2

(* The rows that reference D over a cascade, and the set they make up with *)
(* it.                                                                     *)
Pulled(l, v, D) ==
  {x \in Tables \X Keys :
     /\ v[x[1]][x[2]] # NoRow
     /\ \E f \in DOMAIN l.fks : /\ Chi(l, f) = x[1] /\ l.fks[f].action = "cascade"
                                /\ <<Par(l, f), v[x[1]][x[2]][f]>> \in D}
Widened(l, v, D) == D \cup Pulled(l, v, D)

(* D is the closure of A.                                                  *)
IsClosure(l, v, A, D) ==
  /\ A \subseteq D /\ D \subseteq Tables \X Keys /\ Pulled(l, v, D) \subseteq D
  /\ \A E \in SUBSET (Tables \X Keys) : A \subseteq E /\ Pulled(l, v, E) \subseteq E => D \subseteq E

Reaches(l, v, A, m, g) ==
  g = [n \in 0..m |-> IF n = 0 THEN A ELSE Widened(l, v, g[n - 1])]

(* The recursive function in Doomed exists.                                *)
LEMMA ReachExists ==
  ASSUME NEW l, NEW v, NEW A, NEW m \in Nat
  PROVE  \E g : Reaches(l, v, A, m, g)
<1> DEFINE S == {n \in Nat : \E g : Reaches(l, v, A, n, g)}
<1>1. 0 \in S
  <2>1. Reaches(l, v, A, 0, [n \in 0..0 |-> A])
    BY DEF Reaches
  <2> QED
    BY <2>1
<1>2. ASSUME NEW n \in 0..m, n \in S
      PROVE  n + 1 \in S
  <2>1. PICK g : Reaches(l, v, A, n, g)
    BY <1>2
  <2> DEFINE h == [i \in 0..(n + 1) |-> IF i <= n THEN g[i] ELSE Widened(l, v, g[n])]
  <2>2. \A i \in 0..n : h[i] = g[i] /\ g[i] = IF i = 0 THEN A ELSE Widened(l, v, g[i - 1])
    BY <2>1 DEF Reaches
  <2>3. \A i \in 0..(n + 1) : h[i] = IF i = 0 THEN A ELSE Widened(l, v, h[i - 1])
    <3> SUFFICES ASSUME NEW i \in 0..(n + 1)
                 PROVE  h[i] = IF i = 0 THEN A ELSE Widened(l, v, h[i - 1])
      OBVIOUS
    <3>1. CASE i = n + 1
      <4>1. i # 0 /\ i - 1 = n /\ n \in 0..n /\ ~(i <= n)
        BY <3>1
      <4>2. h[i] = Widened(l, v, g[n]) /\ h[i - 1] = g[n]
        BY <4>1, <2>2
      <4> QED
        BY <4>1, <4>2
    <3>2. CASE i # n + 1
      <4>1. i \in 0..n /\ (i # 0 => i - 1 \in 0..n)
        BY <3>2
      <4> QED
        BY <4>1, <2>2
    <3> QED
      BY <3>1, <3>2
  <2>4. Reaches(l, v, A, n + 1, h)
    <3>1. h = [i \in 0..(n + 1) |-> h[i]]
      OBVIOUS
    <3> HIDE DEF h
    <3>2. h = [i \in 0..(n + 1) |-> IF i = 0 THEN A ELSE Widened(l, v, h[i - 1])]
      BY <3>1, <2>3
    <3> QED
      BY <3>2 DEF Reaches
  <2> QED
    BY <2>4
<1>3. m \in S
  <2> HIDE DEF S
  <2> QED
    BY <1>1, <1>2, UpTo
<1> QED
  BY <1>3

(* Size steps are enough: every one but the last adds a row.               *)
LEMMA ReachCloses ==
  ASSUME NEW l, NEW v, NEW A \in SUBSET (Tables \X Keys), IsFiniteSet(Tables), IsFiniteSet(Keys),
         NEW size, size = Cardinality(Tables) * Cardinality(Keys),
         NEW g, Reaches(l, v, A, size, g)
  PROVE  IsClosure(l, v, A, g[size])
<1> DEFINE R == Tables \X Keys
<1>1. IsFiniteSet(R) /\ Cardinality(R) = size /\ size \in Nat
  BY FS_Product, FS_CardinalityType
<1>2. \A D : Pulled(l, v, D) \subseteq R
  BY DEF Pulled
<1>3. \A n \in 0..size : g[n] = IF n = 0 THEN A ELSE Widened(l, v, g[n - 1])
  BY DEF Reaches
<1>4. ASSUME NEW n \in 0..size, n < size
      PROVE  g[n + 1] = Widened(l, v, g[n])
  <2>1. n + 1 \in 0..size /\ n + 1 # 0 /\ (n + 1) - 1 = n
    BY <1>1, <1>4
  <2> QED
    BY <1>3, <2>1
<1>5. g[0] = A
  BY <1>1, <1>3
<1> HIDE DEF R
<1>6. A \subseteq g[size] /\ g[size] \subseteq R
  <2> DEFINE S == {n \in 0..size : A \subseteq g[n] /\ g[n] \subseteq R}
  <2>1. 0 \in S
    BY <1>1, <1>5 DEF R
  <2>2. \A n \in 0..size : n \in S /\ n < size => n + 1 \in S
    BY <1>1, <1>2, <1>4 DEF Widened
  <2>3. size \in S
    <3> HIDE DEF S
    <3> QED
      BY <1>1, <2>1, <2>2, UpTo
  <2> QED
    BY <2>3
<1>7. ASSUME NEW E \in SUBSET R, A \subseteq E, Pulled(l, v, E) \subseteq E
      PROVE  g[size] \subseteq E
  <2> DEFINE S == {n \in 0..size : g[n] \subseteq E}
  <2>1. 0 \in S
    BY <1>1, <1>5, <1>7
  <2>2. \A D : D \subseteq E => Pulled(l, v, D) \subseteq Pulled(l, v, E)
    BY DEF Pulled
  <2>3. \A n \in 0..size : n \in S /\ n < size => n + 1 \in S
    BY <1>1, <1>4, <1>7, <2>2 DEF Widened
  <2>4. size \in S
    <3> HIDE DEF S
    <3> QED
      BY <1>1, <2>1, <2>3, UpTo
  <2> QED
    BY <2>4
<1>8. Pulled(l, v, g[size]) \subseteq g[size]
  <2> DEFINE S == {n \in 0..size : g[n] \subseteq R /\ (Pulled(l, v, g[n]) \subseteq g[n] \/ n <= Cardinality(g[n]))}
  <2>1. 0 \in S
    <3>1. IsFiniteSet(A)
      BY <1>1, FS_Subset DEF R
    <3>2. Cardinality(A) \in Nat
      BY <3>1, FS_CardinalityType
    <3> QED
      BY <1>1, <1>5, <3>2 DEF R
  <2>2. ASSUME NEW n \in 0..size, n \in S, n < size
        PROVE  n + 1 \in S
    <3>1. n + 1 \in 0..size /\ g[n + 1] = Widened(l, v, g[n])
      BY <1>1, <1>4, <2>2
    <3>2. g[n + 1] \subseteq R /\ g[n] \subseteq g[n + 1]
      BY <1>2, <2>2, <3>1 DEF Widened
    <3>3. CASE Pulled(l, v, g[n]) \subseteq g[n]
      <4>1. g[n + 1] = g[n]
        BY <3>1, <3>3 DEF Widened
      <4> QED
        BY <2>2, <3>1, <3>3, <4>1
    <3>4. CASE ~(Pulled(l, v, g[n]) \subseteq g[n])
      <4>1. g[n + 1] # g[n]
        BY <3>1, <3>4 DEF Widened
      <4>2. IsFiniteSet(g[n + 1]) /\ IsFiniteSet(g[n])
        BY <1>1, <2>2, <3>2, FS_Subset
      <4>3. Cardinality(g[n + 1]) \in Nat /\ Cardinality(g[n]) \in Nat
        BY <4>2, FS_CardinalityType
      <4>4. Cardinality(g[n]) <= Cardinality(g[n + 1]) /\ Cardinality(g[n]) # Cardinality(g[n + 1])
        BY <3>2, <4>1, <4>2, FS_Subset
      <4>5. n <= Cardinality(g[n])
        BY <2>2, <3>4
      <4>6. n + 1 <= Cardinality(g[n + 1])
        BY <4>3, <4>4, <4>5
      <4> QED
        BY <3>1, <3>2, <4>6
    <3> QED
      BY <3>3, <3>4
  <2>3. size \in S
    <3> HIDE DEF S
    <3> QED
      BY <1>1, <2>1, <2>2, UpTo
  <2>4. CASE size <= Cardinality(g[size])
    <3>1. Cardinality(g[size]) <= size /\ (size = Cardinality(g[size]) => R = g[size])
      BY <1>1, <1>6, FS_Subset
    <3>2. Cardinality(g[size]) \in Nat
      BY <1>1, <1>6, FS_Subset, FS_CardinalityType
    <3> QED
      BY <1>1, <1>2, <2>4, <3>1, <3>2
  <2> QED
    BY <2>3, <2>4
<1> QED
  BY <1>6, <1>7, <1>8 DEF IsClosure, R

(* The rows the call c was made for.                                       *)
Called(l, call, v) == {call.table} \X Hits(l, v, call.table, call.filter)

(* Doomed is what IsClosure says.                                          *)
LEMMA DoomedIs ==
  ASSUME TypeOK, NEW c \in Clients, IsDelete(c), NEW v, IsFiniteSet(Tables), IsFiniteSet(Keys)
  PROVE  IsClosure(load, v, Called(load, Call(c), v), Doomed(v, c))
<1> DEFINE size == Cardinality(Tables) * Cardinality(Keys)
           A == Called(load, Call(c), v)
           reach[n \in 0..size] ==
             IF n = 0 THEN {Call(c).table} \X Matching(v, Call(c).table, Call(c).filter)
             ELSE Cascaded(v, reach[n - 1])
<1>1. Doomed(v, c) = reach[size]
  BY DEF Doomed
<1>2. size \in Nat
  BY FS_CardinalityType
<1>3. {Call(c).table} \X Matching(v, Call(c).table, Call(c).filter) = A
  BY LoadFacts DEF Called
<1>4. \A D : Cascaded(v, D) = Widened(load, v, D)
  BY DEF Cascaded, Widened, Pulled, Chi, Par, Fks
<1>5. reach = CHOOSE g : Reaches(load, v, A, size, g)
  BY <1>3, <1>4 DEF Reaches
<1>6. Reaches(load, v, A, size, reach)
  <2> HIDE DEF reach, size, A
  <2> QED
    BY <1>2, <1>5, ReachExists
<1>7. A \in SUBSET (Tables \X Keys)
  <2>1. CallOK(load, Call(c))
    BY LoadFacts
  <2> QED
    BY <2>1 DEF CallOK, IsDelete, Called, Hits, Live
<1> QED
  <2> HIDE DEF reach, size, A
  <2>1. IsClosure(load, v, A, reach[size])
    BY <1>6, <1>7, ReachCloses DEF size
  <2> QED
    BY <1>1, <2>1 DEF A

(* Row k of t, if it is still there, is as it was in b, but for setNull    *)
(* references to rows in D.                                                *)
RowKept(l, b, v, D, t, k) ==
  /\ b[t][k] # NoRow
  /\ \A f \in DOMAIN l.fks :
       \/ v[t][k][f] = b[t][k][f]
       \/ /\ v[t][k][f] = Null /\ Chi(l, f) = t /\ l.fks[f].action = "setNull"
          /\ <<Par(l, f), b[t][k][f]>> \in D

(* A delete of D, begun with b, has not gone further than it may.          *)
Within(l, b, v, D) ==
  \A t \in Tables, k \in Keys :
    IF v[t][k] = NoRow THEN b[t][k] = NoRow \/ <<t, k>> \in D ELSE RowKept(l, b, v, D, t, k)

(* The stack of a call that began with b and deletes D.                    *)
Follows(l, call, s, b, v, D) ==
  /\ \A i \in 1..Len(s) :
       /\ \A k \in s[i].records : <<s[i].table, k>> \in D
       /\ \A f \in s[i].restrict : l.fks[f].action = "restrict"
       /\ i > 1 => /\ Par(l, s[i].filter.fk) = s[i - 1].table
                   /\ l.fks[s[i].filter.fk].action = "cascade"
  /\ s[1].table = call.table
  /\ \/ s[1].filter = call.filter
     \/ call.filter.by = "some" /\ s[1].filter = ByKeys(Hits(l, b, call.table, call.filter))
  /\ s[1].filter.by = "some" => v = b

(* The rows that are missing from b.                                       *)
Missing(b) == {x \in Tables \X Keys : b[x[1]][x[2]] = NoRow}

(* What a delete of D leaves of b, and whether it may.                     *)
Remains(l, b, D) ==
  [t \in Tables |-> [k \in Keys |->
     IF b[t][k] = NoRow \/ <<t, k>> \in D THEN NoRow
     ELSE [f \in DOMAIN l.fks |->
             IF Chi(l, f) = t /\ l.fks[f].action = "setNull" /\ <<Par(l, f), b[t][k][f]>> \in D
             THEN Null ELSE b[t][k][f]]]]
Blocked(l, b, D) ==
  \E f \in DOMAIN l.fks : l.fks[f].action = "restrict" /\
    \E k \in Live(b, Chi(l, f)) : <<Par(l, f), b[Chi(l, f)][k][f]>> \in D
ClearedBy(l, call, D) ==
  /\ call.filter.by = "ref" /\ l.fks[call.filter.fk].action = "setNull"
  /\ \E k \in call.filter.keys : <<Par(l, call.filter.fk), k>> \in D

(* A delete that nobody has disturbed: it began with b, is at p with the   *)
(* outcome o and the stack s, and reads v; D are the rows it is to delete. *)
OnCourse(l, call, p, o, s, b, v) ==
  /\ p = "cascade" => CascadeOK(l, s, v, Missing(b)) /\ Covered(l, v, Missing(b), Hand(l, s))
  /\ \A D \in SUBSET (Tables \X Keys) : IsClosure(l, b, Called(l, call, b), D) =>
       /\ p = "cascade" => Within(l, b, v, D) /\ Follows(l, call, s, b, v, D)
       /\ p = "finish" =>
            /\ o = "ok" /\ ~ClearedBy(l, call, D) => v = Remains(l, b, D)
            /\ o = "conflict" => Blocked(l, b, D)

ExactInv ==
  \A c \in Clients : IsDelete(c) /\ Active(c) /\ ~overlapped[c] =>
    /\ realTx => db = start[c] /\ tx[c].snapshot = start[c]
    /\ OnCourse(load, Call(c), pc[c], outcome[c], stack[c], start[c], View(c))

-----------------------------------------------------------------------------
(* A delete that nobody disturbs                                           *)

(* A row that is still there and references p with a foreign key that is   *)
(* not setNull, or with p a key, did so from the start.                    *)
LEMMA KeptPoints ==
  ASSUME NEW l \in Workloads, NEW b, NEW v, NEW D, Within(l, b, v, D),
         NEW f \in DOMAIN l.fks, NEW k \in Keys, NEW p \in Keys, Points(l, v, f, k, p)
  PROVE  Points(l, b, f, k, p)
<1>1. Chi(l, f) \in Tables /\ v[Chi(l, f)][k] # NoRow /\ v[Chi(l, f)][k][f] = p /\ p # Null
  BY FkFacts, NullAssumption DEF Points
<1>2. RowKept(l, b, v, D, Chi(l, f), k)
  BY <1>1 DEF Within
<1> QED
  BY <1>1, <1>2 DEF RowKept, Points

(* A row of the closure that references D over a cascade is in D.          *)
LEMMA ClosureCloses ==
  ASSUME NEW l \in Workloads, NEW b, NEW A, NEW D, IsClosure(l, b, A, D),
         NEW f \in DOMAIN l.fks, l.fks[f].action = "cascade",
         NEW k \in Keys, NEW p, Points(l, b, f, k, p), <<Par(l, f), p>> \in D
  PROVE  <<Chi(l, f), k>> \in D
<1>1. Chi(l, f) \in Tables
  BY FkFacts
<1>2. <<Chi(l, f), k>> \in Pulled(l, b, D)
  BY <1>1 DEF Pulled, Points
<1> QED
  BY <1>2 DEF IsClosure

(* What the frames of such a delete find is to be deleted.                 *)
LEMMA HitsDoomed ==
  ASSUME NEW l \in Workloads, NEW call, CallOK(l, call), call.op = "delete",
         NEW s \in Stacks(l), FramesOK(l, s), NEW b, NEW v, NEW D,
         Within(l, b, v, D), Follows(l, call, s, b, v, D), IsClosure(l, b, Called(l, call, b), D),
         NEW i \in 1..Len(s), NEW k \in Hits(l, v, s[i].table, s[i].filter)
  PROVE  <<s[i].table, k>> \in D
<1> DEFINE t == s[i].table
           filter == s[i].filter
<1>1. t \in Tables /\ filter \in Filters /\ s[i].records \subseteq Keys
  BY FrameFacts
<1>2. k \in Keys /\ v[t][k] # NoRow /\ RowKept(l, b, v, D, t, k)
  BY <1>1 DEF Hits, Live, Within
<1>3. CASE i = 1
  <2>1. t = call.table /\ call.table \in Tables /\ call.filter \in Filters
    BY <1>3 DEF Follows, CallOK
  <2>2. SUFFICES k \in Hits(l, b, call.table, call.filter)
    BY <2>1 DEF Called, IsClosure
  <2>3. CASE filter = ByKeys(Hits(l, b, call.table, call.filter))
    <3>1. filter.by = "keys" /\ filter.keys = Hits(l, b, call.table, call.filter)
      BY <2>3 DEF ByKeys
    <3>2. k \in filter.keys
      BY <3>1 DEF Hits
    <3> QED
      BY <3>1, <3>2
  <2>4. CASE filter.by = "some" /\ filter = call.filter
    <3>1. v = b
      BY <1>3, <2>4 DEF Follows
    <3> QED
      BY <2>1, <2>4, <3>1
  <2>5. CASE filter.by = "keys" /\ filter = call.filter
    BY <1>2, <2>1, <2>5 DEF Hits, Live, RowKept
  <2>6. CASE filter.by = "ref" /\ filter = call.filter
    <3>1. filter.fk \in DOMAIN l.fks /\ Chi(l, filter.fk) = t
      BY <2>1, <2>6 DEF CallOK, Chi
    <3>2. filter.keys \subseteq Keys
      BY <1>1 DEF Filters
    <3>3. Points(l, v, filter.fk, k, v[t][k][filter.fk]) /\ v[t][k][filter.fk] \in filter.keys
      BY <1>2, <2>6, <3>1 DEF Hits, Points
    <3>4. Points(l, b, filter.fk, k, v[t][k][filter.fk])
      BY <1>2, <3>1, <3>2, <3>3, KeptPoints
    <3> QED
      BY <1>2, <2>1, <2>6, <3>1, <3>3, <3>4 DEF Hits, Live, Points
  <2>7. filter = call.filter \/ filter = ByKeys(Hits(l, b, call.table, call.filter))
    BY <1>3 DEF Follows
  <2>8. filter.by \in {"keys", "ref", "some"}
    BY <1>1 DEF Filters
  <2> QED
    BY <2>3, <2>4, <2>5, <2>6, <2>7, <2>8
<1>4. CASE i # 1
  <2>1. i - 1 \in 1..Len(s) /\ i - 1 < Len(s) /\ (i - 1) + 1 = i /\ i > 1
    BY <1>4 DEF Stacks
  <2>2. filter.by = "ref" /\ filter.keys = s[i - 1].records
    BY <2>1 DEF FramesOK
  <2>3. filter.fk \in DOMAIN l.fks /\ Chi(l, filter.fk) = t
    BY <2>2 DEF FramesOK
  <2>4. Par(l, filter.fk) = s[i - 1].table /\ l.fks[filter.fk].action = "cascade"
    BY <2>1 DEF Follows
  <2>5. PICK p \in s[i - 1].records : v[t][k][filter.fk] = p
    BY <2>2 DEF Hits
  <2>6. p \in Keys /\ <<Par(l, filter.fk), p>> \in D
    BY <2>1, <2>4, <2>5, FrameFacts DEF Follows
  <2>7. Points(l, v, filter.fk, k, p)
    BY <1>2, <2>3, <2>5 DEF Points
  <2>8. Points(l, b, filter.fk, k, p)
    BY <1>2, <2>3, <2>6, <2>7, KeptPoints
  <2> QED
    BY <1>2, <2>3, <2>4, <2>6, <2>8, ClosureCloses
<1> QED
  BY <1>3, <1>4

(* Removing rows of D, and clearing setNull references to them, goes no    *)
(* further than the delete may.                                            *)
LEMMA WithinWithout ==
  ASSUME NEW l \in Workloads, NEW b, NEW v \in DBs(l), NEW D, Within(l, b, v, D),
         NEW t \in Tables, NEW S, \A k \in S : <<t, k>> \in D
  PROVE  Within(l, b, Without(v, t, S), D)
<1> DEFINE w == Without(v, t, S)
<1>1. \A u \in Tables, k \in Keys : w[u][k] = IF u = t /\ k \in S THEN NoRow ELSE v[u][k]
  BY WithoutShrinks
<1> HIDE DEF w
<1>2. ASSUME NEW u \in Tables, NEW k \in Keys
      PROVE  IF w[u][k] = NoRow THEN b[u][k] = NoRow \/ <<u, k>> \in D ELSE RowKept(l, b, w, D, u, k)
  <2>1. CASE u = t /\ k \in S
    BY <1>1, <2>1
  <2>2. CASE ~(u = t /\ k \in S)
    <3>1. w[u][k] = v[u][k]
      BY <1>1, <2>2
    <3> QED
      BY <3>1 DEF Within, RowKept
  <2> QED
    BY <2>1, <2>2
<1>3. Within(l, b, w, D)
  BY <1>2 DEF Within
<1> QED
  BY <1>3 DEF w

LEMMA WithinCleared ==
  ASSUME NEW l \in Workloads, NEW b, NEW v \in DBs(l), NEW D, Within(l, b, v, D),
         NEW f \in DOMAIN l.fks, l.fks[f].action = "setNull",
         NEW S \in SUBSET Live(v, Chi(l, f)),
         \A k \in S : <<Par(l, f), v[Chi(l, f)][k][f]>> \in D /\ v[Chi(l, f)][k][f] # Null
  PROVE  Within(l, b, WithRef(v, Chi(l, f), S, f, Null), D)
<1> DEFINE t == Chi(l, f)
           w == WithRef(v, t, S, f, Null)
<1>1. t \in Tables
  BY FkFacts
<1>2. /\ v \in [Tables -> [Keys -> StoredRows(l) \cup {NoRow}]] /\ S \subseteq Keys
      /\ NoRow \notin StoredRows(l)
  BY WorkloadsAssumption DEF DBs, Live
<1>3. \A u \in Tables, k \in Keys :
        w[u][k] = IF u = t /\ k \in S THEN [v[t][k] EXCEPT ![f] = Null] ELSE v[u][k]
  BY <1>1, <1>2 DEF WithRef
<1> HIDE DEF w
<1>4. ASSUME NEW u \in Tables, NEW k \in Keys
      PROVE  IF w[u][k] = NoRow THEN b[u][k] = NoRow \/ <<u, k>> \in D ELSE RowKept(l, b, w, D, u, k)
  <2>1. CASE u = t /\ k \in S
    <3>1. v[t][k] \in StoredRows(l) /\ v[t][k] # NoRow
      BY <1>1, <1>2, <2>1 DEF Live
    <3>2. DOMAIN v[t][k] = DOMAIN l.fks /\ w[t][k] = [v[t][k] EXCEPT ![f] = Null]
      BY <1>1, <1>3, <2>1, <3>1 DEF StoredRows
    <3>3. \A g \in DOMAIN l.fks : w[t][k][g] = IF g = f THEN Null ELSE v[t][k][g]
      BY <3>2
    <3>4. RowKept(l, b, v, D, t, k)
      BY <1>1, <2>1, <3>1 DEF Within
    <3>5. v[t][k][f] = b[t][k][f] /\ <<Par(l, f), b[t][k][f]>> \in D
      BY <2>1, <3>4 DEF RowKept
    <3>6. RowKept(l, b, w, D, t, k)
      BY <3>3, <3>4, <3>5 DEF RowKept
    <3>7. w[t][k] # NoRow
      <4>1. w[t][k] \in StoredRows(l)
        BY <3>1, <3>2 DEF StoredRows
      <4> QED
        BY <1>2, <4>1
    <3> QED
      BY <2>1, <3>6, <3>7
  <2>2. CASE ~(u = t /\ k \in S)
    <3>1. w[u][k] = v[u][k]
      BY <1>3, <2>2
    <3> QED
      BY <3>1 DEF Within, RowKept
  <2> QED
    BY <2>1, <2>2
<1>5. Within(l, b, w, D)
  BY <1>4 DEF Within
<1> QED
  BY <1>5 DEF w

(* The top of the stack is replaced, with the database going from v to w.  *)
LEMMA FollowsTop ==
  ASSUME NEW l \in Workloads, NEW call, NEW s \in Stacks(l), s # <<>>, FramesOK(l, s),
         NEW b, NEW v, NEW D, Follows(l, call, s, b, v, D),
         NEW fr \in FrameSet(l), fr.table = s[Len(s)].table,
         \A k \in fr.records : <<fr.table, k>> \in D,
         \A f \in fr.restrict : l.fks[f].action = "restrict",
         \/ fr.filter = s[Len(s)].filter
         \/ /\ s[Len(s)].filter.by = "some"
            /\ fr.filter = ByKeys(Hits(l, v, fr.table, s[Len(s)].filter)),
         NEW w, s[1].filter.by = "some" => w = v
  PROVE  Follows(l, call, [s EXCEPT ![Len(s)] = fr], b, w, D)
<1> DEFINE n == Len(s)
           r == [s EXCEPT ![n] = fr]
<1>1. /\ n \in Nat \ {0} /\ Len(r) = n /\ n \in 1..n /\ 1 \in 1..n
      /\ r[n] = fr /\ \A i \in 1..n : i # n => r[i] = s[i]
  BY ReplaceTop DEF Stacks
<1> HIDE DEF r
<1>2. \A i \in 1..n : r[i].table = s[i].table
  BY <1>1
<1>3. ASSUME NEW i \in 1..n, i > 1
      PROVE  r[i].filter = s[i].filter /\ i - 1 \in 1..n
  <2>1. i - 1 \in 1..n /\ i - 1 < Len(s) /\ (i - 1) + 1 = i
    BY <1>1, <1>3
  <2>2. s[i].filter.by = "ref"
    BY <2>1 DEF FramesOK
  <2> QED
    BY <1>1, <2>1, <2>2
<1>4. ASSUME NEW i \in 1..n
      PROVE  /\ \A k \in r[i].records : <<r[i].table, k>> \in D
             /\ \A f \in r[i].restrict : l.fks[f].action = "restrict"
             /\ i > 1 => /\ Par(l, r[i].filter.fk) = r[i - 1].table
                         /\ l.fks[r[i].filter.fk].action = "cascade"
  <2>1. /\ \A k \in r[i].records : <<r[i].table, k>> \in D
        /\ \A f \in r[i].restrict : l.fks[f].action = "restrict"
    BY <1>1 DEF Follows
  <2>2. CASE i > 1
    <3>1. r[i].filter = s[i].filter /\ i - 1 \in 1..n
      BY <1>3, <2>2
    <3>2. Par(l, s[i].filter.fk) = s[i - 1].table /\ l.fks[s[i].filter.fk].action = "cascade"
      BY <2>2 DEF Follows
    <3> QED
      BY <1>2, <2>1, <3>1, <3>2
  <2> QED
    BY <2>1, <2>2
<1>5. r[1].table = call.table
  BY <1>1, <1>2 DEF Follows
<1>6. /\ \/ r[1].filter = call.filter
         \/ call.filter.by = "some" /\ r[1].filter = ByKeys(Hits(l, b, call.table, call.filter))
      /\ r[1].filter.by = "some" => w = b
  <2>1. CASE r[1].filter = s[1].filter
    BY <2>1 DEF Follows
  <2>2. CASE r[1].filter # s[1].filter
    <3>1. n = 1 /\ s[1].filter.by = "some" /\ r[1].filter = ByKeys(Hits(l, v, s[1].table, s[1].filter))
      BY <1>1, <2>2
    <3>2. v = b /\ s[1].table = call.table
      BY <3>1 DEF Follows
    <3>3. s[1].filter = call.filter
      BY <3>1 DEF Follows, ByKeys
    <3>4. r[1].filter.by # "some"
      BY <3>1 DEF ByKeys
    <3> QED
      BY <3>1, <3>2, <3>3, <3>4
  <2> QED
    BY <2>1, <2>2
<1>7. Follows(l, call, r, b, w, D)
  BY <1>1, <1>4, <1>5, <1>6 DEF Follows
<1> QED
  BY <1>7 DEF r

(* A cascade is called.                                                    *)
LEMMA FollowsAppend ==
  ASSUME NEW l \in Workloads, NEW call, NEW s \in Stacks(l), s # <<>>,
         NEW b, NEW v, NEW D, Follows(l, call, s, b, v, D),
         NEW f, Par(l, f) = s[Len(s)].table, l.fks[f].action = "cascade",
         NEW next \in FrameSet(l), next.filter.fk = f, next.records = {}, next.restrict = {}
  PROVE  Follows(l, call, Append(s, next), b, v, D)
<1> DEFINE n == Len(s)
           r == Append(s, next)
<1>1. /\ n \in Nat \ {0} /\ Len(r) = n + 1 /\ r[n + 1] = next
      /\ \A i \in 1..n : r[i] = s[i]
  BY AppendTop DEF Stacks
<1> HIDE DEF r
<1>2. ASSUME NEW i \in 1..n + 1
      PROVE  /\ \A k \in r[i].records : <<r[i].table, k>> \in D
             /\ \A g \in r[i].restrict : l.fks[g].action = "restrict"
             /\ i > 1 => /\ Par(l, r[i].filter.fk) = r[i - 1].table
                         /\ l.fks[r[i].filter.fk].action = "cascade"
  <2>1. CASE i = n + 1
    <3>1. r[i] = next /\ r[i - 1] = s[n]
      BY <1>1, <2>1
    <3> QED
      BY <3>1
  <2>2. CASE i # n + 1
    <3>1. i \in 1..n /\ (i > 1 => i - 1 \in 1..n)
      BY <1>1, <2>2
    <3> QED
      BY <1>1, <3>1 DEF Follows
  <2> QED
    BY <2>1, <2>2
<1>3. r[1] = s[1]
  BY <1>1
<1>4. Follows(l, call, r, b, v, D)
  BY <1>1, <1>2, <1>3 DEF Follows
<1> QED
  BY <1>4 DEF r

(* The top of the stack returns.                                           *)
LEMMA FollowsFront ==
  ASSUME NEW l \in Workloads, NEW call, NEW s \in Stacks(l), Len(s) > 1,
         NEW b, NEW v, NEW D, Follows(l, call, s, b, v, D),
         NEW w, s[1].filter.by = "some" => w = v
  PROVE  Follows(l, call, Front(s), b, w, D)
<1> DEFINE r == Front(s)
<1>1. /\ Len(s) \in Nat /\ Len(s) > 1 /\ Len(r) = Len(s) - 1
      /\ \A i \in 1..Len(s) - 1 : r[i] = s[i]
  <2>1. s \in Seq(FrameSet(l)) /\ Len(s) \in Nat /\ Len(s) > 1
    BY DEF Stacks
  <2>2. s # <<>>
    <3>1. Len(<<>>) = 0
      OBVIOUS
    <3> QED
      BY <2>1, <3>1
  <2> QED
    BY <2>1, <2>2, FrontFacts
<1> HIDE DEF r
<1>2. ASSUME NEW i \in 1..Len(r)
      PROVE  /\ \A k \in r[i].records : <<r[i].table, k>> \in D
             /\ \A g \in r[i].restrict : l.fks[g].action = "restrict"
             /\ i > 1 => /\ Par(l, r[i].filter.fk) = r[i - 1].table
                         /\ l.fks[r[i].filter.fk].action = "cascade"
  <2>1. i \in 1..Len(s) /\ r[i] = s[i] /\ (i > 1 => r[i - 1] = s[i - 1])
    BY <1>1
  <2> QED
    BY <2>1 DEF Follows
<1>3. r[1] = s[1]
  BY <1>1
<1>4. Follows(l, call, r, b, w, D)
  BY <1>2, <1>3 DEF Follows
<1> QED
  BY <1>4 DEF r

(* A relational filter that is not pinned is that of a table nothing       *)
(* references.                                                             *)
LEMMA NotPinned ==
  ASSUME NEW l \in Workloads, NEW call, NEW s \in Stacks(l), s # <<>>, FramesOK(l, s),
         NEW b, NEW v, NEW D, Follows(l, call, s, b, v, D),
         s[1].filter.by = "some", s[1].entered
  PROVE  Len(s) = 1 /\ s[1].left = {} /\ s[1].restrict = {}
<1>1. Len(s) \in Nat \ {0} /\ 1 \in 1..Len(s)
  BY DEF Stacks
<1>2. \A f \in DOMAIN l.fks : Par(l, f) # s[1].table
  BY <1>1 DEF FramesOK
<1>3. s[1].left = {} /\ s[1].restrict = {}
  <2>1. \A f \in s[1].left \cup s[1].restrict : f \in DOMAIN l.fks /\ Par(l, f) = s[1].table
    BY <1>1, FrameFacts DEF FramesOK
  <2> QED
    BY <1>2, <2>1
<1>4. CASE Len(s) > 1
  <2>1. 2 \in 1..Len(s) /\ 1 < Len(s) /\ 1 + 1 = 2 /\ 2 - 1 = 1 /\ 2 > 1
    BY <1>4, <1>1
  <2>2. s[2].filter.by = "ref"
    BY <1>1, <2>1 DEF FramesOK
  <2>3. s[2].filter.fk \in DOMAIN l.fks
    BY <2>1, <2>2 DEF FramesOK
  <2>4. Par(l, s[2].filter.fk) = s[1].table
    BY <2>1 DEF Follows
  <2> QED
    BY <1>2, <2>3, <2>4
<1> QED
  BY <1>1, <1>3, <1>4

(* The rows that are gone when the root deletes are D, and nothing else is *)
(* left of them.                                                           *)
LEMMA LastDelete ==
  ASSUME NEW l \in Workloads, NEW call, CallOK(l, call), call.op = "delete",
         NEW s \in Stacks(l), Len(s) = 1, s[1].entered, s[1].left = {}, s[1].restrict = {},
         NEW b \in DBs(l), NEW v \in DBs(l), NEW D, CascadeOK(l, s, v, Missing(b)),
         Covered(l, v, Missing(b), Hand(l, s)), Within(l, b, v, D), Follows(l, call, s, b, v, D),
         IsClosure(l, b, Called(l, call, b), D), ~ClearedBy(l, call, D),
         NEW w, w = Without(v, s[1].table, Hits(l, v, s[1].table, s[1].filter))
  PROVE  w = Remains(l, b, D)
<1> DEFINE t == s[1].table
           filter == s[1].filter
           hits == Hits(l, v, t, filter)
           G == {x \in Tables \X Keys : b[x[1]][x[2]] # NoRow /\ w[x[1]][x[2]] = NoRow}
<1>1. s # <<>> /\ 1 \in 1..Len(s) /\ t \in Tables /\ filter \in Filters /\ FramesOK(l, s)
  BY FrameFacts DEF CascadeOK
<1>2. /\ w \in DBs(l)
      /\ \A u \in Tables, k \in Keys : w[u][k] = IF u = t /\ k \in hits THEN NoRow ELSE v[u][k]
  BY <1>1, WithoutShrinks
<1>3. t = call.table /\ call.table \in Tables /\ call.filter \in Filters
  BY <1>1 DEF Follows, CallOK
<1>4. \A k \in hits : <<t, k>> \in D
  BY <1>1, HitsDoomed
<1>5. Within(l, b, w, D)
  BY <1>1, <1>4, WithinWithout
<1>6. Covered(l, w, Missing(b), {})
  <2>1. Moves(l, s, v, Front(s), w, Missing(b))
    BY <1>1, DeleteStep
  <2>2. Hand(l, Front(s)) = {}
    <3>1. Len(Front(s)) = 0
      BY <1>1, FrontFacts DEF Stacks
    <3> QED
      BY <3>1 DEF Hand
  <2>3. Covered(l, v, Missing(b), {} \cup Hand(l, s)) => Covered(l, w, Missing(b), {} \cup Hand(l, Front(s)))
    BY <2>1 DEF Moves
  <2>4. {} \cup Hand(l, s) = Hand(l, s) /\ {} \cup Hand(l, Front(s)) = {}
    BY <2>2
  <2> QED
    BY <2>3, <2>4
<1> HIDE DEF hits, G
<1>7. G \subseteq D
  <2> SUFFICES ASSUME NEW x \in G
               PROVE  x \in D
    OBVIOUS
  <2>1. x[1] \in Tables /\ x[2] \in Keys /\ x = <<x[1], x[2]>>
        /\ b[x[1]][x[2]] # NoRow /\ w[x[1]][x[2]] = NoRow
    BY DEF G
  <2> QED
    BY <1>5, <2>1 DEF Within
<1>8. \A u \in Tables, k \in Keys : b[u][k] # NoRow /\ <<u, k>> \notin G =>
        w[u][k] # NoRow /\ RowKept(l, b, w, D, u, k)
  BY <1>5 DEF G, Within
<1>9. Called(l, call, b) \subseteq G
  <2> SUFFICES ASSUME NEW k \in Hits(l, b, call.table, call.filter), <<t, k>> \notin G
               PROVE  FALSE
    BY <1>3 DEF Called
  <2>1. k \in Keys /\ b[t][k] # NoRow
    BY <1>3 DEF Hits, Live
  <2>2. w[t][k] # NoRow /\ RowKept(l, b, w, D, t, k)
    BY <1>1, <1>8, <2>1
  <2>3. k \notin hits /\ w[t][k] = v[t][k]
    BY <1>1, <1>2, <2>1, <2>2
  <2>4. CASE filter = ByKeys(Hits(l, b, call.table, call.filter))
    <3>1. filter.by = "keys" /\ k \in filter.keys
      BY <2>4 DEF ByKeys
    <3> QED
      BY <2>1, <2>2, <2>3, <3>1 DEF hits, Hits, Live
  <2>5. CASE filter = call.filter
    <3>1. CASE filter.by = "some"
      <4>1. v = b
        BY <3>1 DEF Follows
      <4> QED
        BY <1>3, <2>3, <2>5, <4>1 DEF hits
    <3>2. CASE filter.by = "keys"
      <4>1. k \in filter.keys
        BY <2>5, <3>2 DEF Hits
      <4> QED
        BY <2>1, <2>2, <2>3, <3>2, <4>1 DEF hits, Hits, Live
    <3>3. CASE filter.by = "ref"
      <4>1. filter.fk \in DOMAIN l.fks /\ Chi(l, filter.fk) = t
        BY <1>3, <2>5, <3>3 DEF CallOK, Chi
      <4>2. b[t][k][filter.fk] \in filter.keys
        BY <1>3, <2>5, <3>3 DEF Hits
      <4>3. v[t][k][filter.fk] \notin filter.keys
        BY <2>1, <2>2, <2>3, <3>3 DEF hits, Hits, Live
      <4>4. l.fks[filter.fk].action = "setNull" /\ <<Par(l, filter.fk), b[t][k][filter.fk]>> \in D
        BY <2>2, <2>3, <4>1, <4>2, <4>3 DEF RowKept
      <4> QED
        BY <2>5, <3>3, <4>2, <4>4 DEF ClearedBy
    <3> QED
      BY <1>1, <3>1, <3>2, <3>3 DEF Filters
  <2> QED
    BY <2>4, <2>5 DEF Follows
<1>10. ASSUME NEW f \in Tracked(l), NEW k \in Keys, NEW p, <<Par(l, f), p>> \in G,
              Points(l, b, f, k, p), <<Chi(l, f), k>> \notin G
       PROVE  l.fks[f].action = "setNull" /\ w[Chi(l, f)][k][f] = Null
  <2>1. p \in Keys /\ b[Par(l, f)][p] # NoRow /\ w[Par(l, f)][p] = NoRow /\ Par(l, f) \in Tables
    BY <1>10 DEF G
  <2>2. f \in DOMAIN l.fks /\ Chi(l, f) \in Tables
    BY TrackedFacts
  <2>3. b[Chi(l, f)][k] # NoRow /\ b[Chi(l, f)][k][f] = p
    BY <1>10 DEF Points
  <2>4. w[Chi(l, f)][k] # NoRow /\ RowKept(l, b, w, D, Chi(l, f), k)
    BY <1>8, <1>10, <2>2, <2>3
  <2>5. ~Points(l, w, f, k, p)
    <3>1. <<Chi(l, f), k>> \notin Missing(b) /\ <<Par(l, f), p>> \notin Missing(b)
      BY <2>1, <2>3 DEF Missing
    <3> QED
      BY <1>6, <2>1, <3>1 DEF Covered
  <2>6. w[Chi(l, f)][k][f] # b[Chi(l, f)][k][f]
    BY <2>3, <2>4, <2>5 DEF Points
  <2> QED
    BY <2>2, <2>4, <2>6 DEF RowKept
<1>11. Pulled(l, b, G) \subseteq G
  <2> SUFFICES ASSUME NEW x \in Pulled(l, b, G), x \notin G
               PROVE  FALSE
    OBVIOUS
  <2>1. x[1] \in Tables /\ x[2] \in Keys /\ x = <<x[1], x[2]>> /\ b[x[1]][x[2]] # NoRow
    BY DEF Pulled
  <2>2. PICK f \in DOMAIN l.fks : /\ Chi(l, f) = x[1] /\ l.fks[f].action = "cascade"
                                  /\ <<Par(l, f), b[x[1]][x[2]][f]>> \in G
    BY DEF Pulled
  <2>3. f \in Tracked(l) /\ Points(l, b, f, x[2], b[x[1]][x[2]][f]) /\ <<Chi(l, f), x[2]>> \notin G
    BY <2>1, <2>2 DEF Tracked, Points
  <2>4. l.fks[f].action = "setNull"
    BY <1>10, <2>1, <2>2, <2>3
  <2> QED
    BY <2>2, <2>4
<1>12. G = D
  <2>1. G \in SUBSET (Tables \X Keys)
    BY DEF G
  <2> QED
    BY <1>7, <1>9, <1>11, <2>1 DEF IsClosure
<1>13. ASSUME NEW u \in Tables, NEW k \in Keys
       PROVE  w[u][k] = Remains(l, b, D)[u][k]
  <2>1. Remains(l, b, D)[u][k] =
          IF b[u][k] = NoRow \/ <<u, k>> \in D THEN NoRow
          ELSE [f \in DOMAIN l.fks |->
                  IF Chi(l, f) = u /\ l.fks[f].action = "setNull" /\ <<Par(l, f), b[u][k][f]>> \in D
                  THEN Null ELSE b[u][k][f]]
    BY DEF Remains
  <2>2. CASE <<u, k>> \in D
    BY <1>12, <2>1, <2>2 DEF G
  <2>3. CASE b[u][k] = NoRow
    BY <1>5, <2>1, <2>3 DEF Within, RowKept
  <2>4. CASE b[u][k] # NoRow /\ <<u, k>> \notin D
    <3>1. w[u][k] # NoRow /\ RowKept(l, b, w, D, u, k)
      BY <1>8, <1>12, <2>4
    <3>2. w[u][k] \in [DOMAIN l.fks -> Keys \cup {Null}]
      BY <1>2, <3>1 DEF DBs, StoredRows
    <3>3. ASSUME NEW f \in DOMAIN l.fks
          PROVE  w[u][k][f] = IF Chi(l, f) = u /\ l.fks[f].action = "setNull" /\ <<Par(l, f), b[u][k][f]>> \in D
                              THEN Null ELSE b[u][k][f]
      <4>1. CASE Chi(l, f) = u /\ l.fks[f].action = "setNull" /\ <<Par(l, f), b[u][k][f]>> \in D
        <5>1. f \in Tracked(l) /\ Points(l, b, f, k, b[u][k][f])
          BY <2>4, <4>1 DEF Tracked, Points
        <5> QED
          BY <1>10, <1>12, <2>4, <4>1, <5>1
      <4>2. CASE ~(Chi(l, f) = u /\ l.fks[f].action = "setNull" /\ <<Par(l, f), b[u][k][f]>> \in D)
        BY <3>1, <4>2 DEF RowKept
      <4> QED
        BY <4>1, <4>2
    <3> QED
      BY <2>1, <2>4, <3>2, <3>3
  <2> QED
    BY <2>2, <2>3, <2>4
<1>14. /\ w \in [Tables -> [Keys -> StoredRows(l) \cup {NoRow}]]
       /\ \A u \in Tables : w[u] \in [Keys -> StoredRows(l) \cup {NoRow}]
  BY <1>2 DEF DBs
<1>15. \A u \in Tables : w[u] = [k \in Keys |-> Remains(l, b, D)[u][k]]
  BY <1>13, <1>14
<1>16. /\ Remains(l, b, D) = [u \in Tables |-> Remains(l, b, D)[u]]
       /\ \A u \in Tables : Remains(l, b, D)[u] = [k \in Keys |-> Remains(l, b, D)[u][k]]
  BY DEF Remains
<1> QED
  BY <1>14, <1>15, <1>16

(* A delete of D, begun with b, in its cascade; a step of it.              *)
Deleting(c, b, D) ==
  /\ IsClosure(load, b, Called(load, Call(c), b), D)
  /\ CascadeOK(load, stack[c], View(c), Missing(b))
  /\ Covered(load, View(c), Missing(b), Hand(load, stack[c]))
  /\ Within(load, b, View(c), D) /\ Follows(load, Call(c), stack[c], b, View(c), D)

GoesOn(c, b, D) ==
  /\ pc'[c] = "cascade" =>
       Within(load, b, View(c)', D) /\ Follows(load, Call(c), stack'[c], b, View(c)', D)
  /\ pc'[c] = "finish" =>
       /\ outcome'[c] = "ok" /\ ~ClearedBy(load, Call(c), D) => View(c)' = Remains(load, b, D)
       /\ outcome'[c] = "conflict" => Blocked(load, b, D)

(* Everything the frames of such a delete find is to be deleted.           *)
LEMMA DeletingFacts ==
  ASSUME TypeOK, NEW c \in Clients, IsDelete(c), pc[c] = "cascade", NEW b, NEW D, Deleting(c, b, D),
         NEW s, s = stack[c], NEW v, v = View(c), NEW call, call = Call(c)
  PROVE  /\ load \in Workloads /\ s \in Stacks(load) /\ s # <<>> /\ Len(s) \in 1..Len(s)
         /\ v \in DBs(load) /\ CallOK(load, call) /\ call.op = "delete"
         /\ FramesOK(load, s) /\ Within(load, b, v, D) /\ Follows(load, call, s, b, v, D)
         /\ IsClosure(load, b, Called(load, call, b), D)
         /\ \A i \in 1..Len(s) : \A k \in Hits(load, v, s[i].table, s[i].filter) : <<s[i].table, k>> \in D
<1>1. /\ load \in Workloads /\ s \in Stacks(load) /\ s # <<>> /\ Len(s) \in 1..Len(s)
      /\ v \in DBs(load) /\ CallOK(load, call) /\ call.op = "delete"
  BY CascadeFacts, LoadFacts DEF IsDelete
<1>2. /\ FramesOK(load, s) /\ Within(load, b, v, D) /\ Follows(load, call, s, b, v, D)
      /\ IsClosure(load, b, Called(load, call, b), D)
  BY DEF Deleting, CascadeOK
<1> QED
  BY <1>1, <1>2, HitsDoomed

(* One step after the other keeps to it.                                   *)
LEMMA EnterExact ==
  ASSUME TypeOK, NEW c \in Clients, IsDelete(c), Enter(c), NEW b, NEW D, Deleting(c, b, D)
  PROVE  GoesOn(c, b, D)
<1> DEFINE s == stack[c]
           v == View(c)
           call == Call(c)
<1>1. CASE Throw(c, "cycle")
  <2>1. pc[c] = "cascade"
    BY DEF Enter
  <2>2. pc'[c] = "finish" /\ outcome'[c] = "cycle"
    BY <1>1, <2>1, ThrowFacts DEF Failed
  <2> QED
    BY <2>2 DEF GoesOn
<1>2. CASE ~Throw(c, "cycle")
  <2>1. pc[c] = "cascade" /\ UNCHANGED <<load, realTx, db, tx, pc, outcome>>
    BY <1>2, FoundFacts
  <2>2. PICK fr \in FrameSet(load) : Entered(load, s, v, fr) /\ stack'[c] = [s EXCEPT ![Len(s)] = fr]
    BY <1>2, FoundFacts
  <2>3. /\ load \in Workloads /\ s \in Stacks(load) /\ s # <<>> /\ Len(s) \in 1..Len(s)
        /\ FramesOK(load, s) /\ Within(load, b, v, D) /\ Follows(load, call, s, b, v, D)
        /\ \A i \in 1..Len(s) : \A k \in Hits(load, v, s[i].table, s[i].filter) : <<s[i].table, k>> \in D
    BY <2>1, DeletingFacts
  <2>4. View(c)' = v
    BY <2>1 DEF View
  <2> HIDE DEF s, v, call
  <2>5. /\ fr.table = s[Len(s)].table
        /\ \A k \in fr.records : <<fr.table, k>> \in D
        /\ \A f \in fr.restrict : load.fks[f].action = "restrict"
        /\ \/ fr.filter = s[Len(s)].filter
           \/ /\ s[Len(s)].filter.by = "some"
              /\ fr.filter = ByKeys(Hits(load, v, fr.table, s[Len(s)].filter))
    BY <2>2, <2>3 DEF Entered
  <2>6. Follows(load, call, [s EXCEPT ![Len(s)] = fr], b, v, D)
    BY <2>3, <2>5, FollowsTop
  <2> QED
    BY <2>1, <2>2, <2>3, <2>4, <2>6 DEF GoesOn, s, v, call
<1> QED
  BY <1>1, <1>2

LEMMA RestrictCheckExact ==
  ASSUME TypeOK, NEW c \in Clients, IsDelete(c), RestrictCheck(c), NEW b, NEW D, Deleting(c, b, D)
  PROVE  GoesOn(c, b, D)
<1> DEFINE s == stack[c]
           n == Len(stack[c])
           v == View(c)
           call == Call(c)
<1>1. pc[c] = "cascade" /\ UNCHANGED <<load, realTx, db, tx>>
  BY RestrictCheckFacts
<1>2. /\ load \in Workloads /\ s \in Stacks(load) /\ s # <<>> /\ n \in 1..Len(s)
      /\ FramesOK(load, s) /\ Within(load, b, v, D) /\ Follows(load, call, s, b, v, D)
  BY <1>1, DeletingFacts
<1>3. PICK f \in s[n].restrict :
        /\ f \in DOMAIN load.fks
        /\ \/ /\ Hits(load, v, Chi(load, f), ByRef(f, s[n].records)) # {}
              /\ Throw(c, "conflict")
           \/ /\ UNCHANGED <<pc, outcome>>
              /\ \E fr \in FrameSet(load) :
                   NoneLeft(load, s, v, f, fr) /\ stack'[c] = [s EXCEPT ![n] = fr]
  BY RestrictCheckFacts
<1>4. CASE Hits(load, v, Chi(load, f), ByRef(f, s[n].records)) # {} /\ Throw(c, "conflict")
  <2>1. PICK k \in Hits(load, v, Chi(load, f), ByRef(f, s[n].records)) : TRUE
    BY <1>4
  <2>2. PICK p \in s[n].records : k \in Keys /\ Points(load, v, f, k, p)
    <3> HIDE DEF s, n, v
    <3> QED
      BY <2>1 DEF Hits, Live, ByRef, Points
  <2>3. load.fks[f].action = "restrict" /\ Par(load, f) = s[n].table /\ <<s[n].table, p>> \in D
    <3> HIDE DEF s, n, v, call
    <3>1. load.fks[f].action = "restrict" /\ <<s[n].table, p>> \in D
      BY <1>2, <1>3 DEF Follows
    <3>2. Par(load, f) = s[n].table
      BY <1>2, <1>3 DEF FramesOK
    <3> QED
      BY <3>1, <3>2
  <2>4. Points(load, b, f, k, p)
    <3>1. p \in Keys
      BY <1>2, <2>2, FrameFacts
    <3> HIDE DEF s, n, v
    <3> QED
      BY <1>2, <1>3, <2>2, <3>1, KeptPoints
  <2>5. Blocked(load, b, D)
    <3> HIDE DEF s, n, v
    <3> QED
      BY <1>3, <2>2, <2>3, <2>4 DEF Blocked, Points, Live
  <2>6. pc'[c] = "finish" /\ outcome'[c] = "conflict"
    BY <1>1, <1>4, ThrowFacts DEF Failed
  <2> QED
    BY <1>1, <2>5, <2>6 DEF GoesOn
<1>5. CASE /\ UNCHANGED <<pc, outcome>>
           /\ \E fr \in FrameSet(load) : NoneLeft(load, s, v, f, fr) /\ stack'[c] = [s EXCEPT ![n] = fr]
  <2>1. PICK fr \in FrameSet(load) : NoneLeft(load, s, v, f, fr) /\ stack'[c] = [s EXCEPT ![n] = fr]
    BY <1>5
  <2>2. View(c)' = v
    BY <1>1 DEF View
  <2>3. Follows(load, call, [s EXCEPT ![Len(s)] = fr], b, v, D)
    <3> HIDE DEF s, v, call
    <3>1. /\ fr.table = s[Len(s)].table /\ fr.filter = s[Len(s)].filter
          /\ fr.records = s[Len(s)].records /\ fr.restrict \subseteq s[Len(s)].restrict
      BY <2>1 DEF NoneLeft
    <3>2. /\ \A k \in fr.records : <<fr.table, k>> \in D
          /\ \A g \in fr.restrict : load.fks[g].action = "restrict"
      BY <1>2, <3>1 DEF Follows, n, s
    <3> QED
      BY <1>2, <3>1, <3>2, FollowsTop
  <2> QED
    BY <1>1, <1>2, <1>5, <2>1, <2>2, <2>3 DEF GoesOn
<1> QED
  BY <1>3, <1>4, <1>5

LEMMA ActExact ==
  ASSUME TypeOK, NEW c \in Clients, IsDelete(c), Act(c), NEW b, NEW D, Deleting(c, b, D)
  PROVE  GoesOn(c, b, D)
<1> DEFINE s == stack[c]
           n == Len(stack[c])
           v == View(c)
           call == Call(c)
<1>1. pc[c] = "cascade" /\ UNCHANGED <<load, realTx, pc, outcome>>
  BY ActFacts
<1>2. /\ load \in Workloads /\ s \in Stacks(load) /\ s # <<>> /\ n \in 1..Len(s) /\ v \in DBs(load)
      /\ FramesOK(load, s) /\ Within(load, b, v, D) /\ Follows(load, call, s, b, v, D)
  BY <1>1, DeletingFacts
<1>3. PICK f \in s[n].left, fr \in FrameSet(load) :
        /\ f \in DOMAIN load.fks /\ Resumed(s, f, fr)
        /\ \/ /\ load.fks[f].action = "cascade" /\ View(c)' = v
              /\ \E next \in FrameSet(load) :
                   /\ Nested(load, s, f, next)
                   /\ stack'[c] = Append([s EXCEPT ![n] = fr], next)
           \/ /\ load.fks[f].action = "setNull" /\ View(c)' = Cleared(load, s, v, f)
              /\ stack'[c] = [s EXCEPT ![n] = fr]
           \/ /\ load.fks[f].action = "setDefault" /\ View(c)' = v
              /\ stack'[c] = [s EXCEPT ![n] = fr]
  BY ActFacts
<1>4. pc'[c] = "cascade" /\ UNCHANGED outcome
  BY <1>1
<1> HIDE DEF s, v, call, n
<1>5. /\ fr.table = s[n].table /\ fr.filter = s[n].filter /\ fr.records = s[n].records
      /\ s[n].entered /\ fr.restrict = {} /\ s[n].records \subseteq Keys
      /\ n = Len(s) /\ Par(load, f) = s[n].table
  <2>1. n = Len(s)
    BY DEF n, s
  <2>2. s[n].records \subseteq Keys
    BY <1>2, FrameFacts
  <2>3. Par(load, f) = s[n].table
    BY <1>2, <1>3 DEF FramesOK
  <2> QED
    BY <1>3, <2>1, <2>2, <2>3 DEF Resumed
<1>6. \A k \in fr.records : <<fr.table, k>> \in D
  BY <1>2, <1>5 DEF Follows
<1>7. s[1].filter.by # "some"
  <2>1. CASE s[1].entered
    <3>1. s[1].filter.by = "some" => Len(s) = 1 /\ s[1].left = {}
      BY <1>2, <2>1, NotPinned
    <3> QED
      BY <1>3, <1>5, <3>1
  <2>2. CASE ~s[1].entered
    <3>1. 1 \in 1..Len(s) /\ Len(s) # 1
      BY <1>2, <1>5, <2>2 DEF Stacks
    <3>2. PICK m \in Nat : m = Len(s)
      BY <1>2 DEF Stacks
    <3>3. 1 < Len(s)
      <4>1. m # 0 /\ m # 1
        BY <1>2, <3>1, <3>2
      <4> QED
        BY <3>2, <4>1
    <3> QED
      BY <1>2, <2>2, <3>1, <3>3 DEF FramesOK
  <2> QED
    BY <2>1, <2>2
<1>8. ASSUME NEW w
      PROVE  Follows(load, call, [s EXCEPT ![n] = fr], b, w, D)
  BY <1>2, <1>3, <1>5, <1>6, <1>7, FollowsTop
<1>9. CASE /\ load.fks[f].action = "cascade" /\ View(c)' = v
           /\ \E next \in FrameSet(load) : /\ Nested(load, s, f, next)
                                           /\ stack'[c] = Append([s EXCEPT ![n] = fr], next)
  <2>1. PICK next \in FrameSet(load) :
          Nested(load, s, f, next) /\ stack'[c] = Append([s EXCEPT ![n] = fr], next)
    BY <1>9
  <2>2. next.filter.fk = f /\ next.records = {} /\ next.restrict = {}
    BY <2>1 DEF Nested, ByRef
  <2>3. PICK r : r = [s EXCEPT ![n] = fr]
    OBVIOUS
  <2>4. r \in Stacks(load) /\ Len(r) = Len(s) /\ r[Len(r)] = fr /\ r # <<>>
    BY <1>2, <1>3, <1>5, <2>3, ReplaceTop DEF Stacks
  <2>5. Follows(load, call, Append(r, next), b, v, D)
    <3>1. Follows(load, call, r, b, v, D)
      BY <1>8, <2>3
    <3> QED
      BY <1>2, <1>5, <1>9, <2>2, <2>4, <3>1, FollowsAppend
  <2> QED
    BY <1>1, <1>2, <1>4, <1>9, <2>1, <2>3, <2>5 DEF GoesOn, call, v
<1>10. CASE /\ load.fks[f].action = "setNull" /\ View(c)' = Cleared(load, s, v, f)
            /\ stack'[c] = [s EXCEPT ![n] = fr]
  <2>1. PICK S : S = Hits(load, v, Chi(load, f), ByRef(f, s[n].records))
    OBVIOUS
  <2>2. /\ S \in SUBSET Live(v, Chi(load, f))
        /\ \A k \in S : v[Chi(load, f)][k][f] \in s[n].records
    BY <2>1 DEF Hits, ByRef
  <2>3. \A k \in S : <<Par(load, f), v[Chi(load, f)][k][f]>> \in D /\ v[Chi(load, f)][k][f] # Null
    BY <1>5, <1>6, <2>2, NullAssumption
  <2>4. Within(load, b, WithRef(v, Chi(load, f), S, f, Null), D)
    BY <1>2, <1>3, <1>10, <2>2, <2>3, WithinCleared
  <2>5. Cleared(load, s, v, f) = WithRef(v, Chi(load, f), S, f, Null)
    BY <1>5, <2>1 DEF Cleared
  <2> QED
    BY <1>4, <1>8, <1>10, <2>4, <2>5 DEF GoesOn, call
<1>11. CASE View(c)' = v /\ stack'[c] = [s EXCEPT ![n] = fr]
  BY <1>2, <1>4, <1>8, <1>11 DEF GoesOn, call
<1> QED
  BY <1>3, <1>9, <1>10, <1>11

LEMMA DeleteExact ==
  ASSUME TypeOK, NEW c \in Clients, IsDelete(c), Delete(c), NEW b \in DBs(load), NEW D, Deleting(c, b, D)
  PROVE  GoesOn(c, b, D)
<1> DEFINE s == stack[c]
           top == s[Len(s)]
           v == View(c)
           call == Call(c)
           w == Without(v, top.table, Hits(load, v, top.table, top.filter))
<1>1. /\ pc[c] = "cascade" /\ top.entered /\ top.restrict = {} /\ top.left = {}
      /\ UNCHANGED <<load, realTx>> /\ stack'[c] = Front(s) /\ View(c)' = w
      /\ \/ Len(s) = 1 /\ pc'[c] = "finish" /\ outcome'[c] = "ok"
         \/ Len(s) # 1 /\ pc'[c] = "cascade"
  BY DeleteFacts
<1>2. /\ load \in Workloads /\ s \in Stacks(load) /\ s # <<>> /\ Len(s) \in 1..Len(s)
      /\ v \in DBs(load) /\ CallOK(load, call) /\ call.op = "delete"
      /\ FramesOK(load, s) /\ Within(load, b, v, D) /\ Follows(load, call, s, b, v, D)
      /\ IsClosure(load, b, Called(load, call, b), D)
      /\ \A i \in 1..Len(s) : \A k \in Hits(load, v, s[i].table, s[i].filter) : <<s[i].table, k>> \in D
  BY <1>1, DeletingFacts
<1>3. CascadeOK(load, s, v, Missing(b)) /\ Covered(load, v, Missing(b), Hand(load, s))
  BY DEF Deleting
<1> HIDE DEF s, v, call
<1>4. CASE Len(s) = 1
  <2>1. ~ClearedBy(load, call, D) => w = Remains(load, b, D)
    <3>1. s[1] = top /\ s[1].entered /\ s[1].left = {} /\ s[1].restrict = {}
      BY <1>1, <1>4
    <3> HIDE DEF w
    <3> QED
      BY <1>2, <1>3, <1>4, <3>1, LastDelete DEF w
  <2> HIDE DEF w
  <2> QED
    BY <1>1, <1>4, <2>1 DEF GoesOn, call
<1>5. CASE Len(s) # 1
  <2>1. Len(s) > 1 /\ 1 \in 1..Len(s) /\ 1 < Len(s)
    <3>1. PICK m \in Nat : m = Len(s)
      BY <1>2 DEF Stacks
    <3>2. m # 0 /\ m # 1
      BY <1>2, <1>5, <3>1
    <3> QED
      BY <3>1, <3>2
  <2>2. s[1].filter.by # "some"
    <3>1. s[1].entered
      BY <1>2, <2>1 DEF FramesOK
    <3> QED
      BY <1>2, <1>5, <3>1, NotPinned
  <2>3. top.table \in Tables
    BY <1>2, FrameFacts
  <2>4. Within(load, b, w, D)
    BY <1>2, <2>3, WithinWithout
  <2> HIDE DEF w, top
  <2>5. Follows(load, call, Front(s), b, w, D)
    BY <1>2, <2>1, <2>2, FollowsFront
  <2> QED
    BY <1>1, <1>5, <2>4, <2>5 DEF GoesOn, call
<1> QED
  BY <1>4, <1>5

LEMMA CascadeExact ==
  ASSUME TypeOK, NEW c \in Clients, IsDelete(c), Step(c), pc[c] = "cascade",
         NEW b \in DBs(load), NEW D, Deleting(c, b, D)
  PROVE  GoesOn(c, b, D)
<1>1. Enter(c) \/ RestrictCheck(c) \/ Act(c) \/ Delete(c)
  BY DEF Step, Begin, Check, WriteRows, Finish
<1> QED
  BY <1>1, EnterExact, RestrictCheckExact, ActExact, DeleteExact

(* The invariant from the start of a delete to its end.                    *)
LEMMA BeginOnCourse ==
  ASSUME TypeOK, PcInv, NEW c \in Clients, IsDelete(c), Begin(c)
  PROVE  OnCourse(load, Call(c), "cascade", "none", stack'[c], db, db)
<1>1. /\ CascadeOK(load, stack'[c], db, Missing(db)) /\ Hand(load, stack'[c]) = {}
      /\ stack[c] = <<>>
  BY BeginFrame
<1>2. stack'[c] = <<Frame(Call(c).table, Call(c).filter)>>
  BY DEF Begin, TypeOK
<1>3. load \in Workloads /\ db \in DBs(load)
  BY LoadFacts
<1>4. Covered(load, db, Missing(db), Hand(load, stack'[c]))
  <2> SUFFICES ASSUME NEW f \in Tracked(load), NEW p \in Keys, db[Par(load, f)][p] = NoRow
               PROVE  <<Par(load, f), p>> \in Missing(db)
    BY DEF Covered
  <2> QED
    BY <1>3, TrackedFacts DEF Missing
<1>5. ASSUME NEW D
      PROVE  Within(load, db, db, D) /\ Follows(load, Call(c), stack'[c], db, db, D)
  <2>1. PICK fr : fr = Frame(Call(c).table, Call(c).filter)
    OBVIOUS
  <2>2. /\ fr.table = Call(c).table /\ fr.filter = Call(c).filter
        /\ fr.records = {} /\ fr.restrict = {}
    BY <2>1 DEF Frame
  <2>3. PICK r : r = <<fr>>
    OBVIOUS
  <2>4. r[1] = fr /\ \A i \in 1..Len(r) : i = 1
    BY <2>3
  <2>5. Follows(load, Call(c), r, db, db, D)
    BY <2>2, <2>4 DEF Follows
  <2> QED
    BY <1>2, <2>1, <2>3, <2>5 DEF Within, RowKept
<1> QED
  BY <1>1, <1>4, <1>5 DEF OnCourse

LEMMA CascadeOnCourse ==
  ASSUME TypeOK, NEW c \in Clients, IsDelete(c), Step(c), pc[c] = "cascade", NEW b \in DBs(load),
         OnCourse(load, Call(c), pc[c], outcome[c], stack[c], b, View(c))
  PROVE  OnCourse(load, Call(c), pc'[c], outcome'[c], stack'[c], b, View(c)')
<1>1. /\ CascadeOK(load, stack[c], View(c), Missing(b))
      /\ Covered(load, View(c), Missing(b), Hand(load, stack[c]))
  BY DEF OnCourse
<1>2. Moved(c, Missing(b))
  BY <1>1, CascadeMoves
<1>3. ASSUME pc'[c] = "cascade"
      PROVE  /\ CascadeOK(load, stack'[c], View(c)', Missing(b))
             /\ Covered(load, View(c)', Missing(b), Hand(load, stack'[c]))
  <2>1. Moves(load, stack[c], View(c), stack'[c], View(c)', Missing(b))
    BY <1>2, <1>3 DEF Moved
  <2>2. \A S : {} \cup S = S
    OBVIOUS
  <2>3. Covered(load, View(c), Missing(b), {} \cup Hand(load, stack[c]))
        => Covered(load, View(c)', Missing(b), {} \cup Hand(load, stack'[c]))
    BY <2>1 DEF Moves
  <2> QED
    BY <1>1, <2>1, <2>2, <2>3 DEF Moves
<1>4. ASSUME NEW D \in SUBSET (Tables \X Keys), IsClosure(load, b, Called(load, Call(c), b), D)
      PROVE  GoesOn(c, b, D)
  <2>1. Deleting(c, b, D)
    BY <1>1, <1>4 DEF OnCourse, Deleting
  <2> QED
    BY <2>1, CascadeExact
<1> QED
  BY <1>3, <1>4 DEF OnCourse, GoesOn

LEMMA ExactStep ==
  ASSUME TypeOK, PcInv, OverlapInv, ExactInv, NEW c \in Clients, Step(c)
  PROVE  ExactInv'
<1>1. /\ UNCHANGED <<load, realTx>>
      /\ \A d \in Clients : Call(d)' = Call(d) /\ (IsDelete(d)' <=> IsDelete(d))
  BY StepFrame
<1> SUFFICES ASSUME NEW d \in Clients, IsDelete(d), Active(d)', ~overlapped'[d]
             PROVE  /\ realTx => db' = start'[d] /\ tx'[d].snapshot = start'[d]
                    /\ OnCourse(load, Call(d), pc'[d], outcome'[d], stack'[d], start'[d], View(d)')
  BY <1>1 DEF ExactInv
<1>2. d = c
  <2>1. ASSUME d # c PROVE FALSE
    <3>1. Active(d)
      BY <2>1, StepFrame
    <3> QED
      BY <2>1, <3>1, OverlapStep
  <2> QED
    BY <2>1
<1>3. CASE Begin(c)
  <2>1. /\ db' = db /\ start'[c] = db /\ pc'[c] = "cascade"
        /\ realTx => tx'[c] = [view |-> db, snapshot |-> db]
    BY <1>2, <1>3 DEF Begin, Goto, TypeOK
  <2>2. View(c)' = db
    BY <1>1, <2>1 DEF View
  <2>3. OnCourse(load, Call(c), "cascade", "none", stack'[c], db, db)
    BY <1>2, <1>3, BeginOnCourse
  <2> QED
    BY <1>2, <2>1, <2>2, <2>3 DEF OnCourse
<1>4. CASE ~Begin(c)
  <2>1. Active(c) /\ overlapped' = overlapped /\ start' = start
    BY <1>4, StepFrame
  <2>2. /\ realTx => db = start[c] /\ tx[c].snapshot = start[c]
        /\ OnCourse(load, Call(c), pc[c], outcome[c], stack[c], start[c], View(c))
    BY <1>2, <2>1 DEF ExactInv
  <2>3. ~Finish(c)
    <3>1. Finish(c) => ~Active(c)'
      BY FinishFacts DEF Active, TypeOK
    <3> QED
      BY <1>2, <3>1
  <2>4. pc[c] = "cascade"
    <3>1. Step(c) /\ ~Begin(c) /\ ~Finish(c)
      BY <1>4, <2>3
    <3>2. pc[c] # "check"
      BY <1>2 DEF PcInv, IsDelete, IsWrite
    <3> QED
      BY <3>1, <3>2 DEF Step, Enter, RestrictCheck, Act, Delete, Check, WriteRows
  <2>5. realTx => db' = db /\ tx'[c].snapshot = tx[c].snapshot
    BY <2>1, <2>3, SnapshotKept
  <2>6. start[c] \in DBs(load)
    BY LoadFacts DEF TypeOK
  <2>7. OnCourse(load, Call(c), pc'[c], outcome'[c], stack'[c], start[c], View(c)')
    BY <1>2, <2>2, <2>4, <2>6, CascadeOnCourse
  <2> QED
    BY <1>2, <2>1, <2>2, <2>5, <2>7
<1> QED
  BY <1>3, <1>4

LEMMA ExactIStep ==
  ASSUME TypeOK, PcInv, OverlapInv, ExactInv, [Next]_vars
  PROVE  (TypeOK /\ PcInv /\ OverlapInv /\ ExactInv)'
<1>1. TypeOK' /\ PcInv'
  BY TypeStep, PcStep
<1>2. CASE UNCHANGED vars
  <2>1. UNCHANGED <<load, realTx, db, tx, pc, outcome, stack, checks, start, overlapped>>
    BY <1>2 DEF vars, calls
  <2>2. \A c \in Clients : /\ Call(c)' = Call(c) /\ (IsDelete(c)' <=> IsDelete(c))
                           /\ (Active(c)' <=> Active(c)) /\ View(c)' = View(c)
    BY <2>1 DEF Call, IsDelete, Active, View
  <2> QED
    BY <1>1, <2>1, <2>2 DEF OverlapInv, ExactInv
<1>3. CASE Next
  BY <1>1, <1>3, OverlapStep, ExactStep DEF Next
<1> QED
  BY <1>2, <1>3

(* What the property says of a delete, in terms of the rows to be deleted. *)
LEMMA ExactFacts ==
  ASSUME TypeOK, NEW c \in Clients, IsDelete(c), IsFiniteSet(Tables), IsFiniteSet(Keys),
         NEW b, NEW D, D = Doomed(b, c)
  PROVE  /\ D \in SUBSET (Tables \X Keys) /\ IsClosure(load, b, Called(load, Call(c), b), D)
         /\ AfterDelete(b, c) = Remains(load, b, D)
         /\ Restricted(b, c) <=> Blocked(load, b, D)
         /\ ClearsFilter(b, c) <=> ClearedBy(load, Call(c), D)
<1>1. IsClosure(load, b, Called(load, Call(c), b), D)
  BY DoomedIs
<1>2. D \in SUBSET (Tables \X Keys)
  BY <1>1 DEF IsClosure
<1>3. AfterDelete(b, c) = Remains(load, b, D)
  BY DEF AfterDelete, Remains, Fks, Chi, Par
<1>4. Restricted(b, c) <=> Blocked(load, b, D)
  BY DEF Restricted, Blocked, Fks, Chi, Par
<1>5. ClearsFilter(b, c) <=> ClearedBy(load, Call(c), D)
  BY DEF ClearsFilter, ClearedBy, Fks, Par
<1> QED
  BY <1>1, <1>2, <1>3, <1>4, <1>5

(* A delete that nobody disturbs removes exactly the rows its cascades     *)
(* reach and clears exactly the setNull references to them, however deep   *)
(* or cyclic the references are, unless it clears its own filter; it is    *)
(* refused only for a restrict reference to such a row, and then, with a   *)
(* real transaction, nothing has changed.                                  *)
THEOREM DeletesAreExact ==
  ASSUME IsFiniteSet(Tables), IsFiniteSet(Keys)
  PROVE  Spec => DeleteIsExact
<1> DEFINE Inv == TypeOK /\ PcInv /\ OverlapInv /\ ExactInv
<1>1. Init => Inv
  BY AloneInit DEF AloneIInv, ExactInv, Init, Active
<1>2. Inv /\ [Next]_vars => Inv'
  BY ExactIStep
<1>3. Inv /\ [Next]_vars => [\A c \in Clients : IsDelete(c) => DeletesExactly(c)]_vars
  <2> SUFFICES ASSUME Inv, NEW d \in Clients, Step(d), NEW c \in Clients, IsDelete(c)
               PROVE  DeletesExactly(c)
    BY DEF Next
  <2> SUFFICES ASSUME pc[c] = "finish", pc'[c] = "done", ~overlapped[c]
               PROVE  /\ outcome[c] = "ok" /\ ~ClearsFilter(start[c], c) => db' = AfterDelete(start[c], c)
                      /\ outcome[c] = "conflict" => Restricted(start[c], c) /\ (realTx => db' = start[c])
    BY DEF EndsAlone, DeletesExactly
  <2>1. Finish(c)
    <3>1. d = c
      BY StepFrame
    <3> QED
      BY <3>1 DEF Step, Begin, Enter, RestrictCheck, Act, Delete, Check, WriteRows
  <2>2. PICK b, D : b = start[c] /\ D = Doomed(b, c)
    OBVIOUS
  <2>3. /\ D \in SUBSET (Tables \X Keys) /\ IsClosure(load, b, Called(load, Call(c), b), D)
        /\ AfterDelete(b, c) = Remains(load, b, D)
        /\ Restricted(b, c) <=> Blocked(load, b, D)
        /\ ClearsFilter(b, c) <=> ClearedBy(load, Call(c), D)
    BY <2>2, ExactFacts
  <2>4. /\ realTx => db = b /\ tx[c].snapshot = b
        /\ OnCourse(load, Call(c), pc[c], outcome[c], stack[c], b, View(c))
    BY <2>2 DEF ExactInv, Active
  <2>5. /\ outcome[c] = "ok" /\ ~ClearedBy(load, Call(c), D) => View(c) = Remains(load, b, D)
        /\ outcome[c] = "conflict" => Blocked(load, b, D)
    BY <2>3, <2>4 DEF OnCourse
  <2>6. outcome[c] = "ok" => db' = View(c)
    <3> SUFFICES ASSUME outcome[c] = "ok" PROVE db' = View(c)
      OBVIOUS
    <3>1. CASE realTx
      <4>1. \A t \in Tables, k \in Keys :
              db'[t][k] = IF tx[c].view[t][k] # tx[c].snapshot[t][k] THEN tx[c].view[t][k] ELSE db[t][k]
        <5>1. pc' # [pc EXCEPT ![c] = "idle"] /\ outcome[c] \notin Failed
          BY DEF TypeOK, Failed
        <5> QED
          BY <2>1, <3>1, <5>1, FinishFacts
      <4>2. \A t \in Tables, k \in Keys : db'[t][k] = View(c)[t][k]
        BY <2>4, <3>1, <4>1 DEF View
      <4>3. db' \in DBs(load) /\ View(c) \in DBs(load)
        BY <2>1, FinishFacts, LoadFacts DEF Active
      <4> QED
        BY <4>2, <4>3 DEF DBs
    <3>2. CASE ~realTx
      <4>1. db' = db
        BY <2>1, <3>2, FinishFacts
      <4> QED
        BY <3>2, <4>1 DEF View
    <3> QED
      BY <3>1, <3>2
  <2>7. outcome[c] = "conflict" => db' = db
    BY <2>1, FinishFacts
  <2> QED
    BY <2>2, <2>3, <2>4, <2>5, <2>6, <2>7
<1> QED
  BY <1>1, <1>2, <1>3, PTL DEF Spec, DeleteIsExact

=============================================================================
