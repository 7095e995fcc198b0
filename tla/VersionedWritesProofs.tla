------------------------ MODULE VersionedWritesProofs -----------------------
(***************************************************************************)
(* Proofs about VersionedWrites, for any workers, rows, tasks and number   *)
(* of attempts, with real and with pass-through transactions: the version  *)
(* identifies the content of a row, and no conditional patch overwrites a  *)
(* committed change it has not seen.                                       *)
(***************************************************************************)
EXTENDS VersionedWrites, TLAPS

-----------------------------------------------------------------------------
(* The inductive invariant *)

(* Every image of the row k somebody holds or may still read.              *)
AllImages(k) ==
  ({Committed(k)} \cup {seen[w][k] : w \in Workers}
   \cup UNION {{s[k] : s \in snap[w]} : w \in Workers}) \ {NoRow}

Before(r, s) == r.born < s.born \/ (r.born = s.born /\ r.ver <= s.ver)
SameContent(r, s) == r.born = s.born /\ r.ver = s.ver => r.val = s.val

(* What statements other than deletes and inserts do to a row.             *)
Grows(r, s) == s.born = r.born /\ r.ver <= s.ver /\ (s.ver = r.ver => s.val = r.val)

(* The committed image is the latest of all, and the next incarnation of   *)
(* the key will be later than any.                                         *)
Content == \A k \in Keys : \A r, s \in AllImages(k) : SameContent(r, s)
Newest ==
  \A k \in Keys : Committed(k) # NoRow => \A r \in AllImages(k) : Before(r, Committed(k))
Births == \A k \in Keys : \A r \in AllImages(k) : r.born <= bumps[k]

(* Who has a row locked is between its first write and its commit.         *)
Locks ==
  \A k \in Keys : locker[k] # Nobody =>
    /\ InTx(locker[k])
    /\ pc[locker[k]] \in {"stmt", "finish"}
    /\ Op(locker[k]) = "retry" => pc[locker[k]] = "finish"

(* A patch of w may replace only content w has seen, or that of a later    *)
(* incarnation than the one it has seen.                                   *)
Keeps(w, k, r, s) ==
  r.val \subseteq s.val \/ (seen[w][k] # NoRow /\ seen[w][k].born < r.born)

(* What an open transaction has made of a row it has locked.               *)
PendingRow(k) ==
  /\ Op(locker[k]) = "insert" => row[k] # NoRow
  /\ row[k] # NoRow /\ undo[k] = NoRow => row[k].born = bumps[k] + 1
  /\ row[k] # NoRow /\ undo[k] # NoRow =>
       Grows(undo[k], row[k]) /\ Keeps(locker[k], k, undo[k], row[k])

Pending == \A k \in Keys : locker[k] # Nobody => PendingRow(k)

Images_ == Content /\ Newest /\ Births
IInv == TypeOK /\ Locks /\ Pending /\ Images_

-----------------------------------------------------------------------------
(* Types *)

LEMMA TaskType ==
  ASSUME TypeOK, NEW w \in Workers
  PROVE  /\ task[w] \in Tasks
         /\ Items_(w) \in Seq(Items) /\ Items_(w) # <<>>
         /\ Op(w) \in Ops
BY WorkloadsAssumption DEF TypeOK, Items_, Op, Tasks

LEMMA RowType ==
  ASSUME NEW r \in Rows
  PROVE  r.ver \in Nat /\ r.born \in Nat /\ r.val \subseteq Workers /\ r.touched \subseteq Workers
BY DEF Rows

LEMMA ImageType ==
  ASSUME TypeOK, NEW k \in Keys
  PROVE  AllImages(k) \subseteq Rows
BY DEF TypeOK, AllImages, Committed

(* What a statement may make of the stored row of a key: remove it, create *)
(* it, or patch it from what the worker has seen.                          *)
Changed(w, k, old, new) ==
  \/ old # NoRow /\ new = NoRow /\ Op(w) # "insert"
  \/ old = NoRow /\ new # NoRow /\ Op(w) = "insert" /\ new.born = bumps[k] + 1
  \/ /\ old # NoRow /\ new # NoRow /\ Op(w) # "insert"
     /\ Grows(old, new)
     /\ \/ old.val \subseteq new.val
        \/ /\ seen[w][k] # NoRow /\ seen[w][k].ver = old.ver
           /\ seen[w][k].val \subseteq new.val /\ new.ver > old.ver

Changes(w, changes) ==
  \A k \in Keys : k \in DOMAIN changes =>
    /\ locker[k] \in {w, Nobody}
    /\ changes[k] \in Rows \cup {NoRow}
    /\ Changed(w, k, row[k], changes[k])

LEMMA UpdatedChanges ==
  ASSUME TypeOK, NEW w \in Workers, NEW item \in Items, Op(w) # "insert",
         Matches(w, item, row[item.key])
  PROVE  LET k == item.key  new == Updated(w, item, row[k])
         IN  new \in Rows /\ Changed(w, k, row[k], new)
<1> DEFINE k == item.key
           old == row[k]
           new == Updated(w, item, old)
           own == "own" \in item.fields
           val == IF ~own THEN old.val
                  ELSE IF item.cas THEN seen[w][k].val \cup {w} ELSE old.val \cup {w}
           ver == IF KeepVersion(item) THEN old.ver ELSE old.ver + 1
           touched == IF IsTouch(w) THEN old.touched \cup {w} ELSE old.touched
<1>1. k \in Keys /\ old \in Rows /\ item.cas \in BOOLEAN
  BY DEF TypeOK, Matches, Items
<1>2. item.cas => seen[w][k] \in Rows /\ seen[w][k] # NoRow /\ seen[w][k].ver = old.ver
  BY <1>1 DEF TypeOK, Matches
<1>3. val \subseteq Workers /\ ver \in Nat /\ touched \subseteq Workers /\ old.born \in Nat
  BY <1>1, <1>2, RowType
<1>4. new = [old EXCEPT !.ver = ver, !.val = val, !.touched = touched]
  BY DEF Updated
<1>5. new \in Rows
  <2> HIDE DEF ver, val, touched, new
  <2> QED BY <1>1, <1>3, <1>4 DEF Rows
<1>6. new.ver = ver /\ new.val = val /\ new.born = old.born
  <2> HIDE DEF ver, val, touched, new
  <2> QED BY <1>1, <1>4 DEF Rows
<1> HIDE DEF new
<1>7. Grows(old, new)
  BY <1>1, <1>6, RowType DEF Grows, KeepVersion
<1>8. \/ old.val \subseteq new.val
      \/ /\ seen[w][k] # NoRow /\ seen[w][k].ver = old.ver
         /\ seen[w][k].val \subseteq new.val /\ new.ver > old.ver
  BY <1>1, <1>2, <1>6, RowType DEF KeepVersion
<1>9. old # NoRow /\ new # NoRow
  BY <1>1, <1>5, NobodyAssumption
<1> QED BY <1>5, <1>7, <1>8, <1>9 DEF Changed, new

-----------------------------------------------------------------------------
(* How the images of a row change *)

(* What a step may make of the committed image of k.                       *)
Commits(k, old, new) ==
  \/ new = old
  \/ new = NoRow
  \/ old = NoRow /\ new.born = bumps[k] + 1 /\ bumps'[k] = bumps[k] + 1
  \/ old # NoRow /\ Grows(old, new)

LEMMA ImagesEvolve ==
  ASSUME TypeOK, TypeOK', Images_,
         \A k \in Keys : AllImages(k)' \subseteq AllImages(k) \cup {Committed(k)'},
         \A k \in Keys : bumps[k] <= bumps'[k],
         \A k \in Keys : Commits(k, Committed(k), Committed(k)')
  PROVE  Images_'
<1> SUFFICES ASSUME NEW k \in Keys
             PROVE  /\ \A r, s \in AllImages(k)' : SameContent(r, s)
                    /\ Committed(k)' # NoRow =>
                         \A r \in AllImages(k)' : Before(r, Committed(k)')
                    /\ \A r \in AllImages(k)' : r.born <= bumps'[k]
  BY DEF Images_, Content, Newest, Births
<1> DEFINE old == Committed(k)
           new == Committed(k)'
           A == AllImages(k)
<1>1. /\ A \subseteq Rows
      /\ AllImages(k)' \subseteq A \cup {new} /\ NoRow \notin AllImages(k)'
      /\ new \in Rows \cup {NoRow}
      /\ bumps[k] \in Nat /\ bumps'[k] \in Nat /\ bumps[k] <= bumps'[k]
      /\ old # NoRow => old \in A
  <2>1. A \subseteq Rows
    BY ImageType
  <2>2. new \in Rows \cup {NoRow}
    BY DEF TypeOK, Committed
  <2>3. NoRow \notin AllImages(k)' /\ (old # NoRow => old \in A)
    BY DEF AllImages
  <2> QED BY <2>1, <2>2, <2>3 DEF TypeOK
<1>2. /\ \A r, s \in A : SameContent(r, s)
      /\ old # NoRow => \A r \in A : Before(r, old)
      /\ \A r \in A : r.born <= bumps[k]
  BY DEF Images_, Content, Newest, Births
<1>3. /\ new # NoRow => new.born \in Nat /\ new.ver \in Nat
      /\ \A r \in A : r.born \in Nat /\ r.ver \in Nat
  BY <1>1, RowType
<1>4. Commits(k, old, new)
  OBVIOUS
<1> HIDE DEF old, new, A
<1>5. new # NoRow => /\ \A r \in A : Before(r, new) /\ SameContent(r, new) /\ SameContent(new, r)
                     /\ Before(new, new) /\ SameContent(new, new)
                     /\ new.born <= bumps'[k]
  <2> SUFFICES ASSUME new # NoRow
               PROVE  /\ \A r \in A : Before(r, new) /\ SameContent(r, new) /\ SameContent(new, r)
                      /\ new.born <= bumps'[k]
    BY <1>3 DEF Before, SameContent
  <2>1. CASE new = old
    BY <1>1, <1>2, <1>3, <2>1 DEF SameContent
  <2>2. CASE old = NoRow /\ new.born = bumps[k] + 1 /\ bumps'[k] = bumps[k] + 1
    BY <1>1, <1>2, <1>3, <2>2 DEF SameContent, Before
  <2>3. CASE old # NoRow /\ Grows(old, new)
    <3>1. old \in A /\ new.born = old.born /\ old.ver <= new.ver /\ (new.ver = old.ver => new.val = old.val)
      BY <1>1, <2>3 DEF Grows
    <3>2. ASSUME NEW r \in A PROVE Before(r, new) /\ SameContent(r, new) /\ SameContent(new, r)
      <4>1. Before(r, old) /\ SameContent(r, old)
        BY <1>2, <2>3, <3>1
      <4> QED BY <1>3, <3>1, <4>1 DEF Before, SameContent
    <3> QED BY <1>1, <1>2, <1>3, <3>1, <3>2
  <2> QED BY <1>4, <2>1, <2>2, <2>3 DEF Commits
<1>6. ASSUME NEW r \in AllImages(k)', NEW s \in AllImages(k)'
      PROVE  SameContent(r, s) /\ (new # NoRow => Before(r, new)) /\ r.born <= bumps'[k]
  <2>1. CASE r \in A /\ s \in A
    BY <1>1, <1>2, <1>3, <1>5, <2>1
  <2>2. CASE r = new \/ s = new
    BY <1>1, <1>2, <1>3, <1>5, <2>2
  <2> QED BY <1>1, <2>1, <2>2
<1> QED BY <1>6 DEF new

(* A step that changes neither the store nor what anybody has seen.        *)
LEMMA ReadersKeep ==
  ASSUME TypeOK, TypeOK', Images_, UNCHANGED <<store, seen, snap>>
  PROVE  Images_'
<1>1. \A k \in Keys : Committed(k)' = Committed(k) /\ AllImages(k)' = AllImages(k)
  BY DEF store, Committed, AllImages
<1>2. \A k \in Keys : bumps[k] <= bumps'[k]
  BY DEF store, TypeOK
<1> QED BY <1>1, <1>2, ImagesEvolve DEF Commits

-----------------------------------------------------------------------------
(* Statements *)

(* Where the worker of a statement goes.                                   *)
Proceeds(w) ==
  /\ pc[w] = "stmt"
  /\ pc'[w] \in {"stmt", "finish"}
  /\ Op(w) = "retry" => pc'[w] = "finish"
  /\ \A v \in Workers : v # w => pc'[v] = pc[v]

LEMMA ApplyType ==
  ASSUME TypeOK, NEW w \in Workers, NEW changes, Apply(w, changes), Changes(w, changes)
  PROVE  /\ row' \in [Keys -> Rows \cup {NoRow}]
         /\ undo' \in [Keys -> Rows \cup {NoRow}]
         /\ locker' \in [Keys -> Workers \cup {Nobody}]
         /\ bumps' \in [Keys -> Nat]
<1>1. row' \in [Keys -> Rows \cup {NoRow}]
  BY DEF TypeOK, Apply, Changes
<1>2. CASE InTx(w)
  BY <1>1, <1>2 DEF TypeOK, Apply
<1>3. CASE ~InTx(w)
  <2>1. undo' = undo /\ locker' = locker
    BY <1>3 DEF Apply
  <2>2. bumps' = [k \in Keys |-> IF k \in DOMAIN changes /\ VersionMoved(row[k], changes[k])
                                 THEN bumps[k] + 1 ELSE bumps[k]]
    BY <1>3 DEF Apply
  <2>3. \A k \in Keys : bumps[k] \in Nat /\ bumps[k] + 1 \in Nat
    BY DEF TypeOK
  <2>4. bumps' \in [Keys -> Nat]
    BY <2>2, <2>3, Zenon
  <2> QED BY <1>1, <2>1, <2>4 DEF TypeOK
<1> QED BY <1>2, <1>3

(* A statement of a transaction leaves the committed rows as they are; one *)
(* outside of any commits what it does.                                    *)
LEMMA ApplyCommits ==
  ASSUME TypeOK, Locks, NEW w \in Workers, NEW changes, Apply(w, changes),
         Changes(w, changes), NEW k \in Keys
  PROVE  \/ Committed(k)' = Committed(k)
         \/ /\ ~InTx(w) /\ k \in DOMAIN changes
            /\ Committed(k) = row[k] /\ Committed(k)' = row'[k]
            /\ Changed(w, k, row[k], row'[k])
<1>1. row'[k] = IF k \in DOMAIN changes THEN changes[k] ELSE row[k]
  BY DEF Apply
<1>2. k \in DOMAIN changes => locker[k] \in {w, Nobody} /\ Changed(w, k, row[k], row'[k])
  BY <1>1 DEF Changes
<1>3. CASE InTx(w)
  <2>1. /\ undo'[k] = IF k \in DOMAIN changes /\ locker[k] = Nobody THEN row[k] ELSE undo[k]
        /\ locker'[k] = IF k \in DOMAIN changes THEN w ELSE locker[k]
    BY <1>3 DEF Apply
  <2> QED BY <1>1, <1>2, <2>1, NobodyAssumption DEF Committed
<1>4. CASE ~InTx(w)
  <2>1. undo' = undo /\ locker' = locker /\ locker[k] # w
    BY <1>4, NobodyAssumption DEF Apply, Locks
  <2> QED BY <1>1, <1>2, <1>4, <2>1 DEF Committed
<1> QED BY <1>3, <1>4

(* What w has seen of k is the committed row's content, or is of an earlier*)
(* incarnation, when its version is not behind.                            *)
LEMMA SeenContent ==
  ASSUME TypeOK, Images_, NEW w \in Workers, NEW k \in Keys,
         Committed(k) # NoRow, seen[w][k] # NoRow,
         Committed(k).ver <= seen[w][k].ver
  PROVE  \/ seen[w][k].born < Committed(k).born
         \/ seen[w][k].val = Committed(k).val
<1> DEFINE mine == seen[w][k]
           base == Committed(k)
<1>1. mine \in AllImages(k) /\ base \in AllImages(k)
  BY DEF AllImages
<1>2. Before(mine, base) /\ SameContent(mine, base)
  BY <1>1 DEF Images_, Newest, Content
<1>3. /\ mine.born \in Nat /\ base.born \in Nat
      /\ mine.ver \in Nat /\ base.ver \in Nat
  BY <1>1, ImageType, RowType
<1>4. mine.born < base.born \/ (mine.born = base.born /\ mine.ver = base.ver)
  BY <1>2, <1>3 DEF Before
<1> QED BY <1>2, <1>4 DEF SameContent

LEMMA ApplyKeeps ==
  ASSUME TypeOK, TypeOK', Locks, Pending, Images_,
         NEW w \in Workers, NEW changes, Apply(w, changes), Changes(w, changes),
         UNCHANGED <<task, realTx, seen, snap>>, Proceeds(w)
  PROVE  Locks' /\ Pending' /\ Images_'
<1>1. \A v : InTx(v)' = InTx(v) /\ Op(v)' = Op(v)
  BY DEF InTx, Op, Items_, IsTouch
<1>2. \A k \in Keys : row'[k] = IF k \in DOMAIN changes THEN changes[k] ELSE row[k]
  BY DEF Apply
<1>3. ASSUME NEW k \in Keys, k \in DOMAIN changes
      PROVE  /\ locker[k] \in {w, Nobody}
             /\ Changed(w, k, row[k], row'[k])
  BY <1>2, <1>3 DEF Changes
<1>4. CASE InTx(w)
  <2>1. \A k \in Keys :
          /\ undo'[k] = IF k \in DOMAIN changes /\ locker[k] = Nobody THEN row[k] ELSE undo[k]
          /\ locker'[k] = IF k \in DOMAIN changes THEN w ELSE locker[k]
          /\ bumps'[k] = bumps[k]
    BY <1>4 DEF Apply
  <2>2. Locks'
    <3> SUFFICES ASSUME NEW k \in Keys, locker'[k] # Nobody
                 PROVE  /\ InTx(locker'[k])
                        /\ pc'[locker'[k]] \in {"stmt", "finish"}
                        /\ Op(locker'[k]) = "retry" => pc'[locker'[k]] = "finish"
      BY <1>1 DEF Locks
    <3>1. CASE locker'[k] = w
      BY <1>4, <3>1 DEF Proceeds
    <3>2. CASE locker'[k] # w
      <4>1. locker'[k] = locker[k] /\ locker[k] \in Workers
        BY <2>1, <3>2 DEF TypeOK
      <4> QED BY <3>2, <4>1 DEF Locks, Proceeds
    <3> QED BY <3>1, <3>2
  <2>3. \A k \in Keys : Committed(k)' = Committed(k)
    BY <1>4, ApplyCommits
  <2>4. Images_'
    <3>1. \A k \in Keys : AllImages(k)' = AllImages(k)
      BY <2>3 DEF AllImages
    <3>2. \A k \in Keys : bumps[k] <= bumps'[k]
      BY <2>1 DEF TypeOK
    <3> QED BY <2>3, <3>1, <3>2, ImagesEvolve DEF Commits
  <2>5. ASSUME NEW k \in Keys, locker'[k] # Nobody
        PROVE  PendingRow(k)'
    <3>1. CASE k \notin DOMAIN changes
      BY <1>1, <1>2, <2>1, <2>5, <3>1 DEF Pending, PendingRow, Keeps, Grows
    <3>2. CASE k \in DOMAIN changes
      <4> DEFINE old == row[k]
                 new == row'[k]
                 base == undo'[k]
                 mine == seen[w][k]
      <4>1. /\ locker'[k] = w /\ seen' = seen /\ bumps'[k] = bumps[k]
            /\ Changed(w, k, old, new)
            /\ base = Committed(k)
            /\ base = IF locker[k] = Nobody THEN old ELSE undo[k]
            /\ locker[k] = w \/ locker[k] = Nobody
        BY <1>3, <2>1, <3>2, NobodyAssumption DEF Committed
      <4>2. /\ old \in Rows \cup {NoRow} /\ new \in Rows \cup {NoRow}
            /\ base \in Rows \cup {NoRow} /\ mine \in Rows \cup {NoRow}
            /\ bumps[k] \in Nat
        BY DEF TypeOK
      <4>3. locker[k] = w => PendingRow(k)
        BY NobodyAssumption DEF Pending
      <4>4. Op(w) = "insert" => new # NoRow
        BY <4>1 DEF Changed
      <4>5. new # NoRow /\ base = NoRow => new.born = bumps[k] + 1
        <5> SUFFICES ASSUME new # NoRow, base = NoRow
                     PROVE  new.born = bumps[k] + 1
          OBVIOUS
        <5>1. CASE old = NoRow
          BY <4>1, <5>1 DEF Changed
        <5>2. CASE old # NoRow
          <6>1. locker[k] = w /\ undo[k] = NoRow
            BY <4>1, <5>2
          <6>2. old.born = bumps[k] + 1
            BY <4>3, <5>2, <6>1 DEF PendingRow
          <6>3. Grows(old, new)
            BY <4>1, <5>2 DEF Changed
          <6> QED BY <6>2, <6>3 DEF Grows
        <5> QED BY <5>1, <5>2
      <4>6. ASSUME new # NoRow, base # NoRow
            PROVE  Grows(base, new) /\ Keeps(w, k, base, new)
        <5>1. old # NoRow /\ Op(w) # "insert"
          <6>1. CASE locker[k] = Nobody
            BY <4>1, <4>6, <6>1 DEF Changed
          <6>2. CASE locker[k] = w
            <7>1. Op(w) = "insert" => old # NoRow
              BY <4>3, <6>2 DEF PendingRow
            <7> QED BY <4>1, <4>6, <7>1 DEF Changed
          <6> QED BY <4>1, <6>1, <6>2
        <5>2. Grows(base, old) /\ Keeps(w, k, base, old)
          <6>1. CASE locker[k] = Nobody
            <7>1. base = old /\ old.ver \in Nat
              BY <4>1, <4>2, <5>1, <6>1, RowType
            <7> HIDE DEF old, base
            <7> QED BY <7>1 DEF Grows, Keeps
          <6>2. CASE locker[k] = w
            <7>1. w # Nobody
              BY NobodyAssumption
            <7>2. base = undo[k]
              BY <4>1, <6>2, <7>1
            <7> QED BY <4>3, <4>6, <5>1, <6>2, <7>2 DEF PendingRow
          <6> QED BY <4>1, <6>1, <6>2
        <5>3. Grows(old, new)
          BY <4>1, <4>6, <5>1 DEF Changed
        <5>4. /\ old \in Rows /\ new \in Rows /\ base \in Rows
              /\ old.ver \in Nat /\ new.ver \in Nat /\ base.ver \in Nat
          BY <4>2, <4>6, <5>1, RowType
        <5>5. Grows(base, new)
          BY <5>2, <5>3, <5>4 DEF Grows
        <5>6. CASE old.val \subseteq new.val
          BY <5>2, <5>5, <5>6 DEF Keeps
        <5>7. CASE /\ mine # NoRow /\ mine.ver = old.ver
                   /\ mine.val \subseteq new.val
          <6>1. base.ver <= mine.ver
            BY <5>2, <5>7 DEF Grows
          <6>2. mine.born < base.born \/ mine.val = base.val
            BY <4>1, <4>6, <5>7, <6>1, SeenContent
          <6> QED BY <4>1, <5>5, <5>7, <6>2 DEF Keeps
        <5>8. \/ old.val \subseteq new.val
              \/ mine # NoRow /\ mine.ver = old.ver /\ mine.val \subseteq new.val
          BY <4>1, <4>6, <5>1 DEF Changed
        <5> HIDE DEF old, new, base, mine
        <5> QED BY <5>6, <5>7, <5>8
      <4> QED BY <1>1, <4>1, <4>4, <4>5, <4>6 DEF PendingRow, Keeps, Grows
    <3> QED BY <3>1, <3>2
  <2> QED BY <2>2, <2>4, <2>5 DEF Pending
<1>5. CASE ~InTx(w)
  <2>1. UNCHANGED <<undo, locker>>
    BY <1>5 DEF Apply
  <2>2. \A k \in Keys : locker[k] # w
    BY <1>5, NobodyAssumption DEF Locks
  <2>3. \A k \in Keys : k \in DOMAIN changes => locker[k] = Nobody
    BY <1>3, <2>2
  <2>4. Locks'
    <3> SUFFICES ASSUME NEW k \in Keys, locker'[k] # Nobody
                 PROVE  /\ InTx(locker'[k])
                        /\ pc'[locker'[k]] \in {"stmt", "finish"}
                        /\ Op(locker'[k]) = "retry" => pc'[locker'[k]] = "finish"
      BY <1>1 DEF Locks
    <3>1. locker'[k] = locker[k] /\ locker[k] \in Workers /\ locker[k] # w
      BY <2>1, <2>2 DEF TypeOK
    <3> QED BY <3>1 DEF Locks, Proceeds
  <2>5. ASSUME NEW k \in Keys, locker'[k] # Nobody
        PROVE  PendingRow(k)'
    <3>1. k \notin DOMAIN changes /\ row'[k] = row[k]
      BY <1>2, <2>1, <2>3, <2>5
    <3>2. bumps'[k] = bumps[k]
      BY <1>5, <3>1 DEF Apply
    <3> QED BY <1>1, <2>1, <2>5, <3>1, <3>2 DEF Pending, PendingRow, Keeps, Grows
  <2>6. ASSUME NEW k \in Keys
        PROVE  bumps[k] <= bumps'[k] /\ Commits(k, Committed(k), Committed(k)')
    <3>1. CASE k \notin DOMAIN changes
      <4>1. bumps'[k] = bumps[k] /\ Committed(k)' = Committed(k)
        BY <1>2, <1>5, <2>1, <3>1 DEF Apply, Committed
      <4> QED BY <4>1 DEF Commits, TypeOK
    <3>2. CASE k \in DOMAIN changes
      <4>1. Committed(k) = row[k] /\ Committed(k)' = row'[k] /\ Changed(w, k, row[k], row'[k])
        BY <1>3, <2>1, <2>3, <3>2 DEF Committed
      <4>2. bumps'[k] = IF VersionMoved(row[k], row'[k]) THEN bumps[k] + 1 ELSE bumps[k]
        BY <1>2, <1>5, <3>2 DEF Apply
      <4> QED BY <4>1, <4>2 DEF Changed, Commits, VersionMoved, TypeOK
    <3> QED BY <3>1, <3>2
  <2>7. \A k \in Keys : AllImages(k)' \subseteq AllImages(k) \cup {Committed(k)'}
    BY DEF AllImages
  <2>8. Images_'
    BY <2>6, <2>7, ImagesEvolve
  <2> QED BY <2>4, <2>5, <2>8 DEF Pending
<1> QED BY <1>4, <1>5

-----------------------------------------------------------------------------
(* The steps of a worker *)

(* A step that touches no row and nothing anybody has seen, of a worker    *)
(* that goes to its end or has locked nothing.                             *)
LEMMA MoveKeeps ==
  ASSUME IInv, TypeOK', NEW w \in Workers,
         UNCHANGED <<task, realTx, store, seen, snap>>,
         \A v \in Workers : v # w => pc'[v] = pc[v],
         pc'[w] = "finish" \/ \A k \in Keys : locker[k] # w
  PROVE  Locks' /\ Pending' /\ Images_'
<1>1. \A v : InTx(v)' = InTx(v) /\ Op(v)' = Op(v)
  BY DEF InTx, Op, Items_, IsTouch
<1>2. /\ row' = row /\ locker' = locker /\ undo' = undo /\ bumps' = bumps
      /\ seen' = seen
  BY DEF store
<1>3. Locks'
  <2> SUFFICES ASSUME NEW k \in Keys, locker[k] # Nobody
               PROVE  /\ InTx(locker[k])
                      /\ pc'[locker[k]] \in {"stmt", "finish"}
                      /\ Op(locker[k]) = "retry" => pc'[locker[k]] = "finish"
    BY <1>1, <1>2 DEF Locks
  <2>1. locker[k] \in Workers
    BY DEF IInv, TypeOK
  <2> QED BY <2>1 DEF IInv, Locks
<1>4. Pending'
  BY <1>1, <1>2 DEF IInv, Pending, PendingRow, Keeps, Grows
<1>5. Images_'
  BY ReadersKeep DEF IInv
<1> QED BY <1>3, <1>4, <1>5

LEMMA ReadType ==
  ASSUME TypeOK, NEW w \in Workers, Read(w)
  PROVE  TypeOK'
<1>1. \A k \in Keys : Committed(k) \in Rows \cup {NoRow}
  BY DEF TypeOK, Committed
<1>2. \A k \in Keys : Visible(w, k) \in Rows \cup {NoRow}
  <2> SUFFICES ASSUME NEW k \in Keys, snap[w] # {}
               PROVE  (CHOOSE s \in snap[w] : TRUE)[k] \in Rows \cup {NoRow}
    BY <1>1 DEF TypeOK, Visible
  <2>1. (CHOOSE s \in snap[w] : TRUE) \in snap[w]
    OBVIOUS
  <2>2. snap[w] \subseteq [Keys -> Rows \cup {NoRow}]
    BY DEF TypeOK
  <2> QED BY <2>1, <2>2
<1>3. seen' \in [Workers -> [Keys -> Rows \cup {NoRow}]]
  <2> DEFINE mine == [k \in Keys |-> IF k \in KeysOf(w) THEN Visible(w, k) ELSE NoRow]
  <2>1. mine \in [Keys -> Rows \cup {NoRow}]
    BY <1>2
  <2>2. seen' = [seen EXCEPT ![w] = mine]
    BY DEF Read
  <2> HIDE DEF mine
  <2> QED BY <2>1, <2>2 DEF TypeOK
<1>4. snap' \in [Workers -> SUBSET [Keys -> Rows \cup {NoRow}]]
  <2> DEFINE view == [k \in Keys |-> Committed(k)]
  <2>1. view \in [Keys -> Rows \cup {NoRow}]
    BY <1>1
  <2>2. snap' = snap \/ snap' = [snap EXCEPT ![w] = {view}]
    BY DEF Read
  <2> DEFINE V == [Keys -> Rows \cup {NoRow}]
  <2>3. snap \in [Workers -> SUBSET V] /\ view \in V
    BY <2>1 DEF TypeOK
  <2> HIDE DEF view, V
  <2>4. snap' \in [Workers -> SUBSET V]
    BY <2>2, <2>3
  <2> QED BY <2>4 DEF V
<1>5. pc' \in [Workers -> Locations] /\ outcome' \in [Workers -> Outcomes]
  BY DEF Read, TypeOK, Goto, End, Locations, Outcomes
<1> QED BY <1>3, <1>4, <1>5 DEF Read, TypeOK, store, Items_

(* Reading makes no new images.                                            *)
LEMMA ReadImages ==
  ASSUME TypeOK, Locks, NEW w \in Workers, Read(w), NEW k \in Keys
  PROVE  AllImages(k)' \subseteq AllImages(k)
<1> SUFFICES ASSUME NEW r \in AllImages(k)'
             PROVE  r \in AllImages(k)
  OBVIOUS
<1>1. \A v \in Workers : v # w => pc'[v] = pc[v] /\ seen'[v] = seen[v]
  BY DEF TypeOK, Read, Goto, End
<1>2. Committed(k)' = Committed(k)
  BY DEF Read, store, Committed
<1>3. locker[k] # w
  BY NobodyAssumption DEF Locks, Read
<1>4. r # NoRow
  BY DEF AllImages
<1>5. CASE r = Committed(k)
  BY <1>4, <1>5 DEF AllImages
<1>6. CASE \E v \in Workers : r = seen'[v][k]
  <2>1. PICK v \in Workers : r = seen'[v][k]
    BY <1>6
  <2>2. CASE v # w
    BY <1>1, <1>4, <2>1, <2>2 DEF AllImages
  <2>3. CASE v = w
    <3>1. r = Visible(w, k)
      BY <1>4, <2>1, <2>3 DEF Read, IInv, TypeOK
    <3>2. CASE snap[w] # {}
      <4> DEFINE view == CHOOSE s \in snap[w] : TRUE
      <4>1. view \in snap[w]
        BY <3>2
      <4>2. r = view[k]
        BY <1>3, <3>1, <3>2 DEF Visible
      <4> HIDE DEF view
      <4>3. \E s \in snap[w] : r = s[k]
        BY <4>1, <4>2
      <4> QED BY <1>4, <4>3 DEF AllImages
    <3>3. CASE snap[w] = {}
      BY <1>3, <1>4, <3>1, <3>3 DEF Visible, AllImages
    <3> QED BY <3>2, <3>3
  <2> QED BY <2>2, <2>3
<1>7. CASE \E v \in Workers : \E s \in snap'[v] : r = s[k]
  <2>1. PICK v \in Workers : \E s \in snap'[v] : r = s[k]
    BY <1>7
  <2>2. PICK s \in snap'[v] : r = s[k]
    BY <2>1
  <2>3. CASE s \in snap[v]
    BY <1>4, <2>2, <2>3 DEF AllImages
  <2>4. CASE s \notin snap[v]
    <3>1. s = [x \in Keys |-> Committed(x)]
      BY <2>2, <2>4 DEF Read, IInv, TypeOK
    <3> QED BY <1>4, <2>2, <3>1 DEF AllImages
  <2> QED BY <2>3, <2>4
<1> QED BY <1>2, <1>5, <1>6, <1>7 DEF AllImages

LEMMA ReadKeeps ==
  ASSUME IInv, TypeOK', NEW w \in Workers, Read(w)
  PROVE  Locks' /\ Pending' /\ Images_'
<1>1. \A v : InTx(v)' = InTx(v) /\ Op(v)' = Op(v)
  BY DEF Read, InTx, Op, Items_, IsTouch
<1>2. /\ row' = row /\ locker' = locker /\ undo' = undo /\ bumps' = bumps
      /\ \A k \in Keys : Committed(k)' = Committed(k)
  BY DEF Read, store, Committed
<1>3. \A k \in Keys : locker[k] # w
  BY NobodyAssumption DEF IInv, Locks, Read
<1>4. \A v \in Workers : v # w => pc'[v] = pc[v] /\ seen'[v] = seen[v]
  BY ZenonT(60) DEF IInv, TypeOK, Read, Goto, End
<1>5. Locks'
  <2> SUFFICES ASSUME NEW k \in Keys, locker[k] # Nobody
               PROVE  /\ InTx(locker[k])
                      /\ pc'[locker[k]] \in {"stmt", "finish"}
                      /\ Op(locker[k]) = "retry" => pc'[locker[k]] = "finish"
    BY <1>1, <1>2 DEF Locks
  <2>1. locker[k] \in Workers /\ locker[k] # w
    BY <1>3 DEF IInv, TypeOK
  <2> QED BY <1>4, <2>1 DEF IInv, Locks
<1>6. Pending'
  <2> SUFFICES ASSUME NEW k \in Keys, locker[k] # Nobody
               PROVE  PendingRow(k)'
    BY <1>2 DEF Pending
  <2>1. locker[k] \in Workers /\ seen'[locker[k]] = seen[locker[k]]
    BY <1>3, <1>4 DEF IInv, TypeOK
  <2>2. PendingRow(k)
    BY DEF IInv, Pending
  <2> QED BY <1>1, <1>2, <2>1, <2>2 DEF PendingRow, Keeps, Grows
<1>7. \A k \in Keys : AllImages(k)' \subseteq AllImages(k) \cup {Committed(k)'}
  BY ReadImages DEF IInv
<1>8. Images_'
  <2>1. \A k \in Keys : bumps[k] <= bumps'[k]
    BY <1>2 DEF IInv, TypeOK
  <2> QED BY <1>2, <1>7, <2>1, ImagesEvolve DEF IInv, Commits
<1> QED BY <1>5, <1>6, <1>8

(* The payloads of a statement.                                            *)
BatchItems(w) == {Items_(w)[i] : i \in ToSet(Batch(w))}

LEMMA BatchType ==
  ASSUME TypeOK, NEW w \in Workers, IsTouch(w) \/ todo[w] # <<>>
  PROVE  /\ BatchItems(w) \subseteq Items
         /\ Batch(w) \in Seq(DOMAIN Items_(w))
         /\ SubSeq(todo[w], Len(Batch(w)) + 1, Len(todo[w])) \in Seq(DOMAIN Items_(w))
<1> DEFINE D == DOMAIN Items_(w)
           t == todo[w]
<1>1. t \in Seq(D) /\ TouchChunk \in Nat \ {0}
  BY LimitsAssumption DEF TypeOK
<1>2. Batch(w) \in Seq(D) /\ Len(Batch(w)) \in Nat
  <2>1. CASE IsTouch(w)
    <3> DEFINE n == IF Len(t) < TouchChunk THEN Len(t) ELSE TouchChunk
    <3>1. n \in Nat /\ n <= Len(t) /\ Batch(w) = SubSeq(t, 1, n)
      BY <1>1, <2>1 DEF Batch
    <3> HIDE DEF n, t, D
    <3> QED BY <1>1, <3>1
  <2>2. CASE ~IsTouch(w)
    <3>1. Batch(w) = <<Head(t)>> /\ t # <<>>
      BY <2>2 DEF Batch
    <3> HIDE DEF t, D
    <3> QED BY <1>1, <3>1
  <2> QED BY <2>1, <2>2
<1>3. SubSeq(t, Len(Batch(w)) + 1, Len(t)) \in Seq(D)
  <2> HIDE DEF t, D
  <2> QED BY <1>1, <1>2
<1>4. BatchItems(w) \subseteq Items
  <2>1. ToSet(Batch(w)) \subseteq D
    <3> HIDE DEF D
    <3> QED BY <1>2 DEF ToSet
  <2>2. \A i \in D : Items_(w)[i] \in Items
    BY TaskType
  <2> HIDE DEF D
  <2> QED BY <2>1, <2>2 DEF BatchItems
<1> QED BY <1>2, <1>3, <1>4

LEMMA EffectChanges ==
  ASSUME TypeOK, NEW w \in Workers, NEW item \in Items,
         Affects(w, item, row[item.key])
  PROVE  LET k == item.key  new == Effect(w, item, row[k])
         IN  new \in Rows \cup {NoRow} /\ Changed(w, k, row[k], new)
<1> DEFINE k == item.key
           new == Effect(w, item, row[k])
<1>1. CASE Op(w) = "delete"
  <2>1. new = NoRow /\ row[k] # NoRow
    BY <1>1 DEF Effect, Affects, Matches
  <2> QED BY <1>1, <2>1 DEF Changed
<1>2. CASE Op(w) = "insert"
  <2>1. /\ new = [ver |-> 0, val |-> {w}, touched |-> {}, born |-> bumps[k] + 1]
        /\ row[k] = NoRow
    BY <1>2 DEF Effect, Affects
  <2>2. k \in Keys /\ bumps[k] + 1 \in Nat
    BY DEF TypeOK, Items
  <2>3. new \in Rows
    <3> HIDE DEF new, k
    <3> QED BY <2>1, <2>2 DEF Rows
  <2>4. new # NoRow
    BY <2>3, NobodyAssumption
  <2> QED BY <1>2, <2>1, <2>3, <2>4 DEF Changed
<1>3. CASE Op(w) \notin {"delete", "insert"}
  <2>1. new = Updated(w, item, row[k]) /\ Matches(w, item, row[k])
    BY <1>3 DEF Effect, Affects
  <2> QED BY <1>3, <2>1, UpdatedChanges
<1> QED BY <1>1, <1>2, <1>3

(* The changes of one statement.                                           *)
Affected(w) == {item \in BatchItems(w) : Affects(w, item, row[item.key])}
StatementChanges(w) ==
  [k \in {item.key : item \in Affected(w)} |->
     Effect(w, CHOOSE item \in Affected(w) : item.key = k, row[k])]

LEMMA StatementApplies ==
  ASSUME TypeOK, NEW w \in Workers, Statement(w)
  PROVE  /\ Apply(w, StatementChanges(w))
         /\ Changes(w, StatementChanges(w))
         /\ DOMAIN StatementChanges(w) \subseteq Keys
         /\ hits' = [hits EXCEPT ![w] = @ \cup DOMAIN StatementChanges(w)]
<1>1. /\ Apply(w, StatementChanges(w))
      /\ hits' = [hits EXCEPT ![w] = @ \cup DOMAIN StatementChanges(w)]
      /\ \A item \in BatchItems(w) : locker[item.key] \in {w, Nobody}
      /\ todo[w] # <<>>
  BY DEF Statement, StatementChanges, Affected, BatchItems
<1>2. Affected(w) \subseteq Items
  BY <1>1, BatchType DEF Affected
<1>3. DOMAIN StatementChanges(w) \subseteq Keys
  BY <1>2 DEF StatementChanges, Items
<1>4. Changes(w, StatementChanges(w))
  <2> SUFFICES ASSUME NEW k \in Keys, k \in {item.key : item \in Affected(w)}
               PROVE  /\ locker[k] \in {w, Nobody}
                      /\ StatementChanges(w)[k] \in Rows \cup {NoRow}
                      /\ Changed(w, k, row[k], StatementChanges(w)[k])
    BY DEF Changes, StatementChanges
  <2> DEFINE item == CHOOSE item \in Affected(w) : item.key = k
  <2>1. item \in Affected(w) /\ item.key = k
    OBVIOUS
  <2>2. StatementChanges(w)[k] = Effect(w, item, row[k])
    BY DEF StatementChanges
  <2> HIDE DEF item
  <2>3. item \in Items /\ item \in BatchItems(w) /\ Affects(w, item, row[item.key])
    BY <1>2, <2>1 DEF Affected
  <2> QED BY <1>1, <2>1, <2>2, <2>3, EffectChanges
<1> QED BY <1>1, <1>3, <1>4

LEMMA StatementKeeps ==
  ASSUME IInv, NEW w \in Workers, Statement(w)
  PROVE  TypeOK' /\ Locks' /\ Pending' /\ Images_'
<1>1. TypeOK
  BY DEF IInv
<1>2. TypeOK'
  <2>1. hits' \in [Workers -> SUBSET Keys]
    <3> DEFINE D == DOMAIN StatementChanges(w)
    <3>1. hits' = [hits EXCEPT ![w] = @ \cup D] /\ D \subseteq Keys
      BY <1>1, StatementApplies
    <3>2. hits \in [Workers -> SUBSET Keys]
      BY <1>1 DEF TypeOK
    <3> HIDE DEF D
    <3> QED BY <3>1, <3>2
  <2>2. /\ todo' = [todo EXCEPT ![w] = SubSeq(todo[w], Len(Batch(w)) + 1, Len(todo[w]))]
        /\ \A v \in Workers : Items_(v)' = Items_(v)
    BY DEF Statement, Items_
  <2> DEFINE rest == SubSeq(todo[w], Len(Batch(w)) + 1, Len(todo[w]))
  <2>3. rest \in Seq(DOMAIN Items_(w)) /\ rest \in Seq(Nat)
    <3>1. rest \in Seq(DOMAIN Items_(w))
      BY <1>1, BatchType DEF Statement
    <3>2. DOMAIN Items_(w) \subseteq Nat
      BY <1>1, TaskType
    <3> HIDE DEF rest
    <3> QED BY <3>1, <3>2
  <2>4. todo' \in [Workers -> Seq(Nat)] /\ \A v \in Workers : todo'[v] \in Seq(DOMAIN Items_(v)')
    <3> HIDE DEF rest
    <3>1. todo' = [todo EXCEPT ![w] = rest]
      BY <2>2 DEF rest
    <3>2. todo \in [Workers -> Seq(Nat)] /\ \A v \in Workers : todo[v] \in Seq(DOMAIN Items_(v))
      BY <1>1 DEF TypeOK
    <3> QED BY <2>2, <2>3, <3>1, <3>2
  <2> QED BY <1>1, <2>1, <2>4, StatementApplies, ApplyType DEF Statement, TypeOK
<1>3. Proceeds(w)
  BY DEF Statement, Proceeds
<1> QED BY <1>1, <1>2, <1>3, StatementApplies, ApplyKeeps DEF IInv, Statement

LEMMA RetryHits ==
  ASSUME TypeOK, NEW w \in Workers, RetryUpdate(w), UNCHANGED fails
  PROVE  \E k \in Keys : \E new :
           /\ Apply(w, [x \in {k} |-> new]) /\ Changes(w, [x \in {k} |-> new])
           /\ hits' = [hits EXCEPT ![w] = {k}] /\ End(w, "ok")
<1> DEFINE item == Head(Items_(w))
           k == item.key
           new == Updated(w, item, row[k])
<1>1. item \in Items /\ k \in Keys
  <2>1. Items_(w) \in Seq(Items) /\ Items_(w) # <<>>
    BY TaskType
  <2>2. item \in Items
    BY <2>1
  <2> QED BY <2>2 DEF Items
<1>2. fails[w] \in Nat
  BY DEF TypeOK
<1>3. fails' # [fails EXCEPT ![w] = @ + 1]
  BY <1>2 DEF TypeOK
<1>4. /\ locker[k] \in {w, Nobody} /\ Matches(w, item, row[k])
      /\ Apply(w, [x \in {k} |-> new])
      /\ hits' = [hits EXCEPT ![w] = {k}] /\ End(w, "ok")
      /\ Op(w) = "retry"
  BY <1>3 DEF RetryUpdate
<1>5. new \in Rows /\ Changed(w, k, row[k], new)
  BY <1>1, <1>4, UpdatedChanges
<1>6. Changes(w, [x \in {k} |-> new])
  <2> HIDE DEF new, k
  <2> QED BY <1>4, <1>5 DEF Changes
<1> QED BY <1>1, <1>4, <1>6

LEMMA RetryKeeps ==
  ASSUME IInv, NEW w \in Workers, RetryUpdate(w)
  PROVE  TypeOK' /\ Locks' /\ Pending' /\ Images_'
<1>1. TypeOK
  BY DEF IInv
<1>2. \A v : Items_(v)' = Items_(v)
  BY DEF RetryUpdate, Items_
<1>3. CASE UNCHANGED fails
  <2> DEFINE Hit(k, new) ==
          /\ Apply(w, [x \in {k} |-> new]) /\ Changes(w, [x \in {k} |-> new])
          /\ hits' = [hits EXCEPT ![w] = {k}] /\ End(w, "ok")
  <2>0. PICK k \in Keys : \E new : Hit(k, new)
    BY <1>1, <1>3, RetryHits
  <2>1. PICK new : Hit(k, new)
    BY <2>0
  <2>2. /\ row' \in [Keys -> Rows \cup {NoRow}]
        /\ undo' \in [Keys -> Rows \cup {NoRow}]
        /\ locker' \in [Keys -> Workers \cup {Nobody}]
        /\ bumps' \in [Keys -> Nat]
    BY <1>1, <2>1, ApplyType
  <2>3. hits' \in [Workers -> SUBSET Keys]
    BY <1>1, <2>1 DEF TypeOK
  <2>4. TypeOK'
    BY <1>1, <1>2, <1>3, <2>1, <2>2, <2>3
    DEF TypeOK, RetryUpdate, End, Goto, Locations, Outcomes
  <2>5. Proceeds(w)
    BY <1>1, <2>1 DEF RetryUpdate, Proceeds, End, Goto, TypeOK
  <2>6. UNCHANGED <<task, realTx, seen, snap>>
    BY DEF RetryUpdate
  <2> QED BY <2>1, <2>4, <2>5, <2>6, ApplyKeeps DEF IInv
<1>4. CASE fails' # fails
  <2>1. /\ UNCHANGED <<task, realTx, store, seen, snap, todo, hits>>
        /\ fails' = [fails EXCEPT ![w] = @ + 1]
        /\ IF fails'[w] = MaxAttempts THEN End(w, "exhausted")
           ELSE Goto(w, "read") /\ UNCHANGED outcome
        /\ pc[w] = "stmt" /\ Op(w) = "retry"
    BY <1>4 DEF RetryUpdate
  <2>2. \A k \in Keys : locker[k] # w
    BY <2>1, NobodyAssumption DEF IInv, Locks
  <2>3. pc' \in [Workers -> Locations] /\ outcome' \in [Workers -> Outcomes]
    BY <1>1, <2>1 DEF TypeOK, End, Goto, Locations, Outcomes
  <2>4. TypeOK'
    <3>1. fails' \in [Workers -> Nat]
      BY <1>1, <2>1 DEF TypeOK
    <3> QED BY <1>1, <1>2, <2>1, <2>3, <3>1 DEF TypeOK, store
  <2>5. \A v \in Workers : v # w => pc'[v] = pc[v]
    BY <1>1, <2>1 DEF TypeOK, End, Goto
  <2> QED BY <2>1, <2>2, <2>4, <2>5, MoveKeeps
<1> QED BY <1>3, <1>4

(* The steps that only decide where a worker goes.                         *)
LEMMA DecisionKeeps ==
  ASSUME IInv, NEW w \in Workers, Count(w) \/ StatementsDone(w) \/ Victim(w)
  PROVE  TypeOK' /\ Locks' /\ Pending' /\ Images_'
<1>1. TypeOK
  BY DEF IInv
<1>2. /\ UNCHANGED <<task, realTx, store, seen, snap, todo, hits, fails>>
      /\ \/ \E o \in Outcomes : End(w, o)
         \/ pc[w] = "count" /\ Goto(w, "stmt") /\ UNCHANGED outcome
  BY DEF Count, StatementsDone, Victim, Outcomes
<1>3. TypeOK'
  <2>1. pc' \in [Workers -> Locations] /\ outcome' \in [Workers -> Outcomes]
    BY ZenonT(60), <1>1, <1>2 DEF TypeOK, End, Goto, Locations
  <2>2. \A v : Items_(v)' = Items_(v)
    BY <1>2 DEF Items_
  <2> QED BY <1>1, <1>2, <2>1, <2>2 DEF TypeOK, store
<1>4. \A v \in Workers : v # w => pc'[v] = pc[v]
  BY <1>1, <1>2 DEF TypeOK, End, Goto
<1>5. pc'[w] = "finish" \/ \A k \in Keys : locker[k] # w
  BY <1>1, <1>2, NobodyAssumption DEF IInv, Locks, TypeOK, End, Goto
<1> QED BY <1>2, <1>3, <1>4, <1>5, MoveKeeps

(* What a commit or a rollback makes of a row.                             *)
LEMMA FinishRows ==
  ASSUME IInv, NEW w \in Workers, Finish(w), NEW k \in Keys
  PROVE  /\ locker'[k] = IF locker[k] = w THEN Nobody ELSE locker[k]
         /\ locker[k] # w => /\ row'[k] = row[k] /\ undo'[k] = undo[k]
                            /\ bumps'[k] = bumps[k]
         /\ \/ /\ row'[k] = row[k]
               /\ bumps'[k] = IF locker[k] = w /\ VersionMoved(undo[k], row[k])
                              THEN bumps[k] + 1 ELSE bumps[k]
            \/ /\ row'[k] = IF locker[k] = w THEN undo[k] ELSE row[k]
               /\ bumps'[k] = bumps[k]
BY DEF Finish, Release, Bumped, IInv, TypeOK

LEMMA FinishType ==
  ASSUME IInv, NEW w \in Workers, Finish(w)
  PROVE  TypeOK'
<1>1. TypeOK
  BY DEF IInv
<1>2. row' \in [Keys -> Rows \cup {NoRow}]
  <2>1. \A k \in Keys : row[k] \in Rows \cup {NoRow} /\ undo[k] \in Rows \cup {NoRow}
    BY <1>1 DEF TypeOK
  <2>2. row' = row \/ row' = [k \in Keys |-> IF locker[k] = w THEN undo[k] ELSE row[k]]
    BY DEF Finish
  <2> QED BY <1>1, <2>1, <2>2 DEF TypeOK
<1>3. bumps' \in [Keys -> Nat]
  <2>1. \A k \in Keys : bumps[k] \in Nat /\ bumps[k] + 1 \in Nat
    BY <1>1 DEF TypeOK
  <2>2. \/ bumps' = bumps
        \/ bumps' = [k \in Keys |-> IF locker[k] = w /\ VersionMoved(undo[k], row[k])
                                    THEN bumps[k] + 1 ELSE bumps[k]]
    BY DEF Finish, Bumped
  <2>3. bumps \in [Keys -> Nat]
    BY <1>1 DEF TypeOK
  <2> QED BY <2>1, <2>2, <2>3, Zenon
<1>4. /\ locker' \in [Keys -> Workers \cup {Nobody}]
      /\ undo' \in [Keys -> Rows \cup {NoRow}]
      /\ hits' \in [Workers -> SUBSET Keys]
      /\ pc' \in [Workers -> Locations]
  BY <1>1 DEF TypeOK, Finish, Release, Goto, Locations
<1>5. snap' \in [Workers -> SUBSET [Keys -> Rows \cup {NoRow}]]
  <2> DEFINE V == [Keys -> Rows \cup {NoRow}]
  <2>1. snap \in [Workers -> SUBSET V] /\ snap' = [snap EXCEPT ![w] = {}]
    BY <1>1 DEF TypeOK, Finish, Release
  <2> HIDE DEF V
  <2>2. snap' \in [Workers -> SUBSET V]
    BY <2>1
  <2> QED BY <2>2 DEF V
<1>6. \A v : Items_(v)' = Items_(v)
  BY DEF Finish, Release, Items_
<1> QED BY <1>1, <1>2, <1>3, <1>4, <1>5, <1>6 DEF TypeOK, Finish, Release

(* Nor does the end of a transaction make any but the committed image.     *)
LEMMA FinishImages ==
  ASSUME TypeOK, NEW w \in Workers, Finish(w), NEW k \in Keys
  PROVE  AllImages(k)' \subseteq AllImages(k) \cup {Committed(k)'}
<1> SUFFICES ASSUME NEW r \in AllImages(k)', r # Committed(k)'
             PROVE  r \in AllImages(k)
  OBVIOUS
<1>1. /\ seen' = seen
      /\ \A v \in Workers : v # w => snap'[v] = snap[v]
      /\ snap'[w] = {}
  BY DEF Finish, Release, TypeOK
<1>2. CASE \E v \in Workers : r = seen[v][k]
  BY <1>2 DEF AllImages
<1>3. CASE \E v \in Workers : \E s \in snap'[v] : r = s[k]
  <2>1. PICK v \in Workers : \E s \in snap'[v] : r = s[k]
    BY <1>3
  <2>2. \E s \in snap[v] : r = s[k]
    BY <1>1, <2>1
  <2> QED BY <2>2 DEF AllImages
<1> QED BY <1>1, <1>2, <1>3 DEF AllImages

LEMMA FinishKeeps ==
  ASSUME IInv, NEW w \in Workers, Finish(w)
  PROVE  TypeOK' /\ Locks' /\ Pending' /\ Images_'
<1>1. TypeOK /\ TypeOK'
  BY FinishType DEF IInv
<1>2. /\ \A v : InTx(v)' = InTx(v) /\ Op(v)' = Op(v)
      /\ seen' = seen
      /\ \A v \in Workers : v # w => pc'[v] = pc[v] /\ snap'[v] = snap[v]
      /\ snap'[w] = {}
  BY <1>1 DEF Finish, Release, Goto, TypeOK, InTx, Op, Items_, IsTouch
<1>3. w # Nobody
  BY NobodyAssumption
<1>4. ASSUME NEW k \in Keys, locker'[k] # Nobody
      PROVE  /\ locker[k] \in Workers \ {w} /\ locker'[k] = locker[k]
             /\ row'[k] = row[k] /\ undo'[k] = undo[k] /\ bumps'[k] = bumps[k]
  BY <1>1, <1>4, FinishRows DEF TypeOK
<1>5. Locks'
  <2> SUFFICES ASSUME NEW k \in Keys, locker'[k] # Nobody
               PROVE  /\ InTx(locker'[k])
                      /\ pc'[locker'[k]] \in {"stmt", "finish"}
                      /\ Op(locker'[k]) = "retry" => pc'[locker'[k]] = "finish"
    BY <1>2 DEF Locks
  <2> QED BY <1>2, <1>4 DEF IInv, Locks, TypeOK
<1>6. Pending'
  <2> SUFFICES ASSUME NEW k \in Keys, locker'[k] # Nobody
               PROVE  PendingRow(k)'
    BY DEF Pending
  <2>1. PendingRow(k)
    BY <1>4 DEF IInv, Pending
  <2> QED BY <1>2, <1>4, <2>1 DEF PendingRow, Keeps, Grows
<1>7. ASSUME NEW k \in Keys
      PROVE  bumps[k] <= bumps'[k] /\ Commits(k, Committed(k), Committed(k)')
  <2>1. CASE locker[k] # w
    <3>1. Committed(k)' = Committed(k) /\ bumps'[k] = bumps[k]
      BY <1>3, <2>1, FinishRows DEF Committed
    <3> QED BY <1>1, <3>1 DEF Commits, TypeOK
  <2>2. CASE locker[k] = w
    <3>1. Committed(k) = undo[k] /\ Committed(k)' = row'[k]
      BY <1>3, <2>2, FinishRows DEF Committed
    <3>2. PendingRow(k)
      BY <1>3, <2>2 DEF IInv, Pending
    <3>3. CASE row'[k] = undo[k] /\ bumps'[k] = bumps[k]
      BY <1>1, <3>1, <3>3 DEF Commits, TypeOK
    <3>4. CASE /\ row'[k] = row[k]
               /\ bumps'[k] = IF VersionMoved(undo[k], row[k]) THEN bumps[k] + 1 ELSE bumps[k]
      BY <1>1, <3>1, <3>2, <3>4 DEF Commits, TypeOK, PendingRow, VersionMoved
    <3> QED BY <2>2, <3>3, <3>4, FinishRows
  <2> QED BY <2>1, <2>2
<1>8. \A k \in Keys : AllImages(k)' \subseteq AllImages(k) \cup {Committed(k)'}
  BY <1>1, FinishImages
<1>9. Images_'
  BY <1>1, <1>7, <1>8, ImagesEvolve DEF IInv
<1> QED BY <1>1, <1>5, <1>6, <1>9

-----------------------------------------------------------------------------
(* The invariant *)

LEMMA InitIInv == Init => IInv
<1> SUFFICES ASSUME Init PROVE IInv
  OBVIOUS
<1> DEFINE first == [ver |-> 0, val |-> {}, touched |-> {}, born |-> 0]
<1>1. first \in Rows
  BY DEF Rows
<1>2. /\ row = [k \in Keys |-> first] /\ locker = [k \in Keys |-> Nobody]
      /\ seen = [w \in Workers |-> [k \in Keys |-> NoRow]]
      /\ snap = [w \in Workers |-> {}] /\ bumps = [k \in Keys |-> 0]
  BY DEF Init
<1>3. TypeOK
  <2>1. \A w \in Workers : Items_(w) \in Seq(Items)
    BY WorkloadsAssumption DEF Init, Items_, Tasks
  <2>2. todo = [w \in Workers |-> [i \in DOMAIN Items_(w) |-> i]]
    BY DEF Init
  <2>3. \A w \in Workers : todo[w] \in Seq(DOMAIN Items_(w)) /\ todo[w] \in Seq(Nat)
    <3> SUFFICES ASSUME NEW w \in Workers
                 PROVE  todo[w] \in Seq(DOMAIN Items_(w)) /\ todo[w] \in Seq(Nat)
      OBVIOUS
    <3>1. PICK n \in Nat : DOMAIN Items_(w) = 1..n
      BY <2>1
    <3>2. todo[w] = [i \in 1..n |-> i]
      BY <2>2, <3>1
    <3> QED BY <3>1, <3>2
  <2>4. todo \in [Workers -> Seq(Nat)]
    BY <2>2, <2>3
  <2>5. snap \in [Workers -> SUBSET [Keys -> Rows \cup {NoRow}]]
    BY <1>2
  <2>6. /\ row \in [Keys -> Rows \cup {NoRow}]
        /\ seen \in [Workers -> [Keys -> Rows \cup {NoRow}]]
    <3> HIDE DEF first
    <3> QED BY <1>1, <1>2
  <2>7. /\ task \in Workloads /\ realTx \in TxModes
        /\ undo \in [Keys -> Rows \cup {NoRow}]
        /\ locker \in [Keys -> Workers \cup {Nobody}]
        /\ pc \in [Workers -> Locations]
        /\ hits \in [Workers -> SUBSET Keys]
        /\ fails \in [Workers -> Nat]
        /\ outcome \in [Workers -> Outcomes]
        /\ bumps \in [Keys -> Nat]
    BY DEF Init, Locations, Outcomes
  <2> QED BY <2>3, <2>4, <2>5, <2>6, <2>7 DEF TypeOK
<1>4. Locks /\ Pending
  BY <1>2 DEF Locks, Pending
<1>5. \A k \in Keys : Committed(k) = first /\ AllImages(k) \subseteq {first}
  BY <1>2 DEF Committed, AllImages
<1>6. Images_
  <2>1. first.born = 0 /\ first.ver = 0
    OBVIOUS
  <2>2. SameContent(first, first) /\ Before(first, first)
    BY <2>1 DEF SameContent, Before
  <2>3. Births
    BY <1>2, <1>5, <2>1 DEF Births
  <2> HIDE DEF first
  <2> QED BY <1>5, <2>2, <2>3 DEF Images_, Content, Newest
<1> QED BY <1>3, <1>4, <1>6 DEF IInv

LEMMA NextIInv == IInv /\ [Next]_vars => IInv'
<1> SUFFICES ASSUME IInv, [Next]_vars PROVE IInv'
  OBVIOUS
<1>1. ASSUME NEW w \in Workers, Work(w) PROVE IInv'
  <2>1. CASE Read(w)
    <3>1. TypeOK'
      BY <2>1, ReadType DEF IInv
    <3> QED BY <2>1, <3>1, ReadKeeps DEF IInv
  <2>2. CASE Count(w) \/ StatementsDone(w) \/ Victim(w)
    BY <2>2, DecisionKeeps DEF IInv
  <2>3. CASE Statement(w)
    BY <2>3, StatementKeeps DEF IInv
  <2>4. CASE RetryUpdate(w)
    BY <2>4, RetryKeeps DEF IInv
  <2>5. CASE Finish(w)
    BY <2>5, FinishKeeps DEF IInv
  <2> QED BY <1>1, <2>1, <2>2, <2>3, <2>4, <2>5 DEF Work
<1>2. CASE UNCHANGED vars
  <2>1. /\ task' = task /\ realTx' = realTx /\ row' = row /\ locker' = locker
        /\ undo' = undo /\ bumps' = bumps /\ pc' = pc /\ seen' = seen
        /\ snap' = snap /\ todo' = todo /\ hits' = hits /\ fails' = fails
        /\ outcome' = outcome
    BY <1>2 DEF vars, store
  <2>2. TypeOK'
    BY <2>1 DEF IInv, TypeOK, Items_
  <2>3. Locks' /\ Pending'
    BY <2>1 DEF IInv, Locks, Pending, PendingRow, Keeps, Grows, InTx, Op, Items_, IsTouch
  <2>4. Images_'
    BY <2>1, <2>2, ReadersKeep DEF IInv, store
  <2> QED BY <2>2, <2>3, <2>4 DEF IInv
<1> QED BY <1>1, <1>2 DEF Next

LEMMA AlwaysIInv == Spec => []IInv
BY InitIInv, NextIInv, PTL DEF Spec

(* The version identifies the content: two images of one incarnation of a  *)
(* row with the same version have the same versioned columns               *)
(* (docs/api/versioning.md:44-48, buildUpdate of sql-builder.ts).          *)
THEOREM VersionIdentifiesContent == Spec => []SameVersionSameContent
<1>1. IInv => SameVersionSameContent
  <2>1. \A k \in Keys : Images(k) \subseteq AllImages(k)
    BY DEF Images, AllImages
  <2> QED BY <2>1 DEF IInv, Images_, Content, SameContent, SameVersionSameContent
<1> QED BY <1>1, AlwaysIInv, PTL

-----------------------------------------------------------------------------
(* No lost update *)

LEMMA ApplyLosesNothing ==
  ASSUME IInv, NEW w \in Workers, NEW changes, Apply(w, changes), Changes(w, changes),
         NEW k \in Keys
  PROVE  KeepsChanges(k)
<1> SUFFICES ASSUME Committed(k) # NoRow, Committed(k)' # NoRow,
                    Committed(k)' # Committed(k),
                    ~(Committed(k).val \subseteq Committed(k)'.val)
             PROVE  seen[w][k] # NoRow /\ seen[w][k].born < Committed(k).born
  BY DEF KeepsChanges
<1>1. Changed(w, k, Committed(k), Committed(k)')
  BY ApplyCommits DEF IInv
<1>2. /\ seen[w][k] # NoRow /\ seen[w][k].ver = Committed(k).ver
      /\ seen[w][k].val \subseteq Committed(k)'.val
  BY <1>1 DEF Changed
<1>3. Committed(k).ver \in Nat
  BY RowType DEF IInv, TypeOK, Committed
<1> QED BY <1>2, <1>3, SeenContent DEF IInv

LEMMA FinishLosesNothing ==
  ASSUME IInv, NEW w \in Workers, Finish(w), NEW k \in Keys
  PROVE  KeepsChanges(k)
<1>1. w # Nobody
  BY NobodyAssumption
<1>2. CASE locker[k] # w
  <2>1. Committed(k)' = Committed(k)
    BY <1>1, <1>2, FinishRows DEF Committed
  <2> QED BY <2>1 DEF KeepsChanges
<1>3. CASE locker[k] = w
  <2>1. /\ Committed(k) = undo[k] /\ Committed(k)' = row'[k]
        /\ row'[k] = undo[k] \/ row'[k] = row[k]
    BY <1>1, <1>3, FinishRows DEF Committed
  <2>2. row[k] # NoRow /\ undo[k] # NoRow => Keeps(w, k, undo[k], row[k])
    BY <1>1, <1>3 DEF IInv, Pending, PendingRow
  <2> QED BY <2>1, <2>2 DEF KeepsChanges, Keeps
<1> QED BY <1>2, <1>3

LEMMA StepLosesNothing ==
  ASSUME IInv, [Next]_vars, NEW k \in Keys
  PROVE  KeepsChanges(k)
<1>1. CASE UNCHANGED store
  <2>1. Committed(k)' = Committed(k)
    BY <1>1 DEF store, Committed
  <2> QED BY <2>1 DEF KeepsChanges
<1>2. ASSUME NEW w \in Workers, Work(w) PROVE KeepsChanges(k)
  <2>1. CASE Read(w) \/ Count(w) \/ StatementsDone(w) \/ Victim(w)
    BY <1>1, <2>1 DEF Read, Count, StatementsDone, Victim
  <2>2. CASE Statement(w)
    BY <2>2, StatementApplies, ApplyLosesNothing DEF IInv
  <2>3. CASE RetryUpdate(w) /\ UNCHANGED fails
    BY <2>3, RetryHits, ApplyLosesNothing DEF IInv
  <2>4. CASE RetryUpdate(w) /\ fails' # fails
    BY <1>1, <2>4 DEF RetryUpdate
  <2>5. CASE Finish(w)
    BY <2>5, FinishLosesNothing
  <2> QED BY <1>2, <2>1, <2>2, <2>3, <2>4, <2>5 DEF Work
<1> QED BY <1>1, <1>2 DEF Next, vars

(* A conditional patch never overwrites a committed change of the row's    *)
(* versioned columns that its worker has not seen, unless what it has seen *)
(* is an earlier incarnation of the row (docs/api/versioning.md:9-21,      *)
(* with-optimistic-retry.ts:66-107).                                       *)
THEOREM UpdatesAreNotLost == Spec => NoLostUpdate
<1>1. IInv /\ [Next]_vars => \A k \in Keys : KeepsChanges(k)
  BY StepLosesNothing
<1> QED BY <1>1, AlwaysIInv, PTL DEF Spec, NoLostUpdate

-----------------------------------------------------------------------------
(* Lost rounds                                                             *)

(* No retry runs within a snapshot transaction of its caller: there a new  *)
(* round would read the old row again.                                     *)
RetriesReadAnew ==
  \A load \in Workloads : \A w \in Workers :
    load[w].op = "retry" => load[w].isolation # "snapshot"

(* The row a worker has read is no more the committed one.                 *)
Stale(w, k) == Committed(k) = NoRow \/ Committed(k).ver # seen[w][k].ver

(* A round that will be lost is paid for as soon as the row it has read is *)
(* stale.                                                                  *)
RoundOK(w) ==
  /\ Op(w) = "retry" => snap[w] = {} /\ pc[w] # "count"
  /\ Op(w) # "retry" => fails[w] = 0
  /\ \A k \in KeysOf(w) : fails[w] <= bumps[k]
  /\ Op(w) = "retry" /\ pc[w] = "stmt" =>
       \A k \in KeysOf(w) : seen[w][k] # NoRow /\ (Stale(w, k) => fails[w] + 1 <= bumps[k])

RoundInv == \A w \in Workers : RoundOK(w)

(* A committed change of the version is counted.                           *)
LEMMA CommitMoves ==
  ASSUME IInv, NEW w \in Workers, Work(w), NEW k \in Keys
  PROVE  /\ bumps[k] \in Nat /\ bumps'[k] \in Nat /\ bumps[k] <= bumps'[k]
         /\ Committed(k)' # Committed(k) /\ VersionMoved(Committed(k), Committed(k)') =>
              bumps[k] + 1 <= bumps'[k]
<1>0. bumps[k] \in Nat
  BY DEF IInv, TypeOK
<1>1. CASE UNCHANGED store
  <2>1. Committed(k)' = Committed(k) /\ bumps'[k] = bumps[k]
    BY <1>1 DEF store, Committed
  <2> QED BY <1>0, <2>1
<1>2. ASSUME NEW changes, Apply(w, changes), Changes(w, changes)
      PROVE  /\ bumps'[k] \in Nat /\ bumps[k] <= bumps'[k]
             /\ Committed(k)' # Committed(k) /\ VersionMoved(Committed(k), Committed(k)') =>
                  bumps[k] + 1 <= bumps'[k]
  <2>1. bumps'[k] = IF ~InTx(w) /\ k \in DOMAIN changes /\ VersionMoved(row[k], changes[k])
                    THEN bumps[k] + 1 ELSE bumps[k]
    BY <1>2 DEF Apply, IInv, TypeOK
  <2>2. k \in DOMAIN changes => row'[k] = changes[k]
    BY <1>2 DEF Apply
  <2>3. \/ Committed(k)' = Committed(k)
        \/ /\ ~InTx(w) /\ k \in DOMAIN changes
           /\ Committed(k) = row[k] /\ Committed(k)' = row'[k]
    BY <1>2, ApplyCommits DEF IInv
  <2> QED BY <1>0, <2>1, <2>2, <2>3
<1>3. CASE Statement(w)
  BY <1>0, <1>2, <1>3, StatementApplies DEF IInv
<1>4. CASE RetryUpdate(w) /\ UNCHANGED fails
  BY <1>0, <1>2, <1>4, RetryHits DEF IInv
<1>5. CASE RetryUpdate(w) /\ fails' # fails
  BY <1>1, <1>5 DEF RetryUpdate
<1>6. CASE Finish(w)
  <2>1. w # Nobody
    BY NobodyAssumption
  <2>2. CASE locker[k] # w
    <3>1. Committed(k)' = Committed(k) /\ bumps'[k] = bumps[k]
      BY <1>6, <2>1, <2>2, FinishRows DEF Committed
    <3> QED BY <1>0, <3>1
  <2>3. CASE locker[k] = w
    <3>1. Committed(k) = undo[k] /\ Committed(k)' = row'[k]
      BY <1>6, <2>1, <2>3, FinishRows DEF Committed
    <3>2. CASE row'[k] = undo[k] /\ bumps'[k] = bumps[k]
      BY <1>0, <3>1, <3>2
    <3>3. CASE /\ row'[k] = row[k]
               /\ bumps'[k] = IF VersionMoved(undo[k], row[k]) THEN bumps[k] + 1 ELSE bumps[k]
      BY <1>0, <3>1, <3>3
    <3> QED BY <1>6, <2>3, <3>2, <3>3, FinishRows
  <2> QED BY <2>2, <2>3
<1>7. CASE Read(w) \/ Count(w) \/ StatementsDone(w) \/ Victim(w)
  BY <1>1, <1>7 DEF Read, Count, StatementsDone, Victim
<1> QED BY <1>3, <1>4, <1>5, <1>6, <1>7 DEF Work

(* A row that was current and is stale after a step has been paid for.     *)
LEMMA StaleIsPaid ==
  ASSUME IInv, NEW w \in Workers, Work(w), NEW v \in Workers, NEW k \in Keys,
         seen'[v] = seen[v], seen[v][k] # NoRow, Stale(v, k)', ~Stale(v, k)
  PROVE  bumps[k] + 1 <= bumps'[k]
<1>1. Committed(k) # NoRow /\ Committed(k).ver = seen[v][k].ver
  BY DEF Stale
<1>2. Committed(k)' = NoRow \/ Committed(k)'.ver # Committed(k).ver
  BY <1>1 DEF Stale
<1>3. Committed(k)' # Committed(k) /\ VersionMoved(Committed(k), Committed(k)')
  BY <1>1, <1>2 DEF VersionMoved
<1> QED BY <1>3, CommitMoves

LEMMA OthersWait ==
  ASSUME IInv, NEW w \in Workers, Work(w)
  PROVE  /\ UNCHANGED <<task, realTx>>
         /\ \A v : Op(v)' = Op(v) /\ KeysOf(v)' = KeysOf(v) /\ InTx(v)' = InTx(v)
                   /\ IsTouch(v)' = IsTouch(v)
         /\ \A v \in Workers : v # w =>
              /\ pc'[v] = pc[v] /\ seen'[v] = seen[v] /\ snap'[v] = snap[v]
              /\ hits'[v] = hits[v] /\ fails'[v] = fails[v] /\ outcome'[v] = outcome[v]
<1> USE DEF IInv, TypeOK, Goto, End
<1>1. UNCHANGED <<task, realTx>>
  BY DEF Work, Read, Count, Statement, StatementsDone, RetryUpdate, Finish, Release, Victim
<1>2. \A v : Op(v)' = Op(v) /\ KeysOf(v)' = KeysOf(v) /\ InTx(v)' = InTx(v)
             /\ IsTouch(v)' = IsTouch(v)
  BY <1>1 DEF Op, KeysOf, Items_, InTx, IsTouch
<1>3. CASE Read(w)
  BY <1>1, <1>2, <1>3 DEF Read
<1>4. CASE Count(w) \/ StatementsDone(w) \/ Victim(w)
  BY <1>1, <1>2, <1>4 DEF Count, StatementsDone, Victim
<1>5. CASE Statement(w)
  BY <1>1, <1>2, <1>5 DEF Statement
<1>6. CASE RetryUpdate(w)
  BY <1>1, <1>2, <1>6 DEF RetryUpdate
<1>7. CASE Finish(w)
  BY <1>1, <1>2, <1>7 DEF Finish, Release
<1> QED BY <1>3, <1>4, <1>5, <1>6, <1>7 DEF Work

LEMMA KeysType ==
  ASSUME TypeOK, NEW w \in Workers
  PROVE  KeysOf(w) \subseteq Keys
<1>1. \A i \in DOMAIN Items_(w) : Items_(w)[i] \in Items
  BY TaskType
<1> QED BY <1>1 DEF KeysOf, Items

LEMMA RetryKey ==
  ASSUME TypeOK, NEW w \in Workers, Op(w) = "retry"
  PROVE  KeysOf(w) = {Head(Items_(w)).key} /\ Head(Items_(w)).key \in Keys
         /\ Head(Items_(w)) \in Items
<1>1. Len(Items_(w)) = 1 /\ Items_(w) \in Seq(Items)
  BY TaskType, WorkloadsAssumption DEF TypeOK, Op, Items_
<1>2. Head(Items_(w)) = Items_(w)[1] /\ DOMAIN Items_(w) = {1} /\ Items_(w)[1] \in Items
  BY <1>1
<1> QED BY <1>2 DEF KeysOf, Items

LEMMA RoundStep ==
  ASSUME RetriesReadAnew, IInv, RoundInv, NEW w \in Workers, Work(w)
  PROVE  RoundInv'
<1> USE DEF IInv, TypeOK, Goto, End, RoundInv
<1>0. /\ \A k \in Keys : bumps[k] \in Nat /\ bumps'[k] \in Nat /\ bumps[k] <= bumps'[k]
      /\ \A v \in Workers : fails[v] \in Nat /\ KeysOf(v) \subseteq Keys
  <2>1. \A v \in Workers : KeysOf(v) \subseteq Keys
    BY KeysType
  <2> QED BY <2>1, CommitMoves
<1>1. ASSUME NEW v \in Workers, v # w PROVE RoundOK(v)'
  <2>1. /\ pc'[v] = pc[v] /\ seen'[v] = seen[v] /\ snap'[v] = snap[v] /\ fails'[v] = fails[v]
        /\ Op(v)' = Op(v) /\ KeysOf(v)' = KeysOf(v)
    BY <1>1, OthersWait
  <2>2. ASSUME NEW k \in KeysOf(v), Op(v) = "retry", pc[v] = "stmt", Stale(v, k)'
        PROVE  fails[v] + 1 <= bumps'[k]
    <3>1. k \in Keys /\ seen[v][k] # NoRow
      BY <1>0, <2>2 DEF RoundOK
    <3>2. CASE Stale(v, k)
      <4>1. fails[v] + 1 <= bumps[k]
        BY <2>2, <3>2 DEF RoundOK
      <4> QED BY <1>0, <3>1, <4>1
    <3>3. CASE ~Stale(v, k)
      <4>1. bumps[k] + 1 <= bumps'[k]
        BY <2>1, <2>2, <3>1, <3>3, StaleIsPaid
      <4>2. fails[v] <= bumps[k]
        BY DEF RoundOK
      <4> QED BY <1>0, <3>1, <4>1, <4>2
    <3> QED BY <3>2, <3>3
  <2>3. \A k \in KeysOf(v) : fails[v] <= bumps'[k]
    BY <1>0 DEF RoundOK
  <2> QED BY <2>1, <2>2, <2>3 DEF RoundOK
<1>2. RoundOK(w)'
  <2>0. /\ Op(w)' = Op(w) /\ KeysOf(w)' = KeysOf(w) /\ RoundOK(w)
    BY OthersWait
  <2>1. CASE Read(w)
    <3>1. UNCHANGED <<store, fails>> /\ pc[w] = "read"
      BY <2>1 DEF Read
    <3>2. Op(w) = "retry" => snap'[w] = {} /\ pc'[w] # "count"
      <4>1. Op(w) = "retry" => task[w].isolation # "snapshot"
        BY DEF RetriesReadAnew, Op
      <4> QED BY <2>0, <2>1, <4>1 DEF Read, RoundOK
    <3>3. ASSUME Op(w) = "retry", pc'[w] = "stmt", NEW k \in KeysOf(w)
          PROVE  seen'[w][k] # NoRow /\ ~Stale(w, k)'
      <4>1. k \in Keys /\ snap[w] = {} /\ locker[k] # w
        BY <1>0, <2>0, <3>1, <3>3, NobodyAssumption DEF RoundOK, Locks
      <4>2. seen'[w][k] = Committed(k)
        BY <2>1, <4>1, <3>3 DEF Read, Visible
      <4>3. seen'[w][k] # NoRow
        BY <2>1, <3>3 DEF Read
      <4>4. Committed(k)' = Committed(k)
        BY <3>1 DEF Committed, store
      <4> QED BY <4>2, <4>3, <4>4 DEF Stale
    <3>4. bumps' = bumps
      BY <3>1 DEF store
    <3> QED BY <2>0, <3>1, <3>2, <3>3, <3>4 DEF RoundOK
  <2>2. CASE Count(w)
    <3>1. /\ UNCHANGED <<snap, fails, bumps>> /\ pc[w] = "count"
      BY <2>2 DEF Count, store
    <3> QED BY <2>0, <3>1 DEF RoundOK
  <2>3. CASE Statement(w)
    <3>1. UNCHANGED <<snap, fails, pc>> /\ Op(w) # "retry"
      BY <2>3 DEF Statement
    <3>2. \A k \in KeysOf(w) : fails[w] <= bumps'[k]
      BY <1>0, <2>0 DEF RoundOK
    <3> QED BY <2>0, <3>1, <3>2 DEF RoundOK
  <2>4. CASE StatementsDone(w) \/ Victim(w)
    <3>1. UNCHANGED <<snap, fails, bumps>> /\ pc'[w] = "finish"
      BY <2>4 DEF StatementsDone, Victim, store
    <3> QED BY <2>0, <3>1 DEF RoundOK
  <2>5. CASE RetryUpdate(w) /\ UNCHANGED fails
    <3>1. UNCHANGED snap /\ pc'[w] = "finish"
      BY <2>5, RetryHits DEF RetryUpdate
    <3>2. \A k \in KeysOf(w) : fails[w] <= bumps'[k]
      BY <1>0, <2>0 DEF RoundOK
    <3> QED BY <2>0, <2>5, <3>1, <3>2 DEF RoundOK
  <2>6. CASE RetryUpdate(w) /\ fails' # fails
    <3> DEFINE item == Head(Items_(w))
               k == item.key
    <3>1. /\ UNCHANGED <<store, snap>> /\ fails' = [fails EXCEPT ![w] = @ + 1]
          /\ pc'[w] \in {"finish", "read"} /\ pc[w] = "stmt" /\ Op(w) = "retry"
          /\ ~Matches(w, item, row[k]) /\ locker[k] \in {w, Nobody}
      BY <2>6 DEF RetryUpdate
    <3>2. KeysOf(w) = {k} /\ k \in Keys
      BY <3>1, RetryKey
    <3>3. Committed(k) = row[k]
      <4>1. locker[k] # w
        BY <3>1, <3>2, NobodyAssumption DEF Locks
      <4> QED BY <3>1, <4>1 DEF Committed
    <3>4. seen[w][k] # NoRow
      BY <2>0, <3>1, <3>2 DEF RoundOK
    <3>5. Stale(w, k)
      BY <3>1, <3>3, <3>4 DEF Matches, Stale
    <3> HIDE DEF item, k
    <3>6. fails[w] + 1 <= bumps[k]
      BY <2>0, <3>1, <3>2, <3>5 DEF RoundOK
    <3>7. fails'[w] = fails[w] + 1 /\ bumps' = bumps
      BY <3>1 DEF store
    <3> QED BY <2>0, <3>1, <3>2, <3>6, <3>7 DEF RoundOK
  <2>7. CASE Finish(w)
    <3>1. /\ snap'[w] = {} /\ UNCHANGED fails /\ pc'[w] = "done"
      BY <2>7 DEF Finish, Release
    <3>2. \A k \in KeysOf(w) : fails[w] <= bumps'[k]
      BY <1>0, <2>0 DEF RoundOK
    <3> QED BY <2>0, <3>1, <3>2 DEF RoundOK
  <2> QED BY <2>1, <2>2, <2>3, <2>4, <2>5, <2>6, <2>7 DEF Work
<1> QED BY <1>1, <1>2

(* Every round the retry helper loses is paid for by another writer's      *)
(* committed change of the row, so exhausted attempts mean that many       *)
(* changes: for any workers and tasks, as long as no retry runs within a   *)
(* snapshot transaction of its caller (with-optimistic-retry.ts:66-107).   *)
THEOREM LostRoundsArePaid ==
  ASSUME RetriesReadAnew
  PROVE  Spec => []LostRoundsAreContention
<1>1. Init => RoundInv
  <2> SUFFICES ASSUME Init PROVE RoundInv
    OBVIOUS
  <2>1. IInv
    BY InitIInv
  <2>2. \A w \in Workers : KeysOf(w) \subseteq Keys
    BY <2>1, KeysType DEF IInv
  <2> QED BY <2>2 DEF Init, RoundInv, RoundOK
<1>2. IInv /\ RoundInv /\ [Next]_vars => RoundInv'
  <2> SUFFICES ASSUME IInv, RoundInv, [Next]_vars PROVE RoundInv'
    OBVIOUS
  <2>1. CASE UNCHANGED vars
    BY <2>1 DEF vars, store, RoundInv, RoundOK, Op, KeysOf, Items_, Stale, Committed
  <2>2. CASE Next
    BY <2>2, RoundStep DEF Next
  <2> QED BY <2>1, <2>2
<1>3. RoundInv => LostRoundsAreContention
  BY DEF RoundInv, RoundOK, LostRoundsAreContention
<1> QED BY <1>1, <1>2, <1>3, AlwaysIInv, PTL DEF Spec

-----------------------------------------------------------------------------
(* Reports                                                                 *)

(* Whose changes and touches an image holds.                               *)
Marks(r) == IF r = NoRow THEN {} ELSE r.val \cup r.touched

(* w reports the row k as written, and no rollback can take that back.     *)
Told(w, k) == k \in hits[w] /\ (InTx(w) => pc[w] = "done" /\ outcome[w] \notin Failed)

(* Who has left a mark on an image that others may read is told; the       *)
(* uncommitted image may hold the mark of its writer as well.              *)
MarkInv ==
  \A k \in Keys :
    /\ \A r \in AllImages(k) : \A w \in Marks(r) : Told(w, k)
    /\ locker[k] # Nobody => \A w \in Marks(row[k]) : w = locker[k] \/ Told(w, k)

(* A worker that has a row locked has hit it; none has hit a row before    *)
(* its first statement, nor a retry before its last.                       *)
HitInv ==
  \A w \in Workers :
    /\ \A k \in Keys : locker[k] = w => k \in hits[w]
    /\ pc[w] \in {"read", "count"} \/ (pc[w] = "stmt" /\ Op(w) = "retry") => hits[w] = {}

(* The touch of w is in the committed image of the incarnation it has seen.*)
Touched(w, k) ==
  \/ Committed(k) = NoRow
  \/ Committed(k).born # seen[w][k].born
  \/ w \in Committed(k).touched

(* A row that a touch has hit carries the touch: uncommitted while the     *)
(* transaction is open, committed from then on.                            *)
TouchInv ==
  \A w \in Workers : IsTouch(w) => \A k \in hits[w] :
    /\ seen[w][k] # NoRow
    /\ IF InTx(w) /\ pc[w] # "done"
       THEN locker[k] = w /\ row[k] # NoRow /\ w \in row[k].touched
       ELSE Touched(w, k)

(* A patch keeps the touches of the row it is applied to.                  *)
KeptInv ==
  \A k \in Keys : locker[k] # Nobody /\ undo[k] # NoRow /\ row[k] # NoRow =>
    undo[k].touched \subseteq row[k].touched

(* touchMany with require "all" ends well only with every row hit.         *)
EndInv ==
  \A w \in Workers : Op(w) = "touchAll" /\ pc[w] \in {"finish", "done"} =>
    outcome[w] \in Failed \/ (outcome[w] = "ok" /\ hits[w] = KeysOf(w))

ReportInv == MarkInv /\ HitInv /\ TouchInv /\ KeptInv /\ EndInv

(* Every step creates at most the committed image anew.                    *)
LEMMA ImagesCome ==
  ASSUME IInv, NEW w \in Workers, Work(w), NEW k \in Keys
  PROVE  AllImages(k)' \subseteq AllImages(k) \cup {Committed(k)'}
<1>1. CASE UNCHANGED <<seen, snap>>
  BY <1>1 DEF AllImages
<1>2. CASE Read(w)
  BY <1>2, ReadImages DEF IInv
<1>3. CASE Finish(w)
  BY <1>3, FinishImages DEF IInv
<1>4. CASE Count(w) \/ Statement(w) \/ StatementsDone(w) \/ RetryUpdate(w) \/ Victim(w)
  BY <1>1, <1>4 DEF Count, Statement, StatementsDone, RetryUpdate, Victim
<1> QED BY <1>2, <1>3, <1>4 DEF Work

(* What a statement leaves on a row: the marks of its worker besides those *)
(* of the row and of the image it was computed from; and no touch is lost. *)
Wrote(w, k, old, new) ==
  /\ Marks(new) \subseteq {w} \cup Marks(old) \cup Marks(seen[w][k])
  /\ old # NoRow /\ new # NoRow => old.touched \subseteq new.touched
  /\ IsTouch(w) => new # NoRow /\ w \in new.touched /\ seen[w][k] # NoRow

(* A touch carries the versions it was computed from.                      *)
LEMMA TouchCarriesVersions ==
  ASSUME TypeOK, NEW w \in Workers, IsTouch(w), NEW i \in DOMAIN Items_(w)
  PROVE  Items_(w)[i].cas
BY WorkloadsAssumption DEF TypeOK, IsTouch, Op, Items_

LEMMA UpdatedWrote ==
  ASSUME TypeOK, NEW w \in Workers, NEW item \in Items, Op(w) # "insert",
         Matches(w, item, row[item.key]), IsTouch(w) => item.cas
  PROVE  Wrote(w, item.key, row[item.key], Updated(w, item, row[item.key]))
<1> DEFINE k == item.key
           old == row[k]
           new == Updated(w, item, old)
           own == "own" \in item.fields
           val == IF ~own THEN old.val
                  ELSE IF item.cas THEN seen[w][k].val \cup {w} ELSE old.val \cup {w}
           ver == IF KeepVersion(item) THEN old.ver ELSE old.ver + 1
           touched == IF IsTouch(w) THEN old.touched \cup {w} ELSE old.touched
<1>1. k \in Keys /\ old \in Rows /\ old # NoRow
  BY DEF TypeOK, Matches, Items
<1>2. item.cas => seen[w][k] \in Rows /\ seen[w][k] # NoRow
  BY <1>1 DEF TypeOK, Matches
<1>3. new = [old EXCEPT !.ver = ver, !.val = val, !.touched = touched]
  BY DEF Updated
<1>4. new.val = val /\ new.touched = touched
  <2> HIDE DEF ver, val, touched, new
  <2> QED BY <1>1, <1>3 DEF Rows
<1>5. new # NoRow
  BY <1>1, UpdatedChanges, NobodyAssumption
<1> HIDE DEF new, k, old
<1>6. Marks(new) \subseteq {w} \cup Marks(old) \cup Marks(seen[w][k])
  BY <1>1, <1>2, <1>4, <1>5 DEF Marks
<1>7. old.touched \subseteq new.touched /\ (IsTouch(w) => w \in new.touched /\ seen[w][k] # NoRow)
  BY <1>2, <1>4
<1> QED BY <1>5, <1>6, <1>7 DEF Wrote, new, k, old

LEMMA EffectWrote ==
  ASSUME TypeOK, NEW w \in Workers, NEW item \in Items,
         Affects(w, item, row[item.key]), IsTouch(w) => item.cas
  PROVE  Wrote(w, item.key, row[item.key], Effect(w, item, row[item.key]))
<1> DEFINE k == item.key
           new == Effect(w, item, row[k])
<1>1. CASE Op(w) = "delete"
  BY <1>1 DEF Effect, Wrote, Marks, IsTouch
<1>2. CASE Op(w) = "insert"
  <2>1. new.val = {w} /\ new.touched = {} /\ row[k] = NoRow
    BY <1>2 DEF Effect, Affects
  <2> QED BY <1>2, <2>1 DEF Wrote, Marks, IsTouch
<1>3. CASE Op(w) \notin {"delete", "insert"}
  <2>1. new = Updated(w, item, row[k]) /\ Matches(w, item, row[k])
    BY <1>3 DEF Effect, Affects
  <2> QED BY <1>3, <2>1, UpdatedWrote
<1> QED BY <1>1, <1>2, <1>3

(* A step that writes rows.                                                *)
Writes(w, changes) ==
  /\ pc[w] = "stmt" /\ (Op(w) = "retry" => pc'[w] = "finish")
  /\ Apply(w, changes) /\ Changes(w, changes) /\ DOMAIN changes \subseteq Keys
  /\ \A k \in DOMAIN changes : Wrote(w, k, row[k], changes[k])
  /\ hits'[w] = hits[w] \cup DOMAIN changes
  /\ pc'[w] \in {"stmt", "finish"} /\ (Op(w) # "retry" => pc'[w] = "stmt")
  /\ seen'[w] = seen[w]

LEMMA StatementWrites ==
  ASSUME IInv, NEW w \in Workers, Statement(w)
  PROVE  Writes(w, StatementChanges(w))
<1>1. TypeOK
  BY DEF IInv
<1>2. /\ pc[w] = "stmt" /\ Op(w) # "retry" /\ pc' = pc /\ seen' = seen /\ todo[w] # <<>>
  BY DEF Statement
<1>3. hits'[w] = hits[w] \cup DOMAIN StatementChanges(w)
  BY <1>1, StatementApplies DEF TypeOK
<1>4. ASSUME NEW k \in DOMAIN StatementChanges(w)
      PROVE  Wrote(w, k, row[k], StatementChanges(w)[k])
  <2> DEFINE item == CHOOSE item \in Affected(w) : item.key = k
  <2>1. item \in Affected(w) /\ item.key = k
    BY DEF StatementChanges
  <2>2. StatementChanges(w)[k] = Effect(w, item, row[k])
    BY DEF StatementChanges
  <2> HIDE DEF item
  <2>3. item \in BatchItems(w) /\ Affects(w, item, row[item.key])
    BY <2>1 DEF Affected
  <2>4. item \in Items /\ (IsTouch(w) => item.cas)
    <3>1. Batch(w) \in Seq(DOMAIN Items_(w)) /\ item \in Items
      BY <1>1, <1>2, <2>3, BatchType
    <3>2. PICK i \in ToSet(Batch(w)) : item = Items_(w)[i]
      BY <2>3 DEF BatchItems
    <3> DEFINE D == DOMAIN Items_(w)
    <3>3. i \in D
      <4> HIDE DEF D
      <4> QED BY <3>1, <3>2 DEF ToSet, D
    <3> QED BY <1>1, <3>1, <3>2, <3>3, TouchCarriesVersions
  <2> QED BY <1>1, <2>1, <2>2, <2>3, <2>4, EffectWrote
<1> QED BY <1>1, <1>2, <1>3, <1>4, StatementApplies DEF Writes

LEMMA RetryWrites ==
  ASSUME IInv, NEW w \in Workers, RetryUpdate(w), UNCHANGED fails, HitInv
  PROVE  \E changes : Writes(w, changes)
<1> DEFINE item == Head(Items_(w))
           k == item.key
           new == Updated(w, item, row[k])
           changes == [x \in {k} |-> new]
<1>1. TypeOK
  BY DEF IInv
<1>2. fails' # [fails EXCEPT ![w] = @ + 1]
  BY <1>1 DEF TypeOK
<1>3. /\ locker[k] \in {w, Nobody} /\ Matches(w, item, row[k])
      /\ Apply(w, changes)
      /\ hits' = [hits EXCEPT ![w] = {k}] /\ End(w, "ok")
      /\ Op(w) = "retry" /\ pc[w] = "stmt" /\ seen' = seen
  BY <1>2 DEF RetryUpdate
<1>4. k \in Keys /\ item \in Items
  BY <1>1, <1>3, RetryKey
<1>5. new \in Rows /\ Changed(w, k, row[k], new)
  BY <1>1, <1>3, <1>4, UpdatedChanges
<1>6. Wrote(w, k, row[k], new)
  BY <1>1, <1>3, <1>4, UpdatedWrote DEF IsTouch
<1>7. hits'[w] = {k} /\ hits[w] = {} /\ pc'[w] = "finish"
  BY <1>1, <1>3 DEF HitInv, TypeOK, End, Goto
<1> HIDE DEF new, k, item
<1>8. DOMAIN changes = {k} /\ changes[k] = new
  OBVIOUS
<1>9. Changes(w, changes)
  BY <1>3, <1>5, <1>8 DEF Changes
<1> HIDE DEF changes
<1> QED BY <1>3, <1>4, <1>6, <1>7, <1>8, <1>9 DEF Writes

(* A step leaves the store and the reports alone, writes rows, or ends a   *)
(* transaction.                                                            *)
LEMMA StepKinds ==
  ASSUME IInv, HitInv, NEW w \in Workers, Work(w)
  PROVE  \/ UNCHANGED <<store, hits>>
         \/ \E changes : Writes(w, changes)
         \/ Finish(w)
<1>1. CASE Read(w) \/ Count(w) \/ StatementsDone(w) \/ Victim(w)
  BY <1>1 DEF Read, Count, StatementsDone, Victim
<1>2. CASE Statement(w)
  BY <1>2, StatementWrites
<1>3. CASE RetryUpdate(w) /\ UNCHANGED fails
  BY <1>3, RetryWrites
<1>4. CASE RetryUpdate(w) /\ fails' # fails
  BY <1>4 DEF RetryUpdate
<1> QED BY <1>1, <1>2, <1>3, <1>4 DEF Work

LEMMA NotDone ==
  ASSUME NEW w \in Workers, Work(w)
  PROVE  pc[w] \in {"read", "count", "stmt", "finish"}
BY DEF Work, Read, Count, Statement, StatementsDone, RetryUpdate, Finish, Victim

(* What the end of w's transaction makes of its reports.                   *)
LEMMA FinishReports ==
  ASSUME IInv, NEW w \in Workers, Finish(w)
  PROVE  /\ pc'[w] = "done" /\ outcome' = outcome /\ seen' = seen
         /\ hits'[w] = IF outcome[w] \in Failed /\ InTx(w) THEN {} ELSE hits[w]
         /\ outcome[w] \notin Failed => row' = row
         /\ outcome[w] \in Failed => \A k \in Keys : locker[k] = w => row'[k] = undo[k]
BY DEF Finish, Release, Goto, IInv, TypeOK

(* A report that cannot be taken back stays true of the worker.            *)
LEMMA ToldStays ==
  ASSUME IInv, HitInv, NEW w \in Workers, Work(w), NEW v \in Workers, NEW k, Told(v, k)
  PROVE  Told(v, k)'
<1>1. CASE v # w
  BY <1>1, OthersWait DEF Told
<1>2. CASE v = w
  <2>1. ~InTx(w) /\ k \in hits[w] /\ InTx(w)' = InTx(w)
    BY <1>2, NotDone, OthersWait DEF Told
  <2>2. hits[w] \subseteq hits'[w]
    BY <2>1, StepKinds, FinishReports DEF Writes
  <2> QED BY <1>2, <2>1, <2>2 DEF Told
<1> QED BY <1>1, <1>2

LEMMA ImagesTold ==
  ASSUME IInv, MarkInv, NEW k \in Keys
  PROVE  /\ \A v \in Marks(Committed(k)) : Told(v, k)
         /\ \A w \in Workers : \A v \in Marks(seen[w][k]) : Told(v, k)
         /\ locker[k] = Nobody => \A v \in Marks(row[k]) : Told(v, k)
<1>1. \A r \in AllImages(k) : \A v \in Marks(r) : Told(v, k)
  BY DEF MarkInv
<1>2. Committed(k) \in AllImages(k) \cup {NoRow}
  BY DEF AllImages
<1>3. \A w \in Workers : seen[w][k] \in AllImages(k) \cup {NoRow}
  BY DEF AllImages
<1>4. Marks(NoRow) = {}
  BY DEF Marks
<1>5. locker[k] = Nobody => row[k] = Committed(k)
  BY DEF Committed
<1> HIDE DEF MarkInv
<1> QED BY <1>1, <1>2, <1>3, <1>4, <1>5

(* Where a row that a writing step addresses stands, before and after.     *)
LEMMA WritesRow ==
  ASSUME IInv, NEW w \in Workers, NEW changes, Writes(w, changes), NEW k \in Keys
  PROVE  /\ k \notin DOMAIN changes =>
              row'[k] = row[k] /\ undo'[k] = undo[k] /\ locker'[k] = locker[k]
         /\ k \in DOMAIN changes =>
              /\ row'[k] = changes[k] /\ locker[k] \in {w, Nobody}
              /\ Wrote(w, k, row[k], row'[k]) /\ Changed(w, k, row[k], row'[k])
              /\ InTx(w) => /\ locker'[k] = w
                            /\ undo'[k] = IF locker[k] = Nobody THEN row[k] ELSE undo[k]
              /\ ~InTx(w) => locker[k] = Nobody /\ locker'[k] = Nobody
         /\ \/ Committed(k)' = Committed(k)
            \/ /\ ~InTx(w) /\ k \in DOMAIN changes
               /\ Committed(k) = row[k] /\ Committed(k)' = row'[k]
<1>1. Apply(w, changes) /\ Changes(w, changes)
  BY DEF Writes
<1>2. row'[k] = IF k \in DOMAIN changes THEN changes[k] ELSE row[k]
  BY <1>1 DEF Apply
<1>3. k \in DOMAIN changes =>
        /\ locker[k] \in {w, Nobody} /\ Changed(w, k, row[k], row'[k])
        /\ Wrote(w, k, row[k], row'[k])
  BY <1>1, <1>2 DEF Changes, Writes
<1>4. CASE InTx(w)
  <2>1. /\ undo'[k] = IF k \in DOMAIN changes /\ locker[k] = Nobody THEN row[k] ELSE undo[k]
        /\ locker'[k] = IF k \in DOMAIN changes THEN w ELSE locker[k]
    BY <1>1, <1>4 DEF Apply
  <2>2. Committed(k)' = Committed(k)
    BY <1>1, <1>4, ApplyCommits DEF IInv
  <2> QED BY <1>2, <1>3, <1>4, <2>1, <2>2
<1>5. CASE ~InTx(w)
  <2>1. undo' = undo /\ locker' = locker /\ locker[k] # w
    BY <1>1, <1>5, NobodyAssumption DEF Apply, IInv, Locks
  <2>2. \/ Committed(k)' = Committed(k)
        \/ /\ k \in DOMAIN changes
           /\ Committed(k) = row[k] /\ Committed(k)' = row'[k]
    BY <1>1, ApplyCommits DEF IInv
  <2> QED BY <1>2, <1>3, <1>5, <2>1, <2>2
<1> QED BY <1>4, <1>5

(* Who has left a mark on a committed image is told.                       *)
LEMMA CommittedTold ==
  ASSUME IInv, HitInv, MarkInv, NEW w \in Workers, Work(w), NEW k \in Keys,
         NEW v \in Marks(Committed(k)')
  PROVE  Told(v, k)'
<1>0. v \in Workers
  <2>1. Committed(k)' \in Rows \cup {NoRow}
    BY NextIInv DEF IInv, TypeOK, Next, Committed
  <2> QED BY <2>1, RowType DEF Marks
<1>1. CASE Committed(k)' = Committed(k)
  BY <1>0, <1>1, ImagesTold, ToldStays
<1>2. CASE UNCHANGED <<store, hits>>
  BY <1>1, <1>2 DEF store, Committed
<1>3. ASSUME NEW changes, Writes(w, changes), Committed(k)' # Committed(k)
      PROVE  Told(v, k)'
  <2>1. /\ ~InTx(w) /\ k \in DOMAIN changes /\ locker[k] = Nobody
        /\ Committed(k)' = row'[k] /\ Wrote(w, k, row[k], row'[k])
    BY <1>3, WritesRow
  <2>2. CASE v = w
    BY <1>3, <2>1, <2>2, OthersWait DEF Writes, Told
  <2>3. CASE v \in Marks(row[k]) \cup Marks(seen[w][k])
    BY <1>0, <2>1, <2>3, ImagesTold, ToldStays
  <2> QED BY <2>1, <2>2, <2>3 DEF Wrote
<1>4. CASE Finish(w) /\ Committed(k)' # Committed(k)
  <2>1. w # Nobody
    BY NobodyAssumption
  <2>2. locker[k] = w /\ Committed(k) = undo[k] /\ Committed(k)' = row'[k]
    BY <1>4, <2>1, FinishRows DEF Committed
  <2>3. outcome[w] \notin Failed /\ row' = row
    BY <1>4, <2>2, FinishReports
  <2>4. CASE v = w
    <3>1. k \in hits[w]
      BY <2>2 DEF HitInv
    <3> QED BY <1>4, <2>3, <2>4, <3>1, FinishReports DEF Told
  <2>5. CASE v # w
    <3>1. Told(v, k)
      BY <2>1, <2>2, <2>3, <2>5 DEF MarkInv
    <3> QED BY <1>0, <3>1, ToldStays
  <2> QED BY <2>4, <2>5
<1> QED BY <1>1, <1>2, <1>3, <1>4, StepKinds

LEMMA MarkStep ==
  ASSUME IInv, HitInv, MarkInv, NEW w \in Workers, Work(w)
  PROVE  MarkInv'
<1>1. ASSUME NEW k \in Keys, NEW r \in AllImages(k)', NEW v \in Marks(r)
      PROVE  Told(v, k)'
  <2>1. CASE r \in AllImages(k)
    <3>1. Told(v, k) /\ v \in Workers
      BY <2>1, ImageType, RowType DEF MarkInv, Marks, IInv
    <3> QED BY <3>1, ToldStays
  <2>2. CASE r = Committed(k)'
    <3>1. \A q : q = Committed(k)' => \A u \in Marks(q) : Told(u, k)'
      BY CommittedTold
    <3> QED BY <2>2, <3>1
  <2> QED BY <2>1, <2>2, ImagesCome
<1>2. ASSUME NEW k \in Keys, locker'[k] # Nobody, NEW v \in Marks(row'[k]), v # locker'[k]
      PROVE  Told(v, k)'
  <2>1. v \in Workers /\ row[k] \in Rows \cup {NoRow} /\ seen[w][k] \in Rows \cup {NoRow}
    <3>1. row'[k] \in Rows \cup {NoRow} /\ TypeOK
      BY NextIInv DEF IInv, TypeOK, Next
    <3>2. row[k] \in Rows \cup {NoRow} /\ seen[w][k] \in Rows \cup {NoRow}
      BY <3>1 DEF TypeOK
    <3> QED BY <1>2, <3>1, <3>2, RowType DEF Marks
  <2>2. CASE row'[k] = row[k] /\ locker'[k] = locker[k]
    <3>1. Told(v, k)
      BY <1>2, <2>2 DEF MarkInv
    <3> QED BY <2>1, <3>1, ToldStays
  <2>3. CASE UNCHANGED <<store, hits>>
    BY <2>2, <2>3 DEF store
  <2>4. ASSUME NEW changes, Writes(w, changes)
        PROVE  Told(v, k)'
    <3>1. CASE k \notin DOMAIN changes
      BY <2>2, <2>4, <3>1, WritesRow
    <3>2. CASE k \in DOMAIN changes
      <4>1. /\ locker'[k] = w /\ locker[k] \in {w, Nobody}
            /\ Wrote(w, k, row[k], row'[k])
        BY <1>2, <2>4, <3>2, WritesRow
      <4>2. v # w /\ v \in Marks(row[k]) \cup Marks(seen[w][k])
        BY <1>2, <4>1 DEF Wrote
      <4>3. Told(v, k)
        BY <4>1, <4>2, ImagesTold DEF MarkInv
      <4> QED BY <2>1, <4>3, ToldStays
    <3> QED BY <3>1, <3>2
  <2>5. CASE Finish(w)
    <3>1. locker'[k] = locker[k] /\ locker[k] # w
      BY <1>2, <2>5, FinishRows, NobodyAssumption
    <3> QED BY <2>2, <2>5, <3>1, FinishRows
  <2> QED BY <2>3, <2>4, <2>5, StepKinds
<1> QED BY <1>1, <1>2 DEF MarkInv

LEMMA HitStep ==
  ASSUME IInv, HitInv, NEW w \in Workers, Work(w)
  PROVE  HitInv'
<1>1. ASSUME NEW v \in Workers, NEW k \in Keys, locker'[k] = v
      PROVE  k \in hits'[v]
  <2>0. v # Nobody
    BY NobodyAssumption
  <2>1. CASE UNCHANGED <<store, hits>>
    BY <1>1, <2>1 DEF store, HitInv
  <2>2. ASSUME NEW changes, Writes(w, changes)
        PROVE  k \in hits'[v]
    <3>1. CASE k \in DOMAIN changes
      <4>1. v = w
        BY <1>1, <2>0, <2>2, <3>1, WritesRow
      <4> QED BY <2>2, <3>1, <4>1 DEF Writes
    <3>2. CASE k \notin DOMAIN changes
      <4>1. k \in hits[v]
        BY <1>1, <2>2, <3>2, WritesRow DEF HitInv
      <4>2. hits[v] \subseteq hits'[v]
        BY <2>2, OthersWait DEF Writes
      <4> QED BY <4>1, <4>2
    <3> QED BY <3>1, <3>2
  <2>3. CASE Finish(w)
    <3>1. locker[k] = v /\ v # w
      BY <1>1, <2>0, <2>3, FinishRows
    <3> QED BY <3>1, OthersWait DEF HitInv
  <2> QED BY <2>1, <2>2, <2>3, StepKinds
<1>2. ASSUME NEW v \in Workers,
             pc'[v] \in {"read", "count"} \/ (pc'[v] = "stmt" /\ Op(v) = "retry")
      PROVE  hits'[v] = {}
  <2>1. CASE v # w
    BY <1>2, <2>1, OthersWait DEF HitInv
  <2>2. CASE v = w
    <3> USE DEF HitInv, IInv, TypeOK, End, Goto
    <3>1. CASE Read(w)
      BY <1>2, <2>2, <3>1 DEF Read
    <3>2. CASE Count(w)
      BY <1>2, <2>2, <3>2 DEF Count
    <3>3. CASE Statement(w) \/ StatementsDone(w) \/ Victim(w)
      BY <1>2, <2>2, <3>3 DEF Statement, StatementsDone, Victim
    <3>4. CASE RetryUpdate(w)
      BY <1>2, <2>2, <3>4 DEF RetryUpdate
    <3>5. CASE Finish(w)
      BY <1>2, <2>2, <3>5 DEF Finish, Release
    <3> QED BY <3>1, <3>2, <3>3, <3>4, <3>5 DEF Work
  <2> QED BY <2>1, <2>2
<1> QED BY <1>1, <1>2, OthersWait DEF HitInv

LEMMA KeptStep ==
  ASSUME IInv, HitInv, KeptInv, NEW w \in Workers, Work(w)
  PROVE  KeptInv'
<1> SUFFICES ASSUME NEW k \in Keys, locker'[k] # Nobody, undo'[k] # NoRow, row'[k] # NoRow
             PROVE  undo'[k].touched \subseteq row'[k].touched
  BY DEF KeptInv
<1>1. CASE row'[k] = row[k] /\ undo'[k] = undo[k] /\ locker'[k] = locker[k]
  BY <1>1 DEF KeptInv
<1>2. CASE UNCHANGED <<store, hits>>
  BY <1>1, <1>2 DEF store
<1>3. ASSUME NEW changes, Writes(w, changes), k \in DOMAIN changes
      PROVE  undo'[k].touched \subseteq row'[k].touched
  <2>1. /\ locker[k] \in {w, Nobody}
        /\ Wrote(w, k, row[k], row'[k]) /\ Changed(w, k, row[k], row'[k])
        /\ undo'[k] = IF locker[k] = Nobody THEN row[k] ELSE undo[k]
    BY <1>3, WritesRow
  <2>2. row[k] # NoRow
    <3>1. CASE locker[k] = Nobody
      BY <2>1, <3>1
    <3>2. CASE locker[k] # Nobody /\ row[k] = NoRow
      <4>1. Op(w) # "insert"
        BY <2>1, <3>2 DEF IInv, Pending, PendingRow
      <4> QED BY <2>1, <3>2, <4>1 DEF Changed
    <3> QED BY <3>1, <3>2
  <2>3. row[k].touched \subseteq row'[k].touched
    BY <2>1, <2>2 DEF Wrote
  <2> QED BY <2>1, <2>2, <2>3 DEF KeptInv
<1>4. CASE Finish(w)
  <2>1. locker[k] # w
    BY <1>4, FinishRows
  <2> QED BY <1>1, <1>4, <2>1, FinishRows
<1> QED BY <1>1, <1>2, <1>3, <1>4, StepKinds, WritesRow

(* A committed change keeps the touches of the row, unless it removes it or*)
(* begins an incarnation later than any that has been seen.                *)
LEMMA CommittedTouches ==
  ASSUME IInv, HitInv, KeptInv, NEW w \in Workers, Work(w), NEW k \in Keys
  PROVE  \/ Committed(k)' = Committed(k)
         \/ Committed(k)' = NoRow
         \/ Committed(k) = NoRow /\ Committed(k)'.born = bumps[k] + 1
         \/ /\ Committed(k) # NoRow /\ Committed(k)'.born = Committed(k).born
            /\ Committed(k).touched \subseteq Committed(k)'.touched
<1>1. CASE UNCHANGED <<store, hits>>
  BY <1>1 DEF store, Committed
<1>2. ASSUME NEW changes, Writes(w, changes), Committed(k)' # Committed(k), Committed(k)' # NoRow
      PROVE  \/ Committed(k) = NoRow /\ Committed(k)'.born = bumps[k] + 1
             \/ /\ Committed(k) # NoRow /\ Committed(k)'.born = Committed(k).born
                /\ Committed(k).touched \subseteq Committed(k)'.touched
  <2>1. /\ Committed(k) = row[k] /\ Committed(k)' = row'[k]
        /\ Wrote(w, k, row[k], row'[k]) /\ Changed(w, k, row[k], row'[k])
    BY <1>2, WritesRow
  <2> QED BY <1>2, <2>1 DEF Wrote, Changed, Grows
<1>3. CASE Finish(w) /\ Committed(k)' # Committed(k) /\ Committed(k)' # NoRow
  <2>1. w # Nobody
    BY NobodyAssumption
  <2>2. locker[k] = w /\ Committed(k) = undo[k] /\ Committed(k)' = row'[k]
    BY <1>3, <2>1, FinishRows DEF Committed
  <2>3. row'[k] = row[k] /\ row[k] # NoRow
    BY <1>3, <2>2, FinishReports
  <2>4. PendingRow(k) /\ (undo[k] # NoRow => undo[k].touched \subseteq row[k].touched)
    BY <2>1, <2>2, <2>3 DEF IInv, Pending, KeptInv
  <2> QED BY <2>2, <2>3, <2>4 DEF PendingRow, Grows
<1> QED BY <1>1, <1>2, <1>3, StepKinds

(* A touch that is in the committed image stays there for as long as the   *)
(* incarnation of the row it was made for.                                 *)
LEMMA TouchedStays ==
  ASSUME IInv, HitInv, KeptInv, NEW w \in Workers, Work(w), NEW v \in Workers, NEW k \in Keys,
         seen[v][k] # NoRow, seen'[v] = seen[v], Touched(v, k)
  PROVE  Touched(v, k)'
<1>1. seen[v][k].born \in Nat /\ seen[v][k].born <= bumps[k] /\ bumps[k] \in Nat
  <2>1. seen[v][k] \in AllImages(k)
    BY DEF AllImages
  <2> QED BY <2>1, ImageType, RowType DEF IInv, Images_, Births, TypeOK
<1>2. CASE Committed(k)' = Committed(k)
  BY <1>2 DEF Touched
<1>3. CASE Committed(k)' = NoRow
  BY <1>3 DEF Touched
<1>4. CASE Committed(k)'.born = bumps[k] + 1
  <2>1. Committed(k)'.born # seen[v][k].born
    BY <1>1, <1>4
  <2> QED BY <2>1 DEF Touched
<1>5. CASE /\ Committed(k) # NoRow /\ Committed(k)'.born = Committed(k).born
           /\ Committed(k).touched \subseteq Committed(k)'.touched
  BY <1>5 DEF Touched
<1> QED BY <1>2, <1>3, <1>4, <1>5, CommittedTouches

(* The row k carries the touch of w.                                       *)
TouchOK(w, k) ==
  /\ seen[w][k] # NoRow
  /\ IF InTx(w) /\ pc[w] # "done"
     THEN locker[k] = w /\ row[k] # NoRow /\ w \in row[k].touched
     ELSE Touched(w, k)

LEMMA OthersTouchOK ==
  ASSUME IInv, HitInv, KeptInv, NEW w \in Workers, Work(w),
         NEW v \in Workers, v # w, NEW k \in Keys, TouchOK(v, k)
  PROVE  TouchOK(v, k)'
<1>1. /\ seen'[v] = seen[v] /\ seen[v][k] # NoRow /\ pc'[v] = pc[v] /\ InTx(v)' = InTx(v)
  BY OthersWait DEF TouchOK
<1>2. CASE InTx(v) /\ pc[v] # "done"
  <2>1. locker[k] = v /\ v # Nobody
    BY <1>2, NobodyAssumption DEF TouchOK
  <2>2. locker'[k] = v /\ row'[k] = row[k]
    <3>1. CASE UNCHANGED <<store, hits>>
      BY <2>1, <3>1 DEF store
    <3>2. ASSUME NEW changes, Writes(w, changes)
          PROVE  locker'[k] = v /\ row'[k] = row[k]
      BY <2>1, <3>2, WritesRow
    <3>3. CASE Finish(w)
      BY <2>1, <3>3, FinishRows
    <3> QED BY <3>1, <3>2, <3>3, StepKinds
  <2> QED BY <1>1, <1>2, <2>1, <2>2 DEF TouchOK
<1>3. CASE ~(InTx(v) /\ pc[v] # "done")
  <2>1. Touched(v, k)
    BY <1>3 DEF TouchOK
  <2>2. Touched(v, k)'
    BY <1>1, <2>1, TouchedStays
  <2> QED BY <1>1, <1>3, <2>2 DEF TouchOK
<1> QED BY <1>2, <1>3

LEMMA OwnTouchOK ==
  ASSUME IInv, HitInv, KeptInv, NEW w \in Workers, Work(w), IsTouch(w), NEW k \in Keys,
         k \in hits'[w], \A x \in hits[w] : TouchOK(w, x)
  PROVE  TouchOK(w, k)'
<1>1. InTx(w)' = InTx(w) /\ TypeOK /\ Op(w) # "retry"
  BY OthersWait DEF IInv, IsTouch
<1>2. CASE Read(w) \/ Count(w)
  BY <1>2 DEF Read, Count, HitInv
<1>3. CASE StatementsDone(w) \/ Victim(w)
  <2>1. /\ hits' = hits /\ seen' = seen /\ UNCHANGED store
        /\ pc[w] # "done" /\ pc'[w] # "done"
    BY <1>1, <1>3 DEF StatementsDone, Victim, End, Goto, TypeOK
  <2>2. TouchOK(w, k) /\ Committed(k)' = Committed(k)
    BY <2>1 DEF store, Committed
  <2> QED BY <1>1, <2>1, <2>2 DEF TouchOK, Touched, store
<1>4. CASE Statement(w)
  <2> DEFINE changes == StatementChanges(w)
  <2>1. Writes(w, changes)
    BY <1>4, StatementWrites
  <2> HIDE DEF changes
  <2>2. /\ pc[w] # "done" /\ pc'[w] # "done" /\ seen'[w] = seen[w]
        /\ hits'[w] = hits[w] \cup DOMAIN changes
    BY <2>1 DEF Writes
  <2>3. CASE k \in DOMAIN changes
    <3>1. row'[k] # NoRow /\ w \in row'[k].touched /\ seen[w][k] # NoRow
      BY <2>1, <2>3, WritesRow DEF Wrote
    <3>2. InTx(w) => locker'[k] = w
      BY <2>1, <2>3, WritesRow
    <3>3. ~InTx(w) => Committed(k)' = row'[k]
      BY <2>1, <2>3, WritesRow DEF Committed
    <3>4. ~InTx(w) => Touched(w, k)'
      BY <3>1, <3>3 DEF Touched
    <3> QED BY <1>1, <2>2, <3>1, <3>2, <3>4 DEF TouchOK
  <2>4. CASE k \notin DOMAIN changes
    <3>1. TouchOK(w, k) /\ row'[k] = row[k] /\ locker'[k] = locker[k] /\ undo'[k] = undo[k]
      BY <2>1, <2>2, <2>4, WritesRow
    <3>2. Committed(k)' = Committed(k)
      BY <3>1 DEF Committed
    <3> QED BY <1>1, <2>2, <3>1, <3>2 DEF TouchOK, Touched
  <2> QED BY <2>3, <2>4
<1>5. CASE RetryUpdate(w)
  BY <1>1, <1>5 DEF RetryUpdate
<1>6. CASE Finish(w)
  <2>1. /\ pc[w] # "done" /\ pc'[w] = "done" /\ seen' = seen /\ hits'[w] = hits[w]
        /\ InTx(w) => row' = row
    BY <1>6, FinishReports DEF Finish
  <2>2. TouchOK(w, k)
    BY <2>1
  <2>3. CASE InTx(w)
    <3>1. locker[k] = w /\ row[k] # NoRow /\ w \in row[k].touched /\ row'[k] = row[k]
      BY <2>1, <2>2, <2>3 DEF TouchOK
    <3>2. locker'[k] = Nobody
      BY <1>6, <3>1, FinishRows
    <3>3. Committed(k)' = row[k]
      BY <3>1, <3>2 DEF Committed
    <3>4. Touched(w, k)'
      BY <3>1, <3>3 DEF Touched
    <3> QED BY <2>1, <2>2, <3>4 DEF TouchOK
  <2>4. CASE ~InTx(w)
    <3>1. Touched(w, k)'
      BY <2>1, <2>2, <2>4, TouchedStays DEF TouchOK
    <3> QED BY <2>1, <2>2, <3>1 DEF TouchOK
  <2> QED BY <2>3, <2>4
<1> QED BY <1>2, <1>3, <1>4, <1>5, <1>6 DEF Work

LEMMA TouchStep ==
  ASSUME IInv, HitInv, KeptInv, TouchInv, NEW w \in Workers, Work(w)
  PROVE  TouchInv'
<1> SUFFICES ASSUME NEW v \in Workers, IsTouch(v), NEW k \in hits'[v]
             PROVE  TouchOK(v, k)'
  BY OthersWait DEF TouchInv, TouchOK
<1>1. hits'[v] \subseteq Keys
  BY NextIInv DEF Next, IInv, TypeOK
<1>2. \A x \in hits[v] : TouchOK(v, x)
  BY DEF TouchInv, TouchOK
<1>3. CASE v = w
  BY <1>1, <1>2, <1>3, OwnTouchOK
<1>4. CASE v # w
  <2>1. TouchOK(v, k)
    BY <1>2, <1>4, OthersWait
  <2> QED BY <1>1, <1>4, <2>1, OthersTouchOK
<1> QED BY <1>3, <1>4

LEMMA EndStep ==
  ASSUME IInv, EndInv, NEW w \in Workers, Work(w)
  PROVE  EndInv'
<1> SUFFICES ASSUME NEW v \in Workers, Op(v) = "touchAll", pc'[v] \in {"finish", "done"}
             PROVE  outcome'[v] \in Failed \/ (outcome'[v] = "ok" /\ hits'[v] = KeysOf(v))
  BY OthersWait DEF EndInv
<1>1. CASE v # w
  BY <1>1, OthersWait DEF EndInv
<1>2. CASE v = w
  <2> USE DEF IInv, TypeOK, End, Goto, Failed
  <2>1. CASE Read(w)
    BY <1>2, <2>1 DEF Read
  <2>2. CASE Count(w) \/ Victim(w)
    BY <1>2, <2>2 DEF Count, Victim
  <2>3. CASE StatementsDone(w)
    BY <1>2, <2>3 DEF StatementsDone
  <2>4. CASE Statement(w) \/ RetryUpdate(w)
    BY <1>2, <2>4 DEF Statement, RetryUpdate
  <2>5. CASE Finish(w)
    <3>1. outcome[w] \in Failed \/ (outcome[w] = "ok" /\ hits[w] = KeysOf(w))
      BY <1>2, <2>5 DEF EndInv, Finish
    <3> QED BY <1>2, <2>5, <3>1, FinishReports
  <2> QED BY <2>1, <2>2, <2>3, <2>4, <2>5 DEF Work
<1> QED BY <1>1, <1>2

(* What a worker is told is what is stored, for any workers, rows, tasks   *)
(* and numbers of attempts, with real and with pass-through transactions:  *)
(* touchMany is all or nothing and reports which, and a row a finished     *)
(* worker reports as not matched holds none of its changes                 *)
(* (db-table.ts:1496-1507, docs/api/versioning.md:103-109).                *)
THEOREM ReportsTrue == Spec => []ReportsAreTrue
<1>1. Init => ReportInv
  <2> SUFFICES ASSUME Init PROVE ReportInv
    OBVIOUS
  <2>1. HitInv /\ TouchInv /\ KeptInv /\ EndInv
    BY NobodyAssumption DEF Init, HitInv, TouchInv, KeptInv, EndInv
  <2>2. ASSUME NEW k \in Keys, NEW r \in AllImages(k) \cup {row[k]} PROVE Marks(r) = {}
    <3>1. row[k].val = {} /\ row[k].touched = {} /\ r \in {row[k], NoRow}
      BY <2>2 DEF Init, AllImages, Committed
    <3> QED BY <3>1 DEF Marks
  <2>3. MarkInv
    BY <2>2 DEF MarkInv
  <2> QED BY <2>1, <2>3 DEF ReportInv
<1>2. IInv /\ ReportInv /\ [Next]_vars => ReportInv'
  <2> SUFFICES ASSUME IInv, ReportInv, [Next]_vars PROVE ReportInv'
    OBVIOUS
  <2> USE DEF ReportInv
  <2>1. CASE UNCHANGED vars
    <3>1. \A w : /\ Op(w)' = Op(w) /\ InTx(w)' = InTx(w) /\ IsTouch(w)' = IsTouch(w)
                 /\ KeysOf(w)' = KeysOf(w)
      BY <2>1 DEF vars, Op, InTx, IsTouch, Items_, KeysOf
    <3>2. \A k : Committed(k)' = Committed(k) /\ AllImages(k)' = AllImages(k)
      BY <2>1 DEF vars, store, Committed, AllImages
    <3>3. UNCHANGED <<store, hits, pc, outcome, seen>>
      BY <2>1 DEF vars
    <3>4. MarkInv'
      BY <3>1, <3>2, <3>3 DEF MarkInv, Told, store
    <3>5. HitInv' /\ KeptInv' /\ EndInv'
      BY <3>1, <3>3 DEF HitInv, KeptInv, EndInv, store
    <3>6. TouchInv'
      BY <3>1, <3>2, <3>3 DEF TouchInv, Touched, store
    <3> QED BY <3>4, <3>5, <3>6
  <2>2. ASSUME NEW w \in Workers, Work(w) PROVE ReportInv'
    BY <2>2, MarkStep, HitStep, TouchStep, KeptStep, EndStep
  <2> QED BY <2>1, <2>2 DEF Next
<1>3. IInv /\ ReportInv => ReportsAreTrue
  <2> SUFFICES ASSUME IInv, ReportInv PROVE ReportsAreTrue
    OBVIOUS
  <2> USE DEF ReportInv
  <2>1. ASSUME NEW w \in Workers, pc[w] = "done", NEW k \in Keys, Committed(k) # NoRow,
               w \in Committed(k).val \cup Committed(k).touched
        PROVE  Told(w, k)
    BY <2>1, ImagesTold DEF Marks
  <2>2. NothingUnreported
    BY <2>1 DEF NothingUnreported, Told
  <2>3. TouchAllOrNothing
    <3> SUFFICES ASSUME NEW w \in Workers, pc[w] = "done", Op(w) = "touchAll", NEW k \in KeysOf(w)
                 PROVE  /\ realTx /\ outcome[w] # "ok" =>
                             Committed(k) = NoRow \/ w \notin Committed(k).touched
                        /\ outcome[w] = "ok" => Touched(w, k)
      BY DEF TouchAllOrNothing, Touched
    <3>1. k \in Keys /\ IsTouch(w)
      BY KeysType DEF IInv, IsTouch
    <3>2. ASSUME realTx, outcome[w] # "ok", Committed(k) # NoRow, w \in Committed(k).touched
          PROVE  FALSE
      <4>1. Told(w, k) /\ InTx(w)
        BY <2>1, <3>1, <3>2 DEF InTx
      <4>2. outcome[w] \in Failed
        BY <3>2 DEF EndInv
      <4> QED BY <4>1, <4>2 DEF Told
    <3>3. ASSUME outcome[w] = "ok" PROVE Touched(w, k)
      <4>1. k \in hits[w]
        BY <3>3 DEF EndInv, Failed
      <4> QED BY <3>1, <4>1 DEF TouchInv
    <3> QED BY <3>2, <3>3
  <2> QED BY <2>2, <2>3 DEF ReportsAreTrue
<1> QED BY <1>1, <1>2, <1>3, AlwaysIInv, PTL DEF Spec
=============================================================================
