------------------------- MODULE MCVersionedWrites --------------------------
(* TLC instances of VersionedWrites: two rows, three workers, and the sets *)
(* of tasks in which the writers of the code meet.                         *)
EXTENDS VersionedWrites

Set(k)    == [key |-> k, fields |-> {"own"}, cas |-> FALSE]
SetCas(k) == [key |-> k, fields |-> {"own"}, cas |-> TRUE]
Mixed(k)  == [key |-> k, fields |-> {"own", "exempt"}, cas |-> FALSE]
Exempt(k) == [key |-> k, fields |-> {"exempt"}, cas |-> FALSE]
TouchKey(k) == [key |-> k, fields |-> {}, cas |-> TRUE]
Empty(k)  == [key |-> k, fields |-> {}, cas |-> FALSE]

MCWorkers == {"w1", "w2", "w3"}
MCKeys == {"k1", "k2"}

Do(op, items) == [op |-> op, items |-> items, isolation |-> "auto"]
Within(isolation, t) == [t EXCEPT !.isolation = isolation]

Retry    == Do("retry", <<SetCas("k1")>>)
Edit     == Do("patch", <<SetCas("k2"), SetCas("k1")>>)
EditOne  == Do("patch", <<SetCas("k1")>>)
Job      == Do("patch", <<Mixed("k1"), Exempt("k2")>>)
Noop     == Do("patch", <<Empty("k1")>>)
TouchAll == Do("touchAll", <<TouchKey("k1"), TouchKey("k2")>>)
TouchAny == Do("touchAny", <<TouchKey("k1"), TouchKey("k2")>>)
Delete   == Do("delete", <<Empty("k1")>>)
Insert   == Do("insert", <<Empty("k1")>>)

Load(a, b, c) == [w1 |-> a, w2 |-> b, w3 |-> c]

MCWorkloads ==
  {Load(Retry, Edit, Job),
   Load(Retry, Retry, Retry),
   Load(Retry, TouchAny, Within("read committed", Edit)),
   Load(TouchAll, Edit, Job),
   Load(TouchAll, Delete, Insert),
   Load(TouchAll, TouchAll, Noop),
   Load(EditOne, Delete, Insert),
   Load(Within("read committed", Retry), Delete, Insert),
   Load(Within("snapshot", Edit), Retry, Job)}
=============================================================================
