----------------------------- MODULE MCDdlOrder -----------------------------
(* Instances of DdlOrder. *)
EXTENDS DdlOrderInvariant

(* Every foreign-key graph over four new tables, over four removed ones,   *)
(* and every kind of schema change over three names.                       *)
AllFamilies ==
  {[names |-> 1..4, roles |-> {"new"}, wants |-> 12, refs |-> 0, changes |-> {}, mishaps |-> 0],
   [names |-> 1..4, roles |-> {"removed"}, wants |-> 0, refs |-> 12, changes |-> {}, mishaps |-> 0],
   [names |-> 1..3, roles |-> {"new", "kept", "removed", "other"}, wants |-> 2, refs |-> 3,
    changes |-> {"rekey", "retype", "retypekey"}, mishaps |-> 1]}
=============================================================================
