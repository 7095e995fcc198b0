---------------------------- MODULE MCSchemaSync ----------------------------
(* TLC instances of SchemaSync.  Version "old" is live at the start; "new" *)
(* swaps a column of table t1 and the foreign key over it, adds table t2,  *)
(* which has a foreign key, and removes table t3.                          *)
EXTENDS SchemaSyncInvariant

MCVersions == {"old", "new"}
MCOrder == <<"t1", "t2", "t3">>
MCDesired ==
  [v \in MCVersions |->
     IF v = "old" THEN [t \in ToSet(MCOrder) |->
       CASE t = "t1" -> {"id", "a"} [] t = "t2" -> {} [] t = "t3" -> {"id"}]
     ELSE [t \in ToSet(MCOrder) |->
       CASE t = "t1" -> {"id", "b"} [] t = "t2" -> {"id"} [] t = "t3" -> {}]]

MCKeys ==
  [v \in MCVersions |-> [t \in ToSet(MCOrder) |->
     CASE t = "t1" -> IF v = "old" THEN {"a"} ELSE {"b"}
       [] t = "t2" -> IF v = "old" THEN {} ELSE {"id"}
       [] t = "t3" -> {}]]

(* PostgreSQL or MySQL, SQLite, MongoDB without a replica set.             *)
MCAdapters == {<<TRUE, "alter">>, <<TRUE, "recreate">>, <<FALSE, "none">>}

AllCarryNew == [r \in Runs |-> "new"]

EarlyAndLate == <<"early", "late">>

=============================================================================
