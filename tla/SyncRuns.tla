------------------------------ MODULE SyncRuns ------------------------------
(***************************************************************************)
(* The runs of schema sync, which SyncLock and SchemaSync both look at.    *)
(***************************************************************************)
CONSTANTS
  Runs,     \* runs of syncSchema, each in a process of its own
  MayCrash  \* runs whose process may die
=============================================================================
