----------------------------- MODULE MCSyncLock -----------------------------
(* TLC instances of SyncLock: each run has a podId of its own.             *)
EXTENDS SyncLock

OwnPodIds == [r \in Runs |-> r]
=============================================================================
