-------------------------- MODULE SerialConnection --------------------------
(***************************************************************************)
(* What the transaction gate promises its callers (the comment on          *)
(* SqliteTxGate, packages/db-sqlite/src/tx-gate.ts:133-147): the one       *)
(* connection behaves as if contexts used it one after the other.  Nobody  *)
(* queues, wakes or times out here; a context takes the free connection,   *)
(* runs at most one transaction at a time on it and gives it back, and a   *)
(* plain statement of anybody runs only while nobody has it.               *)
(***************************************************************************)
CONSTANTS Ctx, NoCtx

VARIABLES
  holders,  \* contexts that have the connection: none or one
  txn,      \* whose SQL transaction is open, or NoCtx
  effect    \* effect of each context's last plain statement

connVars == <<holders, txn, effect>>

ConnInit ==
  /\ holders = {}
  /\ txn = NoCtx
  /\ effect = [c \in Ctx |-> "none"]

(* A plain statement commits by itself: no transaction is open around it.  *)
PlainStatement(c) ==
  /\ holders = {}
  /\ txn = NoCtx
  /\ effect' = [effect EXCEPT ![c] = "durable"]
  /\ UNCHANGED <<holders, txn>>

Take(c) ==
  /\ holders = {}
  /\ txn = NoCtx
  /\ holders' = {c}
  /\ UNCHANGED <<txn, effect>>

BeginTransaction(c) ==
  /\ holders = {c}
  /\ txn = NoCtx
  /\ txn' = c
  /\ UNCHANGED <<holders, effect>>

(* COMMIT or ROLLBACK; the connection is given back or kept (exclusive).   *)
EndTransaction(c) ==
  /\ holders = {c}
  /\ txn = c
  /\ txn' = NoCtx
  /\ holders' \in {{c}, {}}
  /\ UNCHANGED effect

GiveBack(c) ==
  /\ holders = {c}
  /\ txn = NoCtx
  /\ holders' = {}
  /\ UNCHANGED <<txn, effect>>

ConnNext ==
  \E c \in Ctx :
    \/ PlainStatement(c)
    \/ Take(c) \/ GiveBack(c)
    \/ BeginTransaction(c) \/ EndTransaction(c)

ConnSpec == ConnInit /\ [][ConnNext]_connVars
=============================================================================
