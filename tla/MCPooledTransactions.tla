------------------------ MODULE MCPooledTransactions ------------------------
(* TLC instances of PooledTransactions: a PostgreSQL and a MySQL pool, with *)
(* MySQL calls made inside PostgreSQL transactions.                        *)
EXTENDS PooledTransactions

PoolOfConn == [k \in Conns |-> IF k = "m1" THEN "my" ELSE "pg"]
MyInsidePg == {<<"pg", "my">>}
=============================================================================
