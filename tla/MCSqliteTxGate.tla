--------------------------- MODULE MCSqliteTxGate ---------------------------
(* TLC instances of SqliteTxGate: three contexts, model values, which the  *)
(* safety runs take as symmetric.                                          *)
EXTENDS SqliteTxGate, TLC

Symmetry == Permutations(Ctx)
=============================================================================
