---------------------------- MODULE MCMetaStore ----------------------------
(* TLC instance of MetaStore: two clients that share a key, two users with *)
(* different `/meta`, a store of one body.                                 *)
EXTENDS MetaStore, TLC

MCMetaKey == [c \in Clients |-> "todos"]
MCBody(u, l, v) == <<u, l, v>>
Symmetry == Permutations(Clients) \cup Permutations(Users) \cup Permutations(Locales)
=============================================================================
