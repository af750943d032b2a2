--------------------------- MODULE MCServerEngine ---------------------------
(* ServerEngine for TLC. *)
EXTENDS ServerEngine, TLC

Interchangeable == Permutations(Symbols)
=============================================================================
