-------------------------- MODULE MCEngineReaders ---------------------------
(* A small instance of EngineReaders for TLC.  The queries: one that holds  *)
(* only in a passing snapshot, one that holds from a revision on.           *)
EXTENDS EngineReaders

MCQueries == {{1}, {2, 3}}
=============================================================================
