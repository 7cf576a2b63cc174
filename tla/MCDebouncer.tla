---------------------------- MODULE MCDebouncer -----------------------------
(* A small debouncer for TLC: two paths that share the lock and the thread  *)
(* that calls schedule().                                                   *)
EXTENDS Debouncer

CONSTANTS a, b

MCPaths == {a, b}
=============================================================================
