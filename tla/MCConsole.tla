----------------------------- MODULE MCConsole -----------------------------
(* Console for TLC: two tabs.                                              *)
EXTENDS Console, TLC

============================================================================
