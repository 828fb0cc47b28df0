---------------------------- MODULE MCKeyAdmin ----------------------------
(* KeyAdmin for TLC: one key at first and room for one more, two confs.    *)
EXTENDS KeyAdmin, TLC

CONSTANTS k1, k2, c1, c2

===========================================================================
