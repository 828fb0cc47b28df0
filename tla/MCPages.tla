------------------------------ MODULE MCPages ------------------------------
(* Pages for TLC: two rows in each table, pages of one row.                *)
EXTENDS Pages, TLC

MCNames == 1 :> "a" @@ 2 :> "b"

=============================================================================
