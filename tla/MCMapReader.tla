----------------------------- MODULE MCMapReader -----------------------------
(* The instance of MapReader that TLC checks: two threads, three batches of  *)
(* one row or of two, with and without keep_original_order.                  *)
EXTENDS MapReader
=============================================================================
