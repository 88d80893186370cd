-------------------------- MODULE MCStreamReader --------------------------
(* The instance of StreamReader that TLC checks: two streams, each read in  *)
(* any of the ways, that share a pool of one reader.                        *)
EXTENDS StreamReader

MCModes == {"thread", "pool", "stress", "async"}
=============================================================================
