--------------------------- MODULE MCLimiterWrapper ---------------------------
(* The instance of LimiterWrapper that TLC checks: two threads and a         *)
(* coroutine, and two limiters that meet under one key or stay apart.        *)
EXTENDS LimiterWrapper, TLC

CONSTANTS v1, v2, k1

Config(k, r) == [kind |-> k, rate |-> r, off |-> FALSE, full |-> FALSE]
Off(c) == [c EXCEPT !.off = TRUE]
Full(c) == [c EXCEPT !.full = TRUE]

\* Limiters without a rate, with one above and one below what is reported, and
\* with arguments that are refused, disabled or have a buffer_ratio of 1.
MCSetups == {v1 :> Config("none", 0) @@ v2 :> Config("qps", 6),
             v1 :> Config("rpm", 6) @@ v2 :> Config("qps", 2),
             v1 :> Off(Config("rpm", 6)) @@ v2 :> Config("both", 0),
             v1 :> Full(Config("rpm", 6)) @@ v2 :> Config("both", 0)}
MCUses == {<<v1, k1>>, <<v2, k1>>, <<v2, None>>}
MCReported == {-2, 3}
=============================================================================
