-------------------------- MODULE MCSyncLimiter --------------------------
(* The instance of SyncLimiter that TLC checks: two threads, a limit of two *)
(* queries in two ticks, one of one query in two ticks, and one of half a   *)
(* query that _RateLimiter rounds up to one query in a longer period.       *)
EXTENDS SyncLimiter

MCQuery == 2
MCAmounts == {2}
MCLimits == {[cap |-> 4, rate |-> 2], [cap |-> 2, rate |-> 1]}
MCSmallLimits == {[cap |-> 4, rate |-> 3], [cap |-> 1, rate |-> 1]}
=============================================================================
