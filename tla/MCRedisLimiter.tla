---------------------------- MODULE MCRedisLimiter ----------------------------
(* The instance of RedisLimiter that TLC checks: two threads, in one process   *)
(* or in two, and a minute of six seconds.                                     *)
EXTENDS RedisLimiter, TLC

CONSTANTS t1, t2, p1, p2

MCThreads == {t1, t2}
MCProcesses == {p1, p2}
MCPlacements == [MCThreads -> MCProcesses]

\* Neither the threads nor the processes differ.
MCSymmetry == Permutations(MCThreads) \cup Permutations(MCProcesses)

MCReported == {3, 0, -1}

MCSetups == { [kind |-> "rpm", limit |-> 6], [kind |-> "qps", limit |-> 12] }

=============================================================================
