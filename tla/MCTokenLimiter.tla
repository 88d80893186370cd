-------------------------- MODULE MCTokenLimiter --------------------------
(* The instance of TokenLimiter that TLC checks: limits 4, 2 and 0 with a   *)
(* buffer of one quarter, which leaves 3, 1 and 0.                          *)
EXTENDS TokenLimiter

MCNeeds == {1, 3}
MCUsages == {0, 2}
MCTpms == {0, 2, 4}
=============================================================================
