---------------------------- MODULE TokenBucket ----------------------------
(***************************************************************************)
(* What the synchronous rate limiter of python/qianfan promises to the     *)
(* threads that call it, without a worker, a queue or a lock: a bucket     *)
(* that refills at a steady rate up to its capacity, requests admitted in  *)
(* the order they arrived, each paid for in full when it is admitted, and  *)
(* a caller that leaves only once it has been admitted.                    *)
(*                                                                         *)
(* Quantities are naturals in token units; one Refill is one unit of time. *)
(***************************************************************************)
EXTENDS Naturals, Sequences

CONSTANTS
    Callers,    \* the threads that may ask for tokens
    Amounts,    \* the amounts a caller may ask for
    Limits      \* the limits in force at one time or another: [cap, rate]

VARIABLES
    limit,      \* the limit in force
    level,      \* what the bucket holds
    pending,    \* requests not yet admitted, oldest first
    admitted    \* callers admitted that have not left yet

vars == <<limit, level, pending, admitted>>

Lesser(a, b) == IF a <= b THEN a ELSE b

Requests == [caller : Callers, amount : Amounts]

TypeOK ==
    /\ limit \in Limits
    /\ level \in 0 .. limit.cap
    /\ pending \in Seq(Requests)
    /\ admitted \subseteq Callers

\* The bucket starts empty, so a new limiter grants no burst.
Init ==
    /\ limit \in Limits
    /\ level = 0
    /\ pending = <<>>
    /\ admitted = {}

Request(c, a) ==
    /\ pending' = Append(pending, [caller |-> c, amount |-> a])
    /\ UNCHANGED <<limit, level, admitted>>

Admit ==
    /\ pending # <<>>
    /\ Head(pending).amount <= level
    /\ level' = level - Head(pending).amount
    /\ pending' = Tail(pending)
    /\ admitted' = admitted \cup {Head(pending).caller}
    /\ UNCHANGED limit

Leave(c) ==
    /\ c \in admitted
    /\ admitted' = admitted \ {c}
    /\ UNCHANGED <<limit, level, pending>>

Refill ==
    /\ level' = Lesser(limit.cap, level + limit.rate)
    /\ UNCHANGED <<limit, pending, admitted>>

\* A limit is only ever lowered, and lowering it never adds tokens.
Lower(l) ==
    /\ l.cap <= limit.cap
    /\ l.rate <= limit.rate
    /\ limit' = l
    /\ level' \in 0 .. Lesser(l.cap, level)
    /\ UNCHANGED <<pending, admitted>>

Next ==
    \/ \E c \in Callers, a \in Amounts : Request(c, a)
    \/ Admit
    \/ \E c \in Callers : Leave(c)
    \/ Refill
    \/ \E l \in Limits : Lower(l)

Spec == Init /\ [][Next]_vars

=============================================================================
