---------------------------- MODULE TokenLimiter ----------------------------
(***************************************************************************)
(* The tokens-per-minute limiter of python/qianfan/resources/              *)
(* token_limiter.py, class TokenLimiter, with the request cycle of         *)
(* requestor/openapi_requestor.py that drives it: decline before a request,*)
(* compensate and reset_once after its answer, clear when the server says  *)
(* that the limit is reached.                                              *)
(*                                                                         *)
(* Any number of threads share one limiter.  The budget of a minute is     *)
(* refilled by the first decline of that minute; a decline that does not   *)
(* fit sleeps to the next minute WITH the lock, so that a compensation     *)
(* gives up after a second and is lost.  _is_closed, _check_limit and the  *)
(* first test of _has_been_reset are made without the lock.                *)
(*                                                                         *)
(* Only the minute of the clock matters to the code: a sleep of 60 minus   *)
(* the seconds of the last check always ends in a later minute.  The       *)
(* asynchronous limiter (AsyncTokenLimiter) has the same steps; its        *)
(* compensate gives up at once when the lock is taken, which is one of the *)
(* outcomes here, and its coroutines switch at fewer places.               *)
(***************************************************************************)
EXTENDS Integers

CONSTANTS
    Threads,        \* the threads that issue requests
    NoThread,       \* nobody holds the lock
    Needs,          \* token counts estimated from a request's body
    Usages,         \* total_tokens the server reports, 0 for none
    Tpms,           \* limits: the configured one and the server's
    BufferNum,      \* 1 - buffer_ratio as a fraction BufferNum / BufferDen
    BufferDen,
    MaxMinute,      \* bound: past it the clock moves only for a sleeper
    MaxRequests     \* bound: how many requests are made in all

ASSUME TokenLimiterAssumption ==
    /\ NoThread \notin Threads
    /\ Needs \subseteq Nat
    /\ Usages \subseteq Nat
    /\ Tpms \subseteq Nat
    /\ BufferNum \in Nat
    /\ BufferDen \in Nat \ {0}
    /\ BufferNum <= BufferDen
    /\ MaxMinute \in Nat
    /\ MaxRequests \in Nat

VARIABLES
    forced,     \* the limiter was made with forcing_disable=True
    og,         \* _og_token_limit_per_minute
    limit,      \* _token_limit_per_minute
    current,    \* _token_current
    last,       \* the minute of _last_check_timestamp
    hasReset,   \* _has_been_reset
    lock,       \* the holder of _lock
    pc,         \* where each thread is
    arg,        \* what each thread passes on: its need, compensation or tpm
    need,       \* the token count of each thread's request
    tries,      \* attempts of the current decline
    minute,     \* the clock
    requests,   \* how many requests were started
    book        \* history: the minute of the last decline and, since its first
                \* one, what was declined, given back and the largest limit

shared == <<forced, og, limit, current, last, hasReset>>
local == <<arg, need, tries>>
vars == <<forced, og, limit, current, last, hasReset, lock, pc, arg, need, tries,
          minute, requests, book>>

Greater(a, b) == IF a >= b THEN a ELSE b
Lesser(a, b) == IF a <= b THEN a ELSE b

\* int(tpm * (1 - buffer_ratio)), which may truncate to zero.
Buffered(tpm) == (tpm * BufferNum) \div BufferDen

IsClosed == limit <= 0

Holding == {"try", "sleep", "raise"}
Outside == {"idle", "lock", "sent", "compensate", "givelock", "header",
            "resetlock", "clear", "clearlock"}

-----------------------------------------------------------------------------

\* forcing_disable only pretends that the reset has been made already.
Init ==
    /\ og \in Tpms
    /\ limit = Buffered(og)
    /\ current = limit
    /\ last = 0
    /\ forced \in BOOLEAN
    /\ hasReset = forced
    /\ lock = NoThread
    /\ pc = [t \in Threads |-> "idle"]
    /\ arg = [t \in Threads |-> 0]
    /\ need = [t \in Threads |-> 0]
    /\ tries = [t \in Threads |-> 0]
    /\ minute = 0
    /\ requests = 0
    /\ book = [minute |-> 0, used |-> 0, credit |-> 0, top |-> limit]

Goto(t, place) == pc' = [pc EXCEPT ![t] = place]

-----------------------------------------------------------------------------
(* decline.                                                                 *)

\* A closed limiter lets the request pass; a need above the limit raises
\* ValueError and changes nothing.
DeclineCheck(t, n) ==
    /\ pc[t] = "idle"
    /\ requests < MaxRequests
    /\ IsClosed \/ n <= limit
    /\ Goto(t, IF IsClosed THEN "sent" ELSE "lock")
    /\ need' = [need EXCEPT ![t] = n]
    /\ requests' = requests + 1
    /\ UNCHANGED <<shared, lock, arg, tries, minute, book>>

DeclineLock(t) ==
    /\ pc[t] = "lock"
    /\ lock = NoThread
    /\ lock' = t
    /\ tries' = [tries EXCEPT ![t] = 0]
    /\ Goto(t, "try")
    /\ UNCHANGED <<shared, arg, need, minute, requests, book>>

\* The mutant of Refresh: a check that does not remember its time refills the
\* bucket again and again.
RefreshForgetting == last' = last

\* _refresh_time_and_token: the first check of a minute starts a new budget.
Refresh == last' = minute

Refilled == IF minute # last THEN limit ELSE current

BookNow ==
    IF minute # book.minute
    THEN [minute |-> minute, used |-> 0, credit |-> 0, top |-> limit]
    ELSE book

DeclineTake(t) ==
    /\ pc[t] = "try"
    /\ need[t] <= Refilled
    /\ Refresh
    /\ current' = Refilled - need[t]
    /\ book' = [BookNow EXCEPT !.used = @ + need[t]]
    /\ lock' = NoThread
    /\ Goto(t, "sent")
    /\ UNCHANGED <<forced, og, limit, hasReset, local, minute, requests>>

DeclineShort(t) ==
    /\ pc[t] = "try"
    /\ need[t] > Refilled
    /\ Refresh
    /\ current' = Refilled
    /\ book' = BookNow
    /\ tries' = [tries EXCEPT ![t] = @ + 1]
    /\ Goto(t, "sleep")
    /\ UNCHANGED <<forced, og, limit, hasReset, lock, arg, need, minute, requests>>

\* The mutant of DeclineWake: the sleep ends within the same minute.
WakeTooEarly(t) ==
    /\ pc[t] = "sleep"
    /\ Goto(t, IF tries[t] < 3 THEN "try" ELSE "raise")
    /\ UNCHANGED <<shared, lock, local, minute, requests, book>>

\* The third sleep is followed by no further attempt.
DeclineWake(t) ==
    /\ pc[t] = "sleep"
    /\ minute > last
    /\ Goto(t, IF tries[t] < 3 THEN "try" ELSE "raise")
    /\ UNCHANGED <<shared, lock, local, minute, requests, book>>

\* The mutant of DeclineRaise: an exception that leaves the lock taken.
RaiseKeepingLock(t) ==
    /\ pc[t] = "raise"
    /\ Goto(t, "idle")
    /\ UNCHANGED <<shared, lock, local, minute, requests, book>>

\* raise RuntimeError, which leaves the with statement and frees the lock.
DeclineRaise(t) ==
    /\ pc[t] = "raise"
    /\ lock' = NoThread
    /\ Goto(t, "idle")
    /\ UNCHANGED <<shared, local, minute, requests, book>>

-----------------------------------------------------------------------------
(* The answer of the server: usage, the TPM limit reached, or another       *)
(* failure, which gives nothing back.                                       *)

AnswerUsage(t, u) ==
    /\ pc[t] = "sent"
    /\ arg' = [arg EXCEPT ![t] = need[t] - u]
    /\ Goto(t, IF u # 0 THEN "compensate" ELSE "header")
    /\ UNCHANGED <<shared, lock, need, tries, minute, requests, book>>

AnswerLimitReached(t) ==
    /\ pc[t] = "sent"
    /\ Goto(t, "clear")
    /\ UNCHANGED <<shared, lock, local, minute, requests, book>>

AnswerFailure(t) ==
    /\ pc[t] = "sent"
    /\ Goto(t, "idle")
    /\ UNCHANGED <<shared, lock, local, minute, requests, book>>

-----------------------------------------------------------------------------
(* compensate, clear and reset_once.                                        *)

CompensateCheck(t) ==
    /\ pc[t] = "compensate"
    /\ Goto(t, IF IsClosed THEN "header" ELSE "givelock")
    /\ UNCHANGED <<shared, lock, local, minute, requests, book>>

\* No upper bound: an overestimate made in the last minute is given back to
\* this one.
CompensateApply(t) ==
    /\ pc[t] = "givelock"
    /\ lock = NoThread
    /\ current' = current + arg[t]
    /\ book' = [book EXCEPT !.credit = @ + Greater(arg[t], 0)]
    /\ Goto(t, "header")
    /\ UNCHANGED <<forced, og, limit, last, hasReset, lock, local, minute, requests>>

\* acquire(timeout=1) fails while a decline sleeps with the lock.
CompensateTimeout(t) ==
    /\ pc[t] = "givelock"
    /\ lock # NoThread
    /\ Goto(t, "header")
    /\ UNCHANGED <<shared, lock, local, minute, requests, book>>

ClearCheck(t) ==
    /\ pc[t] = "clear"
    /\ Goto(t, IF IsClosed THEN "idle" ELSE "clearlock")
    /\ UNCHANGED <<shared, lock, local, minute, requests, book>>

ClearApply(t) ==
    /\ pc[t] = "clearlock"
    /\ lock = NoThread
    /\ current' = 0
    /\ Goto(t, "idle")
    /\ UNCHANGED <<forced, og, limit, last, hasReset, lock, local, minute, requests,
                   book>>

\* An answer without the X-Ratelimit-Limit-Tokens header, or a reset already
\* made.
NoReset(t) ==
    /\ pc[t] = "header"
    /\ Goto(t, "idle")
    /\ UNCHANGED <<shared, lock, local, minute, requests, book>>

ResetCheck(t, tpm) ==
    /\ pc[t] = "header"
    /\ ~ hasReset
    /\ arg' = [arg EXCEPT ![t] = tpm]
    /\ Goto(t, "resetlock")
    /\ UNCHANGED <<shared, lock, need, tries, minute, requests, book>>

\* The mutant of AlreadyReset: the lock is taken and nothing tested again.
NeverReset == FALSE

\* The test repeated under the lock: another thread reset it meanwhile.
AlreadyReset == hasReset

ResetSkip(t) ==
    /\ pc[t] = "resetlock"
    /\ lock = NoThread
    /\ AlreadyReset \/ og = arg[t]
    /\ hasReset' = TRUE
    /\ Goto(t, "idle")
    /\ UNCHANGED <<forced, og, limit, current, last, lock, local, minute, requests,
                   book>>

\* An open limiter takes the smaller limit, a closed one the server's; what was
\* taken of the old budget is taken of the new one.
ResetApply(t) ==
    /\ pc[t] = "resetlock"
    /\ lock = NoThread
    /\ ~ AlreadyReset
    /\ og # arg[t]
    /\ LET tpm == IF IsClosed THEN arg[t] ELSE Lesser(og, arg[t])
           taken == limit - current
       IN /\ limit' = Buffered(tpm)
          /\ current' = Greater(limit' - taken, 0)
          /\ book' = [book EXCEPT !.top = Greater(@, limit')]
    /\ hasReset' = TRUE
    /\ Goto(t, "idle")
    /\ UNCHANGED <<forced, og, last, lock, local, minute, requests>>

-----------------------------------------------------------------------------

NextMinute ==
    /\ \/ minute < MaxMinute
       \/ \E t \in Threads : pc[t] = "sleep" /\ minute = last
    /\ minute' = minute + 1
    /\ UNCHANGED <<shared, lock, pc, local, requests, book>>

Decline(t) ==
    \/ DeclineLock(t)
    \/ DeclineTake(t)
    \/ DeclineShort(t)
    \/ DeclineWake(t)
    \/ DeclineRaise(t)

Answer(t) ==
    \/ \E u \in Usages : AnswerUsage(t, u)
    \/ AnswerLimitReached(t)
    \/ AnswerFailure(t)

Settle(t) ==
    \/ CompensateCheck(t)
    \/ CompensateApply(t)
    \/ CompensateTimeout(t)
    \/ ClearCheck(t)
    \/ ClearApply(t)
    \/ NoReset(t)
    \/ \E tpm \in Tpms : ResetCheck(t, tpm)
    \/ ResetSkip(t)
    \/ ResetApply(t)

Next ==
    \/ \E t \in Threads :
           \/ \E n \in Needs : DeclineCheck(t, n)
           \/ Decline(t)
           \/ Answer(t)
           \/ Settle(t)
    \/ NextMinute

Spec == Init /\ [][Next]_vars

\* Threads run, servers answer or time out, the clock goes on.  A lock that is
\* let go again and again is obtained in the end because requests are finite.
Fairness ==
    /\ \A t \in Threads : WF_vars(Decline(t) \/ Answer(t) \/ Settle(t))
    /\ WF_vars(NextMinute)

FairSpec == Spec /\ Fairness

-----------------------------------------------------------------------------
(* Properties.                                                              *)

\* Types; and the lock is held exactly by the thread inside decline's critical
\* section, whichever way it leaves it.
TypeOK ==
    /\ forced \in BOOLEAN
    /\ og \in Nat
    /\ limit \in Nat
    /\ current \in Int
    /\ minute \in Nat
    /\ last \in 0 .. minute
    /\ hasReset \in BOOLEAN
    /\ lock \in Threads \cup {NoThread}
    /\ pc \in [Threads -> Holding \cup Outside]
    /\ arg \in [Threads -> Int]
    /\ need \in [Threads -> Nat]
    /\ tries \in [Threads -> 0 .. 3]
    /\ requests \in Nat
    /\ book \in [minute : Nat, used : Nat, credit : Nat, top : Nat]
    /\ \A t \in Threads : lock = t <=> pc[t] \in Holding

\* The tokens declined within one minute stay within the largest limit in
\* force in it plus what compensations gave back, whatever the threads, resets,
\* clears and the turn of the minute do.
MinuteBudget == book.used <= book.top + book.credit

\* decline raises RuntimeError only for a need that a reset made impossible to
\* satisfy: a need that fits the limit is served in the next minute at the
\* latest.
RaisesOnlyWhenLowered ==
    \A t \in Threads : pc[t] = "raise" => need[t] > limit

\* A thread that finds the limiter reset never changes the limit again: the
\* answers of concurrent requests reset it once, not once each.
OneReset == [][hasReset => limit' = limit]_vars

\* Every decline that passed its check ends, granted or refused, although the
\* lock is held through sleeps.
EveryDeclineEnds ==
    \A t \in Threads : pc[t] = "lock" ~> pc[t] \in {"sent", "idle"}

=============================================================================
