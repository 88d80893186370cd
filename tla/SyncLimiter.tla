---------------------------- MODULE SyncLimiter ----------------------------
(***************************************************************************)
(* The synchronous limiter inside python/qianfan/resources/rate_limiter/   *)
(* rate_limiter.py: class _RateLimiter._SyncLimiter and the parts of       *)
(* _RateLimiter that drive it.                                             *)
(*                                                                         *)
(* A caller checks its amount, puts an _AcquireTask on a FIFO queue, enters*)
(* the task's own Condition and waits.  One daemon worker takes the tasks  *)
(* in turn, refills the bucket under _sync_lock, pays for the task or      *)
(* sleeps for the deficit, and notifies the task's Condition.  reset may   *)
(* lower the limit at any time under the same lock; stop ends the worker.  *)
(*                                                                         *)
(* Tokens are counted in units: a query costs Query of them, a limit is    *)
(* [cap, rate] with cap = _query_per_period and rate = _query_per_second   *)
(* in units per tick of the clock.  The leak and the test that follows it  *)
(* are one step, as they share one critical section; the length of the     *)
(* sleep is computed in a step of its own, from fields read without the    *)
(* lock (rate_limiter.py:490).                                             *)
(***************************************************************************)
EXTENDS Integers, Sequences

CONSTANTS
    Callers,    \* the threads that share the limiter
    Query,      \* token units of one query
    Amounts,    \* the amounts a caller may ask for, in token units
    Limits,     \* the limits asked for, before rounding: [cap, rate]
    MaxNow,     \* bound: past it the clock moves only while the worker sleeps
    MaxTasks    \* bound: how many tasks are put on the queue in all

ASSUME LimiterAssumption ==
    /\ Query \in Nat \ {0}
    /\ Amounts \subseteq Nat \ {0}
    /\ Limits \subseteq [cap : Nat \ {0}, rate : Nat \ {0}]
    /\ MaxNow \in Nat
    /\ MaxTasks \in Nat

VARIABLES
    limit,      \* _query_per_period and _query_per_second
    tokens,     \* _token_count
    lastLeak,   \* _last_leak_timestamp
    running,    \* _running
    queue,      \* _condition_queue
    worker,     \* where the worker thread is
    task,       \* the worker's current task
    wakeAt,     \* when the worker's time.sleep ends
    pc,         \* where each caller is in acquire
    want,       \* the amount each caller asked for
    now,        \* time.time()
    puts,       \* history: how many tasks were put on the queue
    granted,    \* history: callers whose task was paid for and that are not back
    spent,      \* history: units consumed so far
    log         \* history: the grants made under the limit in force

bucket == <<limit, tokens, lastLeak>>
thread == <<worker, task, wakeAt>>
caller == <<pc, want, puts>>
ghosts == <<granted, spent, log>>
vars == <<limit, tokens, lastLeak, running, queue, worker, task, wakeAt,
          pc, want, now, puts, granted, spent, log>>

Lesser(a, b) == IF a <= b THEN a ELSE b

Tasks == [caller : Callers, amount : Amounts]
NoTask == [caller |-> "none", amount |-> 0]
Grants == [at : Nat, before : Nat, after : Nat]

\* _RateLimiter.__init__ and reset: less than one query per period becomes one
\* query in a longer period, which leaves the rate as it was.
Rounded(l) == IF l.cap < Query THEN [cap |-> Query, rate |-> l.rate] ELSE l

RoundedLimits == {Rounded(l) : l \in Limits}

CallerStates == {"idle", "checked", "queued", "waiting", "notified"}
WorkerStates == {"loop", "get", "try", "compute", "sleep", "notify", "stopped"}

-----------------------------------------------------------------------------

\* The bucket starts empty; the worker thread is started by the constructor.
Init ==
    /\ limit \in RoundedLimits
    /\ tokens = 0
    /\ lastLeak = 0
    /\ running = TRUE
    /\ queue = <<>>
    /\ worker = "loop"
    /\ task = NoTask
    /\ wakeAt = 0
    /\ pc = [c \in Callers |-> "idle"]
    /\ want = [c \in Callers |-> 0]
    /\ now = 0
    /\ puts = 0
    /\ granted = {}
    /\ spent = 0
    /\ log = <<>>

-----------------------------------------------------------------------------
(* acquire, one action per point where another thread may come between.     *)

\* The capacity is read without the lock; a larger amount raises ValueError
\* and changes nothing.
CheckAmount(c, a) ==
    /\ pc[c] = "idle"
    /\ running
    /\ a <= limit.cap
    /\ puts < MaxTasks
    /\ pc' = [pc EXCEPT ![c] = "checked"]
    /\ want' = [want EXCEPT ![c] = a]
    /\ UNCHANGED <<bucket, running, queue, thread, now, puts, ghosts>>

PutTask(c) ==
    /\ pc[c] = "checked"
    /\ puts < MaxTasks
    /\ queue' = Append(queue, [caller |-> c, amount |-> want[c]])
    /\ puts' = puts + 1
    /\ pc' = [pc EXCEPT ![c] = "queued"]
    /\ UNCHANGED <<bucket, running, thread, want, now, ghosts>>

\* with request_condition: request_condition.wait()
Wait(c) ==
    /\ pc[c] = "queued"
    /\ pc' = [pc EXCEPT ![c] = "waiting"]
    /\ UNCHANGED <<bucket, running, queue, thread, want, now, puts, ghosts>>

Return(c) ==
    /\ pc[c] = "notified"
    /\ pc' = [pc EXCEPT ![c] = "idle"]
    /\ granted' = granted \ {c}
    /\ UNCHANGED <<bucket, running, queue, thread, want, now, puts, spent, log>>

-----------------------------------------------------------------------------
(* _worker.                                                                 *)

\* while self._running, at the head of the outer loop.
WorkerLoop ==
    /\ worker = "loop"
    /\ worker' = IF running THEN "get" ELSE "stopped"
    /\ UNCHANGED <<bucket, running, queue, task, wakeAt, caller, now, ghosts>>

\* The mutant of WorkerGet: a queue that serves the newest task first.
GetNewest ==
    /\ worker = "get"
    /\ queue # <<>>
    /\ task' = queue[Len(queue)]
    /\ queue' = SubSeq(queue, 1, Len(queue) - 1)
    /\ worker' = "try"
    /\ UNCHANGED <<bucket, running, wakeAt, caller, now, ghosts>>

WorkerGet ==
    /\ worker = "get"
    /\ queue # <<>>
    /\ task' = Head(queue)
    /\ queue' = Tail(queue)
    /\ worker' = "try"
    /\ UNCHANGED <<bucket, running, wakeAt, caller, now, ghosts>>

\* get(True, 1) raises Empty after a second without a task.
WorkerGetTimeout ==
    /\ worker = "get"
    /\ queue = <<>>
    /\ worker' = "loop"
    /\ UNCHANGED <<bucket, running, queue, task, wakeAt, caller, now, ghosts>>

\* The mutant of Leaked: the capacity is forgotten.
LeakedUncapped(l, t, elapsed) == t + elapsed * l.rate

\* _leak: what the bucket holds after `elapsed` more ticks.
Leaked(l, t, elapsed) == Lesser(l.cap, t + elapsed * l.rate)

\* The mutant of WorkerPay: the refill forgets to move its timestamp.
PayKeepingTimestamp ==
    LET refilled == Leaked(limit, tokens, now - lastLeak) IN
    /\ worker = "try"
    /\ running
    /\ refilled >= task.amount
    /\ tokens' = refilled - task.amount
    /\ worker' = "notify"
    /\ granted' = granted \cup {task.caller}
    /\ spent' = spent + task.amount
    /\ log' = Append(log, [at |-> now, before |-> spent, after |-> spent'])
    /\ UNCHANGED <<limit, lastLeak, running, queue, task, wakeAt, caller, now>>

\* One critical section: refill, find enough, consume, leave the inner loop.
\* The inner loop's test of _running fails only after a stop, when no task is
\* left to try (NoTaskAfterStop).
WorkerPay ==
    LET refilled == Leaked(limit, tokens, now - lastLeak) IN
    /\ worker = "try"
    /\ running
    /\ refilled >= task.amount
    /\ lastLeak' = now
    /\ tokens' = refilled - task.amount
    /\ worker' = "notify"
    /\ granted' = granted \cup {task.caller}
    /\ spent' = spent + task.amount
    /\ log' = Append(log, [at |-> now, before |-> spent, after |-> spent'])
    /\ UNCHANGED <<limit, running, queue, task, wakeAt, caller, now>>

\* The mutant of WorkerShort: a task the bucket cannot pay for is dropped.
DropWhenShort ==
    LET refilled == Leaked(limit, tokens, now - lastLeak) IN
    /\ worker = "try"
    /\ running
    /\ refilled < task.amount
    /\ lastLeak' = now
    /\ tokens' = refilled
    /\ worker' = "loop"
    /\ UNCHANGED <<limit, running, queue, task, wakeAt, caller, now, ghosts>>

\* The same critical section, with too little in the bucket.
WorkerShort ==
    LET refilled == Leaked(limit, tokens, now - lastLeak) IN
    /\ worker = "try"
    /\ running
    /\ refilled < task.amount
    /\ lastLeak' = now
    /\ tokens' = refilled
    /\ worker' = "compute"
    /\ UNCHANGED <<limit, running, queue, task, wakeAt, caller, now, ghosts>>

\* The deficit over the rate, rounded up to whole ticks, from the fields as
\* they are now: a reset may have come between.
WorkerCompute ==
    /\ worker = "compute"
    /\ wakeAt' = now + (task.amount - tokens + limit.rate - 1) \div limit.rate
    /\ worker' = "sleep"
    /\ UNCHANGED <<bucket, running, queue, task, caller, now, ghosts>>

WorkerWake ==
    /\ worker = "sleep"
    /\ now >= wakeAt
    /\ worker' = "try"
    /\ UNCHANGED <<bucket, running, queue, task, wakeAt, caller, now, ghosts>>

\* The mutant of WorkerNotify: one Condition for all the callers, notify_all.
NotifyAll ==
    /\ worker = "notify"
    /\ pc' = [c \in Callers |-> IF pc[c] = "waiting" THEN "notified" ELSE pc[c]]
    /\ worker' = "loop"
    /\ UNCHANGED <<bucket, running, queue, task, wakeAt, want, now, puts, ghosts>>

\* notify wakes the caller if it waits already; it is lost on one that has put
\* its task but not reached wait() yet.
WorkerNotify ==
    /\ worker = "notify"
    /\ pc' = IF pc[task.caller] = "waiting"
             THEN [pc EXCEPT ![task.caller] = "notified"]
             ELSE pc
    /\ worker' = "loop"
    /\ UNCHANGED <<bucket, running, queue, task, wakeAt, want, now, puts, ghosts>>

-----------------------------------------------------------------------------
(* reset, stop and the clock.                                               *)

\* The mutant of Reset: the bucket is refilled for the new limit.
ResetRefilling(l) ==
    /\ l.cap <= limit.cap
    /\ l.rate <= limit.rate
    /\ l # limit
    /\ limit' = l
    /\ tokens' = l.cap
    /\ log' = <<>>
    /\ UNCHANGED <<lastLeak, running, queue, thread, caller, now, granted, spent>>

\* _LimiterWrapper.reset_once hands down the smaller of the old rate and the
\* one the server reports, so a reset only lowers.  It does not leak first.
Reset(l) ==
    /\ l.cap <= limit.cap
    /\ l.rate <= limit.rate
    /\ l # limit
    /\ limit' = l
    /\ tokens' = Lesser(l.cap, tokens)
    /\ log' = <<>>
    /\ UNCHANGED <<lastLeak, running, queue, thread, caller, now, granted, spent>>

\* __del__ calls stop; it runs once no caller holds a reference any more, so no
\* caller is inside acquire and none starts one afterwards.
Stop ==
    /\ running
    /\ \A c \in Callers : pc[c] = "idle"
    /\ running' = FALSE
    /\ UNCHANGED <<bucket, queue, thread, caller, now, ghosts>>

Tick ==
    /\ \/ now < MaxNow
       \/ worker = "sleep" /\ now < wakeAt
    /\ now' = now + 1
    /\ UNCHANGED <<bucket, running, queue, thread, caller, ghosts>>

-----------------------------------------------------------------------------

CallerStep(c) ==
    \/ \E a \in Amounts : CheckAmount(c, a)
    \/ PutTask(c)
    \/ Wait(c)
    \/ Return(c)

Worker ==
    \/ WorkerLoop
    \/ WorkerGet
    \/ WorkerGetTimeout
    \/ WorkerPay
    \/ WorkerShort
    \/ WorkerCompute
    \/ WorkerWake
    \/ WorkerNotify

Next ==
    \/ \E c \in Callers : CallerStep(c)
    \/ Worker
    \/ \E l \in RoundedLimits : Reset(l)
    \/ Stop
    \/ Tick

Spec == Init /\ [][Next]_vars

\* The operating system runs every thread that can run, and the clock goes on.
\* Nobody is obliged to start a call, to reset or to stop.
Fairness ==
    /\ WF_vars(Worker)
    /\ WF_vars(Tick)
    /\ \A c \in Callers : WF_vars(PutTask(c) \/ Wait(c) \/ Return(c))

FairSpec == Spec /\ Fairness

-----------------------------------------------------------------------------
(* Properties.                                                              *)

\* Every variable has its type; in particular the bucket never holds less than
\* nothing nor more than the capacity in force, a reset included, and the
\* refill never looks into the future.
TypeOK ==
    /\ limit \in RoundedLimits
    /\ tokens \in 0 .. limit.cap
    /\ now \in Nat
    /\ lastLeak \in 0 .. now
    /\ running \in BOOLEAN
    /\ queue \in Seq(Tasks)
    /\ worker \in WorkerStates
    /\ task \in Tasks \cup {NoTask}
    /\ wakeAt \in Nat
    /\ pc \in [Callers -> CallerStates]
    /\ want \in [Callers -> Amounts \cup {0}]
    /\ puts \in Nat
    /\ granted \subseteq Callers
    /\ spent \in Nat
    /\ log \in Seq(Grants)

\* Between any two grants made under the limit in force, what was granted (both
\* included) is at most one capacity plus what the rate allows for the time
\* between them: the promise of "rate limiter", whatever the interleaving of
\* callers, worker, sleeps and resets.
RateBound ==
    \A i, j \in 1 .. Len(log) :
        i <= j =>
            log[j].after - log[i].before
                <= limit.cap + limit.rate * (log[j].at - log[i].at)

\* The lazy refill, the queue and the worker implement the bucket: grants are
\* made in the order of the puts, each is paid for in full from a bucket that
\* refills at the rate, no caller returns before its task was paid for, and a
\* reset never adds tokens.
InWorker == worker \in {"try", "compute", "sleep"}

Bucket == INSTANCE TokenBucket WITH
    Limits <- RoundedLimits,
    level <- Leaked(limit, tokens, now - lastLeak),
    pending <- (IF InWorker THEN <<task>> ELSE <<>>) \o queue,
    admitted <- granted

ImplementsTokenBucket == Bucket!Spec

\* stop never finds a task on the queue or in the worker's hands: a task whose
\* caller is gone would be notified without being paid for, or never.
NoTaskAfterStop == ~ running => queue = <<>> /\ ~ InWorker

\* Every task put on the queue is eventually paid for: no order of callers and
\* no reset starves one or leaves the worker asleep.
EveryTaskIsPaid ==
    \A c \in Callers : pc[c] = "queued" ~> c \in granted

\* Every acquire returns, as tests/rate_limiter_test.py:165-176 takes it: each
\* thread that enters the limiter is joined.
EveryAcquireReturns ==
    \A c \in Callers : pc[c] = "queued" ~> pc[c] = "idle"

=============================================================================
