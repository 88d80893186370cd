----------------------------- MODULE RedisLimiter -----------------------------
(***************************************************************************)
(* The rate limiter that processes share through redis: RedisRateLimiter   *)
(* of python/qianfan/resources/rate_limiter/redis_rate_limiter.py and the  *)
(* scripts it runs there, check_rate_limiter.lua and                       *)
(* reset_rate_limiter.lua.  Each process has one limiter, all under one    *)
(* key; its threads acquire it, enter it, and once bring it the limit that *)
(* the server reports.  A call to redis may fail.                          *)
(*                                                                         *)
(* A limit is a number of requests per minute, a limit per second its      *)
(* sixtieth.  What a window holds is counted in units: a request costs     *)
(* Minute units, so that a limit of r gives r units per second.            *)
(***************************************************************************)
EXTENDS Integers, Sequences

CONSTANTS
    Threads,        \* the callers
    Processes,      \* the processes
    Placements,     \* the ways the threads may be spread over the processes
    Setups,         \* the limiters a process may make, as records kind and limit
    Reported,       \* the limits the server may report, any number in its header
    Minute,         \* the seconds of a minute, a multiple of six
    None,           \* no thread
    MaxUses,        \* bounds on the requests of a thread,
    MaxFaults,      \* on the calls to redis that fail and the times it forgets its scripts,
    MaxNow          \* and on the time that passes between any two steps

ASSUME RedisAssumption ==
    /\ Placements \subseteq [Threads -> Processes]
    /\ Setups \subseteq [kind : {"rpm", "qps"}, limit : Nat \ {0}]
    /\ Reported \subseteq Int
    /\ Minute \in Nat \ {0} /\ Minute % 6 = 0
    /\ None \notin Threads
    /\ MaxUses \in Nat /\ MaxFaults \in Nat /\ MaxNow \in Nat

Windows == {"tenth", "minute", "second"}

VARIABLES
    now,        \* external: the clock of redis, in seconds
    window,     \* what redis keeps of each window
    cached,     \* whether redis knows the check script by its hash
    process,    \* the process of each thread
    kind,       \* which of the two limits each process has
    limit,      \* its _request_per_minute or _query_per_second
    known,      \* _has_been_init
    named,      \* whether its keys have the prefix of the key
    reset,      \* _has_been_reset
    initLock,   \* the owner of its _init_lock
    resetLock,  \* the owner of its _reset_lock
    pc,         \* where each thread is
    setting,    \* the limit it is setting
    wait,       \* the longest wait the scripts have told it
    wakeAt,     \* when it wakes
    uses,       \* how many requests it has begun
    faults,     \* how many calls to redis failed and how often it forgot its scripts
    tickets,    \* history: when each request a window admitted may begin
    asked,      \* history: the limits a window was given
    torn        \* history: the processes of which a call failed that sets a window

redis == <<window, cached>>
limiter == <<process, kind, limit, known, named, reset, initLock, resetLock>>
thread == <<pc, setting, wait, wakeAt, uses>>
history == <<tickets, asked, torn>>
vars == <<now, window, cached, process, kind, limit, known, named, reset, initLock, resetLock,
          pc, setting, wait, wakeAt, uses, faults, tickets, asked, torn>>

\* A window nobody has set: its keys are not there.
Unset == [rate |-> 0, time |-> 0, level |-> 0]

Init ==
    /\ now = 0
    /\ window = [w \in Windows |-> Unset]
    /\ cached = FALSE
    /\ process \in Placements
    /\ \E s \in [Processes -> Setups] :
          /\ kind = [p \in Processes |-> s[p].kind]
          /\ limit = [p \in Processes |-> s[p].limit]
    /\ known = [p \in Processes |-> FALSE]
    /\ named = [p \in Processes |-> FALSE]
    /\ reset = [p \in Processes |-> FALSE]
    /\ initLock = [p \in Processes |-> None]
    /\ resetLock = [p \in Processes |-> None]
    /\ pc = [t \in Threads |-> "out"]
    /\ setting = [t \in Threads |-> 0]
    /\ wait = [t \in Threads |-> 0]
    /\ wakeAt = [t \in Threads |-> 0]
    /\ uses = [t \in Threads |-> 0]
    /\ faults = 0
    /\ tickets = [w \in Windows |-> <<>>]
    /\ asked = [w \in Windows |-> {}]
    /\ torn = {}

Step(t, s, u) ==
    /\ pc[t] = s
    /\ pc' = [pc EXCEPT ![t] = u]

-----------------------------------------------------------------------------
(* The scripts.  redis runs one at a time.                                  *)

Smaller(a, b) == IF a < b THEN a ELSE b

\* The most units a window holds: the requests of one period, and of the window of
\* queries per second at least one request.
Capacity(w, r) ==
    CASE w = "minute" -> r * Minute
      [] w = "tenth"  -> r * (Minute \div 6)
      [] w = "second" -> IF r > Minute THEN r ELSE Minute

\* The mutant of Stricter: the last limit set is the one in force.
AnyLimit(w, r) == TRUE

\* reset_rate_limiter.lua lets a limit in only if it is lower.
Stricter(w, r) == window[w].rate = 0 \/ r < window[w].rate

\* What the script makes of a limit: one that is not above zero becomes a request per
\* period, and a period is a minute, its sixth or, for a limit per second, a second.
Granted(w, r) ==
    IF r > 0 THEN r
    ELSE CASE w = "minute" -> 1
           [] w = "tenth"  -> 6
           [] w = "second" -> Minute

SetWindow(w, r) ==
    LET granted == Granted(w, r) IN
    /\ window' = IF Stricter(w, granted)
                 THEN [window EXCEPT ![w].rate = granted, ![w].time = now]
                 ELSE window
    /\ asked' = [asked EXCEPT ![w] = @ \cup {granted}]
    /\ UNCHANGED <<cached, tickets>>

Refilled(w) == window[w].level + window[w].rate * (now - window[w].time)

\* Two mutants of Level: what was unused is kept without a bound, and a request on
\* credit is forgotten when it has waited.
Heaped(w) == Refilled(w) - Minute

Forgiven(w) ==
    IF Refilled(w) < Minute
    THEN 0
    ELSE Smaller(Refilled(w), Capacity(w, window[w].rate)) - Minute

\* check_rate_limiter.lua takes a request from the window, on credit if it must.
Level(w) == Smaller(Refilled(w), Capacity(w, window[w].rate)) - Minute

\* The time until the credit is paid back; redis cuts a number that a script
\* returns down to an integer.
Delay(w) == IF Level(w) >= 0 THEN 0 ELSE (- Level(w)) \div window[w].rate

\* With the answer of the last window the thread goes to sleep.
TakeWindow(t, w) ==
    /\ window' = [window EXCEPT ![w].level = Level(w), ![w].time = now]
    /\ wait' = [wait EXCEPT ![t] = IF @ > Delay(w) THEN @ ELSE Delay(w)]
    /\ wakeAt' = [wakeAt EXCEPT ![t] = IF w = "tenth" THEN @ ELSE now + wait'[t]]
    /\ tickets' = [tickets EXCEPT
                     ![w] = Append(@, [at |-> now + Delay(w), rate |-> window[w].rate])]
    /\ UNCHANGED <<asked, torn>>

Fault == faults < MaxFaults /\ faults' = faults + 1

\* The keys the limiter asks for are there.
Found(t, w) == named[process[t]] /\ window[w].rate # 0

-----------------------------------------------------------------------------
(* acquire.                                                                 *)

Acquire(t) ==
    /\ uses[t] < MaxUses
    /\ Step(t, "out", IF known[process[t]] THEN "enter" ELSE "init")
    /\ uses' = [uses EXCEPT ![t] = @ + 1]
    /\ UNCHANGED <<now, redis, limiter, setting, wait, wakeAt, faults, history>>

\* Under the lock the flag is tested again, and set before the keys are.
TakeInitLock(t) ==
    LET p == process[t] IN
    /\ initLock[p] = None
    /\ Step(t, "init", IF known[p] THEN "enter" ELSE "name")
    /\ initLock' = [initLock EXCEPT ![p] = IF known[p] THEN None ELSE t]
    /\ known' = [known EXCEPT ![p] = TRUE]
    /\ UNCHANGED <<now, redis, process, kind, limit, named, reset, resetLock, setting, wait,
                   wakeAt, uses, faults, history>>

\* The mutant of NameKeys: the lock is given back before the windows are set.
NameKeysUnlocking(t) ==
    LET p == process[t] IN
    /\ Step(t, "name", IF kind[p] = "rpm" THEN "set minute" ELSE "set second")
    /\ named' = [named EXCEPT ![p] = TRUE]
    /\ setting' = [setting EXCEPT ![t] = limit[p]]
    /\ initLock' = [initLock EXCEPT ![p] = None]
    /\ UNCHANGED <<now, redis, process, kind, limit, known, reset, resetLock,
                   wait, wakeAt, uses, faults, history>>

NameKeys(t) ==
    LET p == process[t] IN
    /\ Step(t, "name", IF kind[p] = "rpm" THEN "set minute" ELSE "set second")
    /\ named' = [named EXCEPT ![p] = TRUE]
    /\ setting' = [setting EXCEPT ![t] = limit[p]]
    /\ UNCHANGED <<now, redis, process, kind, limit, known, reset, initLock, resetLock,
                   wait, wakeAt, uses, faults, history>>

\* _set_in_redis; the last window set, the lock is given back.
SetInRedis(t, w, s, u) ==
    LET p == process[t] IN
    /\ Step(t, s, u)
    /\ SetWindow(w, setting[t])
    /\ initLock' = [initLock EXCEPT ![p] = IF u = "enter" THEN None ELSE @]
    /\ setting' = [setting EXCEPT ![t] = IF u = "enter" THEN 0 ELSE @]
    /\ UNCHANGED <<now, process, kind, limit, known, named, reset, resetLock,
                   wait, wakeAt, uses, faults, torn>>

\* The call fails, or only its answer is lost.  The exception gives back the lock and ends
\* the request; what the limiter has noted of itself stays, and nobody sets the window again.
SetLost(t, w, s) ==
    LET p == process[t] IN
    /\ Fault
    /\ Step(t, s, "raised")
    /\ SetWindow(w, setting[t]) \/ UNCHANGED <<redis, tickets, asked>>
    /\ initLock' = [initLock EXCEPT ![p] = IF @ = t THEN None ELSE @]
    /\ resetLock' = [resetLock EXCEPT ![p] = IF @ = t THEN None ELSE @]
    /\ setting' = [setting EXCEPT ![t] = 0]
    /\ torn' = torn \cup {p}
    /\ UNCHANGED <<now, process, kind, limit, known, named, reset, wait, wakeAt, uses>>

-----------------------------------------------------------------------------
(* __enter__.                                                               *)

\* A limit per minute of zero, which only a report can have made, limits nothing.
Enter(t) ==
    LET p == process[t] IN
    /\ Step(t, "enter", IF kind[p] = "qps" THEN "second"
                        ELSE IF limit[p] = 0 THEN "in" ELSE "tenth")
    /\ wait' = [wait EXCEPT ![t] = 0]
    /\ UNCHANGED <<now, redis, limiter, setting, wakeAt, uses, faults, history>>

\* evalsha: redis must know the script.
Check(t, w, u) ==
    /\ Step(t, w, u)
    /\ cached
    /\ Found(t, w)
    /\ TakeWindow(t, w)
    /\ UNCHANGED <<now, cached, limiter, setting, uses, faults>>

\* NoScriptError: all the windows are checked once more, by the text of the script.
NoScript(t, w) ==
    /\ Step(t, w, IF kind[process[t]] = "rpm" THEN "tenth again" ELSE "second again")
    /\ ~ cached
    /\ wait' = [wait EXCEPT ![t] = 0]
    /\ UNCHANGED <<now, redis, limiter, setting, wakeAt, uses, faults, history>>

\* eval teaches redis the script.
CheckAgain(t, w, s, u) ==
    /\ Step(t, s, u)
    /\ Found(t, w)
    /\ TakeWindow(t, w)
    /\ cached' = TRUE
    /\ UNCHANGED <<now, limiter, setting, uses, faults>>

\* Where a thread is that checks a window by the text of the script.
Again(w) ==
    CASE w = "tenth"  -> "tenth again"
      [] w = "minute" -> "minute again"
      [] w = "second" -> "second again"

\* Without the time of the last request the script fails; the request is given up.
CheckFails(t, w, s) ==
    /\ Step(t, s, "raised")
    /\ s = w => cached
    /\ ~ Found(t, w)
    /\ cached' = TRUE
    /\ UNCHANGED <<now, window, limiter, setting, wait, wakeAt, uses, faults, history>>

\* The call fails, with its effect or without; the request is given up.
CheckLost(t, w, s) ==
    /\ Fault
    /\ Step(t, s, "raised")
    /\ \/ (s = w => cached) /\ Found(t, w) /\ TakeWindow(t, w) /\ cached' = TRUE
       \/ UNCHANGED <<redis, wait, wakeAt, history>>
    /\ UNCHANGED <<now, limiter, setting, uses>>

Wake(t) ==
    /\ now >= wakeAt[t]
    /\ Step(t, "asleep", "in")
    /\ wait' = [wait EXCEPT ![t] = 0]
    /\ wakeAt' = [wakeAt EXCEPT ![t] = 0]
    /\ UNCHANGED <<now, redis, limiter, setting, uses, faults, history>>

\* The request is answered, or has failed; __exit__ does nothing.
Leave(t) ==
    /\ \/ Step(t, "in", "out")
       \/ Step(t, "in", "reset")
       \/ Step(t, "raised", "out")
    /\ wait' = [wait EXCEPT ![t] = 0]
    /\ wakeAt' = [wakeAt EXCEPT ![t] = 0]
    /\ UNCHANGED <<now, redis, limiter, setting, uses, faults, history>>

-----------------------------------------------------------------------------
(* reset_once.                                                              *)

\* Only the first report counts, and only if it is lower than the limit.  (A limit
\* per second below one is kept as one, with a longer period in redis.)
Lowers(p, r) == ~ reset[p] /\ r < limit[p]

ReportIgnored(t, r) ==
    LET p == process[t] IN
    /\ resetLock[p] = None
    /\ ~ Lowers(p, r)
    /\ Step(t, "reset", "out")
    /\ reset' = [reset EXCEPT ![p] = TRUE]
    /\ UNCHANGED <<now, redis, process, kind, limit, known, named, initLock, resetLock, setting,
                   wait, wakeAt, uses, faults, history>>

\* The period of a limit per second below one is 60 / rpm.
DivideByZero(t) ==
    LET p == process[t] IN
    /\ resetLock[p] = None
    /\ Lowers(p, 0) /\ kind[p] = "qps"
    /\ Step(t, "reset", "raised")
    /\ reset' = [reset EXCEPT ![p] = TRUE]
    /\ UNCHANGED <<now, redis, process, kind, limit, known, named, initLock, resetLock, setting,
                   wait, wakeAt, uses, faults, history>>

ResetOnce(t, r) ==
    LET p == process[t] IN
    /\ resetLock[p] = None
    /\ Lowers(p, r) /\ (kind[p] = "qps" => r # 0)
    /\ Step(t, "reset", IF kind[p] = "rpm" THEN "reset minute" ELSE "reset second")
    /\ reset' = [reset EXCEPT ![p] = TRUE]
    /\ resetLock' = [resetLock EXCEPT ![p] = t]
    /\ setting' = [setting EXCEPT ![t] = r]
    /\ limit' = [limit EXCEPT ![p] = IF kind[p] = "qps" /\ r < Minute THEN Minute ELSE r]
    /\ UNCHANGED <<now, redis, process, kind, known, named, initLock, wait, wakeAt, uses, faults,
                   history>>

\* _set_limit_info, of each window.
ResetWindow(t, w, s, u) ==
    LET p == process[t] IN
    /\ Step(t, s, u)
    /\ SetWindow(w, setting[t])
    /\ resetLock' = [resetLock EXCEPT ![p] = IF u = "out" THEN None ELSE @]
    /\ setting' = [setting EXCEPT ![t] = IF u = "out" THEN 0 ELSE @]
    /\ UNCHANGED <<now, process, kind, limit, known, named, reset, initLock, wait, wakeAt, uses,
                   faults, torn>>

-----------------------------------------------------------------------------
(* redis and the time.                                                      *)

Flush ==
    /\ Fault
    /\ cached
    /\ cached' = FALSE
    /\ UNCHANGED <<now, window, limiter, thread, history>>

\* Up to MaxNow time passes between any two steps; after it, while threads sleep and
\* all others are outside.
Resting(t) == pc[t] = "out" \/ (pc[t] = "asleep" /\ now < wakeAt[t])

Tick ==
    /\ \/ now < MaxNow
       \/ /\ \A t \in Threads : Resting(t)
          /\ \E t \in Threads : pc[t] = "asleep"
    /\ now' = now + 1
    /\ UNCHANGED <<redis, limiter, thread, faults, history>>

-----------------------------------------------------------------------------

Initialise(t) ==
    \/ Acquire(t) \/ TakeInitLock(t) \/ NameKeys(t)
    \/ SetInRedis(t, "minute", "set minute", "set tenth")
    \/ SetInRedis(t, "tenth", "set tenth", "enter")
    \/ SetInRedis(t, "second", "set second", "enter")

CheckOnce(t) ==
    \/ Check(t, "tenth", "minute") \/ Check(t, "minute", "asleep")
    \/ Check(t, "second", "asleep")
    \/ \E w \in Windows : NoScript(t, w)

CheckTwice(t) ==
    \/ CheckAgain(t, "tenth", "tenth again", "minute again")
    \/ CheckAgain(t, "minute", "minute again", "asleep")
    \/ CheckAgain(t, "second", "second again", "asleep")

NotFound(t) ==
    \E w \in Windows : CheckFails(t, w, w) \/ CheckFails(t, w, Again(w))

Report(t) ==
    \/ \E r \in Reported : ResetOnce(t, r) \/ ReportIgnored(t, r)
    \/ 0 \in Reported /\ DivideByZero(t)
    \/ ResetWindow(t, "minute", "reset minute", "reset tenth")
    \/ ResetWindow(t, "tenth", "reset tenth", "out")
    \/ ResetWindow(t, "second", "reset second", "out")

\* Where a thread is that sets a window, for the first time or after a report.
Setter(w) ==
    CASE w = "tenth"  -> "set tenth"
      [] w = "minute" -> "set minute"
      [] w = "second" -> "set second"

Resetter(w) ==
    CASE w = "tenth"  -> "reset tenth"
      [] w = "minute" -> "reset minute"
      [] w = "second" -> "reset second"

CallLost(t) ==
    \E w \in Windows :
        \/ SetLost(t, w, Setter(w)) \/ SetLost(t, w, Resetter(w))
        \/ CheckLost(t, w, w) \/ CheckLost(t, w, Again(w))

Thread(t) ==
    \/ Initialise(t) \/ Enter(t) \/ CheckOnce(t) \/ CheckTwice(t) \/ NotFound(t)
    \/ Wake(t) \/ Leave(t) \/ Report(t) \/ CallLost(t)

Next ==
    \/ \E t \in Threads : Thread(t)
    \/ Flush \/ Tick

Spec == Init /\ [][Next]_vars

-----------------------------------------------------------------------------
(* Properties.                                                              *)

Labels == {"out", "init", "name", "set minute", "set tenth", "set second", "enter",
           "tenth", "minute", "second", "tenth again", "minute again", "second again",
           "asleep", "in", "raised", "reset", "reset minute", "reset tenth",
           "reset second"}

\* Every variable has its type, a window's level is within what its limit allows, and
\* the locks are held by the threads inside them.
TypeOK ==
    /\ now \in Nat
    /\ window \in [Windows -> [rate : Nat, time : 0 .. now, level : Int]]
    /\ \A w \in Windows :
          window[w].rate # 0 => window[w].level <= Capacity(w, window[w].rate)
                             \/ \E r \in asked[w] : window[w].level <= Capacity(w, r)
    /\ cached \in BOOLEAN
    /\ process \in Placements
    /\ kind \in [Processes -> {"rpm", "qps"}] /\ limit \in [Processes -> Int]
    /\ known \in [Processes -> BOOLEAN] /\ named \in [Processes -> BOOLEAN]
    /\ reset \in [Processes -> BOOLEAN]
    /\ pc \in [Threads -> Labels]
    /\ setting \in [Threads -> Int] /\ wait \in [Threads -> Nat] /\ wakeAt \in [Threads -> Nat]
    /\ uses \in [Threads -> 0 .. MaxUses] /\ faults \in 0 .. MaxFaults
    /\ torn \subseteq Processes
    /\ \A p \in Processes, t \in Threads :
          /\ initLock[p] = t <=> process[t] = p
                /\ pc[t] \in {"name", "set minute", "set tenth", "set second"}
          /\ resetLock[p] = t <=> process[t] = p
                /\ pc[t] \in {"reset minute", "reset tenth", "reset second"}

\* The requests that a window lets begin between two moments, of all the processes
\* together, are no more than its capacity and what its rate gives in that time and
\* one second more: the second is what redis cuts from the delays.
WindowBound ==
    \A w \in Windows : \A i, j \in DOMAIN tickets[w] :
        LET r == tickets[w][i].rate IN
        i <= j /\ tickets[w][j].rate = r
            => (j - i) * Minute <= Capacity(w, r)
                                   + r * (tickets[w][j].at - tickets[w][i].at + 1)

\* Each window has the lowest limit any process has given it, in whatever order they came
\* and whichever calls failed; the window of a minute is never the laxer of the two of a
\* limit per minute.  The two agree when no thread is between them, unless a call that
\* sets one has failed, or the server reported a limit that is not above zero.
StrictestInForce ==
    /\ \A w \in Windows : asked[w] # {} =>
          window[w].rate \in asked[w] /\ \A r \in asked[w] : window[w].rate <= r
    /\ window["tenth"].rate # 0 => window["minute"].rate \in 1 .. window["tenth"].rate
    /\ /\ \A t \in Threads : pc[t] \notin {"set tenth", "reset tenth"}
       /\ torn = {}
       /\ \A p \in Processes : limit[p] > 0
       => window["minute"].rate = window["tenth"].rate

\* A script finds no keys only while another thread of the process has set the flag
\* of its limiter and not yet the keys (redis_rate_limiter.py:379), or when the call that
\* was to set them has failed: then, unless another process sets them, for good.
NothingRaisedOnceSet ==
    \A t \in Threads, w \in Windows :
        pc[t] \in {w, Again(w)} /\ ~ Found(t, w)
            => initLock[process[t]] # None \/ process[t] \in torn

=============================================================================
