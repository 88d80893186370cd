------------------------- MODULE RedisLimiterProofs -------------------------
(***************************************************************************)
(* Theorems about RedisLimiter, for any threads, processes and placements, *)
(* any limits made and reported, any failing calls and a minute of any     *)
(* length.                                                                 *)
(***************************************************************************)
EXTENDS RedisLimiter, TLAPS

Initialising == {"set minute", "set tenth", "set second"}
Resetting == {"reset minute", "reset tenth", "reset second"}
Naming == {"name"} \cup Initialising

PerMinute == {"set minute", "set tenth", "tenth", "minute", "tenth again", "minute again",
              "reset minute", "reset tenth"}
PerSecond == {"set second", "second", "second again", "reset second"}

Begun == Labels \ {"out", "init"}

\* The types of what the threads and the limiters keep.
LimiterTypes ==
    /\ cached \in BOOLEAN
    /\ process \in [Threads -> Processes] /\ process \in Placements
    /\ kind \in [Processes -> {"rpm", "qps"}] /\ limit \in [Processes -> Int]
    /\ known \in [Processes -> BOOLEAN] /\ named \in [Processes -> BOOLEAN]
    /\ reset \in [Processes -> BOOLEAN]
    /\ initLock \in [Processes -> Threads \cup {None}]
    /\ resetLock \in [Processes -> Threads \cup {None}]
    /\ pc \in [Threads -> Labels] /\ setting \in [Threads -> Int]
    /\ uses \in [Threads -> 0 .. MaxUses] /\ faults \in 0 .. MaxFaults
    /\ torn \subseteq Processes

\* Who is inside a lock has it.
Locked ==
    \A p \in Processes, t \in Threads :
        /\ initLock[p] = t <=> process[t] = p /\ pc[t] \in Naming
        /\ resetLock[p] = t <=> process[t] = p /\ pc[t] \in Resetting

\* A thread works on the windows of its limiter's kind, and only when the flag of the
\* limiter is set.
InPlace ==
    \A t \in Threads :
        /\ pc[t] \in PerMinute => kind[process[t]] = "rpm"
        /\ pc[t] \in PerSecond => kind[process[t]] = "qps"
        /\ pc[t] \in Begun => known[process[t]]

Control == LimiterTypes /\ Locked /\ InPlace

\* The keys a limiter needs are there.
Ready(p) ==
    /\ named[p]
    /\ IF kind[p] = "rpm" THEN window["tenth"].rate # 0 /\ window["minute"].rate # 0
                          ELSE window["second"].rate # 0

\* Once the flag of a limiter is set, its keys are set or are being set, unless a call that
\* sets one has failed: what is done of it is what the thread's place says.
KeysComing ==
    /\ \A p \in Processes : known[p] => Ready(p) \/ initLock[p] # None \/ p \in torn
    /\ \A t \in Threads :
          /\ pc[t] \in Initialising => named[process[t]]
          /\ pc[t] = "set tenth" => window["minute"].rate # 0

\* Every limit given to the tenth has one of the minute that is no higher, and so has
\* each that is on its way to it.
BetweenWindows == {t \in Threads : pc[t] \in {"set tenth", "reset tenth"}}
MinuteAsked ==
    /\ \A r \in asked["tenth"] : \E q \in asked["minute"] : q <= r
    /\ \A t \in BetweenWindows : Granted("minute", setting[t]) \in asked["minute"]

\* No call that sets a window has failed, and no limit that is not above zero was taken on:
\* the limits given to the window of a minute are then those given to its tenth and those
\* on their way to it.
Clean == torn = {} /\ \A p \in Processes : limit[p] > 0
Giving == {"set minute", "set tenth", "reset minute", "reset tenth"}
TenthFollows ==
    /\ \A p \in Processes : limit[p] <= 0 => reset[p]
    /\ Clean => /\ \A t \in Threads : pc[t] \in Giving => setting[t] > 0
                /\ asked["minute"] = asked["tenth"] \cup {setting[t] : t \in BetweenWindows}

Ticket == [at : Nat, rate : Nat \ {0}]

WindowTypes ==
    /\ now \in Nat
    /\ window \in [Windows -> [rate : Nat, time : 0 .. now, level : Int]]
    /\ tickets \in [Windows -> Seq(Ticket)]
    /\ asked \in [Windows -> SUBSET (Nat \ {0})]

\* The limit in force in a window is the lowest it was given, if any.
InForce(w) ==
    /\ window[w].rate = 0 => asked[w] = {} /\ window[w].level = 0 /\ tickets[w] = <<>>
    /\ window[w].rate # 0 => window[w].rate \in asked[w]
    /\ \A r \in asked[w] : window[w].rate <= r

WithinCapacity(w) ==
    window[w].rate # 0 => window[w].level <= Capacity(w, window[w].rate)
                       \/ \E r \in asked[w] : window[w].level <= Capacity(w, r)

\* The account of a window: limits have only fallen, and since a request admitted at
\* the present limit may begin, what was taken after it and what is left are no more
\* than the capacity and what the rate has given.
Account(w) ==
    \A i \in DOMAIN tickets[w] :
        LET k == tickets[w][i] IN
        /\ window[w].rate <= k.rate
        /\ k.rate = window[w].rate =>
              (Len(tickets[w]) - i) * Minute + window[w].level
                 <= Capacity(w, k.rate) + k.rate * (window[w].time - k.at)

WindowInv ==
    /\ WindowTypes
    /\ \A w \in Windows : InForce(w) /\ WithinCapacity(w) /\ Account(w)

Waits == wait \in [Threads -> Nat] /\ wakeAt \in [Threads -> Nat]

-----------------------------------------------------------------------------
(* Threads and limiters.                                                    *)

\* Before anything has begun the locks are free and every thread is outside.
LEMMA InitControl == Init => Control
<1> SUFFICES ASSUME Init PROVE Control
    OBVIOUS
<1>1. LimiterTypes
    <2>1. PICK s \in [Processes -> Setups] :
             kind = [p \in Processes |-> s[p].kind] /\ limit = [p \in Processes |-> s[p].limit]
        BY DEF Init
    <2>2. \A p \in Processes : s[p].kind \in {"rpm", "qps"} /\ s[p].limit \in Nat \ {0}
        BY RedisAssumption
    <2>3. 0 \in 0 .. MaxUses /\ 0 \in 0 .. MaxFaults
        BY RedisAssumption
    <2>4. process \in [Threads -> Processes]
        BY RedisAssumption DEF Init
    <2>5. limit \in [Processes -> Int] /\ kind \in [Processes -> {"rpm", "qps"}]
        BY <2>1, <2>2
    <2>6. setting \in [Threads -> Int] /\ pc \in [Threads -> Labels]
        BY DEF Init, Labels
    <2>7. /\ cached \in BOOLEAN /\ process \in Placements /\ torn \subseteq Processes
          /\ known \in [Processes -> BOOLEAN] /\ named \in [Processes -> BOOLEAN]
          /\ reset \in [Processes -> BOOLEAN]
          /\ initLock \in [Processes -> Threads \cup {None}]
          /\ resetLock \in [Processes -> Threads \cup {None}]
        BY DEF Init
    <2>8. uses \in [Threads -> 0 .. MaxUses] /\ faults \in 0 .. MaxFaults
        BY <2>3 DEF Init
    <2>. QED BY <2>4, <2>5, <2>6, <2>7, <2>8 DEF LimiterTypes
<1>2. \A t \in Threads : pc[t] = "out"
    BY DEF Init
<1>3. "out" \notin Naming /\ "out" \notin Resetting
      /\ "out" \notin PerMinute /\ "out" \notin PerSecond /\ "out" \notin Begun
    BY DEF Naming, Initialising, Resetting, PerMinute, PerSecond, Begun
<1>4. Locked
    BY <1>2, <1>3, RedisAssumption DEF Init, Locked
<1>5. InPlace
    BY <1>2, <1>3 DEF InPlace
<1>. QED BY <1>1, <1>4, <1>5 DEF Control

\* A call can only fail while the bound on failures allows it.
LEMMA FaultCounted ==
    ASSUME LimiterTypes, Fault
    PROVE  faults' \in 0 .. MaxFaults
<1>1. faults < MaxFaults /\ faults' = faults + 1 /\ faults \in 0 .. MaxFaults /\ MaxFaults \in Nat
    BY RedisAssumption DEF LimiterTypes, Fault
<1>. QED BY <1>1

\* A limit given up leaves a number.
LEMMA NoneLeft ==
    ASSUME LimiterTypes, NEW t \in Threads, setting' = [setting EXCEPT ![t] = 0]
    PROVE  setting' \in [Threads -> Int]
BY DEF LimiterTypes

\* What the server reports is a number.
LEMMA ReportedInt ==
    ASSUME NEW r \in Reported
    PROVE  r \in Int /\ Minute \in Int
BY RedisAssumption

\* Each step keeps the types of what limiters and threads hold.
LEMMA NextLimiterTypes == LimiterTypes /\ [Next]_vars => LimiterTypes'
<1> SUFFICES ASSUME LimiterTypes, [Next]_vars PROVE LimiterTypes'
    OBVIOUS
<1> USE RedisAssumption DEF LimiterTypes, Labels, redis, limiter, thread, history, Step
<1>1. ASSUME NEW t \in Threads, Acquire(t) PROVE LimiterTypes'
    <2>1. uses[t] + 1 \in 0 .. MaxUses
        <3>1. uses[t] < MaxUses /\ uses[t] \in 0 .. MaxUses /\ MaxUses \in Nat
            BY <1>1 DEF Acquire
        <3> HIDE RedisAssumption DEF LimiterTypes
        <3>. QED BY <3>1
    <2>2. uses' \in [Threads -> 0 .. MaxUses]
        BY <1>1, <2>1 DEF Acquire
    <2>3. pc' \in [Threads -> Labels]
        BY <1>1 DEF Acquire
    <2>4. UNCHANGED <<cached, process, kind, limit, known, named, reset, initLock, resetLock,
                      setting, faults, torn>>
        BY <1>1 DEF Acquire
    <2> HIDE RedisAssumption DEF Labels, Step
    <2>. QED BY <2>2, <2>3, <2>4
<1>2. ASSUME NEW t \in Threads, TakeInitLock(t) PROVE LimiterTypes'
    BY <1>2 DEF TakeInitLock
<1>3. ASSUME NEW t \in Threads, NameKeys(t) PROVE LimiterTypes'
    BY <1>3 DEF NameKeys
<1>4. ASSUME NEW t \in Threads, SetInRedis(t, "minute", "set minute", "set tenth")
      PROVE LimiterTypes'
    <2>1. cached' = cached
        BY <1>4 DEF SetInRedis, SetWindow
    <2> HIDE RedisAssumption
    <2>. QED BY <1>4, <2>1 DEF SetInRedis
<1>5. ASSUME NEW t \in Threads, SetInRedis(t, "tenth", "set tenth", "enter")
      PROVE LimiterTypes'
    <2>1. cached' = cached
        BY <1>5 DEF SetInRedis, SetWindow
    <2>2. setting' = [setting EXCEPT ![t] = 0]
        BY <1>5 DEF SetInRedis
    <2>3. setting' \in [Threads -> Int]
        BY <2>2, NoneLeft
    <2> HIDE RedisAssumption
    <2>. QED BY <1>5, <2>1, <2>3 DEF SetInRedis
<1>6. ASSUME NEW t \in Threads, SetInRedis(t, "second", "set second", "enter")
      PROVE LimiterTypes'
    <2>1. cached' = cached
        BY <1>6 DEF SetInRedis, SetWindow
    <2>2. setting' = [setting EXCEPT ![t] = 0]
        BY <1>6 DEF SetInRedis
    <2>3. setting' \in [Threads -> Int]
        BY <2>2, NoneLeft
    <2> HIDE RedisAssumption
    <2>. QED BY <1>6, <2>1, <2>3 DEF SetInRedis
<1>7. ASSUME NEW t \in Threads, Enter(t) PROVE LimiterTypes'
    BY <1>7 DEF Enter
<1>8. ASSUME NEW t \in Threads, CheckOnce(t) PROVE LimiterTypes'
    BY <1>8 DEF CheckOnce, Check, NoScript, TakeWindow, Windows
<1>9. ASSUME NEW t \in Threads, CheckTwice(t) PROVE LimiterTypes'
    BY <1>9 DEF CheckTwice, CheckAgain, TakeWindow
<1>10. ASSUME NEW t \in Threads, NotFound(t) PROVE LimiterTypes'
    BY <1>10 DEF NotFound, CheckFails, Windows, Again
<1>11. ASSUME NEW t \in Threads, Wake(t) PROVE LimiterTypes'
    BY <1>11 DEF Wake
<1>12. ASSUME NEW t \in Threads, Leave(t) PROVE LimiterTypes'
    BY <1>12 DEF Leave
<1>13. ASSUME NEW t \in Threads, NEW r \in Reported, ResetOnce(t, r) PROVE LimiterTypes'
    <2> DEFINE p == process[t]
               l == IF kind[p] = "qps" /\ r < Minute THEN Minute ELSE r
    <2>1. r \in Int /\ l \in Int
        <3> HIDE RedisAssumption DEF LimiterTypes, Labels, Step, redis, limiter, thread, history
        <3>. QED BY ReportedInt
    <2>a. limit' = [limit EXCEPT ![p] = l] /\ setting' = [setting EXCEPT ![t] = r]
        BY <1>13 DEF ResetOnce
    <2>2. limit' \in [Processes -> Int] /\ setting' \in [Threads -> Int]
        <3> HIDE DEF l, p, Labels, Step, redis, limiter, thread, history
        <3>. QED BY <2>1, <2>a
    <2>3. reset' \in [Processes -> BOOLEAN] /\ resetLock' \in [Processes -> Threads \cup {None}]
        BY <1>13 DEF ResetOnce
    <2>4. pc' \in [Threads -> Labels]
        BY <1>13 DEF ResetOnce
    <2> HIDE RedisAssumption
    <2>. QED BY <1>13, <2>2, <2>3, <2>4 DEF ResetOnce
<1>b. ASSUME NEW t \in Threads, NEW r \in Reported, ReportIgnored(t, r) PROVE LimiterTypes'
    BY <1>b DEF ReportIgnored
<1>c. ASSUME NEW t \in Threads, DivideByZero(t) PROVE LimiterTypes'
    BY <1>c DEF DivideByZero
<1>d. ASSUME NEW t \in Threads, NEW w, NEW s, SetLost(t, w, s) PROVE LimiterTypes'
    <2>1. faults' \in 0 .. MaxFaults
        BY <1>d, FaultCounted DEF SetLost
    <2>2. cached' = cached
        <3> HIDE RedisAssumption DEF LimiterTypes, Labels, Step
        <3>1. SetWindow(w, setting[t]) => cached' = cached
            BY Zenon DEF SetWindow
        <3>. QED BY <1>d, <3>1 DEF SetLost
    <2>3. torn' \subseteq Processes
        BY <1>d DEF SetLost
    <2>4. pc' \in [Threads -> Labels]
        BY <1>d DEF SetLost
    <2>a. setting' = [setting EXCEPT ![t] = 0]
        BY <1>d DEF SetLost
    <2>b. setting' \in [Threads -> Int]
        BY <2>a, NoneLeft
    <2>5. /\ initLock' \in [Processes -> Threads \cup {None}]
          /\ resetLock' \in [Processes -> Threads \cup {None}]
        BY <1>d DEF SetLost
    <2>6. UNCHANGED <<process, kind, limit, known, named, reset, uses>>
        BY <1>d DEF SetLost
    <2> HIDE RedisAssumption DEF Labels, Step, redis, limiter, thread, history
    <2>. QED BY <2>1, <2>2, <2>3, <2>4, <2>5, <2>6, <2>b
<1>e. ASSUME NEW t \in Threads, NEW w, NEW s, CheckLost(t, w, s) PROVE LimiterTypes'
    <2>1. faults' \in 0 .. MaxFaults
        BY <1>e, FaultCounted DEF CheckLost
    <2>2. cached' \in BOOLEAN /\ torn' = torn
        BY <1>e DEF CheckLost, TakeWindow
    <2> HIDE RedisAssumption
    <2>. QED BY <1>e, <2>1, <2>2 DEF CheckLost
<1>14. ASSUME NEW t \in Threads, ResetWindow(t, "minute", "reset minute", "reset tenth")
       PROVE LimiterTypes'
    <2>1. cached' = cached
        BY <1>14 DEF ResetWindow, SetWindow
    <2> HIDE RedisAssumption
    <2>. QED BY <1>14, <2>1 DEF ResetWindow
<1>15. ASSUME NEW t \in Threads, ResetWindow(t, "tenth", "reset tenth", "out")
      PROVE LimiterTypes'
    <2>1. cached' = cached
        BY <1>15 DEF ResetWindow, SetWindow
    <2>2. setting' = [setting EXCEPT ![t] = 0]
        BY <1>15 DEF ResetWindow
    <2>3. setting' \in [Threads -> Int]
        BY <2>2, NoneLeft
    <2> HIDE RedisAssumption
    <2>. QED BY <1>15, <2>1, <2>3 DEF ResetWindow
<1>16. ASSUME NEW t \in Threads, ResetWindow(t, "second", "reset second", "out")
      PROVE LimiterTypes'
    <2>1. cached' = cached
        BY <1>16 DEF ResetWindow, SetWindow
    <2>2. setting' = [setting EXCEPT ![t] = 0]
        BY <1>16 DEF ResetWindow
    <2>3. setting' \in [Threads -> Int]
        BY <2>2, NoneLeft
    <2> HIDE RedisAssumption
    <2>. QED BY <1>16, <2>1, <2>3 DEF ResetWindow
<1>17. CASE Flush \/ Tick
    <2>1. CASE Flush
        <3>1. /\ cached' = FALSE
              /\ UNCHANGED <<process, kind, limit, known, named, reset, initLock, resetLock,
                             pc, setting, uses, torn>>
            BY <2>1 DEF Flush
        <3>2. faults' \in 0 .. MaxFaults
            BY <2>1, FaultCounted DEF Flush
        <3> HIDE RedisAssumption DEF Labels
        <3>. QED BY <3>1, <3>2
    <2>2. CASE Tick
        BY <2>2 DEF Tick
    <2>. QED BY <1>17, <2>1, <2>2
<1>18. CASE UNCHANGED vars
    BY <1>18 DEF vars
<1>. QED
    BY <1>1, <1>2, <1>3, <1>4, <1>5, <1>6, <1>7, <1>8, <1>9, <1>10, <1>11, <1>12, <1>13,
       <1>b, <1>c, <1>d, <1>e, <1>14, <1>15, <1>16, <1>17, <1>18
       DEF Next, Thread, Initialise, Report, CallLost

\* A call that fails and sets no window, and one that sets a window.
CheckCallLost(t) == \E w \in Windows : CheckLost(t, w, w) \/ CheckLost(t, w, Again(w))
SetCallLost(t) == \E w \in Windows : SetLost(t, w, Setter(w)) \/ SetLost(t, w, Resetter(w))

\* A report that changes nothing but that there was one.
OnlyNoted(t) == DivideByZero(t) \/ \E r \in Reported : ReportIgnored(t, r)

\* Steps of a thread that set no flag and no limit of its limiter, take or give back none
\* of its locks, and leave what it is to set.
Plain(t) ==
    \/ Acquire(t) \/ Enter(t) \/ CheckOnce(t) \/ CheckTwice(t) \/ NotFound(t) \/ Wake(t) \/ Leave(t)
    \/ CheckCallLost(t) \/ OnlyNoted(t)

\* What a step of a thread does to its limiter: nothing (Plain), or one of these.
LEMMA ThreadCases ==
    ASSUME NEW t \in Threads, Thread(t)
    PROVE  \/ Plain(t) \/ TakeInitLock(t) \/ NameKeys(t)
           \/ SetInRedis(t, "minute", "set minute", "set tenth")
           \/ SetInRedis(t, "tenth", "set tenth", "enter")
           \/ SetInRedis(t, "second", "set second", "enter")
           \/ \E r \in Reported : ResetOnce(t, r)
           \/ ResetWindow(t, "minute", "reset minute", "reset tenth")
           \/ ResetWindow(t, "tenth", "reset tenth", "out")
           \/ ResetWindow(t, "second", "reset second", "out")
           \/ SetCallLost(t)
BY DEF Thread, Initialise, Report, Plain, CallLost, CheckCallLost, SetCallLost, OnlyNoted

\* A plain step is made outside of the locks, and leads to a place of the limiter's kind.
LEMMA PlainKeeps ==
    ASSUME LimiterTypes, InPlace, NEW t \in Threads, Plain(t)
    PROVE  /\ UNCHANGED <<process, kind, limit, known, named, initLock, resetLock, setting>>
           /\ \A p \in Processes : reset[p] => reset'[p]
           /\ torn' = torn
           /\ pc' = [pc EXCEPT ![t] = pc'[t]]
           /\ pc[t] \notin Naming \cup Resetting /\ pc'[t] \notin Naming \cup Resetting
           /\ pc'[t] \in PerMinute => kind[process[t]] = "rpm"
           /\ pc'[t] \in PerSecond => kind[process[t]] = "qps"
           /\ pc'[t] \in Begun => known[process[t]]
<1> DEFINE Goal == 
           /\ UNCHANGED <<process, kind, limit, known, named, initLock, resetLock, setting>>
           /\ \A p \in Processes : reset[p] => reset'[p]
           /\ torn' = torn
           /\ pc' = [pc EXCEPT ![t] = pc'[t]]
           /\ pc[t] \notin Naming \cup Resetting /\ pc'[t] \notin Naming \cup Resetting
           /\ pc'[t] \in PerMinute => kind[process[t]] = "rpm"
           /\ pc'[t] \in PerSecond => kind[process[t]] = "qps"
           /\ pc'[t] \in Begun => known[process[t]]
<1>0. /\ pc \in [Threads -> Labels] /\ kind[process[t]] \in {"rpm", "qps"}
      /\ reset \in [Processes -> BOOLEAN]
    BY DEF LimiterTypes
<1> USE <1>0 DEF Step, limiter, history, InPlace, PerMinute, PerSecond, Begun, Labels, Naming,
                 Initialising, Resetting
<1>1. CASE Acquire(t)
    BY <1>1 DEF Acquire
<1>2. CASE Enter(t)
    BY <1>2 DEF Enter
<1>3. ASSUME NEW w \in Windows, NoScript(t, w) PROVE Goal
    BY <1>3 DEF NoScript, Windows
<1>4. CASE Check(t, "tenth", "minute")
    BY <1>4 DEF Check, TakeWindow
<1>5. CASE Check(t, "minute", "asleep") \/ Check(t, "second", "asleep")
    BY <1>5 DEF Check, TakeWindow
<1>6. CASE CheckTwice(t)
    BY <1>6 DEF CheckTwice, CheckAgain, TakeWindow
<1>7. CASE NotFound(t)
    BY <1>7 DEF NotFound, CheckFails, Windows, Again
<1>8. CASE Wake(t) \/ Leave(t)
    BY <1>8 DEF Wake, Leave
<1>9. CASE CheckCallLost(t)
    <2>1. PICK w \in Windows : CheckLost(t, w, w) \/ CheckLost(t, w, Again(w))
        BY <1>9 DEF CheckCallLost
    <2>2. UNCHANGED limiter /\ setting' = setting /\ torn' = torn
        BY <2>1 DEF CheckLost, TakeWindow
    <2>3. pc' = [pc EXCEPT ![t] = "raised"] /\ pc[t] \in {w, Again(w)}
        BY <2>1 DEF CheckLost
    <2>. QED BY <2>2, <2>3 DEF Windows, Again
<1>10. CASE OnlyNoted(t)
    BY <1>10 DEF OnlyNoted, DivideByZero, ReportIgnored
<1>. QED BY <1>1, <1>2, <1>3, <1>4, <1>5, <1>6, <1>7, <1>8, <1>9, <1>10, Plain(t)
         DEF Plain, CheckOnce

\* What a step of thread t has to do with the locks for them to stay with the threads
\* inside.
LEMMA InitLockKept ==
    ASSUME LimiterTypes, NEW t \in Threads,
           \A p \in Processes, x \in Threads :
               initLock[p] = x <=> process[x] = p /\ pc[x] \in Naming,
           process' = process, pc' = [pc EXCEPT ![t] = pc'[t]],
           \/ (pc'[t] \in Naming <=> pc[t] \in Naming) /\ initLock' = initLock
           \/ /\ pc'[t] \in Naming /\ initLock[process[t]] = None
              /\ initLock' = [initLock EXCEPT ![process[t]] = t]
           \/ /\ pc'[t] \notin Naming /\ pc[t] \in Naming
              /\ initLock' = [initLock EXCEPT ![process[t]] = None]
    PROVE  \A p \in Processes, x \in Threads :
               initLock'[p] = x <=> process'[x] = p /\ pc'[x] \in Naming
<1>1. process[t] \in Processes /\ None \notin Threads
    BY RedisAssumption DEF LimiterTypes
<1>2. \A x \in Threads : x # t => pc'[x] = pc[x]
    BY DEF LimiterTypes
<1>3. initLock \in [Processes -> Threads \cup {None}]
    BY DEF LimiterTypes
<1>. QED BY <1>1, <1>2, <1>3

\* The reset lock stays with the thread inside, over a step that leaves both as they
\* are, takes the free lock, or gives it back.
LEMMA ResetLockKept ==
    ASSUME LimiterTypes, NEW t \in Threads,
           \A p \in Processes, x \in Threads :
               resetLock[p] = x <=> process[x] = p /\ pc[x] \in Resetting,
           process' = process, pc' = [pc EXCEPT ![t] = pc'[t]],
           \/ (pc'[t] \in Resetting <=> pc[t] \in Resetting) /\ resetLock' = resetLock
           \/ /\ pc'[t] \in Resetting /\ resetLock[process[t]] = None
              /\ resetLock' = [resetLock EXCEPT ![process[t]] = t]
           \/ /\ pc'[t] \notin Resetting /\ pc[t] \in Resetting
              /\ resetLock' = [resetLock EXCEPT ![process[t]] = None]
    PROVE  \A p \in Processes, x \in Threads :
               resetLock'[p] = x <=> process'[x] = p /\ pc'[x] \in Resetting
<1>1. process[t] \in Processes /\ None \notin Threads
    BY RedisAssumption DEF LimiterTypes
<1>2. \A x \in Threads : x # t => pc'[x] = pc[x]
    BY DEF LimiterTypes
<1>3. resetLock \in [Processes -> Threads \cup {None}]
    BY DEF LimiterTypes
<1>. QED BY <1>1, <1>2, <1>3

\* How the steps that are not plain move their thread.
Moves(t) == process' = process /\ kind' = kind /\ pc' = [pc EXCEPT ![t] = pc'[t]]

\* A lock changes hands with the step that enters or leaves what it guards.
LEMMA NextLocked == LimiterTypes /\ Locked /\ InPlace /\ [Next]_vars => Locked'
<1> SUFFICES ASSUME LimiterTypes, Locked, InPlace, [Next]_vars PROVE Locked'
    OBVIOUS
<1>1. ASSUME NEW t \in Threads, Thread(t) PROVE Locked'
    <2> DEFINE InitGoal ==
           \/ (pc'[t] \in Naming <=> pc[t] \in Naming) /\ initLock' = initLock
           \/ /\ pc'[t] \in Naming /\ initLock[process[t]] = None
              /\ initLock' = [initLock EXCEPT ![process[t]] = t]
           \/ /\ pc'[t] \notin Naming /\ pc[t] \in Naming
              /\ initLock' = [initLock EXCEPT ![process[t]] = None]
           ResetGoal ==
           \/ (pc'[t] \in Resetting <=> pc[t] \in Resetting) /\ resetLock' = resetLock
           \/ /\ pc'[t] \in Resetting /\ resetLock[process[t]] = None
              /\ resetLock' = [resetLock EXCEPT ![process[t]] = t]
           \/ /\ pc'[t] \notin Resetting /\ pc[t] \in Resetting
              /\ resetLock' = [resetLock EXCEPT ![process[t]] = None]
    <2>0. /\ pc \in [Threads -> Labels] /\ process \in [Threads -> Processes]
          /\ initLock \in [Processes -> Threads \cup {None}]
          /\ resetLock \in [Processes -> Threads \cup {None}]
        BY DEF LimiterTypes
    <2>b. /\ initLock[process[t]] = t <=> pc[t] \in Naming
          /\ resetLock[process[t]] = t <=> pc[t] \in Resetting
        BY <2>0 DEF Locked
    <2>1. ASSUME Plain(t) PROVE Moves(t) /\ InitGoal /\ ResetGoal
        BY <2>1, PlainKeeps DEF Moves
    <2> USE <2>0 DEF Step, Moves, redis, limiter, history, Naming, Initialising, Resetting
    <2>2. ASSUME TakeInitLock(t) PROVE Moves(t) /\ InitGoal /\ ResetGoal
        BY <2>2 DEF TakeInitLock
    <2>3. ASSUME NameKeys(t) PROVE Moves(t) /\ InitGoal /\ ResetGoal
        BY <2>3 DEF NameKeys
    <2>4. ASSUME SetInRedis(t, "minute", "set minute", "set tenth")
          PROVE Moves(t) /\ InitGoal /\ ResetGoal
        BY <2>4 DEF SetInRedis
    <2>5. ASSUME SetInRedis(t, "tenth", "set tenth", "enter")
          PROVE Moves(t) /\ InitGoal /\ ResetGoal
        BY <2>5 DEF SetInRedis
    <2>6. ASSUME SetInRedis(t, "second", "set second", "enter")
          PROVE Moves(t) /\ InitGoal /\ ResetGoal
        BY <2>6 DEF SetInRedis
    <2>7. ASSUME NEW r \in Reported, ResetOnce(t, r) PROVE Moves(t) /\ InitGoal /\ ResetGoal
        BY <2>7 DEF ResetOnce
    <2>8. ASSUME ResetWindow(t, "minute", "reset minute", "reset tenth")
          PROVE Moves(t) /\ InitGoal /\ ResetGoal
        BY <2>8 DEF ResetWindow
    <2>9. ASSUME ResetWindow(t, "tenth", "reset tenth", "out")
          PROVE Moves(t) /\ InitGoal /\ ResetGoal
        BY <2>9 DEF ResetWindow
    <2>10. ASSUME ResetWindow(t, "second", "reset second", "out")
          PROVE Moves(t) /\ InitGoal /\ ResetGoal
        BY <2>10 DEF ResetWindow
    <2>c. ASSUME SetCallLost(t) PROVE Moves(t) /\ InitGoal /\ ResetGoal
        <3>1. PICK w \in Windows : SetLost(t, w, Setter(w)) \/ SetLost(t, w, Resetter(w))
            BY <2>c DEF SetCallLost
        <3>2. pc[t] \in Naming \cup Resetting /\ pc'[t] = "raised" /\ Moves(t)
            BY <3>1 DEF SetLost, Setter, Resetter, Windows
        <3>3. /\ initLock' = [initLock EXCEPT ![process[t]] = IF @ = t THEN None ELSE @]
              /\ resetLock' = [resetLock EXCEPT ![process[t]] = IF @ = t THEN None ELSE @]
            BY <3>1 DEF SetLost
        <3>4. pc'[t] \notin Naming /\ pc'[t] \notin Resetting
            BY <3>2
        <3> HIDE DEF Naming, Initialising, Resetting, Step, Moves, redis, limiter, history
        <3>5. InitGoal
            BY <2>b, <3>3, <3>4
        <3>6. ResetGoal
            BY <2>b, <3>3, <3>4
        <3>. QED BY <3>2, <3>5, <3>6
    <2>11. Moves(t) /\ InitGoal /\ ResetGoal
        BY <1>1, <2>1, <2>2, <2>3, <2>4, <2>5, <2>6, <2>7, <2>8, <2>9, <2>10, <2>c, ThreadCases
    <2> HIDE DEF Step, redis, limiter, history, Naming, Initialising, Resetting
    <2>12. \A p \in Processes, x \in Threads :
              /\ initLock[p] = x <=> process[x] = p /\ pc[x] \in Naming
              /\ resetLock[p] = x <=> process[x] = p /\ pc[x] \in Resetting
        BY DEF Locked
    <2>13. \A p \in Processes, x \in Threads :
              initLock'[p] = x <=> process'[x] = p /\ pc'[x] \in Naming
        BY <2>11, <2>12, InitLockKept
    <2>14. \A p \in Processes, x \in Threads :
              resetLock'[p] = x <=> process'[x] = p /\ pc'[x] \in Resetting
        BY <2>11, <2>12, ResetLockKept
    <2>15. Naming' = Naming /\ Resetting' = Resetting
        BY DEF Naming, Resetting, Initialising
    <2>. QED BY <2>13, <2>14, <2>15 DEF Locked
<1>2. CASE Flush \/ Tick
    BY <1>2 DEF Flush, Tick, limiter, thread, Locked
<1>3. CASE UNCHANGED vars
    BY <1>3 DEF vars, Locked
<1>. QED BY <1>1, <1>2, <1>3 DEF Next

\* A thread moves only to where its limiter is as far as that place says.
LEMMA NextInPlace == LimiterTypes /\ InPlace /\ [Next]_vars => InPlace'
<1> SUFFICES ASSUME LimiterTypes, InPlace, [Next]_vars PROVE InPlace'
    OBVIOUS
<1>1. ASSUME NEW t \in Threads, Thread(t) PROVE InPlace'
    <2> DEFINE Goal ==
           /\ \A p \in Processes : known[p] => known'[p]
           /\ pc'[t] \in PerMinute => kind[process[t]] = "rpm"
           /\ pc'[t] \in PerSecond => kind[process[t]] = "qps"
           /\ pc'[t] \in Begun => known'[process[t]]
    <2>0. /\ pc \in [Threads -> Labels] /\ process \in [Threads -> Processes]
          /\ known \in [Processes -> BOOLEAN]
          /\ kind \in [Processes -> {"rpm", "qps"}]
        BY DEF LimiterTypes
    <2>1. ASSUME Plain(t) PROVE Moves(t) /\ Goal
        <3>1. Moves(t)
            BY <2>1, PlainKeeps DEF Moves
        <3>2. known' = known
            BY <2>1, PlainKeeps
        <3>5. /\ pc'[t] \in PerMinute => kind[process[t]] = "rpm"
              /\ pc'[t] \in PerSecond => kind[process[t]] = "qps"
              /\ pc'[t] \in Begun => known[process[t]]
            BY <2>1, PlainKeeps
        <3>. QED BY <3>1, <3>2, <3>5
    <2>a. /\ pc[t] \in PerMinute => kind[process[t]] = "rpm"
          /\ pc[t] \in PerSecond => kind[process[t]] = "qps"
          /\ pc[t] \in Begun => known[process[t]]
        BY DEF InPlace
    <2> USE <2>0, <2>a DEF Step, Moves, redis, limiter, history, Initialising, Resetting,
            PerMinute, PerSecond, Begun, Labels
    <2>2. ASSUME TakeInitLock(t) PROVE Moves(t) /\ Goal
        BY <2>2 DEF TakeInitLock
    <2>3. ASSUME NameKeys(t) PROVE Moves(t) /\ Goal
        BY <2>3 DEF NameKeys
    <2>4. ASSUME SetInRedis(t, "minute", "set minute", "set tenth") PROVE Moves(t) /\ Goal
        BY <2>4 DEF SetInRedis
    <2>5. ASSUME SetInRedis(t, "tenth", "set tenth", "enter") PROVE Moves(t) /\ Goal
        BY <2>5 DEF SetInRedis
    <2>6. ASSUME SetInRedis(t, "second", "set second", "enter") PROVE Moves(t) /\ Goal
        BY <2>6 DEF SetInRedis
    <2>7. ASSUME NEW r \in Reported, ResetOnce(t, r) PROVE Moves(t) /\ Goal
        BY <2>7 DEF ResetOnce
    <2>8. ASSUME ResetWindow(t, "minute", "reset minute", "reset tenth")
          PROVE Moves(t) /\ Goal
        BY <2>8 DEF ResetWindow
    <2>9. ASSUME ResetWindow(t, "tenth", "reset tenth", "out") PROVE Moves(t) /\ Goal
        BY <2>9 DEF ResetWindow
    <2>10. ASSUME ResetWindow(t, "second", "reset second", "out") PROVE Moves(t) /\ Goal
        BY <2>10 DEF ResetWindow
    <2>c. ASSUME SetCallLost(t) PROVE Moves(t) /\ Goal
        BY <2>c DEF SetCallLost, SetLost, Setter, Resetter, Windows
    <2> HIDE <2>0, <2>a DEF Step, redis, limiter, history, Initialising, Resetting,
            PerMinute, PerSecond, Begun, Labels
    <2>11. Moves(t) /\ Goal
        BY <1>1, <2>1, <2>2, <2>3, <2>4, <2>5, <2>6, <2>7, <2>8, <2>9, <2>10, <2>c, ThreadCases
    <2> SUFFICES ASSUME NEW x \in Threads
                 PROVE  /\ pc'[x] \in PerMinute => kind[process[x]] = "rpm"
                        /\ pc'[x] \in PerSecond => kind[process[x]] = "qps"
                        /\ pc'[x] \in Begun => known'[process[x]]
        <3>1. PerMinute' = PerMinute /\ PerSecond' = PerSecond /\ Begun' = Begun
            BY DEF Initialising, Resetting, PerMinute, PerSecond, Begun, Labels
        <3>. QED BY <2>11, <3>1 DEF InPlace, Moves
    <2>12. CASE x = t
        BY <2>11, <2>12
    <2>13. CASE x # t
        <3>1. pc'[x] = pc[x] /\ process[x] \in Processes
            BY <2>0, <2>11, <2>13 DEF Moves
        <3>. QED BY <3>1, <2>11 DEF InPlace
    <2>. QED BY <2>12, <2>13
<1>2. CASE Flush \/ Tick
    BY <1>2 DEF Flush, Tick, limiter, thread, InPlace
<1>3. CASE UNCHANGED vars
    BY <1>3 DEF vars, InPlace
<1>. QED BY <1>1, <1>2, <1>3 DEF Next

\* The three parts of Control are kept together.
LEMMA NextControl == Control /\ [Next]_vars => Control'
BY NextLimiterTypes, NextLocked, NextInPlace DEF Control

-----------------------------------------------------------------------------
(* Windows.                                                                 *)

\* A rate times a time is a number of units.
LEMMA ProductInt ==
    ASSUME NEW a \in Int, NEW b \in Int
    PROVE  a * b \in Int /\ (a \in Nat /\ b \in Nat => a * b \in Nat)
OBVIOUS

\* A number cut down to what a script returns.
LEMMA Quotient ==
    ASSUME NEW a \in Nat, NEW r \in Nat \ {0}
    PROVE  a \div r \in Nat /\ r * (a \div r) <= a /\ a <= r * ((a \div r) + 1)
OBVIOUS

\* One more ticket after the first n: what was taken since ticket i, plus what is left.
LEMMA OneMore ==
    ASSUME NEW m \in Nat, NEW r \in Nat, NEW n \in Nat, NEW i \in Nat,
           NEW old \in Int, NEW new \in Int, NEW c \in Int,
           NEW then \in Nat, NEW present \in Nat, NEW at \in Nat,
           (n - i) * m + old <= c + r * (then - at),
           new <= (old + r * (present - then)) - m
    PROVE  ((n + 1) - i) * m + new <= c + r * (present - at)
OBVIOUS

\* In no time a rate gives nothing.
LEMMA NothingSince ==
    ASSUME NEW m \in Nat, NEW n \in Nat
    PROVE  (n - n) * m = 0
OBVIOUS

\* What a rate has given until a moment that is still ahead.
LEMMA Ahead ==
    ASSUME NEW r \in Nat, NEW present \in Nat, NEW delay \in Nat
    PROVE  /\ r * (present - (present + delay)) = - (r * delay)
           /\ r * (((present + delay) - (present + delay)) + 1) = r
OBVIOUS

\* Two limits neither of which is the lower one.
LEMMA SameRate ==
    ASSUME NEW a \in Nat, NEW b \in Nat, a <= b, b <= a
    PROVE  a = b
OBVIOUS

\* When the last of them may begin.
LEMMA Bounded ==
    ASSUME NEW m \in Nat, NEW r \in Nat, NEW k \in Int, NEW new \in Int, NEW c \in Int,
           NEW present \in Nat, NEW at \in Nat, NEW delay \in Nat,
           k * m + new <= c + r * (present - at),
           - new <= r * (delay + 1)
    PROVE  k * m <= c + r * (((present + delay) - at) + 1)
OBVIOUS

\* A capacity is a number of units.
LEMMA CapacityNat ==
    ASSUME NEW w \in Windows, NEW r \in Nat
    PROVE  Capacity(w, r) \in Nat
<1>1. Minute \in Nat /\ Minute \div 6 \in Nat
    BY RedisAssumption
<1>2. r * Minute \in Nat /\ r * (Minute \div 6) \in Nat
    BY <1>1, ProductInt
<1>. QED BY <1>1, <1>2 DEF Capacity, Windows

\* What a step has to do with the windows: nothing, or one window is given a limit, or
\* a request is taken from one.
Untouched == UNCHANGED <<window, tickets, asked>> /\ now' \in {now, now + 1}

\* A window is given a limit.
Gives(w, g) ==
    /\ window' = IF Stricter(w, g) THEN [window EXCEPT ![w].rate = g, ![w].time = now]
                 ELSE window
    /\ asked' = [asked EXCEPT ![w] = @ \cup {g}]
    /\ tickets' = tickets

SetsWindow == \E w \in Windows, g \in Nat \ {0} : Gives(w, g) /\ now' = now

TakesWindow ==
    \E t \in Threads, w \in Windows :
        TakeWindow(t, w) /\ window[w].rate # 0 /\ now' = now

\* Whatever number is brought, the script makes a limit of it, of a minute never a higher
\* one than of its tenth.
LEMMA GrantedPositive ==
    ASSUME NEW w \in Windows, NEW r \in Int
    PROVE  Granted(w, r) \in Nat \ {0} /\ (r > 0 => Granted(w, r) = r)
BY RedisAssumption DEF Granted, Windows

LEMMA MinuteStricter ==
    ASSUME NEW r \in Int
    PROVE  Granted("minute", r) <= Granted("tenth", r)
BY DEF Granted

\* To set a window is to give it that limit.
LEMMA SetGives ==
    ASSUME NEW w \in Windows, NEW r \in Int, SetWindow(w, r)
    PROVE  Granted(w, r) \in Nat \ {0} /\ Gives(w, Granted(w, r))
BY GrantedPositive DEF SetWindow, Gives

\* A step leaves the windows alone, sets one, or takes a request from one.
LEMMA WindowStep == Control /\ [Next]_vars => Untouched \/ SetsWindow \/ TakesWindow
<1> SUFFICES ASSUME Control, [Next]_vars PROVE Untouched \/ SetsWindow \/ TakesWindow
    OBVIOUS
<1>1. \A w \in {"tenth", "minute", "second"} : w \in Windows
    BY DEF Windows
<1>2. ASSUME NEW t \in Threads, NEW w \in Windows, SetWindow(w, setting[t]), now' = now
      PROVE  SetsWindow
    <2>1. setting[t] \in Int
        BY DEF Control, LimiterTypes
    <2>. QED BY <1>2, <2>1, SetGives DEF SetsWindow
<1>3. ASSUME NEW t \in Threads, NEW w \in Windows, NEW s, NEW u, SetInRedis(t, w, s, u)
      PROVE  SetsWindow
    BY <1>2, <1>3 DEF SetInRedis
<1>4. ASSUME NEW t \in Threads, NEW w \in Windows, NEW s, NEW u, ResetWindow(t, w, s, u)
      PROVE  SetsWindow
    BY <1>2, <1>4 DEF ResetWindow
<1>5. ASSUME NEW t \in Threads, NEW w \in Windows, NEW s, NEW u,
             Check(t, w, u) \/ CheckAgain(t, w, s, u)
      PROVE  TakesWindow
    BY <1>5 DEF Check, CheckAgain, Found, TakesWindow
<1>6. ASSUME NEW t \in Threads, Initialise(t) PROVE Untouched \/ SetsWindow
    <2>1. CASE Acquire(t) \/ TakeInitLock(t) \/ NameKeys(t)
        BY <2>1 DEF Acquire, TakeInitLock, NameKeys, Untouched, redis, history
    <2>. QED BY <1>1, <1>3, <1>6, <2>1 DEF Initialise
<1>7. ASSUME NEW t \in Threads, Report(t) PROVE Untouched \/ SetsWindow
    <2>1. ASSUME NEW r \in Reported, ResetOnce(t, r) PROVE Untouched
        BY <2>1 DEF ResetOnce, Untouched, redis, history
    <2>2. ASSUME OnlyNoted(t) PROVE Untouched
        BY <2>2 DEF OnlyNoted, ReportIgnored, DivideByZero, Untouched, redis, history
    <2>. QED BY <1>1, <1>4, <1>7, <2>1, <2>2 DEF Report, OnlyNoted
<1>8. ASSUME NEW t \in Threads, CheckOnce(t) \/ CheckTwice(t)
      PROVE  Untouched \/ TakesWindow
    <2>1. ASSUME NEW w \in Windows, NoScript(t, w) PROVE Untouched
        BY <2>1 DEF NoScript, Untouched, redis, history
    <2>. QED BY <1>1, <1>5, <1>8, <2>1 DEF CheckOnce, CheckTwice
<1>9. ASSUME NEW t \in Threads, Enter(t) \/ NotFound(t) \/ Wake(t) \/ Leave(t)
      PROVE  Untouched
    BY <1>9 DEF Enter, NotFound, CheckFails, Wake, Leave, Untouched, redis, history
<1>10. CASE Flush \/ Tick
    BY <1>10 DEF Flush, Tick, Untouched, redis, history
<1>11. CASE UNCHANGED vars
    BY <1>11 DEF vars, Untouched
<1>12. ASSUME NEW t \in Threads, NEW w \in Windows, NEW s, SetLost(t, w, s)
       PROVE  Untouched \/ SetsWindow
    BY <1>2, <1>12 DEF SetLost, Untouched, redis
<1>13. ASSUME NEW t \in Threads, NEW w \in Windows, NEW s, CheckLost(t, w, s)
       PROVE  Untouched \/ TakesWindow
    BY <1>13 DEF CheckLost, Found, TakesWindow, Untouched, redis, history
<1>14. ASSUME NEW t \in Threads, CallLost(t) PROVE Untouched \/ SetsWindow \/ TakesWindow
    BY <1>12, <1>13, <1>14 DEF CallLost
<1>. QED BY <1>6, <1>7, <1>8, <1>9, <1>10, <1>11, <1>14 DEF Next, Thread

\* Time alone changes nothing of the windows.
LEMMA UntouchedKeeps ==
    ASSUME WindowInv, WindowBound, Untouched
    PROVE  WindowInv' /\ WindowBound'
<1>1. now \in Nat /\ now' \in Nat /\ 0 .. now \subseteq 0 .. now'
    BY DEF WindowInv, WindowTypes, Untouched
<1>2. WindowTypes'
    BY <1>1 DEF WindowInv, WindowTypes, Untouched
<1>3. \A w \in Windows : InForce(w)' /\ WithinCapacity(w)' /\ Account(w)'
    BY DEF WindowInv, InForce, WithinCapacity, Account, Untouched, Capacity
<1>4. Windows' = Windows
    BY DEF Windows
<1>5. WindowBound'
    BY DEF WindowBound, Untouched, Capacity
<1>. QED BY <1>2, <1>3, <1>4, <1>5 DEF WindowInv

\* A lower limit starts a new account; another one changes nothing.
LEMMA SetKeeps ==
    ASSUME WindowInv, WindowBound, NEW v \in Windows, NEW r \in Nat \ {0}, Gives(v, r),
           now' = now
    PROVE  WindowInv' /\ WindowBound'
<1>1. /\ now \in Nat
      /\ window \in [Windows -> [rate : Nat, time : 0 .. now, level : Int]]
      /\ tickets \in [Windows -> Seq(Ticket)]
      /\ asked \in [Windows -> SUBSET (Nat \ {0})]
    BY DEF WindowInv, WindowTypes
<1>2. /\ tickets' = tickets
      /\ asked' = [asked EXCEPT ![v] = @ \cup {r}]
      /\ \A w \in Windows : window'[w].level = window[w].level
      /\ \A w \in Windows : w # v => window'[w] = window[w]
      /\ Stricter(v, r) => window'[v].rate = r /\ window'[v].time = now
      /\ ~ Stricter(v, r) => window' = window
    BY <1>1 DEF Gives
<1>3. WindowTypes'
    <2>1. now \in 0 .. now
        BY <1>1
    <2>2. window' \in [Windows -> [rate : Nat, time : 0 .. now, level : Int]]
        <3>1. CASE Stricter(v, r)
            <4>1. window' = [window EXCEPT ![v].rate = r, ![v].time = now]
                BY <3>1 DEF Gives
            <4>. QED BY <1>1, <2>1, <4>1
        <3>2. CASE ~ Stricter(v, r)
            BY <1>1, <1>2, <3>2
        <3>. QED BY <3>1, <3>2
    <2>. QED BY <1>1, <1>2, <2>2 DEF WindowTypes, Ticket
<1>4. ASSUME NEW w \in Windows PROVE InForce(w)' /\ WithinCapacity(w)' /\ Account(w)'
    <2>1. InForce(w) /\ WithinCapacity(w) /\ Account(w)
        BY DEF WindowInv
    <2>2. CASE w # v
        BY <1>1, <1>2, <2>1, <2>2 DEF InForce, WithinCapacity, Account, Capacity
    <2>3. CASE w = v
        <3>1. asked'[w] = asked[w] \cup {r} /\ asked[w] \subseteq Nat /\ window[w].rate \in Nat
            BY <1>1, <1>2, <2>3
        <3>2. CASE Stricter(w, r)
            <4>1. window'[w].rate = r /\ window'[w].level = window[w].level
                BY <1>2, <2>3, <3>2
            <4>2. InForce(w)'
                BY <2>1, <3>1, <3>2, <4>1 DEF InForce, Stricter
            <4>3. WithinCapacity(w)'
                <5>1. CASE window[w].rate = 0
                    <6>1. window'[w].level = 0 /\ 0 <= Capacity(w, r)
                        BY <2>1, <4>1, <5>1, CapacityNat DEF InForce
                    <6>. QED BY <4>1, <6>1 DEF WithinCapacity
                <5>2. CASE window[w].rate # 0
                    BY <2>1, <3>1, <4>1, <5>2 DEF InForce, WithinCapacity, Capacity
                <5>. QED BY <5>1, <5>2
            <4>4. Account(w)'
                <5> SUFFICES ASSUME NEW i \in DOMAIN tickets[w]
                             PROVE  r < tickets[w][i].rate /\ tickets[w][i].rate \in Nat
                    BY <1>2, <4>1 DEF Account
                <5>1. tickets[w][i] \in Ticket
                    BY <1>1
                <5>2. tickets[w] # <<>>
                    OBVIOUS
                <5>3. window[w].rate # 0
                    BY <2>1, <5>2 DEF InForce
                <5>. QED BY <2>1, <3>1, <3>2, <5>1, <5>3 DEF Account, Stricter, Ticket
            <4>. QED BY <4>2, <4>3, <4>4
        <3>3. CASE ~ Stricter(w, r)
            <4>1. window' = window
                BY <1>2, <2>3, <3>3
            <4>2. InForce(w)'
                BY <1>2, <2>1, <3>1, <3>3, <4>1 DEF InForce, Stricter
            <4>3. WithinCapacity(w)'
                BY <2>1, <3>1, <4>1 DEF WithinCapacity, Capacity
            <4>4. Account(w)'
                BY <1>2, <2>1, <4>1 DEF Account, Capacity
            <4>. QED BY <4>2, <4>3, <4>4
        <3>. QED BY <3>2, <3>3
    <2>. QED BY <2>2, <2>3
<1>5. Windows' = Windows
    BY DEF Windows
<1>6. WindowBound'
    BY <1>2 DEF WindowBound, Capacity
<1>. QED BY <1>3, <1>4, <1>5, <1>6 DEF WindowInv

\* What the check script leaves and answers: at most what the window may hold, and a
\* delay that pays back the credit, but for the part of a second that is cut.
LEMMA LevelAndDelay ==
    ASSUME WindowTypes, NEW w \in Windows, window[w].rate # 0
    PROVE  /\ Level(w) \in Int /\ Delay(w) \in Nat
           /\ Level(w) <= (window[w].level + window[w].rate * (now - window[w].time)) - Minute
           /\ Level(w) <= Capacity(w, window[w].rate)
           /\ Level(w) + window[w].rate * Delay(w) <= Capacity(w, window[w].rate)
           /\ - Level(w) <= window[w].rate * (Delay(w) + 1)
<1> DEFINE r == window[w].rate
           c == Capacity(w, r)
           f == window[w].level + r * (now - window[w].time)
           l == Level(w)
           d == Delay(w)
<1>1. /\ now \in Nat /\ Minute \in Nat
      /\ r \in Nat \ {0} /\ window[w].time \in Int /\ window[w].level \in Int
    BY RedisAssumption DEF WindowTypes
<1>2. c \in Nat
    BY <1>1, CapacityNat
<1>3. f \in Int
    BY <1>1, ProductInt
<1>4. l = (IF f < c THEN f ELSE c) - Minute
    BY DEF Level, Refilled, Smaller
<1>5. d = IF l >= 0 THEN 0 ELSE (- l) \div r
    BY DEF Delay
<1> HIDE DEF r, c, f, l, d
<1>6. l \in Int /\ l <= f - Minute /\ l <= c
    BY <1>1, <1>2, <1>3, <1>4
<1>7. d \in Nat /\ l + r * d <= c /\ - l <= r * (d + 1)
    <2>1. CASE l >= 0
        <3>1. d = 0 /\ r * 0 = 0 /\ r * (0 + 1) = r
            BY <1>1, <1>5, <2>1
        <3>. QED BY <1>1, <1>2, <1>6, <2>1, <3>1
    <2>2. CASE ~ (l >= 0)
        <3>1. - l \in Nat /\ d = (- l) \div r
            BY <1>5, <1>6, <2>2
        <3>2. d \in Nat /\ r * d <= - l /\ - l <= r * (d + 1)
            BY <1>1, <3>1, Quotient
        <3>3. r * d \in Int
            BY <1>1, <3>2, ProductInt
        <3>. QED BY <1>2, <1>6, <3>2, <3>3
    <2>. QED BY <2>1, <2>2
<1>. QED BY <1>6, <1>7 DEF r, c, f, l, d

\* What a ticket is made of.
LEMMA ATicket ==
    ASSUME NEW a \in Nat, NEW q \in Nat \ {0}
    PROVE  [at |-> a, rate |-> q] \in Ticket
BY DEF Ticket

\* A request taken is a ticket more: the account goes on, and pays for the bound of
\* every ticket of the same limit before it.
LEMMA TakeKeeps ==
    ASSUME WindowInv, WindowBound, NEW t \in Threads, NEW v \in Windows,
           window[v].rate # 0, TakeWindow(t, v), now' = now
    PROVE  WindowInv' /\ WindowBound'
<1> DEFINE r == window[v].rate
           n == Len(tickets[v])
           k == [at |-> now + Delay(v), rate |-> r]
<1>1. /\ now \in Nat /\ Minute \in Nat
      /\ window \in [Windows -> [rate : Nat, time : 0 .. now, level : Int]]
      /\ tickets \in [Windows -> Seq(Ticket)]
      /\ asked \in [Windows -> SUBSET (Nat \ {0})]
    BY RedisAssumption DEF WindowInv, WindowTypes
<1>2. /\ Level(v) \in Int /\ Delay(v) \in Nat
      /\ Level(v) <= (window[v].level + r * (now - window[v].time)) - Minute
      /\ Level(v) <= Capacity(v, r)
      /\ Level(v) + r * Delay(v) <= Capacity(v, r)
      /\ - Level(v) <= r * (Delay(v) + 1)
    <2>1. WindowTypes
        BY DEF WindowInv
    <2>2. /\ Level(v) \in Int /\ Delay(v) \in Nat
          /\ Level(v) <= (window[v].level + window[v].rate * (now - window[v].time)) - Minute
          /\ Level(v) <= Capacity(v, window[v].rate)
          /\ Level(v) + window[v].rate * Delay(v) <= Capacity(v, window[v].rate)
          /\ - Level(v) <= window[v].rate * (Delay(v) + 1)
        BY <2>1, window[v].rate # 0, LevelAndDelay, Zenon
    <2>. QED BY <2>2
<1>3. r \in Nat \ {0} /\ Capacity(v, r) \in Nat /\ now \in 0 .. now
    <2>1. window[v].rate \in Nat \ {0} /\ now \in 0 .. now
        BY <1>1
    <2>2. Capacity(v, window[v].rate) \in Nat
        BY <2>1, CapacityNat
    <2>. QED BY <2>1, <2>2
<1>4. k \in Ticket
    <2>1. now + Delay(v) \in Nat
        <3>1. now \in Nat
            BY <1>1
        <3>2. Delay(v) \in Nat
            BY <1>2, Zenon
        <3>. QED BY <3>1, <3>2
    <2>2. window[v].rate \in Nat \ {0}
        BY <1>3
    <2>. QED BY <2>1, <2>2, ATicket, Zenon
<1>5. /\ window' = [window EXCEPT ![v].level = Level(v), ![v].time = now]
      /\ tickets' = [tickets EXCEPT ![v] = Append(@, k)]
      /\ asked' = asked
    BY DEF TakeWindow
<1>6. /\ window'[v].rate = r /\ window'[v].level = Level(v) /\ window'[v].time = now
      /\ tickets'[v] = Append(tickets[v], k)
      /\ \A w \in Windows : w # v => window'[w] = window[w] /\ tickets'[w] = tickets[w]
    BY <1>1, <1>5
<1>7. tickets[v] \in Seq(Ticket) /\ n \in Nat
    BY <1>1
<1>8. /\ DOMAIN tickets[v] = 1 .. n /\ DOMAIN tickets'[v] = 1 .. n + 1
      /\ Len(tickets'[v]) = n + 1 /\ tickets'[v][n + 1] = k
      /\ \A i \in 1 .. n : tickets'[v][i] = tickets[v][i]
      /\ tickets'[v] # <<>>
    <2>1. Len(Append(tickets[v], k)) = n + 1 /\ DOMAIN tickets[v] = 1 .. n
          /\ DOMAIN Append(tickets[v], k) = 1 .. n + 1
        BY <1>4, <1>7
    <2>2. /\ Append(tickets[v], k)[n + 1] = k
          /\ \A i \in 1 .. n : Append(tickets[v], k)[i] = tickets[v][i]
        BY <1>4, <1>7
    <2>3. Append(tickets[v], k) # <<>>
        BY <1>7, <2>1
    <2>. QED BY <1>6, <2>1, <2>2, <2>3
<1>9. WindowTypes'
    <2>1. window' \in [Windows -> [rate : Nat, time : 0 .. now, level : Int]]
        BY <1>1, <1>2, <1>3, <1>5
    <2>2. tickets' \in [Windows -> Seq(Ticket)]
        <3>1. Append(tickets[v], k) \in Seq(Ticket)
            BY <1>4, <1>7
        <3>. QED BY <1>1, <1>5, <3>1
    <2>. QED BY <1>1, <1>5, <2>1, <2>2 DEF WindowTypes, Ticket
<1> HIDE DEF k, n
<1>10. ASSUME NEW i \in 1 .. n, tickets[v][i].rate = r
       PROVE  ((n + 1) - i) * Minute + Level(v)
                  <= Capacity(v, r) + r * (now - tickets[v][i].at)
    <2>1. tickets[v][i] \in Ticket
        BY <1>7, <1>8
    <2>2. (n - i) * Minute + window[v].level
              <= Capacity(v, r) + r * (window[v].time - tickets[v][i].at)
        BY <1>8, <1>10 DEF WindowInv, Account, n
    <2>3. tickets[v][i].at \in Nat /\ window[v].time \in Nat /\ window[v].level \in Int
        BY <1>1, <2>1 DEF Ticket
    <2>4. Minute \in Nat /\ now \in Nat /\ n \in Nat /\ i \in Nat /\ r \in Nat
          /\ Level(v) \in Int /\ Capacity(v, r) \in Int
        BY <1>1, <1>2, <1>3, <1>7
    <2>5. Level(v) <= (window[v].level + r * (now - window[v].time)) - Minute
        BY <1>2
    <2> HIDE DEF r
    <2>. QED BY <2>2, <2>3, <2>4, <2>5, OneMore, Zenon
<1>11. ASSUME NEW w \in Windows PROVE InForce(w)' /\ WithinCapacity(w)' /\ Account(w)'
    <2>1. InForce(w) /\ WithinCapacity(w) /\ Account(w)
        BY DEF WindowInv
    <2>2. CASE w # v
        BY <1>5, <1>6, <2>1, <2>2 DEF InForce, WithinCapacity, Account, Capacity
    <2>3. CASE w = v
        <3>1. InForce(w)'
            BY <1>3, <1>5, <1>6, <2>1, <2>3 DEF InForce
        <3>2. WithinCapacity(w)'
            <4>1. window'[w].level <= Capacity(w, window'[w].rate)
                BY <1>2, <1>6, <2>3
            <4>. QED BY <4>1 DEF WithinCapacity, Capacity
        <3>3. ASSUME NEW i \in 1 .. n + 1
              PROVE  /\ r <= tickets'[v][i].rate
                     /\ tickets'[v][i].rate = r =>
                           ((n + 1) - i) * Minute + Level(v)
                               <= Capacity(v, r) + r * (now - tickets'[v][i].at)
            <4>1. CASE i = n + 1
                <5>1. tickets'[v][i].rate = r /\ tickets'[v][i].at = now + Delay(v)
                    BY <1>8, <4>1 DEF k
                <5>2. ((n + 1) - i) * Minute = 0
                    <6>1. n + 1 \in Nat /\ Minute \in Nat
                        BY <1>1, <1>7
                    <6>. QED BY <4>1, <6>1, NothingSince
                <5>3. r * (now - (now + Delay(v))) = - (r * Delay(v))
                    <6>1. r \in Nat /\ now \in Nat /\ Delay(v) \in Nat
                        BY <1>1, <1>2, <1>3
                    <6> HIDE DEF r
                    <6>. QED BY <6>1, Ahead
                <5>4. r * Delay(v) \in Int
                    BY <1>2, <1>3, ProductInt
                <5>. QED BY <1>2, <1>3, <5>1, <5>2, <5>3, <5>4
            <4>2. CASE i # n + 1
                <5>1. i \in 1 .. n /\ tickets'[v][i] = tickets[v][i]
                    BY <1>7, <1>8, <4>2
                <5>. QED BY <1>8, <1>10, <2>1, <2>3, <5>1 DEF Account
            <4>. QED BY <4>1, <4>2
        <3>4. Account(w)'
            <4> SUFFICES ASSUME NEW i \in 1 .. n + 1
                         PROVE  /\ r <= tickets'[v][i].rate
                                /\ tickets'[v][i].rate = r =>
                                     ((n + 1) - i) * Minute + Level(v)
                                        <= Capacity(v, tickets'[v][i].rate)
                                           + tickets'[v][i].rate * (now - tickets'[v][i].at)
                BY <1>6, <1>8, <2>3 DEF Account, Capacity
            <4>. QED BY <3>3
        <3>. QED BY <3>1, <3>2, <3>4
    <2>. QED BY <2>2, <2>3
<1>12. Windows' = Windows
    BY DEF Windows
<1>13. ASSUME NEW i \in 1 .. n + 1, tickets'[v][i].rate = r
       PROVE  ((n + 1) - i) * Minute
                  <= Capacity(v, r) + r * (((now + Delay(v)) - tickets'[v][i].at) + 1)
    <2>1. CASE i = n + 1
        <3>1. tickets'[v][i].at = now + Delay(v)
            BY <1>8, <2>1 DEF k
        <3>2. ((n + 1) - i) * Minute = 0
            <4>1. n + 1 \in Nat /\ Minute \in Nat
                BY <1>1, <1>7
            <4>. QED BY <2>1, <4>1, NothingSince
        <3>3. r * (((now + Delay(v)) - tickets'[v][i].at) + 1) = r
            <4>1. r \in Nat /\ now \in Nat /\ Delay(v) \in Nat
                BY <1>1, <1>2, <1>3
            <4> HIDE DEF r
            <4>. QED BY <3>1, <4>1, Ahead
        <3>. QED BY <1>3, <3>2, <3>3
    <2>2. CASE i # n + 1
        <3>1. i \in 1 .. n /\ tickets'[v][i] = tickets[v][i]
            BY <1>7, <1>8, <2>2
        <3>2. tickets[v][i] \in Ticket
            BY <1>7, <1>8, <3>1
        <3>3. ((n + 1) - i) * Minute + Level(v)
                  <= Capacity(v, r) + r * (now - tickets[v][i].at)
            BY <1>10, <1>13, <3>1
        <3>4. tickets[v][i].at \in Nat /\ (n + 1) - i \in Int
            BY <1>7, <3>1, <3>2 DEF Ticket
        <3>a. Minute \in Nat /\ now \in Nat /\ r \in Nat /\ Level(v) \in Int
              /\ Capacity(v, r) \in Int /\ Delay(v) \in Nat
            BY <1>1, <1>2, <1>3
        <3>b. - Level(v) <= r * (Delay(v) + 1)
            BY <1>2
        <3> HIDE DEF r
        <3>5. ((n + 1) - i) * Minute
                  <= Capacity(v, r) + r * (((now + Delay(v)) - tickets[v][i].at) + 1)
            BY <3>a, <3>b, <3>3, <3>4, Bounded, Zenon
        <3>. QED BY <3>1, <3>5
    <2>. QED BY <2>1, <2>2
<1>14. WindowBound'
    <2> SUFFICES ASSUME NEW w \in Windows, NEW i \in DOMAIN tickets'[w],
                        NEW j \in DOMAIN tickets'[w], i <= j,
                        tickets'[w][j].rate = tickets'[w][i].rate
                 PROVE  (j - i) * Minute <= Capacity(w, tickets'[w][i].rate)
                           + tickets'[w][i].rate
                                * ((tickets'[w][j].at - tickets'[w][i].at) + 1)
        BY <1>12 DEF WindowBound, Capacity
    <2>1. CASE w # v
        BY <1>6, <2>1 DEF WindowBound
    <2>2. CASE w = v /\ j = n + 1
        <3>1. tickets'[v][j].at = now + Delay(v) /\ tickets'[v][j].rate = r
            BY <1>8, <2>2 DEF k
        <3>. QED BY <1>8, <1>13, <2>2, <3>1
    <2>3. CASE w = v /\ j # n + 1
        <3>1. i \in 1 .. n /\ j \in 1 .. n
            BY <1>7, <1>8, <2>3
        <3>. QED BY <1>8, <2>3, <3>1 DEF WindowBound
    <2>. QED BY <2>1, <2>2, <2>3
<1>. QED BY <1>9, <1>11, <1>12, <1>14 DEF WindowInv

\* Windows that nobody has set have admitted nobody.
LEMMA InitWindows == Init => WindowInv /\ WindowBound
<1> SUFFICES ASSUME Init PROVE WindowInv /\ WindowBound
    OBVIOUS
<1>1. /\ now = 0 /\ window = [w \in Windows |-> Unset]
      /\ tickets = [w \in Windows |-> <<>>] /\ asked = [w \in Windows |-> {}]
    BY DEF Init
<1>2. WindowTypes
    BY <1>1 DEF WindowTypes, Unset
<1>3. \A w \in Windows : InForce(w) /\ WithinCapacity(w) /\ Account(w)
    BY <1>1 DEF InForce, WithinCapacity, Account, Unset
<1>4. WindowBound
    BY <1>1 DEF WindowBound
<1>. QED BY <1>2, <1>3, <1>4 DEF WindowInv

\* Each step keeps the account of the windows, and with it the bound.
LEMMA NextWindows ==
    Control /\ WindowInv /\ WindowBound /\ [Next]_vars => WindowInv' /\ WindowBound'
<1> SUFFICES ASSUME Control, WindowInv, WindowBound, [Next]_vars
             PROVE  WindowInv' /\ WindowBound'
    OBVIOUS
<1>1. CASE Untouched
    BY <1>1, UntouchedKeeps
<1>2. CASE SetsWindow
    BY <1>2, SetKeeps DEF SetsWindow
<1>3. CASE TakesWindow
    BY <1>3, TakeKeeps DEF TakesWindow
<1>. QED BY <1>1, <1>2, <1>3, WindowStep

\* How long a thread is told to wait, and until when it sleeps.
LEMMA NextWaits == WindowInv /\ Waits /\ [Next]_vars => Waits'
<1> SUFFICES ASSUME WindowInv, Waits, [Next]_vars PROVE Waits'
    OBVIOUS
<1>1. now \in Nat
    BY DEF WindowInv, WindowTypes
<1>2. ASSUME NEW t \in Threads, NEW w \in Windows, TakeWindow(t, w), window[w].rate # 0
      PROVE  Waits'
    <2>1. Delay(w) \in Nat
        BY <1>2, LevelAndDelay DEF WindowInv
    <2>2. wait' \in [Threads -> Nat]
        BY <1>2, <2>1 DEF TakeWindow, Waits
    <2>3. now + wait'[t] \in Nat
        BY <1>1, <2>2
    <2>4. wakeAt' \in [Threads -> Nat]
        BY <1>2, <2>3 DEF TakeWindow, Waits
    <2>. QED BY <2>2, <2>4 DEF Waits
<1>3. ASSUME NEW t \in Threads, CheckOnce(t) \/ CheckTwice(t) PROVE Waits'
    <2>1. ASSUME NEW w \in Windows, NoScript(t, w) PROVE Waits'
        BY <2>1 DEF NoScript, Waits
    <2>2. ASSUME NEW w \in Windows, NEW s, NEW u, Check(t, w, u) \/ CheckAgain(t, w, s, u)
          PROVE  Waits'
        BY <1>2, <2>2 DEF Check, CheckAgain, Found
    <2>3. "tenth" \in Windows /\ "minute" \in Windows /\ "second" \in Windows
        BY DEF Windows
    <2>. QED BY <1>3, <2>1, <2>2, <2>3 DEF CheckOnce, CheckTwice
<1>4. ASSUME NEW t \in Threads, Initialise(t) \/ Report(t) PROVE Waits'
    BY <1>4 DEF Initialise, Acquire, TakeInitLock, NameKeys, SetInRedis, Report, ResetOnce,
                ReportIgnored, DivideByZero, ResetWindow, Waits
<1>5. ASSUME NEW t \in Threads, Enter(t) \/ NotFound(t) \/ Wake(t) \/ Leave(t) PROVE Waits'
    BY <1>5 DEF Enter, NotFound, CheckFails, Wake, Leave, Waits
<1>6. CASE Flush \/ Tick \/ UNCHANGED vars
    BY <1>6 DEF Flush, Tick, thread, vars, Waits
<1>7. ASSUME NEW t \in Threads, CallLost(t) PROVE Waits'
    <2>1. ASSUME NEW w \in Windows, NEW s, SetLost(t, w, s) PROVE Waits'
        BY <2>1 DEF SetLost, Waits
    <2>2. ASSUME NEW w \in Windows, NEW s, CheckLost(t, w, s) PROVE Waits'
        BY <1>2, <2>2 DEF CheckLost, Found, Waits
    <2>. QED BY <1>7, <2>1, <2>2 DEF CallLost
<1>. QED BY <1>3, <1>4, <1>5, <1>6, <1>7 DEF Next, Thread

-----------------------------------------------------------------------------

TypeInv == Control /\ WindowInv /\ WindowBound /\ Waits

\* The types of the whole state hold at first
LEMMA InitTypeInv == Init => TypeInv
<1>1. Init => Waits
    BY DEF Init, Waits
<1>. QED BY <1>1, InitControl, InitWindows DEF TypeInv

\* and after each step.
LEMMA NextTypeInv == TypeInv /\ [Next]_vars => TypeInv'
BY NextControl, NextWindows, NextWaits DEF TypeInv

\* Every reachable state of the limiters and of redis is well typed: a level is within
\* what a limit of its window allows, also between a reset and the next request, and
\* the two locks of a limiter are with the threads inside, also when a call has failed.
THEOREM TypeCorrect == Spec => []TypeOK
<1>1. TypeInv => TypeOK
    <2> SUFFICES ASSUME TypeInv PROVE TypeOK
        OBVIOUS
    <2>1. Control /\ WindowInv /\ Waits
        BY DEF TypeInv
    <2>2. \A p \in Processes, t \in Threads :
             /\ initLock[p] = t <=> process[t] = p
                   /\ pc[t] \in {"name", "set minute", "set tenth", "set second"}
             /\ resetLock[p] = t <=> process[t] = p
                   /\ pc[t] \in {"reset minute", "reset tenth", "reset second"}
        <3>1. /\ Naming = {"name", "set minute", "set tenth", "set second"}
              /\ Resetting = {"reset minute", "reset tenth", "reset second"}
            BY DEF Naming, Initialising, Resetting
        <3>2. Locked
            BY <2>1 DEF Control
        <3>. QED BY <3>1, <3>2, Zenon DEF Locked
    <2>3. \A w \in Windows :
             window[w].rate # 0 => window[w].level <= Capacity(w, window[w].rate)
                                \/ \E r \in asked[w] : window[w].level <= Capacity(w, r)
        BY <2>1 DEF WindowInv, WithinCapacity
    <2>4. /\ now \in Nat
          /\ window \in [Windows -> [rate : Nat, time : 0 .. now, level : Int]]
        BY <2>1 DEF WindowInv, WindowTypes
    <2>. QED BY <2>1, <2>2, <2>3, <2>4 DEF TypeOK, Control, LimiterTypes, Waits
<1>. QED BY <1>1, InitTypeInv, NextTypeInv, PTL DEF Spec

\* However many processes share a window, and whatever limits are reported meanwhile,
\* the requests it lets begin between two moments under one limit are no more than its
\* capacity and what the limit gives until a second after the later one.
THEOREM BoundKept == Spec => []WindowBound
<1>1. TypeInv => WindowBound
    BY DEF TypeInv
<1>. QED BY <1>1, InitTypeInv, NextTypeInv, PTL DEF Spec

\* What no step may do to the limits in force: take one away or raise it.
OnlyLower ==
    \A w \in Windows : window[w].rate # 0 =>
        window'[w].rate # 0 /\ window'[w].rate <= window[w].rate

\* A limit that redis holds a window to is never raised and never taken away, by any
\* process or any order of their steps (reset_rate_limiter.lua compares before it sets,
\* and makes a request per period of a limit that is not above zero).
THEOREM LimitsFall == Spec => [][OnlyLower]_vars
<1>1. TypeInv /\ [Next]_vars => [OnlyLower]_vars
    <2> SUFFICES ASSUME TypeInv, [Next]_vars, NEW w \in Windows, window[w].rate # 0
                 PROVE  window'[w].rate # 0 /\ window'[w].rate <= window[w].rate
        BY DEF OnlyLower
    <2>1. /\ Control
          /\ window \in [Windows -> [rate : Nat, time : 0 .. now, level : Int]]
        BY DEF TypeInv, WindowInv, WindowTypes
    <2>2. CASE Untouched
        BY <2>1, <2>2 DEF Untouched
    <2>3. CASE SetsWindow
        BY <2>1, <2>3 DEF SetsWindow, Gives, Stricter
    <2>4. CASE TakesWindow
        BY <2>1, <2>4 DEF TakesWindow, TakeWindow
    <2>. QED BY <2>1, <2>2, <2>3, <2>4, WindowStep
<1>. QED BY <1>1, InitTypeInv, NextTypeInv, PTL DEF Spec

-----------------------------------------------------------------------------
(* The keys of a limiter.                                                   *)

\* A window that was given a limit has one.
LEMMA SetRate ==
    ASSUME WindowTypes, NEW w \in Windows, NEW r \in Int, SetWindow(w, r)
    PROVE  window'[w].rate # 0
<1>1. PICK g \in Nat \ {0} : Gives(w, g)
    BY SetGives
<1>. QED BY <1>1 DEF Gives, Stricter, WindowTypes

\* A window that has been set stays set.
LEMMA RatesStay ==
    ASSUME Control, WindowInv, [Next]_vars
    PROVE  \A w \in Windows : window[w].rate # 0 => window'[w].rate # 0
<1>1. window \in [Windows -> [rate : Nat, time : 0 .. now, level : Int]]
    BY DEF WindowInv, WindowTypes
<1>2. CASE Untouched
    BY <1>2 DEF Untouched
<1>3. CASE SetsWindow
    BY <1>1, <1>3 DEF SetsWindow, Gives
<1>4. CASE TakesWindow
    BY <1>1, <1>4 DEF TakesWindow, TakeWindow
<1>. QED BY <1>2, <1>3, <1>4, WindowStep

\* What a step of thread t may do to the keys of the limiters.
Provides(t) ==
    /\ \A p \in Processes : named[p] => named'[p]
    /\ \A p \in Processes : known'[p] => known[p] \/ initLock'[p] # None
    /\ \A p \in Processes : initLock[p] # None /\ initLock'[p] = None => Ready(p)' \/ p \in torn'
    /\ torn \subseteq torn'
    /\ pc'[t] \in Initialising => named'[process[t]]
    /\ pc'[t] = "set tenth" => window'["minute"].rate # 0

\* The last window set, the keys of the limiter are there.
LEMMA LastSet ==
    ASSUME Control, WindowInv, KeysComing, [Next]_vars, NEW t \in Threads,
           \/ SetInRedis(t, "tenth", "set tenth", "enter")
           \/ SetInRedis(t, "second", "set second", "enter")
    PROVE  Moves(t) /\ Provides(t)
<1> DEFINE p == process[t]
<1>1. /\ p \in Processes /\ named \in [Processes -> BOOLEAN]
      /\ pc \in [Threads -> Labels] /\ setting[t] \in Int
      /\ initLock \in [Processes -> Threads \cup {None}]
    BY DEF Control, LimiterTypes
<1>2. /\ Moves(t) /\ named' = named /\ known' = known /\ pc'[t] = "enter"
      /\ initLock' = [initLock EXCEPT ![p] = None] /\ torn' = torn
    BY <1>1 DEF SetInRedis, Moves, Step
<1>3. pc[t] \in Initialising
    BY DEF SetInRedis, Step, Initialising
<1>4. named[p]
    BY <1>3 DEF KeysComing
<1>5. PICK r : r = setting[t]
    OBVIOUS
<1>6. IF kind[p] = "rpm" THEN window'["tenth"].rate # 0 /\ window'["minute"].rate # 0
                         ELSE window'["second"].rate # 0
    <2>1. "tenth" \in Windows /\ "minute" \in Windows /\ "second" \in Windows
        BY DEF Windows
    <2>2. CASE SetInRedis(t, "tenth", "set tenth", "enter")
        <3>1. pc[t] = "set tenth" /\ SetWindow("tenth", r)
            BY <1>5, <2>2 DEF SetInRedis, Step
        <3>2. window'["tenth"].rate # 0
            BY <1>1, <1>5, <2>1, <3>1, SetRate DEF WindowInv
        <3>3. window'["minute"].rate # 0
            BY <2>1, <3>1, RatesStay DEF KeysComing
        <3>4. kind[p] = "rpm"
            BY <3>1 DEF Control, InPlace, PerMinute
        <3>. QED BY <3>2, <3>3, <3>4
    <2>3. CASE SetInRedis(t, "second", "set second", "enter")
        <3>1. pc[t] = "set second" /\ SetWindow("second", r)
            BY <1>5, <2>3 DEF SetInRedis, Step
        <3>2. window'["second"].rate # 0
            BY <1>1, <1>5, <2>1, <3>1, SetRate DEF WindowInv
        <3>3. kind[p] = "qps"
            BY <3>1 DEF Control, InPlace, PerSecond
        <3>. QED BY <3>2, <3>3
    <2>. QED BY <2>2, <2>3
<1>7. ASSUME NEW q \in Processes, q = p PROVE Ready(q)'
    BY <1>2, <1>4, <1>6, <1>7 DEF Ready, Moves
<1>8. \A q \in Processes : initLock[q] # None /\ initLock'[q] = None => q = p
    BY <1>1, <1>2
<1>9. \A q \in Processes : initLock[q] # None /\ initLock'[q] = None => Ready(q)'
    BY <1>7, <1>8
<1>10. pc'[t] \notin Initialising /\ pc'[t] # "set tenth"
    BY <1>2 DEF Initialising
<1>. QED BY <1>2, <1>9, <1>10 DEF Provides

\* Every step of a thread keeps the names and sets a flag or gives the lock back only
\* as Provides says.
LEMMA ThreadProvides ==
    ASSUME Control, WindowInv, KeysComing, [Next]_vars, NEW t \in Threads, Thread(t)
    PROVE  Moves(t) /\ Provides(t)
<1>1. /\ process[t] \in Processes /\ named \in [Processes -> BOOLEAN]
      /\ known \in [Processes -> BOOLEAN] /\ None \notin Threads
      /\ pc \in [Threads -> Labels]
      /\ initLock \in [Processes -> Threads \cup {None}]
    BY RedisAssumption DEF Control, LimiterTypes
<1>2. ASSUME Plain(t) PROVE Moves(t) /\ Provides(t)
    <2>1. pc'[t] \notin Naming
        BY <1>2, PlainKeeps DEF Control
    <2>2. pc'[t] \notin Initialising /\ pc'[t] # "set tenth"
        BY <2>1 DEF Naming, Initialising
    <2>3. Moves(t) /\ named' = named /\ known' = known /\ initLock' = initLock /\ torn' = torn
        BY <1>2, PlainKeeps DEF Control, Moves
    <2>. QED BY <2>2, <2>3 DEF Provides
<1>3. ASSUME TakeInitLock(t) PROVE Moves(t) /\ Provides(t)
    <2>1. pc'[t] \in {"enter", "name"}
        BY <1>1, <1>3 DEF TakeInitLock, Step
    <2>. QED BY <1>1, <1>3, <2>1 DEF TakeInitLock, Step, Moves, Provides, Initialising, history
<1>4. ASSUME NameKeys(t) PROVE Moves(t) /\ Provides(t)
    <2>1. pc'[t] \in {"set minute", "set second"}
        BY <1>1, <1>4 DEF NameKeys, Step
    <2>. QED BY <1>1, <1>4, <2>1 DEF NameKeys, Step, Moves, Provides, history
<1>5. ASSUME SetInRedis(t, "minute", "set minute", "set tenth")
      PROVE Moves(t) /\ Provides(t)
    <2>1. pc[t] = "set minute" /\ pc'[t] = "set tenth" /\ SetWindow("minute", setting[t])
          /\ Moves(t) /\ named' = named /\ known' = known /\ torn' = torn
        BY <1>1, <1>5 DEF SetInRedis, Step, Moves
    <2>2. initLock' = initLock
        BY <1>1, <1>5 DEF SetInRedis
    <2>3. pc[t] \in Initialising
        BY <2>1 DEF Initialising
    <2>4. named[process[t]] /\ setting[t] \in Int
        BY <2>3 DEF KeysComing, Control, LimiterTypes
    <2>5. PICK r : r = setting[t]
        OBVIOUS
    <2>6. "minute" \in Windows
        BY DEF Windows
    <2>7. window'["minute"].rate # 0
        BY <2>1, <2>4, <2>5, <2>6, SetRate DEF WindowInv
    <2>. QED BY <2>1, <2>2, <2>4, <2>7 DEF Provides
<1>6. ASSUME NEW r \in Reported, ResetOnce(t, r) PROVE Moves(t) /\ Provides(t)
    <2>1. pc'[t] \in {"reset minute", "reset second"}
        BY <1>1, <1>6 DEF ResetOnce, Step
    <2>. QED BY <1>1, <1>6, <2>1 DEF ResetOnce, Step, Moves, Provides, Initialising, history
<1>7. ASSUME NEW w, NEW s, NEW u, u \in {"reset tenth", "out"}, ResetWindow(t, w, s, u)
      PROVE  Moves(t) /\ Provides(t)
    <2>1. pc'[t] \notin Initialising /\ pc'[t] # "set tenth"
        BY <1>1, <1>7 DEF ResetWindow, Step, Initialising
    <2>. QED BY <1>7, <2>1 DEF ResetWindow, Step, Moves, Provides
<1>8. ASSUME \/ ResetWindow(t, "minute", "reset minute", "reset tenth")
             \/ ResetWindow(t, "tenth", "reset tenth", "out")
             \/ ResetWindow(t, "second", "reset second", "out")
      PROVE  Moves(t) /\ Provides(t)
    <2>1. "reset tenth" \in {"reset tenth", "out"} /\ "out" \in {"reset tenth", "out"}
        OBVIOUS
    <2>. QED BY <1>7, <1>8, <2>1, Zenon
<1>9. ASSUME \/ SetInRedis(t, "tenth", "set tenth", "enter")
             \/ SetInRedis(t, "second", "set second", "enter")
      PROVE  Moves(t) /\ Provides(t)
    BY <1>9, LastSet
<1>b. ASSUME SetCallLost(t) PROVE Moves(t) /\ Provides(t)
    <2>1. PICK w \in Windows : SetLost(t, w, Setter(w)) \/ SetLost(t, w, Resetter(w))
        BY <1>b DEF SetCallLost
    <2>2. /\ pc' = [pc EXCEPT ![t] = "raised"]
          /\ initLock' = [initLock EXCEPT ![process[t]] = IF @ = t THEN None ELSE @]
          /\ torn' = torn \cup {process[t]}
          /\ UNCHANGED <<process, kind, named, known>>
        BY <2>1 DEF SetLost, Step
    <2>3. Moves(t) /\ pc'[t] \notin Initialising /\ pc'[t] # "set tenth"
        BY <1>1, <2>2 DEF Moves, Initialising
    <2>4. \A p \in Processes : initLock[p] # None /\ initLock'[p] = None => p \in torn'
        BY <1>1, <2>2
    <2>. QED BY <2>2, <2>3, <2>4 DEF Provides
<1>10. \/ Plain(t) \/ TakeInitLock(t) \/ NameKeys(t)
       \/ SetInRedis(t, "minute", "set minute", "set tenth")
       \/ SetInRedis(t, "tenth", "set tenth", "enter")
       \/ SetInRedis(t, "second", "set second", "enter")
       \/ \E r \in Reported : ResetOnce(t, r)
       \/ ResetWindow(t, "minute", "reset minute", "reset tenth")
       \/ ResetWindow(t, "tenth", "reset tenth", "out")
       \/ ResetWindow(t, "second", "reset second", "out")
       \/ SetCallLost(t)
    BY ThreadCases
<1>. QED BY <1>2, <1>3, <1>4, <1>5, <1>6, <1>8, <1>9, <1>b, <1>10, Zenon

\* Each step keeps the keys there or on their way.
LEMMA NextKeysComing == Control /\ WindowInv /\ KeysComing /\ [Next]_vars => KeysComing'
<1> SUFFICES ASSUME Control, WindowInv, KeysComing, [Next]_vars PROVE KeysComing'
    OBVIOUS
<1>1. Initialising' = Initialising
    BY DEF Initialising
<1>2. \A w \in Windows : window[w].rate # 0 => window'[w].rate # 0
    BY RatesStay
<1>3. "tenth" \in Windows /\ "minute" \in Windows /\ "second" \in Windows
    BY DEF Windows
<1>4. ASSUME NEW t \in Threads, Thread(t) PROVE KeysComing'
    <2>1. Moves(t) /\ Provides(t)
        BY <1>4, ThreadProvides
    <2>2. ASSUME NEW p \in Processes, Ready(p) PROVE Ready(p)'
        BY <1>2, <1>3, <2>1, <2>2 DEF Ready, Moves, Provides
    <2>3. ASSUME NEW p \in Processes, known'[p]
          PROVE  Ready(p)' \/ initLock'[p] # None \/ p \in torn'
        BY <2>1, <2>2, <2>3 DEF KeysComing, Provides
    <2>4. ASSUME NEW x \in Threads
          PROVE  /\ pc'[x] \in Initialising => named'[process'[x]]
                 /\ pc'[x] = "set tenth" => window'["minute"].rate # 0
        <3>1. CASE x = t
            BY <2>1, <3>1 DEF Provides, Moves
        <3>2. CASE x # t
            <4>1. pc'[x] = pc[x] /\ process'[x] = process[x] /\ process[x] \in Processes
                BY <2>1, <3>2 DEF Moves, Control, LimiterTypes
            <4>. QED BY <1>2, <1>3, <2>1, <4>1 DEF KeysComing, Provides
        <3>. QED BY <3>1, <3>2
    <2>. QED BY <1>1, <2>3, <2>4 DEF KeysComing
<1>5. CASE Flush \/ Tick
    BY <1>5 DEF Flush, Tick, limiter, thread, redis, history, KeysComing, Ready
<1>6. CASE UNCHANGED vars
    BY <1>6 DEF vars, KeysComing, Ready
<1>. QED BY <1>4, <1>5, <1>6 DEF Next

\* A script that finds no keys is of a thread whose limiter has the flag and not yet the
\* keys: some thread of the process is still setting them, under the lock, or a call of
\* the process that was to set a window has failed.
THEOREM KeysAreThere == Spec => []NothingRaisedOnceSet
<1> DEFINE Inv == TypeInv /\ KeysComing
<1>1. Init => Inv
    <2>1. Init => KeysComing
        BY DEF Init, KeysComing, Initialising
    <2>. QED BY <2>1, InitTypeInv
<1>2. Inv /\ [Next]_vars => Inv'
    <2>1. TypeInv => Control /\ WindowInv
        BY DEF TypeInv
    <2>. QED BY <2>1, NextTypeInv, NextKeysComing
<1>3. Inv => NothingRaisedOnceSet
    <2> SUFFICES ASSUME TypeInv, KeysComing, NEW t \in Threads, NEW w \in Windows,
                        pc[t] \in {w, Again(w)}, initLock[process[t]] = None,
                        process[t] \notin torn
                 PROVE  Found(t, w)
        BY DEF NothingRaisedOnceSet
    <2>1. pc[t] \in {w, Again(w)} /\ w \in {"tenth", "minute", "second"}
        BY DEF Windows
    <2>2. \/ w = "tenth" /\ pc[t] \in {"tenth", "tenth again"}
          \/ w = "minute" /\ pc[t] \in {"minute", "minute again"}
          \/ w = "second" /\ pc[t] \in {"second", "second again"}
        BY <2>1 DEF Again
    <2>3. pc[t] \in Begun
        BY <2>2 DEF Begun, Labels
    <2>4. Control
        BY DEF TypeInv
    <2>5. process[t] \in Processes /\ known[process[t]]
        BY <2>3, <2>4 DEF Control, LimiterTypes, InPlace
    <2>6. Ready(process[t])
        BY <2>5 DEF KeysComing
    <2>7. /\ w \in {"tenth", "minute"} => kind[process[t]] = "rpm"
          /\ w = "second" => kind[process[t]] = "qps"
        BY <2>2, <2>4 DEF Control, InPlace, PerMinute, PerSecond
    <2>. QED BY <2>1, <2>6, <2>7 DEF Ready, Found
<1>. QED BY <1>1, <1>2, <1>3, PTL DEF Spec

-----------------------------------------------------------------------------
(* The two windows of a limit per minute.                                   *)

\* What a step of thread t has to do with the two windows: nothing, or it gives the window
\* of a minute a limit and comes to be between them, or gives that limit to the tenth and
\* is between them no more.
Others(t) == \A x \in Threads : x # t => pc'[x] = pc[x] /\ setting'[x] = setting[x]

Apart(t) ==
    /\ t \notin BetweenWindows /\ t \notin BetweenWindows'
    /\ asked'["minute"] = asked["minute"] /\ asked'["tenth"] = asked["tenth"]

Begins(t) ==
    /\ t \notin BetweenWindows /\ t \in BetweenWindows' /\ setting'[t] = setting[t]
    /\ asked'["minute"] = asked["minute"] \cup {Granted("minute", setting[t])}
    /\ asked'["tenth"] = asked["tenth"]

Ends(t) ==
    /\ t \in BetweenWindows /\ t \notin BetweenWindows'
    /\ asked'["minute"] = asked["minute"]
    /\ asked'["tenth"] = asked["tenth"] \cup {Granted("tenth", setting[t])}

\* Its call fails: one window is given the limit, or none.
Breaks(t) ==
    /\ t \notin BetweenWindows' /\ torn' # {}
    /\ \/ asked'["minute"] = asked["minute"] /\ asked'["tenth"] = asked["tenth"]
       \/ /\ asked'["tenth"] = asked["tenth"]
          /\ asked'["minute"] = asked["minute"] \cup {Granted("minute", setting[t])}
       \/ /\ t \in BetweenWindows /\ asked'["minute"] = asked["minute"]
          /\ asked'["tenth"] = asked["tenth"] \cup {Granted("tenth", setting[t])}

\* What a step does to the limits of the processes: a report brings one, once, or they stay
\* as they are; and a limit that a thread is to give is the limit of its process.
Limits(t) ==
    /\ process' = process /\ torn \subseteq torn'
    /\ \A p \in Processes :
          /\ reset[p] => reset'[p] /\ limit'[p] = limit[p]
          /\ limit'[p] = limit[p] \/ reset'[p]
    /\ pc'[t] \in Giving =>
          \/ pc[t] \in Giving /\ setting'[t] = setting[t]
          \/ setting'[t] = limit'[process[t]]

\* Every step of a thread is one of these.
LEMMA ThreadGives ==
    ASSUME Control, WindowTypes, NEW t \in Threads, Thread(t)
    PROVE  /\ Others(t) /\ Limits(t)
           /\ Apart(t) \/ Begins(t) \/ Ends(t) \/ Breaks(t)
<1>1. /\ pc \in [Threads -> Labels] /\ setting \in [Threads -> Int]
      /\ asked \in [Windows -> SUBSET (Nat \ {0})]
      /\ "tenth" \in Windows /\ "minute" \in Windows /\ "second" \in Windows
      /\ limit \in [Processes -> Int] /\ reset \in [Processes -> BOOLEAN]
      /\ process \in [Threads -> Processes] /\ kind \in [Processes -> {"rpm", "qps"}]
    BY DEF Control, LimiterTypes, WindowTypes, Windows
<1>2. ASSUME Plain(t) PROVE Others(t) /\ Limits(t) /\ Apart(t)
    <2>1. /\ pc' = [pc EXCEPT ![t] = pc'[t]] /\ setting' = setting /\ process' = process
          /\ limit' = limit /\ torn' = torn /\ \A p \in Processes : reset[p] => reset'[p]
          /\ pc[t] \notin Naming \cup Resetting /\ pc'[t] \notin Naming \cup Resetting
        BY <1>2, PlainKeeps DEF Control
    <2>2. t \notin BetweenWindows /\ t \notin BetweenWindows' /\ pc'[t] \notin Giving
        BY <2>1 DEF Naming, Initialising, Resetting, BetweenWindows, Giving
    <2>3. asked' = asked
        <3>1. CASE CheckCallLost(t)
            BY <3>1 DEF CheckCallLost, CheckLost, TakeWindow, history
        <3>2. CASE OnlyNoted(t)
            BY <3>2 DEF OnlyNoted, DivideByZero, ReportIgnored, history
        <3>3. CASE CheckOnce(t) \/ CheckTwice(t)
            BY <3>3 DEF CheckOnce, Check, NoScript, CheckTwice, CheckAgain, TakeWindow, history
        <3>4. CASE Acquire(t) \/ Enter(t) \/ NotFound(t) \/ Wake(t) \/ Leave(t)
            BY <3>4 DEF Acquire, Enter, NotFound, CheckFails, Wake, Leave, history
        <3>. QED BY <1>2, <3>1, <3>2, <3>3, <3>4 DEF Plain
    <2>4. Others(t)
        BY <1>1, <2>1 DEF Others
    <2>5. Limits(t)
        BY <2>1, <2>2 DEF Limits
    <2>. QED BY <2>2, <2>3, <2>4, <2>5 DEF Apart
<1> USE <1>1 DEF Step, BetweenWindows, history, Others, Limits, Giving
<1>3. ASSUME TakeInitLock(t) PROVE Others(t) /\ Limits(t) /\ Apart(t)
    BY <1>3 DEF TakeInitLock, Apart
<1>4. ASSUME NameKeys(t) PROVE Others(t) /\ Limits(t) /\ Apart(t)
    BY <1>4 DEF NameKeys, Apart
<1>5. ASSUME SetInRedis(t, "minute", "set minute", "set tenth")
      PROVE  Others(t) /\ Limits(t) /\ Begins(t)
    BY <1>5 DEF SetInRedis, SetWindow, Begins
<1>6. ASSUME SetInRedis(t, "tenth", "set tenth", "enter")
      PROVE  Others(t) /\ Limits(t) /\ Ends(t)
    BY <1>6 DEF SetInRedis, SetWindow, Ends
<1>7. ASSUME SetInRedis(t, "second", "set second", "enter")
      PROVE  Others(t) /\ Limits(t) /\ Apart(t)
    BY <1>7 DEF SetInRedis, SetWindow, Apart
<1>8. ASSUME NEW r \in Reported, ResetOnce(t, r) PROVE Others(t) /\ Limits(t) /\ Apart(t)
    BY <1>8, RedisAssumption DEF ResetOnce, Lowers, Apart
<1>9. ASSUME ResetWindow(t, "minute", "reset minute", "reset tenth")
      PROVE  Others(t) /\ Limits(t) /\ Begins(t)
    BY <1>9 DEF ResetWindow, SetWindow, Begins
<1>10. ASSUME ResetWindow(t, "tenth", "reset tenth", "out")
       PROVE  Others(t) /\ Limits(t) /\ Ends(t)
    BY <1>10 DEF ResetWindow, SetWindow, Ends
<1>11. ASSUME ResetWindow(t, "second", "reset second", "out")
       PROVE  Others(t) /\ Limits(t) /\ Apart(t)
    BY <1>11 DEF ResetWindow, SetWindow, Apart
<1>12. ASSUME SetCallLost(t) PROVE Others(t) /\ Limits(t) /\ Breaks(t)
    <2>1. PICK w \in Windows : SetLost(t, w, Setter(w)) \/ SetLost(t, w, Resetter(w))
        BY <1>12 DEF SetCallLost
    <2>2. Others(t) /\ Limits(t) /\ t \notin BetweenWindows' /\ torn' # {}
        BY <2>1 DEF SetLost
    <2>3. w = "tenth" => t \in BetweenWindows
        BY <2>1 DEF SetLost, Setter, Resetter
    <2>4. asked' = asked \/ asked' = [asked EXCEPT ![w] = @ \cup {Granted(w, setting[t])}]
        BY <2>1 DEF SetLost, SetWindow
    <2>5. w = "tenth" \/ w = "minute" \/ w = "second"
        BY DEF Windows
    <2>6. ASSUME w = "second" PROVE Breaks(t)
        BY <2>2, <2>4, <2>6 DEF Breaks
    <2>7. ASSUME w = "minute" PROVE Breaks(t)
        BY <2>2, <2>4, <2>7 DEF Breaks
    <2>8. ASSUME w = "tenth" PROVE Breaks(t)
        BY <2>2, <2>3, <2>4, <2>8 DEF Breaks
    <2>. QED BY <2>2, <2>5, <2>6, <2>7, <2>8
<1> HIDE <1>1 DEF Step, BetweenWindows, history, Others, Limits, Giving
<1>13. \/ Plain(t) \/ TakeInitLock(t) \/ NameKeys(t)
       \/ SetInRedis(t, "minute", "set minute", "set tenth")
       \/ SetInRedis(t, "tenth", "set tenth", "enter")
       \/ SetInRedis(t, "second", "set second", "enter")
       \/ \E r \in Reported : ResetOnce(t, r)
       \/ ResetWindow(t, "minute", "reset minute", "reset tenth")
       \/ ResetWindow(t, "tenth", "reset tenth", "out")
       \/ ResetWindow(t, "second", "reset second", "out")
       \/ SetCallLost(t)
    BY ThreadCases
<1>. QED BY <1>2, <1>3, <1>4, <1>5, <1>6, <1>7, <1>8, <1>9, <1>10, <1>11, <1>12, <1>13, Zenon

\* Such a step keeps the minute the stricter of the two,
LEMMA MinuteAskedKept ==
    ASSUME Control, WindowTypes, MinuteAsked, NEW t \in Threads, Others(t),
           Apart(t) \/ Begins(t) \/ Ends(t) \/ Breaks(t)
    PROVE  MinuteAsked'
<1>1. /\ setting \in [Threads -> Int]
      /\ asked \in [Windows -> SUBSET (Nat \ {0})]
      /\ "tenth" \in Windows /\ "minute" \in Windows
    BY DEF Control, LimiterTypes, WindowTypes, Windows
<1>2. \A x \in Threads : x # t => (x \in BetweenWindows' <=> x \in BetweenWindows)
    BY DEF BetweenWindows, Others
<1>3. BetweenWindows \subseteq Threads /\ BetweenWindows' \subseteq Threads
    BY DEF BetweenWindows
<1>4. PICK s \in Int : s = setting[t]
    BY <1>1
<1>5. /\ Granted("minute", s) <= Granted("tenth", s)
      /\ Granted("minute", s) \in Nat /\ Granted("tenth", s) \in Nat
    BY <1>1, GrantedPositive, MinuteStricter
<1> HIDE DEF BetweenWindows
<1>6. ASSUME NEW x \in BetweenWindows' PROVE Granted("minute", setting'[x]) \in asked'["minute"]
    <2>1. CASE x = t
        BY <2>1 DEF Apart, Begins, Ends, Breaks
    <2>2. CASE x # t
        <3>1. x \in BetweenWindows /\ setting'[x] = setting[x]
            BY <1>2, <1>3, <2>2 DEF Others
        <3>2. Granted("minute", setting[x]) \in asked["minute"]
            BY <3>1 DEF MinuteAsked
        <3>3. asked["minute"] \subseteq asked'["minute"]
            BY DEF Apart, Begins, Ends, Breaks
        <3>. QED BY <3>1, <3>2, <3>3, Zenon
    <2>. QED BY <2>1, <2>2
<1>7. ASSUME NEW r \in asked'["tenth"] PROVE \E q \in asked'["minute"] : q <= r
    <2>1. asked["minute"] \subseteq asked'["minute"]
        BY DEF Apart, Begins, Ends, Breaks
    <2>2. CASE r \in asked["tenth"]
        BY <2>1, <2>2 DEF MinuteAsked
    <2>3. CASE r \notin asked["tenth"]
        <3>1. t \in BetweenWindows /\ r = Granted("tenth", s)
            BY <1>4, <2>3 DEF Apart, Begins, Ends, Breaks
        <3>2. Granted("minute", s) \in asked["minute"]
            BY <1>4, <3>1 DEF MinuteAsked
        <3>. QED BY <1>5, <2>1, <3>1, <3>2
    <2>. QED BY <2>2, <2>3
<1>. QED BY <1>6, <1>7 DEF MinuteAsked, Granted

\* and, while no call that sets a window fails and the limits stay above zero, the two in
\* agreement but for what is on its way.
LEMMA FollowsKept ==
    ASSUME Control, TenthFollows, NEW t \in Threads, Others(t), Limits(t),
           Apart(t) \/ Begins(t) \/ Ends(t) \/ Breaks(t)
    PROVE  TenthFollows'
<1>1. \A x \in Threads : x # t => (x \in BetweenWindows' <=> x \in BetweenWindows)
    BY DEF BetweenWindows, Others
<1>2. BetweenWindows \subseteq Threads /\ BetweenWindows' \subseteq Threads /\ Giving' = Giving
    BY DEF BetweenWindows, Giving
<1>3. /\ setting \in [Threads -> Int] /\ limit \in [Processes -> Int]
      /\ process \in [Threads -> Processes] /\ "minute" \in Windows /\ "tenth" \in Windows
    BY DEF Control, LimiterTypes, Windows
<1>4. \A p \in Processes : limit'[p] <= 0 => reset'[p]
    BY DEF TenthFollows, Limits
<1>5. Clean' => Clean
    <2> SUFFICES ASSUME Clean' PROVE Clean
        OBVIOUS
    <2>1. torn = {}
        BY DEF Clean, Limits
    <2>2. ASSUME NEW p \in Processes PROVE limit[p] > 0
        <3>1. limit'[p] > 0
            BY DEF Clean
        <3>2. limit[p] <= 0 => limit'[p] = limit[p]
            BY DEF TenthFollows, Limits
        <3>. QED BY <1>3, <3>1, <3>2
    <2>. QED BY <2>1, <2>2 DEF Clean
<1>6. ASSUME Clean' PROVE \A x \in Threads : pc'[x] \in Giving => setting'[x] > 0
    <2> SUFFICES ASSUME NEW x \in Threads, pc'[x] \in Giving PROVE setting'[x] > 0
        OBVIOUS
    <2>1. CASE x # t
        BY <1>5, <1>6, <2>1 DEF TenthFollows, Others
    <2>2. CASE x = t /\ pc[t] \in Giving /\ setting'[t] = setting[t]
        BY <1>5, <1>6, <2>2 DEF TenthFollows
    <2>3. CASE x = t /\ setting'[t] = limit'[process[t]]
        BY <1>3, <1>6, <2>3 DEF Clean
    <2>. QED BY <2>1, <2>2, <2>3 DEF Limits
<1>7. ASSUME Clean'
      PROVE  asked'["minute"] = asked'["tenth"] \cup {setting'[x] : x \in BetweenWindows'}
    <2>1. asked["minute"] = asked["tenth"] \cup {setting[x] : x \in BetweenWindows}
        BY <1>5, <1>7 DEF TenthFollows
    <2>2. ~ Breaks(t)
        BY <1>7 DEF Clean, Breaks
    <2>3. Begins(t) => pc'[t] \in Giving
        BY DEF Begins, BetweenWindows, Giving
    <2>4. Ends(t) => pc[t] \in Giving
        BY DEF Ends, BetweenWindows, Giving
    <2>5. Begins(t) \/ Ends(t) => setting[t] > 0
        <3>1. CASE Begins(t)
            BY <1>6, <1>7, <2>3, <3>1 DEF Begins
        <3>2. CASE Ends(t)
            BY <1>5, <1>7, <2>4, <3>2 DEF TenthFollows
        <3>. QED BY <3>1, <3>2
    <2>6. ASSUME Begins(t) \/ Ends(t)
          PROVE  /\ Granted("minute", setting[t]) = setting[t]
                 /\ Granted("tenth", setting[t]) = setting[t]
        BY <2>5, <2>6 DEF Granted
    <2> HIDE DEF BetweenWindows
    <2>7. \A r : r \in asked["minute"] <=>
                    r \in asked["tenth"] \/ \E x \in BetweenWindows : setting[x] = r
        BY <2>1
    <2>8. \A r : r \in asked'["minute"] <=>
                    r \in asked'["tenth"] \/ \E x \in BetweenWindows' : setting'[x] = r
        <3>1. CASE Apart(t)
            BY <1>1, <1>2, <2>7, <3>1 DEF Apart, Others
        <3>2. CASE Begins(t)
            BY <1>1, <1>2, <2>6, <2>7, <3>2 DEF Begins, Others
        <3>3. CASE Ends(t)
            BY <1>1, <1>2, <2>6, <2>7, <3>3 DEF Ends, Others
        <3>. QED BY <2>2, <3>1, <3>2, <3>3
    <2>. QED BY <2>8
<1>. QED BY <1>2, <1>4, <1>6, <1>7 DEF TenthFollows, Clean

\* Each step keeps both.
LEMMA NextTwoWindows ==
    Control /\ WindowTypes /\ MinuteAsked /\ TenthFollows /\ [Next]_vars
        => MinuteAsked' /\ TenthFollows'
<1> SUFFICES ASSUME Control, WindowTypes, MinuteAsked, TenthFollows, [Next]_vars
             PROVE  MinuteAsked' /\ TenthFollows'
    OBVIOUS
<1>1. ASSUME NEW t \in Threads, Thread(t) PROVE MinuteAsked' /\ TenthFollows'
    <2>1. /\ Others(t) /\ Limits(t)
          /\ Apart(t) \/ Begins(t) \/ Ends(t) \/ Breaks(t)
        BY <1>1, ThreadGives
    <2>. QED BY <2>1, MinuteAskedKept, FollowsKept
<1>2. ASSUME UNCHANGED <<limit, reset, pc, setting, asked, torn>>
      PROVE  MinuteAsked' /\ TenthFollows'
    <2>1. MinuteAsked'
        BY <1>2 DEF MinuteAsked, BetweenWindows, Granted
    <2>2. TenthFollows'
        BY <1>2 DEF TenthFollows, Clean, BetweenWindows, Giving
    <2>. QED BY <2>1, <2>2
<1>3. CASE Flush \/ Tick \/ UNCHANGED vars
    BY <1>2, <1>3 DEF Flush, Tick, thread, history, limiter, vars
<1>. QED BY <1>1, <1>2, <1>3 DEF Next

\* Whatever limits the processes bring, in whatever order their threads set the two windows
\* and whichever of their calls fail: the lowest asked for is in force in each, and the
\* minute is never the laxer of the two; they agree as soon as nobody is between them,
\* unless a call failed between them or a limit that is not above zero was reported.
THEOREM LowestInForce == Spec => []StrictestInForce
<1> DEFINE Inv == TypeInv /\ MinuteAsked /\ TenthFollows
<1>1. Init => Inv
    <2>1. Init => MinuteAsked /\ TenthFollows
        <3> SUFFICES ASSUME Init PROVE MinuteAsked /\ TenthFollows
            OBVIOUS
        <3>1. BetweenWindows = {}
            BY DEF Init, BetweenWindows
        <3>2. asked["minute"] = {} /\ asked["tenth"] = {}
            BY DEF Init, Windows
        <3>3. \A t \in Threads : pc[t] \notin Giving
            BY DEF Init, Giving
        <3>4. \A p \in Processes : limit[p] > 0
            BY RedisAssumption DEF Init
        <3>. QED BY <3>1, <3>2, <3>3, <3>4, InitControl
                 DEF MinuteAsked, TenthFollows, Control, LimiterTypes
    <2>. QED BY <2>1, InitTypeInv
<1>2. Inv /\ [Next]_vars => Inv'
    <2>1. TypeInv => Control /\ WindowTypes
        BY DEF TypeInv, WindowInv
    <2>. QED BY <2>1, NextTypeInv, NextTwoWindows
<1>3. Inv => StrictestInForce
    <2> SUFFICES ASSUME TypeInv, MinuteAsked, TenthFollows PROVE StrictestInForce
        OBVIOUS
    <2>1. \A w \in Windows :
             /\ asked[w] # {} => window[w].rate \in asked[w]
             /\ window[w].rate = 0 => asked[w] = {}
             /\ asked[w] = {} => window[w].rate = 0
             /\ \A r \in asked[w] : window[w].rate <= r
        BY DEF TypeInv, WindowInv, InForce
    <2>2. /\ window["minute"].rate \in Nat /\ window["tenth"].rate \in Nat
          /\ "minute" \in Windows /\ "tenth" \in Windows
          /\ asked["minute"] \subseteq Nat /\ asked["tenth"] \subseteq Nat
        BY DEF TypeInv, WindowInv, WindowTypes, Windows
    <2>3. ASSUME window["tenth"].rate # 0
          PROVE  window["minute"].rate \in 1 .. window["tenth"].rate
        <3>1. window["tenth"].rate \in asked["tenth"]
            BY <2>1, <2>2, <2>3
        <3>2. PICK q \in asked["minute"] : q <= window["tenth"].rate
            BY <3>1 DEF MinuteAsked
        <3>3. window["minute"].rate <= q /\ window["minute"].rate # 0
            BY <2>1, <2>2, <3>2
        <3>. QED BY <2>2, <3>2, <3>3
    <2>4. ASSUME \A t \in Threads : pc[t] \notin {"set tenth", "reset tenth"}, Clean
          PROVE  window["minute"].rate = window["tenth"].rate
        <3>1. asked["minute"] = asked["tenth"]
            BY <2>4 DEF BetweenWindows, TenthFollows
        <3>2. CASE asked["minute"] = {}
            <4>1. window["minute"].rate = 0
                BY <2>1, <2>2, <3>2
            <4>2. window["tenth"].rate = 0
                BY <2>1, <2>2, <3>1, <3>2
            <4>. QED BY <4>1, <4>2
        <3>3. CASE asked["minute"] # {}
            <4>1. /\ window["minute"].rate \in asked["tenth"]
                  /\ window["tenth"].rate \in asked["minute"]
                BY <2>1, <2>2, <3>1, <3>3
            <4>2. window["tenth"].rate <= window["minute"].rate
                  /\ window["minute"].rate <= window["tenth"].rate
                BY <2>1, <2>2, <4>1
            <4>. QED BY <2>2, <4>2, SameRate
        <3>. QED BY <3>2, <3>3
    <2>. QED BY <2>1, <2>3, <2>4 DEF StrictestInForce, Clean
<1>. QED BY <1>1, <1>2, <1>3, PTL DEF Spec

=============================================================================
