------------------------- MODULE SyncLimiterProofs -------------------------
(***************************************************************************)
(* Theorems about SyncLimiter, for every set of callers, every choice of   *)
(* limits and amounts and every value of the bounds.                       *)
(***************************************************************************)
EXTENDS SyncLimiter, TLAPS

\* The type invariant is not inductive alone: the worker must hold a task
\* whenever it works on one, a caller that passed the check must know its
\* amount, and the deficit the sleep is computed from must be positive.
WorkerHoldsTask == InWorker \/ worker = "notify" => task \in Tasks

CheckedWants == \A c \in Callers : pc[c] = "checked" => want[c] \in Amounts

DeficitPositive == worker = "compute" => tokens < task.amount

TypeInv ==
    /\ TypeOK
    /\ WorkerHoldsTask
    /\ CheckedWants
    /\ DeficitPositive

-----------------------------------------------------------------------------

\* Rounding up keeps a limit a pair of positive naturals, and only raises its
\* capacity (_RateLimiter.__init__ and reset).
LEMMA RoundedType ==
    ASSUME NEW l \in RoundedLimits
    PROVE  /\ l.cap \in Nat \ {0}
           /\ l.rate \in Nat \ {0}
           /\ l = [cap |-> l.cap, rate |-> l.rate]
<1>1. PICK r \in Limits : l = Rounded(r)
    BY DEF RoundedLimits
<1>2. r \in [cap : Nat \ {0}, rate : Nat \ {0}]
    BY <1>1, LimiterAssumption
<1>3. Query \in Nat \ {0}
    BY LimiterAssumption
<1>. QED BY <1>1, <1>2, <1>3 DEF Rounded

\* The product of naturals is a natural.
LEMMA ProductNat ==
    ASSUME NEW a \in Nat, NEW b \in Nat
    PROVE  a * b \in Nat
OBVIOUS

\* The product of integers is an integer.
LEMMA ProductInt ==
    ASSUME NEW a \in Int, NEW b \in Int
    PROVE  a * b \in Int
OBVIOUS

\* What _leak returns is a natural within the capacity.
LEMMA LeakedType ==
    ASSUME NEW l \in RoundedLimits, NEW t \in Nat, NEW e \in Nat
    PROVE  /\ Leaked(l, t, e) \in 0 .. l.cap
           /\ Leaked(l, t, e) <= t + e * l.rate
<1>1. l.cap \in Nat /\ l.rate \in Nat
    BY RoundedType
<1>2. e * l.rate \in Nat
    BY <1>1, ProductNat
<1>. QED BY <1>1, <1>2 DEF Leaked, Lesser

\* The sleep of the worker lasts a natural number of ticks.
LEMMA QuotientNat ==
    ASSUME NEW a \in Nat, NEW b \in Nat \ {0}
    PROVE  a \div b \in Nat
OBVIOUS

-----------------------------------------------------------------------------

\* The initial states have their types.
LEMMA InitTypeInv == Init => TypeInv
<1> SUFFICES ASSUME Init PROVE TypeInv
    OBVIOUS
<1>1. limit.cap \in Nat /\ 0 \in 0 .. limit.cap
    BY RoundedType DEF Init
<1>2. queue \in Seq(Tasks) /\ log \in Seq(Grants)
    BY DEF Init
<1>3. TypeOK
    BY <1>1, <1>2 DEF Init, TypeOK, WorkerStates, CallerStates
<1>. QED BY <1>3 DEF Init, TypeInv, WorkerHoldsTask, CheckedWants,
                     DeficitPositive, InWorker

\* Every step keeps the types, one case per action.
LEMMA NextTypeInv == TypeInv /\ [Next]_vars => TypeInv'
<1> SUFFICES ASSUME TypeInv, [Next]_vars PROVE TypeInv'
    OBVIOUS
<1> USE DEF TypeInv, TypeOK, WorkerHoldsTask, CheckedWants, DeficitPositive,
            InWorker, bucket, thread, caller, ghosts
<1>1. limit.cap \in Nat \ {0} /\ limit.rate \in Nat \ {0}
    BY RoundedType
<1>2. tokens \in Nat /\ now - lastLeak \in Nat
    BY <1>1
<1>3. Leaked(limit, tokens, now - lastLeak) \in 0 .. limit.cap
    BY <1>2, LeakedType
<1>4. ASSUME NEW c \in Callers, NEW a \in Amounts, CheckAmount(c, a)
      PROVE  TypeInv'
    BY <1>4 DEF CheckAmount, CallerStates
<1>5. ASSUME NEW c \in Callers, PutTask(c)
      PROVE  TypeInv'
    <2>1. [caller |-> c, amount |-> want[c]] \in Tasks
        BY <1>5 DEF PutTask, Tasks
    <2>2. queue' \in Seq(Tasks)
        BY <1>5, <2>1 DEF PutTask
    <2>. QED BY <1>5, <2>2 DEF PutTask, CallerStates
<1>6. ASSUME NEW c \in Callers, Wait(c)
      PROVE  TypeInv'
    BY <1>6 DEF Wait, CallerStates
<1>7. ASSUME NEW c \in Callers, Return(c)
      PROVE  TypeInv'
    BY <1>7 DEF Return, CallerStates
<1>8. CASE WorkerLoop
    BY <1>8 DEF WorkerLoop, WorkerStates
<1>9. CASE WorkerGet
    <2>1. task' \in Tasks /\ queue' \in Seq(Tasks)
        BY <1>9 DEF WorkerGet
    <2>. QED BY <1>9, <2>1 DEF WorkerGet, WorkerStates
<1>10. CASE WorkerGetTimeout
    BY <1>10 DEF WorkerGetTimeout, WorkerStates
<1>11. CASE WorkerPay
    <2>1. task \in Tasks /\ task.amount \in Nat \ {0} /\ task.caller \in Callers
        BY <1>11, LimiterAssumption DEF WorkerPay, Tasks
    <2>2. Leaked(limit, tokens, now - lastLeak) >= task.amount
        BY <1>11 DEF WorkerPay
    <2>3. tokens' \in 0 .. limit.cap /\ lastLeak' \in 0 .. now
      <3> HIDE DEF TypeInv, TypeOK
      <3>1. tokens' = Leaked(limit, tokens, now - lastLeak) - task.amount
        BY <1>11 DEF WorkerPay
      <3>2. lastLeak' = now /\ now \in Nat
        BY <1>11 DEF WorkerPay, TypeInv, TypeOK
      <3>. QED BY <1>1, <1>3, <2>1, <2>2, <3>1, <3>2
    <2>4. [at |-> now, before |-> spent, after |-> spent + task.amount] \in Grants
        BY <2>1 DEF Grants
    <2>5. log' \in Seq(Grants) /\ spent' \in Nat /\ granted' \subseteq Callers
        BY <1>11, <2>1, <2>4 DEF WorkerPay
    <2>. QED BY <1>11, <2>1, <2>3, <2>5 DEF WorkerPay, WorkerStates
<1>12. CASE WorkerShort
    <2>1. tokens' \in 0 .. limit.cap /\ lastLeak' \in 0 .. now
        BY <1>12, <1>3 DEF WorkerShort
    <2>. QED BY <1>12, <2>1 DEF WorkerShort, WorkerStates
<1>13. CASE WorkerCompute
    <2>1. task.amount \in Nat
        BY <1>13, LimiterAssumption DEF WorkerCompute, Tasks
    <2>2. task.amount - tokens + limit.rate - 1 \in Nat
      <3>1. tokens < task.amount
        BY <1>13 DEF WorkerCompute
      <3>. QED BY <1>1, <1>2, <2>1, <3>1
    <2>3. wakeAt' \in Nat
        BY <1>1, <1>13, <2>2, QuotientNat DEF WorkerCompute
    <2>. QED BY <1>13, <2>3 DEF WorkerCompute, WorkerStates
<1>14. CASE WorkerWake
    BY <1>14 DEF WorkerWake, WorkerStates
<1>15. CASE WorkerNotify
    BY <1>15 DEF WorkerNotify, WorkerStates, CallerStates
<1>16. ASSUME NEW l \in RoundedLimits, Reset(l)
       PROVE  TypeInv'
    <2>1. l.cap \in Nat
        BY RoundedType
    <2>2. tokens' \in 0 .. l.cap /\ tokens' <= tokens
        BY <1>1, <1>16, <2>1 DEF Reset, Lesser
    <2>3. worker = "compute" => task.amount \in Nat
        BY LimiterAssumption DEF Tasks
    <2>4. tokens' \in 0 .. limit'.cap /\ log' \in Seq(Grants)
        BY <1>16, <2>2 DEF Reset
    <2>5. DeficitPositive'
        BY <1>1, <1>16, <2>2, <2>3 DEF Reset
    <2>. QED BY <1>16, <2>4, <2>5 DEF Reset
<1>17. CASE Stop
    BY <1>17 DEF Stop
<1>18. CASE Tick
    BY <1>18 DEF Tick
<1>19. CASE UNCHANGED vars
    BY <1>19 DEF vars
<1>. QED
    BY <1>4, <1>5, <1>6, <1>7, <1>8, <1>9, <1>10, <1>11, <1>12, <1>13, <1>14,
       <1>15, <1>16, <1>17, <1>18, <1>19 DEF Next, CallerStep, Worker

\* Type correctness: the bucket stays between empty and the capacity in force
\* and the refill never runs ahead of the clock, whatever the callers do.
THEOREM TypeCorrect == Spec => []TypeOK
<1>1. TypeInv => TypeOK
    BY DEF TypeInv
<1>. QED BY <1>1, InitTypeInv, NextTypeInv, PTL DEF Spec

-----------------------------------------------------------------------------

\* The strengthening of RateBound.  For every grant i still on record, what was
\* spent from it on together with what is left in the bucket is within one
\* capacity and the refill since: the refill and the payments keep this, where
\* RateBound alone says nothing of the tokens that later grants will take.
Account ==
    \A i \in 1 .. Len(log) :
        /\ log[i].at <= lastLeak
        /\ (spent + tokens) - log[i].before
               <= limit.cap + limit.rate * (lastLeak - log[i].at)

RateInv == TypeInv /\ Account /\ RateBound

\* Refilling in two goes is refilling once for the sum of the times.
LEMMA Distribute ==
    ASSUME NEW r \in Int, NEW a \in Int, NEW b \in Int, NEW d \in Int
    PROVE  r * (b - d) = r * (a - d) + (b - a) * r
OBVIOUS

\* What each entry of the account becomes when the bucket is refilled.
LEMMA RefillAccount ==
    ASSUME TypeInv, Account, NEW i \in 1 .. Len(log)
    PROVE  /\ log[i] \in Grants
           /\ log[i].at <= now
           /\ (spent + Leaked(limit, tokens, now - lastLeak)) - log[i].before
                  <= limit.cap + limit.rate * (now - log[i].at)
<1>1. limit \in RoundedLimits /\ limit.cap \in Nat /\ limit.rate \in Nat
    BY RoundedType DEF TypeInv, TypeOK
<1>2. /\ tokens \in Nat /\ spent \in Nat /\ now \in Nat /\ lastLeak \in Nat
      /\ now - lastLeak \in Nat
    BY <1>1 DEF TypeInv, TypeOK
<1>3. log[i] \in Grants
    BY DEF TypeInv, TypeOK
<1>4. log[i].at \in Nat /\ log[i].before \in Nat
    BY <1>3 DEF Grants
<1> DEFINE e == now - lastLeak
           f == Leaked(limit, tokens, e)
           x == limit.rate * (lastLeak - log[i].at)
           y == e * limit.rate
           z == limit.rate * (now - log[i].at)
<1>5. log[i].at <= lastLeak /\ (spent + tokens) - log[i].before <= limit.cap + x
    BY DEF Account
<1>6. f \in Nat /\ f <= tokens + y
  <2>1. e \in Nat
    BY <1>2
  <2> HIDE DEF e
  <2>2. f \in 0 .. limit.cap /\ f <= tokens + y
    BY <1>1, <1>2, <2>1, LeakedType
  <2>. QED BY <1>1, <2>2
<1>7. z = x + y
    BY <1>1, <1>2, <1>4, Distribute
<1>8. x \in Int /\ y \in Int /\ z \in Int
    BY SMTT(30), <1>1, <1>2, <1>4
<1>9. log[i].at <= now
    BY <1>2, <1>4, <1>5
<1> HIDE DEF f, x, y, z
<1>10. (spent + f) - log[i].before <= limit.cap + z
    BY SMTT(30), <1>1, <1>2, <1>4, <1>5, <1>6, <1>7, <1>8
<1>. QED BY <1>3, <1>9, <1>10 DEF f, z

\* Paying for a task adds one grant to the account and to the bound.
LEMMA PayKeepsRate ==
    ASSUME RateInv, WorkerPay
    PROVE  Account' /\ RateBound'
<1>1. limit.cap \in Nat /\ limit.rate \in Nat /\ spent \in Nat /\ now \in Nat
    BY RoundedType DEF RateInv, TypeInv, TypeOK
<1>2. task.amount \in Nat
    BY LimiterAssumption DEF RateInv, TypeInv, WorkerHoldsTask, InWorker,
                             WorkerPay, Tasks
<1> DEFINE refilled == Leaked(limit, tokens, now - lastLeak)
           grant == [at |-> now, before |-> spent, after |-> spent']
           n == Len(log)
<1>3. refilled \in 0 .. limit.cap /\ refilled >= task.amount
  <2>1. tokens \in Nat /\ now - lastLeak \in Nat /\ limit \in RoundedLimits
    BY <1>1 DEF RateInv, TypeInv, TypeOK
  <2>. QED BY <2>1, LeakedType DEF WorkerPay
<1>4. /\ log \in Seq(Grants) /\ n \in Nat
      /\ Len(log') = n + 1
      /\ log'[n + 1] = grant
      /\ \A i \in 1 .. n : log'[i] = log[i]
  <2>1. log' = Append(log, grant) /\ log \in Seq(Grants)
    BY DEF WorkerPay, RateInv, TypeInv, TypeOK
  <2>. QED BY <2>1
<1>5. limit' = limit /\ lastLeak' = now
    BY DEF WorkerPay
<1>6. spent' = spent + task.amount /\ tokens' = refilled - task.amount
    BY DEF WorkerPay
<1> HIDE DEF refilled
<1>7. refilled \in Nat /\ spent' \in Nat /\ tokens' \in Nat
    BY <1>1, <1>2, <1>3, <1>6
<1>8. spent' + tokens' = spent + refilled
    BY <1>1, <1>2, <1>6, <1>7
<1>9. (spent' + tokens') - spent <= limit.cap
  <2>1. (spent + refilled) - spent <= limit.cap
    BY <1>1, <1>3, <1>7
  <2>. QED BY <1>8, <2>1
<1>10. spent' + tokens' = spent + refilled /\ spent' \in Nat /\ tokens' \in Nat
    BY <1>7, <1>8
\* The account of an entry, old or new, after the payment.
<1>11. ASSUME NEW i \in 1 .. n + 1
      PROVE  /\ log'[i] \in Grants
             /\ log'[i].at <= now
             /\ (spent' + tokens') - log'[i].before
                    <= limit.cap + limit.rate * (now - log'[i].at)
  <2>1. CASE i \in 1 .. n
    <3>1. log'[i] = log[i]
        BY <1>4, <2>1
    <3>2. /\ log[i] \in Grants
          /\ log[i].at <= now
          /\ (spent + refilled) - log[i].before
                 <= limit.cap + limit.rate * (now - log[i].at)
        BY <2>1, RefillAccount DEF RateInv, refilled
    <3>3. (spent' + tokens') - log[i].before
              <= limit.cap + limit.rate * (now - log[i].at)
        BY <1>8, <3>2
    <3>. QED BY <3>1, <3>2, <3>3
  <2>2. CASE i = n + 1
    <3>1. log'[i] = grant
        BY <1>4, <2>2
    <3>2. grant \in Grants
        BY <1>1, <1>10 DEF Grants
    <3>3. log'[i].at = now /\ log'[i].before = spent
        BY <3>1
    <3>4. limit.rate * (now - now) = 0
        BY <1>1
    <3>. QED BY <1>1, <1>9, <3>1, <3>2, <3>3, <3>4
  <2>. QED BY <1>4, <2>1, <2>2
<1>12. Account'
    BY <1>4, <1>5, <1>11 DEF Account
<1>13. RateBound'
  <2> SUFFICES ASSUME NEW i \in 1 .. n + 1, NEW j \in 1 .. n + 1, i <= j
               PROVE  log'[j].after - log'[i].before
                          <= limit.cap + limit.rate * (log'[j].at - log'[i].at)
    BY <1>4, <1>5 DEF RateBound
  <2>1. CASE j \in 1 .. n
    <3>1. i \in 1 .. n
        BY <1>4, <2>1
    <3>2. log'[i] = log[i] /\ log'[j] = log[j]
        BY <1>4, <2>1, <3>1
    <3>3. RateBound
        BY DEF RateInv
    <3>. QED BY <2>1, <3>1, <3>2, <3>3 DEF RateBound
  <2>2. CASE j = n + 1
    <3> DEFINE b == limit.cap + limit.rate * (now - log'[i].at)
    <3>1. log'[j].at = now /\ log'[j].after = spent'
        BY <1>4, <2>2
    <3>2. log'[i].before \in Nat /\ log'[i].at \in Nat
        BY <1>11 DEF Grants
    <3>3. b \in Int /\ (spent' + tokens') - log'[i].before <= b
      <4>1. now - log'[i].at \in Int
        BY <1>1, <3>2
      <4>2. limit.rate * (now - log'[i].at) \in Int
        BY <1>1, <4>1, ProductInt
      <4>3. b \in Int
        BY <1>1, <4>2
      <4>. QED BY <1>11, <4>3
    <3> HIDE DEF b
    <3>4. (spent + task.amount) - log'[i].before <= b
      <4>1. (spent + refilled) - log'[i].before <= b
        BY <1>8, <3>3
      <4> DEFINE p == log'[i].before
      <4>2. p \in Nat
        BY <3>2
      <4> HIDE DEF p
      <4>3. (spent + refilled) - p <= b
        BY <4>1 DEF p
      <4>4. (spent + task.amount) - p <= b
        BY SMTT(30), <1>1, <1>2, <1>3, <1>7, <3>3, <4>2, <4>3
      <4>. QED BY <4>4 DEF p
    <3>. QED BY <1>6, <3>1, <3>4 DEF b
  <2>. QED BY <1>4, <2>1, <2>2
<1>. QED BY <1>12, <1>13

\* Finding the bucket short refills it, and grants nothing.
LEMMA ShortKeepsRate ==
    ASSUME RateInv, WorkerShort
    PROVE  Account' /\ RateBound'
<1>1. /\ log' = log /\ limit' = limit /\ spent' = spent /\ lastLeak' = now
      /\ tokens' = Leaked(limit, tokens, now - lastLeak)
    BY DEF WorkerShort, ghosts
<1>2. \A i \in 1 .. Len(log) :
          /\ log[i].at <= now
          /\ (spent + Leaked(limit, tokens, now - lastLeak)) - log[i].before
                 <= limit.cap + limit.rate * (now - log[i].at)
    BY RefillAccount DEF RateInv
<1>3. Account'
    BY <1>1, <1>2 DEF Account
<1>4. RateBound'
    BY <1>1 DEF RateInv, RateBound
<1>. QED BY <1>3, <1>4

\* Every other step leaves the account alone or, a reset, starts a new one.
LEMMA NextRateInv == RateInv /\ [Next]_vars => RateInv'
<1> SUFFICES ASSUME RateInv, [Next]_vars PROVE Account' /\ RateBound'
    BY NextTypeInv DEF RateInv
<1>1. CASE WorkerPay
    BY <1>1, PayKeepsRate
<1>2. CASE WorkerShort
    BY <1>2, ShortKeepsRate
<1>3. ASSUME NEW l \in RoundedLimits, Reset(l)
      PROVE  Account' /\ RateBound'
    BY <1>3 DEF Reset, Account, RateBound
<1>4. ASSUME UNCHANGED <<limit, tokens, lastLeak, spent, log>>
      PROVE  Account' /\ RateBound'
    BY <1>4 DEF RateInv, Account, RateBound
<1>5. WorkerPay \/ WorkerShort \/ (\E l \in RoundedLimits : Reset(l))
      \/ UNCHANGED <<limit, tokens, lastLeak, spent, log>>
    BY DEF Next, CallerStep, Worker, CheckAmount, PutTask, Wait, Return,
           WorkerLoop, WorkerGet, WorkerGetTimeout, WorkerCompute, WorkerWake,
           WorkerNotify, Stop, Tick, vars, bucket, thread, caller, ghosts
<1>. QED BY <1>1, <1>2, <1>3, <1>4, <1>5

\* The rate is kept between any two grants under the same limit, for every
\* number of threads, every capacity and every rate.
THEOREM RateKept == Spec => []RateBound
<1>1. Init => RateInv
    BY InitTypeInv DEF RateInv, Init, Account, RateBound
<1>2. RateInv => RateBound
    BY DEF RateInv
<1>. QED BY <1>1, <1>2, NextRateInv, PTL DEF Spec

-----------------------------------------------------------------------------

\* Who owns a task.  A task on the queue or with the worker belongs to a caller
\* that has put it and has not come back, has not been paid for, and has no other
\* task; only a caller whose task was paid for is notified; and stop finds every
\* caller outside acquire.
Inside(c) == pc[c] \in {"queued", "waiting"}

QueuedOnce ==
    \A i \in 1 .. Len(queue) :
        /\ Inside(queue[i].caller)
        /\ queue[i].caller \notin granted
        /\ \A j \in 1 .. Len(queue) : queue[j].caller = queue[i].caller => j = i

HeldOnce ==
    InWorker =>
        /\ Inside(task.caller)
        /\ task.caller \notin granted
        /\ \A i \in 1 .. Len(queue) : queue[i].caller # task.caller

NotifiedPaid ==
    worker = "notify" => task.caller \in granted /\ Inside(task.caller)

OutsideUnpaid ==
    /\ \A c \in Callers : pc[c] \in {"idle", "checked"} => c \notin granted
    /\ \A c \in Callers : pc[c] = "notified" => c \in granted

StoppedIdle == ~ running => \A c \in Callers : pc[c] = "idle"

OwnInv ==
    /\ TypeInv
    /\ QueuedOnce
    /\ HeldOnce
    /\ NotifiedPaid
    /\ OutsideUnpaid
    /\ StoppedIdle

\* What is on the queue are tasks of callers.
LEMMA QueueTasks ==
    ASSUME TypeInv
    PROVE  /\ Len(queue) \in Nat
           /\ \A i \in 1 .. Len(queue) :
                  queue[i] \in Tasks /\ queue[i].caller \in Callers
<1>1. queue \in Seq(Tasks)
    BY DEF TypeInv, TypeOK
<1>2. Len(queue) \in Nat /\ \A i \in 1 .. Len(queue) : queue[i] \in Tasks
    BY <1>1
<1>. QED BY <1>2 DEF Tasks

\* A new task is put by a caller that has none.
LEMMA PutKeepsOwners ==
    ASSUME OwnInv, NEW c \in Callers, PutTask(c)
    PROVE  QueuedOnce' /\ HeldOnce' /\ NotifiedPaid' /\ OutsideUnpaid' /\ StoppedIdle'
<1> DEFINE n == Len(queue)
           r == [caller |-> c, amount |-> want[c]]
<1>1. pc \in [Callers -> CallerStates] /\ queue \in Seq(Tasks) /\ r \in Tasks
    BY DEF OwnInv, TypeInv, TypeOK, CheckedWants, PutTask, Tasks
<1>2. n \in Nat /\ \A i \in 1 .. n : queue[i].caller \in Callers
    BY QueueTasks DEF OwnInv
<1>3. /\ Len(queue') = n + 1
      /\ queue'[n + 1] = r
      /\ \A i \in 1 .. n : queue'[i] = queue[i]
  <2>1. queue' = Append(queue, r)
    BY DEF PutTask
  <2>. QED BY <1>1, <2>1
<1>4. /\ pc' = [pc EXCEPT ![c] = "queued"] /\ pc[c] = "checked"
      /\ granted' = granted /\ worker' = worker /\ task' = task
      /\ running' = running /\ c \notin granted
    BY DEF PutTask, thread, ghosts, OwnInv, OutsideUnpaid
<1>5. \A d \in Callers : pc'[d] = IF d = c THEN "queued" ELSE pc[d]
    BY <1>1, <1>4
<1>6. \A i \in 1 .. n : queue[i].caller # c
    BY <1>4 DEF OwnInv, QueuedOnce, Inside
<1>7. QueuedOnce'
  <2> SUFFICES ASSUME NEW i \in 1 .. n + 1
               PROVE  /\ pc'[queue'[i].caller] \in {"queued", "waiting"}
                      /\ queue'[i].caller \notin granted
                      /\ \A j \in 1 .. n + 1 :
                             queue'[j].caller = queue'[i].caller => j = i
    BY <1>3, <1>4 DEF QueuedOnce, Inside
  <2>1. CASE i = n + 1
    BY <1>2, <1>3, <1>4, <1>5, <1>6, <2>1 DEF Inside
  <2>2. CASE i \in 1 .. n
    BY <1>2, <1>3, <1>4, <1>5, <1>6, <2>2 DEF Inside, OwnInv, QueuedOnce
  <2>. QED BY <1>2, <2>1, <2>2
<1>8. HeldOnce'
  <2> SUFFICES ASSUME InWorker
               PROVE  /\ pc'[task.caller] \in {"queued", "waiting"}
                      /\ task.caller \notin granted
                      /\ \A i \in 1 .. n + 1 : queue'[i].caller # task.caller
    BY <1>3, <1>4 DEF HeldOnce, Inside, InWorker
  <2>1. task.caller \in Callers
    BY DEF OwnInv, TypeInv, WorkerHoldsTask, Tasks
  <2>2. Inside(task.caller) /\ task.caller # c
    BY <1>4 DEF OwnInv, HeldOnce, Inside
  <2>. QED BY <1>2, <1>3, <1>4, <1>5, <2>1, <2>2 DEF OwnInv, HeldOnce, Inside
<1>9. NotifiedPaid' /\ OutsideUnpaid' /\ StoppedIdle'
  <2>1. worker = "notify" => task.caller \in Callers
    BY DEF OwnInv, TypeInv, WorkerHoldsTask, Tasks
  <2>. QED BY <1>4, <1>5, <2>1
           DEF OwnInv, NotifiedPaid, OutsideUnpaid, StoppedIdle, Inside
<1>. QED BY <1>7, <1>8, <1>9

\* The worker takes the first task off the queue.
LEMMA GetKeepsOwners ==
    ASSUME OwnInv, WorkerGet
    PROVE  QueuedOnce' /\ HeldOnce' /\ NotifiedPaid' /\ OutsideUnpaid' /\ StoppedIdle'
<1> DEFINE n == Len(queue)
<1>1. queue \in Seq(Tasks) /\ queue # <<>> /\ task' = Head(queue)
      /\ queue' = Tail(queue) /\ worker' = "try" /\ pc' = pc
      /\ granted' = granted /\ running' = running
    BY DEF OwnInv, TypeInv, TypeOK, WorkerGet, caller, ghosts
<1>2. /\ n \in Nat \ {0} /\ Len(queue') = n - 1
      /\ task' = queue[1]
      /\ \A i \in 1 .. n - 1 : queue'[i] = queue[i + 1]
    BY <1>1
<1>3. \A i \in 1 .. n :
          /\ Inside(queue[i].caller)
          /\ queue[i].caller \notin granted
          /\ \A j \in 1 .. n : queue[j].caller = queue[i].caller => j = i
    BY DEF OwnInv, QueuedOnce
<1>4. QueuedOnce'
  <2> SUFFICES ASSUME NEW i \in 1 .. n - 1
               PROVE  /\ Inside(queue[i + 1].caller)
                      /\ queue[i + 1].caller \notin granted
                      /\ \A j \in 1 .. n - 1 :
                             queue[j + 1].caller = queue[i + 1].caller => j = i
    BY <1>1, <1>2 DEF QueuedOnce, Inside
  <2>1. i + 1 \in 1 .. n /\ \A j \in 1 .. n - 1 : j + 1 \in 1 .. n
    BY <1>2
  <2>. QED BY <1>2, <1>3, <2>1
<1>5. HeldOnce'
  <2>1. 1 \in 1 .. n
    BY <1>2
  <2>2. \A i \in 1 .. n - 1 : queue[i + 1].caller # queue[1].caller
    BY <1>2, <1>3
  <2>. QED BY <1>1, <1>2, <1>3, <2>1, <2>2 DEF HeldOnce, Inside
<1>6. NotifiedPaid' /\ OutsideUnpaid' /\ StoppedIdle'
    BY <1>1 DEF OwnInv, NotifiedPaid, OutsideUnpaid, StoppedIdle
<1>. QED BY <1>4, <1>5, <1>6

\* Every step keeps the ownership of tasks.
LEMMA NextOwnInv == OwnInv /\ [Next]_vars => OwnInv'
<1> SUFFICES ASSUME OwnInv, [Next]_vars
             PROVE  /\ QueuedOnce' /\ HeldOnce' /\ NotifiedPaid'
                    /\ OutsideUnpaid' /\ StoppedIdle'
    BY NextTypeInv DEF OwnInv
<1> DEFINE Kept == /\ QueuedOnce' /\ HeldOnce' /\ NotifiedPaid'
                   /\ OutsideUnpaid' /\ StoppedIdle'
<1>1. pc \in [Callers -> CallerStates]
    BY DEF OwnInv, TypeInv, TypeOK
<1>2. \A i \in 1 .. Len(queue) : queue[i].caller \in Callers
    BY QueueTasks DEF OwnInv
<1>3. InWorker \/ worker = "notify" => task.caller \in Callers
    BY DEF OwnInv, TypeInv, WorkerHoldsTask, Tasks
<1>4. QueuedOnce /\ HeldOnce /\ NotifiedPaid /\ OutsideUnpaid /\ StoppedIdle
    BY DEF OwnInv
<1>5. ASSUME NEW c \in Callers, NEW a \in Amounts, CheckAmount(c, a)
      PROVE  Kept
    BY <1>1, <1>2, <1>3, <1>4, <1>5
       DEF CheckAmount, thread, ghosts, QueuedOnce, HeldOnce, NotifiedPaid,
           OutsideUnpaid, StoppedIdle, Inside, InWorker
<1>6. ASSUME NEW c \in Callers, PutTask(c)
      PROVE  Kept
    BY <1>6, PutKeepsOwners
<1>7. ASSUME NEW c \in Callers, Wait(c)
      PROVE  Kept
    BY <1>1, <1>2, <1>3, <1>4, <1>7
       DEF Wait, thread, ghosts, QueuedOnce, HeldOnce, NotifiedPaid,
           OutsideUnpaid, StoppedIdle, Inside, InWorker
<1>8. ASSUME NEW c \in Callers, Return(c)
      PROVE  Kept
  <2>1. /\ pc[c] = "notified" /\ pc' = [pc EXCEPT ![c] = "idle"]
        /\ granted' = granted \ {c} /\ c \in granted
        /\ UNCHANGED <<queue, worker, task, running>>
    BY <1>4, <1>8 DEF Return, thread, OutsideUnpaid
  <2>2. \A d \in Callers : pc'[d] = IF d = c THEN "idle" ELSE pc[d]
    BY <1>1, <2>1
  <2>3. QueuedOnce' /\ HeldOnce'
    BY <1>2, <1>3, <1>4, <2>1, <2>2 DEF QueuedOnce, HeldOnce, Inside, InWorker
  <2>. QED BY <1>3, <1>4, <2>1, <2>2, <2>3
           DEF NotifiedPaid, OutsideUnpaid, StoppedIdle, Inside
<1>9. CASE WorkerGet
    BY <1>9, GetKeepsOwners
<1>10. CASE WorkerPay
    BY <1>1, <1>2, <1>3, <1>4, <1>10
       DEF WorkerPay, caller, QueuedOnce, HeldOnce, NotifiedPaid,
           OutsideUnpaid, StoppedIdle, Inside, InWorker
<1>11. CASE WorkerLoop \/ WorkerGetTimeout \/ WorkerShort \/ WorkerCompute
            \/ WorkerWake
    BY <1>4, <1>11
       DEF WorkerLoop, WorkerGetTimeout, WorkerShort, WorkerCompute, WorkerWake,
           caller, ghosts, QueuedOnce, HeldOnce, NotifiedPaid, OutsideUnpaid,
           StoppedIdle, Inside, InWorker
<1>12. CASE WorkerNotify
    BY <1>1, <1>2, <1>3, <1>4, <1>12
       DEF WorkerNotify, ghosts, QueuedOnce, HeldOnce, NotifiedPaid,
           OutsideUnpaid, StoppedIdle, Inside, InWorker
<1>13. CASE Stop
    BY <1>4, <1>13
       DEF Stop, thread, caller, ghosts, QueuedOnce, HeldOnce, NotifiedPaid,
           OutsideUnpaid, StoppedIdle, Inside, InWorker
<1>14. ASSUME UNCHANGED <<queue, thread, pc, granted, running>>
       PROVE  Kept
    BY <1>4, <1>14
       DEF thread, QueuedOnce, HeldOnce, NotifiedPaid, OutsideUnpaid,
           StoppedIdle, Inside, InWorker
<1>15. (\E l \in RoundedLimits : Reset(l)) \/ Tick \/ UNCHANGED vars
           => UNCHANGED <<queue, thread, pc, granted, running>>
    BY DEF Reset, Tick, vars, thread, caller, ghosts
<1>. QED
    BY <1>5, <1>6, <1>7, <1>8, <1>9, <1>10, <1>11, <1>12, <1>13, <1>14, <1>15
       DEF Next, CallerStep, Worker

\* stop never finds a task on the queue or with the worker, for any number of
\* callers: nothing is left unpaid, and nobody is notified unpaid.
THEOREM StopFindsNoTask == Spec => []NoTaskAfterStop
<1>1. Init => OwnInv
    BY InitTypeInv DEF OwnInv, Init, QueuedOnce, HeldOnce, NotifiedPaid,
                       OutsideUnpaid, StoppedIdle, InWorker
<1>2. OwnInv => NoTaskAfterStop
  <2> SUFFICES ASSUME OwnInv, ~ running PROVE queue = <<>> /\ ~ InWorker
    BY DEF NoTaskAfterStop
  <2>1. \A c \in Callers : ~ Inside(c)
    BY DEF OwnInv, StoppedIdle, Inside
  <2>2. ~ InWorker
    BY <2>1 DEF OwnInv, HeldOnce, TypeInv, WorkerHoldsTask, Tasks
  <2>3. Len(queue) = 0
    <3>1. Len(queue) \in Nat /\ \A i \in 1 .. Len(queue) : FALSE
      BY <2>1, QueueTasks DEF OwnInv, QueuedOnce
    <3>. QED BY <3>1
  <2>. QED BY <2>2, <2>3 DEF OwnInv, TypeInv, TypeOK
<1>. QED BY <1>1, <1>2, NextOwnInv, PTL DEF Spec

-----------------------------------------------------------------------------
(* The limiter implements TokenBucket.                                      *)

\* One factor more.
LEMMA NextProduct ==
    ASSUME NEW a \in Nat, NEW b \in Nat
    PROVE  (a + 1) * b = a * b + b
OBVIOUS

\* _leak over one tick more is one more refill of the abstract bucket.
LEMMA LeakedTick ==
    ASSUME NEW l \in RoundedLimits, NEW t \in Nat, NEW e \in Nat
    PROVE  Leaked(l, t, e + 1) = Bucket!Lesser(l.cap, Leaked(l, t, e) + l.rate)
<1>1. l.cap \in Nat /\ l.rate \in Nat
    BY RoundedType
<1>2. (e + 1) * l.rate = e * l.rate + l.rate
    BY <1>1, NextProduct
<1>3. e * l.rate \in Nat
    BY <1>1, ProductNat
<1>. QED BY <1>1, <1>2, <1>3 DEF Leaked, Lesser, Bucket!Lesser

\* _leak at once finds what was there, if the capacity allows it.
LEMMA LeakedNow ==
    ASSUME NEW l \in RoundedLimits, NEW t \in 0 .. l.cap, NEW m \in Nat
    PROVE  Leaked(l, t, m - m) = t
<1>1. l.cap \in Nat /\ l.rate \in Nat /\ m - m = 0
    BY RoundedType
<1>2. (m - m) * l.rate = 0
    BY <1>1
<1>. QED BY <1>1, <1>2 DEF Leaked, Lesser

\* A lower limit never leaves more in the bucket, although reset does not leak
\* at the old rate first.
LEMMA LeakedLower ==
    ASSUME NEW l \in RoundedLimits, NEW k \in RoundedLimits,
           k.cap <= l.cap, k.rate <= l.rate,
           NEW t \in Nat, NEW e \in Nat
    PROVE  Leaked(k, Lesser(k.cap, t), e)
               \in 0 .. Bucket!Lesser(k.cap, Leaked(l, t, e))
<1>1. /\ l.cap \in Nat /\ l.rate \in Nat
      /\ k.cap \in Nat /\ k.rate \in Nat
    BY RoundedType
<1> DEFINE x == e * k.rate
           y == e * l.rate
<1>2. x \in Nat /\ y \in Nat /\ x <= y
  <2>1. l.rate - k.rate \in Nat
    BY <1>1
  <2>2. e * (l.rate - k.rate) \in Nat
    BY <2>1, ProductNat
  <2>3. e * l.rate = e * k.rate + e * (l.rate - k.rate)
    BY <1>1
  <2>. QED BY <1>1, <2>2, <2>3, ProductNat
<1> HIDE DEF x, y
<1>. QED BY <1>1, <1>2 DEF Leaked, Lesser, Bucket!Lesser, x, y

-----------------------------------------------------------------------------

\* The pending requests of the abstract bucket.
Pending == (IF InWorker THEN <<task>> ELSE <<>>) \o queue

Level == Leaked(limit, tokens, now - lastLeak)

\* A new limiter is a new bucket: empty, with nobody waiting.
LEMMA InitRefines == Init => Bucket!Init
<1> SUFFICES ASSUME Init PROVE Bucket!Init
    OBVIOUS
<1>1. limit \in RoundedLimits /\ now \in Nat /\ 0 \in 0 .. limit.cap
    BY RoundedType DEF Init
<1>2. Level = 0
    BY <1>1, LeakedNow DEF Init, Level
<1>3. Pending = <<>>
    BY DEF Init, Pending, InWorker
<1>. QED BY <1>1, <1>2, <1>3 DEF Init, Bucket!Init, Pending, Level

\* Every step of the limiter is a step of the bucket or leaves it alone.
LEMMA NextRefines == TypeInv /\ [Next]_vars => [Bucket!Next]_(Bucket!vars)
<1> SUFFICES ASSUME TypeInv, [Next]_vars
             PROVE  Bucket!Next \/ UNCHANGED <<limit, Level, Pending, granted>>
    BY DEF Bucket!vars, Level, Pending
<1>1. /\ limit \in RoundedLimits /\ limit.cap \in Nat /\ limit.rate \in Nat
      /\ tokens \in 0 .. limit.cap /\ tokens \in Nat /\ now \in Nat
      /\ now - lastLeak \in Nat
      /\ queue \in Seq(Tasks) /\ granted \subseteq Callers
    BY RoundedType DEF TypeInv, TypeOK
<1>2. Level \in Nat /\ Level \in 0 .. limit.cap
  <2>1. Level \in 0 .. limit.cap
    BY <1>1, LeakedType DEF Level
  <2>. QED BY <1>1, <2>1
<1>3. ASSUME UNCHANGED <<bucket, queue, thread, now, granted>>
      PROVE  UNCHANGED <<limit, Level, Pending, granted>>
    BY <1>3 DEF bucket, thread, Level, Pending, InWorker
<1>4. ASSUME NEW c \in Callers, PutTask(c)
      PROVE  Bucket!Next
  <2>1. want[c] \in Amounts
    BY <1>4 DEF PutTask, TypeInv, CheckedWants
  <2>2. Pending' = Append(Pending, [caller |-> c, amount |-> want[c]])
    <3> DEFINE r == [caller |-> c, amount |-> want[c]]
               h == IF InWorker THEN <<task>> ELSE <<>>
    <3>1. r \in Tasks
      BY <2>1 DEF Tasks
    <3>2. h \in Seq(Tasks)
      BY DEF TypeInv, WorkerHoldsTask
    <3>3. h' = h /\ queue' = Append(queue, r)
      BY <1>4 DEF PutTask, thread, InWorker
    <3> HIDE DEF h, r
    <3>4. h \o Append(queue, r) = Append(h \o queue, r)
      BY SMTT(30), <1>1, <3>1, <3>2
    <3>. QED BY <3>3, <3>4 DEF Pending, h, r
  <2>3. UNCHANGED <<limit, Level, granted>>
    BY <1>4 DEF PutTask, bucket, ghosts, Level
  <2>4. Bucket!Request(c, want[c])
    BY <2>2, <2>3 DEF Bucket!Request, Pending, Level
  <2>. QED BY <2>1, <2>4 DEF Bucket!Next
<1>5. ASSUME NEW c \in Callers, Return(c)
      PROVE  Bucket!Next \/ UNCHANGED <<limit, Level, Pending, granted>>
  <2>1. UNCHANGED <<limit, Level, Pending>> /\ granted' = granted \ {c}
    BY <1>5 DEF Return, bucket, thread, Level, Pending, InWorker
  <2>2. CASE c \in granted
    BY <2>1, <2>2 DEF Bucket!Next, Bucket!Leave, Level, Pending
  <2>3. CASE c \notin granted
    BY <2>1, <2>3
  <2>. QED BY <2>2, <2>3
<1>6. CASE WorkerGet
  <2>1. Pending = queue /\ Pending' = <<Head(queue)>> \o Tail(queue)
    BY <1>1, <1>6 DEF WorkerGet, Pending, InWorker
  <2>2. <<Head(queue)>> \o Tail(queue) = queue
    BY <1>1, <1>6 DEF WorkerGet
  <2>3. UNCHANGED <<limit, Level, granted>>
    BY <1>6 DEF WorkerGet, bucket, ghosts, Level
  <2>. QED BY <2>1, <2>2, <2>3
<1>7. CASE WorkerPay
  <2>1. task \in Tasks /\ task.amount \in Nat
    BY <1>7, LimiterAssumption DEF WorkerPay, TypeInv, WorkerHoldsTask, InWorker, Tasks
  <2>2. Pending = <<task>> \o queue /\ Pending' = queue
    BY <1>1, <1>7 DEF WorkerPay, Pending, InWorker
  <2>3. Pending # <<>> /\ Head(Pending) = task /\ Tail(Pending) = queue
    BY <1>1, <2>1, <2>2
  <2>4. Level >= task.amount /\ tokens' = Level - task.amount
    BY <1>7 DEF WorkerPay, Level
  <2>5. Level' = Level - task.amount
    <3>1. limit' = limit /\ now' = now /\ lastLeak' = now
      BY <1>7 DEF WorkerPay
    <3>2. Level - task.amount \in 0 .. limit.cap
      BY <1>1, <1>2, <2>1, <2>4
    <3>3. Leaked(limit, Level - task.amount, now - now) = Level - task.amount
      BY <1>1, <3>2, LeakedNow
    <3>. QED BY <2>4, <3>1, <3>3 DEF Level
  <2>6. granted' = granted \cup {task.caller} /\ limit' = limit
    BY <1>7 DEF WorkerPay
  <2>7. task.amount <= Level
    BY <1>2, <2>1, <2>4
  <2>8. Bucket!Admit
    BY <2>2, <2>3, <2>5, <2>6, <2>7 DEF Bucket!Admit, Level, Pending
  <2>. QED BY <2>8 DEF Bucket!Next
<1>8. CASE WorkerShort
  <2>1. limit' = limit /\ now' = now /\ lastLeak' = now /\ tokens' = Level
    BY <1>8 DEF WorkerShort, Level
  <2>2. Level' = Level
    BY <1>1, <1>2, <2>1, LeakedNow DEF Level
  <2>3. Pending' = Pending /\ granted' = granted
    BY <1>8 DEF WorkerShort, Pending, InWorker, ghosts
  <2>. QED BY <2>1, <2>2, <2>3
<1>9. CASE WorkerLoop \/ WorkerGetTimeout \/ WorkerCompute \/ WorkerWake
           \/ WorkerNotify
  BY <1>9 DEF WorkerLoop, WorkerGetTimeout, WorkerCompute, WorkerWake,
              WorkerNotify, bucket, ghosts, Level, Pending, InWorker
<1>10. ASSUME NEW l \in RoundedLimits, Reset(l)
       PROVE  Bucket!Next
  <2>1. /\ l.cap <= limit.cap /\ l.rate <= limit.rate
        /\ limit' = l /\ tokens' = Lesser(l.cap, tokens)
        /\ now' = now /\ lastLeak' = lastLeak
    BY <1>10 DEF Reset
  <2>2. Level' \in 0 .. Bucket!Lesser(l.cap, Level)
    <3>1. Leaked(l, Lesser(l.cap, tokens), now - lastLeak)
              \in 0 .. Bucket!Lesser(l.cap, Leaked(limit, tokens, now - lastLeak))
      BY <1>1, <2>1, LeakedLower
    <3>2. Level' = Leaked(l, Lesser(l.cap, tokens), now - lastLeak)
      BY <2>1 DEF Level
    <3>. QED BY <3>1, <3>2 DEF Level
  <2>3. Pending' = Pending /\ granted' = granted
    BY <1>10 DEF Reset, thread, Pending, InWorker
  <2>4. Bucket!Lower(l)
    BY <2>1, <2>2, <2>3 DEF Bucket!Lower, Level, Pending
  <2>. QED BY <2>4 DEF Bucket!Next
<1>11. CASE Tick
  <2>1. /\ limit' = limit /\ tokens' = tokens /\ lastLeak' = lastLeak
        /\ now' = now + 1 /\ Pending' = Pending /\ granted' = granted
    BY <1>11 DEF Tick, bucket, thread, ghosts, Pending, InWorker
  <2>2. now' - lastLeak' = (now - lastLeak) + 1
    <3>1. lastLeak \in Nat
      BY <1>1 DEF TypeInv, TypeOK
    <3>. QED BY <1>1, <2>1, <3>1
  <2>3. Level' = Bucket!Lesser(limit.cap, Level + limit.rate)
    BY ZenonT(60), <1>1, <2>1, <2>2, LeakedTick DEF Level
  <2>4. Bucket!Refill
    BY <2>1, <2>3 DEF Bucket!Refill, Level, Pending
  <2>. QED BY <2>4 DEF Bucket!Next
<1>12. WorkerLoop \/ WorkerGetTimeout \/ WorkerCompute \/ WorkerWake
       \/ WorkerNotify \/ WorkerGet \/ WorkerPay \/ WorkerShort \/ Tick
       \/ (\E c \in Callers : PutTask(c) \/ Return(c))
       \/ (\E l \in RoundedLimits : Reset(l))
       \/ UNCHANGED <<bucket, queue, thread, now, granted>>
  BY DEF Next, CallerStep, Worker, CheckAmount, Wait, Stop, vars, bucket,
         thread, caller, ghosts
<1>. QED BY <1>3, <1>4, <1>5, <1>6, <1>7, <1>8, <1>9, <1>10, <1>11, <1>12

\* The lazy refill, the queue and the worker implement the token bucket: first
\* come first served, each paid for in full, nobody let go before, and no reset
\* that adds tokens.
THEOREM Refinement == Spec => ImplementsTokenBucket
<1>1. Init => Bucket!Init
    BY InitRefines
<1>2. TypeInv /\ [Next]_vars => [Bucket!Next]_(Bucket!vars)
    BY NextRefines
<1>. QED BY <1>1, <1>2, InitTypeInv, NextTypeInv, PTL
        DEF Spec, ImplementsTokenBucket, Bucket!Spec

-----------------------------------------------------------------------------
(* The worker sleeps long enough.                                           *)

\* The behaviours in which the server reports no new limit.
SpecWithoutReset == Init /\ [][Next /\ limit' = limit]_vars

\* When the worker wakes the bucket pays for its task at the next try.
PaidOnceAwake ==
    worker = "sleep" /\ now >= wakeAt
        => Leaked(limit, tokens, now - lastLeak) >= task.amount

\* No task is for more than the bucket may hold,
WithinCapacity ==
    /\ \A c \in Callers : pc[c] = "checked" => want[c] <= limit.cap
    /\ \A i \in 1 .. Len(queue) : queue[i].amount <= limit.cap
    /\ InWorker => task.amount <= limit.cap

\* and when the worker is to wake the refill will have made up for what was missing.
LongEnough ==
    worker = "sleep" =>
        wakeAt >= lastLeak /\ tokens + (wakeAt - lastLeak) * limit.rate >= task.amount

SleepInv == TypeInv /\ WithinCapacity /\ LongEnough

\* A quotient rounded up is enough.
LEMMA RoundedUp ==
    ASSUME NEW d \in Nat, NEW r \in Nat \ {0}
    PROVE  ((d + r - 1) \div r) * r >= d
<1> DEFINE n == d + r - 1
           q == n \div r
           m == n % r
<1>1. n \in Nat
    OBVIOUS
<1>2. q \in Nat /\ m \in 0 .. r - 1 /\ n = r * q + m
    BY <1>1
<1>. QED BY <1>1, <1>2

\* A longer time refills no less.
LEMMA LongerRefill ==
    ASSUME NEW a \in Nat, NEW b \in Nat, a <= b, NEW r \in Nat
    PROVE  a * r <= b * r
<1>1. (b - a) * r \in Nat
    BY ProductNat
<1>2. b * r = a * r + (b - a) * r
    OBVIOUS
<1>. QED BY <1>1, <1>2, ProductNat

\* A step that keeps the limit keeps the amounts within the capacity and, as the worker
\* computes its sleep from the bucket as it then is, the sleep long enough.
LEMMA NextSleepInv == SleepInv /\ [Next /\ limit' = limit]_vars => SleepInv'
<1> SUFFICES ASSUME SleepInv, [Next /\ limit' = limit]_vars PROVE SleepInv'
    OBVIOUS
<1>1. TypeInv /\ TypeInv' /\ WithinCapacity /\ LongEnough /\ limit' = limit
    BY NextTypeInv DEF SleepInv, vars
<1>2. /\ limit.cap \in Nat \ {0} /\ limit.rate \in Nat \ {0} /\ tokens \in 0 .. limit.cap
      /\ now \in Nat /\ lastLeak \in 0 .. now /\ queue \in Seq(Tasks)
      /\ pc \in [Callers -> CallerStates] /\ want \in [Callers -> Amounts \cup {0}]
      /\ InWorker => task.amount \in Nat
    BY <1>1, RoundedType, LimiterAssumption DEF TypeInv, TypeOK, WorkerHoldsTask, Tasks
<1>3. WithinCapacity'
  <2> USE DEF WithinCapacity, InWorker, bucket, thread, caller, ghosts
  <2>1. ASSUME NEW c \in Callers, NEW a \in Amounts, CheckAmount(c, a)
        PROVE  WithinCapacity'
    BY <1>1, <1>2, <2>1 DEF CheckAmount
  <2>2. ASSUME NEW c \in Callers, PutTask(c) PROVE WithinCapacity'
    BY <1>1, <1>2, <2>2 DEF PutTask
  <2>3. ASSUME NEW c \in Callers, Wait(c) \/ Return(c) PROVE WithinCapacity'
    BY <1>1, <1>2, <2>3 DEF Wait, Return
  <2>4. CASE WorkerGet
    <3>1. /\ queue # <<>> /\ task' = Head(queue) /\ queue' = Tail(queue)
          /\ UNCHANGED <<pc, want, limit>>
        BY <1>1, <2>4 DEF WorkerGet
    <3>2. Len(queue') = Len(queue) - 1 /\ Len(queue) \in Nat \ {0}
        BY <1>2, <3>1
    <3>3. \A i \in 1 .. Len(queue') : queue'[i] = queue[i + 1] /\ i + 1 \in 1 .. Len(queue)
        BY <1>2, <3>1, <3>2
    <3>4. task' = queue[1] /\ 1 \in 1 .. Len(queue)
        BY <1>2, <3>1, <3>2
    <3>. QED BY <1>1, <3>1, <3>3, <3>4
  <2>5. CASE WorkerNotify
    BY <1>1, <1>2, <2>5 DEF WorkerNotify
  <2>6. CASE WorkerLoop \/ WorkerGetTimeout \/ WorkerPay \/ WorkerShort \/ WorkerCompute
             \/ WorkerWake
    BY <1>1, <2>6 DEF WorkerLoop, WorkerGetTimeout, WorkerPay, WorkerShort, WorkerCompute,
                      WorkerWake
  <2>7. CASE Stop \/ Tick \/ UNCHANGED vars
    BY <1>1, <2>7 DEF Stop, Tick, vars
  <2>8. ASSUME NEW l \in RoundedLimits, Reset(l) PROVE WithinCapacity'
    BY <1>1, <2>8 DEF Reset
  <2>. QED BY <2>1, <2>2, <2>3, <2>4, <2>5, <2>6, <2>7, <2>8 DEF Next, CallerStep, Worker
<1>4. LongEnough'
  <2>1. ASSUME worker' # "sleep" PROVE LongEnough'
    BY <2>1 DEF LongEnough
  <2>2. ASSUME UNCHANGED <<worker, task, wakeAt, tokens, lastLeak>> PROVE LongEnough'
    <3>1. /\ worker' = worker /\ task' = task /\ wakeAt' = wakeAt /\ tokens' = tokens
          /\ lastLeak' = lastLeak /\ limit' = limit
        BY <1>1, <2>2
    <3>. QED BY <1>1, <3>1, Zenon DEF LongEnough
  <2>3. CASE WorkerCompute
    <3> DEFINE d == task.amount - tokens
               r == limit.rate
               s == (d + r - 1) \div r
               e == now - lastLeak
    <3>1. d \in Nat /\ r \in Nat \ {0} /\ e \in Nat
        BY <1>1, <1>2, <2>3 DEF WorkerCompute, TypeInv, DeficitPositive, InWorker
    <3>2. wakeAt' = now + s /\ UNCHANGED <<limit, tokens, lastLeak, task>>
        BY <2>3 DEF WorkerCompute, bucket
    <3>3. s \in Nat /\ s * r >= d
      <4> HIDE DEF d, r
      <4>1. d + r - 1 \in Nat
        BY <3>1
      <4>. QED BY <3>1, <4>1, QuotientNat, RoundedUp
    <3> HIDE DEF s
    <3>4. wakeAt' - lastLeak' = s + e /\ wakeAt' >= lastLeak'
        BY <1>2, <3>1, <3>2, <3>3
    <3> HIDE DEF e
    <3>5. (s + e) * r \in Nat /\ s * r <= (s + e) * r
      <4> HIDE DEF r
      <4>. QED BY <3>1, <3>3, ProductNat, LongerRefill
    <3>6. tokens + (s + e) * r >= task.amount
      <4> DEFINE x == (s + e) * r
                 y == s * r
      <4>1. x \in Nat /\ y \in Int /\ y <= x /\ y >= d
        BY <3>3, <3>5, <3>1
      <4> HIDE DEF x, y
      <4>2. tokens + x >= task.amount
        BY <1>2, <2>3, <4>1 DEF WorkerCompute, InWorker
      <4>. QED BY <4>2 DEF x
    <3>7. tokens' + (wakeAt' - lastLeak') * limit'.rate >= task'.amount
        BY <3>2, <3>4, <3>6, Zenon
    <3>. QED BY <3>4, <3>7 DEF LongEnough
  <2>4. CASE \E c \in Callers : CallerStep(c)
    BY <2>2, <2>4 DEF CallerStep, CheckAmount, PutTask, Wait, Return, bucket, thread
  <2>5. CASE WorkerLoop \/ WorkerGet \/ WorkerGetTimeout \/ WorkerPay \/ WorkerShort
             \/ WorkerWake \/ WorkerNotify
    BY <2>1, <2>5 DEF WorkerLoop, WorkerGet, WorkerGetTimeout, WorkerPay, WorkerShort,
                      WorkerWake, WorkerNotify
  <2>6. CASE Stop \/ Tick \/ UNCHANGED vars
    BY <2>2, <2>6 DEF Stop, Tick, vars, bucket, thread
  <2>7. ASSUME NEW l \in RoundedLimits, Reset(l) PROVE LongEnough'
    BY <1>1, <2>7 DEF Reset
  <2>. QED BY <2>3, <2>4, <2>5, <2>6, <2>7 DEF Next, Worker
<1>. QED BY <1>1, <1>3, <1>4 DEF SleepInv

\* While no new limit is reported, the worker sleeps once at most for a task: however
\* late it wakes, the bucket then pays.  (A reset during the sleep may make it sleep
\* again; that no task is left unpaid for it TLC checks, EveryTaskIsPaid.)
THEOREM SleepsOnce == SpecWithoutReset => []PaidOnceAwake
<1>1. Init => SleepInv
    BY InitTypeInv DEF Init, SleepInv, WithinCapacity, LongEnough, InWorker
<1>2. SleepInv => PaidOnceAwake
  <2> SUFFICES ASSUME SleepInv, worker = "sleep", now >= wakeAt
               PROVE  Leaked(limit, tokens, now - lastLeak) >= task.amount
    BY DEF PaidOnceAwake
  <2> DEFINE e == now - lastLeak
             f == wakeAt - lastLeak
  <2>1. /\ limit.cap \in Nat \ {0} /\ limit.rate \in Nat \ {0} /\ tokens \in Nat
        /\ now \in Nat /\ lastLeak \in 0 .. now /\ wakeAt \in Nat
        /\ task.amount \in Nat /\ task.amount <= limit.cap
        /\ wakeAt >= lastLeak /\ tokens + f * limit.rate >= task.amount
    BY RoundedType, LimiterAssumption
       DEF SleepInv, TypeInv, TypeOK, WorkerHoldsTask, Tasks, WithinCapacity, LongEnough,
           InWorker
  <2>2. e \in Nat /\ f \in Nat /\ f <= e
    BY <2>1
  <2> HIDE DEF e, f
  <2>3. f * limit.rate <= e * limit.rate /\ f * limit.rate \in Nat /\ e * limit.rate \in Nat
    BY <2>1, <2>2, LongerRefill, ProductNat
  <2>4. tokens + e * limit.rate >= task.amount
    BY <2>1, <2>3
  <2>5. Leaked(limit, tokens, e) >= task.amount
    BY <2>1, <2>3, <2>4 DEF Leaked, Lesser
  <2>. QED BY <2>5 DEF e
<1>. QED BY <1>1, <1>2, NextSleepInv, PTL DEF SpecWithoutReset

=============================================================================
