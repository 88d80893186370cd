-------------------------- MODULE RequestorProofs --------------------------
(***************************************************************************)
(* Theorems about the two components that OpenAPIRequestor drives for      *)
(* every request: TokenLimiter, for every set of threads, every choice of  *)
(* needs, usages and limits, and every buffer ratio; and StreamReader, for *)
(* any streams, ways to read them, length of the answers and size of the   *)
(* pool.                                                                   *)
(***************************************************************************)
EXTENDS TokenLimiter, StreamReader, TLAPS

-----------------------------------------------------------------------------
(* TokenLimiter.                                                            *)

\* The type invariant is not inductive alone: the limit a thread carries to the
\* lock of reset_once came from a header, and is a natural; and a thread about to
\* try has attempts left.
HeaderLimit == \A t \in Threads : pc[t] = "resetlock" => arg[t] \in Nat

AttemptLeft == \A t \in Threads : pc[t] = "try" => tries[t] < 3

TypeInv == TypeOK /\ HeaderLimit /\ AttemptLeft

\* int(tpm * (1 - buffer_ratio)) is a natural.
LEMMA BufferedNat ==
    ASSUME NEW tpm \in Nat
    PROVE  Buffered(tpm) \in Nat
<1>1. BufferNum \in Nat /\ BufferDen \in Nat \ {0}
    BY TokenLimiterAssumption
<1>2. ASSUME NEW a \in Nat, NEW b \in Nat PROVE a * b \in Nat
    BY <1>2
<1>3. ASSUME NEW a \in Nat, NEW b \in Nat \ {0} PROVE a \div b \in Nat
    BY <1>3
<1>4. tpm * BufferNum \in Nat
    BY <1>1, <1>2
<1>. QED BY <1>1, <1>3, <1>4 DEF Buffered

\* The initial states have their types.
LEMMA InitTypeInv == Init => TypeInv
<1> SUFFICES ASSUME Init PROVE TypeInv
    OBVIOUS
<1>1. og \in Nat
    BY TokenLimiterAssumption DEF Init
<1>2. limit \in Nat
    BY <1>1, BufferedNat DEF Init
<1>. QED BY <1>1, <1>2, TokenLimiterAssumption
         DEF Init, TypeInv, TypeOK, HeaderLimit, AttemptLeft, Holding, Outside

\* Every step keeps the types, and the lock with the thread inside decline.
LEMMA NextTypeInv == TypeInv /\ [Next]_vars => TypeInv'
<1> SUFFICES ASSUME TypeInv, [Next]_vars PROVE TypeInv'
    OBVIOUS
<1> USE DEF TypeInv, TypeOK, HeaderLimit, AttemptLeft, Holding, Outside, shared,
            local, Goto
<1>1. Refilled \in Int /\ BookNow \in [minute : Nat, used : Nat, credit : Nat, top : Nat]
    BY DEF Refilled, BookNow
<1>2. NoThread \notin Threads /\ Needs \subseteq Nat /\ Usages \subseteq Nat
      /\ Tpms \subseteq Nat
    BY TokenLimiterAssumption
<1>3. ASSUME NEW t \in Threads, NEW n \in Needs, DeclineCheck(t, n)
      PROVE  TypeInv'
    BY <1>2, <1>3 DEF DeclineCheck
<1>4. ASSUME NEW t \in Threads, DeclineLock(t)
      PROVE  TypeInv'
    BY <1>2, <1>4 DEF DeclineLock
<1>5. ASSUME NEW t \in Threads, DeclineTake(t)
      PROVE  TypeInv'
    BY <1>1, <1>2, <1>5 DEF DeclineTake, Refresh
<1>6. ASSUME NEW t \in Threads, DeclineShort(t)
      PROVE  TypeInv'
  <2>1. current' \in Int /\ last' \in 0 .. minute'
    BY <1>1, <1>6 DEF DeclineShort, Refresh
  <2>2. tries[t] + 1 \in 0 .. 3
    BY <1>6 DEF DeclineShort
  <2>. QED BY <1>1, <1>2, <1>6, <2>1, <2>2 DEF DeclineShort
<1>7. ASSUME NEW t \in Threads, DeclineWake(t)
      PROVE  TypeInv'
    BY <1>2, <1>7 DEF DeclineWake
<1>8. ASSUME NEW t \in Threads, DeclineRaise(t)
      PROVE  TypeInv'
    BY <1>2, <1>8 DEF DeclineRaise
<1>9. ASSUME NEW t \in Threads, NEW u \in Usages, AnswerUsage(t, u)
      PROVE  TypeInv'
    BY <1>2, <1>9 DEF AnswerUsage
<1>10. ASSUME NEW t \in Threads, AnswerLimitReached(t) \/ AnswerFailure(t)
       PROVE  TypeInv'
    BY <1>2, <1>10 DEF AnswerLimitReached, AnswerFailure
<1>11. ASSUME NEW t \in Threads,
              CompensateCheck(t) \/ CompensateTimeout(t) \/ ClearCheck(t)
                  \/ ClearApply(t) \/ NoReset(t) \/ ResetSkip(t)
       PROVE  TypeInv'
  <2>1. CASE CompensateCheck(t) \/ CompensateTimeout(t)
    BY <1>2, <2>1 DEF CompensateCheck, CompensateTimeout
  <2>2. CASE ClearCheck(t) \/ ClearApply(t)
    BY <1>2, <2>2 DEF ClearCheck, ClearApply
  <2>3. CASE NoReset(t) \/ ResetSkip(t)
    BY <1>2, <2>3 DEF NoReset, ResetSkip
  <2>. QED BY <1>11, <2>1, <2>2, <2>3
<1>12. ASSUME NEW t \in Threads, CompensateApply(t)
       PROVE  TypeInv'
  <2>1. arg[t] \in Int
    BY <1>12
  <2>2. Greater(arg[t], 0) \in Nat
    BY <2>1 DEF Greater
  <2>3. book' \in [minute : Nat, used : Nat, credit : Nat, top : Nat]
    BY <1>12, <2>2 DEF CompensateApply
  <2>. QED BY <1>2, <1>12, <2>1, <2>3 DEF CompensateApply
<1>13. ASSUME NEW t \in Threads, NEW tpm \in Tpms, ResetCheck(t, tpm)
       PROVE  TypeInv'
    BY <1>2, <1>13 DEF ResetCheck
<1>14. ASSUME NEW t \in Threads, ResetApply(t)
       PROVE  TypeInv'
  <2> DEFINE tpm == IF IsClosed THEN arg[t] ELSE Lesser(og, arg[t])
  <2>1. tpm \in Nat
    BY <1>14 DEF ResetApply, Lesser
  <2>2. limit' \in Nat
    BY <1>14, <2>1, BufferedNat DEF ResetApply
  <2>3. current' \in Int /\ book' \in [minute : Nat, used : Nat, credit : Nat, top : Nat]
    BY <1>14, <2>2 DEF ResetApply, Greater
  <2>. QED BY <1>2, <1>14, <2>2, <2>3 DEF ResetApply
<1>15. CASE NextMinute
    BY <1>15 DEF NextMinute
<1>16. CASE UNCHANGED vars
    BY <1>16 DEF vars
<1>. QED
    BY <1>3, <1>4, <1>5, <1>6, <1>7, <1>8, <1>9, <1>10, <1>11, <1>12, <1>13,
       <1>14, <1>15, <1>16 DEF Next, Decline, Answer, Settle

\* Type correctness; in particular the lock is held exactly by the thread inside
\* the critical section of decline, whichever way the thread leaves it.
THEOREM TypeCorrect == Spec => []TypeOK
<1>1. TypeInv => TypeOK
    BY DEF TypeInv
<1>. QED BY <1>1, InitTypeInv, NextTypeInv, PTL DEF Spec

-----------------------------------------------------------------------------

\* The strengthening of MinuteBudget.  What was declined in a minute and what is
\* left of its budget are together covered by its largest limit and by what was
\* given back.  reset_once carries over what was taken of the old limit; that
\* this keeps the account depends on its being the first reset, before which the
\* largest limit is the limit in force.
Account ==
    /\ book.minute = last
    /\ current + book.used <= book.top + book.credit
    /\ limit <= book.top
    /\ ~ hasReset => book.top = limit

BudgetInv == TypeInv /\ Account /\ MinuteBudget

\* Every step keeps the account.
LEMMA NextBudgetInv == BudgetInv /\ [Next]_vars => BudgetInv'
<1> SUFFICES ASSUME BudgetInv, [Next]_vars PROVE Account' /\ MinuteBudget'
    BY NextTypeInv DEF BudgetInv
<1>1. /\ limit \in Nat /\ current \in Int /\ last \in Nat /\ minute \in Nat
      /\ book \in [minute : Nat, used : Nat, credit : Nat, top : Nat]
      /\ need \in [Threads -> Nat] /\ arg \in [Threads -> Int]
    BY DEF BudgetInv, TypeInv, TypeOK
<1>2. Account /\ MinuteBudget
    BY DEF BudgetInv
<1> USE DEF Account, MinuteBudget
<1>3. ASSUME NEW t \in Threads, DeclineTake(t)
      PROVE  Account' /\ MinuteBudget'
    BY <1>1, <1>2, <1>3 DEF DeclineTake, Refresh, Refilled, BookNow
<1>4. ASSUME NEW t \in Threads, DeclineShort(t)
      PROVE  Account' /\ MinuteBudget'
    BY <1>1, <1>2, <1>4 DEF DeclineShort, Refresh, Refilled, BookNow
<1>5. ASSUME NEW t \in Threads, CompensateApply(t)
      PROVE  Account' /\ MinuteBudget'
    BY <1>1, <1>2, <1>5 DEF CompensateApply, Greater, local
<1>6. ASSUME NEW t \in Threads, ClearApply(t)
      PROVE  Account' /\ MinuteBudget'
    BY <1>1, <1>2, <1>6 DEF ClearApply, local
<1>7. ASSUME NEW t \in Threads, ResetApply(t)
      PROVE  Account' /\ MinuteBudget'
  <2>1. limit' \in Nat
    BY NextTypeInv DEF BudgetInv, TypeInv, TypeOK
  <2>2. ~ hasReset /\ hasReset' /\ last' = last
    BY <1>7 DEF ResetApply, AlreadyReset
  <2>3. current' = Greater(limit' - (limit - current), 0)
    BY <1>7 DEF ResetApply
  <2>4. book' = [book EXCEPT !.top = Greater(@, limit')]
    BY <1>7 DEF ResetApply
  <2>. QED BY <1>1, <1>2, <2>1, <2>2, <2>3, <2>4 DEF Greater
<1>8. ASSUME NEW t \in Threads, ResetSkip(t)
      PROVE  Account' /\ MinuteBudget'
    BY <1>2, <1>8 DEF ResetSkip
<1>9. ASSUME UNCHANGED <<limit, current, last, hasReset, book>>
      PROVE  Account' /\ MinuteBudget'
    BY <1>2, <1>9
<1>10. (\E t \in Threads : DeclineTake(t) \/ DeclineShort(t)
            \/ CompensateApply(t) \/ ClearApply(t) \/ ResetApply(t) \/ ResetSkip(t))
       \/ UNCHANGED <<limit, current, last, hasReset, book>>
    BY DEF Next, Decline, Answer, Settle, DeclineCheck, DeclineLock, DeclineWake,
           DeclineRaise, AnswerUsage, AnswerLimitReached, AnswerFailure,
           CompensateCheck, CompensateTimeout, ClearCheck, NoReset, ResetCheck,
           NextMinute, vars, shared
<1>. QED BY <1>3, <1>4, <1>5, <1>6, <1>7, <1>8, <1>9, <1>10

\* The tokens declined in one minute stay within the largest limit in force in
\* it plus what was given back, for any threads, limits and buffer ratio.
THEOREM BudgetKept == Spec => []MinuteBudget
<1>1. Init => BudgetInv
  <2> SUFFICES ASSUME Init PROVE Account /\ MinuteBudget
    BY InitTypeInv DEF BudgetInv
  <2>1. limit \in Nat
    BY InitTypeInv DEF TypeInv, TypeOK
  <2>. QED BY <2>1 DEF Init, Account, MinuteBudget
<1>2. BudgetInv => MinuteBudget
    BY DEF BudgetInv
<1>. QED BY <1>1, <1>2, NextBudgetInv, PTL DEF Spec

-----------------------------------------------------------------------------

\* Why decline seldom raises: from its second attempt on, a thread that holds
\* the lock finds a later minute, and so the whole limit; if that is too little
\* then the limit itself is, and nobody can change it until the lock is free.
Patience ==
    \A t \in Threads :
        /\ pc[t] = "try" /\ tries[t] >= 1 => minute > last
        /\ pc[t] \in {"try", "sleep"} /\ tries[t] >= 2 => need[t] > limit
        /\ pc[t] = "raise" => need[t] > limit

PatienceInv == TypeInv /\ Patience

\* Every step keeps it: the lock excludes other declines and resets.
LEMMA NextPatienceInv == PatienceInv /\ [Next]_vars => PatienceInv'
<1> SUFFICES ASSUME PatienceInv, [Next]_vars PROVE Patience'
    BY NextTypeInv DEF PatienceInv
<1>1. /\ limit \in Nat /\ last \in 0 .. minute /\ minute \in Nat
      /\ pc \in [Threads -> Holding \cup Outside]
      /\ need \in [Threads -> Nat] /\ tries \in [Threads -> 0 .. 3]
      /\ NoThread \notin Threads
      /\ \A t \in Threads : lock = t <=> pc[t] \in Holding
    BY TokenLimiterAssumption DEF PatienceInv, TypeInv, TypeOK
<1>2. Patience
    BY DEF PatienceInv
<1> USE DEF Patience, Holding, Outside, Goto
<1>3. ASSUME NEW t \in Threads, NEW n \in Needs, DeclineCheck(t, n)
      PROVE  Patience'
    BY <1>1, <1>2, <1>3 DEF DeclineCheck, shared
<1>4. ASSUME NEW t \in Threads, DeclineLock(t)
      PROVE  Patience'
    BY <1>1, <1>2, <1>4 DEF DeclineLock, shared
<1>5. ASSUME NEW t \in Threads, DeclineTake(t)
      PROVE  Patience'
    BY <1>1, <1>2, <1>5 DEF DeclineTake, Refresh, local
<1>6. ASSUME NEW t \in Threads, DeclineShort(t)
      PROVE  Patience'
  <2>1. /\ lock = t /\ tries' = [tries EXCEPT ![t] = @ + 1]
        /\ pc' = [pc EXCEPT ![t] = "sleep"] /\ need' = need /\ limit' = limit
        /\ need[t] > Refilled /\ last' = minute /\ minute' = minute
    BY <1>1, <1>6 DEF DeclineShort, Refresh
  <2>2. tries[t] >= 1 => need[t] > limit
    BY <1>1, <1>2, <1>6, <2>1 DEF DeclineShort, Refilled
  <2>3. \A s \in Threads : s # t => pc'[s] \notin Holding
    BY <1>1, <2>1
  <2>4. /\ pc'[t] = "sleep"
        /\ tries'[t] = tries[t] + 1
    BY <1>1, <2>1
  <2>5. tries'[t] >= 2 => need'[t] > limit'
    BY <1>1, <2>1, <2>2, <2>4
  <2>. QED BY <2>3, <2>4, <2>5
<1>7. ASSUME NEW t \in Threads, DeclineWake(t)
      PROVE  Patience'
    BY <1>1, <1>2, <1>7 DEF DeclineWake, shared, local
<1>8. ASSUME NEW t \in Threads, ResetApply(t)
      PROVE  Patience'
  <2>1. \A s \in Threads : pc[s] \notin Holding
    BY <1>1, <1>8 DEF ResetApply
  <2>2. \A s \in Threads : pc'[s] \notin Holding
    BY <1>1, <1>8, <2>1 DEF ResetApply
  <2>. QED BY <2>2
<1>9. ASSUME NEW t \in Threads, NEW p \in Outside, Goto(t, p),
             UNCHANGED <<limit, last, need, tries, minute>>
      PROVE  Patience'
    BY <1>1, <1>2, <1>9
<1>10. CASE NextMinute
    BY <1>1, <1>2, <1>10 DEF NextMinute, shared, local
<1>11. CASE UNCHANGED vars
    BY <1>2, <1>11 DEF vars
<1>12. ASSUME NEW t \in Threads,
              DeclineRaise(t) \/ (\E u \in Usages : AnswerUsage(t, u))
                  \/ AnswerLimitReached(t) \/ AnswerFailure(t)
                  \/ CompensateCheck(t) \/ CompensateApply(t)
                  \/ CompensateTimeout(t) \/ ClearCheck(t) \/ ClearApply(t)
                  \/ NoReset(t) \/ (\E tpm \in Tpms : ResetCheck(t, tpm))
                  \/ ResetSkip(t)
       PROVE  (\E p \in Outside : Goto(t, p))
              /\ UNCHANGED <<limit, last, need, tries, minute>>
    BY <1>12 DEF DeclineRaise, AnswerUsage, AnswerLimitReached, AnswerFailure,
                 CompensateCheck, CompensateApply, CompensateTimeout, ClearCheck,
                 ClearApply, NoReset, ResetCheck, ResetSkip, shared, local
<1>. QED
    BY <1>3, <1>4, <1>5, <1>6, <1>7, <1>8, <1>9, <1>10, <1>11, <1>12
       DEF Next, Decline, Answer, Settle

\* decline raises RuntimeError only for a need above the limit in force, which
\* was lowered after the need had been checked.
THEOREM RaisesJustified == Spec => []RaisesOnlyWhenLowered
<1>1. Init => PatienceInv
    BY InitTypeInv DEF PatienceInv, Init, Patience
<1>2. PatienceInv => RaisesOnlyWhenLowered
    BY DEF PatienceInv, Patience, RaisesOnlyWhenLowered
<1>. QED BY <1>1, <1>2, NextPatienceInv, PTL DEF Spec

\* Where the limit comes from: a limiter that was not reset, or that was made with
\* forcing_disable, has the configured one; another limit is one the server reported, and
\* lower than the configured one unless the limiter was closed.
LimitFromReport ==
    /\ ~ hasReset \/ forced => limit = Buffered(og)
    /\ limit # Buffered(og) =>
          \E tpm \in Tpms : limit = Buffered(tpm) /\ (tpm < og \/ Buffered(og) <= 0)

\* The limit a thread carries to the lock is one that the server reported.
CarriesReport == \A t \in Threads : pc[t] = "resetlock" => arg[t] \in Tpms

ReportInv == TypeInv /\ CarriesReport /\ LimitFromReport /\ (forced => hasReset)

\* Only the first reset changes the limit, to what its thread carries.
LEMMA NextReportInv == ReportInv /\ [Next]_vars => ReportInv'
<1> SUFFICES ASSUME ReportInv, [Next]_vars
             PROVE  CarriesReport' /\ LimitFromReport' /\ (forced => hasReset)'
    BY NextTypeInv DEF ReportInv
<1>1. /\ pc \in [Threads -> Holding \cup Outside] /\ arg \in [Threads -> Int]
      /\ og \in Nat /\ limit \in Nat /\ Tpms \subseteq Nat
    BY TokenLimiterAssumption DEF ReportInv, TypeInv, TypeOK
<1>2. CarriesReport /\ LimitFromReport /\ (forced => hasReset)
    BY DEF ReportInv
<1>3. CarriesReport'
  <2> USE <1>1, <1>2 DEF CarriesReport, Goto, local, shared
  <2>1. ASSUME NEW t \in Threads, NEW tpm \in Tpms, ResetCheck(t, tpm) PROVE CarriesReport'
    BY <2>1 DEF ResetCheck
  <2>2. ASSUME NEW t \in Threads, NEW p, p # "resetlock", Goto(t, p),
               \A u \in Threads : u # t => arg'[u] = arg[u]
        PROVE  CarriesReport'
    BY <2>2
  <2>3. ASSUME NEW t \in Threads, NEW n \in Needs, DeclineCheck(t, n) PROVE CarriesReport'
    BY <2>3 DEF DeclineCheck
  <2>4. ASSUME NEW t \in Threads, Decline(t) PROVE CarriesReport'
    BY <2>4 DEF Decline, DeclineLock, DeclineTake, DeclineShort, DeclineWake, DeclineRaise
  <2>5. ASSUME NEW t \in Threads, Answer(t) PROVE CarriesReport'
    BY <2>5 DEF Answer, AnswerUsage, AnswerLimitReached, AnswerFailure
  <2>6. ASSUME NEW t \in Threads,
               CompensateCheck(t) \/ CompensateApply(t) \/ CompensateTimeout(t)
                   \/ ClearCheck(t) \/ ClearApply(t) \/ NoReset(t)
        PROVE  CarriesReport'
    BY <2>6 DEF CompensateCheck, CompensateApply, CompensateTimeout, ClearCheck, ClearApply,
                NoReset
  <2>7. ASSUME NEW t \in Threads, ResetSkip(t) \/ ResetApply(t) PROVE CarriesReport'
    BY <2>7 DEF ResetSkip, ResetApply
  <2>8. CASE NextMinute \/ UNCHANGED vars
    BY <2>8 DEF NextMinute, vars
  <2>. QED BY <2>1, <2>3, <2>4, <2>5, <2>6, <2>7, <2>8 DEF Next, Settle
<1>4. ASSUME NEW t \in Threads, ResetApply(t)
      PROVE  LimitFromReport' /\ (forced => hasReset)'
  <2> DEFINE tpm == IF IsClosed THEN arg[t] ELSE Lesser(og, arg[t])
  <2>1. /\ limit' = Buffered(tpm) /\ hasReset' /\ ~ hasReset /\ forced' = forced
        /\ og' = og /\ arg[t] \in Tpms /\ og # arg[t]
    BY <1>2, <1>4 DEF ResetApply, AlreadyReset, CarriesReport
  <2>2. limit = Buffered(og) /\ ~ forced
    BY <1>2, <2>1 DEF LimitFromReport
  <2>3. \/ Buffered(og) <= 0 /\ tpm = arg[t]
        \/ arg[t] < og /\ tpm = arg[t]
        \/ tpm = og
    BY <1>1, <2>1, <2>2 DEF IsClosed, Lesser
  <2> HIDE DEF tpm
  <2>4. Buffered(og)' = Buffered(og) /\ \A n : Buffered(n)' = Buffered(n)
    BY <2>1 DEF Buffered
  <2>. QED BY <2>1, <2>2, <2>3, <2>4 DEF LimitFromReport
<1>5. ASSUME UNCHANGED <<limit, og, forced>>, hasReset' = hasReset \/ hasReset'
      PROVE  LimitFromReport' /\ (forced => hasReset)'
  <2>1. Buffered(og)' = Buffered(og)
    BY <1>5 DEF Buffered
  <2>2. hasReset => hasReset'
    BY <1>5
  <2>. QED BY <1>2, <1>5, <2>1, <2>2 DEF LimitFromReport, Buffered
<1>6. \/ \E t \in Threads : ResetApply(t)
      \/ UNCHANGED <<limit, og, forced>> /\ (hasReset' = hasReset \/ hasReset')
    BY DEF Next, Decline, Answer, Settle, DeclineCheck, DeclineLock, DeclineTake,
           DeclineShort, DeclineWake, DeclineRaise, AnswerUsage,
           AnswerLimitReached, AnswerFailure, CompensateCheck, CompensateApply,
           CompensateTimeout, ClearCheck, ClearApply, NoReset, ResetCheck,
           ResetSkip, NextMinute, shared, vars
<1>. QED BY <1>3, <1>4, <1>5, <1>6

\* Once the limiter has been reset no answer changes the limit again, and what the limit
\* is comes from the configuration or from that one report.
THEOREM ResetOnce == Spec => OneReset /\ []LimitFromReport
<1>1. [Next]_vars => [hasReset => limit' = limit]_vars
    BY DEF Next, Decline, Answer, Settle, DeclineCheck, DeclineLock, DeclineTake,
           DeclineShort, DeclineWake, DeclineRaise, AnswerUsage,
           AnswerLimitReached, AnswerFailure, CompensateCheck, CompensateApply,
           CompensateTimeout, ClearCheck, ClearApply, NoReset, ResetCheck,
           ResetSkip, ResetApply, AlreadyReset, NextMinute, shared, vars
<1>2. Init => ReportInv
  <2> SUFFICES ASSUME Init PROVE CarriesReport /\ LimitFromReport /\ (forced => hasReset)
    BY InitTypeInv DEF ReportInv
  <2>. QED BY DEF Init, CarriesReport, LimitFromReport
<1>3. ReportInv => LimitFromReport
    BY DEF ReportInv
<1>. QED BY <1>1, <1>2, <1>3, NextReportInv, PTL DEF Spec, OneReset

-----------------------------------------------------------------------------
(* Requests end: no lock is kept, and a decline tries three times at most.  *)

\* A thread inside a request that neither the lock nor its sleep holds up.
CanGoOn(t) ==
    /\ pc[t] # "idle"
    /\ pc[t] \in {"lock", "clearlock", "resetlock"} => lock = NoThread
    /\ pc[t] = "sleep" => minute > last

\* As long as a request is under way, some thread can go on, or sleeps with the lock for
\* the rest of a minute that the clock will end.
NobodyStuck ==
    (\E t \in Threads : pc[t] # "idle") =>
        \E t \in Threads : CanGoOn(t) \/ (pc[t] = "sleep" /\ minute = last)

\* Whichever way a thread leaves decline, also by the exception after the third sleep,
\* it gives the lock back; compensate waits a second for it, and clear and reset_once
\* let go of it in the same step.  So nobody waits for a lock that nobody will release.
THEOREM NoDeadlock == Spec => []NobodyStuck
<1>1. TypeInv => NobodyStuck
  <2> SUFFICES ASSUME TypeInv, NEW t \in Threads, pc[t] # "idle"
               PROVE  \E u \in Threads : CanGoOn(u) \/ (pc[u] = "sleep" /\ minute = last)
    BY DEF NobodyStuck
  <2>1. /\ lock \in Threads \cup {NoThread} /\ last \in 0 .. minute /\ minute \in Nat
        /\ \A u \in Threads : lock = u <=> pc[u] \in Holding
    BY DEF TypeInv, TypeOK
  <2>2. ASSUME NEW u \in Threads, pc[u] \in Holding
        PROVE  CanGoOn(u) \/ (pc[u] = "sleep" /\ minute = last)
    BY <2>1, <2>2 DEF CanGoOn, Holding
  <2>3. CASE lock \in Threads
    BY <2>1, <2>2, <2>3
  <2>4. CASE lock = NoThread
    <3>1. pc[t] = "sleep" => t = lock
        BY <2>1 DEF Holding
    <3>. QED BY <2>4, <3>1, TokenLimiterAssumption DEF CanGoOn
  <2>. QED BY <2>1, <2>3, <2>4
<1>. QED BY <1>1, InitTypeInv, NextTypeInv, PTL DEF Spec

\* How many steps a request has before it; each attempt that falls short takes four off.
StepsLeft(l, n) ==
    CASE l = "lock"       -> 20
      [] l = "try"        -> 18 - 4 * n
      [] l = "sleep"      -> 20 - 4 * n
      [] l = "raise"      -> 7
      [] l = "sent"       -> 7
      [] l = "compensate" -> 6
      [] l = "givelock"   -> 5
      [] l = "clear"      -> 6
      [] l = "clearlock"  -> 5
      [] l = "header"     -> 4
      [] l = "resetlock"  -> 3
      [] OTHER            -> 0

\* Every step of a request ends it or leaves fewer.
NearerToItsEnd ==
    \A t \in Threads : pc[t] # "idle" =>
        \/ pc'[t] = pc[t] /\ tries'[t] = tries[t]
        \/ pc'[t] = "idle"
        \/ StepsLeft(pc'[t], tries'[t]) < StepsLeft(pc[t], tries[t])

\* No request goes round: a decline gives up after its third sleep, and what follows the
\* answer goes forward, whatever other threads do to the limiter meanwhile.  A request
\* takes twenty steps at most.
THEOREM RequestsRunOut ==
    Spec => [](\A t \in Threads : StepsLeft(pc[t], tries[t]) \in 0 .. 20)
            /\ [][NearerToItsEnd]_vars
<1> DEFINE Few == \A t \in Threads : StepsLeft(pc[t], tries[t]) \in 0 .. 20
<1>1. TypeInv => Few
  <2> SUFFICES ASSUME TypeInv, NEW t \in Threads
               PROVE  StepsLeft(pc[t], tries[t]) \in 0 .. 20
    OBVIOUS
  <2>1. /\ pc[t] \in Holding \cup Outside /\ tries[t] \in 0 .. 3
        /\ pc[t] = "try" => tries[t] < 3
    BY DEF TypeInv, TypeOK, AttemptLeft
  <2>2. ASSUME NEW l \in Holding \cup Outside, NEW n \in 0 .. 3, l = "try" => n < 3
        PROVE  StepsLeft(l, n) \in 0 .. 20
    <3>1. CASE l = "try"
        BY <2>2, <3>1 DEF StepsLeft
    <3>2. CASE l = "sleep"
        BY <3>2 DEF StepsLeft
    <3>3. CASE l \notin {"try", "sleep"}
        BY <3>3 DEF StepsLeft, Holding, Outside
    <3>. QED BY <3>1, <3>2, <3>3
  <2>. QED BY <2>1, <2>2
<1>2. TypeInv /\ [Next]_vars => NearerToItsEnd
  <2> SUFFICES ASSUME TypeInv, [Next]_vars PROVE NearerToItsEnd
    OBVIOUS
  <2>1. /\ pc \in [Threads -> Holding \cup Outside] /\ tries \in [Threads -> 0 .. 3]
        /\ \A t \in Threads : pc[t] = "try" => tries[t] < 3
    BY DEF TypeInv, TypeOK, AttemptLeft
  <2>2. ASSUME NEW t \in Threads, NEW l, NEW n, pc' = [pc EXCEPT ![t] = l],
               tries' = [tries EXCEPT ![t] = n],
               pc[t] # "idle" => l = "idle" \/ StepsLeft(l, n) < StepsLeft(pc[t], tries[t])
        PROVE  NearerToItsEnd
    BY <2>1, <2>2 DEF NearerToItsEnd
  <2>3. ASSUME NEW t \in Threads, NEW n \in Needs, DeclineCheck(t, n)
        PROVE  NearerToItsEnd
    BY <2>1, <2>3 DEF DeclineCheck, Goto, NearerToItsEnd
  <2>4. ASSUME NEW t \in Threads, DeclineLock(t) PROVE NearerToItsEnd
    <3>1. StepsLeft("try", 0) < StepsLeft(pc[t], tries[t])
        BY <2>4 DEF DeclineLock, StepsLeft
    <3>. QED BY <2>2, <2>4, <3>1 DEF DeclineLock, Goto
  <2>5. ASSUME NEW t \in Threads, NEW l, pc' = [pc EXCEPT ![t] = l], tries' = tries,
               l = "idle" \/ StepsLeft(l, tries[t]) < StepsLeft(pc[t], tries[t])
        PROVE  NearerToItsEnd
    <3>1. tries' = [tries EXCEPT ![t] = tries[t]]
        BY <2>1, <2>5
    <3>. QED BY <2>2, <2>5, <3>1
  <2>6. ASSUME NEW t \in Threads, DeclineTake(t) PROVE NearerToItsEnd
    <3>1. StepsLeft("sent", tries[t]) < StepsLeft(pc[t], tries[t])
        BY <2>1, <2>6 DEF DeclineTake, StepsLeft
    <3>. QED BY <2>5, <2>6, <3>1 DEF DeclineTake, Goto, local
  <2>7. ASSUME NEW t \in Threads, DeclineShort(t) PROVE NearerToItsEnd
    <3>1. StepsLeft("sleep", tries[t] + 1) < StepsLeft(pc[t], tries[t])
        BY <2>1, <2>7 DEF DeclineShort, StepsLeft
    <3>. QED BY <2>2, <2>7, <3>1 DEF DeclineShort, Goto
  <2>8. ASSUME NEW t \in Threads, DeclineWake(t) PROVE NearerToItsEnd
    <3> DEFINE l == IF tries[t] < 3 THEN "try" ELSE "raise"
    <3>1. StepsLeft(l, tries[t]) < StepsLeft(pc[t], tries[t])
        BY <2>1, <2>8 DEF DeclineWake, StepsLeft
    <3>2. pc' = [pc EXCEPT ![t] = l] /\ tries' = tries
        BY <2>8 DEF DeclineWake, Goto, local
    <3> HIDE DEF l
    <3>. QED BY <2>5, <3>1, <3>2
  <2>9. ASSUME NEW t \in Threads,
               DeclineRaise(t) \/ AnswerFailure(t) \/ ClearApply(t) \/ NoReset(t)
               \/ ResetSkip(t) \/ ResetApply(t)
        PROVE  NearerToItsEnd
    BY <2>5, <2>9 DEF DeclineRaise, AnswerFailure, ClearApply, NoReset, ResetSkip,
                      ResetApply, Goto, local
  <2>10. ASSUME NEW t \in Threads, NEW u \in Usages, AnswerUsage(t, u)
         PROVE  NearerToItsEnd
    <3>1. PICK l \in {"compensate", "header"} : pc' = [pc EXCEPT ![t] = l]
        BY <2>10 DEF AnswerUsage, Goto
    <3>2. StepsLeft(l, tries[t]) < StepsLeft(pc[t], tries[t])
        BY <2>10 DEF AnswerUsage, StepsLeft
    <3>. QED BY <2>5, <2>10, <3>1, <3>2 DEF AnswerUsage
  <2>11. ASSUME NEW t \in Threads, AnswerLimitReached(t) PROVE NearerToItsEnd
    <3>1. StepsLeft("clear", tries[t]) < StepsLeft(pc[t], tries[t])
        BY <2>11 DEF AnswerLimitReached, StepsLeft
    <3>. QED BY <2>5, <2>11, <3>1 DEF AnswerLimitReached, Goto, local
  <2>12. ASSUME NEW t \in Threads, CompensateCheck(t) PROVE NearerToItsEnd
    <3>1. PICK l \in {"givelock", "header"} : pc' = [pc EXCEPT ![t] = l]
        BY <2>12 DEF CompensateCheck, Goto
    <3>2. StepsLeft(l, tries[t]) < StepsLeft(pc[t], tries[t])
        BY <2>12 DEF CompensateCheck, StepsLeft
    <3>. QED BY <2>5, <2>12, <3>1, <3>2 DEF CompensateCheck, local
  <2>13. ASSUME NEW t \in Threads, CompensateApply(t) \/ CompensateTimeout(t)
         PROVE  NearerToItsEnd
    <3>1. StepsLeft("header", tries[t]) < StepsLeft(pc[t], tries[t])
        BY <2>13 DEF CompensateApply, CompensateTimeout, StepsLeft
    <3>. QED BY <2>5, <2>13, <3>1 DEF CompensateApply, CompensateTimeout, Goto, local
  <2>14. ASSUME NEW t \in Threads, ClearCheck(t) PROVE NearerToItsEnd
    <3>1. PICK l \in {"clearlock", "idle"} : pc' = [pc EXCEPT ![t] = l]
        BY <2>14 DEF ClearCheck, Goto
    <3>2. l = "idle" \/ StepsLeft(l, tries[t]) < StepsLeft(pc[t], tries[t])
        BY <2>14 DEF ClearCheck, StepsLeft
    <3>. QED BY <2>5, <2>14, <3>1, <3>2 DEF ClearCheck, local
  <2>15. ASSUME NEW t \in Threads, NEW tpm \in Tpms, ResetCheck(t, tpm)
         PROVE  NearerToItsEnd
    <3>1. StepsLeft("resetlock", tries[t]) < StepsLeft(pc[t], tries[t])
        BY <2>15 DEF ResetCheck, StepsLeft
    <3>. QED BY <2>5, <2>15, <3>1 DEF ResetCheck, Goto
  <2>16. CASE NextMinute \/ UNCHANGED vars
    BY <2>16 DEF NextMinute, local, vars, NearerToItsEnd
  <2>. QED BY <2>3, <2>4, <2>6, <2>7, <2>8, <2>9, <2>10, <2>11, <2>12, <2>13, <2>14, <2>15,
              <2>16 DEF Next, Decline, Answer, Settle
<1>. QED BY <1>1, <1>2, InitTypeInv, NextTypeInv, PTL DEF Spec

-----------------------------------------------------------------------------
(* StreamReader.                                                            *)

\* One chunk more at the end of the first n.
LEMMA UpToNext ==
    ASSUME NEW n \in Nat
    PROVE  UpTo(n + 1) = Append(UpTo(n), n + 1)
BY DEF UpTo

\* The chunks so far are chunks, and none are none.
LEMMA UpToType ==
    ASSUME NEW n \in 0 .. Length
    PROVE  UpTo(n) \in Seq(1 .. Length) /\ UpTo(0) = <<>>
<1>1. \A i \in 1 .. n : i \in 1 .. Length
    BY StreamAssumption
<1>. QED BY <1>1 DEF UpTo

\* A sequence put together from two does not change when the second one grows
\* at its end as the whole does, or when its head moves over to the first.
LEMMA PutAtEnd ==
    ASSUME NEW S, NEW a \in Seq(S), NEW b \in Seq(S), NEW x \in S
    PROVE  a \o Append(b, x) = Append(a \o b, x)
OBVIOUS

LEMMA PutNothing ==
    ASSUME NEW S, NEW a \in Seq(S)
    PROVE  a \o <<>> = a
OBVIOUS

LEMMA AppendType ==
    ASSUME NEW S, NEW b \in Seq(S), NEW x \in S
    PROVE  Append(b, x) \in Seq(S) /\ Append(b, x) # <<>>
<1>1. Append(b, x) \in Seq(S)
    OBVIOUS
<1>2. Len(Append(b, x)) = Len(b) + 1 /\ Len(b) \in Nat /\ Len(<<>>) = 0
    OBVIOUS
<1>3. Append(b, x) # <<>>
    BY <1>2
<1>. QED BY <1>1, <1>3

LEMMA MoveHead ==
    ASSUME NEW S, NEW a \in Seq(S), NEW b \in Seq(S), b # <<>>
    PROVE  /\ Head(b) \in S /\ Tail(b) \in Seq(S)
           /\ Append(a, Head(b)) \in Seq(S)
           /\ Append(a, Head(b)) \o Tail(b) = a \o b
<1>1. Head(b) \in S /\ Tail(b) \in Seq(S) /\ Len(b) \in Nat \ {0}
    BY SMT
<1>2. Append(a, Head(b)) \o Tail(b) = a \o b
    BY <1>1, SMT
<1>. QED BY <1>1, <1>2, AppendType

-----------------------------------------------------------------------------

\* A consumer about to take a chunk finds one: nobody else takes from its queue.
GetFinds == \A s \in Streams : consumer[s] = "get" => queue[s] # <<>>

OrderInv == StreamTypeOK /\ GetFinds /\ NothingReorderedOrLost

\* The initial states have their types and their order.
LEMMA InitOrderInv == StreamInit => OrderInv
<1> SUFFICES ASSUME StreamInit PROVE OrderInv
    OBVIOUS
<1>1. Length \in Nat /\ <<>> \in Seq(1 .. Length)
    BY StreamAssumption
<1>2. StreamTypeOK
    BY <1>1 DEF StreamInit, StreamTypeOK, WorkerStates, ConsumerStates
<1>3. <<>> \o <<>> = UpTo(0)
    BY DEF UpTo
<1>4. NothingReorderedOrLost
    BY <1>3 DEF StreamInit, NothingReorderedOrLost, ReadOff
<1>. QED BY <1>2, <1>4 DEF StreamInit, OrderInv, GetFinds

\* The reader appends the next chunk.
LEMMA ReadKeepsOrder ==
    ASSUME OrderInv, NEW s \in Streams, ReadChunk(s)
    PROVE  OrderInv'
<1>1. /\ got \in [Streams -> Seq(1 .. Length)] /\ queue \in [Streams -> Seq(1 .. Length)]
      /\ position \in [Streams -> 0 .. Length] /\ Length \in Nat
      /\ got[s] \in Seq(1 .. Length) /\ queue[s] \in Seq(1 .. Length)
      /\ position[s] \in Nat /\ position[s] + 1 \in 1 .. Length
    BY StreamAssumption DEF OrderInv, StreamTypeOK, ReadChunk
<1> DEFINE p == position[s] + 1
<1>2. /\ position' = [position EXCEPT ![s] = p]
      /\ queue' = [queue EXCEPT ![s] = Append(@, p)] /\ got' = got
    BY <1>1 DEF ReadChunk, OrderInv, StreamTypeOK
<1>3. Append(queue[s], p) \in Seq(1 .. Length) /\ Append(queue[s], p) # <<>>
    BY <1>1, AppendType
<1>4. got[s] \o Append(queue[s], p) = Append(got[s] \o queue[s], p)
    BY <1>1, PutAtEnd
<1> DEFINE chunks == got[s] \o queue[s]
<1>5. ReadOff(s, chunks)
    BY DEF OrderInv, NothingReorderedOrLost
<1>6. \/ Append(chunks, p) = UpTo(p)
      \/ /\ refreshed[s] /\ mode[s] # "async"
         /\ \E k \in 0 .. Length : Append(chunks, p) = UpTo(k) \o UpTo(p)
  <2>1. UpTo(p) = Append(UpTo(position[s]), p)
    BY <1>1, UpToNext
  <2>2. CASE chunks = UpTo(position[s])
    BY <2>1, <2>2
  <2>3. ASSUME refreshed[s], mode[s] # "async", NEW k \in 0 .. Length,
               chunks = UpTo(k) \o UpTo(position[s])
        PROVE  Append(chunks, p) = UpTo(k) \o UpTo(p)
    <3>1. UpTo(k) \in Seq(1 .. Length) /\ UpTo(position[s]) \in Seq(1 .. Length)
        BY <1>1, UpToType
    <3>2. UpTo(k) \o Append(UpTo(position[s]), p) = Append(UpTo(k) \o UpTo(position[s]), p)
        BY <1>1, <3>1, PutAtEnd
    <3>. QED BY <2>1, <2>3, <3>2
  <2>. QED BY <1>5, <2>2, <2>3 DEF ReadOff
<1>7. StreamTypeOK'
    BY <1>1, <1>2, <1>3 DEF OrderInv, StreamTypeOK, ReadChunk
<1>8. NothingReorderedOrLost'
  <2>1. /\ got'[s] \o queue'[s] = Append(chunks, p) /\ position'[s] = p
        /\ refreshed' = refreshed /\ mode' = mode
    BY <1>1, <1>2, <1>4 DEF ReadChunk
  <2>2. \A r \in Streams : r # s => /\ got'[r] \o queue'[r] = got[r] \o queue[r]
                                    /\ position'[r] = position[r]
    BY <1>1, <1>2
  <2>3. \A r \in Streams : ReadOff(r, got[r] \o queue[r])
    BY DEF OrderInv, NothingReorderedOrLost
  <2> HIDE DEF chunks, p
  <2>4. ASSUME NEW r \in Streams PROVE ReadOff(r, got[r] \o queue[r])'
    <3>1. CASE r = s
        BY <1>6, <2>1, <3>1 DEF ReadOff
    <3>2. CASE r # s
        BY <2>1, <2>2, <2>3, <3>2 DEF ReadOff
    <3>. QED BY <3>1, <3>2
  <2>. QED BY <2>4 DEF NothingReorderedOrLost
<1>9. GetFinds'
    BY <1>1, <1>2, <1>3 DEF OrderInv, GetFinds, ReadChunk
<1>. QED BY <1>7, <1>8, <1>9 DEF OrderInv

\* The consumer takes the first chunk of the queue.
LEMMA TakeKeepsOrder ==
    ASSUME OrderInv, NEW s \in Streams, Take(s), queue[s] # <<>>,
           UNCHANGED <<mode, worker, position, refreshed, closed>>
    PROVE  OrderInv'
<1>1. /\ got \in [Streams -> Seq(1 .. Length)] /\ queue \in [Streams -> Seq(1 .. Length)]
      /\ got[s] \in Seq(1 .. Length) /\ queue[s] \in Seq(1 .. Length)
    BY DEF OrderInv, StreamTypeOK
<1>2. /\ got' = [got EXCEPT ![s] = Append(@, Head(queue[s]))]
      /\ queue' = [queue EXCEPT ![s] = Tail(@)]
      /\ consumer' = [consumer EXCEPT ![s] = "yielded"]
    BY DEF Take
<1>3. /\ Tail(queue[s]) \in Seq(1 .. Length)
      /\ Append(got[s], Head(queue[s])) \in Seq(1 .. Length)
      /\ Append(got[s], Head(queue[s])) \o Tail(queue[s]) = got[s] \o queue[s]
  <2> DEFINE S == 1 .. Length
  <2>1. got[s] \in Seq(S) /\ queue[s] \in Seq(S) /\ queue[s] # <<>>
    BY <1>1
  <2> HIDE DEF S
  <2>2. /\ Tail(queue[s]) \in Seq(S)
        /\ Append(got[s], Head(queue[s])) \in Seq(S)
        /\ Append(got[s], Head(queue[s])) \o Tail(queue[s]) = got[s] \o queue[s]
    BY <2>1, MoveHead
  <2>. QED BY <2>2 DEF S
<1>4. StreamTypeOK'
    BY <1>1, <1>2, <1>3 DEF OrderInv, StreamTypeOK, ConsumerStates
<1>5. NothingReorderedOrLost'
  <2>1. \A r \in Streams : got'[r] \o queue'[r] = got[r] \o queue[r]
    BY <1>1, <1>2, <1>3
  <2>. QED BY <2>1 DEF OrderInv, NothingReorderedOrLost, ReadOff
<1>6. GetFinds'
    BY <1>1, <1>2 DEF OrderInv, StreamTypeOK, GetFinds
<1>. QED BY <1>4, <1>5, <1>6 DEF OrderInv

\* A refresh in the middle of a synchronous answer: all that was read is given up, and
\* nothing has been read off the new connection.
LEMMA RereadKeepsOrder ==
    ASSUME OrderInv, NEW s \in Streams, RefreshAndReread(s)
    PROVE  OrderInv'
<1>1. /\ position \in [Streams -> 0 .. Length] /\ refreshed \in [Streams -> BOOLEAN]
      /\ position' = [position EXCEPT ![s] = 0]
      /\ refreshed' = [refreshed EXCEPT ![s] = TRUE] /\ mode[s] # "async" /\ ~ refreshed[s]
      /\ UNCHANGED <<mode, worker, queue, closed, consumer, got>>
    BY DEF OrderInv, StreamTypeOK, RefreshAndReread
<1>2. StreamTypeOK'
    BY <1>1, StreamAssumption DEF OrderInv, StreamTypeOK
<1>3. \A r \in Streams : ReadOff(r, got[r] \o queue[r])
    BY DEF OrderInv, NothingReorderedOrLost
<1>4. ASSUME NEW r \in Streams PROVE ReadOff(r, got[r] \o queue[r])'
  <2>1. CASE r = s
    <3>1. got[s] \o queue[s] = UpTo(position[s])
        BY <1>1, <1>3 DEF ReadOff
    <3>2. UpTo(position[s]) \in Seq(1 .. Length) /\ UpTo(0) = <<>>
        BY <1>1, UpToType
    <3>3. got[s] \o queue[s] = UpTo(position[s]) \o UpTo(0)
        BY <3>1, <3>2, PutNothing
    <3>. QED BY <1>1, <2>1, <3>3 DEF ReadOff
  <2>2. CASE r # s
    BY <1>1, <1>3, <2>2 DEF ReadOff
  <2>. QED BY <2>1, <2>2
<1>5. GetFinds'
    BY <1>1 DEF OrderInv, GetFinds
<1>. QED BY <1>2, <1>4, <1>5 DEF OrderInv, NothingReorderedOrLost

\* Every other step leaves what was read and what was given alone.
LEMMA NextOrderInv == OrderInv /\ [StreamNext]_streamVars => OrderInv'
<1> SUFFICES ASSUME OrderInv, [StreamNext]_streamVars PROVE OrderInv'
    OBVIOUS
<1>1. ASSUME NEW s \in Streams, ReadChunk(s) PROVE OrderInv'
    BY <1>1, ReadKeepsOrder
<1>2. ASSUME NEW s \in Streams, Get(s) PROVE OrderInv'
    BY <1>2, TakeKeepsOrder DEF Get, reading, OrderInv, GetFinds
<1>3. ASSUME NEW s \in Streams, AsyncTake(s) PROVE OrderInv'
    BY <1>3, TakeKeepsOrder DEF AsyncTake, reading
<1>4. ASSUME NEW s \in Streams,
             PoolRun(s) \/ ReadEnd(s) \/ ReadFailure(s)
      PROVE  OrderInv'
    BY <1>4 DEF PoolRun, ReadEnd, ReadFailure, OrderInv, StreamTypeOK, GetFinds,
                NothingReorderedOrLost, ReadOff, WorkerStates
<1>7. ASSUME NEW s \in Streams, RefreshAndReread(s) PROVE OrderInv'
    BY <1>7, RereadKeepsOrder
<1>8. ASSUME NEW s \in Streams, RefreshAndGoOn(s) PROVE OrderInv'
  <2>1. /\ refreshed \in [Streams -> BOOLEAN]
        /\ refreshed' = [refreshed EXCEPT ![s] = TRUE] /\ mode[s] = "async"
        /\ UNCHANGED <<mode, worker, position, queue, closed, consumer, got>>
    BY <1>8 DEF OrderInv, StreamTypeOK, RefreshAndGoOn
  <2>. QED BY <2>1 DEF OrderInv, StreamTypeOK, GetFinds, NothingReorderedOrLost, ReadOff
<1>5. ASSUME NEW s \in Streams,
             Start(s) \/ StressWait(s) \/ TestEmpty(s) \/ TestClosed(s)
                 \/ AsyncStop(s) \/ Resume(s) \/ Abandon(s)
      PROVE  OrderInv'
    BY <1>5 DEF Start, StressWait, TestEmpty, TestClosed, AsyncStop, Resume,
                Abandon, reading, OrderInv, StreamTypeOK, GetFinds,
                NothingReorderedOrLost, ReadOff, WorkerStates, ConsumerStates
<1>6. CASE UNCHANGED streamVars
    BY <1>6 DEF streamVars, OrderInv, StreamTypeOK, GetFinds, NothingReorderedOrLost, ReadOff
<1>. QED BY <1>1, <1>2, <1>3, <1>4, <1>5, <1>6, <1>7, <1>8 DEF StreamNext, Worker, Consumer

\* Type correctness of the readers and their consumers.
THEOREM StreamTypeCorrect == StreamSpec => []StreamTypeOK
<1>1. OrderInv => StreamTypeOK
    BY DEF OrderInv
<1>. QED BY <1>1, InitOrderInv, NextOrderInv, PTL DEF StreamSpec

\* What was given and what waits on the queue are exactly what was read, in order,
\* whichever way the answer is read: once each, or, if the token expired in the middle of
\* a synchronous answer, once more from the first.
THEOREM OrderKept == StreamSpec => []NothingReorderedOrLost
<1>1. OrderInv => NothingReorderedOrLost
    BY DEF OrderInv
<1>. QED BY <1>1, InitOrderInv, NextOrderInv, PTL DEF StreamSpec

-----------------------------------------------------------------------------

\* The strengthening of DrainedWhenFinished: a stream is closed by a reader that
\* has read it all, a stress test's consumer reads only closed streams, and a
\* consumer of these two kinds that finds no more chunks finds none later.
ClosedRead ==
    \A s \in Streams :
        /\ consumer[s] = "unborn" => worker[s] = "unborn"
        /\ closed[s] => worker[s] = "done"
        /\ worker[s] = "done" /\ ~ (mode[s] = "async" /\ refreshed[s])
               => position[s] = Length

StressReadsClosed ==
    \A s \in Streams :
        mode[s] = "stress" /\ consumer[s] \notin {"unborn", "block"} => closed[s]

NoMoreChunks ==
    \A s \in Streams :
        /\ mode[s] = "stress" /\ consumer[s] \in {"closed", "finished"}
               => queue[s] = <<>>
        /\ mode[s] = "async" /\ consumer[s] = "finished"
               => closed[s] /\ queue[s] = <<>>
        /\ mode[s] = "async" => consumer[s] # "closed"

DrainInv == OrderInv /\ ClosedRead /\ StressReadsClosed /\ NoMoreChunks

\* Every step keeps it: a closed stream is never put on again.
LEMMA NextDrainInv == DrainInv /\ [StreamNext]_streamVars => DrainInv'
<1> SUFFICES ASSUME DrainInv, [StreamNext]_streamVars
             PROVE  ClosedRead' /\ StressReadsClosed' /\ NoMoreChunks'
    BY NextOrderInv DEF DrainInv
<1>1. StreamTypeOK
    BY DEF DrainInv, OrderInv
<1> USE DEF DrainInv, StreamTypeOK, ClosedRead, StressReadsClosed, NoMoreChunks
<1>2. ASSUME NEW s \in Streams, ReadChunk(s)
      PROVE  ClosedRead' /\ StressReadsClosed' /\ NoMoreChunks'
  <2>1. worker[s] = "reading" /\ ~ closed[s]
    BY <1>2 DEF ReadChunk
  <2>. QED BY <1>1, <1>2, <2>1 DEF ReadChunk
<1>3. ASSUME NEW s \in Streams, Get(s) \/ AsyncTake(s)
      PROVE  ClosedRead' /\ StressReadsClosed' /\ NoMoreChunks'
  <2> DEFINE rest == Tail(queue[s])
  <2>1. /\ consumer[s] \in {"get", "empty"}
        /\ consumer' = [consumer EXCEPT ![s] = "yielded"]
        /\ queue' = [queue EXCEPT ![s] = rest]
        /\ UNCHANGED <<mode, worker, position, refreshed, closed>>
    BY <1>3 DEF Get, AsyncTake, Take, reading
  <2> HIDE DEF rest
  <2>2. ClosedRead'
    BY <1>1, <2>1
  <2>3. StressReadsClosed'
    BY <1>1, <2>1
  <2>4. NoMoreChunks'
    BY <1>1, <2>1
  <2>. QED BY <2>2, <2>3, <2>4
<1>4. ASSUME NEW s \in Streams, PoolRun(s) \/ ReadFailure(s)
      PROVE  ClosedRead' /\ StressReadsClosed' /\ NoMoreChunks'
    BY <1>1, <1>4 DEF PoolRun, ReadFailure
<1>5. ASSUME NEW s \in Streams, ReadEnd(s)
      PROVE  ClosedRead' /\ StressReadsClosed' /\ NoMoreChunks'
    BY <1>1, <1>5 DEF ReadEnd
<1>6. ASSUME NEW s \in Streams, RefreshAndReread(s) \/ RefreshAndGoOn(s)
      PROVE  ClosedRead' /\ StressReadsClosed' /\ NoMoreChunks'
  <2>1. CASE RefreshAndReread(s)
    BY <1>1, <2>1 DEF RefreshAndReread
  <2>2. CASE RefreshAndGoOn(s)
    BY <1>1, <2>2 DEF RefreshAndGoOn
  <2>. QED BY <1>6, <2>1, <2>2
<1>7. ASSUME NEW s \in Streams, Start(s)
      PROVE  ClosedRead' /\ StressReadsClosed' /\ NoMoreChunks'
  <2> DEFINE w == IF mode[s] = "pool" THEN "submitted" ELSE "reading"
             c == CASE mode[s] = "stress" -> "block"
                    [] mode[s] = "async" -> "yielded"
                    [] OTHER -> "empty"
  <2>1. /\ worker[s] = "unborn" /\ ~ closed[s]
        /\ w \in {"submitted", "reading"} /\ c \in {"block", "yielded", "empty"}
        /\ mode[s] = "stress" => c = "block"
    BY <1>1, <1>7 DEF Start
  <2>2. /\ worker' = [worker EXCEPT ![s] = w]
        /\ consumer' = [consumer EXCEPT ![s] = c]
        /\ UNCHANGED <<mode, position, refreshed, queue, closed, got>>
    BY <1>7 DEF Start
  <2> HIDE DEF w, c
  <2>. QED BY <1>1, <2>1, <2>2
<1>8. ASSUME NEW s \in Streams,
             StressWait(s) \/ TestEmpty(s) \/ TestClosed(s)
                 \/ AsyncStop(s) \/ Resume(s) \/ Abandon(s)
      PROVE  ClosedRead' /\ StressReadsClosed' /\ NoMoreChunks'
  <2>1. CASE StressWait(s)
    BY <1>1, <2>1 DEF StressWait, reading
  <2>2. CASE TestEmpty(s)
    BY <1>1, <2>2 DEF TestEmpty, reading
  <2>3. CASE TestClosed(s)
    BY <1>1, <2>3 DEF TestClosed, reading
  <2>4. CASE AsyncStop(s) \/ Resume(s) \/ Abandon(s)
    BY ZenonT(60), <1>1, <2>4 DEF AsyncStop, Resume, Abandon, reading
  <2>. QED BY <1>8, <2>1, <2>2, <2>3, <2>4
<1>9. CASE UNCHANGED streamVars
    BY <1>9 DEF streamVars
<1>. QED BY <1>2, <1>3, <1>4, <1>5, <1>6, <1>7, <1>8, <1>9
         DEF StreamNext, Worker, Consumer

\* A consumer that waits for the end first, or that tests the queue after the
\* flag, is given all that was read, and that is the whole answer, but for an
\* asynchronous one whose token expired.
THEOREM Drained == StreamSpec => []DrainedWhenFinished
<1>1. StreamInit => DrainInv
    BY InitOrderInv DEF DrainInv, StreamInit, ClosedRead, StressReadsClosed, NoMoreChunks
<1>2. DrainInv => DrainedWhenFinished
  <2> SUFFICES ASSUME DrainInv, NEW s \in Streams, consumer[s] = "finished",
                      mode[s] \in {"stress", "async"}
               PROVE  /\ ReadOff(s, got[s])
                      /\ position[s] = Length \/ (mode[s] = "async" /\ refreshed[s])
    BY DEF DrainedWhenFinished
  <2>1. queue[s] = <<>> /\ closed[s]
    BY DEF DrainInv, StressReadsClosed, NoMoreChunks
  <2>2. position[s] = Length \/ (mode[s] = "async" /\ refreshed[s])
    BY <2>1 DEF DrainInv, ClosedRead
  <2>3. got[s] \o queue[s] = got[s]
    BY <2>1, PutNothing DEF DrainInv, OrderInv, StreamTypeOK
  <2>4. ReadOff(s, got[s] \o queue[s])
    BY DEF DrainInv, OrderInv, NothingReorderedOrLost
  <2>. QED BY <2>2, <2>3, <2>4
<1>. QED BY <1>1, <1>2, NextDrainInv, PTL DEF StreamSpec

=============================================================================
