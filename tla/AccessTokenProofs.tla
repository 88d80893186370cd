------------------------- MODULE AccessTokenProofs -------------------------
(***************************************************************************)
(* Theorems about AccessToken, for any callers of any kinds, any number of *)
(* calls and attempts, and any interval, margin and lifetime.              *)
(***************************************************************************)
EXTENDS AccessToken, TLAPS

\* A call that is typed stays so as the server issues tokens and time passes.
LEMMA CallTypeGrows ==
    ASSUME NEW n \in Nat, NEW m \in Nat, NEW t \in Nat, NEW u \in Nat,
           n <= m, t <= u
    PROVE  CallType(n, t) \subseteq CallType(m, u)
BY DEF CallType

LEMMA NewCallType ==
    ASSUME NEW n \in Nat, NEW t \in Nat
    PROVE  NewCall \in CallType(n, t)
BY TokenAssumption DEF NewCall, CallType, None

\* The initial states have their types.
LEMMA InitType == Init => TypeOK
<1> SUFFICES ASSUME Init PROVE TypeOK
    OBVIOUS
<1>1. /\ Lifetime \in Nat /\ Attempts \in Nat \ {0}
    BY TokenAssumption
<1>2. issued \in Seq(Nat) /\ Len(issued) \in Nat /\ dead \subseteq DOMAIN issued
      /\ accessToken \in 0 .. Len(issued)
    BY DEF Init, None
<1>3. now \in Nat /\ refreshAt \in 0 .. now /\ token \in 0 .. Len(issued)
    BY <1>1, <1>2 DEF Init, None
<1>4. call \in [Callers -> CallType(Len(issued), now)]
    BY <1>2, <1>3, NewCallType DEF Init
<1>. QED BY <1>1, <1>2, <1>3, <1>4
         DEF Init, TypeOK, States, Refreshing

-----------------------------------------------------------------------------

\* A step of a caller that moves neither the clock nor the server keeps the
\* types when it keeps those of the variables it writes.
LEMMA CallerKeepsType ==
    ASSUME TypeOK, NEW c \in Callers,
           UNCHANGED <<config, now, server>>,
           calls' \in [Callers -> Nat],
           NEW l \in States, pc' = [pc EXCEPT ![c] = l],
           NEW d \in CallType(Len(issued), now), call' = [call EXCEPT ![c] = d],
           accessToken' \in 0 .. Len(issued), registered' \in BOOLEAN,
           known' \in BOOLEAN, token' \in 0 .. Len(issued), refreshAt' \in 0 .. now,
           \/ UNCHANGED locks
           \/ Release(c) /\ pc[c] \in Refreshing,
           l \in Refreshing =>
               /\ pc[c] \in Refreshing /\ UNCHANGED locks
               /\ d.goal = call[c].goal /\ d.sentAt = call[c].sentAt
    PROVE  TypeOK'
<1>1. /\ kind' = kind /\ given' = given /\ now' = now /\ issued' = issued
      /\ dead' = dead
    BY DEF config, server
<1>2. /\ pc' \in [Callers -> States]
      /\ call' \in [Callers -> CallType(Len(issued), now)]
    BY DEF TypeOK
<1>3. /\ lock' \in Callers \cup {Nobody} /\ alock' \in Callers \cup {Nobody}
    BY DEF TypeOK, Release, locks
<1>4. ASSUME NEW e \in Callers, pc'[e] \in Refreshing PROVE Holds(e)'
  <2>1. pc[e] \in Refreshing /\ Holds(e)
    BY <1>4 DEF TypeOK
  <2>2. /\ call'[e].goal = call[e].goal /\ call'[e].sentAt = call[e].sentAt
        /\ e = c => UNCHANGED locks
    BY <1>4 DEF TypeOK
  <2>3. Threaded(e)' <=> Threaded(e)
    BY <1>1, <2>2 DEF Threaded
  <2>4. CASE UNCHANGED locks
    BY <1>1, <2>1, <2>2, <2>3, <2>4 DEF Holds, locks
  <2>5. CASE Release(c) /\ pc[c] \in Refreshing /\ e # c
    <3>1. Holds(c) /\ c # Nobody /\ e # Nobody
        BY <2>5, TokenAssumption DEF TypeOK
    <3>2. IF Threaded(e) THEN lock' = e ELSE alock' = e
        BY <2>1, <2>5, <3>1 DEF Holds, Release
    <3>. QED BY <1>1, <2>1, <2>2, <2>3, <3>2 DEF Holds
  <2>. QED BY <2>2, <2>4, <2>5
<1>. QED BY <1>1, <1>2, <1>3, <1>4 DEF TypeOK

\* Registration, whichever way it goes.
LEMMA RegisterKeepsType ==
    ASSUME TypeOK, NEW c \in Callers, Register(c)
    PROVE  TypeOK'
<1> DEFINE n == Len(issued)
<1>1. /\ pc[c] \in States /\ call[c] \in CallType(n, now) /\ n \in Nat
      /\ call = [call EXCEPT ![c] = call[c]]
    BY DEF TypeOK
<1>2. /\ call[c].arg \in 0 .. n /\ accessToken \in 0 .. n /\ None \in 0 .. n
    BY <1>1 DEF TypeOK, CallType, None
<1> DEFINE Kept == /\ calls \in [Callers -> Nat] /\ registered \in BOOLEAN
                   /\ known \in BOOLEAN /\ token \in 0 .. n
                   /\ refreshAt \in 0 .. now /\ 0 \in 0 .. now
<1>3. Kept
    BY DEF TypeOK
<1>4. CASE TestRegistered(c)
  <2>1. PICK l \in {"get", "lock", "pass"} : pc' = [pc EXCEPT ![c] = l]
    BY <1>4 DEF TestRegistered, Goto, AfterRegister
  <2>2. l \in States /\ l \notin Refreshing
    BY DEF States, Refreshing
  <2>3. call' = [call EXCEPT ![c] = call[c]]
    BY <1>1, <1>4 DEF TestRegistered
  <2>. QED BY <1>1, <1>2, <1>3, <1>4, <2>1, <2>2, <2>3, CallerKeepsType
           DEF TestRegistered, auth, object
<1>5. CASE PassToken(c)
  <2> DEFINE d == [call[c] EXCEPT !.arg = accessToken]
  <2>1. d \in CallType(n, now)
    BY <1>1, <1>2 DEF CallType
  <2>2. "map" \in States /\ "map" \notin Refreshing
    BY DEF States, Refreshing
  <2>3. call' = [call EXCEPT ![c] = d] /\ pc' = [pc EXCEPT ![c] = "map"]
    BY <1>1, <1>5 DEF PassToken, Goto
  <2> HIDE DEF d
  <2>. QED BY <1>2, <1>3, <1>5, <2>1, <2>2, <2>3, CallerKeepsType
           DEF PassToken, auth, object
<1>6. CASE RegisterNew(c)
  <2> DEFINE d == [call[c] EXCEPT !.registering = (call[c].arg = None), !.arg = None]
  <2>1. d \in CallType(n, now)
    BY <1>1, <1>2 DEF CallType
  <2>2. PICK l \in {"lock", "mark"} : pc' = [pc EXCEPT ![c] = l]
    BY <1>6 DEF RegisterNew, Goto
  <2>3. l \in States /\ l \notin Refreshing
    BY DEF States, Refreshing
  <2>4. call' = [call EXCEPT ![c] = d]
    BY <1>1, <1>6 DEF RegisterNew, CallType
  <2>5. /\ token' \in 0 .. n /\ known' \in BOOLEAN
        /\ UNCHANGED <<config, now, server, accessToken, registered, refreshAt,
                       locks, calls>>
    BY <1>2, <1>6 DEF RegisterNew
  <2> HIDE DEF d
  <2>. QED BY <1>2, <1>3, <2>1, <2>2, <2>3, <2>4, <2>5, CallerKeepsType
<1>7. CASE RegisterExisting(c)
  <2> DEFINE d == [call[c] EXCEPT !.arg = None]
  <2>1. d \in CallType(n, now)
    BY <1>1, <1>2 DEF CallType
  <2>2. PICK l \in {"zero", "mark"} : pc' = [pc EXCEPT ![c] = l]
    BY <1>7 DEF RegisterExisting, Goto
  <2>3. l \in States /\ l \notin Refreshing
    BY DEF States, Refreshing
  <2>4. call' = [call EXCEPT ![c] = d]
    BY <1>1, <1>7 DEF RegisterExisting
  <2>5. /\ token' \in 0 .. n
        /\ UNCHANGED <<config, now, server, auth, refreshAt, locks, calls>>
    BY <1>2, <1>3, <1>7 DEF RegisterExisting
  <2> HIDE DEF d
  <2>. QED BY <1>2, <1>3, <2>1, <2>2, <2>3, <2>4, <2>5, CallerKeepsType DEF auth
<1>8. CASE RegisterZero(c)
  <2>1. "mark" \in States /\ "mark" \notin Refreshing
    BY DEF States, Refreshing
  <2>2. call' = [call EXCEPT ![c] = call[c]] /\ pc' = [pc EXCEPT ![c] = "mark"]
    BY <1>1, <1>8 DEF RegisterZero, Goto
  <2>. QED BY <1>1, <1>2, <1>3, <1>8, <2>1, <2>2, CallerKeepsType
           DEF RegisterZero, auth
<1>9. CASE MarkRegistered(c)
  <2>1. PICK l \in {"get", "lock"} : pc' = [pc EXCEPT ![c] = l]
    BY <1>9 DEF MarkRegistered, Goto, AfterRegister
  <2>2. l \in States /\ l \notin Refreshing
    BY DEF States, Refreshing
  <2>3. call' = [call EXCEPT ![c] = call[c]]
    BY <1>1, <1>9 DEF MarkRegistered
  <2>. QED BY <1>1, <1>2, <1>3, <1>9, <2>1, <2>2, <2>3, CallerKeepsType
           DEF MarkRegistered, object
<1>. QED BY <1>4, <1>5, <1>6, <1>7, <1>8, <1>9 DEF Register

\* A refresh that starts takes the lock of its kind.
LEMMA StartKeepsType ==
    ASSUME TypeOK, NEW c \in Callers, StartRefresh(c)
    PROVE  TypeOK'
<1> DEFINE d == [call[c] EXCEPT !.sentAt = now]
<1>1. /\ call[c] \in CallType(Len(issued), now) /\ now \in Nat
      /\ Len(issued) \in Nat /\ AuthTimeout \in Nat /\ c # Nobody
    BY TokenAssumption DEF TypeOK
<1>2. d \in CallType(Len(issued), now) /\ d.goal = call[c].goal /\ d.sentAt = now
    BY SMTT(30), <1>1 DEF CallType
<1>3. /\ call' = [call EXCEPT ![c] = d] /\ pc' = [pc EXCEPT ![c] = "ask"]
      /\ Free(c) /\ Acquire(c)
      /\ UNCHANGED <<config, now, server, auth, object, calls>>
    BY DEF StartRefresh, Goto
<1> HIDE DEF d
<1>4. pc' \in [Callers -> States] /\ call' \in [Callers -> CallType(Len(issued), now)]
    BY <1>2, <1>3 DEF TypeOK, States, Refreshing
<1>5. lock' \in Callers \cup {Nobody} /\ alock' \in Callers \cup {Nobody}
    BY <1>3 DEF TypeOK, Acquire
<1>6. ASSUME NEW e \in Callers, pc'[e] \in Refreshing PROVE Holds(e)'
  <2>1. Threaded(e)' <=> Threaded(e)
    BY <1>2, <1>3 DEF TypeOK, Threaded, config
  <2>2. CASE e = c
    BY <1>1, <1>2, <1>3, <2>1, <2>2 DEF TypeOK, Holds, Acquire
  <2>3. CASE e # c
    <3>1. Holds(e) /\ pc[e] \in Refreshing /\ call'[e] = call[e] /\ e # Nobody
        BY <1>3, <1>6, <2>3, TokenAssumption DEF TypeOK
    <3>2. IF Threaded(e) THEN lock' = e ELSE alock' = e
        BY <1>3, <3>1 DEF Holds, Acquire, Free
    <3>. QED BY <1>3, <2>1, <3>1, <3>2 DEF Holds
  <2>. QED BY <2>2, <2>3
<1>7. /\ UNCHANGED <<kind, given, now, issued, dead, accessToken, registered, known,
                     token, refreshAt, calls>>
    BY <1>3 DEF config, server, auth, object
<1>. QED BY <1>4, <1>5, <1>6, <1>7 DEF TypeOK

\* The server issues one token more.
LEMMA AnswerKeepsType ==
    ASSUME TypeOK, NEW c \in Callers, Answer(c)
    PROVE  TypeOK'
<1> DEFINE n == Len(issued)
           d == [call[c] EXCEPT !.fresh = n + 1]
<1>1. /\ n \in Nat /\ now \in Nat /\ issued \in Seq(Nat) /\ DOMAIN issued = 1 .. n
      /\ call[c] \in CallType(n, now)
    BY DEF TypeOK
<1>2. issued' = Append(issued, now)
    BY DEF Answer
<1>3. issued' \in Seq(Nat) /\ Len(issued') = n + 1 /\ DOMAIN issued' = 1 .. n + 1
    BY <1>1, <1>2
<1>4. CallType(n, now) \subseteq CallType(n + 1, now)
    BY <1>1, CallTypeGrows
<1>5. d \in CallType(n + 1, now) /\ d.goal = call[c].goal /\ d.sentAt = call[c].sentAt
  <2>1. call[c] \in CallType(n + 1, now) /\ n + 1 \in 0 .. n + 1
    BY <1>1, <1>4
  <2> HIDE DEF n
  <2>. QED BY <2>1 DEF CallType
<1>6. /\ call' = [call EXCEPT ![c] = d] /\ pc' = [pc EXCEPT ![c] = "write"]
      /\ pc[c] = "ask"
      /\ UNCHANGED <<config, now, dead, auth, object, locks, calls>>
    BY <1>3 DEF Answer, Goto
<1> HIDE DEF d
<1>7. call' \in [Callers -> CallType(n + 1, now)] /\ pc' \in [Callers -> States]
    BY <1>4, <1>5, <1>6 DEF TypeOK, States, Refreshing
<1>8. ASSUME NEW e \in Callers, pc'[e] \in Refreshing PROVE Holds(e)'
  <2>1. pc[e] \in Refreshing /\ Holds(e)
    BY <1>6, <1>8 DEF TypeOK, Refreshing
  <2>2. call'[e].goal = call[e].goal /\ call'[e].sentAt = call[e].sentAt
    BY <1>5, <1>6 DEF TypeOK
  <2>. QED BY <1>6, <2>1, <2>2 DEF Holds, Threaded, config, locks
<1>9. /\ UNCHANGED <<kind, given, now, dead, accessToken, registered, known,
                     token, refreshAt, calls, lock, alock>>
    BY <1>6 DEF config, auth, object, locks
<1>10. /\ dead' \subseteq DOMAIN issued' /\ accessToken' \in 0 .. n + 1
       /\ token' \in 0 .. n + 1
    BY <1>1, <1>3, <1>9 DEF TypeOK
<1> HIDE DEF n
<1>. QED BY <1>3, <1>7, <1>8, <1>9, <1>10 DEF TypeOK

\* The clock goes on while every refresh under way has time left.
LEMMA TickKeepsType ==
    ASSUME TypeOK, Tick
    PROVE  TypeOK'
<1> DEFINE n == Len(issued)
<1>1. n \in Nat /\ now \in Nat /\ now' = now + 1 /\ refreshAt \in 0 .. now
    BY DEF TypeOK, Tick
<1>2. CallType(n, now) \subseteq CallType(n, now + 1)
    BY <1>1, CallTypeGrows
<1>3. /\ UNCHANGED <<kind, given, issued, dead, accessToken, registered, known, token,
                     refreshAt, lock, alock, pc, calls, call>>
    BY DEF Tick, config, server, auth, object, locks
<1>4. call' \in [Callers -> CallType(n, now')]
    BY <1>1, <1>2, <1>3 DEF TypeOK
<1>5. ASSUME NEW e \in Callers, pc'[e] \in Refreshing PROVE Holds(e)'
  <2>1. /\ Holds(e) /\ now < call[e].sentAt + AuthTimeout
        /\ call[e].sentAt \in Nat /\ AuthTimeout \in Nat
    BY <1>1, <1>3, <1>5, TokenAssumption DEF TypeOK, Tick, CallType
  <2>. QED BY <1>1, <1>3, <2>1 DEF Holds, Threaded
<1>6. refreshAt' \in 0 .. now' /\ now' \in Nat
    BY <1>1, <1>3
<1>. QED BY <1>3, <1>4, <1>5, <1>6 DEF TypeOK

\* Every other step of a refresh.
LEMMA RefreshKeepsType ==
    ASSUME TypeOK, NEW c \in Callers, Refresh(c)
    PROVE  TypeOK'
<1> DEFINE n == Len(issued)
<1>1. /\ pc[c] \in States /\ call[c] \in CallType(n, now) /\ n \in Nat
      /\ call = [call EXCEPT ![c] = call[c]]
    BY DEF TypeOK
<1>2. /\ call[c].fresh \in 0 .. n /\ None \in 0 .. n /\ 0 \in 0 .. now
      /\ now \in 0 .. now
    BY <1>1 DEF TypeOK, CallType, None
<1> DEFINE Kept == /\ calls \in [Callers -> Nat] /\ registered \in BOOLEAN
                   /\ known \in BOOLEAN /\ token \in 0 .. n
                   /\ refreshAt \in 0 .. now /\ accessToken \in 0 .. n
<1>3. Kept
    BY DEF TypeOK
<1>4. /\ {"mark", "forget", "enter"} \subseteq States \ Refreshing
      /\ "stamp" \in States
    BY DEF States, Refreshing
<1>5. CASE SkipRefresh(c)
  <2> DEFINE d == [call[c] EXCEPT !.registering = FALSE]
  <2>1. d \in CallType(n, now)
    BY <1>1 DEF CallType
  <2>2. PICK l \in {"mark", "forget"} : pc' = [pc EXCEPT ![c] = l]
    BY <1>5 DEF SkipRefresh, Goto, AfterRefresh
  <2>3. call' = [call EXCEPT ![c] = d]
    BY <1>1, <1>5 DEF SkipRefresh
  <2> HIDE DEF d
  <2>. QED BY <1>3, <1>4, <1>5, <2>1, <2>2, <2>3, CallerKeepsType
           DEF SkipRefresh, auth, object
<1>6. CASE WriteToken(c)
  <2> DEFINE d == [call[c] EXCEPT !.fresh = None]
  <2>1. /\ d \in CallType(n, now) /\ d.goal = call[c].goal
        /\ d.sentAt = call[c].sentAt
    BY <1>1, <1>2 DEF CallType
  <2>2. /\ call' = [call EXCEPT ![c] = d] /\ pc' = [pc EXCEPT ![c] = "stamp"]
        /\ pc[c] \in Refreshing
    BY <1>1, <1>6 DEF WriteToken, Goto, Refreshing
  <2> HIDE DEF d
  <2>. QED BY <1>2, <1>3, <1>4, <1>6, <2>1, <2>2, CallerKeepsType
           DEF WriteToken, auth
<1>7. CASE StampToken(c)
  <2> DEFINE d == [call[c] EXCEPT !.registering = FALSE, !.sentAt = 0]
  <2>1. d \in CallType(n, now)
    BY <1>1, <1>2 DEF CallType
  <2>2. PICK l \in {"mark", "forget"} : pc' = [pc EXCEPT ![c] = l]
    BY <1>7 DEF StampToken, Goto, AfterRefresh
  <2>3. call' = [call EXCEPT ![c] = d] /\ pc[c] \in Refreshing
    BY <1>1, <1>7 DEF StampToken, Refreshing
  <2> HIDE DEF d
  <2>. QED BY <1>2, <1>3, <1>4, <1>7, <2>1, <2>2, <2>3, CallerKeepsType
           DEF StampToken, auth
<1>8. CASE RefreshInVain(c)
  <2> DEFINE d == [call[c] EXCEPT !.registering = FALSE, !.sentAt = 0,
                                  !.faulted = TRUE]
  <2>1. d \in CallType(n, now)
    BY <1>1, <1>2 DEF CallType
  <2>2. PICK l \in {"mark", "forget"} : pc' = [pc EXCEPT ![c] = l]
    BY <1>8 DEF RefreshInVain, Goto, AfterRefresh
  <2>3. call' = [call EXCEPT ![c] = d] /\ pc[c] \in Refreshing
    BY <1>1, <1>8 DEF RefreshInVain, Refreshing
  <2> HIDE DEF d
  <2>. QED BY <1>3, <1>4, <1>8, <2>1, <2>2, <2>3, CallerKeepsType
           DEF RefreshInVain, auth, object
<1>9. CASE Forget(c)
  <2> DEFINE d == [call[c] EXCEPT !.refreshed = TRUE, !.goal = "send"]
  <2>1. d \in CallType(n, now)
    BY <1>1 DEF CallType
  <2>2. /\ call' = [call EXCEPT ![c] = d] /\ pc' = [pc EXCEPT ![c] = "enter"]
        /\ accessToken' \in 0 .. n
    BY <1>1, <1>2, <1>9 DEF Forget, Goto
  <2> HIDE DEF d
  <2>. QED BY <1>3, <1>4, <1>9, <2>1, <2>2, CallerKeepsType DEF Forget, object
<1>. QED BY <1>5, <1>6, <1>7, <1>8, <1>9, StartKeepsType, AnswerKeepsType
         DEF Refresh

\* The steps of a call outside register and refresh.
LEMMA RequestKeepsType ==
    ASSUME TypeOK, NEW c \in Callers, Request(c)
    PROVE  TypeOK'
<1> DEFINE n == Len(issued)
<1>1. /\ call[c] \in CallType(n, now) /\ n \in Nat /\ now \in Nat
      /\ call = [call EXCEPT ![c] = call[c]]
    BY DEF TypeOK
<1>2. /\ call[c].held \in 0 .. n /\ None \in 0 .. n /\ token \in 0 .. n
    BY <1>1 DEF TypeOK, CallType, None
<1> DEFINE Kept == /\ calls \in [Callers -> Nat] /\ registered \in BOOLEAN
                   /\ known \in BOOLEAN /\ token \in 0 .. n
                   /\ refreshAt \in 0 .. now /\ accessToken \in 0 .. n
<1>3. Kept
    BY DEF TypeOK
<1>4. {"send", "refused", "enter", "idle"} \subseteq States \ Refreshing
    BY DEF States, Refreshing
<1>5. NewCall \in CallType(n, now)
    BY <1>1, NewCallType
<1>6. CASE GetToken(c)
  <2> DEFINE d == [call[c] EXCEPT !.held = token]
  <2>1. d \in CallType(n, now)
    BY <1>1, <1>2 DEF CallType
  <2>2. call' = [call EXCEPT ![c] = d] /\ pc' = [pc EXCEPT ![c] = "send"]
    BY <1>1, <1>6 DEF GetToken, Goto
  <2> HIDE DEF d
  <2>. QED BY <1>3, <1>4, <1>6, <2>1, <2>2, CallerKeepsType
           DEF GetToken, auth, object
<1>7. CASE Refused(c)
    BY <1>1, <1>3, <1>4, <1>7, CallerKeepsType DEF Refused, Goto, auth, object
<1>8. CASE HandleRefused(c)
  <2> DEFINE d == [call[c] EXCEPT !.goal = "refresh", !.held = None,
                                  !.refused = call[c].held]
  <2>1. d \in CallType(n, now)
    BY <1>1, <1>2 DEF CallType
  <2>2. call' = [call EXCEPT ![c] = d] /\ pc' = [pc EXCEPT ![c] = "enter"]
    BY <1>1, <1>8 DEF HandleRefused, Goto
  <2> HIDE DEF d
  <2>. QED BY <1>3, <1>4, <1>8, <2>1, <2>2, CallerKeepsType
           DEF HandleRefused, auth, object
<1>9. CASE Retry(c)
  <2> DEFINE d == [NewCall EXCEPT !.attempt = call[c].attempt + 1,
                                  !.refreshed = call[c].refreshed,
                                  !.faulted = call[c].faulted,
                                  !.refused = call[c].refused]
  <2>1. d \in CallType(n, now)
    <3>1. /\ call[c].attempt \in 1 .. Attempts /\ call[c].refreshed \in BOOLEAN
          /\ call[c].faulted \in BOOLEAN /\ call[c].refused \in 0 .. n
        BY <1>1 DEF CallType
    <3>2. call[c].attempt < Attempts /\ Attempts \in Nat
        BY <1>9, TokenAssumption DEF Retry
    <3>3. call[c].attempt + 1 \in 1 .. Attempts
        BY <3>1, <3>2
    <3>. QED BY <1>5, <3>1, <3>3 DEF CallType
  <2>2. /\ call' = [call EXCEPT ![c] = d] /\ pc' = [pc EXCEPT ![c] = "enter"]
        /\ UNCHANGED locks \/ (Release(c) /\ pc[c] \in Refreshing)
    BY <1>9 DEF Retry, Goto, Refreshing
  <2> HIDE DEF d
  <2>. QED BY <1>3, <1>4, <1>9, <2>1, <2>2, CallerKeepsType
           DEF Retry, auth, object
<1>10. CASE Accepted(c) \/ RaiseRefused(c) \/ GiveUp(c)
  <2>1. /\ call' = [call EXCEPT ![c] = NewCall] /\ pc' = [pc EXCEPT ![c] = "idle"]
        /\ UNCHANGED <<config, now, server, auth, object, calls>>
        /\ UNCHANGED locks \/ (Release(c) /\ pc[c] \in Refreshing)
    BY <1>10 DEF Accepted, RaiseRefused, GiveUp, Leave, Goto, Refreshing
  <2>. QED BY <1>3, <1>4, <1>5, <2>1, CallerKeepsType DEF auth, object
<1>. QED BY <1>6, <1>7, <1>8, <1>9, <1>10 DEF Request

\* A call that begins, the clock and the server.
LEMMA NextType == TypeOK /\ [Next]_vars => TypeOK'
<1> SUFFICES ASSUME TypeOK, [Next]_vars PROVE TypeOK'
    OBVIOUS
<1>1. ASSUME NEW c \in Callers, Begin(c) PROVE TypeOK'
  <2>1. /\ call = [call EXCEPT ![c] = call[c]] /\ calls' \in [Callers -> Nat]
        /\ call[c] \in CallType(Len(issued), now)
    BY <1>1 DEF TypeOK, Begin
  <2>2. "enter" \in States /\ "enter" \notin Refreshing
    BY DEF States, Refreshing
  <2>3. /\ accessToken \in 0 .. Len(issued) /\ registered \in BOOLEAN
        /\ known \in BOOLEAN /\ token \in 0 .. Len(issued) /\ refreshAt \in 0 .. now
    BY DEF TypeOK
  <2>. QED BY <1>1, <2>1, <2>2, <2>3, CallerKeepsType DEF Begin, Goto, auth, object
<1>2. ASSUME NEW c \in Callers, Step(c) PROVE TypeOK'
    BY <1>2, RegisterKeepsType, RefreshKeepsType, RequestKeepsType DEF Step
<1>3. ASSUME NEW t, Expire(t) PROVE TypeOK'
  <2>1. dead' \subseteq DOMAIN issued
    BY <1>3 DEF Expire, TypeOK
  <2>2. UNCHANGED <<kind, given, now, issued, accessToken, registered, known, token,
                    refreshAt, lock, alock, pc, calls, call>>
    BY <1>3 DEF Expire, config, auth, object, locks
  <2>. QED BY <2>1, <2>2 DEF TypeOK, Holds, Threaded
<1>4. CASE Tick
    BY <1>4, TickKeepsType
<1>5. CASE UNCHANGED vars
  <2>1. UNCHANGED <<kind, given, now, issued, dead, accessToken, registered, known,
                    token, refreshAt, lock, alock, pc, calls, call>>
    BY <1>5 DEF vars, config, server, auth, object, locks
  <2>. QED BY <2>1 DEF TypeOK, Holds, Threaded
<1>. QED BY <1>1, <1>2, <1>3, <1>4, <1>5 DEF Next

\* Type correctness; in particular a refresh under way holds the lock of its
\* kind, whichever way a call comes to it, until it ends.
THEOREM TypeCorrect == Spec => []TypeOK
<1>. QED BY InitType, NextType, PTL DEF Spec

-----------------------------------------------------------------------------

\* The strengthening of RefreshedOnce: without a token of the user's nobody
\* resets refresh_at, so that it is never older than the last token issued
\* unless that token is still to be written, and who asks for one has found the
\* last one old enough.
Last == issued[Len(issued)]

NoGivenToken ==
    /\ accessToken = None
    /\ \A c \in Callers : call[c].arg = None /\ pc[c] # "zero"

LastInThePast == issued # <<>> => Last <= now

AskedInTime ==
    \A c \in Callers :
        pc[c] = "ask" /\ issued # <<>> => Last + MinInterval <= now + Early

StampedOrPending ==
    \/ \E c \in Callers : pc[c] \in {"write", "stamp"}
    \/ issued # <<>> => Last <= refreshAt

Single == OneLock /\ ~ given

OnceInv ==
    /\ TypeOK
    /\ RefreshedOnce
    /\ Single => NoGivenToken /\ LastInThePast /\ AskedInTime /\ StampedOrPending

\* It holds before any token is issued.
LEMMA InitOnce == Init => OnceInv
<1> SUFFICES ASSUME Init, Single
             PROVE  NoGivenToken /\ LastInThePast /\ AskedInTime /\ StampedOrPending
                    /\ RefreshedOnce
    BY InitType DEF OnceInv, RefreshedOnce, Single
<1>1. issued = <<>> /\ Len(<<>>) = 0
    BY DEF Init, Single
<1>. QED BY <1>1
         DEF Init, Single, NoGivenToken, NewCall, LastInThePast, AskedInTime,
             StampedOrPending, RefreshedOnce, None

\* One lock lets one caller refresh at a time.
LEMMA OneRefresher ==
    ASSUME TypeOK, OneLock, NEW c \in Callers, pc[c] \in Refreshing
    PROVE  /\ ~ Free(c)
           /\ \A e \in Callers : pc[e] \in Refreshing => e = c
           /\ \A e \in Callers : ~ Free(e)
BY TokenAssumption DEF TypeOK, OneLock, Holds, Threaded, Free

\* A token is issued no sooner than the interval after the last one.
LEMMA AnswerKeepsOnce ==
    ASSUME OnceInv, Single, NEW c \in Callers, Answer(c)
    PROVE  /\ RefreshedOnce'
           /\ LastInThePast' /\ AskedInTime' /\ StampedOrPending'
<1> DEFINE n == Len(issued)
<1>1. /\ n \in Nat /\ now \in Nat /\ issued \in Seq(Nat) /\ OneLock /\ TypeOK
      /\ pc \in [Callers -> States] /\ pc[c] = "ask"
    BY DEF OnceInv, TypeOK, Single, Answer
<1>2. /\ issued' = Append(issued, now) /\ now' = now
      /\ pc' = [pc EXCEPT ![c] = "write"]
    BY DEF Answer, Goto
<1>3. /\ Len(issued') = n + 1 /\ issued'[n + 1] = now
      /\ \A i \in 1 .. n : issued'[i] = issued[i]
    BY <1>1, <1>2
<1>4. n > 0 => issued[n] + MinInterval <= now + Early
    BY <1>1 DEF OnceInv, Single, AskedInTime, Last
<1>5. \A i \in 1 .. n - 1 : issued[i] + MinInterval <= issued[i + 1] + Early
    BY DEF OnceInv, RefreshedOnce, Single
<1>6. RefreshedOnce'
  <2> SUFFICES ASSUME NEW i \in 1 .. n
               PROVE  issued'[i] + MinInterval <= issued'[i + 1] + Early
    BY <1>1, <1>3 DEF RefreshedOnce
  <2>1. CASE i = n
    BY <1>1, <1>3, <1>4, <2>1
  <2>2. CASE i # n
    BY <1>1, <1>3, <1>5, <2>2
  <2>. QED BY <2>1, <2>2
<1>7. LastInThePast'
    BY <1>1, <1>2, <1>3 DEF LastInThePast, Last
<1>8. \A e \in Callers : pc'[e] # "ask"
    BY <1>1, <1>2, OneRefresher DEF Refreshing
<1>9. pc'[c] \in {"write", "stamp"}
    BY <1>1, <1>2
<1>. QED BY <1>6, <1>7, <1>8, <1>9 DEF AskedInTime, StampedOrPending

\* A step that neither issues a token nor asks for one leaves Last alone.
LEMMA OtherKeepsOnce ==
    ASSUME OnceInv, Single, UNCHANGED <<config, issued>>, now \in Nat, now' \in Nat, now <= now',
           \A e \in Callers : pc'[e] = "ask" => pc[e] = "ask",
           \/ /\ refreshAt' = refreshAt
              /\ \A e \in Callers : pc[e] \in {"write", "stamp"}
                                        => pc'[e] \in {"write", "stamp"}
           \/ refreshAt' = now
    PROVE  /\ RefreshedOnce'
           /\ LastInThePast' /\ AskedInTime' /\ StampedOrPending'
<1>1. issued' = issued /\ Last' = Last
    BY DEF Last
<1>6. RefreshedOnce'
    BY DEF OnceInv, RefreshedOnce, OneLock, config
<1>2. issued # <<>> => Last \in Nat
    BY DEF OnceInv, TypeOK, Last
<1>3. LastInThePast'
    BY <1>1, <1>2 DEF OnceInv, LastInThePast
<1>4. AskedInTime'
    BY <1>1, <1>2, TokenAssumption DEF OnceInv, AskedInTime
<1>5. StampedOrPending'
    BY <1>1, <1>2 DEF OnceInv, StampedOrPending, LastInThePast
<1>. QED BY <1>3, <1>4, <1>5, <1>6

\* Nobody asks while another refreshes, so refresh_at is up to date for the test.
LEMMA StartKeepsOnce ==
    ASSUME OnceInv, Single, NEW c \in Callers, StartRefresh(c)
    PROVE  /\ RefreshedOnce'
           /\ LastInThePast' /\ AskedInTime' /\ StampedOrPending'
<1>1. /\ UNCHANGED <<config, now, issued, refreshAt>> /\ pc' = [pc EXCEPT ![c] = "ask"]
      /\ Free(c) /\ ~ TooOften
    BY DEF StartRefresh, Goto, server, object
<1>2. /\ issued # <<>> => Last \in Nat
      /\ now \in Nat /\ refreshAt \in Nat /\ MinInterval \in Nat /\ Early \in Nat
      /\ pc \in [Callers -> States] /\ TypeOK /\ OneLock
    BY TokenAssumption DEF OnceInv, TypeOK, Last, Single
<1>3. \A e \in Callers : pc[e] \notin Refreshing
    BY <1>1, <1>2, OneRefresher
<1>4. issued # <<>> => Last <= refreshAt
    BY <1>3 DEF OnceInv, StampedOrPending, Refreshing
<1>5. issued # <<>> => Last + MinInterval <= now + Early
    BY <1>1, <1>2, <1>4 DEF TooOften
<1>6. Last' = Last
    BY <1>1 DEF Last
<1>7. RefreshedOnce'
    BY <1>1 DEF OnceInv, RefreshedOnce, OneLock, config
<1>8. LastInThePast' /\ AskedInTime'
    BY <1>1, <1>5, <1>6 DEF OnceInv, LastInThePast, AskedInTime
<1>9. StampedOrPending'
    BY <1>1, <1>4, <1>6 DEF StampedOrPending
<1>. QED BY <1>7, <1>8, <1>9

\* Where the user gives no token none is ever passed to register.
LEMMA NoGivenTokenStays ==
    ASSUME TypeOK, NoGivenToken, [Next]_vars
    PROVE  NoGivenToken'
<1>1. /\ call \in [Callers -> CallType(Len(issued), now)]
      /\ pc \in [Callers -> States]
    BY DEF TypeOK
<1>3. ASSUME NEW c \in Callers, Begin(c) \/ Register(c) PROVE NoGivenToken'
    BY SMTT(30), <1>1, <1>3
       DEF NoGivenToken, Begin, Register, TestRegistered, PassToken, RegisterNew,
           RegisterExisting, RegisterZero, MarkRegistered, Goto, AfterRegister, auth,
           CallType
<1> DEFINE Stays == NoGivenToken'
<1> USE <1>1 DEF NoGivenToken, CallType, Goto, AfterRefresh, auth
<1>4. ASSUME NEW c \in Callers, Refresh(c) PROVE Stays
  <2>1. CASE SkipRefresh(c) \/ StartRefresh(c)
    BY <2>1 DEF SkipRefresh, StartRefresh
  <2>2. CASE Answer(c) \/ WriteToken(c)
    BY ZenonT(60), <2>2 DEF Answer, WriteToken
  <2>3. CASE StampToken(c)
    BY <2>3 DEF StampToken
  <2>4. CASE RefreshInVain(c)
    BY <2>4 DEF RefreshInVain
  <2>5. CASE Forget(c)
    BY <2>5 DEF Forget
  <2>. QED BY <1>4, <2>1, <2>2, <2>3, <2>4, <2>5 DEF Refresh
<1>5. ASSUME NEW c \in Callers, Request(c) PROVE Stays
  <2>1. CASE GetToken(c) \/ Refused(c)
    BY <2>1 DEF GetToken, Refused
  <2>2. CASE HandleRefused(c)
    BY <2>2 DEF HandleRefused
  <2>3. NewCall.arg = None
    BY DEF NewCall
  <2>4. CASE Retry(c)
    <3>1. PICK d : d.arg = None /\ call' = [call EXCEPT ![c] = d]
        BY <2>3, <2>4 DEF Retry, NewCall
    <3>. QED BY <2>4, <3>1 DEF Retry
  <2>5. CASE Accepted(c) \/ RaiseRefused(c) \/ GiveUp(c)
    BY <2>3, <2>5 DEF Accepted, RaiseRefused, GiveUp, Leave
  <2>. QED BY <1>5, <2>1, <2>2, <2>4, <2>5 DEF Request
<1>6. CASE Tick \/ (\E t \in DOMAIN issued : Expire(t)) \/ UNCHANGED vars
    BY <1>6 DEF NoGivenToken, Tick, Expire, vars, auth
<1>. QED BY <1>3, <1>4, <1>5, <1>6 DEF Next, Step

\* Nothing changes how the callers run and what the user gave.
LEMMA ConfigStays == [Next]_vars => UNCHANGED config
<1> SUFFICES ASSUME [Next]_vars PROVE UNCHANGED config
    OBVIOUS
<1>1. ASSUME NEW c \in Callers, Begin(c) \/ Step(c) PROVE UNCHANGED config
    BY <1>1 DEF Begin, Step, Register, TestRegistered, PassToken, RegisterNew,
              RegisterExisting, RegisterZero, MarkRegistered, Refresh, SkipRefresh,
              StartRefresh, Answer, WriteToken, StampToken, RefreshInVain, Forget,
              Request, GetToken, Accepted, Refused, HandleRefused, RaiseRefused,
              Retry, GiveUp
<1>. QED BY <1>1 DEF Next, Expire, Tick, vars

\* Every step keeps the invariant.
LEMMA NextOnce == OnceInv /\ [Next]_vars => OnceInv'
<1> SUFFICES ASSUME OnceInv, [Next]_vars PROVE OnceInv'
    OBVIOUS
<1>1. TypeOK /\ TypeOK'
    BY NextType DEF OnceInv
<1>2. UNCHANGED config
    BY ConfigStays
<1>3. Single' <=> Single
    BY <1>2 DEF Single, OneLock, config
<1>4. CASE ~ Single
    BY <1>1, <1>3, <1>4 DEF OnceInv, RefreshedOnce, Single
<1>5. CASE Single
  <2> USE <1>5
  <2> SUFFICES /\ RefreshedOnce' /\ NoGivenToken'
               /\ LastInThePast' /\ AskedInTime' /\ StampedOrPending'
    BY <1>1 DEF OnceInv
  <2>1. NoGivenToken
    BY DEF OnceInv
  <2>2. NoGivenToken'
    BY <1>1, <2>1, NoGivenTokenStays
  <2>3. now \in Nat /\ refreshAt \in 0 .. now /\ pc \in [Callers -> States]
    BY <1>1 DEF TypeOK
  <2>4. ASSUME NEW c \in Callers, Answer(c)
        PROVE  RefreshedOnce' /\ LastInThePast' /\ AskedInTime' /\ StampedOrPending'
    BY <2>4, AnswerKeepsOnce
  <2>5. ASSUME NEW c \in Callers, StartRefresh(c)
        PROVE  RefreshedOnce' /\ LastInThePast' /\ AskedInTime' /\ StampedOrPending'
    BY <2>5, StartKeepsOnce
  <2>6. ASSUME NEW c \in Callers, StampToken(c)
        PROVE  RefreshedOnce' /\ LastInThePast' /\ AskedInTime' /\ StampedOrPending'
    <3>1. /\ UNCHANGED <<config, now, issued>> /\ refreshAt' = now
          /\ \A e \in Callers : pc'[e] = "ask" => pc[e] = "ask"
        BY <2>3, <2>6 DEF StampToken, Goto, AfterRefresh, server
    <3>. QED BY <2>3, <3>1, OtherKeepsOnce
  <2>7. ASSUME NEW c \in Callers,
               Begin(c) \/ Register(c) \/ Request(c) \/ SkipRefresh(c)
                   \/ WriteToken(c) \/ RefreshInVain(c) \/ Forget(c)
        PROVE  RefreshedOnce' /\ LastInThePast' /\ AskedInTime' /\ StampedOrPending'
    <3>1. PICK l \in States :
              /\ pc' = [pc EXCEPT ![c] = l] /\ l # "ask"
              /\ pc[c] \in {"write", "stamp"} => l = "stamp"
      <4>1. CASE Begin(c)
        BY <4>1 DEF Begin, Goto, States
      <4>2. CASE Register(c)
        BY <4>2 DEF Register, TestRegistered, PassToken, RegisterNew,
                    RegisterExisting, RegisterZero, MarkRegistered, Goto,
                    AfterRegister, States
      <4>3. CASE Request(c)
        BY <4>3 DEF Request, GetToken, Accepted, Refused, HandleRefused,
                    RaiseRefused, Retry, GiveUp, Leave, Goto, States
      <4>4. CASE SkipRefresh(c) \/ RefreshInVain(c) \/ Forget(c)
        BY <4>4 DEF SkipRefresh, RefreshInVain, Forget, AfterRefresh, Goto, States
      <4>5. CASE WriteToken(c)
        BY <4>5 DEF WriteToken, Goto, States, Refreshing
      <4>. QED BY <2>7, <4>1, <4>2, <4>3, <4>4, <4>5
    <3>2. UNCHANGED <<config, now, issued, refreshAt>>
        BY <2>1, <2>7
           DEF NoGivenToken, Begin, Register, TestRegistered, PassToken, RegisterNew,
               RegisterExisting, RegisterZero, MarkRegistered, Request, GetToken,
               Accepted, Refused, HandleRefused, RaiseRefused, Retry, GiveUp,
               SkipRefresh, WriteToken, RefreshInVain, Forget, server, object
    <3>. QED BY <2>3, <3>1, <3>2, OtherKeepsOnce
  <2>8. CASE Tick \/ (\E t \in DOMAIN issued : Expire(t)) \/ UNCHANGED vars
    <3>1. /\ UNCHANGED <<config, issued, refreshAt, pc>>
          /\ now' \in Nat /\ now <= now'
        BY <2>3, <2>8 DEF Tick, Expire, vars, server, object
    <3>. QED BY <2>2, <2>3, <3>1, OtherKeepsOnce
  <2>9. CASE \E c \in Callers : Begin(c) \/ Step(c)
    <3>1. PICK c \in Callers : Begin(c) \/ Step(c)
        BY <2>9
    <3>2. \/ Begin(c) \/ Register(c) \/ Request(c) \/ SkipRefresh(c)
              \/ WriteToken(c) \/ RefreshInVain(c) \/ Forget(c)
          \/ Answer(c) \/ StartRefresh(c) \/ StampToken(c)
        BY <3>1 DEF Step, Refresh
    <3>. QED BY <2>2, <2>4, <2>5, <2>6, <2>7, <3>2
  <2>. QED BY <2>2, <2>8, <2>9 DEF Next
<1>. QED BY <1>4, <1>5

\* Callers of one kind ask for a new token once per interval, however many of
\* them find the old one expired at the same time.
THEOREM NotTooOften == Spec => []RefreshedOnce
<1>1. OnceInv => RefreshedOnce
    BY DEF OnceInv
<1>. QED BY <1>1, InitOnce, NextOnce, PTL DEF Spec

-----------------------------------------------------------------------------
(* Threads and coroutines together.  They have two locks, so two refreshes  *)
(* may run at a time, and one may write an older token over a newer one.    *)

\* Time has gone on for a lifetime before the first token, and as long since each
\* token that the server refuses was issued.
Lived ==
    /\ Lifetime <= now
    /\ \A t \in dead : issued[t] + Lifetime <= now

\* The Token object is in the map before anyone comes to its locks.
Locking == {"mark", "lock", "forget"} \cup Refreshing

Mapped ==
    /\ registered \/ (\E c \in Callers : pc[c] \in Locking) => known
    /\ ~ known => refreshAt = 0

\* A token in an answer is new to everybody.
Unseen(t) ==
    /\ t # None /\ t # token
    /\ \A c \in Callers : t # call[c].held /\ t # call[c].refused

Answered ==
    \A c \in Callers : pc[c] = "write" =>
        /\ Unseen(call[c].fresh)
        /\ call[c].sentAt <= issued[call[c].fresh]
        /\ \A e \in Callers \ {c} : pc[e] = "write" => call[e].fresh # call[c].fresh

\* The token is hardly older than its time, although the owners of the two locks
\* may write them across each other.
Recent ==
    /\ refreshAt > 0 =>
          token # None /\ refreshAt <= issued[token] + 2 * AuthTimeout
    /\ \A c \in Callers : pc[c] = "stamp" =>
          token # None /\ call[c].sentAt <= issued[token] + AuthTimeout

Refusals ==
    \A c \in Callers :
        /\ call[c].refused \in dead \cup {None}
        /\ pc[c] = "refused" => call[c].held \in dead \cup {None}

\* The caller has had his token renewed, by himself or by another.
Renewed(l, d) ==
    \/ l = "stamp"
    \/ ~ d.faulted /\ (l = "forget" \/ d.refreshed)

OtherToken ==
    \A c \in Callers : Renewed(pc[c], call[c]) => known /\ token # call[c].refused

Resending == \A c \in Callers : Resent(c) => call[c].held # call[c].refused

RetryInv == Lived /\ Mapped /\ Answered /\ Recent /\ Refusals /\ OtherToken /\ Resending

LEMMA CallFacts ==
    ASSUME TypeOK
    PROVE  /\ Len(issued) \in Nat /\ issued \in Seq(Nat) /\ now \in Nat
           /\ \A i \in 1 .. Len(issued) : issued[i] \in Nat
           /\ dead \subseteq 1 .. Len(issued) /\ token \in 0 .. Len(issued)
           /\ refreshAt \in 0 .. now /\ known \in BOOLEAN /\ registered \in BOOLEAN
           /\ pc \in [Callers -> States]
           /\ call \in [Callers -> CallType(Len(issued), now)]
           /\ \A c \in Callers :
                 /\ call[c].held \in 0 .. Len(issued)
                 /\ call[c].refused \in 0 .. Len(issued)
                 /\ call[c].fresh \in 0 .. Len(issued)
                 /\ call[c].sentAt \in 0 .. now
           /\ AuthTimeout \in Nat /\ Lifetime \in Nat /\ MinInterval \in Nat
           /\ Early \in Nat
<1>1. Len(issued) \in Nat /\ issued \in Seq(Nat) /\ DOMAIN issued = 1 .. Len(issued)
    BY DEF TypeOK
<1>2. call \in [Callers -> CallType(Len(issued), now)]
    BY DEF TypeOK
<1>3. ASSUME NEW c \in Callers
      PROVE  /\ call[c].held \in 0 .. Len(issued)
             /\ call[c].refused \in 0 .. Len(issued)
             /\ call[c].fresh \in 0 .. Len(issued)
             /\ call[c].sentAt \in 0 .. now
  <2>1. call[c] \in CallType(Len(issued), now)
    BY <1>2
  <2>. QED BY <2>1 DEF CallType
<1>. QED BY <1>1, <1>2, <1>3, TokenAssumption DEF TypeOK

\* A step of a caller that leaves the Token object and the server alone, and brings
\* him neither to the writing of a token nor to that of its time.
LEMMA StepKeepsRetry ==
    ASSUME TypeOK, RetryInv, NEW c \in Callers, NEW l, NEW d,
           pc' = [pc EXCEPT ![c] = l], call' = [call EXCEPT ![c] = d],
           UNCHANGED <<now, issued, dead, token, refreshAt>>,
           known => known', registered' \/ l \in Locking => known',
           l \notin {"write", "stamp"},
           d.held \in {None, call[c].held, token},
           d.refused \in {None, call[c].refused, call[c].held},
           d.refused \in dead \cup {None},
           l = "refused" => d.held \in dead \cup {None},
           Renewed(l, d) => known /\ token # d.refused,
           l = "send" /\ d.refreshed /\ ~ d.faulted => d.held # d.refused
    PROVE  RetryInv'
<1>1. /\ pc'[c] = l /\ call'[c] = d
      /\ \A e \in Callers \ {c} : pc'[e] = pc[e] /\ call'[e] = call[e]
    BY CallFacts
<1>2. /\ Lived /\ Mapped /\ Answered /\ Recent /\ Refusals /\ OtherToken /\ Resending
    BY DEF RetryInv
<1>3. Lived'
    BY <1>2 DEF Lived
<1>4. Mapped'
    BY <1>1, <1>2 DEF Mapped
<1>5. Answered'
  <2>1. ASSUME NEW e \in Callers, pc'[e] = "write"
        PROVE  e # c /\ pc[e] = "write" /\ call'[e] = call[e]
    BY <1>1, <2>1
  <2>2. ASSUME NEW t, Unseen(t) PROVE Unseen(t)'
    BY <1>1, <2>2 DEF Unseen
  <2>. QED BY <1>2, <2>1, <2>2 DEF Answered
<1>6. Recent'
    BY <1>1, <1>2 DEF Recent
<1>7. Refusals'
    BY <1>1, <1>2 DEF Refusals
<1>8. OtherToken'
  <2> SUFFICES ASSUME NEW e \in Callers, Renewed(pc'[e], call'[e])
               PROVE  known' /\ token' # call'[e].refused
    BY DEF OtherToken, Renewed
  <2>1. CASE e = c
    BY <1>1, <2>1
  <2>2. CASE e # c
    BY <1>1, <1>2, <2>2 DEF OtherToken
  <2>. QED BY <2>1, <2>2
<1>9. Resending'
    BY <1>1, <1>2 DEF Resending, Resent
<1>. QED BY <1>3, <1>4, <1>5, <1>6, <1>7, <1>8, <1>9 DEF RetryInv

\* As above, of a step that changes none of what the call remembers of its refusal.
LEMMA SameRefusal ==
    ASSUME TypeOK, RetryInv, NEW c \in Callers, NEW l, NEW d,
           pc' = [pc EXCEPT ![c] = l], call' = [call EXCEPT ![c] = d],
           UNCHANGED <<now, issued, dead, token, refreshAt>>,
           known => known', registered' \/ l \in Locking => known',
           l \notin {"write", "stamp", "forget", "refused", "send"},
           d.held \in {None, call[c].held}, d.refused = call[c].refused,
           d.refreshed = call[c].refreshed, d.faulted = call[c].faulted
    PROVE  RetryInv'
<1>1. d.refused \in dead \cup {None}
    BY DEF RetryInv, Refusals
<1>2. Renewed(l, d) => known /\ token # d.refused
    BY DEF RetryInv, OtherToken, Renewed
<1>. QED BY <1>1, <1>2, StepKeepsRetry

\* Registration.  The Token object has no token before it is in the map.
LEMMA RegisterKeepsRetry ==
    ASSUME TypeOK, RetryInv, NoGivenToken, NEW c \in Callers, Register(c)
    PROVE  RetryInv'
<1>1. /\ call[c] \in CallType(Len(issued), now) /\ call = [call EXCEPT ![c] = call[c]]
      /\ pc \in [Callers -> States] /\ call \in [Callers -> CallType(Len(issued), now)]
    BY DEF TypeOK
<1>2. Mapped /\ call[c].arg = None /\ pc[c] # "zero"
    BY DEF RetryInv, NoGivenToken
<1>3. CASE TestRegistered(c)
  <2>1. PICK l \in {"get", "lock", "pass"} :
            pc' = [pc EXCEPT ![c] = l] /\ (l = "lock" => registered)
    BY <1>3 DEF TestRegistered, Goto, AfterRegister
  <2>2. /\ UNCHANGED <<now, issued, dead, token, refreshAt, known, registered>>
        /\ call' = [call EXCEPT ![c] = call[c]]
    BY <1>1, <1>3 DEF TestRegistered, server, auth, object
  <2>3. registered' \/ l \in Locking => known'
    BY <1>2, <2>1, <2>2 DEF Mapped, Locking, Refreshing
  <2>. QED BY <2>1, <2>2, <2>3, SameRefusal
<1>4. CASE PassToken(c)
  <2> DEFINE d == [call[c] EXCEPT !.arg = accessToken]
  <2>1. /\ d.held = call[c].held /\ d.refused = call[c].refused
        /\ d.refreshed = call[c].refreshed /\ d.faulted = call[c].faulted
    BY <1>1 DEF CallType
  <2>2. /\ UNCHANGED <<now, issued, dead, token, refreshAt, known, registered>>
        /\ call' = [call EXCEPT ![c] = d] /\ pc' = [pc EXCEPT ![c] = "map"]
    BY <1>1, <1>4 DEF PassToken, Goto, server, auth, object
  <2> HIDE DEF d
  <2>3. registered' \/ "map" \in Locking => known'
    BY <1>2, <2>2 DEF Mapped, Locking, Refreshing
  <2>. QED BY <2>1, <2>2, <2>3, SameRefusal
<1>5. CASE RegisterNew(c)
  <2> DEFINE d == [call[c] EXCEPT !.registering = (call[c].arg = None), !.arg = None]
  <2>1. /\ d.held = call[c].held /\ d.refused = call[c].refused
        /\ d.refreshed = call[c].refreshed /\ d.faulted = call[c].faulted
    BY <1>1 DEF CallType
  <2>2. /\ UNCHANGED <<now, issued, dead, refreshAt, registered>>
        /\ token' = None /\ ~ known /\ known' /\ pc[c] = "map"
        /\ pc' = [pc EXCEPT ![c] = "lock"]
    BY <1>2, <1>5 DEF RegisterNew, Goto, server
  <2>3. call' = [call EXCEPT ![c] = d]
    BY <1>1, <1>5 DEF RegisterNew, CallType
  <2> HIDE DEF d
  <2>4. /\ pc'[c] = "lock" /\ call'[c] = d
        /\ \A e \in Callers \ {c} : pc'[e] = pc[e] /\ call'[e] = call[e]
    BY <1>1, <2>2, <2>3
  <2>5. refreshAt = 0 /\ \A e \in Callers : pc[e] \notin Locking
    BY <1>2, <2>2 DEF Mapped
  <2>6. \A e \in Callers : pc'[e] \notin {"write", "stamp", "forget"}
    BY <2>4, <2>5 DEF Locking, Refreshing
  <2>7. Answered' /\ Recent'
    BY <2>2, <2>5, <2>6 DEF Answered, Recent
  <2>8. \A e \in Callers : ~ Renewed(pc[e], call[e])
    BY <2>2 DEF RetryInv, OtherToken
  <2>9. \A e \in Callers : ~ Renewed(pc'[e], call'[e])
    BY <2>1, <2>4, <2>6, <2>8 DEF Renewed
  <2>10. OtherToken' /\ Mapped'
    BY <2>2, <2>9 DEF OtherToken, Mapped, Renewed
  <2>11. Lived' /\ Refusals' /\ Resending'
    BY <2>1, <2>2, <2>4 DEF RetryInv, Lived, Refusals, Resending, Resent
  <2>. QED BY <2>7, <2>10, <2>11 DEF RetryInv
<1>6. CASE RegisterExisting(c)
  <2> DEFINE d == [call[c] EXCEPT !.arg = None]
  <2>1. /\ d.held = call[c].held /\ d.refused = call[c].refused
        /\ d.refreshed = call[c].refreshed /\ d.faulted = call[c].faulted
    BY <1>1 DEF CallType
  <2>2. /\ UNCHANGED <<now, issued, dead, token, refreshAt, known, registered>>
        /\ call' = [call EXCEPT ![c] = d] /\ pc' = [pc EXCEPT ![c] = "mark"] /\ known
    BY <1>1, <1>2, <1>6 DEF RegisterExisting, Goto, server, auth
  <2> HIDE DEF d
  <2>. QED BY <2>1, <2>2, SameRefusal
<1>7. ~ RegisterZero(c)
    BY <1>2 DEF RegisterZero
<1>8. CASE MarkRegistered(c)
  <2>1. PICK l \in {"get", "lock"} : pc' = [pc EXCEPT ![c] = l]
    BY <1>8 DEF MarkRegistered, Goto, AfterRegister
  <2>2. /\ UNCHANGED <<now, issued, dead, token, refreshAt, known>>
        /\ call' = [call EXCEPT ![c] = call[c]] /\ pc[c] = "mark"
    BY <1>1, <1>8 DEF MarkRegistered, server, object
  <2>3. known
    BY <1>2, <2>2 DEF Mapped, Locking
  <2>. QED BY <2>1, <2>2, <2>3, SameRefusal
<1>. QED BY <1>3, <1>4, <1>5, <1>6, <1>7, <1>8 DEF Register

\* The token of a refresh that is skipped as too recent is not the refused one: it
\* was issued within twice the timeout of its time, and a token lives longer than
\* that and the interval.
LEMMA RecentIsOther ==
    ASSUME TypeOK, RetryInv, TooOften, NEW r \in dead \cup {None}
    PROVE  token # r
<1>1. /\ now \in Nat /\ refreshAt \in 0 .. now /\ AuthTimeout \in Nat /\ Lifetime \in Nat
      /\ MinInterval \in Nat /\ Early \in Nat /\ token \in 0 .. Len(issued)
      /\ Len(issued) \in Nat
      /\ token # None => issued[token] \in Nat
    BY CallFacts DEF None
<1>2. MinInterval + 2 * AuthTimeout <= Lifetime + Early
    BY TokenAssumption
<1>3. Lifetime <= now /\ (r # None => issued[r] + Lifetime <= now)
    BY DEF RetryInv, Lived
<1>4. (now + Early) - refreshAt < MinInterval
    BY <1>1 DEF TooOften
<1>5. refreshAt > 0
    BY <1>1, <1>2, <1>3, <1>4
<1>6. token # None /\ refreshAt <= issued[token] + 2 * AuthTimeout
    BY <1>5 DEF RetryInv, Recent
<1>7. now < issued[token] + Lifetime
    BY <1>1, <1>2, <1>4, <1>6
<1>. QED BY <1>1, <1>3, <1>6, <1>7

\* The answer of the server carries a token that nobody has seen.
LEMMA AnswerKeepsRetry ==
    ASSUME TypeOK, RetryInv, NEW c \in Callers, Answer(c)
    PROVE  RetryInv'
<1> DEFINE n == Len(issued)
           d == [call[c] EXCEPT !.fresh = n + 1]
<1>1. /\ n \in Nat /\ now \in Nat /\ issued \in Seq(Nat)
      /\ dead \subseteq 1 .. n /\ token \in 0 .. n
      /\ pc \in [Callers -> States] /\ call \in [Callers -> CallType(n, now)]
      /\ \A e \in Callers : /\ call[e].held \in 0 .. n /\ call[e].refused \in 0 .. n
                            /\ call[e].fresh \in 0 .. n /\ call[e].sentAt \in 0 .. now
    BY CallFacts
<1>2. /\ Lived /\ Mapped /\ Answered /\ Recent /\ Refusals /\ OtherToken /\ Resending
    BY DEF RetryInv
<1>3. /\ issued' = Append(issued, now) /\ pc[c] = "ask"
      /\ UNCHANGED <<now, dead, token, refreshAt, known, registered>>
    BY DEF Answer, auth, object
<1>4. Len(issued') = n + 1 /\ issued'[n + 1] = now /\ \A i \in 1 .. n : issued'[i] = issued[i]
    BY <1>1, <1>3
<1>5. pc' = [pc EXCEPT ![c] = "write"] /\ call' = [call EXCEPT ![c] = d]
    BY <1>4 DEF Answer, Goto
<1>6. /\ d.held = call[c].held /\ d.refused = call[c].refused /\ d.fresh = n + 1
      /\ d.refreshed = call[c].refreshed /\ d.faulted = call[c].faulted
      /\ d.sentAt = call[c].sentAt
  <2>1. call[c] \in CallType(n, now)
    BY <1>1
  <2> HIDE DEF n
  <2>. QED BY <2>1 DEF CallType
<1> HIDE DEF d, n
<1>7. /\ pc'[c] = "write" /\ call'[c] = d
      /\ \A e \in Callers \ {c} : pc'[e] = pc[e] /\ call'[e] = call[e]
    BY <1>1, <1>5
<1>8. Lived'
    BY <1>1, <1>2, <1>3, <1>4 DEF Lived
<1>9. Mapped'
    BY <1>2, <1>3, <1>7 DEF Mapped, Locking, Refreshing
<1>10. Answered'
  <2> SUFFICES ASSUME NEW e \in Callers, pc'[e] = "write"
               PROVE  /\ call'[e].fresh # None /\ call'[e].fresh # token'
                      /\ \A b \in Callers : /\ call'[e].fresh # call'[b].held
                                            /\ call'[e].fresh # call'[b].refused
                      /\ call'[e].sentAt <= issued'[call'[e].fresh]
                      /\ \A b \in Callers \ {e} :
                            pc'[b] = "write" => call'[b].fresh # call'[e].fresh
    BY DEF Answered, Unseen
  <2>1. /\ token' = token
        /\ \A b \in Callers :
              call'[b].held = call[b].held /\ call'[b].refused = call[b].refused
    BY <1>3, <1>6, <1>7
  <2>2. CASE e = c
    <3>1. call'[e].fresh = n + 1 /\ call'[e].sentAt = call[c].sentAt
        BY <1>6, <1>7, <2>2
    <3>2. /\ n + 1 # None /\ n + 1 # token
          /\ \A b \in Callers : n + 1 # call[b].held /\ n + 1 # call[b].refused
        BY <1>1 DEF None
    <3>3. call[c].sentAt <= issued'[n + 1]
        BY <1>1, <1>4
    <3>4. \A b \in Callers \ {e} : call'[b].fresh # n + 1
        BY <1>1, <1>7, <2>2
    <3>. QED BY <2>1, <3>1, <3>2, <3>3, <3>4
  <2>3. CASE e # c
    <3>1. pc[e] = "write" /\ call'[e] = call[e]
        BY <1>7, <2>3
    <3>2. /\ call[e].fresh # None /\ call[e].fresh # token
          /\ \A b \in Callers : /\ call[e].fresh # call[b].held
                                /\ call[e].fresh # call[b].refused
          /\ call[e].sentAt <= issued[call[e].fresh]
          /\ \A b \in Callers \ {e} : pc[b] = "write" => call[b].fresh # call[e].fresh
        BY <1>2, <3>1 DEF Answered, Unseen
    <3>3. call[e].fresh \in 1 .. n
        BY <1>1, <3>2 DEF None
    <3>4. call[e].fresh # n + 1 /\ issued'[call[e].fresh] = issued[call[e].fresh]
        BY <1>1, <1>4, <3>3
    <3>5. \A b \in Callers \ {e} : pc'[b] = "write" => call'[b].fresh # call[e].fresh
        BY <1>6, <1>7, <3>2, <3>4
    <3>. QED BY <2>1, <3>1, <3>2, <3>4, <3>5
  <2>. QED BY <2>2, <2>3
<1>11. Recent'
  <2>1. token # None => issued'[token] = issued[token]
    BY <1>1, <1>4 DEF None
  <2>. QED BY <1>2, <1>3, <1>7, <2>1 DEF Recent
<1>12. Refusals'
    BY <1>2, <1>3, <1>6, <1>7 DEF Refusals
<1>13. OtherToken'
    BY <1>2, <1>3, <1>6, <1>7 DEF OtherToken, Renewed
<1>14. Resending'
    BY <1>2, <1>7 DEF Resending, Resent
<1>. QED BY <1>8, <1>9, <1>10, <1>11, <1>12, <1>13, <1>14 DEF RetryInv

\* The token that is written is other than whatever was refused.
LEMMA WriteKeepsRetry ==
    ASSUME TypeOK, RetryInv, NEW c \in Callers, WriteToken(c)
    PROVE  RetryInv'
<1> DEFINE n == Len(issued)
           f == call[c].fresh
           d == [call[c] EXCEPT !.fresh = None]
<1>1. /\ n \in Nat /\ now \in Nat /\ AuthTimeout \in Nat /\ refreshAt \in 0 .. now
      /\ \A i \in 1 .. n : issued[i] \in Nat
      /\ pc \in [Callers -> States] /\ call \in [Callers -> CallType(n, now)]
      /\ f \in 0 .. n /\ \A e \in Callers : call[e].sentAt \in 0 .. now
    BY CallFacts
<1>2. /\ Lived /\ Mapped /\ Answered /\ Recent /\ Refusals /\ OtherToken /\ Resending
    BY DEF RetryInv
<1>3. /\ UNCHANGED <<now, issued, dead, refreshAt, known, registered>>
      /\ token' = f /\ pc[c] = "write"
      /\ pc' = [pc EXCEPT ![c] = "stamp"] /\ call' = [call EXCEPT ![c] = d]
    BY <1>1 DEF WriteToken, Goto, server, auth
<1>4. /\ d.held = call[c].held /\ d.refused = call[c].refused
      /\ d.refreshed = call[c].refreshed /\ d.faulted = call[c].faulted
      /\ d.sentAt = call[c].sentAt
  <2>1. call[c] \in CallType(n, now)
    BY <1>1
  <2> HIDE DEF n
  <2>. QED BY <2>1 DEF CallType
<1> HIDE DEF d, n
<1>5. /\ pc'[c] = "stamp" /\ call'[c] = d
      /\ \A e \in Callers \ {c} : pc'[e] = pc[e] /\ call'[e] = call[e]
    BY <1>1, <1>3
<1>6. /\ Unseen(f) /\ call[c].sentAt <= issued[f]
      /\ \A e \in Callers \ {c} : pc[e] = "write" => call[e].fresh # f
    BY <1>2, <1>3 DEF Answered
<1>7. f # None /\ f \in 1 .. n /\ issued[f] \in Nat
    BY <1>1, <1>6 DEF Unseen, None
<1>8. now <= call[c].sentAt + AuthTimeout
    BY <1>3 DEF TypeOK, Refreshing, Holds
<1>9. now <= issued[f] + AuthTimeout
    BY <1>1, <1>6, <1>7, <1>8
<1> HIDE DEF f
<1>10. Lived' /\ Refusals'
    BY <1>2, <1>3, <1>4, <1>5 DEF Lived, Refusals
<1>11. Mapped'
    BY <1>2, <1>3, <1>5 DEF Mapped, Locking, Refreshing
<1>12. Answered'
  <2>1. ASSUME NEW e \in Callers, pc'[e] = "write"
        PROVE  e # c /\ pc[e] = "write" /\ call'[e] = call[e] /\ call[e].fresh # f
    BY <1>5, <1>6, <2>1
  <2>2. ASSUME NEW t, Unseen(t), t # f PROVE Unseen(t)'
    BY <1>3, <1>4, <1>5, <2>2 DEF Unseen
  <2>. QED BY <1>2, <1>3, <2>1, <2>2 DEF Answered
<1>13. Recent'
  <2>1. refreshAt <= issued[f] + 2 * AuthTimeout
    BY <1>1, <1>7, <1>9
  <2>2. \A e \in Callers : call'[e].sentAt <= issued[f] + AuthTimeout
    <3>1. \A e \in Callers : call'[e].sentAt = call[e].sentAt
        BY <1>4, <1>5
    <3>. QED BY <1>1, <1>7, <1>9, <3>1
  <2>. QED BY <1>3, <1>7, <2>1, <2>2 DEF Recent
<1>14. OtherToken'
  <2>1. known /\ \A e \in Callers : f # call'[e].refused
    BY <1>2, <1>3, <1>4, <1>5, <1>6 DEF Mapped, Locking, Refreshing, Unseen
  <2>. QED BY <1>3, <2>1 DEF OtherToken
<1>15. Resending'
    BY <1>2, <1>5 DEF Resending, Resent
<1>. QED BY <1>10, <1>11, <1>12, <1>13, <1>14, <1>15 DEF RetryInv

\* The time that is written is within the timeout of when the token was asked for.
LEMMA StampKeepsRetry ==
    ASSUME TypeOK, RetryInv, NEW c \in Callers, StampToken(c)
    PROVE  RetryInv'
<1> DEFINE d == [call[c] EXCEPT !.registering = FALSE, !.sentAt = 0]
<1>1. /\ now \in Nat /\ AuthTimeout \in Nat /\ refreshAt \in 0 .. now
      /\ Len(issued) \in Nat /\ token \in 0 .. Len(issued)
      /\ \A i \in 1 .. Len(issued) : issued[i] \in Nat
      /\ pc \in [Callers -> States] /\ call \in [Callers -> CallType(Len(issued), now)]
      /\ call[c].sentAt \in 0 .. now
    BY CallFacts
<1>2. /\ Lived /\ Mapped /\ Answered /\ Recent /\ Refusals /\ OtherToken /\ Resending
    BY DEF RetryInv
<1>3. /\ UNCHANGED <<now, issued, dead, token, known, registered>>
      /\ refreshAt' = now /\ pc[c] = "stamp"
      /\ call' = [call EXCEPT ![c] = d]
    BY <1>1 DEF StampToken, server, auth
<1>4. PICK l \in {"mark", "forget"} : pc' = [pc EXCEPT ![c] = l]
    BY DEF StampToken, Goto, AfterRefresh
<1>5. /\ d.held = call[c].held /\ d.refused = call[c].refused
      /\ d.refreshed = call[c].refreshed /\ d.faulted = call[c].faulted
  <2>1. call[c] \in CallType(Len(issued), now)
    BY <1>1
  <2>. QED BY <2>1 DEF CallType
<1> HIDE DEF d
<1>6. /\ pc'[c] = l /\ call'[c] = d
      /\ \A e \in Callers \ {c} : pc'[e] = pc[e] /\ call'[e] = call[e]
    BY <1>1, <1>3, <1>4
<1>7. known /\ token # call[c].refused
    BY <1>2, <1>3 DEF OtherToken, Renewed
<1>8. Lived' /\ Mapped' /\ Refusals'
    BY <1>2, <1>3, <1>5, <1>6, <1>7 DEF Lived, Mapped, Refusals
<1>9. Answered'
  <2>1. ASSUME NEW e \in Callers, pc'[e] = "write"
        PROVE  e # c /\ pc[e] = "write" /\ call'[e] = call[e]
    BY <1>6, <2>1
  <2>2. ASSUME NEW t, Unseen(t) PROVE Unseen(t)'
    BY <1>3, <1>5, <1>6, <2>2 DEF Unseen
  <2>. QED BY <1>2, <1>3, <2>1, <2>2 DEF Answered
<1>10. Recent'
  <2>1. token # None /\ call[c].sentAt <= issued[token] + AuthTimeout
    BY <1>2, <1>3 DEF Recent
  <2>2. now <= call[c].sentAt + AuthTimeout
    BY <1>3 DEF TypeOK, Refreshing, Holds
  <2>3. issued[token] \in Nat
    BY <1>1, <2>1 DEF None
  <2>4. now <= issued[token] + 2 * AuthTimeout
    BY <1>1, <2>1, <2>2, <2>3
  <2>. QED BY <1>2, <1>3, <1>6, <2>1, <2>4 DEF Recent
<1>11. OtherToken'
    BY <1>2, <1>3, <1>5, <1>6, <1>7 DEF OtherToken, Renewed
<1>12. Resending'
    BY <1>2, <1>6 DEF Resending, Resent
<1>. QED BY <1>8, <1>9, <1>10, <1>11, <1>12 DEF RetryInv

LEMMA RefreshKeepsRetry ==
    ASSUME TypeOK, RetryInv, NEW c \in Callers, Refresh(c)
    PROVE  RetryInv'
<1>1. /\ call[c] \in CallType(Len(issued), now)
      /\ pc \in [Callers -> States] /\ call \in [Callers -> CallType(Len(issued), now)]
    BY DEF TypeOK
<1>2. Mapped /\ Refusals /\ OtherToken
    BY DEF RetryInv
<1>3. CASE SkipRefresh(c)
  <2> DEFINE d == [call[c] EXCEPT !.registering = FALSE]
  <2>1. /\ d.held = call[c].held /\ d.refused = call[c].refused
        /\ d.refreshed = call[c].refreshed /\ d.faulted = call[c].faulted
    BY <1>1 DEF CallType
  <2>2. /\ UNCHANGED <<now, issued, dead, token, refreshAt, known, registered>>
        /\ call' = [call EXCEPT ![c] = d] /\ pc[c] = "lock" /\ TooOften
    BY <1>1, <1>3 DEF SkipRefresh, server, auth, object
  <2>3. PICK l \in {"mark", "forget"} : pc' = [pc EXCEPT ![c] = l]
    BY <1>3 DEF SkipRefresh, Goto, AfterRefresh
  <2> HIDE DEF d
  <2>4. known /\ d.refused \in dead \cup {None}
    BY <1>2, <2>1, <2>2 DEF Mapped, Locking, Refusals
  <2>5. token # d.refused
    BY <2>2, <2>4, RecentIsOther
  <2>. QED BY <2>1, <2>2, <2>3, <2>4, <2>5, StepKeepsRetry
<1>4. CASE StartRefresh(c)
  <2> DEFINE d == [call[c] EXCEPT !.sentAt = now]
  <2>1. /\ d.held = call[c].held /\ d.refused = call[c].refused
        /\ d.refreshed = call[c].refreshed /\ d.faulted = call[c].faulted
    BY <1>1 DEF CallType
  <2>2. /\ UNCHANGED <<now, issued, dead, token, refreshAt, known, registered>>
        /\ call' = [call EXCEPT ![c] = d] /\ pc[c] = "lock"
        /\ pc' = [pc EXCEPT ![c] = "ask"]
    BY <1>1, <1>4 DEF StartRefresh, Goto, server, auth, object
  <2> HIDE DEF d
  <2>3. known
    BY <1>2, <2>2 DEF Mapped, Locking
  <2>. QED BY <2>1, <2>2, <2>3, SameRefusal
<1>5. CASE Answer(c) \/ WriteToken(c) \/ StampToken(c)
    BY <1>5, AnswerKeepsRetry, WriteKeepsRetry, StampKeepsRetry
<1>6. CASE RefreshInVain(c)
  <2> DEFINE d == [call[c] EXCEPT !.registering = FALSE, !.sentAt = 0, !.faulted = TRUE]
  <2>1. d.held = call[c].held /\ d.refused = call[c].refused /\ d.faulted
    BY <1>1 DEF CallType
  <2>2. /\ UNCHANGED <<now, issued, dead, token, refreshAt, known, registered>>
        /\ call' = [call EXCEPT ![c] = d] /\ pc[c] = "ask"
    BY <1>1, <1>6 DEF RefreshInVain, server, auth, object
  <2>3. PICK l \in {"mark", "forget"} : pc' = [pc EXCEPT ![c] = l]
    BY <1>6 DEF RefreshInVain, Goto, AfterRefresh
  <2> HIDE DEF d
  <2>4. known /\ d.refused \in dead \cup {None} /\ ~ Renewed(l, d)
    BY <1>2, <2>1, <2>2, <2>3 DEF Mapped, Locking, Refreshing, Refusals, Renewed
  <2>. QED BY <2>1, <2>2, <2>3, <2>4, StepKeepsRetry
<1>7. CASE Forget(c)
  <2> DEFINE d == [call[c] EXCEPT !.refreshed = TRUE, !.goal = "send"]
  <2>1. /\ d.held = call[c].held /\ d.refused = call[c].refused
        /\ d.refreshed /\ d.faulted = call[c].faulted
    BY <1>1 DEF CallType
  <2>2. /\ UNCHANGED <<now, issued, dead, token, refreshAt, known, registered>>
        /\ call' = [call EXCEPT ![c] = d] /\ pc[c] = "forget"
        /\ pc' = [pc EXCEPT ![c] = "enter"]
    BY <1>1, <1>7 DEF Forget, Goto, server, object
  <2> HIDE DEF d
  <2>3. known /\ d.refused \in dead \cup {None}
    BY <1>2, <2>1, <2>2 DEF Mapped, Locking, Refusals
  <2>4. Renewed("enter", d) => token # d.refused
    BY <1>2, <2>1, <2>2 DEF OtherToken, Renewed
  <2>. QED BY <2>1, <2>2, <2>3, <2>4, StepKeepsRetry
<1>. QED BY <1>3, <1>4, <1>5, <1>6, <1>7 DEF Refresh

LEMMA RequestKeepsRetry ==
    ASSUME TypeOK, RetryInv, NEW c \in Callers, Request(c)
    PROVE  RetryInv'
<1>1. /\ call[c] \in CallType(Len(issued), now)
      /\ pc \in [Callers -> States] /\ call \in [Callers -> CallType(Len(issued), now)]
    BY DEF TypeOK
<1>2. Mapped /\ Refusals /\ OtherToken /\ Resending
    BY DEF RetryInv
<1>3. /\ UNCHANGED <<now, issued, dead, token, refreshAt, known, registered>>
      /\ registered' => known'
    BY <1>2 DEF Request, GetToken, Accepted, Refused, HandleRefused, RaiseRefused, Retry,
                GiveUp, server, auth, object, Mapped
<1>4. CASE GetToken(c)
  <2> DEFINE d == [call[c] EXCEPT !.held = token]
  <2>1. /\ d.held = token /\ d.refused = call[c].refused
        /\ d.refreshed = call[c].refreshed /\ d.faulted = call[c].faulted
    BY <1>1 DEF CallType
  <2>2. call' = [call EXCEPT ![c] = d] /\ pc' = [pc EXCEPT ![c] = "send"]
    BY <1>1, <1>4 DEF GetToken, Goto
  <2> HIDE DEF d
  <2>3. /\ d.refused \in dead \cup {None}
        /\ Renewed("send", d) => known /\ token # d.refused
    BY <1>2, <2>1 DEF Refusals, OtherToken, Renewed
  <2>4. d.refreshed /\ ~ d.faulted => d.held # d.refused
    BY <2>1, <2>3 DEF Renewed
  <2>5. /\ registered' \/ "send" \in Locking => known'
        /\ "send" \notin {"write", "stamp"} /\ "send" # "refused"
    BY <1>3 DEF Locking, Refreshing
  <2>6. /\ d.held \in {None, call[c].held, token}
        /\ d.refused \in {None, call[c].refused, call[c].held}
    BY <2>1
  <2>. QED BY <1>3, <2>2, <2>3, <2>4, <2>5, <2>6, StepKeepsRetry
<1>5. CASE Refused(c)
  <2>1. /\ call' = [call EXCEPT ![c] = call[c]] /\ pc' = [pc EXCEPT ![c] = "refused"]
        /\ call[c].held \in dead \cup {None}
    BY <1>1, <1>5 DEF Refused, Goto
  <2>2. /\ call[c].refused \in dead \cup {None}
        /\ Renewed("refused", call[c]) => known /\ token # call[c].refused
    BY <1>2 DEF Refusals, OtherToken, Renewed
  <2>3. /\ registered' \/ "refused" \in Locking => known'
        /\ "refused" \notin {"write", "stamp"} /\ "refused" # "send"
    BY <1>3 DEF Locking, Refreshing
  <2>4. /\ call[c].held \in {None, call[c].held, token}
        /\ call[c].refused \in {None, call[c].refused, call[c].held}
    OBVIOUS
  <2>. QED BY <1>3, <2>1, <2>2, <2>3, <2>4, StepKeepsRetry
<1>6. CASE HandleRefused(c)
  <2> DEFINE d == [call[c] EXCEPT !.goal = "refresh", !.held = None,
                                  !.refused = call[c].held]
  <2>1. d.held = None /\ d.refused = call[c].held /\ d.refreshed = call[c].refreshed
    BY <1>1 DEF CallType
  <2>2. /\ call' = [call EXCEPT ![c] = d] /\ pc' = [pc EXCEPT ![c] = "enter"]
        /\ ~ call[c].refreshed /\ pc[c] = "refused"
    BY <1>1, <1>6 DEF HandleRefused, Goto
  <2> HIDE DEF d
  <2>3. /\ d.refused \in dead \cup {None} /\ ~ Renewed("enter", d)
        /\ registered' \/ "enter" \in Locking => known'
        /\ "enter" \notin {"write", "stamp"} /\ "enter" \notin {"refused", "send"}
    BY <1>2, <1>3, <2>1, <2>2 DEF Refusals, Renewed, Locking, Refreshing
  <2>4. /\ d.held \in {None, call[c].held, token}
        /\ d.refused \in {None, call[c].refused, call[c].held}
    BY <2>1
  <2>. QED BY <1>3, <2>2, <2>3, <2>4, StepKeepsRetry
<1>7. CASE Retry(c)
  <2> DEFINE d == [NewCall EXCEPT !.attempt = call[c].attempt + 1,
                                  !.refreshed = call[c].refreshed,
                                  !.faulted = call[c].faulted,
                                  !.refused = call[c].refused]
  <2>1. /\ d.held = None /\ d.refused = call[c].refused
        /\ d.refreshed = call[c].refreshed /\ d.faulted = call[c].faulted
    BY DEF NewCall
  <2>2. call' = [call EXCEPT ![c] = d] /\ pc' = [pc EXCEPT ![c] = "enter"]
    BY <1>7 DEF Retry, Goto
  <2> HIDE DEF d
  <2>3. "enter" \notin Locking
    BY DEF Locking, Refreshing
  <2>. QED BY <1>3, <2>1, <2>2, <2>3, SameRefusal
<1>8. CASE Accepted(c) \/ RaiseRefused(c) \/ GiveUp(c)
  <2>1. call' = [call EXCEPT ![c] = NewCall] /\ pc' = [pc EXCEPT ![c] = "idle"]
    BY <1>8 DEF Accepted, RaiseRefused, GiveUp, Leave, Goto
  <2>2. NewCall.held = None /\ NewCall.refused = None /\ ~ NewCall.refreshed
    BY DEF NewCall
  <2>3. /\ ~ Renewed("idle", NewCall)
        /\ registered' \/ "idle" \in Locking => known'
        /\ "idle" \notin {"write", "stamp"} /\ "idle" \notin {"refused", "send"}
    BY <1>3, <2>2 DEF Renewed, Locking, Refreshing
  <2>4. /\ NewCall.held \in {None, call[c].held, token}
        /\ NewCall.refused \in {None, call[c].refused, call[c].held}
        /\ NewCall.refused \in dead \cup {None}
    BY <2>2
  <2>. QED BY <1>3, <2>1, <2>3, <2>4, StepKeepsRetry
<1>. QED BY <1>4, <1>5, <1>6, <1>7, <1>8 DEF Request

\* A call that begins, the server and the clock.
LEMMA OtherKeepsRetry ==
    ASSUME TypeOK, RetryInv,
           \/ \E c \in Callers : Begin(c)
           \/ \E t \in DOMAIN issued : Expire(t)
           \/ Tick \/ UNCHANGED vars
    PROVE  RetryInv'
<1>1. CASE \E c \in Callers : Begin(c)
  <2>1. PICK c \in Callers : Begin(c)
    BY <1>1
  <2>2. /\ call' = [call EXCEPT ![c] = call[c]] /\ pc' = [pc EXCEPT ![c] = "enter"]
        /\ UNCHANGED <<now, issued, dead, token, refreshAt, known, registered>>
    BY <2>1, CallFacts DEF Begin, Goto, server, auth, object
  <2>3. registered' \/ "enter" \in Locking => known'
    BY <2>2 DEF RetryInv, Mapped, Locking, Refreshing
  <2>. QED BY <2>2, <2>3, SameRefusal
<1>2. CASE (\E t \in DOMAIN issued : Expire(t)) \/ Tick \/ UNCHANGED vars
  <2>1. /\ UNCHANGED <<issued, token, refreshAt, known, registered, pc, call>>
        /\ now' \in Nat /\ now <= now' /\ dead \subseteq dead'
        /\ \A t \in dead' : t \in dead \/ issued[t] + Lifetime <= now
        /\ dead' \subseteq 1 .. Len(issued)
    <3>1. dead \subseteq 1 .. Len(issued) /\ DOMAIN issued = 1 .. Len(issued) /\ now \in Nat
        BY CallFacts
    <3>2. CASE \E t \in DOMAIN issued : Expire(t)
      <4>1. PICK t \in 1 .. Len(issued) : Expire(t)
        BY <3>1, <3>2
      <4>2. /\ dead' = dead \cup {t} /\ issued[t] + Lifetime <= now
            /\ UNCHANGED <<now, issued, token, refreshAt, known, registered, pc, call>>
        BY <4>1 DEF Expire, auth, object
      <4>. QED BY <3>1, <4>2
    <3>3. CASE Tick
        BY <3>1, <3>3 DEF Tick, server, auth, object
    <3>4. CASE UNCHANGED vars
        BY <3>1, <3>4 DEF vars, server, auth, object
    <3>. QED BY <1>2, <3>2, <3>3, <3>4
  <2>2. Lived'
    <3>1. /\ now \in Nat /\ Lifetime \in Nat /\ \A i \in 1 .. Len(issued) : issued[i] \in Nat
        BY CallFacts
    <3>2. Lifetime <= now /\ \A t \in dead' : issued[t] + Lifetime <= now
        BY <2>1 DEF RetryInv, Lived
    <3>. QED BY <2>1, <3>1, <3>2 DEF Lived
  <2>3. Mapped' /\ Answered' /\ Recent'
    BY <2>1 DEF RetryInv, Mapped, Answered, Unseen, Recent
  <2>4. Refusals' /\ OtherToken' /\ Resending'
    BY <2>1 DEF RetryInv, Refusals, OtherToken, Renewed, Resending, Resent
  <2>. QED BY <2>2, <2>3, <2>4 DEF RetryInv
<1>. QED BY <1>1, <1>2

\* A request that is sent again after a refusal never carries the refused token,
\* for any number of threads and coroutines, which have two locks between them:
\* it rests on a token living longer than the interval and two timeouts.
THEOREM RetryHasNewToken == Spec => []RetryUsesNewToken
<1> DEFINE Inv == TypeOK /\ (~ given => NoGivenToken /\ RetryInv)
<1>1. Init => Inv
  <2> SUFFICES ASSUME Init, ~ given PROVE NoGivenToken /\ RetryInv
    BY InitType
  <2>1. /\ NewCall.arg = None /\ NewCall.refused = None /\ ~ NewCall.refreshed
        /\ Lifetime \in Nat
    BY TokenAssumption DEF NewCall
  <2>2. \A c \in Callers : pc[c] = "idle" /\ call[c] = NewCall
    BY DEF Init
  <2>3. NoGivenToken
    BY <2>1, <2>2 DEF Init, NoGivenToken
  <2>4. Lived /\ Mapped /\ Answered /\ Recent
    BY <2>1, <2>2 DEF Init, Lived, Mapped, Locking, Refreshing, Answered, Recent
  <2>5. Refusals /\ OtherToken /\ Resending
    BY <2>1, <2>2 DEF Refusals, OtherToken, Renewed, Resending, Resent
  <2>. QED BY <2>3, <2>4, <2>5 DEF RetryInv
<1>2. Inv /\ [Next]_vars => Inv'
  <2> SUFFICES ASSUME Inv, [Next]_vars PROVE Inv'
    OBVIOUS
  <2>1. TypeOK'
    BY NextType
  <2>2. given' = given
    BY ConfigStays DEF config
  <2>3. CASE ~ given
    <3>1. NoGivenToken'
        BY <2>3, NoGivenTokenStays
    <3>2. RetryInv'
        BY <2>3, RegisterKeepsRetry, RefreshKeepsRetry, RequestKeepsRetry,
           OtherKeepsRetry DEF Next, Step
    <3>. QED BY <2>1, <3>1, <3>2
  <2>. QED BY <2>1, <2>2, <2>3
<1>3. Inv => RetryUsesNewToken
    BY DEF RetryInv, Resending, RetryUsesNewToken
<1>. QED BY <1>1, <1>2, <1>3, PTL DEF Spec

-----------------------------------------------------------------------------
(* Calls end: no lock is kept, and the two nested retries run out.          *)

\* A caller inside a call that no lock holds up.
CanGoOn(c) == pc[c] # "idle" /\ (pc[c] \in {"lock", "get"} => Free(c))

NobodyStuck ==
    (\E c \in Callers : pc[c] # "idle") => \E c \in Callers : CanGoOn(c)

\* A lock is held only during a refresh, by a caller that guards the token with it.
LocksInUse ==
    \A c \in Callers :
        /\ lock = c => pc[c] \in Refreshing /\ Threaded(c)
        /\ alock = c => pc[c] \in Refreshing /\ ~ Threaded(c)

\* What a step of a caller does to the locks: it begins, goes on with or ends a refresh.
Handling(c) ==
    \/ locks' = locks /\ pc[c] \notin Refreshing
    \/ locks' = locks /\ pc'[c] \in Refreshing /\ call'[c].goal = call[c].goal
    \/ Acquire(c) /\ Free(c) /\ pc'[c] \in Refreshing /\ call'[c].goal = call[c].goal
    \/ Release(c) /\ pc[c] \in Refreshing

\* Each step of a caller is its own and handles the locks in one of these ways.
LEMMA StepHandles ==
    ASSUME TypeOK, NEW c \in Callers, Begin(c) \/ Step(c)
    PROVE  Handling(c) /\ \A b \in Callers \ {c} : pc'[b] = pc[b] /\ call'[b] = call[b]
<1>1. /\ pc \in [Callers -> States]
      /\ call \in [Callers -> CallType(Len(issued), now)]
    BY DEF TypeOK
<1>2. \A b \in Callers \ {c} : pc'[b] = pc[b] /\ call'[b] = call[b]
  <2>1. \E l : pc' = [pc EXCEPT ![c] = l]
    BY DEF Begin, Step, Register, Refresh, Request, Goto, Leave, TestRegistered,
           PassToken, RegisterNew, RegisterExisting, RegisterZero, MarkRegistered,
           SkipRefresh, StartRefresh, Answer, WriteToken, StampToken, RefreshInVain,
           Forget, GetToken, Accepted, Refused, HandleRefused, RaiseRefused, Retry, GiveUp
  <2>2. call' = call \/ \E d : call' = [call EXCEPT ![c] = d]
    <3>1. CASE Begin(c) \/ Register(c)
        BY <3>1 DEF Begin, Register, TestRegistered, PassToken, RegisterNew,
                    RegisterExisting, RegisterZero, MarkRegistered
    <3>2. CASE Refresh(c)
        BY <3>2 DEF Refresh, SkipRefresh, StartRefresh, Answer, WriteToken, StampToken,
                    RefreshInVain, Forget
    <3>3. CASE Request(c)
        BY <3>3 DEF Request, GetToken, Accepted, Refused, HandleRefused, RaiseRefused,
                    Retry, GiveUp, Leave
    <3>. QED BY <3>1, <3>2, <3>3 DEF Step
  <2>. QED BY <1>1, <2>1, <2>2
<1>3. ASSUME Begin(c) \/ Register(c) PROVE Handling(c)
    BY <1>3 DEF Begin, Register, TestRegistered, PassToken, RegisterNew, RegisterExisting,
                RegisterZero, MarkRegistered, Handling, Refreshing
<1>4. ASSUME Refresh(c) PROVE Handling(c)
  <2>1. CASE SkipRefresh(c) \/ Forget(c)
    BY <2>1 DEF SkipRefresh, Forget, Handling, Refreshing
  <2>2. CASE StartRefresh(c)
    BY <1>1, <2>2 DEF StartRefresh, Goto, Handling, Refreshing
  <2>3. CASE Answer(c) \/ WriteToken(c)
    <3>1. locks' = locks /\ pc'[c] \in Refreshing
        BY <1>1, <2>3 DEF Answer, WriteToken, Goto, Refreshing
    <3>2. \E x : call' = [call EXCEPT ![c].fresh = x]
        BY <2>3 DEF Answer, WriteToken
    <3>3. call'[c].goal = call[c].goal
        BY <1>1, <3>2 DEF CallType
    <3>. QED BY <3>1, <3>3 DEF Handling
  <2>4. CASE StampToken(c) \/ RefreshInVain(c)
    BY <2>4 DEF StampToken, RefreshInVain, Handling, Refreshing
  <2>. QED BY <1>4, <2>1, <2>2, <2>3, <2>4 DEF Refresh
<1>5. ASSUME Request(c) PROVE Handling(c)
    BY <1>5 DEF Request, GetToken, Accepted, Refused, HandleRefused, RaiseRefused, Retry,
                GiveUp, Handling, Refreshing, locks
<1>. QED BY <1>2, <1>3, <1>4, <1>5 DEF Step

\* The locks stay in use.
LEMMA NextLocksInUse ==
    TypeOK /\ LocksInUse /\ [Next]_vars => LocksInUse'
<1> SUFFICES ASSUME TypeOK, LocksInUse, [Next]_vars PROVE LocksInUse'
    OBVIOUS
<1>1. kind' = kind
    BY ConfigStays DEF config
<1>2. Nobody \notin Callers
    BY TokenAssumption
<1>3. ASSUME NEW c \in Callers, Begin(c) \/ Step(c) PROVE LocksInUse'
  <2>1. Handling(c) /\ \A b \in Callers \ {c} : pc'[b] = pc[b] /\ call'[b] = call[b]
    BY <1>3, StepHandles
  <2>2. \A b \in Callers : call'[b].goal = call[b].goal => (Threaded(b)' <=> Threaded(b))
    BY <1>1 DEF Threaded
  <2>3. \A b \in Callers \ {c} : Threaded(b)' <=> Threaded(b)
    BY <2>1, <2>2
  <2>4. CASE locks' = locks
    BY <2>1, <2>2, <2>3, <2>4, <1>2 DEF LocksInUse, Handling, locks, Acquire, Release
  <2>5. CASE Acquire(c) /\ pc'[c] \in Refreshing /\ call'[c].goal = call[c].goal
    BY <2>1, <2>2, <2>3, <2>5 DEF LocksInUse, Acquire
  <2>6. CASE Release(c) /\ pc[c] \in Refreshing
    BY <1>2, <2>1, <2>3, <2>6 DEF LocksInUse, Release, TypeOK, Holds
  <2>. QED BY <2>1, <2>4, <2>5, <2>6 DEF Handling
<1>4. CASE (\E t \in DOMAIN issued : Expire(t)) \/ Tick
    BY <1>4 DEF Expire, Tick, locks, config, LocksInUse, Threaded
<1>5. CASE UNCHANGED vars
    BY <1>5 DEF vars, locks, config, LocksInUse, Threaded
<1>. QED BY <1>3, <1>4, <1>5 DEF Next

\* As long as a call is under way one can go on: whichever way a refresh ends, it gives
\* back the lock it took, also when threads and coroutines share the token and each
\* kind has a lock of its own.
THEOREM NoDeadlock == Spec => []NobodyStuck
<1>1. Init => TypeOK /\ LocksInUse
    BY InitType, TokenAssumption DEF Init, LocksInUse
<1>2. TypeOK /\ LocksInUse => NobodyStuck
  <2> SUFFICES ASSUME TypeOK, LocksInUse, NEW c \in Callers, pc[c] # "idle"
               PROVE  \E b \in Callers : CanGoOn(b)
    BY DEF NobodyStuck
  <2>1. CASE CanGoOn(c)
    BY <2>1
  <2>2. CASE ~ CanGoOn(c)
    <3>1. PICK b \in Callers : pc[b] \in Refreshing
        BY <2>2 DEF CanGoOn, Free, LocksInUse, TypeOK
    <3>. QED BY <3>1 DEF CanGoOn, Refreshing
  <2>. QED BY <2>1, <2>2
<1>. QED BY <1>1, <1>2, NextType, NextLocksInUse, PTL DEF Spec

\* How far a call is from its end: the places it has before it in its attempt, the last
\* being 1; a refresh that belongs to a registration comes before it.
Place(l, registering) ==
    CASE l = "enter"   -> 20
      [] l = "pass"    -> 19
      [] l = "map"     -> 18
      [] l = "lock"    -> IF registering THEN 17 ELSE 11
      [] l = "ask"     -> IF registering THEN 16 ELSE 10
      [] l = "write"   -> IF registering THEN 15 ELSE 9
      [] l = "stamp"   -> IF registering THEN 14 ELSE 8
      [] l = "zero"    -> 13
      [] l = "mark"    -> 12
      [] l = "forget"  -> 7
      [] l = "get"     -> 3
      [] l = "send"    -> 2
      [] l = "refused" -> 1
      [] OTHER         -> 0

\* An attempt sends its request, refreshes a refused token, and sends it once more; a
\* token that was refreshed in an earlier attempt is not refreshed again.
Phase(d) == IF d.refreshed THEN 0 ELSE IF d.goal = "send" THEN 2 ELSE 1

Rank(l, d) == 96 * (Attempts - d.attempt) + 32 * Phase(d) + Place(l, d.registering)

\* Every step of a call ends it or brings it nearer to its end.
NearerToItsEnd ==
    \A c \in Callers : pc[c] # "idle" =>
        \/ pc'[c] = pc[c] /\ call'[c] = call[c]
        \/ pc'[c] = "idle"
        \/ Rank(pc'[c], call'[c]) < Rank(pc[c], call[c])

\* A request is sent or refused in the part of a call that sends, and a token is
\* refreshed in the other, once, or in a registration.
Sending ==
    \A c \in Callers :
        /\ pc[c] \in {"get", "send", "refused"} => call[c].goal = "send"
        /\ pc[c] = "forget" => call[c].goal = "refresh"
        /\ pc[c] \in {"lock"} \cup Refreshing =>
              call[c].registering \/ call[c].goal = "refresh"
        /\ call[c].registering => pc[c] \in {"lock"} \cup Refreshing
        /\ call[c].goal = "refresh" => ~ call[c].refreshed

\* Of three counts, weighed so, a lower one at the left outweighs what is at its right.
LEMMA Outweighs ==
    ASSUME NEW a \in Int, NEW b \in Int, NEW f \in 0 .. 2, NEW g \in 0 .. 2,
           NEW p \in 0 .. 20, NEW q \in 0 .. 20,
           \/ b = a /\ g < f
           \/ b = a /\ g = f /\ q < p
           \/ b = a + 1
    PROVE  96 * (Attempts - b) + 32 * g + q < 96 * (Attempts - a) + 32 * f + p
BY TokenAssumption

\* What the rank is made of.
LEMMA RankParts ==
    ASSUME NEW l \in States, NEW n \in Nat, NEW t \in Nat, NEW d \in CallType(n, t)
    PROVE  /\ Attempts \in Nat /\ d.attempt \in 1 .. Attempts /\ Phase(d) \in 0 .. 2
           /\ Place(l, d.registering) \in 0 .. 20
           /\ Rank(l, d) \in Nat
<1>1. Attempts \in Nat /\ d.attempt \in 1 .. Attempts
    BY TokenAssumption DEF CallType
<1>2. Phase(d) \in 0 .. 2
    BY DEF Phase
<1>3. Place(l, d.registering) \in 0 .. 20
    BY DEF Place, States, Refreshing
<1>4. Rank(l, d) \in Nat
    BY <1>1, <1>2, <1>3 DEF Rank
<1>. QED BY <1>1, <1>2, <1>3, <1>4

\* A call comes nearer to its end within an attempt, or by using one up.
LEMMA RankFalls ==
    ASSUME NEW l \in States, NEW m \in States, NEW n \in Nat, NEW t \in Nat,
           NEW d \in CallType(n, t), NEW o \in Nat, NEW u \in Nat, NEW e \in CallType(o, u),
           \/ e.attempt = d.attempt /\ Phase(e) < Phase(d)
           \/ /\ e.attempt = d.attempt /\ Phase(e) = Phase(d)
              /\ Place(m, e.registering) < Place(l, d.registering)
           \/ e.attempt = d.attempt + 1
    PROVE  Rank(m, e) < Rank(l, d)
<1>1. /\ Attempts \in Nat /\ d.attempt \in Int /\ e.attempt \in Int
      /\ Phase(d) \in 0 .. 2 /\ Phase(e) \in 0 .. 2
      /\ Place(l, d.registering) \in 0 .. 20 /\ Place(m, e.registering) \in 0 .. 20
    BY RankParts
<1>2. \/ e.attempt = d.attempt /\ Phase(e) < Phase(d)
      \/ /\ e.attempt = d.attempt /\ Phase(e) = Phase(d)
         /\ Place(m, e.registering) < Place(l, d.registering)
      \/ e.attempt = d.attempt + 1
    OBVIOUS
<1>. QED BY <1>1, <1>2, Outweighs DEF Rank

\* Where a step of a caller leads, and what it does to the parts of the rank.
Onward(c) ==
    LET d == call[c] IN
    LET e == call'[c] IN
    /\ e.attempt = d.attempt
    /\ \/ e.refreshed = d.refreshed /\ e.goal = d.goal
          /\ Place(pc'[c], e.registering) < Place(pc[c], d.registering)
       \/ e.refreshed /\ ~ d.refreshed
       \/ ~ d.refreshed /\ e.refreshed = d.refreshed /\ d.goal = "send" /\ e.goal = "refresh"

Again(c) == call'[c].attempt = call[c].attempt + 1

Sent(c) ==
    /\ pc'[c] \in {"get", "send", "refused"} => call'[c].goal = "send"
    /\ pc'[c] = "forget" => call'[c].goal = "refresh"
    /\ pc'[c] \in {"lock"} \cup Refreshing =>
          call'[c].registering \/ call'[c].goal = "refresh"
    /\ call'[c].registering => pc'[c] \in {"lock"} \cup Refreshing
    /\ call'[c].goal = "refresh" => ~ call'[c].refreshed

\* Registration goes forward, to a refresh or past it.
LEMMA RegisterGoesOn ==
    ASSUME TypeOK, Sending, NEW c \in Callers, Register(c)
    PROVE  Onward(c) /\ Sent(c)
<1>1. /\ pc \in [Callers -> States]
      /\ call \in [Callers -> CallType(Len(issued), now)]
    BY DEF TypeOK
<1>2. CASE TestRegistered(c)
  <2>1. call' = call /\ pc[c] = "enter" /\ ~ call[c].registering
    BY <1>2 DEF TestRegistered, Sending, Refreshing
  <2>2. \/ pc'[c] = "pass"
        \/ pc'[c] = "lock" /\ call[c].goal = "refresh"
        \/ pc'[c] = "get" /\ call[c].goal = "send"
    BY <1>1, <1>2 DEF TestRegistered, Goto, AfterRegister, CallType
  <2>. QED BY <2>1, <2>2 DEF Onward, Sent, Sending, Place, Refreshing
<1>3. CASE PassToken(c)
  <2>1. /\ pc[c] = "pass" /\ pc'[c] = "map" /\ ~ call[c].registering
        /\ call' = [call EXCEPT ![c].arg = accessToken]
    BY <1>1, <1>3 DEF PassToken, Goto, Sending, Refreshing
  <2>2. call'[c] = [call[c] EXCEPT !.arg = accessToken]
    BY <1>1, <2>1
  <2>. QED BY <1>1, <2>1, <2>2 DEF Onward, Sent, Sending, Place, CallType, Refreshing
<1>4. CASE RegisterNew(c)
  <2>1. /\ pc[c] = "map" /\ ~ call[c].registering
        /\ call'[c] = [call[c] EXCEPT !.registering = (call[c].arg = None), !.arg = None]
        /\ pc'[c] = IF call[c].arg = None THEN "lock" ELSE "mark"
    BY <1>1, <1>4 DEF RegisterNew, Goto, Sending, Refreshing
  <2>2. /\ call'[c].attempt = call[c].attempt /\ call'[c].goal = call[c].goal
        /\ call'[c].refreshed = call[c].refreshed
        /\ call'[c].registering = (call[c].arg = None)
    BY <1>1, <2>1 DEF CallType
  <2>3. Onward(c)
    BY <2>1, <2>2 DEF Onward, Place
  <2>4. Sent(c)
    BY <2>1, <2>2 DEF Sent, Sending, Refreshing
  <2>. QED BY <2>3, <2>4
<1>5. CASE RegisterExisting(c)
  <2>1. /\ pc[c] = "map" /\ ~ call[c].registering
        /\ call'[c] = [call[c] EXCEPT !.arg = None]
        /\ pc'[c] \in {"mark", "zero"}
    BY <1>1, <1>5 DEF RegisterExisting, Goto, Sending, Refreshing
  <2>. QED BY <1>1, <2>1 DEF Onward, Sent, Sending, Place, CallType, Refreshing
<1>6. CASE RegisterZero(c)
  <2>1. /\ pc[c] = "zero" /\ pc'[c] = "mark" /\ call' = call /\ ~ call[c].registering
    BY <1>1, <1>6 DEF RegisterZero, Goto, Sending, Refreshing
  <2>. QED BY <2>1 DEF Onward, Sent, Sending, Place, Refreshing
<1>7. CASE MarkRegistered(c)
  <2>1. /\ pc[c] = "mark" /\ call' = call /\ ~ call[c].registering
        /\ \/ pc'[c] = "lock" /\ call[c].goal = "refresh"
           \/ pc'[c] = "get" /\ call[c].goal = "send"
    BY <1>1, <1>7 DEF MarkRegistered, Goto, AfterRegister, Sending, Refreshing,
                      CallType
  <2>. QED BY <2>1 DEF Onward, Sent, Sending, Place, Refreshing
<1>. QED BY <1>2, <1>3, <1>4, <1>5, <1>6, <1>7 DEF Register

\* A refresh comes to its end, and is the last of its call when it is not that of the
\* registration.
LEMMA RefreshGoesOn ==
    ASSUME TypeOK, Sending, NEW c \in Callers, Refresh(c)
    PROVE  Onward(c) /\ Sent(c)
<1>1. /\ pc \in [Callers -> States]
      /\ call \in [Callers -> CallType(Len(issued), now)]
    BY DEF TypeOK
<1>2. CASE SkipRefresh(c)
  <2>1. /\ pc[c] = "lock" /\ call'[c] = [call[c] EXCEPT !.registering = FALSE]
        /\ pc'[c] = IF call[c].registering THEN "mark" ELSE "forget"
    BY <1>1, <1>2 DEF SkipRefresh, Goto, AfterRefresh
  <2>. QED BY <1>1, <2>1 DEF Onward, Sent, Sending, Place, CallType, Refreshing
<1>3. CASE StartRefresh(c)
  <2>1. /\ pc[c] = "lock" /\ call'[c] = [call[c] EXCEPT !.sentAt = now] /\ pc'[c] = "ask"
    BY <1>1, <1>3 DEF StartRefresh, Goto
  <2>. QED BY <1>1, <2>1 DEF Onward, Sent, Sending, Place, CallType, Refreshing
<1>4. CASE Answer(c)
  <2>1. /\ pc[c] = "ask" /\ call'[c] = [call[c] EXCEPT !.fresh = Len(issued')]
        /\ pc'[c] = "write"
    BY <1>1, <1>4 DEF Answer, Goto
  <2>. QED BY <1>1, <2>1 DEF Onward, Sent, Sending, Place, CallType, Refreshing
<1>5. CASE WriteToken(c)
  <2>1. /\ pc[c] = "write" /\ call'[c] = [call[c] EXCEPT !.fresh = None]
        /\ pc'[c] = "stamp"
    BY <1>1, <1>5 DEF WriteToken, Goto
  <2>. QED BY <1>1, <2>1 DEF Onward, Sent, Sending, Place, CallType, Refreshing
<1>6. CASE StampToken(c)
  <2>1. /\ pc[c] = "stamp"
        /\ call'[c] = [call[c] EXCEPT !.registering = FALSE, !.sentAt = 0]
        /\ pc'[c] = IF call[c].registering THEN "mark" ELSE "forget"
    BY <1>1, <1>6 DEF StampToken, Goto, AfterRefresh
  <2>. QED BY <1>1, <2>1 DEF Onward, Sent, Sending, Place, CallType, Refreshing
<1>7. CASE RefreshInVain(c)
  <2>1. /\ pc[c] = "ask"
        /\ call'[c] = [call[c] EXCEPT !.registering = FALSE, !.sentAt = 0, !.faulted = TRUE]
        /\ pc'[c] = IF call[c].registering THEN "mark" ELSE "forget"
    BY <1>1, <1>7 DEF RefreshInVain, Goto, AfterRefresh
  <2>. QED BY <1>1, <2>1 DEF Onward, Sent, Sending, Place, CallType, Refreshing
<1>8. CASE Forget(c)
  <2>1. /\ pc[c] = "forget" /\ pc'[c] = "enter" /\ ~ call[c].registering
        /\ call'[c] = [call[c] EXCEPT !.refreshed = TRUE, !.goal = "send"]
    BY <1>1, <1>8 DEF Forget, Goto, Sending, Refreshing
  <2>2. /\ call'[c].attempt = call[c].attempt /\ call'[c].goal = "send"
        /\ call'[c].refreshed /\ call'[c].registering = call[c].registering
    BY <1>1, <2>1 DEF CallType
  <2>3. ~ call[c].refreshed
    BY <2>1 DEF Sending
  <2>4. Onward(c)
    BY <2>2, <2>3 DEF Onward
  <2>5. Sent(c)
    BY <2>1, <2>2 DEF Sent, Refreshing
  <2>. QED BY <2>4, <2>5
<1>. QED BY <1>2, <1>3, <1>4, <1>5, <1>6, <1>7, <1>8 DEF Refresh

\* A request ends its call, is refused, or is tried again in another attempt.
LEMMA RequestGoesOn ==
    ASSUME TypeOK, Sending, NEW c \in Callers, Request(c)
    PROVE  /\ pc'[c] = "idle" \/ Onward(c) \/ Again(c)
           /\ Sent(c)
<1>1. /\ pc \in [Callers -> States]
      /\ call \in [Callers -> CallType(Len(issued), now)]
    BY DEF TypeOK
<1>2. CASE GetToken(c)
  <2>1. /\ pc[c] = "get" /\ pc'[c] = "send" /\ ~ call[c].registering
        /\ call'[c] = [call[c] EXCEPT !.held = token]
    BY <1>1, <1>2 DEF GetToken, Goto, Sending, Refreshing
  <2>. QED BY <1>1, <2>1 DEF Onward, Sent, Sending, Place, CallType, Refreshing
<1>3. CASE Refused(c)
  <2>1. pc[c] = "send" /\ pc'[c] = "refused" /\ ~ call[c].registering /\ call' = call
    BY <1>1, <1>3 DEF Refused, Goto, Sending, Refreshing
  <2>. QED BY <2>1 DEF Onward, Sent, Sending, Place, Refreshing
<1>4. CASE HandleRefused(c)
  <2>1. /\ pc[c] = "refused" /\ pc'[c] = "enter" /\ ~ call[c].registering
        /\ ~ call[c].refreshed /\ call[c].goal = "send"
        /\ call'[c] = [call[c] EXCEPT !.goal = "refresh", !.held = None,
                                      !.refused = call[c].held]
    BY <1>1, <1>4 DEF HandleRefused, Goto, Sending, Refreshing
  <2>2. /\ call'[c].attempt = call[c].attempt /\ call'[c].goal = "refresh"
        /\ call'[c].refreshed = call[c].refreshed
        /\ call'[c].registering = call[c].registering
    BY <1>1, <2>1 DEF CallType
  <2>3. Onward(c)
    BY <2>1, <2>2 DEF Onward
  <2>4. Sent(c)
    BY <2>1, <2>2 DEF Sent, Refreshing
  <2>. QED BY <2>3, <2>4
<1>5. CASE Accepted(c) \/ RaiseRefused(c) \/ GiveUp(c)
  <2>1. pc'[c] = "idle" /\ call'[c] = NewCall
    BY <1>1, <1>5 DEF Accepted, RaiseRefused, GiveUp, Leave, Goto
  <2>2. ~ NewCall.registering /\ NewCall.goal = "send"
    BY DEF NewCall
  <2>. QED BY <2>1, <2>2 DEF Sent, Refreshing
<1>6. CASE Retry(c)
  <2> DEFINE e == [NewCall EXCEPT !.attempt = call[c].attempt + 1,
                                  !.refreshed = call[c].refreshed,
                                  !.faulted = call[c].faulted,
                                  !.refused = call[c].refused]
  <2>1. e.attempt = call[c].attempt + 1 /\ ~ e.registering /\ e.goal = "send"
    BY DEF NewCall
  <2>2. pc'[c] = "enter" /\ call'[c] = e
    BY <1>1, <1>6 DEF Retry, Goto
  <2> HIDE DEF e
  <2>. QED BY <2>1, <2>2 DEF Again, Sent, Refreshing
<1>. QED BY <1>2, <1>3, <1>4, <1>5, <1>6 DEF Request

\* Beginning a call, or not being in one, is consistent with these places.
LEMMA NextSending == TypeOK /\ Sending /\ [Next]_vars => Sending'
<1> SUFFICES ASSUME TypeOK, Sending, [Next]_vars PROVE Sending'
    OBVIOUS
<1>1. ASSUME NEW c \in Callers, Begin(c) \/ Step(c) PROVE Sending'
  <2>1. \A b \in Callers \ {c} : pc'[b] = pc[b] /\ call'[b] = call[b]
    BY <1>1, StepHandles
  <2>2. Sent(c)
    <3>1. CASE Begin(c)
      <4>1. pc[c] = "idle" /\ pc'[c] = "enter" /\ call' = call
        BY <3>1 DEF Begin, Goto, TypeOK
      <4>. QED BY <4>1 DEF Sent, Sending, Refreshing
    <3>. QED BY <1>1, <3>1, RegisterGoesOn, RefreshGoesOn, RequestGoesOn DEF Step
  <2>. QED BY <2>1, <2>2 DEF Sending, Sent, Refreshing
<1>2. CASE (\E t \in DOMAIN issued : Expire(t)) \/ Tick
    BY <1>2 DEF Expire, Tick, Sending, Refreshing
<1>3. CASE UNCHANGED vars
    BY <1>3 DEF vars, Sending, Refreshing
<1>. QED BY <1>1, <1>2, <1>3 DEF Next

\* A call that goes on comes nearer to its end.
LEMMA OnwardFalls ==
    ASSUME TypeOK, TypeOK', NEW c \in Callers, Onward(c) \/ Again(c)
    PROVE  Rank(pc'[c], call'[c]) < Rank(pc[c], call[c])
<1> DEFINE d == call[c]
           e == call'[c]
<1>1. /\ pc[c] \in States /\ d \in CallType(Len(issued), now)
      /\ Len(issued) \in Nat /\ now \in Nat
    BY DEF TypeOK
<1>2. /\ pc'[c] \in States /\ e \in CallType(Len(issued'), now')
      /\ Len(issued') \in Nat /\ now' \in Nat
    BY DEF TypeOK
<1>3. \/ e.attempt = d.attempt /\ Phase(e) < Phase(d)
      \/ /\ e.attempt = d.attempt /\ Phase(e) = Phase(d)
         /\ Place(pc'[c], e.registering) < Place(pc[c], d.registering)
      \/ e.attempt = d.attempt + 1
  <2>1. CASE Again(c)
    BY <2>1 DEF Again
  <2>2. CASE Onward(c)
    <3>1. CASE /\ e.refreshed = d.refreshed /\ e.goal = d.goal
               /\ Place(pc'[c], e.registering) < Place(pc[c], d.registering)
        BY <2>2, <3>1 DEF Onward, Phase
    <3>2. CASE e.refreshed /\ ~ d.refreshed
        BY <2>2, <3>2 DEF Onward, Phase
    <3>3. CASE /\ ~ d.refreshed /\ e.refreshed = d.refreshed /\ d.goal = "send"
               /\ e.goal = "refresh"
        BY <2>2, <3>3 DEF Onward, Phase
    <3>. QED BY <2>2, <3>1, <3>2, <3>3 DEF Onward
  <2>. QED BY <2>1, <2>2
<1> HIDE DEF d, e
<1>. QED BY <1>1, <1>2, <1>3, RankFalls DEF d, e

\* The two retries do not feed each other: whatever the server answers, and whatever
\* other callers do to the token meanwhile, each step of a call ends it or lowers a
\* number that began below 96 * Attempts.  With NobodyStuck this is why calls end
\* (TLC checks EveryCallEnds on small instances).
THEOREM RetriesRunOut ==
    Spec => [](\A c \in Callers : Rank(pc[c], call[c]) \in 0 .. 96 * Attempts)
            /\ [][NearerToItsEnd]_vars
<1> DEFINE Ranked == \A c \in Callers : Rank(pc[c], call[c]) \in 0 .. 96 * Attempts
<1>1. Init => TypeOK /\ Sending
  <2>1. ~ NewCall.registering /\ NewCall.goal = "send"
    BY DEF NewCall
  <2>. QED BY <2>1, InitType DEF Init, Sending, Refreshing
<1>2. TypeOK => Ranked
  <2> SUFFICES ASSUME TypeOK, NEW c \in Callers
               PROVE  Rank(pc[c], call[c]) \in 0 .. 96 * Attempts
    OBVIOUS
  <2>1. /\ pc[c] \in States /\ call[c] \in CallType(Len(issued), now)
        /\ Len(issued) \in Nat /\ now \in Nat
    BY DEF TypeOK
  <2>2. /\ Attempts \in Nat /\ call[c].attempt \in 1 .. Attempts /\ Phase(call[c]) \in 0 .. 2
        /\ Place(pc[c], call[c].registering) \in 0 .. 20
        /\ Rank(pc[c], call[c]) \in Nat
    BY <2>1, RankParts
  <2>. QED BY <2>2 DEF Rank
<1>3. TypeOK /\ TypeOK' /\ Sending /\ [Next]_vars => NearerToItsEnd
  <2> SUFFICES ASSUME TypeOK, TypeOK', Sending, [Next]_vars, NEW c \in Callers,
                      pc[c] # "idle"
               PROVE  \/ pc'[c] = pc[c] /\ call'[c] = call[c]
                      \/ pc'[c] = "idle"
                      \/ Rank(pc'[c], call'[c]) < Rank(pc[c], call[c])
    BY DEF NearerToItsEnd
  <2>1. ASSUME NEW b \in Callers, Begin(b) \/ Step(b)
        PROVE  \/ pc'[c] = pc[c] /\ call'[c] = call[c]
               \/ pc'[c] = "idle"
               \/ Onward(c) \/ Again(c)
    <3>1. CASE b # c
        BY <2>1, <3>1, StepHandles
    <3>2. CASE b = c
      <4>1. Step(c)
        BY <2>1, <3>2 DEF Begin
      <4>. QED BY <4>1, RegisterGoesOn, RefreshGoesOn, RequestGoesOn DEF Step
    <3>. QED BY <3>1, <3>2
  <2>2. CASE (\E t \in DOMAIN issued : Expire(t)) \/ Tick \/ UNCHANGED vars
    BY <2>2 DEF Expire, Tick, vars
  <2>. QED BY <2>1, <2>2, OnwardFalls DEF Next
<1>. QED BY <1>1, <1>2, <1>3, NextType, NextSending, PTL DEF Spec

=============================================================================
