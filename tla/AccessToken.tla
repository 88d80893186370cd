----------------------------- MODULE AccessToken -----------------------------
(***************************************************************************)
(* One access token shared by the calls of one (ak, sk): AuthManager and   *)
(* Auth of python/qianfan/resources/auth/oauth.py under the two nested     *)
(* retries of a call, _with_retry (requestor/base.py) around               *)
(* _retry_if_token_expired (requestor/openapi_requestor.py).               *)
(*                                                                         *)
(* A call registers the credential if nobody has, reads the token, sends   *)
(* its request and, when the server refuses the token, refreshes it once   *)
(* and sends the request again.  Threads guard the Token object by its     *)
(* `lock`, coroutines by its `alock`.                                      *)
(*                                                                         *)
(* A token is the number of its issue.  Signed requests (access key) and   *)
(* bearer tokens are left out.  Finding no Token object in the map and     *)
(* making one is a single step for threads and coroutines alike.           *)
(***************************************************************************)
EXTENDS Integers, Sequences

CONSTANTS
    Callers,        \* the threads and coroutines that make calls
    Kinds,          \* what they may be: "thread", "async", "stream"
    Attempts,       \* retry_count
    MinInterval,    \* ACCESS_TOKEN_REFRESH_MIN_INTERVAL
    Early,          \* the ten seconds of _is_refresh_token_too_often
    AuthTimeout,    \* AUTH_TIMEOUT, longest time an answer takes
    Lifetime,       \* how long the server accepts a token, at least
    MaxCalls,       \* bound on the calls of each caller
    MaxNow          \* bound on the clock

None == 0           \* no token, "" for a request
Nobody == "nobody"  \* the holder of a free lock

ASSUME TokenAssumption ==
    /\ Kinds \subseteq {"thread", "async", "stream"}
    /\ Nobody \notin Callers
    /\ Attempts \in Nat \ {0} /\ MaxCalls \in Nat /\ MaxNow \in Nat
    /\ MinInterval \in Nat /\ Early \in Nat /\ AuthTimeout \in Nat /\ Lifetime \in Nat
    /\ MinInterval + 2 * AuthTimeout <= Lifetime + Early

VARIABLES
    kind,           \* how each caller runs
    given,          \* whether the user gave an access token beside (ak, sk)
    now,            \* time.time()
    issued,         \* external: when the server issued each token
    dead,           \* external: the tokens the server refuses
    accessToken,    \* Auth._access_token
    registered,     \* Auth._registered
    known,          \* whether (ak, sk) is in _token_map
    token,          \* Token.token
    refreshAt,      \* Token.refresh_at
    lock,           \* the holder of Token.lock
    alock,          \* the holder of Token.alock
    pc,             \* where each caller is
    calls,          \* the calls each caller has begun
    call            \* the locals of each call under way

config == <<kind, given>>
server == <<issued, dead>>
auth == <<accessToken, registered, known>>
object == <<token, refreshAt>>
locks == <<lock, alock>>
vars == <<config, now, server, auth, object, locks, pc, calls, call>>

Refreshing == {"ask", "write", "stamp"}
States == {"idle", "enter", "pass", "map", "zero", "mark", "lock", "get", "send",
           "refused", "forget"} \cup Refreshing

\* The locals of a call as it begins.
NewCall ==
    [ attempt     |-> 1,        \* the current attempt of _with_retry
      goal        |-> "send",   \* or "refresh", in the handler of a refusal
      registering |-> FALSE,    \* the refresh under way is that of register
      refreshed   |-> FALSE,    \* token_refreshed
      faulted     |-> FALSE,    \* history: a refresh came back without a token
      arg         |-> None,     \* the access token passed to register
      held        |-> None,     \* the token the request carries
      refused     |-> None,     \* history: the token the server refused
      fresh       |-> None,     \* the token in the server's answer
      sentAt      |-> 0 ]       \* when the server was asked for it

Init ==
    /\ kind \in [Callers -> Kinds]
    /\ given \in BOOLEAN
    /\ now = Lifetime
    /\ issued = IF given THEN <<0>> ELSE <<>>
    /\ dead = {}
    /\ accessToken = IF given THEN 1 ELSE None
    /\ registered = FALSE
    /\ known = FALSE
    /\ token = None
    /\ refreshAt = 0
    /\ lock = Nobody
    /\ alock = Nobody
    /\ pc = [c \in Callers |-> "idle"]
    /\ calls = [c \in Callers |-> 0]
    /\ call = [c \in Callers |-> NewCall]

Goto(c, l) == pc' = [pc EXCEPT ![c] = l]

Leave(c) == Goto(c, "idle") /\ call' = [call EXCEPT ![c] = NewCall]

\* Only an async stream adds its token with a_access_token; every other request
\* of a coroutine reads it as a thread does (_async_request, base.py:407).  A
\* refused token is refreshed by arefresh_access_token in both.
Threaded(c) ==
    \/ kind[c] = "thread"
    \/ kind[c] = "async" /\ call[c].goal = "send"

Free(c) == IF Threaded(c) THEN lock = Nobody ELSE alock = Nobody

Acquire(c) ==
    IF Threaded(c) THEN lock' = c /\ alock' = alock
                   ELSE alock' = c /\ lock' = lock

Release(c) ==
    IF Threaded(c) THEN lock' = Nobody /\ alock' = alock
                   ELSE alock' = Nobody /\ lock' = lock

-----------------------------------------------------------------------------
(* Registration: _register and _aregister of Auth and of AuthManager.       *)

\* Once registered, access_token goes on to get_token, and
\* refresh_access_token to refresh_token.
AfterRegister(c) == IF call[c].goal = "send" THEN "get" ELSE "lock"

TestRegistered(c) ==
    /\ pc[c] = "enter"
    /\ Goto(c, IF registered THEN AfterRegister(c) ELSE "pass")
    /\ UNCHANGED <<config, now, server, auth, object, locks, calls, call>>

\* self._access_token is read for the argument before the map is locked.
PassToken(c) ==
    /\ pc[c] = "pass"
    /\ call' = [call EXCEPT ![c].arg = accessToken]
    /\ Goto(c, "map")
    /\ UNCHANGED <<config, now, server, auth, object, locks, calls>>

\* The first caller makes the Token object and, without a token, refreshes it.
RegisterNew(c) ==
    /\ pc[c] = "map"
    /\ ~ known
    /\ known' = TRUE
    /\ token' = call[c].arg
    /\ call' = [call EXCEPT ![c].registering = (call[c].arg = None), ![c].arg = None]
    /\ Goto(c, IF call[c].arg = None THEN "lock" ELSE "mark")
    /\ UNCHANGED <<config, now, server, accessToken, registered, refreshAt,
                   locks, calls>>

\* The others write the token they pass over that of the object, under the lock
\* of the map and not that of the object.
RegisterExisting(c) ==
    /\ pc[c] = "map"
    /\ known
    /\ token' = IF call[c].arg = None THEN token ELSE call[c].arg
    /\ call' = [call EXCEPT ![c].arg = None]
    /\ Goto(c, IF call[c].arg = None THEN "mark" ELSE "zero")
    /\ UNCHANGED <<config, now, server, auth, refreshAt, locks, calls>>

RegisterZero(c) ==
    /\ pc[c] = "zero"
    /\ refreshAt' = 0
    /\ Goto(c, "mark")
    /\ UNCHANGED <<config, now, server, auth, token, locks, calls, call>>

MarkRegistered(c) ==
    /\ pc[c] = "mark"
    /\ registered' = TRUE
    /\ Goto(c, AfterRegister(c))
    /\ UNCHANGED <<config, now, server, accessToken, known, object, locks, calls, call>>

-----------------------------------------------------------------------------
(* Refresh: refresh_token and arefresh_access_token of AuthManager.         *)

\* Two mutants of TooOften: nobody's refresh is, or everybody's but the first.
NeverTooOften == FALSE
RefreshedBefore == refreshAt # 0

TooOften == now + Early - refreshAt < MinInterval

AfterRefresh(c) == IF call[c].registering THEN "mark" ELSE "forget"

\* Several callers come here with one expired token; the first asks for a new
\* one, the others find it refreshed when they get the lock.
SkipRefresh(c) ==
    /\ pc[c] = "lock"
    /\ Free(c)
    /\ TooOften
    /\ call' = [call EXCEPT ![c].registering = FALSE]
    /\ Goto(c, AfterRefresh(c))
    /\ UNCHANGED <<config, now, server, auth, object, locks, calls>>

StartRefresh(c) ==
    /\ pc[c] = "lock"
    /\ Free(c)
    /\ ~ TooOften
    /\ Acquire(c)
    /\ call' = [call EXCEPT ![c].sentAt = now]
    /\ Goto(c, "ask")
    /\ UNCHANGED <<config, now, server, auth, object, calls>>

Answer(c) ==
    /\ pc[c] = "ask"
    /\ issued' = Append(issued, now)
    /\ call' = [call EXCEPT ![c].fresh = Len(issued')]
    /\ Goto(c, "write")
    /\ UNCHANGED <<config, now, dead, auth, object, locks, calls>>

\* A mutant of WriteToken: the lock is released before the time is written.
WriteAndRelease(c) ==
    /\ pc[c] = "write"
    /\ token' = call[c].fresh
    /\ Release(c)
    /\ call' = [call EXCEPT ![c].fresh = None]
    /\ Goto(c, "stamp")
    /\ UNCHANGED <<config, now, server, auth, refreshAt, calls>>

\* _update_token writes the token, then the time.
WriteToken(c) ==
    /\ pc[c] = "write"
    /\ token' = call[c].fresh
    /\ call' = [call EXCEPT ![c].fresh = None]
    /\ Goto(c, "stamp")
    /\ UNCHANGED <<config, now, server, auth, refreshAt, locks, calls>>

StampToken(c) ==
    /\ pc[c] = "stamp"
    /\ refreshAt' = now
    /\ Release(c)
    /\ call' = [call EXCEPT ![c].registering = FALSE, ![c].sentAt = 0]
    /\ Goto(c, AfterRefresh(c))
    /\ UNCHANGED <<config, now, server, auth, token, calls>>

\* An error message other than invalid_client only leaves the token as it was;
\* so does any exception but AuthError in arefresh_access_token.
RefreshInVain(c) ==
    /\ pc[c] = "ask"
    /\ Release(c)
    /\ call' = [call EXCEPT ![c].registering = FALSE, ![c].sentAt = 0,
                             ![c].faulted = TRUE]
    /\ Goto(c, AfterRefresh(c))
    /\ UNCHANGED <<config, now, server, auth, object, calls>>

\* The handler of the refused token ends: refresh_access_token clears the token
\* the user gave, token_refreshed is set and the request is made again.
Forget(c) ==
    /\ pc[c] = "forget"
    /\ accessToken' = None
    /\ call' = [call EXCEPT ![c].refreshed = TRUE, ![c].goal = "send"]
    /\ Goto(c, "enter")
    /\ UNCHANGED <<config, now, server, registered, known, object, locks, calls>>

-----------------------------------------------------------------------------
(* The call.                                                                *)

Begin(c) ==
    /\ pc[c] = "idle"
    /\ calls[c] < MaxCalls
    /\ calls' = [calls EXCEPT ![c] = @ + 1]
    /\ Goto(c, "enter")
    /\ UNCHANGED <<config, now, server, auth, object, locks, call>>

\* get_token waits for a refresh under way.  A request without a token is
\* refused by _add_access_token itself.
GetToken(c) ==
    /\ pc[c] = "get"
    /\ Free(c)
    /\ call' = [call EXCEPT ![c].held = token]
    /\ Goto(c, "send")
    /\ UNCHANGED <<config, now, server, auth, object, locks, calls>>

Accepted(c) ==
    /\ pc[c] = "send"
    /\ call[c].held # None /\ call[c].held \notin dead
    /\ Leave(c)
    /\ UNCHANGED <<config, now, server, auth, object, locks, calls>>

Refused(c) ==
    /\ pc[c] = "send"
    /\ call[c].held = None \/ call[c].held \in dead
    /\ Goto(c, "refused")
    /\ UNCHANGED <<config, now, server, auth, object, locks, calls, call>>

\* A mutant of HandleRefused: token_refreshed is not looked at.
HandleAlways(c) ==
    /\ pc[c] = "refused"
    /\ call' = [call EXCEPT ![c].goal = "refresh", ![c].held = None,
                             ![c].refused = call[c].held]
    /\ Goto(c, "enter")
    /\ UNCHANGED <<config, now, server, auth, object, locks, calls>>

HandleRefused(c) ==
    /\ pc[c] = "refused"
    /\ ~ call[c].refreshed
    /\ call' = [call EXCEPT ![c].goal = "refresh", ![c].held = None,
                             ![c].refused = call[c].held]
    /\ Goto(c, "enter")
    /\ UNCHANGED <<config, now, server, auth, object, locks, calls>>

RaiseRefused(c) ==
    /\ pc[c] = "refused"
    /\ call[c].refreshed
    /\ Leave(c)
    /\ UNCHANGED <<config, now, server, auth, object, locks, calls>>

\* An exception of the request, or of the refresh of a thread: _with_retry
\* repeats the whole of _retry_if_token_expired, whose token_refreshed lives on.
Retry(c) ==
    /\ \/ pc[c] = "send" /\ call[c].held # None /\ UNCHANGED locks
       \/ pc[c] = "ask" /\ kind[c] = "thread" /\ Release(c)
    /\ call[c].attempt < Attempts
    /\ call' = [call EXCEPT ![c] = [NewCall EXCEPT
                                      !.attempt = call[c].attempt + 1,
                                      !.refreshed = call[c].refreshed,
                                      !.faulted = call[c].faulted,
                                      !.refused = call[c].refused]]
    /\ Goto(c, "enter")
    /\ UNCHANGED <<config, now, server, auth, object, calls>>

\* The attempts are used up, or the error is not one to retry on (AuthError; an
\* exception of a thread's refresh that a coroutine has to make).
GiveUp(c) ==
    /\ \/ pc[c] = "send" /\ call[c].held # None /\ UNCHANGED locks
       \/ pc[c] = "ask" /\ Release(c)
    /\ Leave(c)
    /\ UNCHANGED <<config, now, server, auth, object, calls>>

-----------------------------------------------------------------------------
(* The server and the clock.                                                *)

Expire(t) ==
    /\ t \in DOMAIN issued \ dead
    /\ issued[t] + Lifetime <= now
    /\ dead' = dead \cup {t}
    /\ UNCHANGED <<config, now, issued, auth, object, locks, pc, calls, call>>

\* A refresh under way ends, or gives up, within AuthTimeout.
Tick ==
    /\ now < MaxNow
    /\ \A c \in Callers : pc[c] \in Refreshing => now < call[c].sentAt + AuthTimeout
    /\ now' = now + 1
    /\ UNCHANGED <<config, server, auth, object, locks, pc, calls, call>>

Register(c) ==
    \/ TestRegistered(c) \/ PassToken(c) \/ RegisterNew(c)
    \/ RegisterExisting(c) \/ RegisterZero(c) \/ MarkRegistered(c)

Refresh(c) ==
    \/ SkipRefresh(c) \/ StartRefresh(c) \/ Answer(c) \/ WriteToken(c)
    \/ StampToken(c) \/ RefreshInVain(c) \/ Forget(c)

Request(c) ==
    \/ GetToken(c) \/ Accepted(c) \/ Refused(c) \/ HandleRefused(c)
    \/ RaiseRefused(c) \/ Retry(c) \/ GiveUp(c)

Step(c) == Register(c) \/ Refresh(c) \/ Request(c)

Next ==
    \/ \E c \in Callers : Begin(c) \/ Step(c)
    \/ \E t \in DOMAIN issued : Expire(t)
    \/ Tick

Spec == Init /\ [][Next]_vars

\* Threads and coroutines run when they can, and the server answers or the
\* request for a token times out.
Fairness == \A c \in Callers : WF_vars(Step(c))

FairSpec == Spec /\ Fairness

-----------------------------------------------------------------------------
(* Properties.                                                              *)

CallType(n, t) ==
    [attempt : 1 .. Attempts, goal : {"send", "refresh"},
     registering : BOOLEAN, refreshed : BOOLEAN, faulted : BOOLEAN,
     arg : 0 .. n, held : 0 .. n, refused : 0 .. n, fresh : 0 .. n, sentAt : 0 .. t]

Holds(c) ==
    /\ IF Threaded(c) THEN lock = c ELSE alock = c
    /\ now <= call[c].sentAt + AuthTimeout

\* Every variable has its type, a refresh holds the lock of its kind, and no
\* refresh takes longer than AuthTimeout.
TypeOK ==
    /\ kind \in [Callers -> Kinds] /\ given \in BOOLEAN
    /\ now \in Nat /\ issued \in Seq(Nat) /\ dead \subseteq DOMAIN issued
    /\ accessToken \in 0 .. Len(issued)
    /\ registered \in BOOLEAN /\ known \in BOOLEAN
    /\ token \in 0 .. Len(issued) /\ refreshAt \in 0 .. now
    /\ lock \in Callers \cup {Nobody} /\ alock \in Callers \cup {Nobody}
    /\ pc \in [Callers -> States]
    /\ calls \in [Callers -> Nat]
    /\ call \in [Callers -> CallType(Len(issued), now)]
    /\ \A c \in Callers : pc[c] \in Refreshing => Holds(c)

\* Callers that guard the token by one kind of lock ask for a new one no sooner
\* than the interval allows, however many find it expired at once: "the token
\* should not be refreshed multiple times" (oauth.py:278).
OneLock ==
    \/ \A c \in Callers : kind[c] = "thread"
    \/ \A c \in Callers : kind[c] = "stream"

RefreshedOnce ==
    OneLock /\ ~ given =>
        \A i \in 1 .. Len(issued) - 1 :
            issued[i] + MinInterval <= issued[i + 1] + Early

\* A request that is sent again after its token was refused, and no refresh
\* failed, carries another token: a refresh skipped as too recent, or written in
\* between by a caller of the other kind, never leads back to the refused one.
Resent(c) == pc[c] = "send" /\ call[c].refreshed /\ ~ call[c].faulted

RetryUsesNewToken ==
    ~ given => \A c \in Callers : Resent(c) => call[c].held # call[c].refused

\* Every call ends, with an answer or an exception: no lock is kept, by none of
\* the ways out of a refresh, and the two retries do not feed each other.
EveryCallEnds == \A c \in Callers : pc[c] = "enter" ~> pc[c] = "idle"

=============================================================================
