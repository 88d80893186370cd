---------------------------- MODULE LimiterWrapper ----------------------------
(***************************************************************************)
(* VersatileRateLimiter and _LimiterWrapper of python/qianfan/resources/   *)
(* rate_limiter/rate_limiter.py: which limiter a request is held to, and   *)
(* how the rate the server reports replaces the one it was built with.     *)
(*                                                                         *)
(* A request acquires a limiter under a key, which builds a wrapper or     *)
(* finds the one registered for the key, enters the wrapper's buckets, and *)
(* when the answer names a rate limit calls reset_once, once per wrapper.  *)
(* Threads and the coroutines of one event loop do so on the same objects, *)
(* with a lock each.  A thread may be interrupted anywhere; a coroutine    *)
(* gives way to another one only where it awaits.                          *)
(*                                                                         *)
(* A wrapper is named by the VersatileRateLimiter that built it.  Rates    *)
(* are requests per minute before the common factor 1 - buffer_ratio.  The *)
(* wait inside a bucket is module SyncLimiter's; here it only ends.        *)
(***************************************************************************)
EXTENDS Integers, Sequences

CONSTANTS
    Threads,    \* callers that use reset_once and with
    Coroutines, \* callers that use async_reset_once and async with
    Limiters,   \* the VersatileRateLimiter objects
    Keys,       \* the keys requests are made under
    Setups,     \* the arguments the limiters may be built with
    Uses,       \* which limiter requests are made on, and under which key
    Reported,   \* the rates the server may report
    None,       \* no key, no object, no owner of a lock
    MaxCalls    \* bound: how many requests each caller makes

Actors == Threads \cup Coroutines
Buckets == {"minute", "ten", "second"}
Kinds == {"rpm", "qps"}

\* kind and rate: which of request_per_minute and query_per_second is positive;
\* "both" makes the constructor raise.  full: buffer_ratio = 1.
ConfigType == [kind : Kinds \cup {"none", "both"}, rate : Nat,
               off : BOOLEAN, full : BOOLEAN]

ASSUME WrapperAssumption ==
    /\ Threads \cap Coroutines = {}
    /\ None \notin Actors \cup Limiters \cup Keys
    /\ Setups \subseteq [Limiters -> ConfigType]
    /\ \A s \in Setups, v \in Limiters : s[v].kind \in Kinds <=> s[v].rate > 0
    /\ Uses \subseteq Limiters \X (Keys \cup {None})
    /\ Reported \subseteq Int
    /\ MaxCalls \in Nat

VARIABLES
    args,       \* the arguments of each VersatileRateLimiter
    impl,       \* _impl of each VersatileRateLimiter
    registry,   \* _RATE_LIMITER_MAP
    initLock,   \* the owner of each _init_lock
    mapLock,    \* the owner of _MAP_LOCK
    closed,     \* is_closed of each wrapper
    kind,       \* _is_rpm of each wrapper, or "unset"
    hasReset,   \* _has_been_reset
    lock,       \* the owners of _reset_once_lock and _async_reset_once_lock
    bucket,     \* the rate of each bucket, for threads and for coroutines
    pc,         \* where each caller is
    at,         \* the VersatileRateLimiter of its request
    key,        \* the key it looks a wrapper up under
    rpm,        \* its rpm, in reset_once
    og,         \* its og_rpm
    calls,      \* how many requests it has made
    linkedBy,   \* history: the key under which each limiter found its wrapper
    resetters,  \* history: the sides that asked a wrapper for a reset
    claimed,    \* history: the resets that were made, with the rates reported
    settled     \* history: the wrappers some reset of which is finished

wrapper == <<closed, kind, hasReset, lock, bucket>>
maps == <<args, impl, registry, initLock, mapLock, linkedBy>>
local == <<key, rpm, og, calls>>
ghosts == <<resetters, claimed, settled>>
vars == <<args, impl, registry, initLock, mapLock, closed, kind, hasReset, lock,
          bucket, pc, at, key, rpm, og, calls, linkedBy, resetters, claimed,
          settled>>

Lesser(a, b) == IF a <= b THEN a ELSE b

Side(a) == IF a \in Threads THEN "sync" ELSE "async"
Sides == {"sync", "async"}

\* The wrapper a caller works on.
W(a) == impl[at[a]]

Missing == [s \in Sides |-> -1]
Rate(r) == [s \in Sides |-> r]

\* The buckets of a wrapper that counts by the minute or by the second.
BucketsOf(k) == IF k = "rpm" THEN {"minute", "ten"} ELSE {"second"}

AwaitStates == {"idle", "minute", "ten", "second", "request", "lock"}
CallerStates == AwaitStates \cup
    {"init", "map", "make", "link", "enter", "kind", "claim", "decide",
     "setKind", "makeTen", "makeMinute", "lowerTen", "lowerMinute",
     "lowerSecond", "open", "raised"}

\* A coroutine runs until it awaits; threads run at any time.
Runs(a) == a \in Coroutines =>
             \A b \in Coroutines \ {a} : pc[b] \in AwaitStates

\* Caller a is at s and goes on to t.
Step(a, s, t) ==
    /\ Runs(a)
    /\ pc[a] = s
    /\ pc' = [pc EXCEPT ![a] = t]
    /\ at' = [at EXCEPT ![a] = IF t = "idle" THEN None ELSE @]

-----------------------------------------------------------------------------

Init ==
    /\ args \in Setups
    /\ impl = [v \in Limiters |-> None]
    /\ registry = [k \in Keys |-> None]
    /\ initLock = [v \in Limiters |-> None]
    /\ mapLock = None
    /\ closed = [w \in Limiters |-> TRUE]
    /\ kind = [w \in Limiters |-> "unset"]
    /\ hasReset = [w \in Limiters |-> FALSE]
    /\ lock = [w \in Limiters |-> [s \in Sides |-> None]]
    /\ bucket = [w \in Limiters |-> [b \in Buckets |-> Missing]]
    /\ pc = [a \in Actors |-> "idle"]
    /\ at = [a \in Actors |-> None]
    /\ key = [a \in Actors |-> None]
    /\ rpm = [a \in Actors |-> 0]
    /\ og = [a \in Actors |-> 0]
    /\ calls = [a \in Actors |-> 0]
    /\ linkedBy = [v \in Limiters |-> None]
    /\ resetters = [w \in Limiters |-> {}]
    /\ claimed = [w \in Limiters |-> <<>>]
    /\ settled = {}

-----------------------------------------------------------------------------
(* VersatileRateLimiter.acquire.                                            *)

\* A request on limiter v under key k: a limiter that has its wrapper is used at
\* once, whatever the key.
Acquire(a, v, k) ==
    /\ calls[a] < MaxCalls
    /\ Runs(a)
    /\ pc[a] = "idle"
    /\ pc' = [pc EXCEPT ![a] = IF impl[v] # None THEN "enter" ELSE "init"]
    /\ at' = [at EXCEPT ![a] = v]
    /\ key' = [key EXCEPT ![a] = IF impl[v] # None THEN None ELSE k]
    /\ calls' = [calls EXCEPT ![a] = @ + 1]
    /\ UNCHANGED <<maps, wrapper, rpm, og, ghosts>>

Found(a) == W(a) # None

\* with self._init_lock, and the second look at _impl.
TakeInitLock(a) ==
    /\ Step(a, "init", IF Found(a) THEN "enter" ELSE "map")
    /\ initLock[at[a]] = None
    /\ initLock' = [initLock EXCEPT ![at[a]] = IF Found(a) THEN None ELSE a]
    /\ UNCHANGED <<args, impl, registry, mapLock, linkedBy, wrapper, local, ghosts>>

\* The mutant of MapIsFree: nobody asks for _MAP_LOCK.
MapAlwaysFree(a) == TRUE

\* No key needs no map.
MapIsFree(a) == key[a] # None => mapLock = None

\* with _MAP_LOCK: if key not in _RATE_LIMITER_MAP.
TakeMapLock(a) ==
    /\ Step(a, "map", IF key[a] = None THEN "make"
                      ELSE IF registry[key[a]] = None THEN "make" ELSE "link")
    /\ MapIsFree(a)
    /\ mapLock' = IF pc'[a] = "make" /\ key[a] # None THEN a ELSE mapLock
    /\ UNCHANGED <<args, impl, registry, initLock, linkedBy, wrapper, local, ghosts>>

\* What _LimiterWrapper.__init__ builds for limiter v.  With a buffer_ratio of 1
\* both rates become 0, so neither _is_rpm nor a bucket is set.
Build(v) ==
    LET c == args[v]
        shut == c.off \/ c.kind = "none"
        made == IF shut \/ c.full THEN {} ELSE BucketsOf(c.kind)
    IN
    /\ closed' = [closed EXCEPT ![v] = shut]
    /\ kind' = [kind EXCEPT ![v] = IF made = {} THEN "unset" ELSE c.kind]
    /\ hasReset' = [hasReset EXCEPT ![v] = c.off]
    /\ lock' = [lock EXCEPT ![v] = [s \in Sides |-> None]]
    /\ bucket' = [bucket EXCEPT ![v] =
           [b \in Buckets |-> IF b \in made THEN Rate(c.rate) ELSE Missing]]

\* _LimiterWrapper(**self._arguments), stored in the map or in _impl.
MakeWrapper(a) ==
    LET v == at[a] IN
    /\ pc[a] = "make"
    /\ args[v].kind # "both"
    /\ Build(v)
    /\ IF key[a] = None
       THEN /\ Step(a, "make", "enter")
            /\ impl' = [impl EXCEPT ![v] = v]
            /\ initLock' = [initLock EXCEPT ![v] = None]
            /\ UNCHANGED <<registry, mapLock>>
       ELSE /\ Step(a, "make", "link")
            /\ registry' = [registry EXCEPT ![key[a]] = v]
            /\ mapLock' = None
            /\ UNCHANGED <<impl, initLock>>
    /\ UNCHANGED <<args, linkedBy, local, ghosts>>

\* Both rates given: ValueError, which leaves both with statements.
RefuseArguments(a) ==
    /\ Step(a, "make", "raised")
    /\ args[at[a]].kind = "both"
    /\ initLock' = [initLock EXCEPT ![at[a]] = None]
    /\ mapLock' = IF key[a] = None THEN mapLock ELSE None
    /\ UNCHANGED <<args, impl, registry, linkedBy, wrapper, local, ghosts>>

\* self._impl = _RATE_LIMITER_MAP[key], after _MAP_LOCK was given back.
Link(a) ==
    /\ Step(a, "link", "enter")
    /\ impl' = [impl EXCEPT ![at[a]] = registry[key[a]]]
    /\ initLock' = [initLock EXCEPT ![at[a]] = None]
    /\ linkedBy' = [linkedBy EXCEPT ![at[a]] = key[a]]
    /\ key' = [key EXCEPT ![a] = None]
    /\ UNCHANGED <<args, registry, mapLock, wrapper, rpm, og, calls, ghosts>>

-----------------------------------------------------------------------------
(* _LimiterWrapper.__enter__ and __aenter__.                                *)

Unchanged == UNCHANGED <<maps, wrapper, local, ghosts>>

ReadClosed(a) ==
    /\ Step(a, "enter", IF closed[W(a)] THEN "request" ELSE "kind")
    /\ Unchanged

\* Reading an _is_rpm that was never set raises AttributeError.
ReadKind(a) ==
    /\ Step(a, "kind", CASE kind[W(a)] = "unset" -> "raised"
                         [] kind[W(a)] = "rpm" -> "minute"
                         [] kind[W(a)] = "qps" -> "second")
    /\ Unchanged

\* The bucket of the minute is entered before that of ten seconds; a bucket that
\* does not exist raises AttributeError.
EnterBucket(a, b) ==
    /\ Step(a, b, IF bucket[W(a)][b] = Missing THEN "raised"
                  ELSE IF b = "minute" THEN "ten" ELSE "request")
    /\ Unchanged

\* The request ends, its answer naming no limit; an exception ends it as well.
Leave(a) ==
    /\ Step(a, "request", "idle") \/ Step(a, "raised", "idle")
    /\ Unchanged

-----------------------------------------------------------------------------
(* reset_once and async_reset_once.                                         *)

\* The mutant of LetGo: a return without release().
KeepLock(a) == UNCHANGED lock

LetGo(a) == lock' = [lock EXCEPT ![W(a)][Side(a)] = None]
Settle(a) == settled' = settled \cup {W(a)}

\* The answer of a request names the rate r.
BeginReset(a, r) ==
    /\ Step(a, "request", IF hasReset[W(a)] THEN "idle" ELSE "lock")
    /\ rpm' = [rpm EXCEPT ![a] = IF hasReset[W(a)] THEN @ ELSE r]
    /\ resetters' = IF hasReset[W(a)] THEN resetters
                    ELSE [resetters EXCEPT ![W(a)] = @ \cup {Side(a)}]
    /\ UNCHANGED <<maps, wrapper, key, og, calls, claimed, settled>>

\* The mutant of Late: _has_been_reset is not looked at again under the lock.
NeverLate(a) == FALSE

Late(a) == hasReset[W(a)]

\* The lock of the caller's side, and the second look at _has_been_reset.
TakeLock(a) ==
    /\ Step(a, "lock", IF Late(a) THEN "idle" ELSE "claim")
    /\ lock[W(a)][Side(a)] = None
    /\ lock' = [lock EXCEPT ![W(a)][Side(a)] = IF Late(a) THEN None ELSE a]
    /\ UNCHANGED <<maps, closed, kind, hasReset, bucket, local, ghosts>>

\* The rate a reset starts from (_get_og_rpm): the constructor's argument of the
\* kind in use, if it was given.
Og(w) == IF closed[w] \/ kind[w] # args[w].kind THEN 0 ELSE args[w].rate

\* The reset is this caller's.  The rate the wrapper was built with is kept if it
\* is the stricter one.  An _is_rpm that was never set is not read here: no caller
\* has got past __enter__ then.
Claim(a) ==
    LET keep == Og(W(a)) # 0 /\ Og(W(a)) <= rpm[a] IN
    /\ Step(a, "claim", IF keep THEN "idle" ELSE "decide")
    /\ hasReset' = [hasReset EXCEPT ![W(a)] = TRUE]
    /\ claimed' = [claimed EXCEPT
           ![W(a)] = Append(@, [side |-> Side(a), rate |-> rpm[a]])]
    /\ og' = [og EXCEPT ![a] = IF keep THEN 0 ELSE Og(W(a))]
    /\ IF keep THEN LetGo(a) /\ Settle(a) ELSE UNCHANGED <<lock, settled>>
    /\ UNCHANGED <<maps, closed, kind, bucket, key, rpm, calls, resetters>>

\* The mutant of Usable: a report below 0 is taken as it is.
AsReported(r) == r

Usable(r) == IF r < 0 THEN 0 ELSE r

\* A limiter that was closed takes the reported rate, any other the smaller one;
\* nothing left to use closes it.
Decide(a) ==
    LET w == W(a)
        new == Usable(IF closed[w] THEN rpm[a] ELSE Lesser(rpm[a], og[a]))
    IN
    /\ Step(a, "decide", IF new = 0 THEN "idle" ELSE "setKind")
    /\ rpm' = [rpm EXCEPT ![a] = new]
    /\ og' = [og EXCEPT ![a] = 0]
    /\ IF new = 0
       THEN closed' = [closed EXCEPT ![w] = TRUE] /\ LetGo(a) /\ Settle(a)
       ELSE UNCHANGED <<closed, lock, settled>>
    /\ UNCHANGED <<maps, kind, hasReset, bucket, key, calls, resetters, claimed>>

\* The mutant of SetKind: is_closed is cleared before the buckets are there.
SetKindAndOpen(a) ==
    LET new == IF closed[W(a)] \/ kind[W(a)] = "rpm" THEN "rpm" ELSE "qps" IN
    /\ Step(a, "setKind",
            IF new = "qps" THEN "lowerSecond"
            ELSE IF bucket[W(a)]["ten"] = Missing THEN "makeTen" ELSE "lowerTen")
    /\ kind' = [kind EXCEPT ![W(a)] = new]
    /\ closed' = [closed EXCEPT ![W(a)] = FALSE]
    /\ UNCHANGED <<maps, hasReset, lock, bucket, local, ghosts>>

\* _reset_internal_rate_limiter: what was closed counts by the minute now.  One
\* hasattr then decides for both buckets.
SetKind(a) ==
    LET new == IF closed[W(a)] \/ kind[W(a)] = "rpm" THEN "rpm" ELSE "qps" IN
    /\ Step(a, "setKind",
            IF new = "qps" THEN "lowerSecond"
            ELSE IF bucket[W(a)]["ten"] = Missing THEN "makeTen" ELSE "lowerTen")
    /\ kind' = [kind EXCEPT ![W(a)] = new]
    /\ UNCHANGED <<maps, closed, hasReset, lock, bucket, local, ghosts>>

\* A new bucket holds the rate for both sides; 1 - buffer_ratio may make it 0,
\* which limits nothing.
MakeBucket(a, b, s, t) ==
    /\ Step(a, s, t)
    /\ bucket' = [bucket EXCEPT ![W(a)][b] =
                     Rate(IF args[W(a)].full THEN 0 ELSE rpm[a])]
    /\ UNCHANGED <<maps, closed, kind, hasReset, lock, local, ghosts>>

\* reset reaches the bucket of the caller's side only.  It raises if there is no
\* bucket, and divides by the rate it is given.
LowerBucket(a, b, s, t) ==
    LET fails == bucket[W(a)][b] = Missing \/ args[W(a)].full IN
    /\ Step(a, s, IF fails THEN "raised" ELSE t)
    /\ bucket' = IF fails THEN bucket
                 ELSE [bucket EXCEPT ![W(a)][b][Side(a)] = rpm[a]]
    /\ UNCHANGED <<maps, closed, kind, hasReset, lock, local, ghosts>>

\* is_closed = False comes last; then the lock is given back.
Open(a) ==
    /\ Step(a, "open", "idle")
    /\ closed' = [closed EXCEPT ![W(a)] = FALSE]
    /\ LetGo(a)
    /\ Settle(a)
    /\ rpm' = [rpm EXCEPT ![a] = 0]
    /\ UNCHANGED <<maps, kind, hasReset, bucket, key, og, calls, resetters,
                   claimed>>

-----------------------------------------------------------------------------

AcquireStep(a) ==
    \/ TakeInitLock(a)
    \/ TakeMapLock(a)
    \/ MakeWrapper(a)
    \/ RefuseArguments(a)
    \/ Link(a)

EnterStep(a) ==
    \/ ReadClosed(a)
    \/ ReadKind(a)
    \/ \E b \in Buckets : EnterBucket(a, b)
    \/ Leave(a)

ResetStep(a) ==
    \/ TakeLock(a)
    \/ Claim(a)
    \/ Decide(a)
    \/ SetKind(a)
    \/ MakeBucket(a, "ten", "makeTen", "makeMinute")
    \/ MakeBucket(a, "minute", "makeMinute", "open")
    \/ LowerBucket(a, "ten", "lowerTen", "lowerMinute")
    \/ LowerBucket(a, "minute", "lowerMinute", "open")
    \/ LowerBucket(a, "second", "lowerSecond", "open")
    \/ Open(a)

GoOn(a) == AcquireStep(a) \/ EnterStep(a) \/ ResetStep(a)

Next ==
    \E a \in Actors :
        \/ \E u \in Uses : Acquire(a, u[1], u[2])
        \/ GoOn(a)
        \/ \E r \in Reported : BeginReset(a, r)

Spec == Init /\ [][Next]_vars

\* The processor does not rest while some caller can go on with what it has
\* begun; a bucket lets its caller in at last (SyncLimiter), and the server
\* answers.  Calls are bounded, so no more is needed.
FairSpec == Spec /\ WF_vars(\E a \in Actors : GoOn(a))

-----------------------------------------------------------------------------
(* Properties.                                                              *)

TypeOK ==
    /\ args \in Setups
    /\ impl \in [Limiters -> Limiters \cup {None}]
    /\ registry \in [Keys -> Limiters \cup {None}]
    /\ initLock \in [Limiters -> Actors \cup {None}]
    /\ mapLock \in Actors \cup {None}
    /\ closed \in [Limiters -> BOOLEAN]
    /\ kind \in [Limiters -> Kinds \cup {"unset"}]
    /\ hasReset \in [Limiters -> BOOLEAN]
    /\ lock \in [Limiters -> [Sides -> Actors \cup {None}]]
    /\ bucket \in [Limiters -> [Buckets -> [Sides -> Nat \cup {-1}]]]
    /\ pc \in [Actors -> CallerStates]
    /\ at \in [Actors -> Limiters \cup {None}]
    /\ key \in [Actors -> Keys \cup {None}]
    /\ rpm \in [Actors -> Int]
    /\ og \in [Actors -> Nat]
    /\ calls \in [Actors -> 0 .. MaxCalls]
    /\ linkedBy \in [Limiters -> Keys \cup {None}]
    /\ resetters \in [Limiters -> SUBSET Sides]
    /\ claimed \in [Limiters -> Seq([side : Sides, rate : Int])]
    /\ settled \subseteq Limiters

\* Two VersatileRateLimiter objects that were first used under one key share one
\* wrapper, the one the map holds for the key: a model's requests are counted
\* together however its clients race (_MAP_LOCK, rate_limiter.py:134).
OneWrapperPerKey ==
    \A v \in Limiters : linkedBy[v] # None => impl[v] = registry[linkedBy[v]]

\* The class comment recommends to use one of the two methods only.
OneSide(w) == resetters[w] # Sides

Proper(w) == OneSide(w) /\ ~ args[w].full

\* As long as the resets of a wrapper come from one side, and buffer_ratio is
\* below 1, no caller ever meets a wrapper without the bucket it is about to
\* enter or lower, though __enter__ takes no lock and a reset creates the buckets
\* one after the other: is_closed is cleared last.
NoMissingLimiter ==
    \A a \in Actors :
        pc[a] = "raised" /\ args[at[a]].kind # "both" => ~ Proper(W(a))

\* The rate to hold a wrapper to once the server has reported r.
Target(w, r) ==
    LET least == IF args[w].kind = "none" THEN r ELSE Lesser(args[w].rate, r)
    IN IF least < 0 THEN 0 ELSE least

\* A finished reset leaves the wrapper at the stricter of the two rates, in each
\* of the buckets __enter__ will use and for the side that reset it; the other
\* side keeps the rate of the constructor, or gets the same if the buckets are
\* new.  Only a report of nothing left closes the limiter, and of the callers that
\* saw it had not been reset one alone makes the reset.
InForce(w) ==
    LET c == Head(claimed[w])
        t == Target(w, c.rate)
        fresh == args[w].kind = "none"
    IN
    /\ closed[w] <=> t = 0
    /\ t > 0 =>
        /\ kind[w] = IF fresh THEN "rpm" ELSE args[w].kind
        /\ \A b \in BucketsOf(kind[w]), s \in Sides :
              bucket[w][b][s] = IF s = c.side \/ fresh THEN t ELSE args[w].rate

LimitInForce ==
    \A w \in Limiters : Proper(w) =>
        /\ Len(claimed[w]) <= 1
        /\ w \in settled => InForce(w)

\* Every request on a proper wrapper comes back, whatever locks it met: none is
\* kept and no two are waited for in a circle.
EveryCallReturns ==
    <>[](\A a \in Actors :
            pc[a] # "idle" => W(a) # None /\ ~ Proper(W(a)))

=============================================================================
