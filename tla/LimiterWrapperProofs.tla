------------------------- MODULE LimiterWrapperProofs -------------------------
(***************************************************************************)
(* Theorems about LimiterWrapper, for any threads and coroutines, any      *)
(* limiters, keys and arguments, and whatever the server reports.          *)
(***************************************************************************)
EXTENDS LimiterWrapper, SequenceTheorems, TLAPS

-----------------------------------------------------------------------------
(* The invariants.                                                          *)

\* Where a caller has a wrapper, where it holds _init_lock, where it has a positive
\* rate to set, and where it holds a reset lock.
Entered == CallerStates \ {"idle", "init", "map", "make", "link", "raised"}
Acquiring == {"map", "make", "link"}
Lowering == {"setKind", "makeTen", "makeMinute", "lowerTen", "lowerMinute",
             "lowerSecond", "open"}
Critical == {"claim", "decide"} \cup Lowering

\* A wrapper that a limiter uses or will use.
Built(w) == (\E v \in Limiters : impl[v] = w) \/ (\E k \in Keys : registry[k] = w)

\* The callers of acquire: who builds a wrapper or takes one from the map holds the
\* lock of its limiter, which has none; who builds one for a key holds the map as well.
AcquireInv ==
    /\ \A a \in Actors : pc[a] # "idle" => at[a] # None
    /\ \A a \in Actors : pc[a] \in Entered => W(a) # None
    /\ \A a \in Actors : pc[a] \in Acquiring =>
          initLock[at[a]] = a /\ impl[at[a]] = None
    /\ \A a \in Actors : pc[a] = "make" /\ key[a] # None =>
          mapLock = a /\ registry[key[a]] = None
    /\ \A a \in Actors : pc[a] = "link" => key[a] # None /\ registry[key[a]] # None
    /\ \A a \in Actors : pc[a] \in Lowering => rpm[a] > 0
    /\ \A v \in Limiters : linkedBy[v] # None =>
          registry[linkedBy[v]] # None /\ impl[v] = registry[linkedBy[v]]
    /\ \A w \in Limiters : Built(w) =>
          impl[w] # None \/ \E a \in Actors : pc[a] = "link" /\ at[a] = w

InvA == TypeOK /\ AcquireInv

\* A caller whose request goes through wrapper w.
On(a, w) == pc[a] \in Entered /\ W(a) = w

\* A wrapper no limiter has been given is as it was.
Untouched ==
    \A w \in Limiters : ~ Built(w) =>
        claimed[w] = <<>> /\ w \notin settled /\ resetters[w] = {}

\* A reset is known for its side and holds the lock of that side.
Locked(a, w) ==
    /\ pc[a] \in Critical => lock[w][Side(a)] = a
    /\ pc[a] \in Critical \cup {"lock"} => Side(a) \in resetters[w]

Fresh(w) == args[w].kind = "none"

\* What the constructor made of a wrapper.
AsBuilt(w) ==
    LET shut == args[w].off \/ Fresh(w) IN
    /\ closed[w] <=> shut
    /\ kind[w] = IF shut THEN "unset" ELSE args[w].kind
    /\ \A b \in Buckets :
          bucket[w][b] = IF ~ shut /\ b \in BucketsOf(args[w].kind)
                         THEN Rate(args[w].rate) ELSE Missing

\* The rate to come, and a bucket that has it.
Goal(w) == Target(w, Head(claimed[w]).rate)

BucketSet(w, b) ==
    \A s \in Sides : bucket[w][b][s] =
        IF s = Head(claimed[w]).side \/ Fresh(w) THEN Goal(w) ELSE args[w].rate

\* While a fresh wrapper gets its buckets, and while the buckets of another one
\* are lowered.
Making(w) == Fresh(w) /\ closed[w] /\ kind[w] = "rpm"
Tightening(w, k) == ~ Fresh(w) /\ ~ closed[w] /\ kind[w] = k /\ args[w].kind = k

\* How far the reset of w by caller a has come.
Progress(a, w) ==
    /\ pc[a] = "claim" => ~ hasReset[w]
    /\ pc[a] \in Critical \ {"claim"} =>
          /\ Len(claimed[w]) = 1 /\ Head(claimed[w]).side = Side(a)
          /\ w \notin settled /\ ~ args[w].off
    /\ pc[a] = "decide" =>
          /\ AsBuilt(w) /\ rpm[a] = Head(claimed[w]).rate
          /\ og[a] = IF Fresh(w) THEN 0 ELSE args[w].rate
    /\ pc[a] \in Lowering => rpm[a] = Goal(w)
    /\ pc[a] = "setKind" => AsBuilt(w)
    /\ pc[a] = "makeTen" => Making(w)
    /\ pc[a] = "makeMinute" => Making(w) /\ BucketSet(w, "ten")
    /\ pc[a] = "lowerTen" =>
          /\ Tightening(w, "rpm") /\ bucket[w]["ten"] = Rate(args[w].rate)
          /\ bucket[w]["minute"] = Rate(args[w].rate)
    /\ pc[a] = "lowerMinute" =>
          /\ Tightening(w, "rpm") /\ BucketSet(w, "ten")
          /\ bucket[w]["minute"] = Rate(args[w].rate)
    /\ pc[a] = "lowerSecond" =>
          Tightening(w, "qps") /\ bucket[w]["second"] = Rate(args[w].rate)
    /\ pc[a] = "open" =>
          /\ Making(w) \/ \E k \in Kinds : Tightening(w, k)
          /\ \A b \in BucketsOf(kind[w]) : BucketSet(w, b)

\* A wrapper whose buckets are those its kind asks for.
Enterable(w) ==
    kind[w] \in Kinds /\ \A b \in BucketsOf(kind[w]) : bucket[w][b] # Missing

\* A proper wrapper: it is as built until its one reset is claimed, as reported when
\* that is finished, and can be entered whenever it is open.
WrapperInv(w) ==
    /\ args[w].kind # "both"
    /\ Len(claimed[w]) <= 1
    /\ hasReset[w] <=> args[w].off \/ claimed[w] # <<>>
    /\ claimed[w] = <<>> => AsBuilt(w) /\ w \notin settled
    /\ w \in settled => InForce(w)
    /\ ~ closed[w] => Enterable(w)

\* A caller between the test of is_closed and its request.
Entering(a, w) ==
    /\ pc[a] \in {"kind", "minute", "ten", "second"} => Enterable(w)
    /\ pc[a] \in {"minute", "ten"} => kind[w] = "rpm"
    /\ pc[a] = "second" => kind[w] = "qps"

ResetInv ==
    /\ Untouched
    /\ \A w \in Limiters : Built(w) /\ Proper(w) => WrapperInv(w)
    /\ \A a \in Actors, w \in Limiters : On(a, w) =>
          Locked(a, w) /\ (Proper(w) => Progress(a, w) /\ Entering(a, w))
    /\ \A a \in Actors : pc[a] = "raised" /\ args[at[a]].kind # "both" =>
          W(a) \in Limiters /\ ~ Proper(W(a))

InvB == InvA /\ ResetInv

-----------------------------------------------------------------------------
(* Types and the locks of acquire.                                          *)

\* What a step of a caller does to where the callers are.
LEMMA Goes ==
    ASSUME TypeOK, NEW a \in Actors, NEW s, NEW t \in CallerStates, Step(a, s, t)
    PROVE  /\ pc[a] = s /\ pc'[a] = t
           /\ pc' \in [Actors -> CallerStates]
           /\ at' \in [Actors -> Limiters \cup {None}]
           /\ at'[a] = IF t = "idle" THEN None ELSE at[a]
           /\ \A b \in Actors \ {a} : pc'[b] = pc[b] /\ at'[b] = at[b]
BY DEF TypeOK, Step

LEMMA LimitersAreSome == \A v \in Limiters : v # None
BY WrapperAssumption

LEMMA InitInvA == Init => InvA
<1> SUFFICES ASSUME Init PROVE InvA
    OBVIOUS
<1>1. /\ MaxCalls \in Nat /\ -1 \in Nat \cup {-1} /\ <<>> \in Seq([side : Sides, rate : Int])
      /\ {} \in SUBSET Sides
    BY WrapperAssumption
<1>2. Missing \in [Sides -> Nat \cup {-1}]
    BY DEF Missing
<1>3. bucket \in [Limiters -> [Buckets -> [Sides -> Nat \cup {-1}]]]
    BY <1>2 DEF Init
<1>4. TypeOK
    BY <1>1, <1>3 DEF Init, TypeOK, CallerStates, AwaitStates
<1>5. \A w \in Limiters : ~ Built(w)
    BY LimitersAreSome DEF Init, Built
<1>6. AcquireInv
    BY <1>5 DEF Init, AcquireInv, Entered, Acquiring, Lowering
<1>. QED BY <1>4, <1>6 DEF InvA

\* A caller that has got past acquire leaves the limiters and the map as they are.
LEMMA PastAcquire ==
    ASSUME InvA, UNCHANGED <<maps, key>>,
           NEW a \in Actors, NEW s, NEW t \in CallerStates, Step(a, s, t),
           s # "idle", s # "init", s \notin Acquiring,
           t # "init", t \notin Acquiring,
           t \in Entered => s \in Entered,
           closed' \in [Limiters -> BOOLEAN],
           kind' \in [Limiters -> Kinds \cup {"unset"}],
           hasReset' \in [Limiters -> BOOLEAN],
           lock' \in [Limiters -> [Sides -> Actors \cup {None}]],
           bucket' \in [Limiters -> [Buckets -> [Sides -> Nat \cup {-1}]]],
           rpm' \in [Actors -> Int], og' \in [Actors -> Nat], UNCHANGED calls,
           resetters' \in [Limiters -> SUBSET Sides],
           claimed' \in [Limiters -> Seq([side : Sides, rate : Int])],
           settled' \subseteq Limiters,
           t \in Lowering => rpm'[a] > 0,
           \A b \in Actors \ {a} : rpm'[b] = rpm[b]
    PROVE  InvA'
<1>1. TypeOK /\ AcquireInv
    BY DEF InvA
<1>2. /\ pc[a] = s /\ pc'[a] = t
      /\ pc' \in [Actors -> CallerStates]
      /\ at' \in [Actors -> Limiters \cup {None}]
      /\ t # "idle" => at'[a] = at[a]
      /\ \A b \in Actors \ {a} : pc'[b] = pc[b] /\ at'[b] = at[b]
    BY <1>1, Goes
<1>3. /\ args' = args /\ impl' = impl /\ registry' = registry /\ initLock' = initLock
      /\ mapLock' = mapLock /\ linkedBy' = linkedBy /\ key' = key
    BY DEF maps
<1>4. TypeOK'
    BY <1>1, <1>2, <1>3 DEF TypeOK
<1>5. AcquireInv'
  <2>1. ASSUME NEW b \in Actors, pc'[b] # "idle"
        PROVE  at'[b] # None
    <3>1. pc[b] # "idle" /\ at'[b] = at[b]
      BY <1>2, <2>1
    <3>. QED BY <1>1, <3>1 DEF AcquireInv
  <2>2. ASSUME NEW b \in Actors, pc'[b] \in Entered
        PROVE  W(b)' # None
    <3>1. pc[b] \in Entered
      BY <1>2, <2>2
    <3>2. at'[b] = at[b]
      BY <1>2, <2>2 DEF Entered
    <3>3. W(b) # None
      BY <1>1, <3>1 DEF AcquireInv
    <3>. QED BY <1>3, <3>2, <3>3 DEF W
  <2>3. \A b \in Actors : pc'[b] \in Acquiring => pc[b] = pc'[b] /\ at'[b] = at[b]
    BY <1>2
  <2>4. ASSUME NEW b \in Actors, pc'[b] \in Lowering
        PROVE  rpm'[b] > 0
    <3>1. CASE b = a
      BY <1>2, <2>4, <3>1
    <3>2. CASE b # a
      BY <1>1, <1>2, <2>4, <3>2 DEF AcquireInv
    <3>. QED BY <3>1, <3>2
  <2>5. \A w \in Limiters : Built(w)' => Built(w)
    BY <1>3 DEF Built
  <2>6. \A b \in Actors : pc[b] = "link" => pc'[b] = "link" /\ at'[b] = at[b]
    BY <1>2 DEF Acquiring
  <2>7. ASSUME NEW w \in Limiters, Built(w)'
        PROVE  impl'[w] # None \/ \E b \in Actors : pc'[b] = "link" /\ at'[b] = w
    <3>1. impl[w] # None \/ \E b \in Actors : pc[b] = "link" /\ at[b] = w
      BY <1>1, <2>5, <2>7 DEF AcquireInv
    <3>. QED BY <1>3, <2>6, <3>1
  <2>8. ASSUME NEW b \in Actors, pc'[b] \in Acquiring
        PROVE  initLock'[at'[b]] = b /\ impl'[at'[b]] = None
    <3>1. pc[b] \in Acquiring /\ at'[b] = at[b]
      BY <2>3, <2>8
    <3>2. initLock[at[b]] = b /\ impl[at[b]] = None
      BY <1>1, <3>1 DEF AcquireInv
    <3>. QED BY <1>3, <3>1, <3>2
  <2>9. \A b \in Actors :
           /\ pc'[b] = "make" /\ key'[b] # None =>
                 mapLock' = b /\ registry'[key'[b]] = None
           /\ pc'[b] = "link" => key'[b] # None /\ registry'[key'[b]] # None
    BY <1>1, <1>3, <2>3 DEF AcquireInv, Acquiring
  <2>10. \A v \in Limiters : linkedBy'[v] # None =>
            registry'[linkedBy'[v]] # None /\ impl'[v] = registry'[linkedBy'[v]]
    BY <1>1, <1>3 DEF AcquireInv
  <2>. QED BY <2>1, <2>2, <2>4, <2>7, <2>8, <2>9, <2>10 DEF AcquireInv
<1>. QED BY <1>4, <1>5 DEF InvA

\* A request begins: it has the wrapper of its limiter, or will look for it.
LEMMA AcquireStepA ==
    ASSUME InvA, NEW a \in Actors, NEW v \in Limiters, NEW k \in Keys \cup {None},
           Acquire(a, v, k)
    PROVE  InvA'
<1> DEFINE t == IF impl[v] # None THEN "enter" ELSE "init"
<1>1. TypeOK /\ AcquireInv
    BY DEF InvA
<1>2. /\ pc' = [pc EXCEPT ![a] = t] /\ at' = [at EXCEPT ![a] = v]
      /\ key' = [key EXCEPT ![a] = IF impl[v] # None THEN None ELSE k]
      /\ calls' = [calls EXCEPT ![a] = @ + 1] /\ calls[a] < MaxCalls
    BY DEF Acquire
<1>3. /\ t \in CallerStates /\ t \in {"enter", "init"} /\ (t = "enter" => impl[v] # None)
    BY DEF CallerStates, AwaitStates
<1> HIDE DEF t
<1>4. /\ UNCHANGED <<args, impl, registry, initLock, mapLock, linkedBy>>
      /\ UNCHANGED <<closed, kind, hasReset, lock, bucket>>
      /\ UNCHANGED <<rpm, og, resetters, claimed, settled>>
    BY DEF Acquire, maps, wrapper, ghosts
<1>5. TypeOK'
  <2>1. calls' \in [Actors -> 0 .. MaxCalls]
    BY <1>1, <1>2, WrapperAssumption DEF TypeOK
  <2>2. /\ pc' \in [Actors -> CallerStates] /\ at' \in [Actors -> Limiters \cup {None}]
        /\ key' \in [Actors -> Keys \cup {None}]
    BY <1>1, <1>2, <1>3 DEF TypeOK
  <2>. QED BY <1>1, <1>4, <2>1, <2>2 DEF TypeOK
<1>6. AcquireInv'
  <2>1. /\ pc'[a] = t /\ at'[a] = v
        /\ \A b \in Actors \ {a} : pc'[b] = pc[b] /\ at'[b] = at[b] /\ key'[b] = key[b]
    BY <1>1, <1>2 DEF TypeOK
  <2>2. v # None
    BY LimitersAreSome
  <2>3. \A b \in Actors : pc'[b] # "idle" => at'[b] # None
    BY <1>1, <2>1, <2>2 DEF AcquireInv
  <2>4. ASSUME NEW b \in Actors, pc'[b] \in Entered
        PROVE  W(b)' # None
    <3>1. CASE b = a
      BY <1>3, <1>4, <2>1, <2>4, <3>1 DEF W, Entered
    <3>2. CASE b # a
      BY <1>1, <1>4, <2>1, <2>4, <3>2 DEF W, AcquireInv
    <3>. QED BY <3>1, <3>2
  <2>5. \A b \in Actors : pc'[b] \in Acquiring \cup Lowering => b # a /\ pc'[b] = pc[b]
    BY <1>3, <2>1 DEF Acquiring, Lowering
  <2>6. /\ \A b \in Actors : pc'[b] \in Acquiring =>
              initLock'[at'[b]] = b /\ impl'[at'[b]] = None
        /\ \A b \in Actors : pc'[b] \in Lowering => rpm'[b] > 0
    BY <1>1, <1>4, <2>1, <2>5 DEF AcquireInv
  <2>7. \A b \in Actors :
           /\ pc'[b] = "make" /\ key'[b] # None => mapLock' = b /\ registry'[key'[b]] = None
           /\ pc'[b] = "link" => key'[b] # None /\ registry'[key'[b]] # None
    BY <1>1, <1>4, <2>1, <2>5 DEF AcquireInv, Acquiring
  <2>8. \A w \in Limiters : linkedBy'[w] # None =>
           registry'[linkedBy'[w]] # None /\ impl'[w] = registry'[linkedBy'[w]]
    BY <1>1, <1>4 DEF AcquireInv
  <2>9. ASSUME NEW w \in Limiters, Built(w)'
        PROVE  impl'[w] # None \/ \E b \in Actors : pc'[b] = "link" /\ at'[b] = w
    <3>1. impl[w] # None \/ \E b \in Actors : pc[b] = "link" /\ at[b] = w
      BY <1>1, <1>4, <2>9 DEF AcquireInv, Built
    <3>2. pc[a] = "idle"
      BY DEF Acquire
    <3>. QED BY <1>4, <2>1, <3>1, <3>2
  <2>. QED BY <2>3, <2>4, <2>6, <2>7, <2>8, <2>9 DEF AcquireInv
<1>. QED BY <1>5, <1>6 DEF InvA

\* A caller of acquire goes from one lock to the next, or gives them back: what
\* AcquireInv says of the others is left alone, for they hold locks of their own.
LEMMA InAcquire ==
    ASSUME InvA, NEW a \in Actors, NEW s, NEW t \in CallerStates, Step(a, s, t),
           s \in {"init", "map", "make", "link"}, t \notin Lowering \cup {"idle"},
           TypeOK', UNCHANGED <<args, rpm>>,
           \A b \in Actors \ {a} : key'[b] = key[b],
           \A w \in Limiters : w # at[a] => impl'[w] = impl[w]
                                         /\ initLock'[w] = initLock[w],
           initLock[at[a]] \in {None, a},
           impl[at[a]] # None => impl'[at[a]] # None,
           \A k \in Keys : registry[k] # None => registry'[k] = registry[k],
           mapLock' = mapLock \/ mapLock \in {None, a},
           registry' = registry \/ mapLock = a,
           t \in Entered => impl'[at[a]] # None,
           t \in Acquiring => initLock'[at[a]] = a /\ impl'[at[a]] = None,
           t = "make" /\ key'[a] # None => mapLock' = a /\ registry'[key'[a]] = None,
           t = "link" => key'[a] # None /\ registry'[key'[a]] # None
    PROVE  \A b \in Actors :
              /\ pc'[b] # "idle" => at'[b] # None
              /\ pc'[b] \in Entered => W(b)' # None
              /\ pc'[b] \in Acquiring => initLock'[at'[b]] = b /\ impl'[at'[b]] = None
              /\ pc'[b] = "make" /\ key'[b] # None =>
                    mapLock' = b /\ registry'[key'[b]] = None
              /\ pc'[b] = "link" => key'[b] # None /\ registry'[key'[b]] # None
              /\ pc'[b] \in Lowering => rpm'[b] > 0
<1>1. TypeOK /\ AcquireInv
    BY DEF InvA
<1>2. /\ pc[a] = s /\ pc'[a] = t /\ at'[a] = at[a]
      /\ \A b \in Actors \ {a} : pc'[b] = pc[b] /\ at'[b] = at[b]
    BY <1>1, Goes
<1>3. at[a] # None /\ at[a] \in Limiters
    BY <1>1, <1>2 DEF AcquireInv, TypeOK
<1> TAKE b \in Actors
<1>4. CASE b = a
  <2>1. t \notin Lowering /\ t # "idle"
    OBVIOUS
  <2>. QED BY <1>2, <1>3, <1>4, <2>1 DEF W, Acquiring
<1>5. CASE b # a
  <2>1. pc'[b] = pc[b] /\ at'[b] = at[b] /\ key'[b] = key[b] /\ rpm'[b] = rpm[b]
    BY <1>2, <1>5
  <2>2. b # None
    BY WrapperAssumption
  <2>3. pc[b] # "idle" => at[b] # None /\ at[b] \in Limiters
    BY <1>1 DEF AcquireInv, TypeOK
  <2>4. pc[b] \in Entered => impl[at[b]] # None /\ at[b] \in Limiters
    BY <1>1, <2>3 DEF AcquireInv, W, Entered
  <2>5. pc[b] \in Entered => impl'[at[b]] # None
    BY <2>4
  <2>6. pc[b] \in Acquiring => initLock[at[b]] = b /\ impl[at[b]] = None /\ at[b] \in Limiters
    BY <1>1, <2>3 DEF AcquireInv, Acquiring
  <2>7. pc[b] \in Acquiring => initLock'[at[b]] = b /\ impl'[at[b]] = None
    BY <1>5, <2>2, <2>6
  <2>8. key[b] # None => key[b] \in Keys
    BY <1>1 DEF TypeOK
  <2>9. pc[b] = "make" /\ key[b] # None => mapLock = b /\ registry[key[b]] = None
    BY <1>1 DEF AcquireInv
  <2>10. pc[b] = "make" /\ key[b] # None => mapLock' = b /\ registry'[key[b]] = None
    BY <1>5, <2>2, <2>9
  <2>11. pc[b] = "link" => key[b] # None /\ registry[key[b]] # None
    BY <1>1 DEF AcquireInv
  <2>12. pc[b] = "link" => key[b] # None /\ registry'[key[b]] # None
    BY <2>8, <2>11
  <2>13. pc[b] \in Lowering => rpm[b] > 0
    BY <1>1 DEF AcquireInv
  <2>. QED BY <2>1, <2>3, <2>5, <2>7, <2>10, <2>12, <2>13 DEF W
<1>. QED BY <1>4, <1>5

LEMMA TakeInitLockA ==
    ASSUME InvA, NEW a \in Actors, TakeInitLock(a)
    PROVE  InvA'
<1> DEFINE t == IF Found(a) THEN "enter" ELSE "map"
<1>1. TypeOK /\ AcquireInv
    BY DEF InvA
<1>2. /\ Step(a, "init", t) /\ t \in {"enter", "map"} /\ t \in CallerStates
      /\ initLock[at[a]] = None
      /\ initLock' = [initLock EXCEPT ![at[a]] = IF Found(a) THEN None ELSE a]
      /\ UNCHANGED <<args, impl, registry, mapLock, linkedBy, wrapper, local, ghosts>>
    BY DEF TakeInitLock, CallerStates, AwaitStates
<1>3. UNCHANGED <<closed, kind, hasReset, lock, bucket, key, rpm, og, calls, resetters,
                  claimed, settled>>
    BY <1>2 DEF wrapper, local, ghosts
<1>4. t = "enter" <=> impl[at[a]] # None
    BY DEF Found, W
<1> HIDE DEF t
<1>5. /\ pc[a] = "init" /\ pc'[a] = t /\ at'[a] = at[a]
      /\ pc' \in [Actors -> CallerStates]
      /\ at' \in [Actors -> Limiters \cup {None}]
      /\ \A b \in Actors \ {a} : pc'[b] = pc[b] /\ at'[b] = at[b]
    BY <1>1, <1>2, Goes
<1>6. at[a] \in Limiters
    BY <1>1, <1>5 DEF AcquireInv, TypeOK
<1>7. initLock' \in [Limiters -> Actors \cup {None}]
    BY <1>1, <1>2 DEF TypeOK
<1>8. TypeOK'
    BY <1>1, <1>2, <1>3, <1>5, <1>7 DEF TypeOK
<1>9. t = "map" => initLock'[at[a]] = a
    BY <1>1, <1>2, <1>4, <1>6 DEF TypeOK, Found, W
<1>10. \A w \in Limiters : w # at[a] => initLock'[w] = initLock[w]
    BY <1>1, <1>2 DEF TypeOK
<1>11. AcquireInv'
  <2>1. \A b \in Actors :
           /\ pc'[b] # "idle" => at'[b] # None
           /\ pc'[b] \in Entered => W(b)' # None
           /\ pc'[b] \in Acquiring => initLock'[at'[b]] = b /\ impl'[at'[b]] = None
           /\ pc'[b] = "make" /\ key'[b] # None =>
                 mapLock' = b /\ registry'[key'[b]] = None
           /\ pc'[b] = "link" => key'[b] # None /\ registry'[key'[b]] # None
           /\ pc'[b] \in Lowering => rpm'[b] > 0
    <3>1. t \notin Lowering \cup {"idle", "make", "link"}
      BY <1>2 DEF Lowering
    <3>2. /\ t \in Entered => impl[at[a]] # None
          /\ t \in Acquiring => initLock'[at[a]] = a /\ impl[at[a]] = None
      BY <1>2, <1>4, <1>9 DEF Entered, Acquiring
    <3>. QED BY <1>2, <1>3, <1>8, <1>10, <3>1, <3>2, InAcquire
  <2>2. \A v \in Limiters : linkedBy'[v] # None =>
           registry'[linkedBy'[v]] # None /\ impl'[v] = registry'[linkedBy'[v]]
    BY <1>1, <1>2 DEF AcquireInv
  <2>3. ASSUME NEW w \in Limiters, Built(w)'
        PROVE  impl'[w] # None \/ \E b \in Actors : pc'[b] = "link" /\ at'[b] = w
    <3>1. impl[w] # None \/ \E b \in Actors : pc[b] = "link" /\ at[b] = w
      BY <1>1, <1>2, <2>3 DEF AcquireInv, Built
    <3>. QED BY <1>2, <1>5, <3>1
  <2>. QED BY <2>1, <2>2, <2>3 DEF AcquireInv
<1>. QED BY <1>8, <1>11 DEF InvA

LEMMA TakeMapLockA ==
    ASSUME InvA, NEW a \in Actors, TakeMapLock(a)
    PROVE  InvA'
<1> DEFINE t == IF key[a] = None THEN "make"
                ELSE IF registry[key[a]] = None THEN "make" ELSE "link"
<1>1. TypeOK /\ AcquireInv
    BY DEF InvA
<1>2. /\ Step(a, "map", t) /\ t \in {"make", "link"} /\ t \in CallerStates
      /\ (key[a] # None => mapLock = None)
      /\ mapLock' = IF pc'[a] = "make" /\ key[a] # None THEN a ELSE mapLock
      /\ UNCHANGED <<args, impl, registry, initLock, linkedBy, wrapper, local, ghosts>>
    BY DEF TakeMapLock, CallerStates, AwaitStates, MapIsFree
<1>3. UNCHANGED <<closed, kind, hasReset, lock, bucket, key, rpm, og, calls, resetters,
                  claimed, settled>>
    BY <1>2 DEF wrapper, local, ghosts
<1>4. /\ t = "make" /\ key[a] # None => registry[key[a]] = None
      /\ t = "link" => key[a] # None /\ registry[key[a]] # None
    OBVIOUS
<1> HIDE DEF t
<1>5. /\ pc[a] = "map" /\ pc'[a] = t /\ at'[a] = at[a]
      /\ pc' \in [Actors -> CallerStates]
      /\ at' \in [Actors -> Limiters \cup {None}]
      /\ \A b \in Actors \ {a} : pc'[b] = pc[b] /\ at'[b] = at[b]
    BY <1>1, <1>2, Goes
<1>6. /\ mapLock' = IF t = "make" /\ key[a] # None THEN a ELSE mapLock
      /\ mapLock' \in Actors \cup {None}
    BY <1>1, <1>2, <1>5 DEF TypeOK
<1>7. TypeOK'
    BY <1>1, <1>2, <1>3, <1>5, <1>6 DEF TypeOK
<1>8. initLock[at[a]] = a /\ impl[at[a]] = None
    BY <1>1, <1>5 DEF AcquireInv, Acquiring
<1>9. AcquireInv'
  <2>1. \A b \in Actors :
           /\ pc'[b] # "idle" => at'[b] # None
           /\ pc'[b] \in Entered => W(b)' # None
           /\ pc'[b] \in Acquiring => initLock'[at'[b]] = b /\ impl'[at'[b]] = None
           /\ pc'[b] = "make" /\ key'[b] # None =>
                 mapLock' = b /\ registry'[key'[b]] = None
           /\ pc'[b] = "link" => key'[b] # None /\ registry'[key'[b]] # None
           /\ pc'[b] \in Lowering => rpm'[b] > 0
    <3>1. t \notin Lowering \cup {"idle"} /\ t \notin Entered
      BY <1>2 DEF Lowering, Entered
    <3>2. /\ t = "make" /\ key'[a] # None => mapLock' = a /\ registry'[key'[a]] = None
          /\ t = "link" => key'[a] # None /\ registry'[key'[a]] # None
          /\ (mapLock' = mapLock \/ mapLock \in {None, a})
      BY <1>2, <1>3, <1>4, <1>6
    <3>. QED BY <1>2, <1>3, <1>7, <1>8, <3>1, <3>2, InAcquire
  <2>2. \A v \in Limiters : linkedBy'[v] # None =>
           registry'[linkedBy'[v]] # None /\ impl'[v] = registry'[linkedBy'[v]]
    BY <1>1, <1>2 DEF AcquireInv
  <2>3. ASSUME NEW w \in Limiters, Built(w)'
        PROVE  impl'[w] # None \/ \E b \in Actors : pc'[b] = "link" /\ at'[b] = w
    <3>1. impl[w] # None \/ \E b \in Actors : pc[b] = "link" /\ at[b] = w
      BY <1>1, <1>2, <2>3 DEF AcquireInv, Built
    <3>. QED BY <1>2, <1>5, <3>1
  <2>. QED BY <2>1, <2>2, <2>3 DEF AcquireInv
<1>. QED BY <1>7, <1>9 DEF InvA

\* The arguments of a limiter.
LEMMA Arguments ==
    ASSUME TypeOK, NEW v \in Limiters
    PROVE  /\ args[v].kind \in Kinds \cup {"none", "both"} /\ args[v].rate \in Nat
           /\ args[v].off \in BOOLEAN /\ args[v].full \in BOOLEAN
           /\ args[v].kind \in Kinds <=> args[v].rate > 0
<1>1. args \in Setups /\ args \in [Limiters -> ConfigType]
    BY WrapperAssumption DEF TypeOK
<1>2. args[v] \in ConfigType /\ (args[v].kind \in Kinds <=> args[v].rate > 0)
    BY <1>1, WrapperAssumption
<1>. QED BY <1>2 DEF ConfigType

\* What the constructor builds has the types of a wrapper.
LEMMA BuildType ==
    ASSUME TypeOK, NEW v \in Limiters, args[v].kind # "both", Build(v)
    PROVE  /\ closed' \in [Limiters -> BOOLEAN]
           /\ kind' \in [Limiters -> Kinds \cup {"unset"}]
           /\ hasReset' \in [Limiters -> BOOLEAN]
           /\ lock' \in [Limiters -> [Sides -> Actors \cup {None}]]
           /\ bucket' \in [Limiters -> [Buckets -> [Sides -> Nat \cup {-1}]]]
<1> DEFINE shut == args[v].off \/ args[v].kind = "none"
           made == IF shut \/ args[v].full THEN {} ELSE BucketsOf(args[v].kind)
           new == IF made = {} THEN "unset" ELSE args[v].kind
           free == [s \in Sides |-> None]
           rates == [b \in Buckets |-> IF b \in made THEN Rate(args[v].rate) ELSE Missing]
<1>1. /\ closed' = [closed EXCEPT ![v] = shut] /\ kind' = [kind EXCEPT ![v] = new]
      /\ hasReset' = [hasReset EXCEPT ![v] = args[v].off]
      /\ lock' = [lock EXCEPT ![v] = free] /\ bucket' = [bucket EXCEPT ![v] = rates]
    BY DEF Build
<1>2. args[v].kind \in Kinds \cup {"none"} /\ args[v].rate \in Nat /\ args[v].off \in BOOLEAN
    BY Arguments
<1>3. new \in Kinds \cup {"unset"}
    BY <1>2
<1>4. free \in [Sides -> Actors \cup {None}]
    OBVIOUS
<1>5. Rate(args[v].rate) \in [Sides -> Nat \cup {-1}] /\ Missing \in [Sides -> Nat \cup {-1}]
    BY <1>2 DEF Rate, Missing
<1>6. rates \in [Buckets -> [Sides -> Nat \cup {-1}]]
    BY <1>5
<1>7. shut \in BOOLEAN
    BY <1>2
<1> HIDE DEF shut, new, free, rates
<1>. QED BY <1>1, <1>2, <1>3, <1>4, <1>6, <1>7 DEF TypeOK

LEMMA MakeWrapperA ==
    ASSUME InvA, NEW a \in Actors, MakeWrapper(a)
    PROVE  InvA'
<1> DEFINE v == at[a]
           t == IF key[a] = None THEN "enter" ELSE "link"
<1>1. TypeOK /\ AcquireInv
    BY DEF InvA
<1>2. /\ pc[a] = "make" /\ args[v].kind # "both" /\ Build(v) /\ Step(a, "make", t)
      /\ UNCHANGED <<args, linkedBy, local, ghosts>>
      /\ t \in {"enter", "link"} /\ t \in CallerStates
    BY DEF MakeWrapper, CallerStates, AwaitStates
<1>3. /\ key[a] = None =>
            /\ t = "enter" /\ impl' = [impl EXCEPT ![v] = v]
            /\ initLock' = [initLock EXCEPT ![v] = None]
            /\ registry' = registry /\ mapLock' = mapLock
      /\ key[a] # None =>
            /\ t = "link" /\ registry' = [registry EXCEPT ![key[a]] = v]
            /\ mapLock' = None /\ impl' = impl /\ initLock' = initLock
    BY DEF MakeWrapper
<1>4. UNCHANGED <<key, rpm, og, calls, resetters, claimed, settled>>
    BY <1>2 DEF local, ghosts
<1> HIDE DEF t
<1>5. /\ pc'[a] = t /\ at'[a] = v
      /\ pc' \in [Actors -> CallerStates]
      /\ at' \in [Actors -> Limiters \cup {None}]
      /\ \A b \in Actors \ {a} : pc'[b] = pc[b] /\ at'[b] = at[b]
    BY <1>1, <1>2, Goes
<1>6. v \in Limiters /\ v # None
    BY <1>1, <1>2 DEF AcquireInv, TypeOK
<1>7. /\ initLock[v] = a /\ impl[v] = None
      /\ key[a] # None => key[a] \in Keys /\ mapLock = a /\ registry[key[a]] = None
    BY <1>1, <1>2 DEF AcquireInv, Acquiring, TypeOK
<1> HIDE DEF v
<1>8. /\ impl' \in [Limiters -> Limiters \cup {None}]
      /\ registry' \in [Keys -> Limiters \cup {None}]
      /\ initLock' \in [Limiters -> Actors \cup {None}]
      /\ mapLock' \in Actors \cup {None}
  <2>1. /\ impl \in [Limiters -> Limiters \cup {None}]
        /\ registry \in [Keys -> Limiters \cup {None}]
        /\ initLock \in [Limiters -> Actors \cup {None}]
        /\ mapLock \in Actors \cup {None}
    BY <1>1 DEF TypeOK
  <2>2. CASE key[a] = None
    BY <1>3, <1>6, <2>1, <2>2
  <2>3. CASE key[a] # None
    BY <1>3, <1>6, <2>1, <2>3
  <2>. QED BY <2>2, <2>3
<1>9. TypeOK'
  <2>1. /\ closed' \in [Limiters -> BOOLEAN]
        /\ kind' \in [Limiters -> Kinds \cup {"unset"}]
        /\ hasReset' \in [Limiters -> BOOLEAN]
        /\ lock' \in [Limiters -> [Sides -> Actors \cup {None}]]
        /\ bucket' \in [Limiters -> [Buckets -> [Sides -> Nat \cup {-1}]]]
    BY <1>1, <1>2, <1>6, BuildType
  <2>. QED BY <1>1, <1>2, <1>4, <1>5, <1>8, <2>1 DEF TypeOK
<1>10. /\ \A w \in Limiters : w # v => impl'[w] = impl[w] /\ initLock'[w] = initLock[w]
       /\ \A k \in Keys : registry[k] # None => registry'[k] = registry[k]
       /\ (registry' = registry \/ mapLock = a)
       /\ (mapLock' = mapLock \/ mapLock \in {None, a})
       /\ t = "enter" => impl'[v] = v
       /\ t = "link" => /\ initLock'[v] = a /\ impl'[v] = None
                        /\ key[a] # None /\ registry'[key[a]] = v
    BY <1>1, <1>3, <1>6, <1>7 DEF TypeOK
<1>11. AcquireInv'
  <2>1. \A b \in Actors :
           /\ pc'[b] # "idle" => at'[b] # None
           /\ pc'[b] \in Entered => W(b)' # None
           /\ pc'[b] \in Acquiring => initLock'[at'[b]] = b /\ impl'[at'[b]] = None
           /\ pc'[b] = "make" /\ key'[b] # None =>
                 mapLock' = b /\ registry'[key'[b]] = None
           /\ pc'[b] = "link" => key'[b] # None /\ registry'[key'[b]] # None
           /\ pc'[b] \in Lowering => rpm'[b] > 0
    <3>1. t \notin Lowering \cup {"idle", "make"}
      BY <1>2 DEF Lowering
    <3>2. /\ t \in Entered => impl'[v] # None
          /\ t \in Acquiring => initLock'[v] = a /\ impl'[v] = None
          /\ t = "link" => key'[a] # None /\ registry'[key'[a]] # None
      BY <1>2, <1>4, <1>6, <1>10 DEF Entered, Acquiring
    <3>3. /\ at[a] = v /\ key' = key /\ rpm' = rpm /\ args' = args
      BY <1>2, <1>4 DEF v
    <3>. QED BY <1>2, <1>7, <1>9, <1>10, <3>1, <3>2, <3>3, InAcquire
  <2>2. ASSUME NEW w \in Limiters, linkedBy'[w] # None
        PROVE  registry'[linkedBy'[w]] # None /\ impl'[w] = registry'[linkedBy'[w]]
    <3>1. /\ linkedBy' = linkedBy /\ linkedBy[w] \in Keys
          /\ registry[linkedBy[w]] # None /\ impl[w] = registry[linkedBy[w]]
      BY <1>1, <1>2, <2>2 DEF AcquireInv, TypeOK
    <3>2. w # v
      BY <1>7, <3>1
    <3>. QED BY <1>10, <3>1, <3>2
  <2>3. ASSUME NEW w \in Limiters, Built(w)'
        PROVE  impl'[w] # None \/ \E b \in Actors : pc'[b] = "link" /\ at'[b] = w
    <3>1. CASE w = v
      BY <1>2, <1>5, <1>6, <1>10, <3>1
    <3>2. CASE w # v
      <4>1. Built(w)
        BY <1>1, <1>3, <1>6, <2>3, <3>2 DEF Built, TypeOK
      <4>2. impl[w] # None \/ \E b \in Actors : pc[b] = "link" /\ at[b] = w
        BY <1>1, <4>1 DEF AcquireInv
      <4>. QED BY <1>2, <1>5, <1>10, <3>2, <4>2
    <3>. QED BY <3>1, <3>2
  <2>. QED BY <2>1, <2>2, <2>3 DEF AcquireInv
<1>. QED BY <1>9, <1>11 DEF InvA

LEMMA RefuseArgumentsA ==
    ASSUME InvA, NEW a \in Actors, RefuseArguments(a)
    PROVE  InvA'
<1>1. TypeOK /\ AcquireInv
    BY DEF InvA
<1>2. /\ Step(a, "make", "raised") /\ "raised" \in CallerStates
      /\ initLock' = [initLock EXCEPT ![at[a]] = None]
      /\ mapLock' = IF key[a] = None THEN mapLock ELSE None
      /\ UNCHANGED <<args, impl, registry, linkedBy, wrapper, local, ghosts>>
    BY DEF RefuseArguments, CallerStates
<1>3. UNCHANGED <<closed, kind, hasReset, lock, bucket, key, rpm, og, calls, resetters,
                  claimed, settled>>
    BY <1>2 DEF wrapper, local, ghosts
<1>4. /\ pc[a] = "make" /\ pc'[a] = "raised" /\ at'[a] = at[a]
      /\ pc' \in [Actors -> CallerStates]
      /\ at' \in [Actors -> Limiters \cup {None}]
      /\ \A b \in Actors \ {a} : pc'[b] = pc[b] /\ at'[b] = at[b]
    BY <1>1, <1>2, Goes
<1>5. initLock[at[a]] = a /\ (key[a] # None => mapLock = a)
    BY <1>1, <1>4 DEF AcquireInv, Acquiring
<1>6. /\ initLock' \in [Limiters -> Actors \cup {None}] /\ mapLock' \in Actors \cup {None}
      /\ \A w \in Limiters : w # at[a] => initLock'[w] = initLock[w]
    BY <1>1, <1>2 DEF TypeOK
<1>7. TypeOK'
    BY <1>1, <1>2, <1>3, <1>4, <1>6 DEF TypeOK
<1>8. AcquireInv'
  <2>1. \A b \in Actors :
           /\ pc'[b] # "idle" => at'[b] # None
           /\ pc'[b] \in Entered => W(b)' # None
           /\ pc'[b] \in Acquiring => initLock'[at'[b]] = b /\ impl'[at'[b]] = None
           /\ pc'[b] = "make" /\ key'[b] # None =>
                 mapLock' = b /\ registry'[key'[b]] = None
           /\ pc'[b] = "link" => key'[b] # None /\ registry'[key'[b]] # None
           /\ pc'[b] \in Lowering => rpm'[b] > 0
    <3>1. /\ "raised" \notin Lowering \cup {"idle", "make", "link"}
          /\ "raised" \notin Acquiring /\ "raised" \notin Entered
      BY DEF Lowering, Acquiring, Entered
    <3>2. (mapLock' = mapLock \/ mapLock \in {None, a})
      BY <1>2, <1>5
    <3>. QED BY <1>2, <1>3, <1>5, <1>6, <1>7, <3>1, <3>2, InAcquire
  <2>2. \A v \in Limiters : linkedBy'[v] # None =>
           registry'[linkedBy'[v]] # None /\ impl'[v] = registry'[linkedBy'[v]]
    BY <1>1, <1>2 DEF AcquireInv
  <2>3. ASSUME NEW w \in Limiters, Built(w)'
        PROVE  impl'[w] # None \/ \E b \in Actors : pc'[b] = "link" /\ at'[b] = w
    <3>1. impl[w] # None \/ \E b \in Actors : pc[b] = "link" /\ at[b] = w
      BY <1>1, <1>2, <2>3 DEF AcquireInv, Built
    <3>. QED BY <1>2, <1>4, <3>1
  <2>. QED BY <2>1, <2>2, <2>3 DEF AcquireInv
<1>. QED BY <1>7, <1>8 DEF InvA

LEMMA LinkA ==
    ASSUME InvA, NEW a \in Actors, Link(a)
    PROVE  InvA'
<1> DEFINE v == at[a]
           k == key[a]
<1>1. TypeOK /\ AcquireInv
    BY DEF InvA
<1>2. /\ Step(a, "link", "enter") /\ "enter" \in CallerStates
      /\ impl' = [impl EXCEPT ![v] = registry[k]]
      /\ initLock' = [initLock EXCEPT ![v] = None]
      /\ linkedBy' = [linkedBy EXCEPT ![v] = k]
      /\ key' = [key EXCEPT ![a] = None]
      /\ UNCHANGED <<args, registry, mapLock, wrapper, rpm, og, calls, ghosts>>
    BY DEF Link, CallerStates
<1>3. UNCHANGED <<closed, kind, hasReset, lock, bucket, resetters, claimed, settled>>
    BY <1>2 DEF wrapper, ghosts
<1>4. /\ pc[a] = "link" /\ pc'[a] = "enter" /\ at'[a] = v
      /\ pc' \in [Actors -> CallerStates]
      /\ at' \in [Actors -> Limiters \cup {None}]
      /\ \A b \in Actors \ {a} : pc'[b] = pc[b] /\ at'[b] = at[b]
    BY <1>1, <1>2, Goes
<1>5. v \in Limiters /\ initLock[v] = a /\ impl[v] = None
    BY <1>1, <1>4 DEF AcquireInv, Acquiring, TypeOK
<1>6. k \in Keys /\ registry[k] # None /\ registry[k] \in Limiters
    BY <1>1, <1>4 DEF AcquireInv, TypeOK
<1> HIDE DEF v, k
<1>7. /\ impl' \in [Limiters -> Limiters \cup {None}]
      /\ initLock' \in [Limiters -> Actors \cup {None}]
      /\ linkedBy' \in [Limiters -> Keys \cup {None}]
      /\ key' \in [Actors -> Keys \cup {None}]
      /\ impl'[v] = registry[k] /\ linkedBy'[v] = k
      /\ \A w \in Limiters : w # v => impl'[w] = impl[w] /\ initLock'[w] = initLock[w]
                                      /\ linkedBy'[w] = linkedBy[w]
      /\ \A b \in Actors \ {a} : key'[b] = key[b]
    BY <1>1, <1>2, <1>5, <1>6 DEF TypeOK
<1>8. TypeOK'
    BY <1>1, <1>2, <1>3, <1>4, <1>7 DEF TypeOK
<1>9. AcquireInv'
  <2>1. \A b \in Actors :
           /\ pc'[b] # "idle" => at'[b] # None
           /\ pc'[b] \in Entered => W(b)' # None
           /\ pc'[b] \in Acquiring => initLock'[at'[b]] = b /\ impl'[at'[b]] = None
           /\ pc'[b] = "make" /\ key'[b] # None =>
                 mapLock' = b /\ registry'[key'[b]] = None
           /\ pc'[b] = "link" => key'[b] # None /\ registry'[key'[b]] # None
           /\ pc'[b] \in Lowering => rpm'[b] > 0
    <3>1. /\ "enter" \notin Lowering \cup {"idle", "make", "link"}
          /\ "enter" \notin Acquiring
      BY DEF Lowering, Acquiring
    <3>2. at[a] = v /\ impl'[v] # None
      BY <1>6, <1>7 DEF v
    <3>. QED BY <1>2, <1>5, <1>7, <1>8, <3>1, <3>2, InAcquire
  <2>2. ASSUME NEW w \in Limiters, linkedBy'[w] # None
        PROVE  registry'[linkedBy'[w]] # None /\ impl'[w] = registry'[linkedBy'[w]]
    <3>1. CASE w = v
      BY <1>2, <1>6, <1>7, <3>1
    <3>2. CASE w # v
      BY <1>1, <1>2, <1>7, <2>2, <3>2 DEF AcquireInv
    <3>. QED BY <3>1, <3>2
  <2>3. ASSUME NEW w \in Limiters, Built(w)'
        PROVE  impl'[w] # None \/ \E b \in Actors : pc'[b] = "link" /\ at'[b] = w
    <3>1. CASE w = v
      BY <1>6, <1>7, <3>1
    <3>2. CASE w # v
      <4>1. Built(w)
        BY <1>1, <1>2, <1>6, <1>7, <2>3 DEF Built
      <4>2. impl[w] # None \/ \E b \in Actors : pc[b] = "link" /\ at[b] = w
        BY <1>1, <4>1 DEF AcquireInv
      <4>3. CASE impl[w] # None
        BY <1>7, <3>2, <4>3
      <4>4. CASE \E b \in Actors : pc[b] = "link" /\ at[b] = w
        <5>1. PICK b \in Actors : pc[b] = "link" /\ at[b] = w
          BY <4>4
        <5>2. b # a
          BY <3>2, <5>1 DEF v
        <5>. QED BY <1>4, <5>1, <5>2
      <4>. QED BY <4>2, <4>3, <4>4
    <3>. QED BY <3>1, <3>2
  <2>. QED BY <2>1, <2>2, <2>3 DEF AcquireInv
<1>. QED BY <1>8, <1>9 DEF InvA

\* A caller past acquire has a wrapper.
LEMMA OnWrapper ==
    ASSUME InvA, NEW a \in Actors, pc[a] \in Entered
    PROVE  /\ at[a] \in Limiters /\ W(a) \in Limiters /\ W(a) # None
           /\ Side(a) \in Sides
BY LimitersAreSome DEF InvA, TypeOK, AcquireInv, W, Side, Sides, Entered

LEMMA EnterA ==
    ASSUME InvA, NEW a \in Actors, EnterStep(a)
    PROVE  InvA'
<1>1. TypeOK /\ UNCHANGED <<maps, closed, kind, hasReset, lock, bucket, key, rpm, og, calls>>
             /\ UNCHANGED <<resetters, claimed, settled>>
    BY DEF InvA, EnterStep, ReadClosed, ReadKind, EnterBucket, Leave, Unchanged,
           wrapper, local, ghosts
<1>2. ASSUME NEW s, NEW t \in CallerStates, Step(a, s, t),
             s \notin {"idle", "init", "map", "make", "link"},
             t \notin {"init", "map", "make", "link"}, t \notin Lowering,
             t \in Entered => s \in Entered
      PROVE  InvA'
  <2>1. s \notin Acquiring /\ t \notin Acquiring
    BY <1>2 DEF Acquiring
  <2>2. /\ closed' \in [Limiters -> BOOLEAN]
        /\ kind' \in [Limiters -> Kinds \cup {"unset"}]
        /\ hasReset' \in [Limiters -> BOOLEAN]
        /\ lock' \in [Limiters -> [Sides -> Actors \cup {None}]]
        /\ bucket' \in [Limiters -> [Buckets -> [Sides -> Nat \cup {-1}]]]
        /\ rpm' \in [Actors -> Int] /\ og' \in [Actors -> Nat]
        /\ resetters' \in [Limiters -> SUBSET Sides]
        /\ claimed' \in [Limiters -> Seq([side : Sides, rate : Int])]
        /\ settled' \subseteq Limiters
    BY <1>1 DEF TypeOK
  <2>. QED BY <1>1, <1>2, <2>1, <2>2, PastAcquire
<1>3. ASSUME ReadClosed(a) PROVE InvA'
  <2> DEFINE t == IF closed[W(a)] THEN "request" ELSE "kind"
  <2>1. Step(a, "enter", t) /\ t \in {"request", "kind"}
    BY <1>3 DEF ReadClosed
  <2>. QED BY <1>2, <2>1 DEF Entered, CallerStates, AwaitStates, Lowering
<1>4. ASSUME ReadKind(a) PROVE InvA'
  <2>1. pc[a] = "kind"
    BY <1>4 DEF ReadKind, Step
  <2>2. kind[W(a)] \in {"rpm", "qps", "unset"}
    BY <1>1, <2>1, OnWrapper DEF TypeOK, Entered, CallerStates, Kinds
  <2>3. PICK t \in {"raised", "minute", "second"} : Step(a, "kind", t)
    BY <1>4, <2>2 DEF ReadKind
  <2>. QED BY <1>2, <2>3 DEF Entered, CallerStates, AwaitStates, Lowering
<1>5. ASSUME NEW b \in Buckets, EnterBucket(a, b) PROVE InvA'
  <2>1. PICK t \in {"raised", "ten", "request"} : Step(a, b, t)
    BY <1>5 DEF EnterBucket
  <2>2. b \in {"minute", "ten", "second"}
    BY DEF Buckets
  <2>. QED BY <1>2, <2>1, <2>2 DEF Entered, CallerStates, AwaitStates, Lowering
<1>6. ASSUME Leave(a) PROVE InvA'
  <2>1. PICK s \in {"request", "raised"} : Step(a, s, "idle")
    BY <1>6 DEF Leave
  <2>. QED BY <1>2, <2>1 DEF Entered, CallerStates, AwaitStates, Lowering
<1>. QED BY <1>3, <1>4, <1>5, <1>6 DEF EnterStep

\* A reset lock given to a caller, given back or left alone.
LEMMA LockType ==
    ASSUME TypeOK, NEW w \in Limiters, NEW s \in Sides, NEW x \in Actors \cup {None},
           UNCHANGED lock \/ lock' = [lock EXCEPT ![w][s] = x]
    PROVE  lock' \in [Limiters -> [Sides -> Actors \cup {None}]]
<1>1. lock \in [Limiters -> [Sides -> Actors \cup {None}]]
    BY DEF TypeOK
<1>2. [lock[w] EXCEPT ![s] = x] \in [Sides -> Actors \cup {None}]
    BY <1>1
<1>3. CASE lock' = [lock EXCEPT ![w][s] = x]
  <2>1. lock' = [lock EXCEPT ![w] = [lock[w] EXCEPT ![s] = x]]
    BY <1>3
  <2>. QED BY <1>1, <1>2, <2>1
<1>. QED BY <1>1, <1>3

\* A step of a reset, from TakeLock on, that keeps the types of what it changes.
LEMMA ResetStepA ==
    ASSUME InvA, UNCHANGED <<maps, key, calls>>,
           NEW a \in Actors, NEW s, NEW t \in CallerStates, Step(a, s, t),
           s \in {"request", "lock"} \cup Critical,
           t \in {"idle", "lock", "raised"} \cup Critical,
           closed' \in [Limiters -> BOOLEAN],
           kind' \in [Limiters -> Kinds \cup {"unset"}],
           hasReset' \in [Limiters -> BOOLEAN],
           lock' \in [Limiters -> [Sides -> Actors \cup {None}]],
           bucket' \in [Limiters -> [Buckets -> [Sides -> Nat \cup {-1}]]],
           rpm' \in [Actors -> Int], og' \in [Actors -> Nat],
           resetters' \in [Limiters -> SUBSET Sides],
           claimed' \in [Limiters -> Seq([side : Sides, rate : Int])],
           settled' \subseteq Limiters,
           t \in Lowering => \/ rpm'[a] > 0
                            \/ (rpm' = rpm /\ s \in Lowering),
           \A b \in Actors \ {a} : rpm'[b] = rpm[b]
    PROVE  InvA'
<1>1. /\ s # "idle" /\ s # "init" /\ s \notin Acquiring
      /\ t # "init" /\ t \notin Acquiring /\ s \in Entered
    BY DEF Critical, Lowering, Acquiring, Entered, CallerStates, AwaitStates
<1>2. t \in Lowering => rpm'[a] > 0
  <2>1. CASE rpm' = rpm /\ s \in Lowering
    <3>1. TypeOK /\ (pc[a] \in Lowering => rpm[a] > 0)
      BY DEF InvA, AcquireInv
    <3>2. pc[a] = s
      BY <3>1, Goes
    <3>. QED BY <2>1, <3>1, <3>2
  <2>. QED BY <2>1
<1>3. UNCHANGED <<maps, key>> /\ UNCHANGED calls
    OBVIOUS
<1>. QED BY <1>1, <1>2, <1>3, PastAcquire

LEMMA BeginResetA ==
    ASSUME InvA, NEW a \in Actors, NEW r \in Reported, BeginReset(a, r)
    PROVE  InvA'
<1> DEFINE t == IF hasReset[W(a)] THEN "idle" ELSE "lock"
<1>1. /\ Step(a, "request", t) /\ t \in {"idle", "lock"} /\ t \in CallerStates
      /\ rpm' = [rpm EXCEPT ![a] = IF hasReset[W(a)] THEN @ ELSE r]
      /\ resetters' = IF hasReset[W(a)] THEN resetters
                      ELSE [resetters EXCEPT ![W(a)] = @ \cup {Side(a)}]
      /\ UNCHANGED <<maps, wrapper, key, og, calls, claimed, settled>>
    BY DEF BeginReset, CallerStates, AwaitStates
<1> HIDE DEF t
<1>2. TypeOK /\ UNCHANGED <<closed, kind, hasReset, lock, bucket>>
    BY <1>1 DEF InvA, wrapper
<1>3. W(a) \in Limiters /\ Side(a) \in Sides
  <2>1. pc[a] \in Entered
    BY <1>1 DEF Step, Entered, CallerStates, AwaitStates
  <2>. QED BY <2>1, OnWrapper
<1>4. /\ rpm' \in [Actors -> Int] /\ \A b \in Actors \ {a} : rpm'[b] = rpm[b]
      /\ resetters' \in [Limiters -> SUBSET Sides]
    BY <1>1, <1>2, <1>3, WrapperAssumption DEF TypeOK
<1>5. t \notin Lowering
    BY <1>1 DEF Lowering
<1>. QED BY <1>1, <1>2, <1>4, <1>5, ResetStepA DEF TypeOK

LEMMA TakeLockA ==
    ASSUME InvA, NEW a \in Actors, TakeLock(a)
    PROVE  InvA'
<1> DEFINE t == IF Late(a) THEN "idle" ELSE "claim"
<1>1. /\ Step(a, "lock", t) /\ t \in {"idle", "claim"} /\ t \in CallerStates
      /\ lock' = [lock EXCEPT ![W(a)][Side(a)] = IF Late(a) THEN None ELSE a]
      /\ UNCHANGED <<maps, closed, kind, hasReset, bucket, local, ghosts>>
    BY DEF TakeLock, CallerStates, AwaitStates
<1> HIDE DEF t
<1>2. TypeOK /\ UNCHANGED <<key, rpm, og, calls, resetters, claimed, settled>>
    BY <1>1 DEF InvA, local, ghosts
<1>3. W(a) \in Limiters /\ Side(a) \in Sides
  <2>1. pc[a] \in Entered
    BY <1>1 DEF Step, Entered, CallerStates, AwaitStates
  <2>. QED BY <2>1, OnWrapper
<1>4. lock' \in [Limiters -> [Sides -> Actors \cup {None}]]
    BY <1>1, <1>2, <1>3, LockType
<1>5. t \notin Lowering /\ t \in {"idle", "lock", "raised"} \cup Critical
    BY <1>1 DEF Lowering, Critical
<1>. QED BY <1>1, <1>2, <1>4, <1>5, ResetStepA DEF TypeOK

LEMMA ClaimA ==
    ASSUME InvA, NEW a \in Actors, Claim(a)
    PROVE  InvA'
<1> DEFINE keep == Og(W(a)) # 0 /\ Og(W(a)) <= rpm[a]
           t == IF keep THEN "idle" ELSE "decide"
<1>1. /\ Step(a, "claim", t) /\ t \in {"idle", "decide"} /\ t \in CallerStates
      /\ hasReset' = [hasReset EXCEPT ![W(a)] = TRUE]
      /\ claimed' = [claimed EXCEPT
             ![W(a)] = Append(@, [side |-> Side(a), rate |-> rpm[a]])]
      /\ og' = [og EXCEPT ![a] = IF keep THEN 0 ELSE Og(W(a))]
      /\ \/ UNCHANGED <<lock, settled>>
         \/ /\ lock' = [lock EXCEPT ![W(a)][Side(a)] = None]
            /\ settled' = settled \cup {W(a)}
      /\ UNCHANGED <<maps, closed, kind, bucket, key, rpm, calls, resetters>>
    BY DEF Claim, CallerStates, AwaitStates, LetGo, Settle
<1> HIDE DEF t, keep
<1>2. TypeOK
    BY DEF InvA
<1>3. W(a) \in Limiters /\ Side(a) \in Sides
  <2>1. pc[a] \in Entered
    BY <1>1 DEF Step, Entered, CallerStates, AwaitStates
  <2>. QED BY <2>1, OnWrapper
<1>4. Og(W(a)) \in Nat
    BY <1>2, <1>3, Arguments DEF Og
<1>5. og' \in [Actors -> Nat] /\ hasReset' \in [Limiters -> BOOLEAN]
    BY <1>1, <1>2, <1>4 DEF TypeOK
<1>6. lock' \in [Limiters -> [Sides -> Actors \cup {None}]] /\ settled' \subseteq Limiters
  <2>1. UNCHANGED lock \/ lock' = [lock EXCEPT ![W(a)][Side(a)] = None]
    BY <1>1
  <2>2. lock' \in [Limiters -> [Sides -> Actors \cup {None}]]
    BY <1>2, <1>3, <2>1, LockType
  <2>. QED BY <1>1, <1>2, <1>3, <2>2 DEF TypeOK
<1>7. claimed' \in [Limiters -> Seq([side : Sides, rate : Int])]
  <2>1. [side |-> Side(a), rate |-> rpm[a]] \in [side : Sides, rate : Int]
    BY <1>2, <1>3 DEF TypeOK
  <2>2. Append(claimed[W(a)], [side |-> Side(a), rate |-> rpm[a]])
           \in Seq([side : Sides, rate : Int])
    BY <1>2, <1>3, <2>1, AppendProperties DEF TypeOK
  <2>. QED BY <1>1, <1>2, <2>2 DEF TypeOK
<1>8. /\ t \notin Lowering /\ t \in {"idle", "lock", "raised"} \cup Critical
      /\ "claim" \in Critical
    BY <1>1 DEF Lowering, Critical
<1>. QED BY <1>1, <1>2, <1>5, <1>6, <1>7, <1>8, ResetStepA DEF TypeOK

LEMMA DecideA ==
    ASSUME InvA, NEW a \in Actors, Decide(a)
    PROVE  InvA'
<1> DEFINE new == Usable(IF closed[W(a)] THEN rpm[a] ELSE Lesser(rpm[a], og[a]))
           t == IF new = 0 THEN "idle" ELSE "setKind"
<1>1. /\ Step(a, "decide", t) /\ t \in {"idle", "setKind"} /\ t \in CallerStates
      /\ rpm' = [rpm EXCEPT ![a] = new] /\ og' = [og EXCEPT ![a] = 0]
      /\ \/ UNCHANGED <<closed, lock, settled>>
         \/ /\ closed' = [closed EXCEPT ![W(a)] = TRUE]
            /\ lock' = [lock EXCEPT ![W(a)][Side(a)] = None]
            /\ settled' = settled \cup {W(a)}
      /\ UNCHANGED <<maps, kind, hasReset, bucket, key, calls, resetters, claimed>>
    BY DEF Decide, CallerStates, AwaitStates, LetGo, Settle
<1>2. TypeOK
    BY DEF InvA
<1>3. rpm[a] \in Int /\ og[a] \in Int
    BY <1>2 DEF TypeOK
<1>4. new \in Nat /\ (t = "setKind" => new > 0)
    BY <1>3 DEF Usable, Lesser
<1> HIDE DEF t, new
<1>5. W(a) \in Limiters /\ Side(a) \in Sides
  <2>1. pc[a] \in Entered
    BY <1>1 DEF Step, Entered, CallerStates, AwaitStates
  <2>. QED BY <2>1, OnWrapper
<1>6. /\ rpm' \in [Actors -> Int] /\ og' \in [Actors -> Nat] /\ rpm'[a] = new
      /\ \A b \in Actors \ {a} : rpm'[b] = rpm[b]
    BY <1>1, <1>2, <1>4 DEF TypeOK
<1>7. /\ lock' \in [Limiters -> [Sides -> Actors \cup {None}]] /\ settled' \subseteq Limiters
      /\ closed' \in [Limiters -> BOOLEAN]
  <2>1. UNCHANGED lock \/ lock' = [lock EXCEPT ![W(a)][Side(a)] = None]
    BY <1>1
  <2>2. lock' \in [Limiters -> [Sides -> Actors \cup {None}]]
    BY <1>2, <1>5, <2>1, LockType
  <2>3. closed \in [Limiters -> BOOLEAN] /\ settled \subseteq Limiters
    BY <1>2 DEF TypeOK
  <2>4. settled' \subseteq Limiters
    BY <1>1, <1>5, <2>3
  <2>5. closed' \in [Limiters -> BOOLEAN]
    BY <1>1, <2>3
  <2>. QED BY <2>2, <2>4, <2>5
<1>8. /\ t \in {"idle", "setKind"} /\ (t = "setKind" => rpm'[a] > 0)
      /\ "decide" \in Critical /\ "setKind" \in Critical /\ "idle" \notin Lowering
    BY <1>1, <1>4, <1>6 DEF Lowering, Critical
<1>9. /\ kind' \in [Limiters -> Kinds \cup {"unset"}]
      /\ hasReset' \in [Limiters -> BOOLEAN]
      /\ bucket' \in [Limiters -> [Buckets -> [Sides -> Nat \cup {-1}]]]
      /\ resetters' \in [Limiters -> SUBSET Sides]
      /\ claimed' \in [Limiters -> Seq([side : Sides, rate : Int])]
    BY <1>1, <1>2 DEF TypeOK
<1>10. UNCHANGED <<maps, key, calls>> /\ Step(a, "decide", t)
    BY <1>1
<1>11. /\ "decide" \in {"request", "lock"} \cup Critical /\ t \in CallerStates
       /\ t \in {"idle", "lock", "raised"} \cup Critical
       /\ t \in Lowering => rpm'[a] > 0
    BY <1>1, <1>8
<1>. QED BY <1>6, <1>7, <1>9, <1>10, <1>11, ResetStepA

LEMMA SetKindA ==
    ASSUME InvA, NEW a \in Actors, SetKind(a)
    PROVE  InvA'
<1> DEFINE new == IF closed[W(a)] \/ kind[W(a)] = "rpm" THEN "rpm" ELSE "qps"
           t == IF new = "qps" THEN "lowerSecond"
                ELSE IF bucket[W(a)]["ten"] = Missing THEN "makeTen" ELSE "lowerTen"
<1>1. /\ Step(a, "setKind", t) /\ t \in {"lowerSecond", "makeTen", "lowerTen"}
      /\ t \in CallerStates /\ new \in Kinds /\ kind' = [kind EXCEPT ![W(a)] = new]
      /\ UNCHANGED <<maps, closed, hasReset, lock, bucket, local, ghosts>>
    BY DEF SetKind, CallerStates, Kinds
<1> HIDE DEF t, new
<1>2. TypeOK /\ UNCHANGED <<key, rpm, og, calls, resetters, claimed, settled>>
    BY <1>1 DEF InvA, local, ghosts
<1>3. kind' \in [Limiters -> Kinds \cup {"unset"}]
    BY <1>1, <1>2 DEF TypeOK
<1>4. "setKind" \in Lowering /\ Lowering \subseteq Critical /\ t \in Lowering
    BY <1>1 DEF Lowering, Critical
<1>. QED BY <1>1, <1>2, <1>3, <1>4, ResetStepA DEF TypeOK

LEMMA BucketStepA ==
    ASSUME InvA, NEW a \in Actors, NEW b \in Buckets,
           NEW s \in Lowering, NEW t \in Lowering,
           MakeBucket(a, b, s, t) \/ LowerBucket(a, b, s, t)
    PROVE  InvA'
<1>1. /\ Lowering \subseteq Critical /\ Lowering \subseteq CallerStates
      /\ Lowering \subseteq Entered
    BY DEF Lowering, Critical, CallerStates, Entered, AwaitStates
<1>2. PICK u \in {t, "raised"} :
         /\ Step(a, s, u)
         /\ UNCHANGED <<maps, closed, kind, hasReset, lock, local, ghosts>>
    BY DEF MakeBucket, LowerBucket
<1>3. u \in CallerStates /\ u \in {"idle", "lock", "raised"} \cup Critical
    BY <1>1, <1>2 DEF CallerStates
<1>4. TypeOK /\ UNCHANGED <<key, rpm, og, calls, resetters, claimed, settled>>
    BY <1>2 DEF InvA, local, ghosts
<1>5. pc[a] = s
    BY <1>2 DEF Step
<1>6. W(a) \in Limiters /\ Side(a) \in Sides
    BY <1>1, <1>5, OnWrapper
<1>7. rpm[a] \in Nat
    BY <1>4, <1>5 DEF InvA, AcquireInv, TypeOK
<1>8. bucket' \in [Limiters -> [Buckets -> [Sides -> Nat \cup {-1}]]]
  <2>1. bucket \in [Limiters -> [Buckets -> [Sides -> Nat \cup {-1}]]]
    BY <1>4 DEF TypeOK
  <2>2. CASE MakeBucket(a, b, s, t)
    <3>1. Rate(IF args[W(a)].full THEN 0 ELSE rpm[a]) \in [Sides -> Nat \cup {-1}]
      BY <1>7 DEF Rate
    <3>. QED BY <1>6, <2>1, <2>2, <3>1 DEF MakeBucket
  <2>3. CASE LowerBucket(a, b, s, t)
    <3>1. bucket' = bucket \/ bucket' = [bucket EXCEPT ![W(a)][b][Side(a)] = rpm[a]]
      BY <2>3 DEF LowerBucket
    <3>2. CASE bucket' = bucket
      BY <2>1, <3>2
    <3>3. CASE bucket' = [bucket EXCEPT ![W(a)][b][Side(a)] = rpm[a]]
      <4>1. [bucket[W(a)][b] EXCEPT ![Side(a)] = rpm[a]] \in [Sides -> Nat \cup {-1}]
        BY <1>6, <1>7, <2>1
      <4>2. [bucket[W(a)] EXCEPT ![b] = [bucket[W(a)][b] EXCEPT ![Side(a)] = rpm[a]]]
               \in [Buckets -> [Sides -> Nat \cup {-1}]]
        BY <1>6, <2>1, <4>1
      <4>3. bucket' = [bucket EXCEPT ![W(a)] = [bucket[W(a)] EXCEPT
                          ![b] = [bucket[W(a)][b] EXCEPT ![Side(a)] = rpm[a]]]]
        BY <3>3
      <4>. QED BY <1>6, <2>1, <4>2, <4>3
    <3>. QED BY <3>1, <3>2, <3>3
  <2>. QED BY <2>2, <2>3
<1>. QED BY <1>1, <1>2, <1>3, <1>4, <1>8, ResetStepA DEF TypeOK

LEMMA OpenA ==
    ASSUME InvA, NEW a \in Actors, Open(a)
    PROVE  InvA'
<1>1. /\ Step(a, "open", "idle") /\ "idle" \in CallerStates
      /\ closed' = [closed EXCEPT ![W(a)] = FALSE]
      /\ lock' = [lock EXCEPT ![W(a)][Side(a)] = None]
      /\ settled' = settled \cup {W(a)}
      /\ rpm' = [rpm EXCEPT ![a] = 0]
      /\ UNCHANGED <<maps, kind, hasReset, bucket, key, og, calls, resetters, claimed>>
    BY DEF Open, CallerStates, AwaitStates, LetGo, Settle
<1>2. TypeOK
    BY DEF InvA
<1>3. W(a) \in Limiters /\ Side(a) \in Sides
  <2>1. pc[a] \in Entered
    BY <1>1 DEF Step, Entered, CallerStates, AwaitStates
  <2>. QED BY <2>1, OnWrapper
<1>4. /\ rpm' \in [Actors -> Int] /\ \A b \in Actors \ {a} : rpm'[b] = rpm[b]
      /\ settled' \subseteq Limiters
    BY <1>1, <1>2, <1>3 DEF TypeOK
<1>5. /\ lock' \in [Limiters -> [Sides -> Actors \cup {None}]]
      /\ closed' \in [Limiters -> BOOLEAN]
    BY <1>1, <1>2, <1>3, LockType DEF TypeOK
<1>6. "idle" \notin Lowering /\ "open" \in Critical
    BY DEF Lowering, Critical
<1>. QED BY <1>1, <1>2, <1>4, <1>5, <1>6, ResetStepA DEF TypeOK

LEMMA NextInvA == InvA /\ [Next]_vars => InvA'
<1> SUFFICES ASSUME InvA, [Next]_vars PROVE InvA'
    OBVIOUS
<1>1. CASE UNCHANGED vars
    BY <1>1 DEF vars, InvA, TypeOK, AcquireInv, W, Built
<1>2. CASE Next
  <2>1. PICK a \in Actors :
           \/ \E u \in Uses : Acquire(a, u[1], u[2])
           \/ GoOn(a)
           \/ \E r \in Reported : BeginReset(a, r)
    BY <1>2 DEF Next
  <2>2. ASSUME NEW u \in Uses, Acquire(a, u[1], u[2]) PROVE InvA'
    <3>1. u[1] \in Limiters /\ u[2] \in Keys \cup {None}
      BY WrapperAssumption
    <3>. QED BY <2>2, <3>1, AcquireStepA
  <2>3. ASSUME AcquireStep(a) PROVE InvA'
    BY <2>3, TakeInitLockA, TakeMapLockA, MakeWrapperA, RefuseArgumentsA, LinkA
       DEF AcquireStep
  <2>4. ASSUME ResetStep(a) PROVE InvA'
    <3>1. /\ {"ten", "minute", "second"} \subseteq Buckets
          /\ {"makeTen", "makeMinute", "lowerTen", "lowerMinute", "lowerSecond", "open"}
                \subseteq Lowering
      BY DEF Buckets, Lowering
    <3>. QED BY <2>4, <3>1, TakeLockA, ClaimA, DecideA, SetKindA, BucketStepA, OpenA
             DEF ResetStep
  <2>. QED BY <2>1, <2>2, <2>3, <2>4, EnterA, BeginResetA DEF GoOn
<1>. QED BY <1>1, <1>2

\* The types of the wrapper's variables.
THEOREM TypeCorrect == Spec => []TypeOK
<1>. QED BY InitInvA, NextInvA, PTL DEF Spec, InvA

\* Limiters first used under one key share the wrapper the map holds for it, however
\* their requests race for _init_lock and _MAP_LOCK.
THEOREM OneCount == Spec => []OneWrapperPerKey
<1>1. InvA => OneWrapperPerKey
    BY DEF InvA, AcquireInv, OneWrapperPerKey
<1>. QED BY InitInvA, NextInvA, <1>1, PTL DEF Spec

-----------------------------------------------------------------------------
(* The resets.                                                              *)

\* What no step of the others changes about a wrapper.
Same(w) ==
    /\ UNCHANGED args
    /\ closed'[w] = closed[w] /\ kind'[w] = kind[w] /\ hasReset'[w] = hasReset[w]
    /\ bucket'[w] = bucket[w] /\ claimed'[w] = claimed[w]
    /\ w \in settled' <=> w \in settled

LEMMA SameWrapper ==
    ASSUME NEW w \in Limiters, Same(w)
    PROVE  /\ AsBuilt(w) => AsBuilt(w)'
           /\ Fresh(w)' <=> Fresh(w)
           /\ Goal(w)' = Goal(w)
           /\ \A b \in Buckets : BucketSet(w, b) => BucketSet(w, b)'
           /\ Making(w) => Making(w)'
           /\ \A k \in Kinds : Tightening(w, k) => Tightening(w, k)'
           /\ Enterable(w) => Enterable(w)'
           /\ WrapperInv(w) => WrapperInv(w)'
<1>1. /\ args' = args /\ closed'[w] = closed[w] /\ kind'[w] = kind[w]
      /\ hasReset'[w] = hasReset[w] /\ bucket'[w] = bucket[w] /\ claimed'[w] = claimed[w]
      /\ w \in settled' <=> w \in settled
    BY DEF Same
<1>2. AsBuilt(w) => AsBuilt(w)'
    BY <1>1 DEF AsBuilt, Fresh
<1>3. Fresh(w)' <=> Fresh(w)
    BY <1>1 DEF Fresh
<1>4. Goal(w)' = Goal(w)
    BY <1>1 DEF Goal, Target
<1>5. ASSUME NEW b \in Buckets, BucketSet(w, b)
      PROVE  BucketSet(w, b)'
    BY <1>1, <1>3, <1>4, <1>5 DEF BucketSet
<1>6. Making(w) => Making(w)'
    BY <1>1 DEF Making, Fresh
<1>7. \A k \in Kinds : Tightening(w, k) => Tightening(w, k)'
    BY <1>1 DEF Tightening, Fresh
<1>8. Enterable(w) => Enterable(w)'
    BY <1>1 DEF Enterable
<1>9. InForce(w) => InForce(w)'
    BY <1>1 DEF InForce, Target
<1>10. WrapperInv(w) => WrapperInv(w)'
    BY <1>1, <1>2, <1>8, <1>9 DEF WrapperInv
<1>. QED BY <1>2, <1>3, <1>4, <1>5, <1>6, <1>7, <1>8, <1>10

LEMMA SameProgress ==
    ASSUME NEW w \in Limiters, Same(w), NEW b, pc'[b] = pc[b], rpm'[b] = rpm[b], og'[b] = og[b]
    PROVE  /\ Progress(b, w) => Progress(b, w)'
           /\ Entering(b, w) => Entering(b, w)'
<1>1. /\ args' = args /\ closed'[w] = closed[w] /\ kind'[w] = kind[w]
      /\ hasReset'[w] = hasReset[w] /\ bucket'[w] = bucket[w] /\ claimed'[w] = claimed[w]
      /\ w \in settled' <=> w \in settled
    BY DEF Same
<1>2. /\ {"minute", "ten", "second"} = Buckets /\ {"rpm", "qps"} = Kinds
      /\ \A k : BucketsOf(k) \subseteq Buckets
    BY DEF Buckets, Kinds, BucketsOf
<1>3. Entering(b, w) => Entering(b, w)'
    BY <1>1, SameWrapper DEF Entering
<1>4. ASSUME Progress(b, w) PROVE Progress(b, w)'
  <2>1. /\ pc'[b] = "claim" => ~ hasReset'[w]
        /\ pc'[b] \in Critical \ {"claim"} =>
              /\ Len(claimed'[w]) = 1 /\ Head(claimed'[w]).side = Side(b)
              /\ w \notin settled' /\ ~ args'[w].off
    BY <1>1, <1>4 DEF Progress
  <2>2. pc'[b] = "decide" =>
          /\ AsBuilt(w)' /\ rpm'[b] = Head(claimed'[w]).rate
          /\ og'[b] = IF Fresh(w)' THEN 0 ELSE args'[w].rate
    BY <1>1, <1>4, SameWrapper DEF Progress
  <2>3. /\ pc'[b] \in Lowering => rpm'[b] = Goal(w)'
        /\ pc'[b] = "setKind" => AsBuilt(w)'
        /\ pc'[b] = "makeTen" => Making(w)'
        /\ pc'[b] = "makeMinute" => Making(w)' /\ BucketSet(w, "ten")'
    BY <1>1, <1>2, <1>4, SameWrapper DEF Progress
  <2>4. /\ pc'[b] = "lowerTen" =>
             /\ Tightening(w, "rpm")' /\ bucket'[w]["ten"] = Rate(args'[w].rate)
             /\ bucket'[w]["minute"] = Rate(args'[w].rate)
        /\ pc'[b] = "lowerMinute" =>
             /\ Tightening(w, "rpm")' /\ BucketSet(w, "ten")'
             /\ bucket'[w]["minute"] = Rate(args'[w].rate)
        /\ pc'[b] = "lowerSecond" =>
             Tightening(w, "qps")' /\ bucket'[w]["second"] = Rate(args'[w].rate)
    BY <1>1, <1>2, <1>4, SameWrapper DEF Progress
  <2>5. ASSUME pc'[b] = "open"
        PROVE  /\ Making(w)' \/ \E k \in Kinds : Tightening(w, k)'
               /\ \A c \in BucketsOf(kind'[w]) : BucketSet(w, c)'
    <3>1. /\ Making(w) \/ \E k \in Kinds : Tightening(w, k)
          /\ \A c \in BucketsOf(kind[w]) : BucketSet(w, c)
      BY <1>1, <1>4, <2>5 DEF Progress
    <3>. QED BY <1>1, <1>2, <3>1, SameWrapper
  <2>. QED BY <1>1, <2>1, <2>2, <2>3, <2>4, <2>5 DEF Progress
<1>. QED BY <1>3, <1>4

\* A step of caller a that changes no wrapper but u: what the invariant says of the
\* other callers and wrappers stays true, and what is left is a and u.  (u is None
\* for a step that changes no wrapper.)
LEMMA Bystanders ==
    ASSUME InvB, NEW a \in Actors, NEW t, pc'[a] = t, NEW u,
           UNCHANGED args,
           \A b \in Actors \ {a} : /\ pc'[b] = pc[b] /\ at'[b] = at[b]
                                   /\ rpm'[b] = rpm[b] /\ og'[b] = og[b],
           \A v \in Limiters : impl[v] # None => impl'[v] = impl[v],
           \A w \in Limiters \ {u} : Same(w) /\ (Built(w)' <=> Built(w)),
           \A w \in Limiters : /\ resetters[w] \subseteq resetters'[w]
                               /\ resetters'[w] \subseteq Sides
                               /\ ~ Built(w) => resetters'[w] = resetters[w],
           \A b \in Actors \ {a}, w \in Limiters : On(b, w) /\ pc[b] \in Critical =>
                  lock'[w][Side(b)] = lock[w][Side(b)],
           u \in Limiters =>
              /\ Built(u)' /\ (Proper(u)' => WrapperInv(u)')
              /\ \A b \in Actors \ {a} : On(b, u) /\ Proper(u)' =>
                    Progress(b, u)' /\ Entering(b, u)',
           \A w \in Limiters : On(a, w)' =>
              Locked(a, w)' /\ (Proper(w)' => Progress(a, w)' /\ Entering(a, w)'),
           t = "raised" => \/ args[at'[a]].kind = "both"
                           \/ \E w \in Limiters : W(a)' = w /\ ~ Proper(w)'
    PROVE  ResetInv'
<1>1. TypeOK /\ AcquireInv /\ ResetInv /\ args' = args
    BY DEF InvB, InvA
<1>2. ASSUME NEW w \in Limiters, Proper(w)' PROVE Proper(w)
    BY ZenonT(60), <1>1, <1>2 DEF Proper, OneSide
<1>3. Untouched'
  <2> SUFFICES ASSUME NEW w \in Limiters, ~ Built(w)'
               PROVE  claimed'[w] = <<>> /\ w \notin settled' /\ resetters'[w] = {}
      BY DEF Untouched
  <2>1. w # u /\ ~ Built(w)
      OBVIOUS
  <2>2. claimed[w] = <<>> /\ w \notin settled /\ resetters[w] = {}
      BY <1>1, <2>1 DEF ResetInv, Untouched
  <2>. QED BY <2>1, <2>2 DEF Same
<1>4. \A w \in Limiters : Built(w)' /\ Proper(w)' => WrapperInv(w)'
  <2> SUFFICES ASSUME NEW w \in Limiters, Built(w)', Proper(w)' PROVE WrapperInv(w)'
      OBVIOUS
  <2>1. CASE w = u
      BY <2>1
  <2>2. CASE w # u
    <3>1. Built(w) /\ Proper(w) /\ Same(w)
      BY <1>2, <2>2
    <3>2. WrapperInv(w)
      BY <1>1, <3>1 DEF ResetInv
    <3>. QED BY <3>1, <3>2, SameWrapper
  <2>. QED BY <2>1, <2>2
<1>5. ASSUME NEW b \in Actors \ {a}, NEW w \in Limiters, On(b, w)'
      PROVE  On(b, w)
  <2>1. pc[b] \in Entered /\ impl'[at[b]] = w
      BY <1>5 DEF On, W
  <2>2. impl[at[b]] # None /\ at[b] \in Limiters
      BY <1>1, <2>1 DEF AcquireInv, W, TypeOK, Entered
  <2>. QED BY <2>1, <2>2 DEF On, W
<1>6. ASSUME NEW b \in Actors, NEW w \in Limiters, On(b, w)'
      PROVE  Locked(b, w)' /\ (Proper(w)' => Progress(b, w)' /\ Entering(b, w)')
  <2>1. CASE b = a
      BY <1>6, <2>1
  <2>2. CASE b # a
    <3>1. On(b, w) /\ b \in Actors \ {a} /\ pc'[b] = pc[b]
      BY <1>5, <1>6, <2>2
    <3>2. Locked(b, w) /\ (Proper(w) => Progress(b, w) /\ Entering(b, w))
      BY <1>1, <3>1 DEF ResetInv
    <3>3. Locked(b, w)'
      BY <3>1, <3>2 DEF Locked, Side
    <3>4. ASSUME Proper(w)' PROVE Progress(b, w)' /\ Entering(b, w)'
      <4>1. CASE w = u
        BY <3>1, <3>4, <4>1
      <4>2. CASE w # u
        <5>1. Same(w) /\ rpm'[b] = rpm[b] /\ og'[b] = og[b] /\ Proper(w)
          BY <1>2, <3>1, <3>4, <4>2
        <5>. QED BY <3>1, <3>2, <5>1, SameProgress
      <4>. QED BY <4>1, <4>2
    <3>. QED BY <3>3, <3>4
  <2>. QED BY <2>1, <2>2
<1>7. ASSUME NEW b \in Actors, pc'[b] = "raised", args'[at'[b]].kind # "both"
      PROVE  W(b)' \in Limiters /\ ~ Proper(W(b))'
  <2>1. PICK w \in Limiters : W(b)' = w /\ ~ Proper(w)'
    <3>1. CASE b = a
      BY <1>1, <1>7, <3>1
    <3>2. CASE b # a
      <4>1. pc[b] = "raised" /\ at'[b] = at[b] /\ args[at[b]].kind # "both"
        BY <1>1, <1>7, <3>2
      <4>2. W(b) \in Limiters /\ ~ Proper(W(b))
        BY <1>1, <4>1 DEF ResetInv
      <4>3. at[b] \in Limiters
        BY <1>1, <4>1 DEF AcquireInv, TypeOK
      <4>4. W(b) # None
        BY <4>2, LimitersAreSome
      <4>5. W(b)' = W(b)
        BY <4>1, <4>3, <4>4 DEF W
      <4>6. PICK w \in Limiters : w = W(b) /\ ~ Proper(w)
        BY <4>2
      <4>7. ~ Proper(w)'
        BY <1>2, <4>6
      <4>. QED BY <4>5, <4>6, <4>7
    <3>. QED BY <3>1, <3>2
  <2>. QED BY <2>1 DEF Proper, OneSide
<1>. QED BY <1>3, <1>4, <1>6, <1>7 DEF ResetInv

\* A wrapper some caller uses is one a limiter has.
LEMMA OnBuilt ==
    ASSUME InvA, NEW a \in Actors, NEW w \in Limiters, On(a, w)
    PROVE  Built(w) /\ at[a] \in Limiters /\ impl[at[a]] = w
BY OnWrapper DEF On, Built, W

\* A step that changes neither a wrapper nor a lock of a reset.
LEMMA Quiet ==
    ASSUME InvB, NEW a \in Actors, NEW t, pc'[a] = t,
           UNCHANGED <<args, closed, kind, hasReset, bucket, lock, og, rpm>>,
           UNCHANGED <<claimed, settled, resetters>>,
           \A b \in Actors \ {a} : pc'[b] = pc[b] /\ at'[b] = at[b],
           \A v \in Limiters : impl[v] # None => impl'[v] = impl[v],
           \A w \in Limiters : Built(w)' <=> Built(w),
           t \notin Critical \cup {"lock"},
           \A w \in Limiters : On(a, w)' /\ Proper(w) => Entering(a, w)',
           t = "raised" => \/ args[at'[a]].kind = "both"
                           \/ \E w \in Limiters : W(a)' = w /\ ~ Proper(w)
    PROVE  ResetInv'
<1>1. \A w \in Limiters : Same(w) /\ (Proper(w)' <=> Proper(w))
    BY DEF Same, Proper, OneSide
<1>2. ASSUME NEW w \in Limiters
      PROVE  Locked(a, w)' /\ Progress(a, w)'
  <2>1. /\ pc'[a] \notin Critical /\ pc'[a] # "lock"
        /\ Lowering \subseteq Critical /\ {"claim", "decide"} \subseteq Critical
    BY DEF Critical
  <2>2. pc'[a] \notin Lowering /\ pc'[a] \notin {"claim", "decide"}
    BY <2>1
  <2>3. pc'[a] \notin {"setKind", "makeTen", "makeMinute", "lowerTen", "lowerMinute",
                       "lowerSecond", "open"}
    BY <2>2 DEF Lowering
  <2>. QED BY <2>1, <2>2, <2>3 DEF Locked, Progress
<1>3. \A w \in Limiters : resetters[w] \subseteq Sides /\ resetters'[w] = resetters[w]
    BY DEF InvB, InvA, TypeOK
<1>4. \A w \in Limiters : On(a, w)' =>
         Locked(a, w)' /\ (Proper(w)' => Progress(a, w)' /\ Entering(a, w)')
    BY <1>1, <1>2
<1>5. t = "raised" => \/ args[at'[a]].kind = "both"
                      \/ \E w \in Limiters : W(a)' = w /\ ~ Proper(w)'
    BY <1>1
<1>6. None \notin Limiters
    BY LimitersAreSome
<1> DEFINE u == None
<1>7. /\ \A w \in Limiters \ {u} : Same(w) /\ (Built(w)' <=> Built(w))
      /\ u \in Limiters =>
            /\ Built(u)' /\ (Proper(u)' => WrapperInv(u)')
            /\ \A b \in Actors \ {a} : On(b, u) /\ Proper(u)' =>
                  Progress(b, u)' /\ Entering(b, u)'
    BY <1>1, <1>6
<1>8. UNCHANGED args /\ lock' = lock /\ rpm' = rpm /\ og' = og
    OBVIOUS
<1> HIDE DEF u
<1>. QED BY <1>3, <1>4, <1>5, <1>7, <1>8, Bystanders

LEMMA AcquireB ==
    ASSUME InvB, NEW a \in Actors, NEW v \in Limiters, NEW k \in Keys \cup {None},
           Acquire(a, v, k)
    PROVE  ResetInv'
<1> DEFINE t == IF impl[v] # None THEN "enter" ELSE "init"
<1>1. /\ pc' = [pc EXCEPT ![a] = t] /\ at' = [at EXCEPT ![a] = v]
      /\ t \in {"enter", "init"}
      /\ UNCHANGED <<maps, wrapper, rpm, og, ghosts>>
    BY DEF Acquire
<1> HIDE DEF t
<1>2. /\ UNCHANGED <<args, closed, kind, hasReset, bucket, lock, og, rpm>>
      /\ UNCHANGED <<claimed, settled, resetters>>
      /\ UNCHANGED <<impl, registry>>
    BY <1>1 DEF maps, wrapper, ghosts
<1>3. pc'[a] = t /\ \A b \in Actors \ {a} : pc'[b] = pc[b] /\ at'[b] = at[b]
    BY <1>1 DEF InvB, InvA, TypeOK
<1>4. \A w \in Limiters : Built(w)' <=> Built(w)
    BY <1>2 DEF Built
<1>5. \A w \in Limiters : Entering(a, w)'
    BY <1>1, <1>3 DEF Entering
<1>6. t \notin Critical \cup {"lock"} /\ t # "raised"
    BY <1>1 DEF Critical, Lowering
<1>. QED BY <1>2, <1>3, <1>4, <1>5, <1>6, Quiet

LEMMA WithLocksB ==
    ASSUME InvB, NEW a \in Actors,
           TakeInitLock(a) \/ TakeMapLock(a) \/ RefuseArguments(a)
    PROVE  ResetInv'
<1>1. PICK s \in CallerStates, t \in {"enter", "map", "make", "link", "raised"} :
         /\ Step(a, s, t) /\ (t = "raised" => args[at[a]].kind = "both")
         /\ UNCHANGED <<args, impl, registry, wrapper, local, ghosts>>
    BY DEF TakeInitLock, TakeMapLock, RefuseArguments, CallerStates
<1>2. /\ UNCHANGED <<args, closed, kind, hasReset, bucket, lock, og, rpm>>
      /\ UNCHANGED <<claimed, settled, resetters>>
      /\ UNCHANGED <<impl, registry>>
    BY <1>1 DEF wrapper, local, ghosts
<1>3. t \in CallerStates /\ t # "idle" /\ t \notin Critical \cup {"lock"}
    BY <1>1 DEF CallerStates, Critical, Lowering
<1>4. /\ pc'[a] = t /\ at'[a] = at[a]
      /\ \A b \in Actors \ {a} : pc'[b] = pc[b] /\ at'[b] = at[b]
    BY <1>1, <1>3, Goes DEF InvB, InvA
<1>5. \A w \in Limiters : Built(w)' <=> Built(w)
    BY <1>2 DEF Built
<1>6. \A w \in Limiters : Entering(a, w)'
    BY <1>1, <1>4 DEF Entering
<1>7. t = "raised" => args[at'[a]].kind = "both"
    BY <1>1, <1>4
<1>. QED BY <1>2, <1>3, <1>4, <1>5, <1>6, <1>7, Quiet

LEMMA LinkB ==
    ASSUME InvB, NEW a \in Actors, Link(a)
    PROVE  ResetInv'
<1>1. /\ Step(a, "link", "enter") /\ "enter" \in CallerStates
      /\ impl' = [impl EXCEPT ![at[a]] = registry[key[a]]]
      /\ UNCHANGED <<args, registry, mapLock, wrapper, rpm, og, calls, ghosts>>
    BY DEF Link, CallerStates
<1>2. /\ UNCHANGED <<args, closed, kind, hasReset, bucket, lock, og, rpm>>
      /\ UNCHANGED <<claimed, settled, resetters, registry>>
    BY <1>1 DEF wrapper, ghosts
<1>3. /\ pc[a] = "link" /\ pc'[a] = "enter"
      /\ \A b \in Actors \ {a} : pc'[b] = pc[b] /\ at'[b] = at[b]
    BY <1>1, Goes DEF InvB, InvA
<1>4. /\ impl \in [Limiters -> Limiters \cup {None}] /\ at[a] \in Limiters
      /\ impl[at[a]] = None /\ key[a] \in Keys
    BY <1>3 DEF InvB, InvA, AcquireInv, Acquiring, TypeOK
<1>5. /\ \A v \in Limiters : impl[v] # None => impl'[v] = impl[v]
      /\ \A v \in Limiters : impl'[v] \in {impl[v], registry[key[a]]}
    BY <1>1, <1>4
<1>6. ASSUME NEW w \in Limiters PROVE Built(w)' <=> Built(w)
    BY <1>2, <1>4, <1>5, LimitersAreSome DEF Built
<1>7. \A w \in Limiters : Entering(a, w)'
    BY <1>3 DEF Entering
<1>8. "enter" \notin Critical \cup {"lock"} /\ "enter" # "raised"
    BY DEF Critical, Lowering
<1>. QED BY <1>2, <1>3, <1>5, <1>6, <1>7, <1>8, Quiet

\* What the invariant says of a caller and of its wrapper.
LEMMA OfCaller ==
    ASSUME InvB, NEW a \in Actors, pc[a] \in Entered
    PROVE  \E w \in Limiters :
              /\ W(a) = w /\ Built(w) /\ On(a, w) /\ Locked(a, w)
              /\ Proper(w) => WrapperInv(w) /\ Progress(a, w) /\ Entering(a, w)
<1>1. PICK w \in Limiters : W(a) = w
    BY OnWrapper DEF InvB
<1>2. On(a, w) /\ Built(w)
    BY <1>1, OnBuilt DEF InvB, On
<1>. QED BY <1>1, <1>2 DEF InvB, ResetInv

LEMMA EnterB ==
    ASSUME InvB, NEW a \in Actors, EnterStep(a)
    PROVE  ResetInv'
<1>1. UNCHANGED <<maps, wrapper, local, ghosts>>
    BY DEF EnterStep, ReadClosed, ReadKind, EnterBucket, Leave, Unchanged
<1>2. /\ UNCHANGED <<args, closed, kind, hasReset, bucket, lock, og, rpm>>
      /\ UNCHANGED <<claimed, settled, resetters, impl, registry>>
    BY <1>1 DEF maps, wrapper, local, ghosts
<1>3. ASSUME NEW s, NEW t \in {"idle", "request", "kind", "minute", "ten", "second", "raised"},
             Step(a, s, t), NEW w,
             t # "idle" => W(a) = w /\ w \in Limiters,
             t \in {"kind", "minute", "ten", "second"} /\ Proper(w) =>
                /\ Enterable(w) /\ (t \in {"minute", "ten"} => kind[w] = "rpm")
                /\ t = "second" => kind[w] = "qps",
             t = "raised" => ~ Proper(w)
      PROVE  ResetInv'
  <2>1. t \in CallerStates /\ t \notin Critical \cup {"lock"}
    BY DEF CallerStates, AwaitStates, Critical, Lowering
  <2>2. /\ pc'[a] = t /\ (t # "idle" => at'[a] = at[a])
        /\ \A b \in Actors \ {a} : pc'[b] = pc[b] /\ at'[b] = at[b]
    BY <1>3, <2>1, Goes DEF InvB, InvA
  <2>3. \A x \in Limiters : Built(x)' <=> Built(x)
    BY <1>2 DEF Built
  <2>4. t # "idle" => W(a)' = w
    BY <1>2, <1>3, <2>2 DEF W
  <2>5. ASSUME NEW x \in Limiters, On(a, x)', Proper(x)
        PROVE  Entering(a, x)'
    <3>1. t # "idle" /\ x = w /\ w \in Limiters
      BY <1>3, <2>2, <2>4, <2>5 DEF On, Entered
    <3>2. Enterable(w) => Enterable(w)'
      BY <1>2 DEF Enterable
    <3>. QED BY <1>2, <1>3, <2>2, <2>5, <3>1, <3>2 DEF Entering
  <2>6. t = "raised" => \E x \in Limiters : W(a)' = x /\ ~ Proper(x)
    BY <1>3, <2>4
  <2>. QED BY <1>2, <2>1, <2>2, <2>3, <2>5, <2>6, Quiet
<1>4. ASSUME ReadClosed(a) PROVE ResetInv'
  <2>1. pc[a] = "enter"
    BY <1>4 DEF ReadClosed, Step
  <2>2. PICK w \in Limiters : /\ W(a) = w
                              /\ Proper(w) => WrapperInv(w)
    BY <2>1, OfCaller DEF Entered, CallerStates
  <2>3. CASE closed[w]
    BY <1>3, <1>4, <2>2, <2>3 DEF ReadClosed
  <2>4. CASE ~ closed[w]
    <3>1. Proper(w) => Enterable(w)
      BY <2>2, <2>4 DEF WrapperInv
    <3>2. Step(a, "enter", "kind")
      BY <1>4, <2>2, <2>4 DEF ReadClosed
    <3>. QED BY <1>3, <2>2, <3>1, <3>2
  <2>. QED BY <2>3, <2>4
<1>5. ASSUME ReadKind(a) PROVE ResetInv'
  <2>1. pc[a] = "kind"
    BY <1>5 DEF ReadKind, Step
  <2>2. PICK w \in Limiters : /\ W(a) = w
                              /\ Proper(w) => Entering(a, w)
    BY <2>1, OfCaller DEF Entered, CallerStates
  <2>3. Proper(w) => Enterable(w)
    BY <2>1, <2>2 DEF Entering
  <2>4. kind[w] \in {"rpm", "qps", "unset"} /\ (Proper(w) => kind[w] \in {"rpm", "qps"})
    BY <2>3 DEF InvB, InvA, TypeOK, Kinds, Enterable
  <2>5. CASE kind[w] = "unset"
    <3>1. Step(a, "kind", "raised") /\ ~ Proper(w)
      BY <1>5, <2>2, <2>4, <2>5 DEF ReadKind
    <3>. QED BY <1>3, <2>2, <3>1
  <2>6. CASE kind[w] = "rpm"
    <3>1. Step(a, "kind", "minute")
      BY <1>5, <2>2, <2>6 DEF ReadKind
    <3>. QED BY <1>3, <2>2, <2>3, <2>6, <3>1
  <2>7. CASE kind[w] = "qps"
    <3>1. Step(a, "kind", "second")
      BY <1>5, <2>2, <2>7 DEF ReadKind
    <3>. QED BY <1>3, <2>2, <2>3, <2>7, <3>1
  <2>. QED BY <2>4, <2>5, <2>6, <2>7
<1>6. ASSUME NEW b \in Buckets, EnterBucket(a, b) PROVE ResetInv'
  <2>1. pc[a] = b /\ b \in {"minute", "ten", "second"}
    BY <1>6 DEF EnterBucket, Step, Buckets
  <2>2. PICK w \in Limiters : /\ W(a) = w
                              /\ Proper(w) => Entering(a, w)
    BY <2>1, OfCaller DEF Entered, CallerStates, AwaitStates
  <2>3. Proper(w) => Enterable(w) /\ kind[w] = IF b = "second" THEN "qps" ELSE "rpm"
    BY <2>1, <2>2 DEF Entering
  <2>4. Proper(w) => bucket[w][b] # Missing
    BY <2>1, <2>3 DEF Enterable, BucketsOf
  <2>5. CASE bucket[w][b] = Missing
    <3>1. Step(a, b, "raised") /\ ~ Proper(w)
      BY <1>6, <2>2, <2>4, <2>5 DEF EnterBucket
    <3>. QED BY <1>3, <2>2, <3>1
  <2>6. CASE bucket[w][b] # Missing /\ b = "minute"
    <3>1. Step(a, b, "ten")
      BY <1>6, <2>2, <2>6 DEF EnterBucket
    <3>2. Proper(w) => Enterable(w) /\ kind[w] = "rpm"
      BY <2>3, <2>6
    <3>. QED BY <1>3, <2>2, <3>1, <3>2
  <2>7. CASE bucket[w][b] # Missing /\ b # "minute"
    <3>1. Step(a, b, "request")
      BY <1>6, <2>2, <2>7 DEF EnterBucket
    <3>. QED BY <1>3, <2>2, <3>1
  <2>. QED BY <2>5, <2>6, <2>7
<1>7. ASSUME Leave(a) PROVE ResetInv'
  <2>1. PICK s \in {"request", "raised"} : Step(a, s, "idle")
    BY <1>7 DEF Leave
  <2>. QED BY <1>3, <2>1
<1>. QED BY <1>4, <1>5, <1>6, <1>7 DEF EnterStep

LEMMA BeginResetB ==
    ASSUME InvB, NEW a \in Actors, NEW r \in Reported, BeginReset(a, r)
    PROVE  ResetInv'
<1> DEFINE t == IF hasReset[W(a)] THEN "idle" ELSE "lock"
<1>1. /\ Step(a, "request", t) /\ t \in {"idle", "lock"} /\ t \in CallerStates
      /\ rpm' = [rpm EXCEPT ![a] = IF hasReset[W(a)] THEN @ ELSE r]
      /\ resetters' = IF t = "idle" THEN resetters
                      ELSE [resetters EXCEPT ![W(a)] = @ \cup {Side(a)}]
      /\ UNCHANGED <<maps, wrapper, key, og, calls, claimed, settled>>
    BY DEF BeginReset, CallerStates, AwaitStates
<1> HIDE DEF t
<1>2. /\ UNCHANGED <<args, closed, kind, hasReset, bucket, lock, og>>
      /\ UNCHANGED <<claimed, settled, impl, registry>>
    BY <1>1 DEF maps, wrapper
<1>3. /\ pc[a] = "request" /\ pc'[a] = t /\ (t # "idle" => at'[a] = at[a])
      /\ \A b \in Actors \ {a} : pc'[b] = pc[b] /\ at'[b] = at[b]
    BY <1>1, Goes DEF InvB, InvA
<1>4. PICK w \in Limiters : W(a) = w /\ Built(w)
    BY <1>3, OfCaller DEF Entered, CallerStates, AwaitStates
<1>5. /\ \A b \in Actors \ {a} : rpm'[b] = rpm[b]
      /\ resetters \in [Limiters -> SUBSET Sides]
    BY <1>1 DEF InvB, InvA, TypeOK
<1>6. Side(a) \in Sides
    BY DEF Side, Sides
<1>7. /\ \A x \in Limiters : x # w => resetters'[x] = resetters[x]
      /\ resetters'[w] \in SUBSET Sides /\ resetters[w] \subseteq resetters'[w]
      /\ t = "lock" => Side(a) \in resetters'[w]
    BY <1>1, <1>4, <1>5, <1>6
<1>8. \A x \in Limiters : /\ resetters[x] \subseteq resetters'[x]
                          /\ resetters'[x] \subseteq Sides
                          /\ ~ Built(x) => resetters'[x] = resetters[x]
    BY <1>4, <1>5, <1>7
<1>9. \A x \in Limiters : Same(x) /\ (Built(x)' <=> Built(x))
    BY <1>2 DEF Same, Built
<1>10. ASSUME NEW x \in Limiters, On(a, x)'
       PROVE  Locked(a, x)' /\ Progress(a, x)' /\ Entering(a, x)'
  <2>1. t = "lock" /\ x = w
    BY <1>1, <1>2, <1>3, <1>4, <1>10 DEF On, W, Entered
  <2>2. Locked(a, x)'
    BY <1>3, <1>7, <2>1 DEF Locked, Critical, Lowering, Side
  <2>. QED BY <1>3, <2>1, <2>2 DEF Progress, Entering, Critical, Lowering
<1>11. None \notin Limiters /\ t # "raised" /\ UNCHANGED args
    BY <1>1, <1>2, LimitersAreSome
<1> DEFINE u == None
<1>12. /\ \A x \in Limiters \ {u} : Same(x) /\ (Built(x)' <=> Built(x))
       /\ u \in Limiters =>
             /\ Built(u)' /\ (Proper(u)' => WrapperInv(u)')
             /\ \A b \in Actors \ {a} : On(b, u) /\ Proper(u)' =>
                   Progress(b, u)' /\ Entering(b, u)'
    BY <1>9, <1>11
<1> HIDE DEF u
<1>. QED BY <1>2, <1>3, <1>5, <1>8, <1>10, <1>11, <1>12, Bystanders

\* A reset lock changes hands: the other one, and those of other wrappers, do not.
Hands(w, s, x) == lock' = [lock EXCEPT ![w][s] = x]

LEMMA OtherLocks ==
    ASSUME TypeOK, NEW w \in Limiters, NEW s \in Sides, NEW x, Hands(w, s, x)
    PROVE  /\ lock'[w][s] = x
           /\ \A v \in Limiters, r \in Sides :
                 v # w \/ r # s => lock'[v][r] = lock[v][r]
<1>1. lock \in [Limiters -> [Sides -> Actors \cup {None}]]
    BY DEF TypeOK
<1>2. lock' = [lock EXCEPT ![w] = [lock[w] EXCEPT ![s] = x]]
    BY DEF Hands
<1>. QED BY <1>1, <1>2

LEMMA TakeLockB ==
    ASSUME InvB, NEW a \in Actors, TakeLock(a)
    PROVE  ResetInv'
<1> DEFINE t == IF Late(a) THEN "idle" ELSE "claim"
<1>1. /\ Step(a, "lock", t) /\ t \in {"idle", "claim"} /\ t \in CallerStates
      /\ lock[W(a)][Side(a)] = None
      /\ lock' = [lock EXCEPT ![W(a)][Side(a)] = IF Late(a) THEN None ELSE a]
      /\ t = "claim" => ~ hasReset[W(a)]
      /\ UNCHANGED <<maps, closed, kind, hasReset, bucket, local, ghosts>>
    BY DEF TakeLock, CallerStates, AwaitStates, Late
<1>2. t = "claim" <=> ~ Late(a)
    OBVIOUS
<1> HIDE DEF t
<1>3. /\ UNCHANGED <<args, closed, kind, hasReset, bucket, og, rpm>>
      /\ UNCHANGED <<claimed, settled, resetters, impl, registry>>
    BY <1>1 DEF maps, local, ghosts
<1>4. /\ pc[a] = "lock" /\ pc'[a] = t /\ (t # "idle" => at'[a] = at[a])
      /\ \A b \in Actors \ {a} : pc'[b] = pc[b] /\ at'[b] = at[b]
    BY <1>1, Goes DEF InvB, InvA
<1>5. PICK w \in Limiters : W(a) = w /\ Locked(a, w)
    BY <1>4, OfCaller DEF Entered, CallerStates, AwaitStates
<1>6. Side(a) \in Sides /\ Side(a) \in resetters[w]
    BY <1>4, <1>5 DEF Side, Sides, Locked
<1>. PICK x \in Actors \cup {None} : x = IF Late(a) THEN None ELSE a
    OBVIOUS
<1>7. /\ lock'[w][Side(a)] = x
      /\ \A v \in Limiters, r \in Sides : v # w \/ r # Side(a) => lock'[v][r] = lock[v][r]
  <2>1. Hands(w, Side(a), x)
    BY <1>1, <1>5 DEF Hands
  <2>. QED BY <1>6, <2>1, OtherLocks DEF InvB, InvA
<1>8. ASSUME NEW b \in Actors \ {a}, NEW v \in Limiters, On(b, v), pc[b] \in Critical
      PROVE  lock'[v][Side(b)] = lock[v][Side(b)]
  <2>1. lock[v][Side(b)] = b /\ b # None /\ Side(b) \in Sides
    BY <1>8, WrapperAssumption DEF InvB, ResetInv, Locked, Side, Sides
  <2>. QED BY <1>1, <1>5, <1>7, <2>1
<1>9. \A v \in Limiters : Same(v) /\ (Built(v)' <=> Built(v))
    BY <1>3 DEF Same, Built
<1>10. ASSUME NEW v \in Limiters, On(a, v)'
       PROVE  Locked(a, v)' /\ Progress(a, v)' /\ Entering(a, v)'
  <2>1. t = "claim" /\ v = w
    BY <1>1, <1>3, <1>4, <1>5, <1>10 DEF On, W, Entered
  <2>2. lock'[w][Side(a)] = a
    BY <1>2, <1>7, <2>1
  <2>3. Locked(a, v)'
    BY <1>3, <1>4, <1>6, <2>1, <2>2 DEF Locked, Side
  <2>4. ~ hasReset'[w]
    BY <1>1, <1>3, <1>5, <2>1
  <2>. QED BY <1>4, <2>1, <2>3, <2>4 DEF Progress, Entering, Critical, Lowering
<1>11. None \notin Limiters /\ t # "raised" /\ UNCHANGED args
    BY <1>1, <1>3, LimitersAreSome
<1> DEFINE u == None
<1>12. /\ \A v \in Limiters \ {u} : Same(v) /\ (Built(v)' <=> Built(v))
       /\ u \in Limiters =>
             /\ Built(u)' /\ (Proper(u)' => WrapperInv(u)')
             /\ \A b \in Actors \ {a} : On(b, u) /\ Proper(u)' =>
                   Progress(b, u)' /\ Entering(b, u)'
    BY <1>9, <1>11
<1>13. \A v \in Limiters : resetters[v] \subseteq Sides /\ resetters'[v] = resetters[v]
    BY <1>3 DEF InvB, InvA, TypeOK
<1> HIDE DEF u
<1>. QED BY <1>3, <1>4, <1>8, <1>10, <1>11, <1>12, <1>13, Bystanders

\* What the constructor builds is as AsBuilt says, and can be entered if it is open.
LEMMA BuildsIt ==
    ASSUME TypeOK, NEW v \in Limiters, args[v].kind # "both", ~ args[v].full,
           Build(v), UNCHANGED args
    PROVE  AsBuilt(v)' /\ hasReset'[v] = args[v].off /\ (~ closed'[v] => Enterable(v)')
<1> DEFINE shut == args[v].off \/ args[v].kind = "none"
           made == IF shut THEN {} ELSE BucketsOf(args[v].kind)
<1>1. /\ args[v].kind \in {"rpm", "qps", "none"} /\ args[v].rate \in Nat
      /\ args[v].off \in BOOLEAN
    BY Arguments DEF Kinds
<1>2. ~ shut => made # {}
    BY <1>1 DEF BucketsOf
<1>3. /\ closed' = [closed EXCEPT ![v] = shut]
      /\ kind' = [kind EXCEPT ![v] = IF made = {} THEN "unset" ELSE args[v].kind]
      /\ hasReset' = [hasReset EXCEPT ![v] = args[v].off]
      /\ bucket' = [bucket EXCEPT ![v] =
             [b \in Buckets |-> IF b \in made THEN Rate(args[v].rate) ELSE Missing]]
    BY DEF Build
<1>4. /\ closed'[v] = shut /\ hasReset'[v] = args[v].off
      /\ kind'[v] = IF shut THEN "unset" ELSE args[v].kind
      /\ \A b \in Buckets :
            bucket'[v][b] = IF b \in made THEN Rate(args[v].rate) ELSE Missing
    BY <1>2, <1>3 DEF TypeOK
<1>5. AsBuilt(v)'
    BY <1>4 DEF AsBuilt, Fresh
<1>6. Rate(args[v].rate) # Missing
  <2>1. Rate(args[v].rate)["sync"] = args[v].rate /\ Missing["sync"] = -1
    BY DEF Rate, Missing, Sides
  <2>. QED BY <1>1, <2>1
<1>7. ASSUME ~ closed'[v] PROVE Enterable(v)'
    BY <1>1, <1>4, <1>6, <1>7 DEF Enterable, Kinds, BucketsOf, Buckets
<1>. QED BY <1>4, <1>5, <1>7

LEMMA MakeWrapperB ==
    ASSUME InvB, NEW a \in Actors, MakeWrapper(a)
    PROVE  ResetInv'
<1> DEFINE t == IF key[a] = None THEN "enter" ELSE "link"
<1>1. PICK v \in Limiters : v = at[a] /\ impl[v] = None /\ initLock[v] = a
  <2>1. pc[a] = "make"
    BY DEF MakeWrapper
  <2>. QED BY <2>1 DEF InvB, InvA, AcquireInv, Acquiring, TypeOK
<1>2. /\ args[v].kind # "both" /\ Build(v) /\ Step(a, "make", t)
      /\ UNCHANGED <<args, linkedBy, local, ghosts>>
      /\ t \in {"enter", "link"} /\ t \in CallerStates
    BY <1>1 DEF MakeWrapper, CallerStates, AwaitStates
<1>3. /\ key[a] = None => impl' = [impl EXCEPT ![v] = v] /\ registry' = registry
      /\ key[a] # None => impl' = impl /\ registry' = [registry EXCEPT ![key[a]] = v]
    BY <1>1 DEF MakeWrapper
<1> HIDE DEF t
<1>4. UNCHANGED <<rpm, og, resetters, claimed, settled>>
    BY <1>2 DEF local, ghosts
<1>5. /\ pc[a] = "make" /\ pc'[a] = t /\ at'[a] = v
      /\ \A b \in Actors \ {a} : pc'[b] = pc[b] /\ at'[b] = at[b]
    BY <1>1, <1>2, Goes DEF InvB, InvA
<1>6. ~ Built(v)
  <2>1. \A b \in Actors : pc[b] = "link" => at[b] # v
    BY <1>1, <1>5 DEF InvB, InvA, AcquireInv, Acquiring
  <2>. QED BY <1>1, <2>1 DEF InvB, InvA, AcquireInv
<1>7. claimed[v] = <<>> /\ v \notin settled
    BY <1>6 DEF InvB, ResetInv, Untouched
<1>8. /\ impl \in [Limiters -> Limiters \cup {None}]
      /\ registry \in [Keys -> Limiters \cup {None}]
      /\ key[a] # None => key[a] \in Keys /\ registry[key[a]] = None
    BY <1>5 DEF InvB, InvA, AcquireInv, TypeOK
<1>9. Built(v)' /\ \A w \in Limiters \ {v} : Built(w)' <=> Built(w)
  <2>1. CASE key[a] = None
    <3>1. impl'[v] = v /\ \A x \in Limiters : x # v => impl'[x] = impl[x]
      BY <1>3, <1>8, <2>1
    <3>. QED BY <1>1, <1>3, <2>1, <3>1, LimitersAreSome DEF Built
  <2>2. CASE key[a] # None
    <3>1. /\ registry'[key[a]] = v
          /\ \A k \in Keys : k # key[a] => registry'[k] = registry[k]
      BY <1>3, <1>8, <2>2
    <3>. QED BY <1>3, <1>8, <2>2, <3>1, LimitersAreSome DEF Built
  <2>. QED BY <2>1, <2>2
<1>10. ASSUME NEW w \in Limiters \ {v} PROVE Same(w) /\ lock'[w] = lock[w]
    BY <1>2, <1>4 DEF Same, Build, InvB, InvA, TypeOK
<1>11. ASSUME Proper(v)' PROVE WrapperInv(v)'
  <2>1. ~ args[v].full
    BY <1>2, <1>11 DEF Proper
  <2>2. AsBuilt(v)' /\ hasReset'[v] = args[v].off /\ (~ closed'[v] => Enterable(v)')
    BY <1>2, <2>1, BuildsIt DEF InvB, InvA
  <2>3. claimed'[v] = <<>> /\ v \notin settled' /\ args' = args
    BY <1>2, <1>4, <1>7
  <2>. QED BY <1>2, <2>2, <2>3 DEF WrapperInv
<1>12. \A b \in Actors : ~ On(b, v)
    BY <1>6, OnBuilt DEF InvB
<1>13. \A b \in Actors \ {a}, w \in Limiters : On(b, w) /\ pc[b] \in Critical =>
                  lock'[w][Side(b)] = lock[w][Side(b)]
    BY <1>10, <1>12
<1>14. /\ t \notin Critical \cup {"lock", "raised", "claim", "decide"} /\ t \notin Lowering
       /\ t \notin {"setKind", "makeTen", "makeMinute", "lowerTen", "lowerMinute",
                    "lowerSecond", "open"}
    BY <1>2 DEF Critical, Lowering
<1>15. \A w \in Limiters : Locked(a, w)' /\ Progress(a, w)' /\ Entering(a, w)'
    BY <1>2, <1>5, <1>14 DEF Locked, Progress, Entering
<1>16. \A w \in Limiters : resetters[w] \subseteq Sides /\ resetters'[w] = resetters[w]
    BY <1>4 DEF InvB, InvA, TypeOK
<1>17. \A x \in Limiters : impl[x] # None => impl'[x] = impl[x]
    BY <1>1, <1>3, <1>8
<1>18. UNCHANGED args /\ rpm' = rpm /\ og' = og
    BY <1>2, <1>4
<1>. QED BY <1>5, <1>9, <1>10, <1>11, <1>12, <1>13, <1>14, <1>15, <1>16, <1>17, <1>18,
            Bystanders

\* Where no reset is under way nothing of it is to be shown.
LEMMA Elsewhere ==
    /\ \A s : s \notin Critical =>
          /\ s \notin Lowering /\ s \notin {"claim", "decide"}
          /\ s \notin {"setKind", "makeTen", "makeMinute", "lowerTen", "lowerMinute",
                       "lowerSecond", "open"}
    /\ \A s \in Critical :
          s \notin {"kind", "minute", "ten", "second", "lock", "idle", "raised", "enter"}
    /\ Critical \subseteq Entered
BY DEF Critical, Lowering, Entered, CallerStates, AwaitStates

\* A step inside a reset of wrapper w: only its caller resets w, for the lock of its
\* side is taken and the other side does not use it.
LEMMA CriticalStep ==
    ASSUME InvB, NEW a \in Actors, NEW w \in Limiters, W(a) = w,
           pc[a] \in Critical, NEW t \in Critical \cup {"raised", "idle"},
           pc'[a] = t, t # "idle" => at'[a] = at[a],
           \A b \in Actors \ {a} : /\ pc'[b] = pc[b] /\ at'[b] = at[b]
                                   /\ rpm'[b] = rpm[b] /\ og'[b] = og[b],
           UNCHANGED <<args, impl, registry, resetters>>,
           \A v \in Limiters \ {w} : Same(v),
           \/ UNCHANGED lock
           \/ Hands(w, Side(a), None) /\ t = "idle",
           Proper(w) =>
              /\ WrapperInv(w)' /\ t # "raised"
              /\ t \in Critical => Progress(a, w)'
              /\ Enterable(w) => Enterable(w)' /\ kind'[w] = kind[w]
    PROVE  ResetInv'
<1>1. TypeOK /\ AcquireInv /\ ResetInv
    BY DEF InvB, InvA
<1>2. pc[a] \in Entered
    BY Elsewhere
<1>3. On(a, w) /\ Built(w) /\ Locked(a, w)
    BY <1>2, OfCaller
<1>4. lock[w][Side(a)] = a /\ Side(a) \in resetters[w] /\ Side(a) \in Sides
    BY <1>3 DEF Locked, Side, Sides
<1>5. \A v \in Limiters : (Built(v)' <=> Built(v)) /\ (Proper(v)' <=> Proper(v))
    BY DEF Built, Proper, OneSide
<1>6. ASSUME NEW b \in Actors \ {a}, NEW v \in Limiters, On(b, v), pc[b] \in Critical
      PROVE  lock'[v][Side(b)] = lock[v][Side(b)]
  <2>1. lock[v][Side(b)] = b /\ Side(b) \in Sides
    BY <1>1, <1>6 DEF ResetInv, Locked, Side, Sides
  <2>2. v # w \/ Side(b) # Side(a)
    BY <1>4, <2>1
  <2>3. CASE Hands(w, Side(a), None)
    BY <1>1, <1>4, <2>1, <2>2, <2>3, OtherLocks
  <2>. QED BY <2>3
<1>7. ASSUME NEW b \in Actors \ {a}, On(b, w), Proper(w)
      PROVE  Progress(b, w)' /\ Entering(b, w)'
  <2>1. Locked(b, w) /\ Entering(b, w) /\ Side(b) \in Sides
    BY <1>1, <1>7 DEF ResetInv, Side, Sides
  <2>2. Side(b) \in resetters[w] => Side(b) = Side(a)
    <3>1. resetters[w] # Sides /\ resetters[w] \subseteq Sides
      BY <1>1, <1>7 DEF Proper, OneSide, TypeOK
    <3>. QED BY <1>4, <2>1, <3>1 DEF Sides
  <2>3. pc'[b] = pc[b] /\ pc[b] \notin Critical
    BY <1>4, <2>1, <2>2 DEF Locked
  <2>4. Progress(b, w)'
    BY <2>3, Elsewhere DEF Progress
  <2>5. Entering(b, w)'
    <3>1. Enterable(w) => Enterable(w)' /\ kind'[w] = kind[w]
      BY <1>7
    <3>2. pc[b] \in {"kind", "minute", "ten", "second"} => Enterable(w)
      BY <2>1 DEF Entering
    <3>3. /\ pc[b] \in {"minute", "ten"} => kind[w] = "rpm"
          /\ pc[b] = "second" => kind[w] = "qps"
      BY <2>1 DEF Entering
    <3>. QED BY <2>3, <3>1, <3>2, <3>3 DEF Entering
  <2>. QED BY <2>4, <2>5
<1>8. ASSUME NEW v \in Limiters, On(a, v)'
      PROVE  Locked(a, v)' /\ (Proper(v)' => Progress(a, v)' /\ Entering(a, v)')
  <2>1. t \in Critical /\ v = w
    BY <1>8 DEF On, W, Entered
  <2>2. lock' = lock
    BY <2>1, Elsewhere
  <2>3. Locked(a, w)'
    BY <1>4, <2>2 DEF Locked, Side
  <2>4. Entering(a, w)'
    BY <2>1, Elsewhere DEF Entering
  <2>. QED BY <1>5, <2>1, <2>3, <2>4
<1>9. t = "raised" => \E v \in Limiters : W(a)' = v /\ ~ Proper(v)'
    BY <1>5 DEF W
<1>10. \A v \in Limiters : resetters[v] \subseteq Sides /\ resetters'[v] = resetters[v]
    BY <1>1 DEF TypeOK
<1>11. /\ \A v \in Limiters : impl'[v] = impl[v]
       /\ UNCHANGED args /\ pc'[a] = t
    OBVIOUS
<1>12. Built(w)' /\ (Proper(w)' => WrapperInv(w)')
    BY <1>3, <1>5
<1>13. \A b \in Actors \ {a} : On(b, w) /\ Proper(w)' => Progress(b, w)' /\ Entering(b, w)'
    BY <1>5, <1>7
<1>. QED BY <1>5, <1>6, <1>8, <1>9, <1>10, <1>11, <1>12, <1>13, Bystanders

\* A bucket that has a rate is not missing.
LEMMA RateIsSome ==
    /\ \A r \in Nat : Rate(r) # Missing
    /\ \A r : \A s \in Sides : Rate(r)[s] = r
<1>1. \A r : Rate(r)["sync"] = r /\ Missing["sync"] = -1
    BY DEF Rate, Missing, Sides
<1>. QED BY <1>1 DEF Rate

LEMMA ClaimB ==
    ASSUME InvB, NEW a \in Actors, Claim(a)
    PROVE  ResetInv'
<1> DEFINE keep == Og(W(a)) # 0 /\ Og(W(a)) <= rpm[a]
           t == IF keep THEN "idle" ELSE "decide"
<1>1. /\ Step(a, "claim", t) /\ t \in {"idle", "decide"} /\ t \in CallerStates
      /\ hasReset' = [hasReset EXCEPT ![W(a)] = TRUE]
      /\ claimed' = [claimed EXCEPT
             ![W(a)] = Append(@, [side |-> Side(a), rate |-> rpm[a]])]
      /\ og' = [og EXCEPT ![a] = IF keep THEN 0 ELSE Og(W(a))]
      /\ UNCHANGED <<maps, closed, kind, bucket, key, rpm, calls, resetters>>
    BY DEF Claim, CallerStates, AwaitStates
<1>2. /\ keep => t = "idle" /\ Hands(W(a), Side(a), None) /\ settled' = settled \cup {W(a)}
      /\ ~ keep => t = "decide" /\ UNCHANGED <<lock, settled>>
    BY DEF Claim, LetGo, Settle, Hands
<1>3. TypeOK /\ Critical \subseteq Entered /\ {"claim", "decide"} \subseteq Critical
    BY Elsewhere DEF InvB, InvA, Critical
<1> HIDE DEF t
<1>4. /\ pc[a] = "claim" /\ pc'[a] = t /\ (t # "idle" => at'[a] = at[a])
      /\ \A b \in Actors \ {a} : pc'[b] = pc[b] /\ at'[b] = at[b]
    BY <1>1, <1>3, Goes
<1>5. PICK w \in Limiters :
         W(a) = w /\ (Proper(w) => WrapperInv(w) /\ Progress(a, w))
    BY <1>3, <1>4, OfCaller
<1>6. UNCHANGED <<args, impl, registry, closed, kind, bucket, rpm, resetters>>
    BY <1>1 DEF maps
<1>7. /\ hasReset'[w] = TRUE /\ og'[a] = IF keep THEN 0 ELSE Og(w)
      /\ claimed'[w] = Append(claimed[w], [side |-> Side(a), rate |-> rpm[a]])
      /\ \A v \in Limiters \ {w} : hasReset'[v] = hasReset[v] /\ claimed'[v] = claimed[v]
      /\ \A b \in Actors \ {a} : og'[b] = og[b]
    BY <1>1, <1>3, <1>5 DEF TypeOK
<1>8. \A v \in Limiters \ {w} : Same(v)
    BY <1>2, <1>5, <1>6, <1>7 DEF Same
<1>9. ASSUME Proper(w)
      PROVE  /\ WrapperInv(w)' /\ (t = "decide" => Progress(a, w)')
             /\ Enterable(w) => Enterable(w)'
  <2>1. ~ hasReset[w] /\ WrapperInv(w)
    BY <1>4, <1>5, <1>9 DEF Progress
  <2>2. /\ args[w].kind # "both" /\ ~ args[w].off /\ claimed[w] = <<>> /\ AsBuilt(w)
        /\ w \notin settled /\ (~ closed[w] => Enterable(w))
    BY <2>1 DEF WrapperInv
  <2>3. /\ claimed'[w] # <<>> /\ Len(claimed'[w]) = 1
        /\ Head(claimed'[w]) = [side |-> Side(a), rate |-> rpm[a]]
    BY <1>7, <2>2
  <2>4. /\ (closed[w] <=> Fresh(w)) /\ (~ Fresh(w) => kind[w] = args[w].kind)
        /\ args[w].kind \in Kinds \cup {"none"} /\ args[w].rate \in Nat
        /\ ~ Fresh(w) => args[w].rate > 0 /\ args[w].kind \in Kinds
        /\ rpm[a] \in Int
    BY <1>3, <2>2, Arguments DEF AsBuilt, Fresh, TypeOK
  <2>5. Og(w) = IF Fresh(w) THEN 0 ELSE args[w].rate
    BY <2>4 DEF Og
  <2>6. Enterable(w) => Enterable(w)'
    BY <1>6 DEF Enterable
  <2>7. AsBuilt(w)' /\ (Fresh(w)' <=> Fresh(w))
    BY <1>6, <2>2 DEF AsBuilt, Fresh
  <2>8. t = "decide" => Progress(a, w)'
    <3>1. /\ "decide" \notin Lowering
          /\ "decide" \notin {"claim", "setKind", "makeTen", "makeMinute", "lowerTen",
                              "lowerMinute", "lowerSecond", "open"}
      BY DEF Lowering
    <3>2. t = "decide" => settled' = settled /\ og'[a] = Og(w)
      BY <1>2, <1>7
    <3>. QED BY <1>4, <1>6, <2>2, <2>3, <2>5, <2>7, <3>1, <3>2 DEF Progress
  <2>9. ASSUME keep PROVE InForce(w)'
    <3>1. ~ Fresh(w) /\ args[w].rate <= rpm[a] /\ args[w].rate > 0
      BY <1>5, <2>4, <2>5, <2>9
    <3>2. Target(w, rpm[a]) = args[w].rate
      BY <2>4, <3>1 DEF Target, Lesser, Fresh
    <3>3. \A b \in BucketsOf(kind[w]) : bucket[w][b] = Rate(args[w].rate)
      BY <2>2, <2>4, <3>1 DEF AsBuilt, BucketsOf, Buckets
    <3>4. \A b \in BucketsOf(kind[w]), s \in Sides : bucket[w][b][s] = args[w].rate
      BY <3>3, RateIsSome
    <3>5. ~ closed[w] /\ kind[w] = args[w].kind /\ args[w].kind # "none"
      BY <2>4, <3>1 DEF Fresh
    <3>. QED BY <1>6, <2>3, <3>1, <3>2, <3>4, <3>5 DEF InForce, Target
  <2>10. w \in settled' => keep
    BY <1>2, <2>2
  <2>. QED BY <1>6, <1>7, <2>2, <2>3, <2>6, <2>7, <2>8, <2>9, <2>10 DEF WrapperInv
<1>10. \/ UNCHANGED lock
       \/ Hands(w, Side(a), None) /\ t = "idle"
    BY <1>2, <1>5
<1>11. t \in Critical \cup {"raised", "idle"} /\ t # "raised" /\ (t \in Critical => t = "decide")
    BY <1>1, <1>3, Elsewhere
<1>. QED BY <1>3, <1>4, <1>5, <1>6, <1>7, <1>8, <1>9, <1>10, <1>11, CriticalStep

LEMMA DecideB ==
    ASSUME InvB, NEW a \in Actors, Decide(a)
    PROVE  ResetInv'
<1> DEFINE new == Usable(IF closed[W(a)] THEN rpm[a] ELSE Lesser(rpm[a], og[a]))
           t == IF new = 0 THEN "idle" ELSE "setKind"
<1>1. /\ Step(a, "decide", t) /\ t \in {"idle", "setKind"} /\ t \in CallerStates
      /\ rpm' = [rpm EXCEPT ![a] = new] /\ og' = [og EXCEPT ![a] = 0]
      /\ UNCHANGED <<maps, kind, hasReset, bucket, key, calls, resetters, claimed>>
    BY DEF Decide, CallerStates, AwaitStates
<1>2. /\ new = 0 => /\ t = "idle" /\ Hands(W(a), Side(a), None)
                    /\ closed' = [closed EXCEPT ![W(a)] = TRUE]
                    /\ settled' = settled \cup {W(a)}
      /\ new # 0 => t = "setKind" /\ UNCHANGED <<closed, lock, settled>>
    BY DEF Decide, LetGo, Settle, Hands
<1>3. TypeOK /\ Critical \subseteq Entered /\ {"decide", "setKind"} \subseteq Critical
    BY Elsewhere DEF InvB, InvA, Critical, Lowering
<1> HIDE DEF t
<1>4. /\ pc[a] = "decide" /\ pc'[a] = t /\ (t # "idle" => at'[a] = at[a])
      /\ \A b \in Actors \ {a} : pc'[b] = pc[b] /\ at'[b] = at[b]
    BY <1>1, <1>3, Goes
<1>5. PICK w \in Limiters :
         W(a) = w /\ (Proper(w) => WrapperInv(w) /\ Progress(a, w))
    BY <1>3, <1>4, OfCaller
<1>6. UNCHANGED <<args, impl, registry, kind, hasReset, bucket, resetters, claimed>>
    BY <1>1 DEF maps
<1>7. new = Usable(IF closed[w] THEN rpm[a] ELSE Lesser(rpm[a], og[a]))
    BY <1>5
<1> HIDE DEF new
<1>8. /\ rpm'[a] = new /\ (new = 0 => closed'[w] = TRUE)
      /\ \A v \in Limiters \ {w} : closed'[v] = closed[v]
      /\ \A b \in Actors \ {a} : rpm'[b] = rpm[b] /\ og'[b] = og[b]
    BY <1>1, <1>2, <1>3, <1>5 DEF TypeOK
<1>9. \A v \in Limiters \ {w} : Same(v)
    BY <1>2, <1>5, <1>6, <1>8 DEF Same
<1>10. ASSUME Proper(w)
       PROVE  /\ WrapperInv(w)' /\ (t = "setKind" => Progress(a, w)')
              /\ Enterable(w) => Enterable(w)'
  <2>1. Progress(a, w) /\ WrapperInv(w)
    BY <1>5, <1>10
  <2>2. /\ Len(claimed[w]) = 1 /\ Head(claimed[w]).side = Side(a)
        /\ w \notin settled /\ ~ args[w].off /\ AsBuilt(w)
        /\ rpm[a] = Head(claimed[w]).rate
        /\ og[a] = IF Fresh(w) THEN 0 ELSE args[w].rate
    BY <1>3, <1>4, <2>1 DEF Progress
  <2>3. /\ args[w].kind # "both" /\ hasReset[w] /\ claimed[w] # <<>>
        /\ ~ closed[w] => Enterable(w)
    BY <2>1, <2>2 DEF WrapperInv
  <2>4. (closed[w] <=> Fresh(w)) /\ rpm[a] \in Int /\ args[w].rate \in Nat
    BY <1>3, <2>2, Arguments DEF AsBuilt, TypeOK
  <2>5. new = Goal(w)
    BY <1>7, <2>2, <2>4 DEF Usable, Lesser, Goal, Target, Fresh
  <2>6. Goal(w)' = Goal(w) /\ (Enterable(w) => Enterable(w)')
    BY <1>6 DEF Goal, Target, Enterable
  <2>7. CASE new = 0
    <3>1. t = "idle" /\ closed'[w] = TRUE
      BY <1>2, <1>8, <2>7
    <3>2. Target(w, Head(claimed[w]).rate) = 0
      BY <2>5, <2>7 DEF Goal
    <3>3. InForce(w)'
      BY <1>6, <3>1, <3>2 DEF InForce, Target
    <3>. QED BY <1>6, <2>2, <2>3, <2>6, <3>1, <3>3 DEF WrapperInv
  <2>8. CASE new # 0
    <3>1. t = "setKind" /\ UNCHANGED <<closed, settled>>
      BY <1>2, <2>8
    <3>2. AsBuilt(w)'
      BY <1>6, <2>2, <3>1 DEF AsBuilt, Fresh
    <3>3. Progress(a, w)'
      BY <1>4, <1>6, <1>8, <2>2, <2>5, <2>6, <3>1, <3>2 DEF Progress
    <3>. QED BY <1>6, <2>2, <2>3, <2>6, <3>1, <3>3 DEF WrapperInv
  <2>. QED BY <2>6, <2>7, <2>8
<1>11. \/ UNCHANGED lock
       \/ Hands(w, Side(a), None) /\ t = "idle"
    BY <1>2, <1>5
<1>12. t \in Critical \cup {"raised", "idle"} /\ t # "raised" /\ (t \in Critical => t = "setKind")
    BY <1>1, <1>3, Elsewhere
<1>. QED BY <1>3, <1>4, <1>5, <1>6, <1>8, <1>9, <1>10, <1>11, <1>12, CriticalStep

LEMMA SetKindB ==
    ASSUME InvB, NEW a \in Actors, SetKind(a)
    PROVE  ResetInv'
<1> DEFINE new == IF closed[W(a)] \/ kind[W(a)] = "rpm" THEN "rpm" ELSE "qps"
           t == IF new = "qps" THEN "lowerSecond"
                ELSE IF bucket[W(a)]["ten"] = Missing THEN "makeTen" ELSE "lowerTen"
<1>1. /\ Step(a, "setKind", t) /\ t \in {"lowerSecond", "makeTen", "lowerTen"}
      /\ kind' = [kind EXCEPT ![W(a)] = new]
      /\ UNCHANGED <<maps, closed, hasReset, lock, bucket, local, ghosts>>
    BY DEF SetKind
<1>2. /\ TypeOK /\ Critical \subseteq Entered /\ "setKind" \in Critical
      /\ {"setKind", "lowerSecond", "makeTen", "lowerTen"} \subseteq Lowering
      /\ Lowering \subseteq Critical /\ Lowering \subseteq CallerStates
    BY Elsewhere DEF InvB, InvA, Critical, Lowering, CallerStates
<1>3. PICK w \in Limiters :
         W(a) = w /\ (Proper(w) => WrapperInv(w) /\ Progress(a, w))
  <2>1. pc[a] \in Entered
    BY <1>1, <1>2 DEF Step
  <2>. QED BY <2>1, OfCaller
<1>4. /\ new = IF closed[w] \/ kind[w] = "rpm" THEN "rpm" ELSE "qps"
      /\ t = IF new = "qps" THEN "lowerSecond"
             ELSE IF bucket[w]["ten"] = Missing THEN "makeTen" ELSE "lowerTen"
    BY <1>3
<1> HIDE DEF t, new
<1>5. /\ pc[a] = "setKind" /\ pc'[a] = t /\ at'[a] = at[a]
      /\ \A b \in Actors \ {a} : pc'[b] = pc[b] /\ at'[b] = at[b]
  <2>1. t \in CallerStates /\ t # "idle"
    BY <1>1, <1>2
  <2>. QED BY <1>1, <1>2, <2>1, Goes
<1>6. /\ UNCHANGED <<args, impl, registry, closed, hasReset, lock, bucket>>
      /\ UNCHANGED <<rpm, og, resetters, claimed, settled>>
    BY <1>1 DEF maps, local, ghosts
<1>7. kind'[w] = new /\ \A v \in Limiters \ {w} : kind'[v] = kind[v]
    BY <1>1, <1>2, <1>3 DEF TypeOK
<1>8. \A v \in Limiters \ {w} : Same(v)
    BY <1>6, <1>7 DEF Same
<1>9. ASSUME Proper(w)
      PROVE  /\ WrapperInv(w)' /\ Progress(a, w)'
             /\ Enterable(w) => Enterable(w)' /\ kind'[w] = kind[w]
  <2>1. Progress(a, w) /\ WrapperInv(w)
    BY <1>3, <1>9
  <2>2. /\ Len(claimed[w]) = 1 /\ Head(claimed[w]).side = Side(a)
        /\ w \notin settled /\ ~ args[w].off /\ AsBuilt(w) /\ rpm[a] = Goal(w)
    BY <1>2, <1>5, <2>1 DEF Progress
  <2>3. /\ args[w].kind # "both" /\ hasReset[w] /\ claimed[w] # <<>>
        /\ ~ closed[w] => Enterable(w)
    BY <2>1, <2>2 DEF WrapperInv
  <2>4. /\ (closed[w] <=> Fresh(w))
        /\ kind[w] = IF Fresh(w) THEN "unset" ELSE args[w].kind
        /\ \A b \in Buckets :
              bucket[w][b] = IF ~ Fresh(w) /\ b \in BucketsOf(args[w].kind)
                             THEN Rate(args[w].rate) ELSE Missing
    BY <2>2 DEF AsBuilt
  <2>5. args[w].kind \in {"rpm", "qps", "none"} /\ args[w].rate \in Nat
    BY <1>2, <2>3, Arguments DEF Kinds
  <2>6. Goal(w)' = Goal(w) /\ (Fresh(w)' <=> Fresh(w))
    BY <1>6 DEF Goal, Target, Fresh
  <2>7. /\ Buckets = {"minute", "ten", "second"} /\ BucketsOf("rpm") = {"minute", "ten"}
        /\ BucketsOf("qps") = {"second"} /\ Rate(args[w].rate) # Missing
    BY <2>5, RateIsSome DEF Buckets, BucketsOf
  <2>8. CASE Fresh(w)
    <3>1. t = "makeTen" /\ new = "rpm" /\ kind[w] = "unset"
      BY <1>4, <2>4, <2>7, <2>8
    <3>2. Making(w)'
      BY <1>6, <1>7, <2>4, <2>6, <2>8, <3>1 DEF Making
    <3>3. Progress(a, w)'
      BY <1>5, <1>6, <2>2, <2>6, <3>1, <3>2 DEF Progress
    <3>4. ~ Enterable(w)
      BY <3>1 DEF Enterable, Kinds
    <3>. QED BY <1>6, <2>2, <2>3, <3>3, <3>4 DEF WrapperInv
  <2>9. CASE ~ Fresh(w)
    <3>1. kind[w] = args[w].kind /\ kind'[w] = kind[w] /\ ~ closed[w]
      BY <1>4, <1>7, <2>4, <2>5, <2>9 DEF Fresh
    <3>2. args[w].kind \in Kinds /\ Tightening(w, args[w].kind)'
      BY <1>6, <2>4, <2>5, <2>9, <3>1 DEF Tightening, Fresh, Kinds
    <3>3. Enterable(w) => Enterable(w)'
      BY <1>6, <3>1 DEF Enterable
    <3>4. CASE args[w].kind = "rpm"
      <4>1. t = "lowerTen" /\ Tightening(w, "rpm")'
        BY <1>4, <1>6, <2>4, <2>7, <2>9, <3>1, <3>2, <3>4
      <4>2. bucket[w]["ten"] = Rate(args[w].rate) /\ bucket[w]["minute"] = Rate(args[w].rate)
        BY <2>4, <2>7, <2>9, <3>4
      <4>3. Progress(a, w)'
        BY <1>5, <1>6, <2>2, <2>6, <4>1, <4>2 DEF Progress
      <4>. QED BY <1>6, <2>2, <2>3, <3>1, <3>3, <4>3 DEF WrapperInv
    <3>5. CASE args[w].kind = "qps"
      <4>1. t = "lowerSecond" /\ Tightening(w, "qps")'
        BY <1>4, <1>6, <2>4, <2>7, <2>9, <3>1, <3>2, <3>5
      <4>2. bucket[w]["second"] = Rate(args[w].rate)
        BY <2>4, <2>7, <2>9, <3>5
      <4>3. Progress(a, w)'
        BY <1>5, <1>6, <2>2, <2>6, <4>1, <4>2 DEF Progress
      <4>. QED BY <1>6, <2>2, <2>3, <3>1, <3>3, <4>3 DEF WrapperInv
    <3>. QED BY <3>2, <3>4, <3>5 DEF Kinds
  <2>. QED BY <2>8, <2>9
<1>10. t \in Critical \cup {"raised", "idle"} /\ t # "raised" /\ pc[a] \in Critical
    BY <1>1, <1>2, <1>5, Elsewhere
<1>11. \A b \in Actors \ {a} : rpm'[b] = rpm[b] /\ og'[b] = og[b]
    BY <1>6
<1>. QED BY <1>3, <1>5, <1>6, <1>8, <1>9, <1>10, <1>11, CriticalStep

\* One bucket of a wrapper gets a rate: all the others are as they were.
Gets(w, b, x) == bucket' = [bucket EXCEPT ![w] = [bucket[w] EXCEPT ![b] = x]]

LEMMA OtherBuckets ==
    ASSUME TypeOK, NEW w \in Limiters, NEW b \in Buckets, NEW x, Gets(w, b, x)
    PROVE  /\ bucket'[w][b] = x
           /\ \A c \in Buckets : c # b => bucket'[w][c] = bucket[w][c]
           /\ \A v \in Limiters \ {w} : bucket'[v] = bucket[v]
BY DEF TypeOK, Gets

\* What a step of a reset that is about to change a bucket of w may rely on.
LEMMA Underway ==
    ASSUME InvB, NEW a \in Actors, pc[a] \in Lowering
    PROVE  \E w \in Limiters :
              /\ W(a) = w /\ rpm[a] \in Nat \ {0}
              /\ Proper(w) =>
                    /\ Progress(a, w) /\ rpm[a] = Goal(w) /\ ~ args[w].full
                    /\ Len(claimed[w]) = 1 /\ Head(claimed[w]).side = Side(a)
                    /\ w \notin settled /\ ~ args[w].off
                    /\ args[w].kind # "both" /\ hasReset[w] /\ claimed[w] # <<>>
                    /\ ~ closed[w] => Enterable(w)
<1>1. /\ pc[a] \in Critical \ {"claim"} /\ pc[a] \in Entered
    BY Elsewhere DEF Critical, Lowering
<1>2. PICK w \in Limiters : W(a) = w /\ (Proper(w) => WrapperInv(w) /\ Progress(a, w))
    BY <1>1, OfCaller
<1>3. rpm[a] \in Nat \ {0}
    BY DEF InvB, InvA, AcquireInv, TypeOK
<1>4. ASSUME Proper(w)
      PROVE  /\ Progress(a, w) /\ rpm[a] = Goal(w) /\ ~ args[w].full
             /\ Len(claimed[w]) = 1 /\ Head(claimed[w]).side = Side(a)
             /\ w \notin settled /\ ~ args[w].off
             /\ args[w].kind # "both" /\ hasReset[w] /\ claimed[w] # <<>>
             /\ ~ closed[w] => Enterable(w)
  <2>1. WrapperInv(w) /\ Progress(a, w)
    BY <1>2, <1>4
  <2>2. /\ rpm[a] = Goal(w) /\ Len(claimed[w]) = 1 /\ Head(claimed[w]).side = Side(a)
        /\ w \notin settled /\ ~ args[w].off
    BY <1>1, <2>1 DEF Progress
  <2>. QED BY <1>4, <2>1, <2>2 DEF Proper, WrapperInv
<1>. QED BY <1>2, <1>3, <1>4

LEMMA MakeBucketB ==
    ASSUME InvB, NEW a \in Actors, NEW b, NEW s, NEW t, MakeBucket(a, b, s, t),
           \/ b = "ten" /\ s = "makeTen" /\ t = "makeMinute"
           \/ b = "minute" /\ s = "makeMinute" /\ t = "open"
    PROVE  ResetInv'
<1>1. /\ Step(a, s, t)
      /\ bucket' = [bucket EXCEPT ![W(a)][b] = Rate(IF args[W(a)].full THEN 0 ELSE rpm[a])]
      /\ UNCHANGED <<maps, closed, kind, hasReset, lock, local, ghosts>>
    BY DEF MakeBucket
<1>2. /\ TypeOK /\ b \in Buckets /\ s \in Lowering /\ t \in Lowering
      /\ Lowering \subseteq Critical /\ t \in CallerStates
    BY DEF InvB, InvA, Buckets, Critical, Lowering, CallerStates
<1>3. /\ pc[a] = s /\ pc'[a] = t /\ at'[a] = at[a]
      /\ \A c \in Actors \ {a} : pc'[c] = pc[c] /\ at'[c] = at[c]
    BY <1>1, <1>2, Goes
<1>4. PICK w \in Limiters :
         /\ W(a) = w /\ rpm[a] \in Nat \ {0}
         /\ Proper(w) =>
               /\ Progress(a, w) /\ rpm[a] = Goal(w) /\ ~ args[w].full
               /\ Len(claimed[w]) = 1 /\ Head(claimed[w]).side = Side(a)
               /\ w \notin settled /\ ~ args[w].off
               /\ args[w].kind # "both" /\ hasReset[w] /\ claimed[w] # <<>>
               /\ ~ closed[w] => Enterable(w)
    BY <1>2, <1>3, Underway
<1>5. /\ UNCHANGED <<args, impl, registry, closed, kind, hasReset, lock>>
      /\ UNCHANGED <<rpm, og, resetters, claimed, settled>>
    BY <1>1 DEF maps, local, ghosts
<1>. PICK x : x = Rate(IF args[w].full THEN 0 ELSE rpm[a])
    OBVIOUS
<1>6. /\ bucket'[w][b] = x
      /\ \A c \in Buckets : c # b => bucket'[w][c] = bucket[w][c]
      /\ \A v \in Limiters \ {w} : bucket'[v] = bucket[v]
  <2>1. Gets(w, b, x)
    BY <1>1, <1>4 DEF Gets
  <2>. QED BY <1>2, <2>1, OtherBuckets
<1>7. \A v \in Limiters \ {w} : Same(v)
    BY <1>5, <1>6 DEF Same
<1>8. ASSUME Proper(w)
      PROVE  /\ WrapperInv(w)' /\ Progress(a, w)'
             /\ Enterable(w) => Enterable(w)'
  <2>1. x = Rate(rpm[a]) /\ x # Missing /\ \A r \in Sides : x[r] = rpm[a]
    BY <1>4, <1>8, RateIsSome
  <2>2. Making(w)
    BY <1>3, <1>4, <1>8 DEF Progress
  <2>3. /\ Goal(w)' = Goal(w) /\ (Fresh(w)' <=> Fresh(w)) /\ Making(w)'
        /\ Fresh(w) /\ kind'[w] = "rpm" /\ closed'[w]
    BY <1>5, <2>2 DEF Goal, Target, Fresh, Making
  <2>4. BucketSet(w, b)'
    BY <1>4, <1>5, <1>6, <1>8, <2>1, <2>3 DEF BucketSet
  <2>5. Progress(a, w)'
    <3>1. CASE b = "ten"
      BY <1>3, <1>4, <1>5, <1>8, <2>3, <2>4, <3>1 DEF Progress
    <3>2. CASE b = "minute"
      <4>1. BucketSet(w, "ten")
        BY <1>3, <1>4, <1>8, <3>2 DEF Progress
      <4>2. BucketSet(w, "ten")'
        BY <1>5, <1>6, <2>3, <3>2, <4>1 DEF BucketSet, Buckets
      <4>3. \A c \in BucketsOf(kind'[w]) : BucketSet(w, c)'
        BY <2>3, <2>4, <3>2, <4>2 DEF BucketsOf
      <4>. QED BY <1>3, <1>4, <1>5, <1>8, <2>3, <3>2, <4>3 DEF Progress
    <3>. QED BY <3>1, <3>2
  <2>6. Enterable(w) => Enterable(w)'
    BY <1>5, <1>6, <2>1 DEF Enterable, BucketsOf, Buckets
  <2>7. /\ Len(claimed[w]) = 1 /\ w \notin settled /\ args[w].kind # "both"
        /\ hasReset[w] /\ claimed[w] # <<>> /\ (~ closed[w] => Enterable(w))
    BY <1>4, <1>8
  <2>. QED BY <1>5, <2>5, <2>6, <2>7 DEF WrapperInv
<1>9. t \in Critical \cup {"raised", "idle"} /\ t # "raised" /\ pc[a] \in Critical
    BY <1>2, <1>3, Elsewhere
<1>10. \A c \in Actors \ {a} : rpm'[c] = rpm[c] /\ og'[c] = og[c]
    BY <1>5
<1>11. kind'[w] = kind[w]
    BY <1>5
<1>. QED BY <1>3, <1>4, <1>5, <1>7, <1>8, <1>9, <1>10, <1>11, CriticalStep

LEMMA LowerBucketB ==
    ASSUME InvB, NEW a \in Actors, NEW b, NEW s, NEW t, LowerBucket(a, b, s, t),
           \/ b = "ten" /\ s = "lowerTen" /\ t = "lowerMinute"
           \/ b = "minute" /\ s = "lowerMinute" /\ t = "open"
           \/ b = "second" /\ s = "lowerSecond" /\ t = "open"
    PROVE  ResetInv'
<1>1. /\ TypeOK /\ b \in Buckets /\ s \in Lowering /\ t \in Lowering
      /\ Lowering \subseteq Critical /\ t \in CallerStates
      /\ "raised" \in CallerStates /\ "raised" \notin Critical
    BY DEF InvB, InvA, Buckets, Critical, Lowering, CallerStates
<1>2. pc[a] = s
    BY DEF LowerBucket, Step
<1>3. PICK w \in Limiters :
         /\ W(a) = w /\ rpm[a] \in Nat \ {0}
         /\ Proper(w) =>
               /\ Progress(a, w) /\ rpm[a] = Goal(w) /\ ~ args[w].full
               /\ Len(claimed[w]) = 1 /\ Head(claimed[w]).side = Side(a)
               /\ w \notin settled /\ ~ args[w].off
               /\ args[w].kind # "both" /\ hasReset[w] /\ claimed[w] # <<>>
               /\ ~ closed[w] => Enterable(w)
    BY <1>1, <1>2, Underway
<1> DEFINE fails == bucket[w][b] = Missing \/ args[w].full
<1>. PICK u : u = IF fails THEN "raised" ELSE t
    OBVIOUS
<1>4. /\ Step(a, s, u) /\ u \in {t, "raised"}
      /\ bucket' = IF fails THEN bucket
                   ELSE [bucket EXCEPT ![w][b][Side(a)] = rpm[a]]
      /\ UNCHANGED <<maps, closed, kind, hasReset, lock, local, ghosts>>
    BY <1>3 DEF LowerBucket
<1>5. /\ UNCHANGED <<args, impl, registry, closed, kind, hasReset, lock>>
      /\ UNCHANGED <<rpm, og, resetters, claimed, settled>>
    BY <1>4 DEF maps, local, ghosts
<1>6. /\ pc'[a] = u /\ at'[a] = at[a]
      /\ \A c \in Actors \ {a} : pc'[c] = pc[c] /\ at'[c] = at[c]
  <2>1. u \in CallerStates /\ u # "idle"
    BY <1>1, <1>4, Elsewhere
  <2>. QED BY <1>1, <1>4, <2>1, Goes
<1>. PICK x : x = IF fails THEN bucket[w][b] ELSE [bucket[w][b] EXCEPT ![Side(a)] = rpm[a]]
    OBVIOUS
<1>7. /\ bucket'[w][b] = x
      /\ \A c \in Buckets : c # b => bucket'[w][c] = bucket[w][c]
      /\ \A v \in Limiters \ {w} : bucket'[v] = bucket[v]
  <2>1. CASE fails
    BY <1>4, <2>1
  <2>2. CASE ~ fails
    <3>1. Gets(w, b, x)
      BY <1>4, <2>2 DEF Gets
    <3>. QED BY <1>1, <3>1, OtherBuckets
  <2>. QED BY <2>1, <2>2
<1>8. \A v \in Limiters \ {w} : Same(v)
    BY <1>5, <1>7 DEF Same
<1>9. ASSUME Proper(w)
      PROVE  /\ WrapperInv(w)' /\ Progress(a, w)' /\ u # "raised"
             /\ Enterable(w) => Enterable(w)'
  <2>1. /\ bucket[w][b] = Rate(args[w].rate) /\ (Tightening(w, "rpm") \/ Tightening(w, "qps"))
        /\ b \in BucketsOf(kind[w])
    BY <1>2, <1>3, <1>9 DEF Progress, Tightening, BucketsOf
  <2>2. args[w].rate \in Nat /\ Side(a) \in Sides
    BY <1>1, Arguments DEF Side, Sides
  <2>3. ~ fails
    BY <1>3, <1>9, <2>1, <2>2, RateIsSome
  <2>4. u = t /\ t # "raised"
    BY <1>1, <2>3, Elsewhere
  <2>5. \A r \in Sides : x[r] = IF r = Side(a) THEN rpm[a] ELSE args[w].rate
    <3>1. x = [Rate(args[w].rate) EXCEPT ![Side(a)] = rpm[a]]
      BY <2>1, <2>3
    <3>. QED BY <2>2, <3>1 DEF Rate
  <2>6. x # Missing
    <3>1. x[Side(a)] # -1 /\ Missing[Side(a)] = -1
      BY <1>3, <2>2, <2>5 DEF Missing
    <3>. QED BY <3>1
  <2>7. /\ Goal(w)' = Goal(w) /\ (Fresh(w)' <=> Fresh(w)) /\ ~ Fresh(w)
        /\ \A k \in Kinds : Tightening(w, k) => Tightening(w, k)'
    BY <1>5, <2>1 DEF Goal, Target, Fresh, Tightening
  <2>8. BucketSet(w, b)'
    BY <1>3, <1>5, <1>7, <1>9, <2>5, <2>7 DEF BucketSet
  <2>9. Progress(a, w)'
    <3>1. CASE b = "ten"
      <4>1. Tightening(w, "rpm")' /\ bucket'[w]["minute"] = Rate(args'[w].rate)
        BY <1>2, <1>3, <1>5, <1>7, <1>9, <2>7, <3>1 DEF Progress, Buckets, Kinds
      <4>. QED BY <1>3, <1>5, <1>6, <1>9, <2>4, <2>7, <2>8, <3>1, <4>1 DEF Progress
    <3>2. CASE b = "minute"
      <4>1. Tightening(w, "rpm") /\ BucketSet(w, "ten")
        BY <1>2, <1>3, <1>9, <3>2 DEF Progress
      <4>2. BucketSet(w, "ten")'
        BY <1>5, <1>7, <2>7, <3>2, <4>1 DEF BucketSet, Buckets
      <4>3. Tightening(w, "rpm")' /\ kind'[w] = "rpm"
        BY <1>5, <2>7, <4>1 DEF Kinds, Tightening
      <4>4. \A c \in BucketsOf(kind'[w]) : BucketSet(w, c)'
        BY <2>8, <3>2, <4>2, <4>3 DEF BucketsOf
      <4>5. \E k \in Kinds : Tightening(w, k)'
        BY <4>3 DEF Kinds
      <4>. QED BY <1>3, <1>5, <1>6, <1>9, <2>4, <2>7, <3>2, <4>4, <4>5 DEF Progress
    <3>3. CASE b = "second"
      <4>1. Tightening(w, "qps")
        BY <1>2, <1>3, <1>9, <3>3 DEF Progress
      <4>2. Tightening(w, "qps")' /\ kind'[w] = "qps"
        BY <1>5, <2>7, <4>1 DEF Kinds, Tightening
      <4>3. \A c \in BucketsOf(kind'[w]) : BucketSet(w, c)'
        BY <2>8, <3>3, <4>2 DEF BucketsOf
      <4>4. \E k \in Kinds : Tightening(w, k)'
        BY <4>2 DEF Kinds
      <4>. QED BY <1>3, <1>5, <1>6, <1>9, <2>4, <2>7, <3>3, <4>3, <4>4 DEF Progress
    <3>. QED BY <3>1, <3>2, <3>3
  <2>10. Enterable(w) => Enterable(w)'
    BY <1>5, <1>7, <2>6 DEF Enterable, BucketsOf, Buckets
  <2>11. /\ Len(claimed[w]) = 1 /\ w \notin settled /\ args[w].kind # "both"
         /\ hasReset[w] /\ claimed[w] # <<>> /\ (~ closed[w] => Enterable(w))
    BY <1>3, <1>9
  <2>. QED BY <1>5, <2>4, <2>9, <2>10, <2>11 DEF WrapperInv
<1>10. u \in Critical \cup {"raised", "idle"} /\ pc[a] \in Critical
    BY <1>1, <1>2, <1>4
<1>11. \A c \in Actors \ {a} : rpm'[c] = rpm[c] /\ og'[c] = og[c]
    BY <1>5
<1>12. kind'[w] = kind[w]
    BY <1>5
<1>. QED BY <1>3, <1>5, <1>6, <1>8, <1>9, <1>10, <1>11, <1>12, CriticalStep

LEMMA OpenB ==
    ASSUME InvB, NEW a \in Actors, Open(a)
    PROVE  ResetInv'
<1>1. /\ Step(a, "open", "idle") /\ "idle" \in CallerStates
      /\ closed' = [closed EXCEPT ![W(a)] = FALSE]
      /\ Hands(W(a), Side(a), None) /\ settled' = settled \cup {W(a)}
      /\ rpm' = [rpm EXCEPT ![a] = 0]
      /\ UNCHANGED <<maps, kind, hasReset, bucket, key, og, calls, resetters, claimed>>
    BY DEF Open, CallerStates, AwaitStates, LetGo, Settle, Hands
<1>2. TypeOK /\ "open" \in Lowering /\ "open" \in Critical
    BY DEF InvB, InvA, Lowering, Critical
<1>3. /\ pc[a] = "open" /\ pc'[a] = "idle"
      /\ \A b \in Actors \ {a} : pc'[b] = pc[b] /\ at'[b] = at[b]
    BY <1>1, <1>2, Goes
<1>4. PICK w \in Limiters :
         /\ W(a) = w /\ rpm[a] \in Nat \ {0}
         /\ Proper(w) =>
               /\ Progress(a, w) /\ rpm[a] = Goal(w) /\ ~ args[w].full
               /\ Len(claimed[w]) = 1 /\ Head(claimed[w]).side = Side(a)
               /\ w \notin settled /\ ~ args[w].off
               /\ args[w].kind # "both" /\ hasReset[w] /\ claimed[w] # <<>>
               /\ ~ closed[w] => Enterable(w)
    BY <1>2, <1>3, Underway
<1>5. UNCHANGED <<args, impl, registry, kind, hasReset, bucket, og, resetters, claimed>>
    BY <1>1 DEF maps
<1>6. /\ ~ closed'[w] /\ \A v \in Limiters \ {w} : closed'[v] = closed[v]
      /\ \A b \in Actors \ {a} : rpm'[b] = rpm[b]
    BY <1>1, <1>2, <1>4 DEF TypeOK
<1>7. \A v \in Limiters \ {w} : Same(v)
    BY <1>1, <1>4, <1>5, <1>6 DEF Same
<1>8. ASSUME Proper(w)
      PROVE  /\ WrapperInv(w)' /\ (Enterable(w) => Enterable(w)')
  <2>1. /\ Making(w) \/ \E k \in Kinds : Tightening(w, k)
        /\ \A b \in BucketsOf(kind[w]) : BucketSet(w, b)
    BY <1>3, <1>4, <1>8 DEF Progress
  <2>2. kind[w] \in Kinds /\ kind[w] = IF Fresh(w) THEN "rpm" ELSE args[w].kind
    BY <2>1 DEF Making, Tightening, Kinds
  <2>3. Goal(w) \in Nat \ {0} /\ args[w].rate \in Nat
    BY <1>2, <1>4, <1>8, Arguments
  <2>4. \A b \in BucketsOf(kind[w]), s \in Sides : bucket[w][b][s] =
           IF s = Head(claimed[w]).side \/ Fresh(w) THEN Goal(w) ELSE args[w].rate
    BY <2>1 DEF BucketSet
  <2>5. \A b \in BucketsOf(kind[w]) : bucket[w][b] # Missing
    <3>1. \A b \in BucketsOf(kind[w]) : bucket[w][b]["sync"] # -1
      BY <2>3, <2>4 DEF Sides
    <3>2. Missing["sync"] = -1
      BY DEF Missing, Sides
    <3>. QED BY <3>1, <3>2
  <2>6. Enterable(w)'
    BY <1>5, <2>2, <2>5 DEF Enterable
  <2>7. InForce(w)'
    BY <1>5, <1>6, <2>2, <2>3, <2>4 DEF InForce, Goal, Target, Fresh
  <2>8. /\ Len(claimed[w]) = 1 /\ w \notin settled /\ args[w].kind # "both"
        /\ hasReset[w] /\ claimed[w] # <<>> /\ (~ closed[w] => Enterable(w))
    BY <1>4, <1>8
  <2>. QED BY <1>5, <2>6, <2>7, <2>8 DEF WrapperInv
<1>9. Hands(w, Side(a), None) /\ "idle" \notin Critical /\ kind'[w] = kind[w]
    BY <1>1, <1>4, <1>5, Elsewhere
<1>10. \A b \in Actors \ {a} : og'[b] = og[b]
    BY <1>5
<1>. QED BY <1>2, <1>3, <1>4, <1>5, <1>6, <1>7, <1>8, <1>9, <1>10, CriticalStep

LEMMA InitInvB == Init => InvB
<1> SUFFICES ASSUME Init PROVE InvB
    OBVIOUS
<1>1. InvA
    BY InitInvA
<1>2. /\ \A w \in Limiters : /\ ~ Built(w) /\ claimed[w] = <<>> /\ w \notin settled
                             /\ resetters[w] = {}
      /\ \A a \in Actors : pc[a] = "idle"
    BY LimitersAreSome DEF Init, Built
<1>3. "idle" \notin Entered
    BY DEF Entered
<1>4. ResetInv
    BY <1>2, <1>3 DEF ResetInv, Untouched, On
<1>. QED BY <1>1, <1>4 DEF InvB

LEMMA NextInvB == InvB /\ [Next]_vars => InvB'
<1> SUFFICES ASSUME InvB, [Next]_vars PROVE InvB'
    OBVIOUS
<1>1. InvA'
    BY NextInvA DEF InvB
<1>2. CASE UNCHANGED vars
  <2>1. /\ UNCHANGED <<args, impl, registry, closed, kind, hasReset, lock, bucket>>
        /\ UNCHANGED <<pc, at, rpm, og, resetters, claimed, settled>>
    BY <1>2 DEF vars
  <2>2. \A w \in Limiters : Same(w) /\ (Built(w)' <=> Built(w)) /\ (Proper(w)' <=> Proper(w))
    BY <2>1 DEF Same, Built, Proper, OneSide
  <2>3. ASSUME NEW b \in Actors, NEW w \in Limiters
        PROVE  /\ On(b, w)' <=> On(b, w)
               /\ Locked(b, w) => Locked(b, w)'
               /\ Progress(b, w) => Progress(b, w)'
               /\ Entering(b, w) => Entering(b, w)'
    <3>1. On(b, w)' <=> On(b, w)
      BY <2>1 DEF On, W
    <3>2. Locked(b, w) => Locked(b, w)'
      BY <2>1 DEF Locked, Side
    <3>. QED BY <2>1, <2>2, <3>1, <3>2, SameProgress
  <2>4. Untouched'
    BY <2>1, <2>2 DEF InvB, ResetInv, Untouched
  <2>5. \A w \in Limiters : Built(w)' /\ Proper(w)' => WrapperInv(w)'
    BY <2>2, SameWrapper DEF InvB, ResetInv
  <2>6. \A b \in Actors, w \in Limiters : On(b, w)' =>
           Locked(b, w)' /\ (Proper(w)' => Progress(b, w)' /\ Entering(b, w)')
    BY <2>2, <2>3 DEF InvB, ResetInv
  <2>7. \A b \in Actors : pc'[b] = "raised" /\ args'[at'[b]].kind # "both" =>
           W(b)' \in Limiters /\ ~ Proper(W(b))'
    BY <2>1 DEF InvB, ResetInv, W, Proper, OneSide
  <2>8. ResetInv'
    BY <2>4, <2>5, <2>6, <2>7 DEF ResetInv
  <2>. QED BY <1>1, <2>8 DEF InvB
<1>3. CASE Next
  <2>1. PICK a \in Actors :
           \/ \E u \in Uses : Acquire(a, u[1], u[2])
           \/ GoOn(a)
           \/ \E r \in Reported : BeginReset(a, r)
    BY <1>3 DEF Next
  <2>2. ASSUME NEW u \in Uses, Acquire(a, u[1], u[2]) PROVE ResetInv'
    <3>1. u[1] \in Limiters /\ u[2] \in Keys \cup {None}
      BY WrapperAssumption
    <3>. QED BY <2>2, <3>1, AcquireB
  <2>3. ASSUME AcquireStep(a) PROVE ResetInv'
    BY <2>3, WithLocksB, MakeWrapperB, LinkB DEF AcquireStep
  <2>4. ASSUME ResetStep(a) PROVE ResetInv'
    BY <2>4, TakeLockB, ClaimB, DecideB, SetKindB, MakeBucketB, LowerBucketB, OpenB
       DEF ResetStep
  <2>5. ResetInv'
    BY <2>1, <2>2, <2>3, <2>4, EnterB, BeginResetB DEF GoOn
  <2>. QED BY <1>1, <2>5 DEF InvB
<1>. QED BY <1>2, <1>3

\* No caller meets a wrapper without the limiter it is about to use, though __enter__
\* takes no lock and a reset creates the limiters one by one.
THEOREM NothingMissing == Spec => []NoMissingLimiter
<1>1. InvB => NoMissingLimiter
    BY DEF InvB, ResetInv, NoMissingLimiter
<1>. QED BY InitInvB, NextInvB, <1>1, PTL DEF Spec

\* A finished reset, and there is one at most, leaves the wrapper at the stricter rate.
THEOREM StricterRate == Spec => []LimitInForce
<1>1. ASSUME InvB PROVE LimitInForce
  <2> SUFFICES ASSUME NEW w \in Limiters, Proper(w)
               PROVE  Len(claimed[w]) <= 1 /\ (w \in settled => InForce(w))
      BY DEF LimitInForce
  <2>1. CASE Built(w)
    BY <1>1, <2>1 DEF InvB, ResetInv, WrapperInv
  <2>2. CASE ~ Built(w)
    BY <1>1, <2>2 DEF InvB, ResetInv, Untouched
  <2>. QED BY <2>1, <2>2
<1>. QED BY InitInvB, NextInvB, <1>1, PTL DEF Spec

-----------------------------------------------------------------------------
(* Nobody waits for a lock that is kept, or in a circle.                    *)

\* A caller inside a call that no lock and no other coroutine holds up.
Free(a) ==
    /\ pc[a] # "idle"
    /\ Runs(a)
    /\ pc[a] = "init" => initLock[at[a]] = None
    /\ pc[a] = "map" => MapIsFree(a)
    /\ pc[a] = "lock" => lock[W(a)][Side(a)] = None

\* As long as a caller is inside a call that has no wrapper yet, or a proper one, some
\* caller can go on.
NobodyStuck ==
    (\E a \in Actors : pc[a] # "idle" /\ (W(a) # None => Proper(W(a))))
        => \E b \in Actors : Free(b)

\* Each lock is held by a caller inside what it guards; the lock of a reset that failed,
\* on a wrapper that is not proper, may be held for ever.  Of the coroutines one at most
\* is not at an await.
InitOwned ==
    \A v \in Limiters : initLock[v] # None =>
        pc[initLock[v]] \in Acquiring /\ at[initLock[v]] = v

MapOwned == mapLock # None => pc[mapLock] = "make" /\ key[mapLock] # None

ResetOwned ==
    \A w \in Limiters, s \in Sides : Proper(w) /\ lock[w][s] # None =>
        pc[lock[w][s]] \in Critical /\ W(lock[w][s]) = w /\ Side(lock[w][s]) = s

OneRuns ==
    \A b, c \in Coroutines : pc[b] \notin AwaitStates /\ pc[c] \notin AwaitStates => b = c

Owners == InitOwned /\ MapOwned /\ ResetOwned /\ OneRuns

StepOf(a) ==
    \/ \E u \in Uses : Acquire(a, u[1], u[2])
    \/ GoOn(a)
    \/ \E r \in Reported : BeginReset(a, r)

\* What a step of a caller does to _init_lock and _MAP_LOCK.
InitHandling(a) ==
    \/ /\ initLock' = initLock
       /\ pc[a] \notin Acquiring \/ (pc'[a] \in Acquiring /\ at'[a] = at[a])
    \/ /\ initLock' = [initLock EXCEPT ![at[a]] = a]
       /\ pc'[a] \in Acquiring /\ at'[a] = at[a]
    \/ initLock' = [initLock EXCEPT ![at[a]] = None] /\ at[a] \in Limiters

MapHandling(a) ==
    \/ mapLock' = mapLock /\ (pc[a] # "make" \/ key[a] = None)
    \/ mapLock' = None
    \/ mapLock' = a /\ pc'[a] = "make" /\ key'[a] # None

OthersStay(a) ==
    \A b \in Actors \ {a} : pc'[b] = pc[b] /\ at'[b] = at[b] /\ key'[b] = key[b]

\* Each step takes or gives back a lock as it goes in or out.
LEMMA StepHandles ==
    ASSUME InvA, NEW a \in Actors, StepOf(a)
    PROVE  Runs(a) /\ OthersStay(a) /\ InitHandling(a) /\ MapHandling(a)
<1>1. TypeOK /\ AcquireInv
    BY DEF InvA
<1>2. /\ pc \in [Actors -> CallerStates] /\ at \in [Actors -> Limiters \cup {None}]
      /\ key \in [Actors -> Keys \cup {None}]
    BY <1>1 DEF TypeOK
<1>3. pc[a] # "idle" => at[a] \in Limiters
    BY <1>1, <1>2 DEF AcquireInv
<1>4. ASSUME NEW u \in Uses, Acquire(a, u[1], u[2])
      PROVE  Runs(a) /\ OthersStay(a) /\ InitHandling(a) /\ MapHandling(a)
  <2>1. /\ Runs(a) /\ pc[a] = "idle" /\ initLock' = initLock /\ mapLock' = mapLock
        /\ \A b \in Actors \ {a} : pc'[b] = pc[b] /\ at'[b] = at[b] /\ key'[b] = key[b]
    BY <1>2, <1>4 DEF Acquire, maps
  <2>. QED BY <2>1 DEF OthersStay, InitHandling, MapHandling, Acquiring
<1>5. ASSUME AcquireStep(a)
      PROVE  Runs(a) /\ OthersStay(a) /\ InitHandling(a) /\ MapHandling(a)
  <2>1. Runs(a)
    BY <1>5 DEF AcquireStep, TakeInitLock, TakeMapLock, MakeWrapper, RefuseArguments, Link,
                Step
  <2>2. OthersStay(a)
    <3>1. \A b \in Actors \ {a} : pc'[b] = pc[b] /\ at'[b] = at[b]
        BY <1>2, <1>5 DEF AcquireStep, TakeInitLock, TakeMapLock, MakeWrapper,
                          RefuseArguments, Link, Step
    <3>2. \A b \in Actors \ {a} : key'[b] = key[b]
        BY <1>2, <1>5 DEF AcquireStep, TakeInitLock, TakeMapLock, MakeWrapper,
                          RefuseArguments, Link, local
    <3>. QED BY <3>1, <3>2 DEF OthersStay
  <2>3. InitHandling(a) /\ MapHandling(a)
    <3> USE <1>2, <1>3 DEF Step, InitHandling, MapHandling, Acquiring
    <3>1. CASE TakeInitLock(a)
        BY <3>1 DEF TakeInitLock
    <3>2. CASE TakeMapLock(a)
        BY <3>2 DEF TakeMapLock, local
    <3>3. CASE MakeWrapper(a)
      <4>1. CASE key[a] = None
        BY <3>3, <4>1 DEF MakeWrapper
      <4>2. CASE key[a] # None
        BY <3>3, <4>2 DEF MakeWrapper
      <4>. QED BY <4>1, <4>2
    <3>4. CASE RefuseArguments(a)
        BY <3>4 DEF RefuseArguments
    <3>5. CASE Link(a)
        BY <3>5 DEF Link
    <3>. QED BY <1>5, <3>1, <3>2, <3>3, <3>4, <3>5 DEF AcquireStep
  <2>. QED BY <2>1, <2>2, <2>3
<1>6. ASSUME EnterStep(a) \/ ResetStep(a) \/ \E r \in Reported : BeginReset(a, r)
      PROVE  Runs(a) /\ OthersStay(a) /\ InitHandling(a) /\ MapHandling(a)
  <2> USE DEF EnterStep, ReadClosed, ReadKind, EnterBucket, Leave, Unchanged,
              ResetStep, TakeLock, Claim, Decide, SetKind, MakeBucket, LowerBucket, Open,
              BeginReset
  <2>1. Runs(a) /\ pc[a] \notin Acquiring /\ pc[a] # "make"
    BY <1>6 DEF Step, Acquiring, Buckets
  <2>2. initLock' = initLock /\ mapLock' = mapLock /\ key' = key
    BY <1>6 DEF maps, local
  <2>3. \A b \in Actors \ {a} : pc'[b] = pc[b] /\ at'[b] = at[b]
    BY <1>2, <1>6 DEF Step
  <2>. QED BY <2>1, <2>2, <2>3 DEF OthersStay, InitHandling, MapHandling
<1>. QED BY <1>4, <1>5, <1>6 DEF StepOf, GoOn

\* With the caller that comes to hold a lock, or leaves it, the owners stay right.
LEMMA InitOwnedKept ==
    ASSUME InvA, InitOwned, NEW a \in Actors, OthersStay(a), InitHandling(a)
    PROVE  InitOwned'
<1>1. /\ initLock \in [Limiters -> Actors \cup {None}] /\ None \notin Actors
      /\ at \in [Actors -> Limiters \cup {None}]
    BY WrapperAssumption DEF InvA, TypeOK
<1> SUFFICES ASSUME NEW v \in Limiters, initLock'[v] # None
             PROVE  pc'[initLock'[v]] \in Acquiring /\ at'[initLock'[v]] = v
    BY DEF InitOwned
<1>2. CASE /\ initLock' = initLock
           /\ pc[a] \notin Acquiring \/ (pc'[a] \in Acquiring /\ at'[a] = at[a])
    BY <1>1, <1>2 DEF InitOwned, OthersStay
<1>3. CASE /\ initLock' = [initLock EXCEPT ![at[a]] = a]
           /\ pc'[a] \in Acquiring /\ at'[a] = at[a]
    BY <1>1, <1>3 DEF InitOwned, OthersStay
<1>4. CASE initLock' = [initLock EXCEPT ![at[a]] = None] /\ at[a] \in Limiters
    BY <1>1, <1>4 DEF InitOwned, OthersStay
<1>. QED BY <1>2, <1>3, <1>4 DEF InitHandling

\* The same of _MAP_LOCK.
LEMMA MapOwnedKept ==
    ASSUME InvA, MapOwned, NEW a \in Actors, OthersStay(a), MapHandling(a)
    PROVE  MapOwned'
<1>1. mapLock \in Actors \cup {None} /\ None \notin Actors
    BY WrapperAssumption DEF InvA, TypeOK
<1>. QED BY <1>1 DEF MapOwned, MapHandling, OthersStay

\* A coroutine that runs finds the others at an await.
LEMMA OneRunsKept ==
    ASSUME OneRuns, NEW a \in Actors, OthersStay(a), Runs(a)
    PROVE  OneRuns'
<1> SUFFICES ASSUME NEW b \in Coroutines, NEW c \in Coroutines,
                    pc'[b] \notin AwaitStates, pc'[c] \notin AwaitStates, b # c
             PROVE  FALSE
    BY DEF OneRuns, AwaitStates
<1>1. b \in Actors /\ c \in Actors
    BY DEF Actors
<1>. QED BY <1>1 DEF OneRuns, OthersStay, Runs

\* What a step of a caller does to the locks of resets.
ResetHandling(a) ==
    \/ /\ lock' = lock
       /\ pc[a] \in Critical =>
             ~ Proper(W(a)) \/ (pc'[a] \in Critical /\ at'[a] = at[a])
    \/ /\ lock' = [lock EXCEPT ![W(a)][Side(a)] = a]
       /\ pc'[a] \in Critical /\ at'[a] = at[a] /\ pc[a] \in Entered
    \/ lock' = [lock EXCEPT ![W(a)][Side(a)] = None] /\ pc[a] \in Entered
    \/ /\ lock' = [lock EXCEPT ![at[a]] = [s \in Sides |-> None]]
       /\ pc[a] \notin Critical

\* A reset of a proper wrapper never finds a bucket missing.
LEMMA NeverFails ==
    ASSUME InvB, NEW a \in Actors, NEW b, NEW s, NEW t, LowerBucket(a, b, s, t),
           \/ b = "ten" /\ s = "lowerTen"
           \/ b = "minute" /\ s = "lowerMinute"
           \/ b = "second" /\ s = "lowerSecond",
           Proper(W(a))
    PROVE  pc'[a] = t
<1>1. /\ TypeOK /\ pc[a] = s /\ s \in Lowering
      /\ pc \in [Actors -> CallerStates]
    BY DEF InvB, InvA, TypeOK, LowerBucket, Step, Lowering
<1>2. PICK w \in Limiters : /\ W(a) = w
                            /\ Progress(a, w) /\ ~ args[w].full
    BY <1>1, Underway
<1>3. bucket[w][b] = Rate(args[w].rate)
    BY <1>1, <1>2 DEF Progress
<1>4. args[w].rate \in Nat
    BY <1>1, Arguments
<1>5. bucket[w][b] # Missing
    BY <1>3, <1>4, RateIsSome
<1>. QED BY <1>1, <1>2, <1>5 DEF LowerBucket, Step

\* Each step of a reset keeps its lock until it gives it back.
LEMMA ResetHandles ==
    ASSUME InvB, NEW a \in Actors, StepOf(a)
    PROVE  ResetHandling(a)
<1>1. /\ TypeOK /\ pc \in [Actors -> CallerStates]
      /\ at \in [Actors -> Limiters \cup {None}]
    BY DEF InvB, InvA, TypeOK
<1>2. ASSUME NEW u \in Uses, Acquire(a, u[1], u[2]) PROVE ResetHandling(a)
  <2>1. pc[a] = "idle" /\ lock' = lock
    BY <1>2 DEF Acquire, wrapper
  <2>. QED BY <2>1, Elsewhere DEF ResetHandling
<1>3. ASSUME AcquireStep(a) PROVE ResetHandling(a)
  <2>1. pc[a] \notin Critical
    BY <1>3 DEF AcquireStep, TakeInitLock, TakeMapLock, MakeWrapper, RefuseArguments, Link,
                Step, Critical, Lowering
  <2>2. lock' = lock \/ lock' = [lock EXCEPT ![at[a]] = [s \in Sides |-> None]]
    BY <1>3 DEF AcquireStep, TakeInitLock, TakeMapLock, MakeWrapper, RefuseArguments, Link,
                Build, wrapper
  <2>. QED BY <2>1, <2>2 DEF ResetHandling
<1>4. ASSUME EnterStep(a) \/ \E r \in Reported : BeginReset(a, r)
      PROVE  ResetHandling(a)
  <2>1. lock' = lock
    BY <1>4 DEF EnterStep, ReadClosed, ReadKind, EnterBucket, Leave, Unchanged, BeginReset,
                wrapper
  <2>2. pc[a] \notin Critical
    BY <1>4 DEF EnterStep, ReadClosed, ReadKind, EnterBucket, Leave, BeginReset, Step,
                Critical, Lowering, Buckets
  <2>. QED BY <2>1, <2>2 DEF ResetHandling
<1>5. ASSUME ResetStep(a) PROVE ResetHandling(a)
  <2>1. CASE TakeLock(a)
    <3>1. pc[a] = "lock" /\ "lock" \in Entered
        BY <2>1 DEF TakeLock, Step, Entered, CallerStates, AwaitStates
    <3>2. CASE Late(a)
        BY <2>1, <3>1, <3>2 DEF TakeLock, ResetHandling
    <3>3. CASE ~ Late(a)
      <4>1. pc'[a] \in Critical /\ at'[a] = at[a]
        BY <1>1, <2>1, <3>3 DEF TakeLock, Step, Critical
      <4>. QED BY <2>1, <3>1, <3>3, <4>1 DEF TakeLock, ResetHandling
    <3>. QED BY <3>2, <3>3
  <2>2. CASE Claim(a) \/ Decide(a) \/ SetKind(a) \/ Open(a)
    <3>1. pc[a] \in Entered
        BY <2>2, Elsewhere DEF Claim, Decide, SetKind, Open, Step, Critical, Lowering
    <3>2. \/ lock' = [lock EXCEPT ![W(a)][Side(a)] = None]
          \/ lock' = lock /\ pc'[a] \in Critical /\ at'[a] = at[a]
        BY <1>1, <2>2 DEF Claim, Decide, SetKind, Open, LetGo, Step, Critical, Lowering
    <3>. QED BY <3>1, <3>2 DEF ResetHandling
  <2>3. ASSUME NEW b, NEW s, NEW t, MakeBucket(a, b, s, t),
               t \in {"makeMinute", "open"}
        PROVE  ResetHandling(a)
    <3>1. lock' = lock /\ pc'[a] \in Critical /\ at'[a] = at[a]
        BY <1>1, <2>3 DEF MakeBucket, Step, Critical, Lowering
    <3>. QED BY <3>1 DEF ResetHandling
  <2>4. ASSUME NEW b, NEW s, NEW t, LowerBucket(a, b, s, t),
               \/ b = "ten" /\ s = "lowerTen"
               \/ b = "minute" /\ s = "lowerMinute"
               \/ b = "second" /\ s = "lowerSecond",
               t \in {"lowerMinute", "open"}
        PROVE  ResetHandling(a)
    <3>1. lock' = lock
        BY <2>4 DEF LowerBucket
    <3>2. Proper(W(a)) => pc'[a] = t
        BY <2>4, NeverFails
    <3>3. at'[a] = at[a] /\ t \in Critical
        BY <1>1, <2>4 DEF LowerBucket, Step, Critical, Lowering
    <3>. QED BY <3>1, <3>2, <3>3 DEF ResetHandling
  <2>. QED BY <1>5, <2>1, <2>2, <2>3, <2>4 DEF ResetStep
<1>. QED BY <1>2, <1>3, <1>4, <1>5 DEF StepOf, GoOn

\* What no step of a caller undoes: the arguments, a wrapper found, a side that has
\* asked for a reset.
LEMMA StepStays ==
    ASSUME InvA, NEW a \in Actors, StepOf(a)
    PROVE  /\ \A v \in Limiters : impl[v] # None => impl'[v] = impl[v]
           /\ \A w \in Limiters : Proper(w)' => Proper(w)
<1>1. /\ TypeOK /\ AcquireInv /\ impl \in [Limiters -> Limiters \cup {None}]
      /\ resetters \in [Limiters -> SUBSET Sides]
    BY DEF InvA, TypeOK
<1>2. /\ args' = args
      /\ \/ impl' = impl
         \/ pc[a] \in {"make", "link"} /\ \E x : impl' = [impl EXCEPT ![at[a]] = x]
      /\ \/ resetters' = resetters
         \/ resetters' = [resetters EXCEPT ![W(a)] = @ \cup {Side(a)}]
  <2>1. CASE \E u \in Uses : Acquire(a, u[1], u[2])
    BY <2>1 DEF Acquire, maps, ghosts
  <2>2. CASE AcquireStep(a)
    BY <2>2 DEF AcquireStep, TakeInitLock, TakeMapLock, MakeWrapper, RefuseArguments, Link,
                Step, ghosts
  <2>3. CASE EnterStep(a) \/ \E r \in Reported : BeginReset(a, r)
    BY <2>3 DEF EnterStep, ReadClosed, ReadKind, EnterBucket, Leave, Unchanged, BeginReset,
                maps, ghosts
  <2>4. CASE ResetStep(a)
    BY <2>4 DEF ResetStep, TakeLock, Claim, Decide, SetKind, MakeBucket, LowerBucket, Open,
                maps, ghosts
  <2>. QED BY <2>1, <2>2, <2>3, <2>4 DEF StepOf, GoOn
<1>3. \A v \in Limiters : impl[v] # None => impl'[v] = impl[v]
  <2>1. pc[a] \in {"make", "link"} => impl[at[a]] = None
    BY <1>1 DEF AcquireInv, Acquiring
  <2>. QED BY <1>1, <1>2, <2>1
<1>4. \A w \in Limiters : resetters[w] \subseteq resetters'[w] /\ resetters'[w] \subseteq Sides
    BY <1>1, <1>2 DEF Side, Sides
<1>5. \A w \in Limiters : Proper(w)' => Proper(w)
    BY <1>2, <1>4 DEF Proper, OneSide, Sides
<1>. QED BY <1>3, <1>5

\* The locks of a proper wrapper stay with the callers inside its resets.
LEMMA ResetOwnedKept ==
    ASSUME InvB, ResetOwned, NEW a \in Actors, StepOf(a)
    PROVE  ResetOwned'
<1>1. /\ InvA /\ TypeOK /\ AcquireInv /\ None \notin Actors
      /\ lock \in [Limiters -> [Sides -> Actors \cup {None}]]
      /\ at \in [Actors -> Limiters \cup {None}]
    BY WrapperAssumption DEF InvB, InvA, TypeOK
<1>2. /\ \A b \in Actors \ {a} : pc'[b] = pc[b] /\ at'[b] = at[b]
      /\ \A v \in Limiters : impl[v] # None => impl'[v] = impl[v]
      /\ \A w \in Limiters : Proper(w)' => Proper(w)
      /\ ResetHandling(a)
    BY <1>1, StepHandles, StepStays, ResetHandles DEF OthersStay
<1>3. \A b \in Actors : pc[b] \in Entered => W(b) \in Limiters /\ Side(b) \in Sides
    BY <1>1, OnWrapper
<1>4. ASSUME NEW b \in Actors, pc[b] \in Entered, at'[b] = at[b] PROVE W(b)' = W(b)
    BY <1>1, <1>2, <1>4, OnWrapper DEF W
<1>5. \A b \in Actors : Side(b)' = Side(b)
    BY DEF Side
<1>6. Critical \subseteq Entered /\ Critical' = Critical
    BY Elsewhere DEF Critical, Lowering
<1> SUFFICES ASSUME NEW w \in Limiters, NEW s \in Sides, Proper(w)',
                    NEW h, h = lock'[w][s], h # None
             PROVE  pc'[h] \in Critical /\ W(h)' = w /\ Side(h) = s
    BY DEF ResetOwned, Critical, Lowering, Side, W
<1>7. Proper(w)
    BY <1>2
<1>8. ASSUME h = lock[w][s]
      PROVE  h \in Actors /\ pc[h] \in Critical /\ pc[h] \in Entered /\ W(h) = w /\ Side(h) = s
    BY <1>1, <1>6, <1>7, <1>8 DEF ResetOwned
<1>9. ASSUME h = lock[w][s], h # a
      PROVE  pc'[h] \in Critical /\ W(h)' = w /\ Side(h) = s
  <2>1. h \in Actors /\ pc[h] \in Critical /\ pc[h] \in Entered /\ W(h) = w /\ Side(h) = s
    BY <1>8, <1>9
  <2>2. pc'[h] = pc[h] /\ at'[h] = at[h]
    BY <1>2, <1>9, <2>1
  <2>3. W(h)' = W(h)
    BY <1>4, <2>1, <2>2
  <2>. QED BY <2>1, <2>2, <2>3
<1>10. CASE /\ lock' = lock
            /\ pc[a] \in Critical =>
                  ~ Proper(W(a)) \/ (pc'[a] \in Critical /\ at'[a] = at[a])
  <2>1. CASE h # a
    BY <1>9, <1>10, <2>1
  <2>2. CASE h = a
    <3>1. pc[a] \in Critical /\ pc[a] \in Entered /\ W(a) = w /\ Side(a) = s
        BY <1>8, <1>10, <2>2
    <3>2. pc'[a] \in Critical /\ at'[a] = at[a]
        BY <1>7, <1>10, <3>1
    <3>3. W(a)' = W(a)
        BY <1>4, <3>1, <3>2
    <3>. QED BY <2>2, <3>1, <3>2, <3>3
  <2>. QED BY <2>1, <2>2
<1>11. CASE /\ lock' = [lock EXCEPT ![W(a)][Side(a)] = a]
            /\ pc'[a] \in Critical /\ at'[a] = at[a] /\ pc[a] \in Entered
  <2>1. W(a)' = W(a) /\ W(a) \in Limiters /\ Side(a) \in Sides
    BY <1>3, <1>4, <1>11
  <2>2. CASE w = W(a) /\ s = Side(a)
    <3>1. h = a
        BY <1>1, <1>11, <2>1, <2>2
    <3>. QED BY <1>11, <2>1, <2>2, <3>1
  <2>3. CASE ~ (w = W(a) /\ s = Side(a))
    <3>1. h = lock[w][s]
        BY <1>1, <1>11, <2>1, <2>3
    <3>2. h # a
        BY <1>8, <2>3, <3>1
    <3>. QED BY <1>9, <3>1, <3>2
  <2>. QED BY <2>2, <2>3
<1>12. CASE lock' = [lock EXCEPT ![W(a)][Side(a)] = None] /\ pc[a] \in Entered
  <2>1. W(a) \in Limiters /\ Side(a) \in Sides
    BY <1>3, <1>12
  <2>2. ~ (w = W(a) /\ s = Side(a)) /\ h = lock[w][s]
    BY <1>1, <1>12, <2>1
  <2>3. h # a
    BY <1>8, <2>2
  <2>. QED BY <1>9, <2>2, <2>3
<1>13. CASE /\ lock' = [lock EXCEPT ![at[a]] = [r \in Sides |-> None]]
            /\ pc[a] \notin Critical
  <2>1. h = lock[w][s]
    BY <1>1, <1>13
  <2>2. h # a
    BY <1>8, <1>13, <2>1
  <2>. QED BY <1>9, <2>1, <2>2
<1>. QED BY <1>2, <1>10, <1>11, <1>12, <1>13 DEF ResetHandling

\* With the invariant of the wrappers, the owners of the locks are an inductive one.
LEMMA OwnersKept ==
    InvB /\ Owners /\ [Next]_vars => Owners'
<1> SUFFICES ASSUME InvB, Owners, [Next]_vars PROVE Owners'
    OBVIOUS
<1>1. InvA
    BY DEF InvB
<1>2. CASE UNCHANGED vars
    BY <1>2 DEF vars, Owners, InitOwned, MapOwned, ResetOwned, OneRuns, Proper, OneSide, W,
                Side
<1>3. CASE Next
  <2>1. PICK a \in Actors : StepOf(a)
    BY <1>3 DEF Next, StepOf
  <2>. QED BY <1>1, <2>1, StepHandles, InitOwnedKept, MapOwnedKept, OneRunsKept,
              ResetOwnedKept DEF Owners
<1>. QED BY <1>2, <1>3

\* A caller that holds a lock of acquire or of a reset waits at most for _MAP_LOCK, and
\* no other coroutine holds it up.
LEMMA OwnerRuns ==
    ASSUME Owners, InvA, NEW h \in Actors, pc[h] \in Acquiring \cup Critical
    PROVE  Runs(h)
<1>1. pc[h] \notin AwaitStates
    BY DEF Acquiring, Critical, Lowering, AwaitStates
<1>. QED BY <1>1 DEF Owners, OneRuns, Runs

\* No request waits for ever: on wrappers reset from one side, whichever threads and
\* coroutines are inside acquire, __enter__ and the resets, one of them can go on.  No
\* lock is kept, none is waited for in a circle, and no coroutine waits for a lock
\* that needs the event loop it holds.  (Calls are bounded in a run; TLC checks that
\* they return, EveryCallReturns.)
THEOREM NoDeadlock == Spec => []NobodyStuck
<1>1. Init => InvB /\ Owners
  <2> SUFFICES ASSUME Init PROVE Owners
    BY InitInvB
  <2>1. InitOwned /\ MapOwned /\ OneRuns
    BY DEF Init, InitOwned, MapOwned, OneRuns, AwaitStates, Actors
  <2>2. ResetOwned
    BY DEF Init, ResetOwned
  <2>. QED BY <2>1, <2>2 DEF Owners
<1>2. InvB /\ Owners /\ [Next]_vars => (InvB /\ Owners)'
    BY NextInvB, OwnersKept
<1>3. InvB /\ Owners => NobodyStuck
  <2> SUFFICES ASSUME InvB, Owners, NEW a \in Actors, pc[a] # "idle",
                      W(a) # None => Proper(W(a))
               PROVE  \E b \in Actors : Free(b)
    BY DEF NobodyStuck
  <2>1. /\ InvA /\ TypeOK /\ AcquireInv /\ InitOwned /\ MapOwned /\ ResetOwned
        /\ initLock \in [Limiters -> Actors \cup {None}] /\ mapLock \in Actors \cup {None}
        /\ lock \in [Limiters -> [Sides -> Actors \cup {None}]]
        /\ at \in [Actors -> Limiters \cup {None}]
    BY DEF InvB, InvA, TypeOK, Owners
  <2>2. PICK x \in Actors : /\ pc[x] # "idle" /\ Runs(x)
                            /\ pc[x] = "lock" => x = a
    <3>1. CASE Runs(a)
        BY <3>1
    <3>2. CASE ~ Runs(a)
      <4>1. PICK c \in Coroutines : pc[c] \notin AwaitStates
        BY <3>2 DEF Runs
      <4>2. c \in Actors /\ pc[c] \notin {"idle", "lock"}
        BY <4>1 DEF Actors, AwaitStates
      <4>3. Runs(c)
        BY <4>1 DEF Owners, OneRuns, Runs
      <4>. QED BY <4>2, <4>3
    <3>. QED BY <3>1, <3>2
  <2>3. ASSUME NEW h \in Actors, pc[h] \in {"make", "link"} \cup Critical
        PROVE  Free(h)
    <3>1. pc[h] \notin {"idle", "init", "map", "lock"}
        BY <2>3 DEF Critical, Lowering
    <3>2. Runs(h)
        BY <2>1, <2>3, OwnerRuns DEF Acquiring
    <3>. QED BY <3>1, <3>2 DEF Free
  <2>4. ASSUME NEW h \in Actors, pc[h] = "map", Runs(h)
        PROVE  \E b \in Actors : Free(b)
    <3>1. CASE MapIsFree(h)
        BY <2>4, <3>1 DEF Free
    <3>2. CASE ~ MapIsFree(h)
      <4>1. mapLock \in Actors /\ pc[mapLock] = "make"
        BY <2>1, <3>2 DEF MapIsFree, MapOwned
      <4>. QED BY <2>3, <4>1
    <3>. QED BY <3>1, <3>2
  <2>5. CASE pc[x] = "init"
    <3>1. at[x] \in Limiters
        BY <2>1, <2>2 DEF AcquireInv
    <3>2. CASE initLock[at[x]] = None
        BY <2>2, <2>5, <3>2 DEF Free
    <3>3. CASE initLock[at[x]] # None
      <4>1. PICK h \in Actors : h = initLock[at[x]] /\ pc[h] \in Acquiring
        BY <2>1, <3>1, <3>3 DEF InitOwned
      <4>2. Runs(h)
        BY <2>1, <4>1, OwnerRuns
      <4>. QED BY <2>3, <2>4, <4>1, <4>2 DEF Acquiring
    <3>. QED BY <3>2, <3>3
  <2>6. CASE pc[x] = "map"
    BY <2>2, <2>4, <2>6
  <2>7. CASE pc[x] = "lock"
    <3>1. /\ W(x) \in Limiters /\ Side(x) \in Sides /\ Proper(W(x))
      <4>1. pc[x] \in Entered
        BY <2>7 DEF Entered, CallerStates, AwaitStates
      <4>. QED BY <2>1, <2>2, <2>7, <4>1, OnWrapper
    <3>2. CASE lock[W(x)][Side(x)] = None
        BY <2>2, <2>7, <3>2 DEF Free
    <3>3. CASE lock[W(x)][Side(x)] # None
      <4>1. PICK h \in Actors : h = lock[W(x)][Side(x)]
        BY <2>1, <3>1, <3>3
      <4>2. pc[h] \in Critical
        BY <2>1, <3>1, <3>3, <4>1 DEF ResetOwned
      <4>. QED BY <2>3, <4>2
    <3>. QED BY <3>2, <3>3
  <2>8. CASE pc[x] \notin {"init", "map", "lock"}
    BY <2>2, <2>8 DEF Free
  <2>. QED BY <2>5, <2>6, <2>7, <2>8
<1>. QED BY <1>1, <1>2, <1>3, PTL DEF Spec

=============================================================================
