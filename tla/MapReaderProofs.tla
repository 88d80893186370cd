--------------------------- MODULE MapReaderProofs ---------------------------
(***************************************************************************)
(* Theorems about MapReader, for any threads, any number of batches, any   *)
(* batch sizes and whatever the user's function returns.                   *)
(***************************************************************************)
EXTENDS MapReader, SequenceTheorems, WellFoundedInduction, TLAPS

\* What RemoveAt leaves: the elements before and, moved up by one, those after.
LEMMA RemoveAtElements ==
    ASSUME NEW S, NEW s \in Seq(S), NEW i \in 1 .. Len(s)
    PROVE  /\ RemoveAt(s, i) \in Seq(S)
           /\ Len(RemoveAt(s, i)) = Len(s) - 1
           /\ \A j \in 1 .. Len(s) - 1 :
                 RemoveAt(s, i)[j] = IF j < i THEN s[j] ELSE s[j + 1]
<1> DEFINE a == SubSeq(s, 1, i - 1)
           b == SubSeq(s, i + 1, Len(s))
<1>1. /\ a \in Seq(S) /\ Len(a) = i - 1
      /\ \A j \in 1 .. i - 1 : a[j] = s[j]
    BY SubSeqProperties
<1>2. /\ b \in Seq(S) /\ Len(b) = Len(s) - i
      /\ \A j \in 1 .. Len(s) - i : b[j] = s[i + j]
  <2>1. Len(s) \in Nat /\ i + 1 \in 1 .. Len(s) + 1
    OBVIOUS
  <2>2. /\ b \in Seq(S)
        /\ Len(b) = IF i + 1 <= Len(s) THEN Len(s) - (i + 1) + 1 ELSE 0
        /\ \A j \in 1 .. Len(s) - (i + 1) + 1 : b[j] = s[i + 1 + j - 1]
    BY <2>1, SubSeqProperties
  <2>. QED BY <2>1, <2>2
<1> HIDE DEF a, b
<1>3. /\ a \o b \in Seq(S) /\ Len(a \o b) = Len(s) - 1
      /\ \A j \in 1 .. Len(s) - 1 :
            (a \o b)[j] = IF j <= i - 1 THEN a[j] ELSE b[j - (i - 1)]
  <2>1. /\ a \o b \in Seq(S) /\ Len(a \o b) = Len(a) + Len(b)
        /\ \A j \in 1 .. Len(a) + Len(b) :
              (a \o b)[j] = IF j <= Len(a) THEN a[j] ELSE b[j - Len(a)]
    BY <1>1, <1>2, ConcatProperties, Zenon
  <2>2. Len(a) = i - 1 /\ Len(a) + Len(b) = Len(s) - 1
    BY <1>1, <1>2
  <2>. QED BY <2>1, <2>2
<1>4. \A j \in 1 .. Len(s) - 1 : (a \o b)[j] = IF j < i THEN s[j] ELSE s[j + 1]
  <2> SUFFICES ASSUME NEW j \in 1 .. Len(s) - 1
               PROVE  (a \o b)[j] = IF j < i THEN s[j] ELSE s[j + 1]
    OBVIOUS
  <2>1. CASE j < i
    BY <1>1, <1>3, <2>1
  <2>2. CASE ~ j < i
    <3>1. j - (i - 1) \in 1 .. Len(s) - i /\ i + (j - (i - 1)) = j + 1
        BY <2>2
    <3>. QED BY <1>2, <1>3, <2>2, <3>1
  <2>. QED BY <2>1, <2>2
<1>. QED BY <1>3, <1>4 DEF RemoveAt, a, b

\* A queue that is not empty has a front, of an ordered one the least element.
LEMMA FrontExists ==
    ASSUME queue \in Seq(Batches), queue # <<>>, Total \in Nat
    PROVE  /\ Front \in 1 .. Len(queue)
           /\ ordered => \A j \in 1 .. Len(queue) : queue[Front] <= queue[j]
<1>1. Len(queue) \in Nat \ {0}
    BY EmptySeq
<1>2. \A i \in 1 .. Len(queue) : queue[i] \in Nat
    BY ElementOfSeq DEF Batches
<1> DEFINE T == {queue[i] : i \in 1 .. Len(queue)}
<1>3. T \subseteq Nat /\ T # {}
    BY <1>1, <1>2
<1>4. PICK x \in T : \A y \in T : ~ (<<y, x>> \in OpToRel(<, Nat))
    BY <1>3, WFMin, NatLessThanWellFounded, Zenon
<1>5. \A y \in T : x <= y
  <2> SUFFICES ASSUME NEW y \in T PROVE x <= y
    OBVIOUS
  <2>1. x \in Nat /\ y \in Nat
    BY <1>3
  <2>2. ~ (y < x)
    <3>1. <<y, x>> \in Nat \X Nat /\ <<y, x>>[1] = y /\ <<y, x>>[2] = x
        BY <2>1
    <3>2. y < x => <<y, x>> \in OpToRel(<, Nat)
        BY <3>1, Zenon DEF OpToRel
    <3>. QED BY <1>4, <3>2, Zenon
  <2>. QED BY <2>1, <2>2
<1>6. PICK i \in 1 .. Len(queue) : queue[i] = x
    OBVIOUS
<1>7. \A j \in 1 .. Len(queue) : queue[i] <= queue[j]
    BY <1>5, <1>6
<1> DEFINE Least(j) == \A l \in 1 .. Len(queue) : queue[j] <= queue[l]
<1>8. CASE ordered
  <2>1. Front = CHOOSE j \in 1 .. Len(queue) : Least(j)
    BY <1>8 DEF Front
  <2>2. \E j \in 1 .. Len(queue) : Least(j)
    BY <1>6, <1>7
  <2> HIDE DEF Least
  <2>3. Front \in 1 .. Len(queue) /\ Least(Front)
    BY <2>1, <2>2, Zenon
  <2>. QED BY <2>3 DEF Least
<1>9. CASE ~ ordered
    BY <1>1, <1>9 DEF Front
<1>. QED BY <1>8, <1>9

-----------------------------------------------------------------------------
(* The invariant.                                                           *)

\* Where each batch is dealt, and that the caller does not look at the front of an
\* empty queue.
Dealing ==
    /\ \A w \in Workers :
          /\ dealer = w <=> pc[w] = "advance"
          /\ pc[w] = "advance" => task[w] = index
          /\ pc[w] \in {"work", "put"} => task[w] < index
    /\ \A i \in 1 .. Len(queue) : queue[i] < index
    /\ \A i \in 1 .. Len(given) : given[i] < index
    /\ reader \in {"take", "doze", "awake?"} => queue # <<>>

\* A batch in the hands of a thread was not given; and data_id is how many batches
\* the caller has had, not above one if batches have more than one row.
Placed ==
    /\ \A w \in Workers, i \in 1 .. Len(given) : InHand(w) => given[i] # task[w]
    /\ ordered => /\ ~ Stopped => dataId = Len(given)
                  /\ size # 1 => dataId <= 1

Inv == TypeOK /\ Dealing /\ DealtOnce /\ Placed

\* What the caller wants of an ordered table is the batch of number data_id.
LEMMA WantedIsNext ==
    ASSUME NEW n \in Nat, NEW s \in Nat \ {0}, NEW d \in Nat,
           n * s = d, s # 1 => d <= 1
    PROVE  n = d
<1>1. CASE s = 1
    BY <1>1
<1>2. CASE s # 1 /\ n = 0
    BY <1>2
<1>3. CASE s # 1 /\ n # 0
  <2>1. s >= 2 /\ n >= 1
    BY <1>3
  <2>2. n * s >= 2
    BY <2>1
  <2>. QED BY <1>3, <2>2
<1>. QED BY <1>1, <1>2, <1>3

\* Initially no batch is anywhere.
LEMMA InitInv == Init => Inv
<1> SUFFICES ASSUME Init PROVE Inv
    OBVIOUS
<1>1. 0 \in Batches /\ Total \in Nat /\ None \notin Workers
    BY ReaderAssumption DEF Batches
<1>2. queue = <<>> /\ given = <<>> /\ Len(queue) = 0 /\ Len(given) = 0
      /\ queue \in Seq(Batches) /\ given \in Seq(Batches)
    BY DEF Init
<1>3. \A w \in Workers : pc[w] = "get"
    BY DEF Init
<1>4. TypeOK
    BY <1>1, <1>2 DEF Init, TypeOK, WorkerStates, ReaderStates
<1>5. Dealing
    BY <1>1, <1>2, <1>3 DEF Init, Dealing
<1>6. DealtOnce /\ Placed
    BY <1>1, <1>2, <1>3 DEF Init, DealtOnce, Placed, InHand
<1>. QED BY <1>4, <1>5, <1>6 DEF Inv

\* The places where a thread has no batch in its hands and does not deal.
Empty == {"get", "wake", "barrier", "mark", "release", "end", "dead"}

\* A step that moves no batch keeps the invariant.
LEMMA NoBatchMoves ==
    ASSUME Inv, UNCHANGED <<input, dispatcher, task, queue, dataId, given>>,
           pc' \in [Workers -> WorkerStates],
           \A w \in Workers : \/ pc'[w] = pc[w]
                              \/ pc[w] \in Empty /\ pc'[w] \in Empty
                              \/ pc[w] = "work" /\ pc'[w] \in {"put", "dead"},
           permits' \in Nat, done' \in BOOLEAN, late' \subseteq Batches,
           reader' \in ReaderStates,
           reader' \in {"take", "doze", "awake?"} => queue # <<>>,
           Stopped => Stopped'
    PROVE  Inv'
<1>1. /\ size' = size /\ ordered' = ordered /\ result' = result /\ index' = index
      /\ dealer' = dealer /\ task' = task /\ queue' = queue /\ dataId' = dataId
      /\ given' = given
    BY DEF input, dispatcher
<1>2. TypeOK'
    BY <1>1 DEF Inv, TypeOK
<1>3. \A w \in Workers :
         /\ pc'[w] = "advance" <=> pc[w] = "advance"
         /\ pc'[w] \in {"work", "put"} => pc[w] \in {"work", "put"}
         /\ InHand(w)' => InHand(w)
    BY DEF Empty, InHand
<1>4. Dealing'
    BY <1>1, <1>3 DEF Inv, Dealing
<1>5. DealtOnce'
    BY <1>1, <1>3 DEF Inv, DealtOnce
<1>6. Placed'
    BY <1>1, <1>3 DEF Inv, Placed
<1>. QED BY <1>2, <1>4, <1>5, <1>6 DEF Inv

\* A thread goes from one place to another.
LEMMA Goes ==
    ASSUME TypeOK, NEW w \in Workers, NEW s, NEW t \in WorkerStates, Step(w, s, t)
    PROVE  /\ pc[w] = s /\ pc'[w] = t
           /\ pc' \in [Workers -> WorkerStates]
           /\ \A u \in Workers \ {w} : pc'[u] = pc[u]
BY DEF TypeOK, Step

-----------------------------------------------------------------------------
(* The threads.                                                             *)

\* A thread that finds the index is the only one dealing, and goes on to batch index.
LEMMA GetTaskKeeps ==
    ASSUME Inv, NEW w \in Workers, GetTask(w)
    PROVE  Inv'
<1>1. /\ UNCHANGED <<input, index, queue, permits, done, caller, late>>
      /\ dealer = None /\ None \notin Workers /\ Total \in Nat
    BY ReaderAssumption DEF GetTask, DealerIsFree
<1>2. CASE NoneLeft
  <2>1. Step(w, "get", "barrier") /\ dealer' = dealer
        /\ task' = [task EXCEPT ![w] = 0]
    BY <1>2 DEF GetTask
  <2>2. "barrier" \in WorkerStates
    BY DEF WorkerStates
  <2>3. /\ pc[w] = "get" /\ pc'[w] = "barrier" /\ pc' \in [Workers -> WorkerStates]
        /\ \A u \in Workers \ {w} : pc'[u] = pc[u]
    BY <2>1, <2>2, Goes DEF Inv
  <2>4. task' \in [Workers -> Batches] /\ \A u \in Workers \ {w} : task'[u] = task[u]
    BY <2>1, ReaderAssumption DEF Inv, TypeOK, Batches
  <2>5. ~ InHand(w)' /\ \A u \in Workers : InHand(u)' => InHand(u) /\ u # w
    BY <2>3 DEF InHand
  <2>6. TypeOK'
    BY <1>1, <2>1, <2>3, <2>4 DEF Inv, TypeOK, input, caller
  <2>7. Dealing'
    BY <1>1, <2>1, <2>3, <2>4 DEF Inv, Dealing, caller
  <2>8. DealtOnce' /\ Placed'
    BY <1>1, <2>4, <2>5 DEF Inv, DealtOnce, Placed, Stopped, caller, input
  <2>. QED BY <2>6, <2>7, <2>8 DEF Inv
<1>3. CASE ~ NoneLeft
  <2>1. Step(w, "get", "advance") /\ dealer' = w
        /\ task' = [task EXCEPT ![w] = index]
    BY <1>3 DEF GetTask
  <2>2. "advance" \in WorkerStates /\ index \in Batches
    BY <1>1, <1>3 DEF WorkerStates, Inv, TypeOK, Batches, NoneLeft
  <2>3. /\ pc[w] = "get" /\ pc'[w] = "advance" /\ pc' \in [Workers -> WorkerStates]
        /\ \A u \in Workers \ {w} : pc'[u] = pc[u]
    BY <2>1, <2>2, Goes DEF Inv
  <2>4. /\ task' \in [Workers -> Batches] /\ task'[w] = index
        /\ \A u \in Workers \ {w} : task'[u] = task[u]
    BY <2>1, <2>2 DEF Inv, TypeOK
  <2>5. \A u \in Workers \ {w} :
           /\ pc[u] # "advance" /\ InHand(u)' = InHand(u)
           /\ InHand(u) => task[u] < index
    BY <1>1, <2>3 DEF InHand, Inv, Dealing
  <2>6. /\ \A i \in 1 .. Len(queue) : queue[i] < index
        /\ \A i \in 1 .. Len(given) : given[i] < index
        /\ index \in Nat
    BY DEF Inv, Dealing, TypeOK
  <2>7. TypeOK'
    BY <1>1, <2>1, <2>3, <2>4 DEF Inv, TypeOK, input, caller
  <2>8. Dealing'
    BY <1>1, <2>1, <2>3, <2>4, <2>5 DEF Inv, Dealing, caller
  <2>9. DealtOnce'
    BY <1>1, <2>4, <2>5, <2>6 DEF Inv, DealtOnce, caller, input
  <2>10. Placed'
    BY <1>1, <2>4, <2>5, <2>6 DEF Inv, Placed, Stopped, caller, input
  <2>. QED BY <2>7, <2>8, <2>9, <2>10 DEF Inv
<1>. QED BY <1>2, <1>3

\* The index moves past the batch that is being dealt.
LEMMA AdvanceKeeps ==
    ASSUME Inv, NEW w \in Workers, Advance(w)
    PROVE  Inv'
<1>1. /\ UNCHANGED <<input, task, queue, permits, done, caller, late>>
      /\ Step(w, "advance", "work") /\ index' = task[w] + 1 /\ dealer' = None
      /\ None \notin Workers /\ Total \in Nat
    BY ReaderAssumption DEF Advance
<1>2. "work" \in WorkerStates
    BY DEF WorkerStates
<1>3. /\ pc[w] = "advance" /\ pc'[w] = "work" /\ pc' \in [Workers -> WorkerStates]
      /\ \A u \in Workers \ {w} : pc'[u] = pc[u]
    BY <1>1, <1>2, Goes DEF Inv
<1>4. /\ task[w] = index /\ dealer = w /\ task[w] \in Batches
      /\ \A u \in Workers \ {w} : pc[u] # "advance"
    BY <1>3 DEF Inv, Dealing, TypeOK
<1>5. index' \in 0 .. Total /\ index' = index + 1 /\ index \in Nat
    BY <1>1, <1>4 DEF Batches
<1>6. \A u \in Workers : InHand(u)' = InHand(u)
    BY <1>3 DEF InHand
<1>7. TypeOK'
    BY <1>1, <1>3, <1>5 DEF Inv, TypeOK, input, caller
<1>8. /\ \A u \in Workers : task[u] \in Nat
      /\ \A i \in 1 .. Len(queue) : queue[i] \in Nat
      /\ \A i \in 1 .. Len(given) : given[i] \in Nat
  <2>1. \A n \in Batches : n \in Nat
    BY DEF Batches
  <2>2. /\ task \in [Workers -> Batches] /\ queue \in Seq(Batches)
        /\ given \in Seq(Batches)
    BY DEF Inv, TypeOK
  <2>. QED BY <2>1, <2>2, ElementOfSeq
<1>9. Dealing'
    BY <1>1, <1>3, <1>4, <1>5, <1>8 DEF Inv, Dealing, caller
<1>10. DealtOnce' /\ Placed'
    BY <1>1, <1>6 DEF Inv, DealtOnce, Placed, Stopped, caller, input
<1>. QED BY <1>7, <1>9, <1>10 DEF Inv

\* A batch goes from the hands of its thread to the end of the queue.
LEMMA PutKeeps ==
    ASSUME Inv, NEW w \in Workers, Put(w)
    PROVE  Inv'
<1>1. /\ UNCHANGED <<input, dispatcher, task, permits, done, caller>>
      /\ Step(w, "put", "wake") /\ queue' = Append(queue, task[w])
      /\ late' = late \cup {task[w]}
    BY DEF Put
<1>2. "wake" \in WorkerStates
    BY DEF WorkerStates
<1>3. /\ pc[w] = "put" /\ pc'[w] = "wake" /\ pc' \in [Workers -> WorkerStates]
      /\ \A u \in Workers \ {w} : pc'[u] = pc[u]
    BY <1>1, <1>2, Goes DEF Inv
<1>4. /\ task[w] \in Batches /\ queue \in Seq(Batches) /\ Len(queue) \in Nat
      /\ task[w] < index
    BY <1>3 DEF Inv, TypeOK, Dealing
<1>5. /\ queue' \in Seq(Batches) /\ Len(queue') = Len(queue) + 1
      /\ queue'[Len(queue) + 1] = task[w]
      /\ \A i \in 1 .. Len(queue) : queue'[i] = queue[i]
      /\ queue' # <<>>
    BY <1>1, <1>4
<1>6. \A i \in 1 .. Len(queue') : i \in 1 .. Len(queue) \/ i = Len(queue) + 1
    BY <1>4, <1>5
<1>7. InHand(w) /\ ~ InHand(w)' /\ \A u \in Workers \ {w} : InHand(u)' = InHand(u)
    BY <1>3 DEF InHand
<1>8. TypeOK'
    BY <1>1, <1>3, <1>4, <1>5 DEF Inv, TypeOK, input, caller, dispatcher
<1>9. Dealing'
  <2>1. \A i \in 1 .. Len(queue') : queue'[i] < index
    BY <1>4, <1>5, <1>6 DEF Inv, Dealing
  <2>. QED BY <1>1, <1>3, <1>5, <2>1 DEF Inv, Dealing, caller, dispatcher
<1>10. DealtOnce'
  <2>1. /\ \A u \in Workers \ {w} : InHand(u) => task[u] # task[w]
        /\ \A i \in 1 .. Len(queue) : queue[i] # task[w]
        /\ \A i \in 1 .. Len(given) : given[i] # task[w]
    BY <1>7 DEF Inv, DealtOnce, Placed
  <2>2. \A u, v \in Workers :
           InHand(u)' /\ InHand(v)' /\ task[u] = task[v] => u = v
    BY <1>7 DEF Inv, DealtOnce
  <2>3. \A u \in Workers, i \in 1 .. Len(queue') : InHand(u)' => queue'[i] # task[u]
    BY <1>5, <1>6, <1>7, <2>1 DEF Inv, DealtOnce
  <2>4. \A i, j \in 1 .. Len(queue') : queue'[i] = queue'[j] => i = j
    BY <1>5, <1>6, <2>1 DEF Inv, DealtOnce
  <2>5. \A i \in 1 .. Len(given), j \in 1 .. Len(queue') : given[i] # queue'[j]
    BY <1>5, <1>6, <2>1 DEF Inv, DealtOnce
  <2>. QED BY <1>1, <2>2, <2>3, <2>4, <2>5 DEF Inv, DealtOnce, caller, input
<1>11. Placed'
    BY <1>1, <1>7 DEF Inv, Placed, Stopped, caller, input
<1>. QED BY <1>8, <1>9, <1>10, <1>11 DEF Inv

\* The other steps of a thread move no batch.
LEMMA WorkerKeeps ==
    ASSUME Inv, NEW w \in Workers, Worker(w)
    PROVE  Inv'
<1> USE DEF Empty
<1>0. TypeOK
    BY DEF Inv
<1>1. CASE Work(w)
  <2>1. PICK t \in {"put", "dead"} : Step(w, "work", t)
    BY <1>1 DEF Work
  <2>2. t \in WorkerStates
    BY DEF WorkerStates
  <2>3. /\ pc[w] = "work" /\ pc'[w] = t /\ pc' \in [Workers -> WorkerStates]
        /\ \A u \in Workers \ {w} : pc'[u] = pc[u]
    BY <1>0, <2>1, <2>2, Goes
  <2>. QED BY <1>1, <2>3, NoBatchMoves DEF Work, Inv, TypeOK, Dealing, Stopped, caller
<1>2. CASE WakeReader(w)
  <2>1. "get" \in WorkerStates /\ Step(w, "wake", "get") /\ permits' \in Nat
    BY <1>0, <1>2 DEF WakeReader, WorkerStates, TypeOK
  <2>2. /\ pc[w] = "wake" /\ pc'[w] = "get" /\ pc' \in [Workers -> WorkerStates]
        /\ \A u \in Workers \ {w} : pc'[u] = pc[u]
    BY <1>0, <2>1, Goes
  <2>. QED BY <1>2, <2>1, <2>2, NoBatchMoves
           DEF WakeReader, Inv, TypeOK, Dealing, Stopped, caller
<1>3. CASE ReachBarrier(w)
  <2>1. PICK t \in {"mark", "end"} : Step(w, "barrier", t)
    BY <1>3 DEF ReachBarrier
  <2>2. t \in WorkerStates
    BY DEF WorkerStates
  <2>3. /\ pc[w] = "barrier" /\ pc'[w] = t /\ pc' \in [Workers -> WorkerStates]
        /\ \A u \in Workers \ {w} : pc'[u] = pc[u]
    BY <1>0, <2>1, <2>2, Goes
  <2>. QED BY <1>3, <2>3, NoBatchMoves
           DEF ReachBarrier, Inv, TypeOK, Dealing, Stopped, caller
<1>4. CASE MarkDone(w)
  <2>1. "release" \in WorkerStates /\ Step(w, "mark", "release")
    BY <1>4 DEF MarkDone, WorkerStates
  <2>2. /\ pc[w] = "mark" /\ pc'[w] = "release" /\ pc' \in [Workers -> WorkerStates]
        /\ \A u \in Workers \ {w} : pc'[u] = pc[u]
    BY <1>0, <2>1, Goes
  <2>. QED BY <1>4, <2>1, <2>2, NoBatchMoves
           DEF MarkDone, Inv, TypeOK, Dealing, Stopped, caller
<1>5. CASE ReleaseReader(w)
  <2>1. "end" \in WorkerStates /\ Step(w, "release", "end") /\ permits' \in Nat
    BY <1>0, <1>5 DEF ReleaseReader, WorkerStates, TypeOK
  <2>2. /\ pc[w] = "release" /\ pc'[w] = "end" /\ pc' \in [Workers -> WorkerStates]
        /\ \A u \in Workers \ {w} : pc'[u] = pc[u]
    BY <1>0, <2>1, Goes
  <2>. QED BY <1>5, <2>1, <2>2, NoBatchMoves
           DEF ReleaseReader, Inv, TypeOK, Dealing, Stopped, caller
<1>. QED BY <1>1, <1>2, <1>3, <1>4, <1>5, GetTaskKeeps, AdvanceKeeps, PutKeeps
         DEF Worker

-----------------------------------------------------------------------------
(* The caller.                                                              *)

\* The caller takes the batch it wants from the queue.
LEMMA TakeKeeps ==
    ASSUME Inv, TakeWanted
    PROVE  Inv'
<1> DEFINE f == Front
           n == queue[f]
           last == Len(queue) - 1
<1>1. /\ UNCHANGED <<input, threads, permits, late>> /\ reader = "take"
      /\ queue' = RemoveAt(queue, f) /\ Wanted(n)
      /\ reader' = IF result[n] = "nothing" THEN "stopped" ELSE "empty?"
      /\ given' = IF result[n] = "nothing" THEN given ELSE Append(given, n)
      /\ dataId' = IF ordered THEN dataId + 1 ELSE dataId
    BY DEF TakeWanted
<1>2. /\ queue \in Seq(Batches) /\ given \in Seq(Batches) /\ queue # <<>>
      /\ Total \in Nat /\ Len(queue) \in Nat /\ Len(given) \in Nat
      /\ dataId \in Nat /\ size \in Nat \ {0}
    BY <1>1, ReaderAssumption DEF Inv, TypeOK, Dealing
<1>3. f \in 1 .. Len(queue) /\ n \in Batches /\ n \in Nat
    BY <1>2, FrontExists DEF Batches
<1> HIDE DEF f
<1>4. /\ queue' \in Seq(Batches) /\ Len(queue') = last
      /\ \A j \in 1 .. last : queue'[j] = IF j < f THEN queue[j] ELSE queue[j + 1]
    BY <1>1, <1>2, <1>3, RemoveAtElements
<1> DEFINE old(j) == IF j < f THEN j ELSE j + 1
<1>5. \A j \in 1 .. last : old(j) \in 1 .. Len(queue) /\ old(j) # f
                           /\ queue'[j] = queue[old(j)]
    BY <1>2, <1>3, <1>4
<1>6. \A i, j \in 1 .. last : old(i) = old(j) => i = j
    BY <1>2, <1>3
<1> HIDE DEF old
<1>7. /\ index' = index /\ dealer' = dealer /\ pc' = pc /\ task' = task
      /\ done' = done /\ size' = size /\ ordered' = ordered /\ result' = result
    BY <1>1 DEF threads, input
<1>8. \A w \in Workers : InHand(w)' = InHand(w)
    BY <1>7 DEF InHand
<1>9. /\ given' \in Seq(Batches)
      /\ \A i \in 1 .. Len(given') :
            \/ i \in 1 .. Len(given) /\ given'[i] = given[i]
            \/ i = Len(given) + 1 /\ given'[i] = n
    BY <1>1, <1>2, <1>3
<1>10. /\ \A j \in 1 .. last : queue'[j] # n
       /\ \A w \in Workers : InHand(w) => task[w] # n
       /\ \A i \in 1 .. Len(given) : given[i] # n
       /\ n < index
    BY <1>3, <1>5 DEF Inv, DealtOnce, Dealing
<1>11. ordered => n = dataId /\ dataId = Len(given)
  <2>1. ordered => n * size = dataId /\ (size # 1 => dataId <= 1)
    BY <1>1 DEF Wanted, Id, Inv, Placed
  <2>2. ordered => dataId = Len(given)
    BY <1>1 DEF Inv, Placed, Stopped
  <2>. QED BY <1>2, <1>3, <2>1, <2>2, WantedIsNext
<1>12. TypeOK'
    BY <1>1, <1>2, <1>4, <1>7, <1>9 DEF Inv, TypeOK, ReaderStates
<1>13. Dealing'
  <2>1. \A i \in 1 .. Len(queue') : queue'[i] < index
    BY <1>4, <1>5 DEF Inv, Dealing
  <2>2. \A i \in 1 .. Len(given') : given'[i] < index
    BY <1>9, <1>10 DEF Inv, Dealing
  <2>. QED BY <1>1, <1>7, <2>1, <2>2 DEF Inv, Dealing
<1>14. DealtOnce'
  <2>1. \A w \in Workers, i \in 1 .. Len(queue') : InHand(w) => queue'[i] # task[w]
    BY <1>4, <1>5 DEF Inv, DealtOnce
  <2>2. \A i, j \in 1 .. Len(queue') : queue'[i] = queue'[j] => i = j
    BY <1>4, <1>5, <1>6 DEF Inv, DealtOnce
  <2>3. \A i \in 1 .. Len(given'), j \in 1 .. Len(queue') : given'[i] # queue'[j]
    BY <1>4, <1>5, <1>9, <1>10 DEF Inv, DealtOnce
  <2>4. \A i, j \in 1 .. Len(given') : given'[i] = given'[j] => i = j
    BY <1>9, <1>10 DEF Inv, DealtOnce
  <2>5. ordered => \A i \in 1 .. Len(given') : given'[i] = i - 1
    BY <1>2, <1>9, <1>11 DEF Inv, DealtOnce
  <2>. QED BY <1>7, <1>8, <2>1, <2>2, <2>3, <2>4, <2>5 DEF Inv, DealtOnce
<1>15. Placed'
  <2>1. \A w \in Workers, i \in 1 .. Len(given') : InHand(w) => given'[i] # task[w]
    BY <1>9, <1>10 DEF Inv, Placed
  <2>2. ordered /\ ~ Stopped' => dataId' = Len(given')
    BY <1>1, <1>2, <1>11 DEF Stopped
  <2>3. ordered /\ size # 1 => dataId' <= 1
    <3> SUFFICES ASSUME ordered, size # 1 PROVE dataId <= 0
        BY <1>1, <1>2
    <3>1. dataId <= 1 /\ dataId * size = dataId
        BY <1>1, <1>11 DEF Wanted, Id, Inv, Placed
    <3>2. dataId = 1 => dataId * size = size
        BY <1>2
    <3>. QED BY <1>2, <3>1, <3>2
  <2>. QED BY <1>7, <1>8, <2>1, <2>2, <2>3 DEF Placed
<1>. QED BY <1>12, <1>13, <1>14, <1>15 DEF Inv

\* The other steps of the caller move no batch.
LEMMA ReaderKeeps ==
    ASSUME Inv, Reader
    PROVE  Inv'
<1>0. /\ pc \in [Workers -> WorkerStates] /\ permits \in Nat /\ done \in BOOLEAN
      /\ late \subseteq Batches /\ {} \subseteq Batches
      /\ reader \in {"take", "doze", "awake?"} => queue # <<>>
    BY DEF Inv, TypeOK, Dealing
<1> USE DEF ReaderStep, ReaderStates, Stopped, threads, dispatcher
<1>1. CASE TestEmpty
    BY <1>0, <1>1, NoBatchMoves DEF TestEmpty
<1>2. CASE TestDone
    BY <1>0, <1>2, NoBatchMoves DEF TestDone
<1>3. CASE Sleep("sleep", "empty?")
  <2>1. permits' \in Nat
    BY <1>0, <1>3 DEF Sleep
  <2>. QED BY <1>0, <1>3, <2>1, NoBatchMoves DEF Sleep
<1>4. CASE PutBack
    BY <1>0, <1>4, NoBatchMoves DEF PutBack
<1>5. CASE Sleep("doze", "awake?")
  <2>1. permits' \in Nat
    BY <1>0, <1>5 DEF Sleep
  <2>. QED BY <1>0, <1>5, <2>1, NoBatchMoves DEF Sleep
<1>6. CASE TestDoneAwake
    BY <1>0, <1>6, NoBatchMoves DEF TestDoneAwake
<1>. QED BY <1>1, <1>2, <1>3, <1>4, <1>5, <1>6, TakeKeeps DEF Reader

\* The invariant is inductive.
LEMMA NextInv == Inv /\ [Next]_vars => Inv'
<1> SUFFICES ASSUME Inv, [Next]_vars PROVE Inv'
    OBVIOUS
<1>1. CASE UNCHANGED vars
    BY <1>1 DEF vars, Inv, TypeOK, Dealing, DealtOnce, Placed, InHand, Stopped
<1>2. CASE Next
    BY <1>2, WorkerKeeps, ReaderKeeps DEF Next
<1>. QED BY <1>1, <1>2

-----------------------------------------------------------------------------

\* Every variable has its type in every state.
THEOREM TypeCorrect == Spec => []TypeOK
<1>1. Inv => TypeOK
    BY DEF Inv
<1>. QED BY <1>1, InitInv, NextInv, PTL DEF Spec

\* A batch is in one place only, and an ordered caller has the first batches in their
\* order: whatever the threads, the function runs on each batch once and its rows
\* are given once.
THEOREM NothingTwice == Spec => []DealtOnce
<1>1. Inv => DealtOnce
    BY DEF Inv
<1>. QED BY <1>1, InitInv, NextInv, PTL DEF Spec

-----------------------------------------------------------------------------
(* What a caller without keep_original_order misses.                        *)

\* The table is dealt out when a thread comes to the barrier; the last one finds the
\* others gone, and so does who sees the event.
AtTheEnd ==
    /\ \A w \in Workers :
          pc[w] \in {"barrier", "mark", "release", "end"} => index = Total
    /\ \A w \in Workers : pc[w] \in {"mark", "release"} =>
          \A u \in Workers \ {w} : pc[u] = "end"
    /\ done => \A w \in Workers : pc[w] \in {"release", "end"}

\* The thread has a batch, though it may have ended with it.
Has(w) == InHand(w) \/ pc[w] = "dead"

Present(n) ==
    \/ \E w \in Workers : Has(w) /\ task[w] = n
    \/ \E i \in 1 .. Len(queue) : queue[i] = n
    \/ \E i \in 1 .. Len(given) : given[i] = n

Unordered == ~ ordered /\ "nothing" \notin {result[n] : n \in Batches}

AllLate == \A i \in 1 .. Len(queue) : queue[i] \in late

\* No batch is lost, and what is on the queue when the event is tested was put there
\* since the queue was found empty.
NoneLost ==
    Unordered =>
        /\ \A n \in Batches : n < index => Present(n)
        /\ reader \notin {"doze", "awake?"}
        /\ reader = "done?" => AllLate
        /\ Stopped => done /\ AllLate

Inv2 == Inv /\ AtTheEnd /\ NoneLost

LEMMA InitInv2 == Init => Inv2
<1> SUFFICES ASSUME Init PROVE AtTheEnd /\ NoneLost
    BY InitInv DEF Inv2
<1>. QED BY DEF Init, AtTheEnd, NoneLost, Stopped, Batches

\* What the threads do to the end of the table.
LEMMA AtTheEndKept ==
    ASSUME Inv, AtTheEnd, [Next]_vars
    PROVE  AtTheEnd'
<1>1. TypeOK /\ Dealing /\ Total \in Nat
    BY ReaderAssumption DEF Inv
<1>2. CASE UNCHANGED vars \/ Reader
  <2>1. UNCHANGED threads
    BY <1>2 DEF vars, threads, Reader, TestEmpty, TestDone, Sleep, TakeWanted, PutBack,
                TestDoneAwake
  <2>. QED BY <2>1 DEF AtTheEnd, threads
<1>3. ASSUME NEW w \in Workers, Worker(w) PROVE AtTheEnd'
  <2> USE <1>1 DEF WorkerStates
  <2>1. CASE GetTask(w)
    <3>1. CASE NoneLeft
      <4>1. Step(w, "get", "barrier") /\ index = Total /\ UNCHANGED <<index, done>>
        BY <2>1, <3>1 DEF GetTask, NoneLeft, TypeOK
      <4>2. /\ pc[w] = "get" /\ pc'[w] = "barrier"
            /\ \A u \in Workers \ {w} : pc'[u] = pc[u]
        BY <4>1, Goes
      <4>. QED BY <4>1, <4>2 DEF AtTheEnd
    <3>2. CASE ~ NoneLeft
      <4>1. Step(w, "get", "advance") /\ UNCHANGED <<index, done>>
        BY <2>1, <3>2 DEF GetTask
      <4>2. /\ pc[w] = "get" /\ pc'[w] = "advance"
            /\ \A u \in Workers \ {w} : pc'[u] = pc[u]
        BY <4>1, Goes
      <4>. QED BY <4>1, <4>2 DEF AtTheEnd
    <3>. QED BY <3>1, <3>2
  <2>2. CASE Advance(w)
    <3>1. Step(w, "advance", "work") /\ UNCHANGED done
        BY <2>2 DEF Advance
    <3>2. /\ pc[w] = "advance" /\ pc'[w] = "work"
          /\ \A u \in Workers \ {w} : pc'[u] = pc[u]
        BY <3>1, Goes
    <3>3. index # Total
        BY <3>2 DEF Dealing, TypeOK, Batches
    <3>. QED BY <3>1, <3>2, <3>3 DEF AtTheEnd
  <2>3. CASE Work(w)
    <3>1. PICK t \in {"dead", "put"} : Step(w, "work", t) /\ UNCHANGED <<index, done>>
        BY <2>3 DEF Work, dispatcher
    <3>2. /\ pc[w] = "work" /\ pc'[w] = t
          /\ \A u \in Workers \ {w} : pc'[u] = pc[u]
        BY <3>1, Goes
    <3>. QED BY <3>1, <3>2 DEF AtTheEnd
  <2>4. CASE Put(w)
    <3>1. Step(w, "put", "wake") /\ UNCHANGED <<index, done>>
        BY <2>4 DEF Put, dispatcher
    <3>2. /\ pc[w] = "put" /\ pc'[w] = "wake"
          /\ \A u \in Workers \ {w} : pc'[u] = pc[u]
        BY <3>1, Goes
    <3>. QED BY <3>1, <3>2 DEF AtTheEnd
  <2>5. CASE WakeReader(w)
    <3>1. Step(w, "wake", "get") /\ UNCHANGED <<index, done>>
        BY <2>5 DEF WakeReader, dispatcher
    <3>2. /\ pc[w] = "wake" /\ pc'[w] = "get"
          /\ \A u \in Workers \ {w} : pc'[u] = pc[u]
        BY <3>1, Goes
    <3>. QED BY <3>1, <3>2 DEF AtTheEnd
  <2>6. CASE ReachBarrier(w)
    <3>1. PICK t \in {"mark", "end"} :
             /\ Step(w, "barrier", t) /\ UNCHANGED <<index, done>>
             /\ t = "mark" => LastToCome(w)
        BY <2>6 DEF ReachBarrier, dispatcher
    <3>2. /\ pc[w] = "barrier" /\ pc'[w] = t
          /\ \A u \in Workers \ {w} : pc'[u] = pc[u]
        BY <3>1, Goes
    <3>. QED BY <3>1, <3>2 DEF AtTheEnd, LastToCome
  <2>7. CASE MarkDone(w)
    <3>1. Step(w, "mark", "release") /\ UNCHANGED index
        BY <2>7 DEF MarkDone, dispatcher
    <3>2. /\ pc[w] = "mark" /\ pc'[w] = "release"
          /\ \A u \in Workers \ {w} : pc'[u] = pc[u]
        BY <3>1, Goes
    <3>. QED BY <3>1, <3>2 DEF AtTheEnd
  <2>8. CASE ReleaseReader(w)
    <3>1. Step(w, "release", "end") /\ UNCHANGED <<index, done>>
        BY <2>8 DEF ReleaseReader, dispatcher
    <3>2. /\ pc[w] = "release" /\ pc'[w] = "end"
          /\ \A u \in Workers \ {w} : pc'[u] = pc[u]
        BY <3>1, Goes
    <3>. QED BY <3>1, <3>2 DEF AtTheEnd
  <2>. QED BY <1>3, <2>1, <2>2, <2>3, <2>4, <2>5, <2>6, <2>7, <2>8 DEF Worker
<1>. QED BY <1>2, <1>3 DEF Next

\* What a thread has stays with it or goes to the queue.
LEMMA WorkerKeepsPresent ==
    ASSUME Inv, \A n \in Batches : n < index => Present(n), NEW w \in Workers, Worker(w)
    PROVE  \A n \in Batches : n < index' => Present(n)'
<1>1. TypeOK /\ Dealing /\ Total \in Nat /\ Len(queue) \in Nat
    BY ReaderAssumption DEF Inv, TypeOK
<1>2. UNCHANGED <<input, caller>>
    BY DEF Worker, GetTask, Advance, Work, Put, WakeReader, ReachBarrier, MarkDone,
           ReleaseReader
<1>3. \A n \in Batches : n < index => Present(n)
    OBVIOUS
<1>4. given' = given
    BY <1>2 DEF caller
<1>5. /\ ~ Put(w) => queue' = queue
      /\ Put(w) => queue' = Append(queue, task[w])
    BY DEF Worker, GetTask, Advance, Work, Put, WakeReader, ReachBarrier, MarkDone,
           ReleaseReader
<1>8. ASSUME NEW n \in Batches, n < index' PROVE Present(n)'
  <2>1. CASE n < index
    <3>1. Present(n)
        BY <1>3, <2>1
    <3>2. CASE \E i \in 1 .. Len(given) : given[i] = n
        BY <1>4, <3>2 DEF Present
    <3>3. CASE \E i \in 1 .. Len(queue) : queue[i] = n
      <4>1. PICK i \in 1 .. Len(queue) : queue[i] = n
        BY <3>3
      <4>2. queue \in Seq(Batches) /\ task[w] \in Batches
        BY <1>1 DEF TypeOK
      <4>3. i \in 1 .. Len(queue') /\ queue'[i] = n
        BY <1>1, <1>5, <4>1, <4>2
      <4>. QED BY <4>3 DEF Present
    <3>4. ASSUME NEW u \in Workers, Has(u), task[u] = n PROVE Present(n)'
      <4>1. CASE u # w
        <5>1. pc'[u] = pc[u] /\ task'[u] = task[u]
            BY <1>1, <4>1 DEF TypeOK, Worker, GetTask, Advance, Work, Put, WakeReader,
                              ReachBarrier, MarkDone, ReleaseReader, Step
        <5>. QED BY <3>4, <5>1 DEF Has, InHand, Present
      <4>2. CASE u = w
        <5>1. Advance(w) \/ Work(w) \/ Put(w)
            BY <3>4, <4>2 DEF Has, InHand, Worker, GetTask, WakeReader, ReachBarrier,
                              MarkDone, ReleaseReader, Step
        <5>2. CASE Put(w)
          <6>1. queue \in Seq(Batches) /\ task[w] \in Batches
            BY <1>1 DEF TypeOK
          <6>2. /\ Len(queue) + 1 \in 1 .. Len(queue')
                /\ queue'[Len(queue) + 1] = task[w]
            BY <1>1, <1>5, <5>2, <6>1
          <6>. QED BY <3>4, <4>2, <6>2 DEF Present
        <5>3. CASE Advance(w) \/ Work(w)
          <6>1. task' = task /\ pc'[w] \in {"work", "put", "dead"}
            BY <1>1, <5>3 DEF Advance, Work, Step, TypeOK
          <6>. QED BY <3>4, <4>2, <6>1 DEF Present, Has, InHand
        <5>. QED BY <5>1, <5>2, <5>3
      <4>. QED BY <4>1, <4>2
    <3>. QED BY <3>1, <3>2, <3>3, <3>4 DEF Present
  <2>2. CASE ~ n < index
    <3>1. Advance(w)
        BY <1>8, <2>2 DEF Worker, GetTask, Work, Put, WakeReader, ReachBarrier, MarkDone,
                          ReleaseReader, dispatcher
    <3>2. /\ pc[w] = "advance" /\ task' = task /\ index' = task[w] + 1
          /\ pc'[w] = "work"
        BY <1>1, <3>1 DEF Advance, Step, TypeOK
    <3>3. task[w] = index
        BY <1>1, <3>2 DEF Dealing
    <3>4. n = task[w]
        BY <1>1, <1>8, <2>2, <3>2, <3>3 DEF TypeOK, Batches
    <3>. QED BY <3>2, <3>4 DEF Present, Has, InHand
  <2>. QED BY <2>1, <2>2
<1>. QED BY <1>8

\* What the caller takes is given to it.
LEMMA WantedGiven ==
    ASSUME Inv, \A m \in Batches : m < index => Present(m), TakeWanted,
           given' = Append(given, queue[Front])
    PROVE  \A m \in Batches : m < index' => Present(m)'
<1> DEFINE f == Front
           n == queue[f]
<1>1. /\ queue \in Seq(Batches) /\ given \in Seq(Batches) /\ queue # <<>>
      /\ Len(queue) \in Nat /\ Len(given) \in Nat
    BY DEF Inv, TypeOK, Dealing, TakeWanted
<1>2. f \in 1 .. Len(queue) /\ n \in Batches
    BY <1>1, FrontExists, ReaderAssumption
<1>3. UNCHANGED threads
    BY DEF TakeWanted
<1>4. given' = Append(given, n) /\ queue' = RemoveAt(queue, f)
    BY DEF TakeWanted
<1> HIDE DEF f
<1>5. /\ Len(queue') = Len(queue) - 1
      /\ \A j \in 1 .. Len(queue) - 1 :
            queue'[j] = IF j < f THEN queue[j] ELSE queue[j + 1]
  BY <1>1, <1>2, <1>4, RemoveAtElements
<1>6. /\ \A i \in 1 .. Len(given) : i \in 1 .. Len(given') /\ given'[i] = given[i]
      /\ Len(given) + 1 \in 1 .. Len(given') /\ given'[Len(given) + 1] = n
  BY <1>1, <1>2, <1>4
<1>7. ASSUME NEW i \in 1 .. Len(queue), i # f
      PROVE  \E j \in 1 .. Len(queue') : queue'[j] = queue[i]
  <2>1. CASE i < f
    <3>1. i \in 1 .. Len(queue) - 1
      BY <1>1, <1>2, <2>1
    <3>. QED BY <1>5, <2>1, <3>1
  <2>2. CASE i > f
    <3>1. /\ i - 1 \in 1 .. Len(queue') /\ ~ i - 1 < f /\ (i - 1) + 1 = i
      BY <1>1, <1>2, <1>5, <2>2
    <3>. QED BY <1>1, <1>5, <3>1
  <2>. QED BY <1>2, <1>7, <2>1, <2>2
<1>8. ASSUME NEW m \in Batches, m < index' PROVE Present(m)'
  <2>1. Present(m) /\ pc' = pc /\ task' = task
      BY <1>3, <1>8 DEF threads
  <2>2. CASE \E i \in 1 .. Len(queue) : queue[i] = m
    <3>1. PICK i \in 1 .. Len(queue) : queue[i] = m
      BY <2>2
    <3>2. CASE i = f
      BY <1>6, <3>1, <3>2 DEF Present
    <3>3. CASE i # f
      BY <1>7, <3>1, <3>3 DEF Present
    <3>. QED BY <3>2, <3>3
  <2>. QED BY <1>6, <2>1, <2>2 DEF Present, Has, InHand
<1>. QED BY <1>8

\* The threads lose nothing that an unordered caller is to have.
LEMMA WorkerLosesNone ==
    ASSUME Inv2, NEW w \in Workers, Worker(w)
    PROVE  NoneLost'
<1> SUFFICES ASSUME Unordered' PROVE NoneLost!2'
    BY DEF NoneLost
<1>1. TypeOK /\ Dealing /\ Total \in Nat /\ Len(queue) \in Nat
    BY ReaderAssumption DEF Inv2, Inv, TypeOK
<1>2. UNCHANGED <<input, caller>>
    BY DEF Worker, GetTask, Advance, Work, Put, WakeReader, ReachBarrier, MarkDone,
           ReleaseReader
<1>3. /\ Unordered
      /\ \A n \in Batches : n < index => Present(n)
      /\ reader \notin {"doze", "awake?"}
      /\ reader = "done?" => AllLate
      /\ Stopped => done /\ AllLate
    BY <1>2 DEF Unordered, input, Inv2, NoneLost
<1>4. reader' \notin {"doze", "awake?"} /\ given' = given /\ reader' = reader
    BY <1>2, <1>3 DEF caller
<1>5. /\ ~ Put(w) => queue' = queue /\ late' = late
      /\ Put(w) => queue' = Append(queue, task[w]) /\ late' = late \cup {task[w]}
    BY DEF Worker, GetTask, Advance, Work, Put, WakeReader, ReachBarrier, MarkDone,
           ReleaseReader
<1>6. AllLate => AllLate'
  <2>1. CASE ~ Put(w)
    BY <1>5, <2>1 DEF AllLate
  <2>2. CASE Put(w)
    <3> SUFFICES ASSUME AllLate, NEW i \in 1 .. Len(queue') PROVE queue'[i] \in late'
        BY DEF AllLate
    <3>1. /\ queue \in Seq(Batches) /\ task[w] \in Batches
        BY <1>1 DEF TypeOK
    <3>2. \/ i \in 1 .. Len(queue) /\ queue'[i] = queue[i]
          \/ queue'[i] = task[w]
        BY <1>5, <2>2, <3>1
    <3>. QED BY <1>5, <2>2, <3>2 DEF AllLate
  <2>. QED BY <2>1, <2>2
<1>7. done => done'
    BY DEF Worker, GetTask, Advance, Work, Put, WakeReader, ReachBarrier, MarkDone,
           ReleaseReader
<1>8. \A n \in Batches : n < index' => Present(n)'
    BY <1>3, WorkerKeepsPresent DEF Inv2
<1>. QED BY <1>3, <1>4, <1>6, <1>7, <1>8 DEF Stopped

\* What the caller takes is given to it, and it stops when the event is set.
LEMMA ReaderLosesNone ==
    ASSUME Inv2, Reader
    PROVE  NoneLost'
<1> SUFFICES ASSUME Unordered' PROVE NoneLost!2'
    BY DEF NoneLost
<1>1. TypeOK /\ Dealing /\ Total \in Nat
    BY ReaderAssumption DEF Inv2, Inv
<1>2. UNCHANGED <<input, threads>>
    BY DEF Reader, TestEmpty, TestDone, Sleep, TakeWanted, PutBack, TestDoneAwake
<1>3. /\ Unordered /\ ~ ordered
      /\ \A n \in Batches : n < index => Present(n)
      /\ reader \notin {"doze", "awake?"}
      /\ reader = "done?" => AllLate
      /\ Stopped => done /\ AllLate
    BY <1>2 DEF Unordered, input, Inv2, NoneLost
<1>4. CASE TestEmpty
  <2>1. /\ UNCHANGED <<queue, given>> /\ reader' \in {"done?", "take"}
        /\ reader' = "done?" => queue = <<>>
    BY <1>4 DEF TestEmpty, ReaderStep
  <2>2. reader' = "done?" => AllLate'
    BY <2>1 DEF AllLate
  <2>. QED BY <1>2, <1>3, <2>1, <2>2 DEF Present, Has, InHand, threads, Stopped
<1>5. CASE TestDone \/ Sleep("sleep", "empty?")
  <2>1. /\ UNCHANGED <<queue, given, late>>
        /\ \/ reader' \in {"empty?", "sleep"}
           \/ reader = "done?" /\ done /\ reader' = "stopped"
    BY <1>5 DEF TestDone, Sleep, ReaderStep
  <2>2. AllLate => AllLate'
    BY <2>1 DEF AllLate
  <2>. QED BY <1>2, <1>3, <2>1, <2>2 DEF Present, Has, InHand, threads, Stopped
<1>6. CASE TakeWanted
  <2> DEFINE f == Front
             n == queue[f]
  <2>1. /\ queue \in Seq(Batches) /\ given \in Seq(Batches) /\ queue # <<>>
        /\ Len(queue) \in Nat /\ Len(given) \in Nat
    BY <1>1, <1>6 DEF TypeOK, Dealing, TakeWanted
  <2>2. f \in 1 .. Len(queue) /\ n \in Batches
    BY <1>1, <2>1, FrontExists
  <2>3. result[n] # "nothing"
    BY <1>3, <2>2 DEF Unordered
  <2>4. reader' = "empty?" /\ given' = Append(given, n) /\ queue' = RemoveAt(queue, f)
    BY <1>6, <2>3 DEF TakeWanted
  <2>5. \A m \in Batches : m < index' => Present(m)'
    BY <1>2, <1>3, <1>6, <2>4, WantedGiven DEF Inv2, threads
  <2>. QED BY <2>4, <2>5 DEF Stopped
<1>7. CASE PutBack \/ Sleep("doze", "awake?") \/ TestDoneAwake
  <2>1. FALSE
    BY <1>3, <1>7 DEF PutBack, Sleep, TestDoneAwake, ReaderStep, Wanted
  <2>. QED BY <2>1
<1>. QED BY <1>4, <1>5, <1>6, <1>7 DEF Reader

LEMMA NextInv2 == Inv2 /\ [Next]_vars => Inv2'
<1> SUFFICES ASSUME Inv2, [Next]_vars PROVE Inv2'
    OBVIOUS
<1>1. Inv' /\ AtTheEnd'
    BY NextInv, AtTheEndKept DEF Inv2
<1>2. CASE UNCHANGED vars
    BY <1>1, <1>2 DEF vars, Inv2, NoneLost, Unordered, Present, Has, InHand, AllLate,
                      Stopped
<1>3. CASE Next
    BY <1>1, <1>3, WorkerLosesNone, ReaderLosesNone DEF Next, Inv2
<1>. QED BY <1>2, <1>3

\* Without keep_original_order, and if every batch leaves some row, a batch that is
\* neither late nor given would have to be somewhere when the caller stops, and it is
\* nowhere: the threads have gone.
THEOREM MissedAreLate == Spec => []OnlyLateBatchesMissed
<1>1. Inv2 => OnlyLateBatchesMissed
  <2> SUFFICES ASSUME Inv2, Stopped, Unordered, NEW n \in Batches
               PROVE  n \in late \/ \E i \in 1 .. Len(given) : given[i] = n
    BY DEF OnlyLateBatchesMissed, Unordered
  <2>1. done /\ AllLate /\ \A w \in Workers : pc[w] \in {"release", "end"}
    BY DEF Inv2, NoneLost, AtTheEnd
  <2>2. index = Total
    BY <2>1, ReaderAssumption DEF Inv2, AtTheEnd
  <2>3. n < index
    BY <2>2, ReaderAssumption DEF Batches
  <2>4. Present(n) /\ \A w \in Workers : ~ Has(w)
    BY <2>1, <2>3 DEF Inv2, NoneLost, Has, InHand
  <2>. QED BY <2>1, <2>4 DEF Present, AllLate
<1>. QED BY <1>1, InitInv2, NextInv2, PTL DEF Spec

-----------------------------------------------------------------------------
(* A caller that sleeps.                                                    *)

NobodyRaises == "raise" \notin {result[n] : n \in Batches}

\* While the caller sleeps and there is no permit for it, some thread can go on.
CallerWoken ==
    PlacesMatch /\ NobodyRaises /\ reader \in {"sleep", "doze"} /\ permits = 0
        => \E w \in Workers : /\ pc[w] \notin {"end", "dead"}
                              /\ pc[w] = "get" => DealerIsFree

\* Until the caller stops, every batch that was dealt is somewhere.
NothingLost == ~ Stopped => \A n \in Batches : n < index => Present(n)

\* The last thread sets the event and then gives a permit, which is there for a caller
\* that went to sleep before the event was set.
LastPermit ==
    /\ \A w \in Workers : pc[w] = "release" => done
    /\ (\A w \in Workers : pc[w] = "end") => done
    /\ NobodyRaises => \A w \in Workers : pc[w] # "dead"
    /\ PlacesMatch /\ reader \in {"sleep", "doze"} /\ done
          => permits > 0 \/ \E w \in Workers : pc[w] = "release"

Inv3 == Inv /\ AtTheEnd /\ NothingLost /\ LastPermit

\* Nothing is lost, and nobody sleeps, before the first batch is dealt.
LEMMA InitInv3 == Init => Inv3
<1> SUFFICES ASSUME Init PROVE AtTheEnd /\ NothingLost /\ LastPermit
    BY InitInv DEF Inv3
<1>1. Workers # {} /\ \A w \in Workers : pc[w] = "get"
    BY ReaderAssumption DEF Init
<1>. QED BY <1>1 DEF Init, AtTheEnd, NothingLost, LastPermit, Stopped, Batches

\* When the work is done and the places match, the front is what the caller wants.
LEMMA FrontIsWanted ==
    ASSUME Inv3, PlacesMatch, done, reader = "take"
    PROVE  Wanted(queue[Front])
<1> SUFFICES ASSUME ordered PROVE Id(queue[Front]) = dataId
    BY DEF Wanted
<1> DEFINE f == Front
           x == queue[f]
<1>1. /\ TypeOK /\ queue \in Seq(Batches) /\ given \in Seq(Batches) /\ queue # <<>>
      /\ Total \in Nat \ {0} /\ Len(queue) \in Nat /\ Len(given) \in Nat
  <2>1. TypeOK /\ Total \in Nat \ {0} /\ queue # <<>>
    BY ReaderAssumption DEF Inv3, Inv, Dealing
  <2>2. queue \in Seq(Batches) /\ given \in Seq(Batches)
    BY <2>1 DEF TypeOK
  <2>. QED BY <2>1, <2>2
<1>2. /\ f \in 1 .. Len(queue) /\ x \in Batches /\ x \in 0 .. Total - 1
      /\ \A j \in 1 .. Len(queue) : x <= queue[j]
    BY <1>1, FrontExists DEF Batches
<1> HIDE DEF f
<1>3. dataId = Len(given) /\ \A i \in 1 .. Len(given) : given[i] = i - 1
    BY DEF Inv3, Inv, Placed, DealtOnce, Stopped
<1>4. x >= dataId
  <2> SUFFICES ASSUME x < dataId PROVE FALSE
    BY <1>1, <1>2, <1>3
  <2>1. x + 1 \in 1 .. Len(given) /\ given[x + 1] = (x + 1) - 1
    BY <1>1, <1>2, <1>3
  <2>2. given[x + 1] = queue[f]
    BY <1>2, <2>1
  <2>. QED BY <1>2, <2>1, <2>2 DEF Inv3, Inv, DealtOnce
<1>5. dataId \in Batches
    BY <1>1, <1>2, <1>3, <1>4 DEF Batches
<1>6. Present(dataId)
  <2>1. PICK w \in Workers : TRUE
    BY ReaderAssumption
  <2>2. pc[w] \in {"release", "end"}
    BY DEF Inv3, AtTheEnd
  <2>3. index = Total
    BY <2>2 DEF Inv3, AtTheEnd
  <2>. QED BY <1>1, <1>5, <2>3 DEF Inv3, NothingLost, Stopped, Batches
<1>7. \A w \in Workers : ~ Has(w)
    BY DEF Inv3, AtTheEnd, Has, InHand
<1>8. \A i \in 1 .. Len(given) : given[i] # dataId
    BY <1>1, <1>3
<1>9. PICK j \in 1 .. Len(queue) : queue[j] = dataId
    BY <1>6, <1>7, <1>8 DEF Present
<1>10. x = dataId
    BY <1>1, <1>2, <1>3, <1>4, <1>9
<1>11. Id(x) = dataId
  <2>1. CASE size = 1
    BY <1>1, <1>2, <1>10, <2>1 DEF Id
  <2>2. CASE Total = 1
    <3>1. x = 0 /\ size \in Nat
        BY <1>1, <1>2, <2>2, ReaderAssumption DEF TypeOK
    <3>. QED BY <1>10, <3>1 DEF Id
  <2>. QED BY <2>1, <2>2 DEF PlacesMatch
<1>. QED BY <1>11 DEF f

\* No thread that has set the event ends without giving its permit.
LEMMA WorkerKeepsPermit ==
    ASSUME Inv3, NEW w \in Workers, Worker(w)
    PROVE  LastPermit'
<1>1. TypeOK /\ permits \in Nat /\ task[w] \in Batches
    BY DEF Inv3, Inv, TypeOK
<1>2. /\ size' = size /\ ordered' = ordered /\ result' = result /\ reader' = reader
    BY DEF Worker, GetTask, Advance, Work, Put, WakeReader, ReachBarrier, MarkDone,
           ReleaseReader, input, caller
<1>3. NobodyRaises' = NobodyRaises /\ PlacesMatch' = PlacesMatch
    BY <1>2 DEF NobodyRaises, PlacesMatch
<1>4. LastPermit
    BY DEF Inv3
<1>5. \A u \in Workers \ {w} : pc'[u] = pc[u]
    BY <1>1 DEF TypeOK, Worker, GetTask, Advance, Work, Put, WakeReader, ReachBarrier,
                MarkDone, ReleaseReader, Step
<1>6. CASE GetTask(w) \/ Advance(w) \/ Put(w) \/ WakeReader(w)
  <2>1. /\ pc[w] # "release" /\ pc'[w] \notin {"end", "release", "dead"}
        /\ done' = done /\ permits' \in Nat /\ permits' >= permits
    BY <1>1, <1>6 DEF GetTask, Advance, Put, WakeReader, Step, TypeOK
  <2>. QED BY <1>1, <1>2, <1>3, <1>4, <1>5, <2>1 DEF LastPermit
<1>7. CASE Work(w)
  <2>1. /\ pc[w] = "work" /\ pc'[w] \in {"put", "dead"} /\ UNCHANGED <<done, permits>>
        /\ NobodyRaises => pc'[w] # "dead"
    BY <1>1, <1>7 DEF Work, Step, TypeOK, NobodyRaises
  <2>. QED BY <1>2, <1>3, <1>4, <1>5, <2>1 DEF LastPermit
<1>8. CASE ReachBarrier(w)
  <2>1. /\ pc[w] = "barrier" /\ pc'[w] \in {"mark", "end"} /\ UNCHANGED <<done, permits>>
        /\ pc'[w] = "end" => \E u \in Workers \ {w} : pc[u] # "end"
    BY <1>1, <1>8 DEF ReachBarrier, LastToCome, Step, TypeOK
  <2>. QED BY <1>2, <1>3, <1>4, <1>5, <2>1 DEF LastPermit
<1>9. CASE MarkDone(w)
  <2>1. pc'[w] = "release" /\ done' = TRUE /\ UNCHANGED permits
    BY <1>1, <1>9 DEF MarkDone, Step, TypeOK
  <2>. QED BY <1>2, <1>3, <1>4, <1>5, <2>1 DEF LastPermit
<1>10. CASE ReleaseReader(w)
  <2>1. /\ pc[w] = "release" /\ pc'[w] = "end" /\ UNCHANGED done
        /\ permits' = permits + 1
    BY <1>1, <1>10 DEF ReleaseReader, Step, TypeOK
  <2>2. done /\ permits' > 0
    BY <1>1, <1>4, <2>1 DEF LastPermit
  <2>. QED BY <1>2, <1>3, <1>4, <1>5, <2>1, <2>2 DEF LastPermit
<1>. QED BY <1>6, <1>7, <1>8, <1>9, <1>10 DEF Worker

\* The caller goes to sleep only if the event is not set.
LEMMA ReaderKeepsPermit ==
    ASSUME Inv3, Reader
    PROVE  LastPermit'
<1>1. LastPermit /\ UNCHANGED <<input, threads>>
    BY DEF Inv3, Reader, TestEmpty, TestDone, Sleep, TakeWanted, PutBack, TestDoneAwake
<1>2. /\ NobodyRaises' = NobodyRaises /\ PlacesMatch' = PlacesMatch
      /\ pc' = pc /\ done' = done
    BY <1>1 DEF NobodyRaises, PlacesMatch, input, threads
<1>3. ASSUME PlacesMatch, reader' \in {"sleep", "doze"} PROVE ~ done
  <2>1. CASE TestDone
    BY <1>3, <2>1 DEF TestDone, ReaderStep
  <2>2. CASE PutBack
    BY <1>3, <2>2, FrontIsWanted DEF PutBack, ReaderStep
  <2>3. TestDone \/ PutBack
    BY <1>3 DEF Reader, TestEmpty, Sleep, TakeWanted, TestDoneAwake, ReaderStep
  <2>. QED BY <2>1, <2>2, <2>3
<1>. QED BY <1>1, <1>2, <1>3 DEF LastPermit

\* The caller takes away only what it is given, or it stops.
LEMMA ReaderKeepsPresent ==
    ASSUME Inv, NothingLost, Reader
    PROVE  NothingLost'
<1> SUFFICES ASSUME ~ Stopped' PROVE \A n \in Batches : n < index' => Present(n)'
    BY DEF NothingLost
<1>1. UNCHANGED threads
    BY DEF Reader, TestEmpty, TestDone, Sleep, TakeWanted, PutBack, TestDoneAwake
<1>2. \A n \in Batches : n < index => Present(n)
    BY DEF NothingLost, Stopped, Reader, TestEmpty, TestDone, Sleep, TakeWanted, PutBack,
           TestDoneAwake, ReaderStep
<1>3. CASE TakeWanted
  <2>1. given' = Append(given, queue[Front])
    BY <1>3 DEF TakeWanted, Stopped
  <2>. QED BY <1>2, <1>3, <2>1, WantedGiven
<1>4. CASE ~ TakeWanted
  <2>1. UNCHANGED <<queue, given>>
    BY <1>4 DEF Reader, TestEmpty, TestDone, Sleep, PutBack, TestDoneAwake
  <2>. QED BY <1>1, <1>2, <2>1 DEF Present, Has, InHand, threads
<1>. QED BY <1>3, <1>4

\* The invariant is inductive.
LEMMA NextInv3 == Inv3 /\ [Next]_vars => Inv3'
<1> SUFFICES ASSUME Inv3, [Next]_vars PROVE Inv3'
    OBVIOUS
<1>1. Inv' /\ AtTheEnd'
    BY NextInv, AtTheEndKept DEF Inv3
<1>2. CASE UNCHANGED vars
    BY <1>1, <1>2 DEF vars, Inv3, NothingLost, LastPermit, NobodyRaises, PlacesMatch, Present,
                      Has, InHand, Stopped
<1>3. CASE Reader
    BY <1>1, <1>3, ReaderKeepsPermit, ReaderKeepsPresent DEF Inv3
<1>4. ASSUME NEW w \in Workers, Worker(w) PROVE Inv3'
  <2>1. reader' = reader
    BY <1>4 DEF Worker, GetTask, Advance, Work, Put, WakeReader, ReachBarrier, MarkDone,
                ReleaseReader, caller
  <2>2. NothingLost'
    BY <1>4, <2>1, WorkerKeepsPresent DEF Inv3, NothingLost, Stopped
  <2>. QED BY <1>1, <1>4, <2>2, WorkerKeepsPermit DEF Inv3
<1>. QED BY <1>2, <1>3, <1>4 DEF Next

\* No permit is lost that the caller needs: if the function never raises and the places
\* match, a caller that sleeps without a permit sleeps while some thread can still go
\* on, never after all of them have ended.  This is what the fairness of the threads
\* is applied to when TLC checks ReadingEnds.
THEOREM NeverForgotten == Spec => []CallerWoken
<1>1. Inv3 => CallerWoken
  <2> SUFFICES ASSUME Inv3, PlacesMatch, NobodyRaises, reader \in {"sleep", "doze"},
                      permits = 0
               PROVE  \E w \in Workers : /\ pc[w] \notin {"end", "dead"}
                                         /\ pc[w] = "get" => DealerIsFree
    BY DEF CallerWoken
  <2>1. \A w \in Workers : pc[w] # "dead"
    BY DEF Inv3, LastPermit
  <2>2. CASE \E w \in Workers : pc[w] \notin {"end", "dead", "get"}
    BY <2>2
  <2>3. CASE \A w \in Workers : pc[w] = "end"
    BY <2>3, ReaderAssumption DEF Inv3, LastPermit
  <2>4. CASE /\ \A w \in Workers : pc[w] \in {"end", "get"}
             /\ \E w \in Workers : pc[w] = "get"
    <3>1. dealer \in Workers \cup {None} /\ \A w \in Workers : dealer = w => pc[w] = "advance"
        BY DEF Inv3, Inv, TypeOK, Dealing
    <3>2. dealer = None
        BY <2>4, <3>1
    <3>. QED BY <2>4, <3>2 DEF DealerIsFree
  <2>. QED BY <2>1, <2>2, <2>3, <2>4
<1>. QED BY <1>1, InitInv3, NextInv3, PTL DEF Spec

=============================================================================
