------------------------------ MODULE MapReader ------------------------------
(***************************************************************************)
(* The threads behind Table.map, filter and iterate of python/qianfan/     *)
(* dataset: TaskDispatcher (data_source/utils.py) deals out batches of     *)
(* rows, the threads of MapperReader (data_source/chunk_reader.py) apply   *)
(* the user's function to them and put the results on a queue, and the     *)
(* caller takes them from the queue, in the order of the table if it wants *)
(* it so.                                                                  *)
(*                                                                         *)
(* Batch n begins at row n * size, and that row is its place in the queue. *)
(* What the function returns is left out but for three cases: some rows,   *)
(* none (all were deleted), or an exception, which ends its thread.        *)
(***************************************************************************)
EXTENDS Integers, Sequences, FiniteSets

CONSTANTS
    Workers,    \* the processing threads
    Total,      \* how many batches the table has
    Sizes,      \* the values of batch_size
    Orders,     \* the values of keep_original_order
    Results,    \* what the function may return for a batch
    None        \* no thread

ASSUME ReaderAssumption ==
    /\ IsFiniteSet(Workers) /\ Workers # {} /\ None \notin Workers
    /\ Total \in Nat \ {0}
    /\ Sizes \subseteq Nat \ {0}
    /\ Orders \subseteq BOOLEAN
    /\ Results \subseteq {"rows", "nothing", "raise"}

Batches == 0 .. Total - 1

VARIABLES
    size,       \* batch_size
    ordered,    \* keep_original_order
    result,     \* what the function returns for each batch
    index,      \* current_task_queue_index
    dealer,     \* the owner of the dispatcher's lock
    pc,         \* where each processing thread is
    task,       \* its batch
    queue,      \* the output queue, oldest first
    permits,    \* the value of processing_counter
    done,       \* is_all_processing_done
    reader,     \* where the caller is in __next__
    dataId,     \* data_id: the batch the caller wants next, if ordered
    given,      \* history: the batches given to the caller
    late        \* history: the batches put since the queue was last found empty

input == <<size, ordered, result>>
dispatcher == <<index, dealer>>
caller == <<reader, dataId, given>>
vars == <<size, ordered, result, index, dealer, pc, task, queue, permits, done,
          reader, dataId, given, late>>

WorkerStates == {"get", "advance", "work", "put", "wake", "barrier", "mark",
                 "release", "end", "dead"}
ReaderStates == {"empty?", "done?", "sleep", "take", "doze", "awake?", "stopped"}

\* The place of a batch in a PriorityQueue and in the comparisons with data_id.
Id(n) == n * size

-----------------------------------------------------------------------------

\* The constructor of MapperReader starts the threads; a Semaphore() begins at 1.
Init ==
    /\ size \in Sizes
    /\ ordered \in Orders
    /\ result \in [Batches -> Results]
    /\ index = 0
    /\ dealer = None
    /\ pc = [w \in Workers |-> "get"]
    /\ task = [w \in Workers |-> 0]
    /\ queue = <<>>
    /\ permits = 1
    /\ done = FALSE
    /\ reader = "empty?"
    /\ dataId = 0
    /\ given = <<>>
    /\ late = {}

Step(w, s, t) ==
    /\ pc[w] = s
    /\ pc' = [pc EXCEPT ![w] = t]

-----------------------------------------------------------------------------
(* A processing thread: get_task, the function, put, and the barrier.       *)

\* The mutant of DealerIsFree: get_task takes no lock.
AnyDealer == TRUE

DealerIsFree == dealer = None

\* The mutant of NoneLeft: the index is compared one too far.
NoneLeftBehind == index > Total

NoneLeft == index >= Total

\* with self.lock: the index is read, and an end of the list is an end of work.
GetTask(w) ==
    /\ DealerIsFree
    /\ Step(w, "get", IF NoneLeft THEN "barrier" ELSE "advance")
    /\ task' = [task EXCEPT ![w] = IF NoneLeft THEN 0 ELSE index]
    /\ dealer' = IF NoneLeft THEN dealer ELSE w
    /\ UNCHANGED <<input, index, queue, permits, done, caller, late>>

Advance(w) ==
    /\ Step(w, "advance", "work")
    /\ index' = task[w] + 1
    /\ dealer' = None
    /\ UNCHANGED <<input, task, queue, permits, done, caller, late>>

\* The function on every row of the batch.  An exception in it is nobody's: the
\* thread ends without coming to the barrier.
Work(w) ==
    /\ Step(w, "work", IF result[task[w]] = "raise" THEN "dead" ELSE "put")
    /\ UNCHANGED <<input, dispatcher, task, queue, permits, done, caller, late>>

Put(w) ==
    /\ Step(w, "put", "wake")
    /\ queue' = Append(queue, task[w])
    /\ late' = late \cup {task[w]}
    /\ UNCHANGED <<input, dispatcher, task, permits, done, caller>>

\* The caller is woken by a batch it may want; data_id is read without a lock.
WakeReader(w) ==
    /\ Step(w, "wake", "get")
    /\ permits' = IF ~ ordered \/ Id(task[w]) <= dataId THEN permits + 1 ELSE permits
    /\ UNCHANGED <<input, dispatcher, task, queue, done, caller, late>>

LastToCome(w) == \A u \in Workers \ {w} : pc[u] = "end"

\* barrier.wait(): the last thread to come runs _mark_process_done.
ReachBarrier(w) ==
    /\ Step(w, "barrier", IF LastToCome(w) THEN "mark" ELSE "end")
    /\ UNCHANGED <<input, dispatcher, task, queue, permits, done, caller, late>>

MarkDone(w) ==
    /\ Step(w, "mark", "release")
    /\ done' = TRUE
    /\ UNCHANGED <<input, dispatcher, task, queue, permits, caller, late>>

\* The mutant of ReleaseReader: the event alone is to wake the caller.
ForgetReader(w) ==
    /\ Step(w, "release", "end")
    /\ UNCHANGED <<input, dispatcher, task, queue, permits, done, caller, late>>

ReleaseReader(w) ==
    /\ Step(w, "release", "end")
    /\ permits' = permits + 1
    /\ UNCHANGED <<input, dispatcher, task, queue, done, caller, late>>

-----------------------------------------------------------------------------
(* The caller: __next__, get_chunk and _get_an_element.                     *)

ReaderStep(s, t) ==
    /\ reader = s
    /\ reader' = t

threads == <<index, dealer, pc, task, done>>

\* while self.queue.empty()
TestEmpty ==
    /\ ReaderStep("empty?", IF queue = <<>> THEN "done?" ELSE "take")
    /\ late' = IF queue = <<>> THEN {} ELSE late
    /\ UNCHANGED <<input, threads, queue, permits, dataId, given>>

\* The mutant of TestDone: an empty queue is taken for the end.
TestNothing ==
    /\ ReaderStep("done?", "stopped")
    /\ UNCHANGED <<input, threads, queue, permits, dataId, given, late>>

\* if self.is_all_processing_done.is_set(): raise StopIteration
TestDone ==
    /\ ReaderStep("done?", IF done THEN "stopped" ELSE "sleep")
    /\ UNCHANGED <<input, threads, queue, permits, dataId, given, late>>

\* processing_counter.acquire(), with the queue empty or the wrong batch in it.
Sleep(s, t) ==
    /\ permits > 0
    /\ ReaderStep(s, t)
    /\ permits' = permits - 1
    /\ UNCHANGED <<input, threads, queue, dataId, given, late>>

\* Where the queue keeps its next element: a PriorityQueue the one of the lowest
\* id, a Queue the oldest.
Front ==
    IF ordered
    THEN CHOOSE i \in 1 .. Len(queue) :
            \A j \in 1 .. Len(queue) : queue[i] <= queue[j]
    ELSE 1

RemoveAt(s, i) == SubSeq(s, 1, i - 1) \o SubSeq(s, i + 1, Len(s))

Wanted(n) == ordered => Id(n) = dataId

\* The element is the caller's.  No row of its batch being left looks to __next__
\* like the end of the file.
TakeWanted ==
    LET n == queue[Front] IN
    /\ reader = "take"
    /\ Wanted(n)
    /\ reader' = IF result[n] = "nothing" THEN "stopped" ELSE "empty?"
    /\ given' = IF result[n] = "nothing" THEN given ELSE Append(given, n)
    /\ queue' = RemoveAt(queue, Front)
    /\ dataId' = IF ordered THEN dataId + 1 ELSE dataId
    /\ UNCHANGED <<input, threads, permits, late>>

\* Not the element the caller wants: it goes back to the queue.
PutBack ==
    /\ ReaderStep("take", "doze")
    /\ ~ Wanted(queue[Front])
    /\ UNCHANGED <<input, threads, queue, permits, dataId, given, late>>

\* Awake again: the end of the work is taken for the end of the data.
TestDoneAwake ==
    /\ ReaderStep("awake?", IF done THEN "stopped" ELSE "take")
    /\ UNCHANGED <<input, threads, queue, permits, dataId, given, late>>

-----------------------------------------------------------------------------

Worker(w) ==
    \/ GetTask(w)
    \/ Advance(w)
    \/ Work(w)
    \/ Put(w)
    \/ WakeReader(w)
    \/ ReachBarrier(w)
    \/ MarkDone(w)
    \/ ReleaseReader(w)

Reader ==
    \/ TestEmpty
    \/ TestDone
    \/ Sleep("sleep", "empty?")
    \/ TakeWanted
    \/ PutBack
    \/ Sleep("doze", "awake?")
    \/ TestDoneAwake

Next == Reader \/ \E w \in Workers : Worker(w)

Spec == Init /\ [][Next]_vars

\* The operating system runs every thread that can run.
FairSpec == Spec /\ WF_vars(Reader) /\ \A w \in Workers : WF_vars(Worker(w))

-----------------------------------------------------------------------------
(* Properties.                                                              *)

TypeOK ==
    /\ size \in Sizes
    /\ ordered \in Orders
    /\ result \in [Batches -> Results]
    /\ index \in 0 .. Total
    /\ dealer \in Workers \cup {None}
    /\ pc \in [Workers -> WorkerStates]
    /\ task \in [Workers -> Batches]
    /\ queue \in Seq(Batches)
    /\ permits \in Nat
    /\ done \in BOOLEAN
    /\ reader \in ReaderStates
    /\ dataId \in Nat
    /\ given \in Seq(Batches)
    /\ late \subseteq Batches

Stopped == reader = "stopped"

\* The batches in the hands of the threads, by thread.
InHand(w) == pc[w] \in {"advance", "work", "put"}

\* A batch is in one place only: in the hands of one thread, on the queue once,
\* or given once: the function runs once on every row, whichever threads deal
\* (utils.py:96), and no row is given twice.  With keep_original_order what the
\* caller has is the table's first batches in their order, whichever thread was the
\* faster (chunk_reader.py:276).
DealtOnce ==
    /\ \A u, w \in Workers :
          InHand(u) /\ InHand(w) /\ task[u] = task[w] => u = w
    /\ \A w \in Workers, i \in 1 .. Len(queue) : InHand(w) => queue[i] # task[w]
    /\ \A i, j \in 1 .. Len(queue) : queue[i] = queue[j] => i = j
    /\ \A i \in 1 .. Len(given), j \in 1 .. Len(queue) : given[i] # queue[j]
    /\ \A i, j \in 1 .. Len(given) : given[i] = given[j] => i = j
    /\ ordered => \A i \in 1 .. Len(given) : given[i] = i - 1

\* Without it, a caller that reads to the end misses a batch only if the batch
\* was put between the test of the queue and the test of the event (264, 266), or
\* if one before it had no row left.
OnlyLateBatchesMissed ==
    Stopped /\ ~ ordered /\ "nothing" \notin {result[n] : n \in Batches}
        => \A n \in Batches :
              n \in late \/ \E i \in 1 .. Len(given) : given[i] = n

\* The places in the queue are what data_id counts: always so without
\* keep_original_order, and with it only if a batch is one row or the table one batch.
PlacesMatch == ~ ordered \/ size = 1 \/ Total = 1

\* The caller comes to an end, in whatever order batches arrive and permits are
\* used up, if the function never raises and the places match.  If they do not, a
\* caller that used up the barrier's permit at line 268 sleeps for ever at 281.
ReadingEnds ==
    PlacesMatch /\ "raise" \notin {result[n] : n \in Batches} ~> Stopped

\* A caller that reads to the end has seen every batch, as table_test.py:114 has
\* it of a map and pyarrow of the list of flags a filter is given.
WholeTableGiven ==
    Stopped /\ (\A n \in Batches : result[n] = "rows") => Len(given) = Total

=============================================================================
