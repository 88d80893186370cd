---------------------------- MODULE StreamReader ----------------------------
(***************************************************************************)
(* Reading a streamed answer ahead of its consumer: _list_generator and    *)
(* AsyncListIterator of python/qianfan/resources/requestor/                *)
(* openapi_requestor.py, over the line iterators of _request_stream and    *)
(* _async_request_stream.                                                  *)
(*                                                                         *)
(* A worker reads the answer to its end and puts every chunk on a queue,   *)
(* then closes the stream; the consumer takes chunks from the queue until  *)
(* it finds the stream closed.  The worker is a thread of its own, a task  *)
(* of a shared pool (sync_reading_thread_count) or a coroutine.  When the  *)
(* server says, in any line, that the access token has expired, the token  *)
(* is refreshed once per answer and the request sent again.                *)
(*                                                                         *)
(* Chunks are numbered from 1; their content, the latencies and the rate   *)
(* limiter are left out.  The names carry Stream where TokenLimiter, the   *)
(* other component the requestor drives, has the same: their theorems are  *)
(* in one module, RequestorProofs.                                         *)
(***************************************************************************)
EXTENDS Naturals, Sequences, FiniteSets

CONSTANTS
    Streams,        \* the answers being read
    Modes,          \* the ways to read one: "thread", "pool", "stress", "async"
    Length,         \* how many chunks the server sends for a request
    PoolSize        \* sync_reading_thread_count

ASSUME StreamAssumption ==
    /\ Modes \subseteq {"thread", "pool", "stress", "async"}
    /\ Length \in Nat
    /\ PoolSize \in Nat \ {0}

VARIABLES
    mode,       \* how each stream is read, fixed by its caller
    worker,     \* where the worker of each stream is
    position,   \* how many chunks it has read off the current connection
    refreshed,  \* token_refreshed
    queue,      \* data: the chunks put and not yet taken
    closed,     \* is_closed
    consumer,   \* where the consumer of each stream is
    got         \* history: the chunks each consumer was given

reading == <<mode, worker, position, refreshed>>
streamVars == <<mode, worker, position, refreshed, queue, closed, consumer, got>>

WorkerStates == {"unborn", "submitted", "reading", "done", "dead"}
ConsumerStates ==
    {"unborn", "block", "empty", "get", "closed", "yielded", "finished", "gone"}

UpTo(n) == [i \in 1 .. n |-> i]

StreamInit ==
    /\ mode \in [Streams -> Modes]
    /\ worker = [s \in Streams |-> "unborn"]
    /\ position = [s \in Streams |-> 0]
    /\ refreshed = [s \in Streams |-> FALSE]
    /\ queue = [s \in Streams |-> <<>>]
    /\ closed = [s \in Streams |-> FALSE]
    /\ consumer = [s \in Streams |-> "unborn"]
    /\ got = [s \in Streams |-> <<>>]

-----------------------------------------------------------------------------
(* The worker.                                                              *)

\* _list_generator is a generator: nothing runs before the first next().  Under
\* QIANFAN_ENABLE_STRESS_TEST the consumer waits for the end first.  The task of
\* an AsyncListIterator starts with the object, before any __anext__.
Start(s) ==
    /\ consumer[s] = "unborn"
    /\ worker' = [worker EXCEPT ![s] =
                      IF mode[s] = "pool" THEN "submitted" ELSE "reading"]
    /\ consumer' = [consumer EXCEPT ![s] =
                        CASE mode[s] = "stress" -> "block"
                          [] mode[s] = "async" -> "yielded"
                          [] OTHER -> "empty"]
    /\ UNCHANGED <<mode, position, refreshed, queue, closed, got>>

\* The executor runs at most PoolSize readers at once.
PoolRun(s) ==
    /\ worker[s] = "submitted"
    /\ Cardinality({r \in Streams : mode[r] = "pool" /\ worker[r] = "reading"})
           < PoolSize
    /\ worker' = [worker EXCEPT ![s] = "reading"]
    /\ UNCHANGED <<mode, position, refreshed, queue, closed, consumer, got>>

\* A mutant of ReadChunk: one chunk more than the answer has.
ReadPastEnd(s) ==
    /\ worker[s] = "reading"
    /\ position[s] <= Length
    /\ position' = [position EXCEPT ![s] = @ + 1]
    /\ queue' = [queue EXCEPT ![s] = Append(@, position'[s])]
    /\ UNCHANGED <<mode, worker, refreshed, closed, consumer, got>>

ReadChunk(s) ==
    /\ worker[s] = "reading"
    /\ position[s] < Length
    /\ position' = [position EXCEPT ![s] = @ + 1]
    /\ queue' = [queue EXCEPT ![s] = Append(@, position'[s])]
    /\ UNCHANGED <<mode, worker, refreshed, closed, consumer, got>>

\* The [DONE] line or the end of the lines.  An answer whose token has expired may
\* end anywhere; an asynchronous reader still reads that one.
ReadEnd(s) ==
    /\ worker[s] = "reading"
    /\ position[s] = Length \/ (mode[s] = "async" /\ refreshed[s])
    /\ worker' = [worker EXCEPT ![s] = "done"]
    /\ closed' = [closed EXCEPT ![s] = TRUE]
    /\ UNCHANGED <<mode, position, refreshed, queue, consumer, got>>

\* The mutant of RefreshAndReread: each expired token is refreshed, not only the first.
RefreshEachTime(s) ==
    /\ worker[s] = "reading"
    /\ mode[s] # "async"
    /\ refreshed' = [refreshed EXCEPT ![s] = TRUE]
    /\ position' = [position EXCEPT ![s] = 0]
    /\ UNCHANGED <<mode, worker, queue, closed, consumer, got>>

\* An "access token expired" message in some line.  The synchronous iterator goes on
\* with the new connection, which begins with the first chunk again; the chunks of the
\* old one have been handed on.
RefreshAndReread(s) ==
    /\ worker[s] = "reading"
    /\ mode[s] # "async"
    /\ ~ refreshed[s]
    /\ refreshed' = [refreshed EXCEPT ![s] = TRUE]
    /\ position' = [position EXCEPT ![s] = 0]
    /\ UNCHANGED <<mode, worker, queue, closed, consumer, got>>

\* The asynchronous one assigns the new connection to `responses`, but its
\* `async for` goes on with the lines of the old one (openapi_requestor.py:249, 269).
RefreshAndGoOn(s) ==
    /\ worker[s] = "reading"
    /\ mode[s] = "async"
    /\ ~ refreshed[s]
    /\ refreshed' = [refreshed EXCEPT ![s] = TRUE]
    /\ UNCHANGED <<mode, worker, position, queue, closed, consumer, got>>

\* A connection error, an error message of the server, or a second expired
\* token: the exception ends the worker, and the stream is not closed.
ReadFailure(s) ==
    /\ worker[s] = "reading"
    /\ worker' = [worker EXCEPT ![s] = "dead"]
    /\ UNCHANGED <<mode, position, refreshed, queue, closed, consumer, got>>

-----------------------------------------------------------------------------
(* The consumer of _list_generator.  data.empty() and is_closed.is_set() are*)
(* two steps: the worker may put chunks and close the stream in between.    *)

\* is_closed.wait()
StressWait(s) ==
    /\ consumer[s] = "block"
    /\ closed[s]
    /\ consumer' = [consumer EXCEPT ![s] = "empty"]
    /\ UNCHANGED <<reading, queue, closed, got>>

TestEmpty(s) ==
    /\ consumer[s] = "empty"
    /\ mode[s] # "async"
    /\ consumer' = [consumer EXCEPT ![s] =
                        IF queue[s] = <<>> THEN "closed" ELSE "get"]
    /\ UNCHANGED <<reading, queue, closed, got>>

Take(s) ==
    /\ got' = [got EXCEPT ![s] = Append(@, Head(queue[s]))]
    /\ queue' = [queue EXCEPT ![s] = Tail(@)]
    /\ consumer' = [consumer EXCEPT ![s] = "yielded"]

Get(s) ==
    /\ consumer[s] = "get"
    /\ Take(s)
    /\ UNCHANGED <<reading, closed>>

TestClosed(s) ==
    /\ consumer[s] = "closed"
    /\ consumer' = [consumer EXCEPT ![s] =
                        IF closed[s] THEN "finished" ELSE "empty"]
    /\ UNCHANGED <<reading, queue, closed, got>>

\* The mutant of AsyncTake: the closed stream is not drained.
AsyncTakeWhileOpen(s) ==
    /\ consumer[s] = "empty"
    /\ mode[s] = "async"
    /\ ~ closed[s]
    /\ queue[s] # <<>>
    /\ Take(s)
    /\ UNCHANGED <<reading, closed>>

\* __anext__ of AsyncListIterator: no other coroutine runs between its tests.
AsyncTake(s) ==
    /\ consumer[s] = "empty"
    /\ mode[s] = "async"
    /\ queue[s] # <<>>
    /\ Take(s)
    /\ UNCHANGED <<reading, closed>>

\* The mutant of AsyncStop: the loop ends on a closed stream.
AsyncStopEarly(s) ==
    /\ consumer[s] = "empty"
    /\ mode[s] = "async"
    /\ closed[s]
    /\ consumer' = [consumer EXCEPT ![s] = "finished"]
    /\ UNCHANGED <<reading, queue, closed, got>>

AsyncStop(s) ==
    /\ consumer[s] = "empty"
    /\ mode[s] = "async"
    /\ closed[s]
    /\ queue[s] = <<>>
    /\ consumer' = [consumer EXCEPT ![s] = "finished"]
    /\ UNCHANGED <<reading, queue, closed, got>>

\* The caller asks for the next chunk, or drops the iterator.
Resume(s) ==
    /\ consumer[s] = "yielded"
    /\ consumer' = [consumer EXCEPT ![s] = "empty"]
    /\ UNCHANGED <<reading, queue, closed, got>>

Abandon(s) ==
    /\ consumer[s] = "yielded"
    /\ consumer' = [consumer EXCEPT ![s] = "gone"]
    /\ UNCHANGED <<reading, queue, closed, got>>

-----------------------------------------------------------------------------

Worker(s) ==
    \/ PoolRun(s)
    \/ ReadChunk(s)
    \/ ReadEnd(s)
    \/ RefreshAndReread(s)
    \/ RefreshAndGoOn(s)
    \/ ReadFailure(s)

Consumer(s) ==
    \/ StressWait(s)
    \/ TestEmpty(s)
    \/ Get(s)
    \/ TestClosed(s)
    \/ AsyncTake(s)
    \/ AsyncStop(s)
    \/ Resume(s)
    \/ Abandon(s)

StreamNext == \E s \in Streams : Start(s) \/ Worker(s) \/ Consumer(s)

StreamSpec == StreamInit /\ [][StreamNext]_streamVars

\* Workers and consumers that can run do; a request times out in the end, so a
\* worker does not read for ever.  A caller need not start to read.
StreamFairness == \A s \in Streams : WF_streamVars(Worker(s)) /\ WF_streamVars(Consumer(s))

StreamFairSpec == StreamSpec /\ StreamFairness

-----------------------------------------------------------------------------
(* Properties.                                                              *)

\* Every variable has its type; no chunk is made up.
StreamTypeOK ==
    /\ mode \in [Streams -> Modes]
    /\ worker \in [Streams -> WorkerStates]
    /\ position \in [Streams -> 0 .. Length]
    /\ refreshed \in [Streams -> BOOLEAN]
    /\ queue \in [Streams -> Seq(1 .. Length)]
    /\ closed \in [Streams -> BOOLEAN]
    /\ consumer \in [Streams -> ConsumerStates]
    /\ got \in [Streams -> Seq(1 .. Length)]

\* What has been read off an answer: the chunks so far, each once and in order, and
\* before them, if the token was refreshed in the middle of a synchronous answer, the
\* chunks that the refresh gave up.
ReadOff(s, chunks) ==
    \/ chunks = UpTo(position[s])
    \/ /\ refreshed[s] /\ mode[s] # "async"
       /\ \E k \in 0 .. Length : chunks = UpTo(k) \o UpTo(position[s])

\* What the consumer was given and what waits for it are together exactly what
\* the worker has read, in order; a chunk comes twice only if the token expired in the
\* middle of a synchronous answer, and never a third time.
NothingReorderedOrLost ==
    \A s \in Streams : ReadOff(s, got[s] \o queue[s])

\* A consumer that waits for the end first (stress test) or whose loop tests
\* the queue after the flag (async) finishes with every chunk that was read, and these
\* go to the end of the answer, but for an asynchronous one whose token expired.
DrainedWhenFinished ==
    \A s \in Streams :
        consumer[s] = "finished" /\ mode[s] \in {"stress", "async"}
            => /\ ReadOff(s, got[s])
               /\ position[s] = Length \/ (mode[s] = "async" /\ refreshed[s])

\* Once the worker has closed the stream the consumer gets to the end, or is
\* dropped by its caller: the flag is not missed, in the pool either.
ClosedStreamEnds ==
    \A s \in Streams : closed[s] ~> consumer[s] \in {"finished", "gone"}

=============================================================================
