# A verification of the Qianfan Python SDK

TLA+ models of the concurrent core of the Qianfan SDK (`python/qianfan`), the
TLC configurations that check them on small instances, and TLAPS proofs of what
matters most for every instance. Paths below are relative to `python/qianfan/`.

## 1. Inventory

The repository holds four client SDKs (Python, Go, Java, JavaScript), notebooks
and docs. The Python SDK is by far the largest and the only one with threads,
locks, queues and retries of its own, so it is the one modelled.

| Component | State it keeps | Operations | Interacts with | What is hard | What makes it correct |
|---|---|---|---|---|---|
| Synchronous limiter, `resources/rate_limiter/rate_limiter.py` `_RateLimiter._SyncLimiter` | bucket, last leak, FIFO of tasks, worker thread | `acquire`, `_worker`, `reset`, `stop` | callers through one Condition per task; `_LimiterWrapper` resets it | notify against wait, sleep outside the lock, resets in between | the rate is kept, first come first served, every acquire returns |
| Wrapper and registry, same file, `VersatileRateLimiter`, `_LimiterWrapper` | closed flag, kind of limit, reset flag, map of limiters by key | `acquire(key)`, `__enter__`, `reset_once` and their async twins | requestors enter it before each request and hand it the server's limit | flags read without the lock, two locks for one flag | one limiter per key, one reset, no use of a limiter that is not there |
| Tokens per minute, `resources/token_limiter.py` | limit, budget of the minute, last check, reset flag | `decline`, `compensate`, `clear`, `reset_once` | `resources/requestor/openapi_requestor.py` calls it around each request | lock held through sleeps, checks outside the lock | the budget of a minute, one reset, no lost lock |
| Streamed answers, `openapi_requestor.py` `_list_generator`, `AsyncListIterator`, `iter` | queue of chunks, closed flag, reader | read, close, take, refresh the token and reread | reader thread, pool task or coroutine beside the consumer | two tests instead of one, an exception of the reader | every chunk in order, and once unless the answer is started again; the stream ends |
| Redis limiter, `resources/rate_limiter/redis_rate_limiter.py` and its scripts | windows in redis; flags and locks in each process | `acquire`, `__enter__`, `reset_once`, scripts | all processes that share the redis | initialisation seen half done, double counting in the fallback | the window's limit holds across processes |
| Authorization, `resources/auth/oauth.py` | token map, token and times, thread lock and asyncio lock of each token | `register`, `get_token`, `refresh_token` and async twins | requestors, before a request and on an expired token | one token behind two kinds of lock, refreshes skipped when too recent | one refresh for many threads; the retry uses the new token |
| Request retry, `resources/requestor/base.py`, `openapi_requestor.py` | attempts, refreshed flag | `_with_retry`, `_retry_if_token_expired` | the components above | nested retries that share a flag | bounded attempts, one refresh per call |
| Training pipeline, `trainer/pipeline.py` | current action, stop flag, result cell | `exec`, `exec_from`, `resume`, `stop`, `persist`, `load` | actions; `FilePersister`; the polling thread of `exec` | a stop against a start, a result read before it is there | actions in order, once; a stop is honoured; a saved pipeline resumes where it was |
| Persister, `common/persister/persist.py` | one file per object | `save`, `load`, `list` | pipeline saves from two threads | a file cut by a crash, two writers | what is loaded was saved |
| Batch requests, `resources/llm/base.py` | futures, count of the finished, executor | `_batch_request`, `results`, `wait`, `_abatch_request` | pool threads' callbacks | the last callback shuts the executor down | the results of all tasks, in the order given |
| Model list cache, same file | cached endpoints and their time | `_get_supported_models...`, retry on an unsupported method | console API | refreshes by several threads | thin; not modelled |
| Trainer actions, `trainer/actions.py`, `model/model.py` | ids of the remote job, task, model and service; input and result of each action | `exec`, `resume`, `_action_dict`, `_load_from_dict` of four actions; `Model.publish`, `Service.deploy` | console API; the pipeline runs, saves and loads them | lost answers, failures between two steps, a load that gives back less than was saved | what belongs together stays together; no known task is created twice; a resume can go on |
| Readers of a mapped table, `dataset/data_source/utils.py` `TaskDispatcher`, `chunk_reader.py` `MapperReader` | index of the next batch, output queue, semaphore, event, barrier | `get_task`, `_process_closure`, `_get_an_element` | worker threads and the caller of `map`, `filter`, `iterate` | order restored behind threads, a permit that only the last thread gives | every batch once, in order; the reading ends |
| Trainers, evaluation, `trainer/`, `evaluation/` | a pipeline each; evaluation jobs | run, resume, stop | console API | long polls | not modelled |
| The rest of the datasets, console resources, command line, prompts, extensions, autotuner, stress test | data | sequential processing and I/O | | | not modelled |
| Go, Java and JavaScript SDKs | as above | as above | | | not modelled |

## 2. Modules

| Module | Models | State and actions |
|---|---|---|
| `TokenBucket` | abstract promise of a rate limiter | a level, a list of pending requests, the admitted callers; `Request`, `Admit`, `Leave`, `Refill`, `Lower` |
| `SyncLimiter` | `_SyncLimiter` and the rounding in `_RateLimiter` | one action per point where a thread may lose the processor: `CheckAmount`, `PutTask`, `Wait`, `Return` for `acquire`; `WorkerLoop` to `WorkerNotify` for `_worker`; `Reset`, `Stop`; `Tick` is the clock |
| `SyncLimiterProofs` | | theorems about `SyncLimiter`, among them that it implements `TokenBucket` |
| `TokenLimiter` | `TokenLimiter` and the calls of a request to it | `Decline*`, `Answer*`, `Compensate*`, `Clear*`, `Reset*` per thread; `NextMinute` is the clock |
| `StreamReader` | `_list_generator`, `AsyncListIterator`, the refresh in `iter` | `Start`, `PoolRun`, `Read*`, `Refresh*` for the reader; `TestEmpty`, `Get`, `TestClosed`, `AsyncTake`, `AsyncStop`, ... for the consumer |
| `RequestorProofs` | | theorems about `TokenLimiter` and `StreamReader`; the latter's `Init`, `Next`, `Spec`, ... have the prefix `Stream`, so that one module can extend both |
| `AccessToken` | `AuthManager` and `Auth` for one `(ak, sk)`, `_retry_if_token_expired` inside `_with_retry` | the token map and object, its two locks, the server's tokens; `TestRegistered` to `MarkRegistered`, `GetToken`, `Accepted`, `Refused`, `SkipRefresh`, `StartRefresh`, `Answer`, `WriteToken`, `StampToken`, ... per caller; `Expire` and the clock |
| `AccessTokenProofs` | | theorems about `AccessToken` |
| `Pipeline` | `Pipeline` of `trainer/pipeline.py`, `FilePersister.save`, `TrainAction` | `current_action`, `_stop`, what each action knows, the file, `res[0]`; the steps of a save (`ReadCurrent`, `ReadAction`, `OpenFile`, `WriteFile`, `SaveFails`) and of `exec_from` (`Begin` to `Return`) for either thread, the poll of `exec` (`Look`, `Poll`, `LeaveExec`), `Resume`, `Stop`, the server, `Crash` and `Load` |
| `PipelineProofs` | | theorems about `Pipeline` |
| `LimiterWrapper` | `VersatileRateLimiter` and `_LimiterWrapper` | the registry, each limiter's wrapper, its flags, its two reset locks and the rate of each bucket on each side; `Acquire` to `Link` for `acquire`, `ReadClosed`, `ReadKind`, `EnterBucket`, `Leave` for a request, `BeginReset` to `Open` for either reset |
| `LimiterWrapperProofs` | | theorems about `LimiterWrapper` |
| `MapReader` | `TaskDispatcher` and `MapperReader` | index and lock of the dispatcher, queue, semaphore, event; `GetTask` to `ReleaseReader` per worker, `TestEmpty` to `TestDoneAwake` for the caller |
| `MapReaderProofs` | | theorems about `MapReader` |
| `TrainActions` | the four actions of a training chain, `Model.publish`, `Service.deploy`, and what the pipeline does between them | what the process holds, what was saved, what is on the platform; one action per request and per return of an action; `RequestFails`, `FindFails`, `DeployFails`, `AnswerLost`, `Crash` |
| `TrainActionsProofs` | | theorems about `TrainActions` |
| `RedisLimiter` | `RedisRateLimiter` with `check_rate_limiter.lua` and `reset_rate_limiter.lua` | the windows in redis, the flags of each process; `Acquire` to `SetInRedis`, `Enter` to `Leave`, `ReportIgnored`, `DivideByZero`, `ResetOnce`, `ResetWindow` per thread, `SetLost` and `CheckLost` for the calls to redis that fail; `Flush` and the clock of redis |
| `RedisLimiterProofs` | | theorems about `RedisLimiter` |
| `MC*` | instances for TLC | values of the constants |

No module composes two others yet, `SyncLimiter` over `TokenBucket` (a
refinement) excepted: `AccessToken`, `Pipeline` and `TrainActions` each hold the
whole of a code path through two or three source files. Two pairs divide one
code path between them. `LimiterWrapper` decides who enters which bucket at what
rate, and `SyncLimiter` shows that a bucket lets its callers in at that rate, in
order. `Pipeline` has the threads, the flag of `stop` and the steps of a save,
over actions that compute a result or wait for a task; `TrainActions` has the
actions with every request they make, over a save that is one step.

Each module's definitions named for the mutants (a comment says "a mutant of" it)
are plausible bugs of the code, defined beside the definition they replace; no
specification uses them.

### Abstractions

- `SyncLimiter`: tokens are integers, a query costs `Query` of them, so that
  half a query can be expressed; a rate is units per tick. Refill and test are
  one step because they are one critical section; the length of the sleep is
  computed in a later step because it is computed outside the section. The
  clock is free: any number of steps fit in a tick, and a tick may pass at any
  point. `Stop` needs every caller outside `acquire`: it is called by `__del__`,
  and a caller inside holds a reference.
- `TokenLimiter`: the clock counts minutes, since the code compares minutes and
  its sleep always ends in the next one. A need above the limit raises
  ValueError before anything is changed, and is no step. `AsyncTokenLimiter` has
  the same steps with fewer interleavings.
- `StreamReader`: a chunk is its number, and an answer that is asked for again
  has the same chunks. A reader's exception is a step that may come at any time,
  and so is the message that the access token has expired. A synchronous reader
  then goes on with a new connection from its first chunk, although it has handed
  on those of the old one (`openapi_requestor.py:151-164`); an asynchronous one
  goes on with the old connection (`:249`, `:269`). The way a stream is read is
  chosen at the start.
- `AccessToken`: a token is the number of its issue, and the server says of each
  whether it is still good. A caller is a thread, a coroutine (it reads the token
  as a thread does, `requestor/base.py:407`, but refreshes under `alock`) or the
  refresh inside a stream. Looking for the Token object and making it is one
  step. Signed requests, bearer tokens with a refresh function of their own, the
  pauses between attempts and the text of the errors are left out.
- `Pipeline`: an action is plain (it computes its result) or a training (it
  creates a remote task and polls it until it ends; the task outlives the
  process). The save reads `current_action` and then the actions one by one
  while the other thread runs (`pipeline.py:229`), empties the file and writes
  it; when both threads write, the longer text may stick out of the shorter one,
  and such a file does not load. Two threads of the process (the caller's and
  the worker of `exec`) and a third that calls `stop`. `exec` is called once:
  the trainers make a pipeline per run. Post actions, which no trainer sets, the
  subprocess of `start` and the event handlers are left out. A save fails when
  the platform does not answer the action that loads the data sets, which asks it
  for them each time it is read (`actions.py:339`); the exception ends the run of
  the thread that saves, and the one in the loop of `exec` leaves the worker
  running. Of several data sets it is one request.
- `LimiterWrapper`: a bucket is the rate it was given, once for threads and once
  for coroutines, and lets everybody in after some time. A coroutine keeps the
  processor between two awaits (`Runs`). Setting several attributes between
  which no other caller can be told apart is one step; setting `_is_rpm`, each
  bucket and `is_closed` are steps of their own. The qps limit is kept per
  minute, as `reset_once` compares it.
- `MapReader`: a batch is its number; its place in the queue is the number of its
  first row, `n * size`. What the user's function returns is some rows, none, or
  an exception. Looking at the front of the queue and taking it is one step,
  since there is one consumer. The five seconds of `get` cannot pass: the caller
  has seen an element, and nobody else takes it.
- `TrainActions`: a task, a model and a service are numbers in the order of their
  creation. A request fails, or is carried out and its answer is lost; both raise
  in the code, after the retries of the client. Fields that are always set
  together are one field. Stopping a task makes it one that fails.
- `RedisLimiter`: a limit is requests per minute; a window holds units of which a
  request costs `Minute`, so that a second adds as many units as the limit. redis
  runs one script at a time and cuts the number a script returns down to an
  integer, so a wait is too short by up to a second. A script that redis has
  forgotten is tried again for all windows. Each call to redis may fail, with its
  effect or without: the exception gives back the lock and ends the request, and
  what the limiter has noted of itself stays. A report is any number
  (`openapi_requestor.py:129-132` passes the header on unchecked). The script
  makes a limit that is not above zero one request per period
  (`reset_rate_limiter.lua:5-9`), which is not the same limit for the two windows
  of a limit per minute; a report of zero also turns a limiter per minute off
  (`redis_rate_limiter.py:257`) and raises in one per second (`:225`). A call
  that sets a window and its second attempt by the text of the script are one
  step. Keys never expire (`_pulse` renews
  them each hour) and `forcing_disable` and a limiter without limits, which do
  nothing, are left out.

## 3. What the runs check

| Run | Instance | Shows |
|---|---|---|
| `sync_limiter` | two threads, four puts, a limit of two queries at 3/2 queries per tick that may be lowered to half a query (which `_RateLimiter` rounds up to one query in a longer period), time to 4 and on while the worker sleeps | `RateBound`, the order and payment of tasks (`ImplementsTokenBucket`), no task left behind by a stop, every task is paid for |
| `lost_wakeup` | the same callers, two puts | **refuted**: `EveryAcquireReturns`. `acquire` puts its task before it waits; the worker may notify in between, and the wait has no timeout |
| `token_limiter` | two threads, three requests, three minutes, limits 4, 2 and 0 less a buffer of a quarter | the minute's budget, a raise only when the limit was lowered, one reset, no lock lost, no decline hangs |
| `stream_reader` | two streams, each in one of the four ways, two chunks, a pool of one, a token that expires before, between or after the chunks | order and completeness of the queue, chunks given twice only by a refresh in the middle of a synchronous answer and never three times, full drain where the code tests in the right order, the end is seen |
| `access_token` | two callers, each a thread or a coroutine, one call of two attempts each; an interval of 2, early by 1, a request for a token takes 1, a token lives 3, time to 6 | however many callers are refused at once, threads ask for one new token; a request sent again carries another token than the refused one; every call ends and keeps no lock |
| `pipeline` | a chain of plain, training, plain, in which any save may fail; one stop, two resumes, one crash; the user resumes only when the worker has ended | no action runs before its predecessors have results, in any process; after `exec` the file holds the pipeline as it is, if nobody stopped it and no save of its own failed; `exec` ends |
| `two_threads` | a chain of a training and a publish, in which no save fails; one stop, one resume, no crash; the user may resume at once | **refuted**: `Sequential`. `exec` returns after a stop while its worker still runs an action; `resume` then runs the chain in a second thread |
| `limiter_wrapper` | two threads and a coroutine, one request and one report each; two limiters under one key or none, made without a limit, with one above or below the report, disabled, refused, or with a buffer ratio of 1; a report of half the larger limit or of nothing left | one wrapper per key; no caller enters or lowers a bucket that is not there; one reset per wrapper, and after it the stricter rate in every bucket of the resetting side; every call returns and keeps no lock |
| `map_reader` | two workers, three batches, of one row or two, in order or not; each batch gives rows, none or an exception | each batch is dealt and given once, in order if asked; without order only a batch put between the two tests of the caller is missed; the reading ends where the code can make it end |
| `missed_batch` | two batches of two rows, in order | **refuted**: `WholeTableGiven`. The second batch waits under place 2 for a caller that asks for place 1 |
| `train_actions` | three failures or lost answers, three resumes, two restarts | a model is of the chain's task and a service of the published model; a task is created twice only if the process could not know the first; within a process a resume can go on; every run ends |
| `redis_limiter` | two threads of one or two processes, 6 requests per minute of six seconds or 12 in a one-second window, two requests each, a report of 3, 0 or -1, one fault (a call that fails, with its effect or without, or scripts forgotten), a second that may pass between any two steps | all processes together keep within the capacity and rate of a window, up to the second that redis cuts off; each window keeps the lowest limit it was given, and the two of a limit per minute agree unless a setting call failed or a report was not above zero; a script finds its keys missing only during the first acquire or after a setting call that failed |

The repository's docs say more than the code keeps in four further places, which
the models have but no run is spent on: `forcing_disable` of a token limiter only
presets `_has_been_reset`, so it still sleeps (`token_limiter.py:112`, `:161`);
`_list_generator` drops chunks that are put between its test of the queue and its
test of the flag (`openapi_requestor.py:516`); a late registration writes an
access token given by the user over a refreshed one (`oauth.py:116`); `exec_from`
erases a stop that comes before it begins (`pipeline.py:134`). The last three are
excluded by a condition in the property they would break, or, for the stop, by
the absence of one.

Every property of a passing run is broken by a mutant of the code listed in
PROJECT.json: the properties do depend on the guards and the order of the code.

### Bounds, and why they are enough

Two threads are enough for each race found or excluded here: every critical
section involves one thread and the worker or one other thread. Four puts let
each caller come back after a reset and queue behind the other. `MaxNow` stops
the clock only while nobody sleeps, so no sleep is cut short by the bound. A
limit below a query is among the limits, so that the rounding matters. In
`TokenLimiter` three minutes are one more than a decline that fails, sleeps and
is served needs, and the clock goes on for a sleeper. Two chunks suffice for
order, for a chunk lost at the end and for a token that expires between them; a
pool of one makes the second reader wait.

In `AccessToken` six ticks let a token expire, be replaced after the interval,
and expire again before the second attempt of a slow caller. The assumption
`MinInterval + 2 * AuthTimeout <= Lifetime + Early` says that a token outlives
the interval in which it is not refreshed; the defaults are 3600, 5, 10 seconds
and the 30 days of the server. Without it a refresh skipped as too recent would
lead back to a token that has died. `"stream"` callers are in the module and in
the proofs but not in the instance: they take a shorter way through the same
locks, and the state space with them is too large to check in minutes.

In `LimiterWrapper` three callers are a reset under way, a second one waiting for
its lock and a request that reads the flags in between; both sides occur. Two
limiters and one key are what a race for a wrapper needs. One call each is
enough: a second call of a thread takes the same steps as a first call of
another.

In `MapReader` a third batch is dealt while the other two are being worked on and
one more thread than free batches comes to the barrier early. Batches of two rows
have places that the caller never asks for; batches of one row have all of them.

In `TrainActions` three resumes let one fail in each of two actions and a third go
on; with two restarts a loaded pipeline is saved and loaded again. A task, a
model and a service can each be created twice and more within these bounds.

In `RedisLimiter` the second request of a thread waits for credit that the first
and the other thread have used up. The reports are one below the limit of either
setup, zero and one below zero; each comes alone or against a process that was
not reset. The two processes may have different setups, which gives windows of the
same kind different limits only through a report. One fault is enough for each
case by itself: it can hit either of the two checks of a request, the first or the
second window that a start or a report sets, with or without its effect. Threads
and processes are symmetric. The proofs put no bound on the number of faults.

In `Pipeline` three actions put a training between a predecessor and a
successor; a crash and two resumes let a loaded pipeline be resumed, fail and
be resumed again. A chain of one or two actions has no step that is not in this
one. `PatientUser` is not a bound but a rule of use that the code does not
enforce: `two_threads` shows what happens without it.

### Fairness

Weak fairness of each thread that can run and of the clock: the operating
system schedules threads, time passes, a request ends or times out. Nobody is
obliged to start a call, to reset, or to stop. A consumer of a stream asks for
the next chunk or drops the iterator. A lock in `TokenLimiter` needs no strong
fairness because the number of requests is finite; in `AccessToken` the same
holds of the calls. In `Pipeline` each of the two threads runs, and the server
ends each task some day (`TrainAction` polls without a limit); nobody is obliged
to stop, to resume or to restart a process that has ended. `TrainActions` assumes
the same of a run and of the platform, for tasks, models and services. In
`MapReader` every worker and the caller run. In `LimiterWrapper` it is enough that
some caller that can go on does: calls are bounded. `RedisLimiter` has safety
properties only.

## 4. What is proved

All theorems hold for any set of threads, any limits, lengths and chains. The
bounds on time and counts only restrict behaviours and play no part in them.

`SyncLimiterProofs`, assuming positive query size, amounts and limits
(`LimiterAssumption`):

- `TypeCorrect`: `Spec => []TypeOK`. Its interesting part is that the bucket
  stays between zero and the capacity in force, and that the refill never looks
  into the future. It needs to know which amounts the worker and the callers
  carry from one step to the next.
- `RateKept`: `Spec => []RateBound`. The bound speaks of pairs of grants and is
  not inductive. The strengthening (`Account`) relates each grant to the
  present: what was spent since just before it, plus what the bucket holds, is
  at most one capacity plus the rate times the time from the grant to the last
  refill. A refill adds at most the rate times the time since to both sides;
  the worker's payment moves tokens from the second term to the first; a short
  worker only moves the timestamp; a reset starts a new log. A grant paid for
  later then gives the bound for the pair.
- `StopFindsNoTask`: `Spec => []NoTaskAfterStop`. The invariant is one of
  ownership: a task on the queue or with the worker belongs to one caller, who is
  inside `acquire`, has not been paid for and has no other task; stop finds every
  caller outside.
- `Refinement`: `Spec => ImplementsTokenBucket`. The level of the abstract
  bucket is what a refill would find now, the pending requests are the task in
  the worker's hand and then the queue. The lazy refill is invisible
  (`LeakedNow`), a tick is one refill (`LeakedTick`), and a reset that lowers
  the limit never leaves more than the bucket had (`LeakedLower`), although it
  does not leak at the old rate first.
- `SleepsOnce`: of the behaviours without a reset (`SpecWithoutReset`), once the
  worker wakes the bucket pays. No task is for more than the capacity
  (`WithinCapacity`), and the deficit over the rate, rounded up (`RoundedUp`),
  counts from a moment after the last refill (`LongEnough`). A reset during the
  sleep may make the worker sleep again, which the theorem leaves out.

`RequestorProofs`, of `TokenLimiter`, for any needs, usages, limits and buffer ratio:

- `TypeCorrect`: among the types, the lock is held exactly by the thread inside
  `decline`'s critical section.
- `BudgetKept`: what was declined in a minute and what is left of its budget are
  covered by the largest limit of the minute and what was given back.
  `reset_once` carries over what was taken of the old limit; that this keeps the
  account depends on its being the first reset.
- `RaisesJustified`: from its second attempt on, a thread that holds the lock
  finds a later minute and so the whole limit; if that is too little then the
  limit was lowered, and nobody can raise it while the lock is held.
- `ResetOnce`: `Spec => OneReset /\ []LimitFromReport`. After the first reset no
  answer of the server changes the limit. A limiter that was never reset, or made
  with `forcing_disable`, has the configured limit; another limit is the buffered
  value of one that the server reported, lower than the configured one unless the
  limiter was closed. It rests on what the thread at the lock carries being a
  report (`CarriesReport`).
- `NoDeadlock`: `Spec => []NobodyStuck`. While a request is under way some thread
  can go on, or sleeps with the lock until the clock ends the minute: the lock is
  always with a thread inside `decline`, which leaves it on every way out.
- `RequestsRunOut`: a number of at most twenty falls with every step of a request,
  and each attempt of `decline` takes its share of it, so no request goes round.

`RequestorProofs`, of `StreamReader`, for any number of streams, ways, chunks and pool:

- `StreamTypeCorrect`; `OrderKept`: what was given followed by what is queued is
  what was read (`ReadOff`): the chunks of the present connection as far as it has
  come, in order, and before them, if a synchronous answer was asked for again,
  those handed on before. Since a token is refreshed once per answer, no chunk
  comes three times.
- `Drained`: a closed stream was read to its end, or to the end of an asynchronous
  answer whose token had expired, and is never put on again; the consumers of the
  two good orders test the queue when it is closed, so what they find empty stays
  empty.

`AccessTokenProofs`:

- `TypeCorrect`: a refresh under way holds the lock of its kind and keeps within
  its timeout.
- `NotTooOften`: `Spec => []RefreshedOnce`. With one kind of lock and no token
  given by the user: whoever is about to ask for a token has found the last one
  old enough (`AskedInTime`); the time of the last one is on the Token object
  (`StampedOrPending`) unless its owner, who still holds the lock, is about to
  write it there.
- `RetryHasNewToken`: `Spec => []RetryUsesNewToken`, of threads and coroutines
  together, which have two locks and may write an older token over a newer one.
  The invariant `RetryInv` says that a token in an answer is new to everybody
  (`Answered`), so that no writing of a token brings back a refused one, and that
  the time beside a token is at most two timeouts later than its issue
  (`Recent`). A refresh skipped as too recent has therefore found another token
  than the refused one, whose lifetime is over; this is what the assumption
  `MinInterval + 2 * AuthTimeout <= Lifetime + Early` is for, and the only place
  that uses it.
- `NoDeadlock`: `Spec => []NobodyStuck`. Both locks are held only during a refresh,
  by a caller that guards the token with them (`LocksInUse`), and a caller in a
  refresh waits for nothing but the answer. The event loop that coroutines share
  is not in the model: a coroutine that waits for the thread lock stops it, but
  only until the thread that holds the lock has its answer.
- `RetriesRunOut`: a number (`Rank`) below 96 times the attempts falls with every
  step of a call. An attempt sends, refreshes, and sends again (`Phase`);
  `token_refreshed` outlives the attempt, so a second refusal is raised. Without
  the test of that flag (a mutant) the refusals of a dead token would go round.

`PipelineProofs`:

- `TypeCorrect`, for any user: with it, that no thread runs in a process that
  has not loaded its pipeline, and that only a pipeline that has begun an action
  is resumed (`Quiet`).
- `PredecessorsFirst`: `PatientUser` implies `Spec => []PredecessorsDone`. The
  invariant `Ordered` says that one thread at a time goes through the chain, that
  everything before `current_action` has its result, that a thread's action is
  the current one while it runs, that a save under way has read results of
  everything before the `current_action` it has read as far as it has come, and
  that a file that loads has them. It holds because the save reads
  `current_action` first (the other order is a mutant) and results only grow
  within one process.
- `OneAtATime`: the same user never has two threads in actions.
- `LastSaveHolds`, for any user: `Spec => []LastSaveComplete`. In a run that
  nothing disturbs (no stop, resume or crash, and no save of the poller that
  fails; one of the worker's may) the poller begins its last save when the worker has ended
  (`Roles`); nothing changes the pipeline or the file from then on but this save,
  which has read everything it has come to as it is and finds the file empty when
  it writes (`Complete`).

`LimiterWrapperProofs`, for any threads, coroutines, limiters, keys, setups and
reports:

- `TypeCorrect` and `OneCount`: `Spec => []OneWrapperPerKey`. The invariant
  `AcquireInv` says what the two locks of `acquire` are for: who builds a wrapper
  or takes one from the map holds `_init_lock` of its limiter, which has none
  yet; who builds one for a key holds `_MAP_LOCK` as well, and the map has none
  yet. So a limiter is linked once, and to what the map keeps.
- `NothingMissing`: `Spec => []NoMissingLimiter`, and `StricterRate`:
  `Spec => []LimitInForce`. Both need the same invariant, `ResetInv`, about
  wrappers that are reset from one side: a wrapper is as built until its one
  reset is claimed (`AsBuilt`); the reset has come as far as its program counter
  says, with the flags and buckets that go with it (`Progress`); it can be
  entered whenever it is open (`Enterable`); and a request that has found it
  open keeps finding the buckets of its kind (`Entering`), although it holds no
  lock. The last holds because a reset of an open wrapper lowers rates or closes
  it and takes no bucket away, and one of a closed wrapper opens it last.
- `NoDeadlock`: `Spec => []NobodyStuck`. As long as a caller is inside a call, on
  no wrapper yet or on one reset from one side, some caller can go on. `Owners`
  says that each lock is held by a caller inside what it guards, and that of the
  coroutines one at most is not at an await, so who holds a lock can run. A
  caller waits for `_init_lock` without any lock and for `_MAP_LOCK` with that
  one only, hence in no circle; a reset of a wrapper that is reset from one side
  never fails (`NeverFails`), and so always gives its lock back. A reset that
  finds no bucket keeps the lock: of such wrappers nothing is claimed.

`MapReaderProofs`, for any number of threads and batches, any batch sizes and
whatever the function returns:

- `TypeCorrect`; `NothingTwice`: `Spec => []DealtOnce`. The batch in the hands of
  a thread, the queued ones and the given ones are all below the dispatcher's
  index (`Dealing`), the index moves only with the lock, and `data_id` is how
  many batches an ordered caller was given (`Placed`).
- `MissedAreLate`: `Spec => []OnlyLateBatchesMissed`. Without order no batch that
  was dealt is lost (`NoneLost`), the event is set when the others have gone
  (`AtTheEnd`), and what is on the queue when the caller tests the event has come
  since it found the queue empty.
- `NeverForgotten`: `Spec => []CallerWoken`. Whenever the caller sleeps on the
  semaphore with no permit, a thread is left that will give one. The last thread
  to leave sets the event first and gives its permit after (`LastPermit`), the
  caller only goes to sleep when the event was not set, and with order a batch in
  front that has come is never left on the queue (`NothingLost`): the batches of
  the threads that have gone are there or were given. It supposes what the code
  needs: a function that never raises (a thread that dies gives no permit) and
  batches that match their places in an ordered reading (the finding
  `WholeTableGiven` is about the others).

`RedisLimiterProofs`, for any threads, processes, kinds and limits, reports of any
sign, any number of failing calls and a minute of any length:

- `TypeCorrect`: among the types, each of the two locks of a limiter is with the
  thread inside (`Locked`), and a thread works on the windows of its limiter's
  kind (`InPlace`).
- `BoundKept`: `Spec => []WindowBound`, of all the processes on a window. The
  bound is of pairs of requests and not inductive. `Account` says of each request
  let in under the present limit that what was let in after it and what is left
  now are covered by the capacity and the rate times the time since it may begin.
  What is left may be below zero, for the requests that were told to wait; redis
  rounds the wait down, so the last of them begins up to a second early, which is
  the second in the bound. Only requests under the
  present limit need an account because a limit never comes back: it only falls.
- `LimitsFall`: `Spec => [][OnlyLower]_vars`, that last fact, as an action property.
- `LowestInForce`: `Spec => []StrictestInForce`. Each window is at the lowest limit
  it was given (`InForce`), whatever failed. The window of a minute is given its
  limit first, so that each limit of the tenth has one of the minute that is no
  higher (`MinuteAsked`), a failed call in between included; for a limit that is
  not above zero the script gives the minute the lower one. As long as no setting
  call has failed and no such limit was taken on (`Clean`), the tenth has been
  given what the minute has, less what the threads between the two carry
  (`TenthFollows`), and so the two agree.
- `KeysAreThere`: `Spec => []NothingRaisedOnceSet`. Once the flag of a limiter is
  set its keys are there, or the thread that holds the lock is as far with them
  as its place says, or a call of its process that sets a window has failed
  (`torn`); no step takes a key away (`KeysComing`). After such a failure nobody
  of the process sets the keys again (`redis_rate_limiter.py:379`): its requests
  raise until another process does.

`TrainActionsProofs`, for any number of failures, lost answers, resumes and
restarts, from one invariant:

- `TypeCorrect`: what is polled, published or deployed exists. It needs to know
  which action a program counter belongs to (`Located`).
- `ChainKept`: `Spec => []OneChain`. No model is made before the training is over
  and saved (`InOrder`): from then on neither a resume nor a restart creates
  another task, because both memory and file have the result of the training.
  The save between two actions is what this rests on.
- `OneTask`: `Spec => []OnlyStrangersDoubled`. A task that is not a stranger is the
  one in memory (`Known`), and a new one is created only if there is none.
- `ResumeGoesOn`: `Spec => []ResumeFindsInput`. In a process that was not restarted
  an action keeps its input from its first step on, before any request (`Given`).

## 5. Only model-checked, or not modelled

Liveness (`EveryTaskIsPaid`, `EveryDeclineEnds`, `ClosedStreamEnds`,
`EveryCallEnds`, `ExecEnds`, `EveryCallReturns`, `ReadingEnds`, `RunEnds`) is
beyond the prover and stays with TLC. What those properties rest on besides
fairness is proved where it is safety: that somebody can go on (`NoDeadlock` of
three modules, `NeverForgotten`) and that nothing goes round (`RetriesRunOut`,
`RequestsRunOut`, `SleepsOnce`).
Every safety property a run checks is stated by a theorem. The assertions of the
runs that expect a violation are of course not.
The proofs are about the modules as they stand; that a module is faithful to the
code rests on the lines PROJECT.json maps its definitions to.

Not modelled: the tokenizer's count (any need is allowed), formatting, logging,
the content of requests and answers, sub-tick timing, and the components marked
so in PROJECT.json with their reasons. Known limits of the models: what `exec`
returns is in `Pipeline` (`res`), but no property asks for it.

What `TrainActions` shows of the code and no property claims: a publish that is
resumed after its request publishes the model a second time (`model.py:170` finds
the first one "already released" and goes on to `:235`), so only a task is
protected from doubling; a service that ends in any state but Serving leaves its
number unset in the action and reads an endpoint that was never assigned
(`model.py:634-639`), and a resume creates a second one; after a restart a publish
without a model id has no task, a deployment has no model, and a training whose
input was not saved has none, so every resume of them raises (`LacksTask`,
`LacksModel`, `LacksInput`). `LoadDataSetAction.resume` gives less than its `exec`
(no split ratio, corpus or sampling rates, `actions.py:186-194` against `:330`),
and each save asks the platform to release the data sets (`:339`), so a save may
raise; one that raises in the loop of `exec` (`SaveFails` of `Pipeline`) leaves the
worker running, and a resume then runs a second thread as after a stop. In `LimiterWrapper`, resets from both sides on one wrapper may enter a
bucket that is not there and keep the lock (`OneSide`; the class comment warns of
mixing), and a second limiter under a key gets the first one's wrapper whatever
its arguments are.

## 6. What could follow

- `BatchRequest`: `BatchRequestFuture` and the callbacks of its pool; the last
  callback shuts the executor down. Abstract specification: a map from inputs to
  results, filled in any order, read in the order given.
- `RequestCycle`: `TokenLimiter`, the wrapper and `AccessToken` composed around
  one request with its retries: what is declined is given back on each way out.
- The evaluation manager's jobs and the limiters of the JavaScript SDK.
- The safety under the other liveness properties: why `exec` comes to its end, and
  why the consumer of a closed stream does.

The instances are kept below three minutes each, so that all of them can be run
together with the proofs.
