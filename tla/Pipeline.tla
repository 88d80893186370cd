------------------------------ MODULE Pipeline ------------------------------
(***************************************************************************)
(* A training pipeline, its saves and its restarts: Pipeline of            *)
(* python/qianfan/trainer/pipeline.py over the file written by             *)
(* FilePersister (common/persister/persist.py).                            *)
(*                                                                         *)
(* exec runs the chain of actions in a worker thread and polls it from the *)
(* thread of the caller; both save the pipeline into one file.  resume     *)
(* runs in the thread of the caller.  stop comes from any other thread.    *)
(* The process may end at any point; the pipeline is then loaded from the  *)
(* file and resumed.                                                       *)
(*                                                                         *)
(* An action is "train" (TrainAction: it has a remote task, which lives on *)
(* without the process) or "plain" (any other: it computes its result, and *)
(* computes it again, or returns the one it has, when resumed; the one of  *)
(* DeployAction, which only ends a chain, stands for its return).  There   *)
(* are no post actions, as in every trainer, and the cache is enabled.     *)
(***************************************************************************)
EXTENDS Integers, Sequences, FiniteSets

CONSTANTS
    Kind,           \* the actions of the chain, by their kinds
    PatientUser,    \* whether resume is called only when no thread runs actions
    MaxStops,       \* bounds on the calls of stop and resume, and on crashes
    MaxResumes,
    MaxCrashes

ASSUME PipelineAssumption ==
    /\ Kind \in Seq({"plain", "train"}) /\ Len(Kind) > 0
    /\ PatientUser \in BOOLEAN
    /\ MaxStops \in Nat /\ MaxResumes \in Nat /\ MaxCrashes \in Nat

Last == Len(Kind)
Chain == 1 .. Last
Threads == {"main", "worker"}
None == 0           \* no action, no task

VARIABLES
    tasks,          \* external: the remote tasks, by their number
    current,        \* Pipeline.current_action
    stop,           \* Pipeline._stop
    task,           \* TrainAction.task_id of each action
    result,         \* whether each action has a result
    file,           \* what the pipeline's file holds
    res,            \* res[0] of exec
    thread,         \* the program counters and locals of the two threads
    stopper,        \* where the thread that calls stop is
    up,             \* whether a process has the pipeline
    counts          \* how often stop, resume and crash have happened, and saves of exec failed

object == <<current, stop, task, result>>
user == <<stopper, up, counts>>
vars == <<tasks, object, file, res, thread, user>>

\* What persist writes of the pipeline.
Snapshot == [current |-> current, task |-> task, result |-> result]

Blank == [ current |-> None,
           task    |-> [i \in Chain |-> None],
           result  |-> [i \in Chain |-> FALSE] ]

Saved(s) == [state |-> "saved", snap |-> s]

NewThread(l) ==
    [ pc       |-> l,
      next     |-> "off",       \* where to go on after a save
      i        |-> 1,           \* the action to run
      resuming |-> FALSE,       \* it is run by resume
      id       |-> None,        \* the task just created
      read     |-> 0,           \* how many actions the save has read
      snap     |-> Blank ]      \* what the save has read

Init ==
    /\ tasks = <<>>
    /\ current = None
    /\ stop = FALSE
    /\ task = Blank.task
    /\ result = Blank.result
    /\ file = [state |-> "none", snap |-> Blank]
    /\ res = "none"
    /\ thread = [r \in Threads |-> NewThread("off")]
    /\ stopper = "idle"
    /\ up = TRUE
    /\ counts = [stops |-> 0, resumes |-> 0, crashes |-> 0, execs |-> 0, aborts |-> 0]

At(r, l) == thread[r].pc = l

Goto(r, l) == thread' = [thread EXCEPT ![r].pc = l]

\* FilePersister.save is called, and r goes on at l after it.
SaveThen(r, l) == thread' = [thread EXCEPT ![r].pc = "persist", ![r].next = l]

-----------------------------------------------------------------------------
(* FilePersister.save: the pipeline is read while the other thread runs,    *)
(* the file is emptied, and then written.                                   *)

ReadCurrent(r) ==
    /\ At(r, "persist")
    /\ thread' = [thread EXCEPT ![r].snap = [Blank EXCEPT !.current = current],
                                ![r].read = 0, ![r].pc = "read"]
    /\ UNCHANGED <<tasks, object, file, res, user>>

ReadAction(r) ==
    /\ At(r, "read") /\ thread[r].read < Last
    /\ LET i == thread[r].read + 1
       IN  thread' = [thread EXCEPT ![r].read = i,
                                    ![r].snap.task[i] = task[i],
                                    ![r].snap.result[i] = result[i]]
    /\ UNCHANGED <<tasks, object, file, res, user>>

\* A mutant of OpenFile: current_action is read after the actions.
OpenReadingLast(r) ==
    /\ At(r, "read") /\ thread[r].read = Last
    /\ file' = [state |-> "empty", snap |-> Blank]
    /\ thread' = [thread EXCEPT ![r].snap.current = current, ![r].pc = "write"]
    /\ UNCHANGED <<tasks, object, res, user>>

OpenFile(r) ==
    /\ At(r, "read") /\ thread[r].read = Last
    /\ file' = [state |-> "empty", snap |-> Blank]
    /\ Goto(r, "write")
    /\ UNCHANGED <<tasks, object, res, user>>

\* When the other thread has written meanwhile, the shorter of the two texts
\* does not cover the longer one.
WriteFile(r) ==
    /\ At(r, "write")
    /\ LET s == thread[r].snap
       IN  \/ file' = Saved(s)
           \/ /\ file.state \in {"saved", "torn"} /\ file # Saved(s)
              /\ file' = [state |-> "torn", snap |-> Blank]
    /\ thread' = [thread EXCEPT ![r].pc = thread[r].next, ![r].next = "off",
                                ![r].read = 0, ![r].snap = Blank]
    /\ UNCHANGED <<tasks, object, res, user>>

\* The worker leaves its answer in res[0]; the caller of exec or resume gets his.
End(r, answer) ==
    /\ thread' = [thread EXCEPT ![r] = NewThread("off")]
    /\ res' = IF r = "worker" THEN answer ELSE res

\* A LoadDataSetAction, the only plain one that begins a chain, asks the platform for
\* its data sets each time a save reads it, and may fail.  The exception ends the run
\* of the thread; the one of exec's loop leaves the worker running.
SaveFails(r) ==
    /\ At(r, "read") /\ thread[r].read = 0 /\ Kind[1] = "plain"
    /\ End(r, "error")
    /\ counts' = IF thread[r].next = "test" THEN counts ELSE [counts EXCEPT !.aborts = @ + 1]
    /\ UNCHANGED <<tasks, object, file, stopper, up>>

Save(r) ==
    \/ ReadCurrent(r) \/ ReadAction(r) \/ OpenFile(r) \/ WriteFile(r) \/ SaveFails(r)

-----------------------------------------------------------------------------
(* exec_from: the chain from action i on.                                   *)

Begin(r) ==
    /\ At(r, "begin")
    /\ stop' = FALSE
    /\ SaveThen(r, "test")
    /\ UNCHANGED <<tasks, current, task, result, file, res, user>>

TestStop(r) ==
    /\ At(r, "test")
    /\ Goto(r, IF stop \/ thread[r].i > Last THEN "finish" ELSE "set")
    /\ UNCHANGED <<tasks, object, file, res, user>>

SetCurrent(r) ==
    /\ At(r, "set")
    /\ current' = thread[r].i
    /\ Goto(r, "exec")
    /\ UNCHANGED <<tasks, stop, task, result, file, res, user>>

\* The action has returned.  exec_from saves and goes on with the next one,
\* resume looks where it is.
Done(r) ==
    IF thread[r].resuming
    THEN thread' = [thread EXCEPT ![r].pc = "resumed", ![r].resuming = FALSE]
    ELSE thread' = [thread EXCEPT ![r].pc = "persist", ![r].next = "test",
                                  ![r].i = @ + 1]

RunPlain(r) ==
    /\ At(r, "exec") /\ Kind[thread[r].i] = "plain"
    /\ result' = [result EXCEPT ![thread[r].i] = TRUE]
    /\ Done(r)
    /\ UNCHANGED <<tasks, current, stop, task, file, res, user>>

\* A mutant of Known: resume waits for a task, whether or not there is one.
AlwaysKnown(r) == thread[r].resuming

\* TrainAction.resume knows the task it has created before.
Known(r) == thread[r].resuming /\ task[thread[r].i] # None

AlreadyDone(r) ==
    Kind[thread[r].i] = "train" /\ thread[r].resuming /\ result[thread[r].i]

\* TrainAction.resume returns the result there is.
ResumeDone(r) ==
    /\ At(r, "exec") /\ AlreadyDone(r)
    /\ Done(r)
    /\ UNCHANGED <<tasks, object, file, res, user>>

ResumeWait(r) ==
    /\ At(r, "exec") /\ Kind[thread[r].i] = "train"
    /\ Known(r) /\ ~ AlreadyDone(r)
    /\ Goto(r, "wait")
    /\ UNCHANGED <<tasks, object, file, res, user>>

\* The server creates a task; the process learns of it in a later step.
Submit(r) ==
    /\ At(r, "exec") /\ Kind[thread[r].i] = "train"
    /\ ~ Known(r) /\ ~ AlreadyDone(r)
    /\ tasks' = Append(tasks, [action |-> thread[r].i, state |-> "running"])
    /\ thread' = [thread EXCEPT ![r].pc = "created", ![r].id = Len(tasks')]
    /\ UNCHANGED <<object, file, res, user>>

Created(r) ==
    /\ At(r, "created")
    /\ task' = [task EXCEPT ![thread[r].i] = thread[r].id]
    /\ thread' = [thread EXCEPT ![r].pc = "wait", ![r].id = None]
    /\ UNCHANGED <<tasks, current, stop, result, file, res, user>>

Trained(r) ==
    /\ At(r, "wait")
    /\ tasks[task[thread[r].i]].state = "finish"
    /\ result' = [result EXCEPT ![thread[r].i] = TRUE]
    /\ Done(r)
    /\ UNCHANGED <<tasks, current, stop, task, file, res, user>>

\* An action fails, or its remote task has failed or was stopped.
Raise(r) ==
    /\ \/ At(r, "exec") /\ ~ AlreadyDone(r)
       \/ At(r, "created")
       \/ At(r, "wait") /\ tasks[task[thread[r].i]].state \in {"fail", "stop"}
    /\ End(r, "error")
    /\ UNCHANGED <<tasks, object, file, user>>

\* A mutant of Finish: the poller is not told.
FinishSilently(r) ==
    /\ At(r, "finish")
    /\ Goto(r, "return")
    /\ UNCHANGED <<tasks, object, file, res, user>>

Finish(r) ==
    /\ At(r, "finish")
    /\ stop' = TRUE
    /\ Goto(r, "return")
    /\ UNCHANGED <<tasks, current, task, result, file, res, user>>

Return(r) ==
    /\ At(r, "return")
    /\ End(r, "output")
    /\ UNCHANGED <<tasks, object, file, user>>

Run(r) ==
    \/ Begin(r) \/ TestStop(r) \/ SetCurrent(r) \/ RunPlain(r) \/ ResumeDone(r)
    \/ ResumeWait(r) \/ Submit(r) \/ Created(r) \/ Trained(r) \/ Raise(r)
    \/ Finish(r) \/ Return(r)

-----------------------------------------------------------------------------
(* exec: the loop in the thread of the caller.                              *)

Exec ==
    /\ up /\ counts.execs = 0 /\ At("main", "off")
    /\ thread' = [r \in Threads |->
                    IF r = "worker" THEN NewThread("begin")
                    ELSE [NewThread("persist") EXCEPT !.next = "look"]]
    /\ counts' = [counts EXCEPT !.execs = 1]
    /\ UNCHANGED <<tasks, object, file, res, stopper, up>>

Look ==
    /\ At("main", "look")
    /\ IF res = "error" THEN SaveThen("main", "leave") ELSE Goto("main", "poll")
    /\ UNCHANGED <<tasks, object, file, res, user>>

\* A mutant of Poll: it leaves without the last save.
PollLeaving ==
    /\ At("main", "poll")
    /\ IF stop THEN Goto("main", "leave") ELSE SaveThen("main", "look")
    /\ UNCHANGED <<tasks, object, file, res, user>>

\* _stop ends the loop after a last save; otherwise it sleeps and saves again.
Poll ==
    /\ At("main", "poll")
    /\ SaveThen("main", IF stop THEN "leave" ELSE "look")
    /\ UNCHANGED <<tasks, object, file, res, user>>

\* exec returns res[0], or raises it.
LeaveExec ==
    /\ At("main", "leave")
    /\ Goto("main", "off")
    /\ UNCHANGED <<tasks, object, file, res, user>>

-----------------------------------------------------------------------------
(* resume and stop.                                                         *)

Resume ==
    /\ up /\ At("main", "off") /\ counts.execs = 1
    /\ PatientUser => At("worker", "off")
    /\ current # None
    /\ counts.resumes < MaxResumes
    /\ counts' = [counts EXCEPT !.resumes = @ + 1]
    /\ stop' = FALSE
    /\ Goto("main", "resume")
    /\ UNCHANGED <<tasks, current, task, result, file, res, stopper, up>>

ResumeAction ==
    /\ At("main", "resume")
    /\ thread' = [thread EXCEPT !["main"].pc = "exec", !["main"].i = current,
                                !["main"].resuming = TRUE]
    /\ UNCHANGED <<tasks, object, file, res, user>>

\* current_action is read again: the last action returns directly, without a
\* save and without _stop.
Resumed ==
    /\ At("main", "resumed")
    /\ IF current = Last
       THEN thread' = [thread EXCEPT !["main"] = NewThread("off")]
       ELSE thread' = [thread EXCEPT !["main"].pc = "begin",
                                     !["main"].i = current + 1]
    /\ UNCHANGED <<tasks, object, file, res, user>>

Stop ==
    /\ up /\ counts.execs = 1 /\ stopper = "idle"
    /\ counts.stops < MaxStops
    /\ counts' = [counts EXCEPT !.stops = @ + 1]
    /\ stop' = TRUE
    /\ stopper' = "action"
    /\ UNCHANGED <<tasks, current, task, result, file, res, thread, up>>

\* The remote task of the current action, if it has one, is stopped if the
\* server can; any other action goes on.
StopAction ==
    /\ stopper = "action"
    /\ \/ UNCHANGED tasks
       \/ /\ current # None
          /\ LET t == task[current]
             IN  /\ t # None /\ tasks[t].state = "running"
                 /\ tasks' = [tasks EXCEPT ![t].state = "stop"]
    /\ stopper' = "idle"
    /\ UNCHANGED <<object, file, res, thread, up, counts>>

-----------------------------------------------------------------------------
(* The server, and the end and restart of the process.                      *)

TaskEnds(t) ==
    /\ tasks[t].state = "running"
    /\ \E s \in {"finish", "fail"} : tasks' = [tasks EXCEPT ![t].state = s]
    /\ UNCHANGED <<object, file, res, thread, user>>

Crash ==
    /\ up /\ counts.execs = 1
    /\ counts.crashes < MaxCrashes
    /\ counts' = [counts EXCEPT !.crashes = @ + 1]
    /\ up' = FALSE
    /\ current' = None /\ stop' = FALSE
    /\ task' = Blank.task /\ result' = Blank.result
    /\ res' = "none"
    /\ thread' = [r \in Threads |-> NewThread("off")]
    /\ stopper' = "idle"
    /\ UNCHANGED <<tasks, file>>

\* An empty or torn file does not load.
Load ==
    /\ ~ up
    /\ file.state = "saved"
    /\ current' = file.snap.current
    /\ task' = file.snap.task
    /\ result' = file.snap.result
    /\ up' = TRUE
    /\ UNCHANGED <<tasks, stop, file, res, thread, stopper, counts>>

Main == Look \/ Poll \/ LeaveExec \/ ResumeAction \/ Resumed

Step(r) == Save(r) \/ Run(r)

Next ==
    \/ \E r \in Threads : Step(r)
    \/ Main
    \/ Exec \/ Resume \/ Stop \/ StopAction \/ Crash \/ Load
    \/ \E t \in DOMAIN tasks : TaskEnds(t)

Spec == Init /\ [][Next]_vars

\* The threads run, and the server ends each task some day.
Fairness ==
    /\ \A r \in Threads : WF_vars(Step(r))
    /\ WF_vars(Main)
    /\ WF_vars(\E t \in DOMAIN tasks : TaskEnds(t))

FairSpec == Spec /\ Fairness

-----------------------------------------------------------------------------
(* Properties.                                                              *)

Labels ==
    {"off", "persist", "read", "write", "begin", "test", "set", "exec", "created",
     "wait", "finish", "return", "look", "poll", "leave", "resume", "resumed"}

SnapshotType(n) ==
    [current : 0 .. Last, task : [Chain -> 0 .. n], result : [Chain -> BOOLEAN]]

ThreadType(n) ==
    [ pc : Labels, next : {"off", "test", "look", "leave"}, i : 1 .. Last + 1,
      resuming : BOOLEAN, id : 0 .. n, read : 0 .. Last, snap : SnapshotType(n) ]

Acting == {"exec", "created", "wait"}

\* Every variable has its type; a thread that runs an action runs one of the
\* chain, and waits for a task that there is.
TypeOK ==
    /\ tasks \in Seq([action : Chain, state : {"running", "finish", "fail", "stop"}])
    /\ Snapshot \in SnapshotType(Len(tasks)) /\ stop \in BOOLEAN
    /\ file \in [state : {"none", "empty", "saved", "torn"}, snap : SnapshotType(Len(tasks))]
    /\ res \in {"none", "output", "error"}
    /\ thread \in [Threads -> ThreadType(Len(tasks))]
    /\ stopper \in {"idle", "action"} /\ up \in BOOLEAN
    /\ counts \in [{"stops", "resumes", "crashes", "execs", "aborts"} -> Nat]
    /\ \A r \in Threads :
        /\ thread[r].pc \in Acting \cup {"set"} => thread[r].i \in Chain
        /\ At(r, "wait") => task[thread[r].i] # None
        /\ At(r, "created") => thread[r].id # None

\* "Pipeline is a sequentially executed chain" (pipeline.py:34): one thread at a
\* time runs an action of it.
Sequential == ~ \A r \in Threads : thread[r].pc \in Acting

\* An action runs only when all before it have their results, in whichever
\* process they got them: what a save reads while the chain goes on never names
\* an action without its predecessors' results.
PredecessorsDone ==
    \A r \in Threads :
        thread[r].pc \in Acting => \A j \in 1 .. thread[r].i - 1 : result[j]

\* When exec is over and nobody has stopped it, the file holds the pipeline as it
\* is: what the two threads have written over each other is put right by the last
\* save, unless a save of exec's own has failed.
LastSaveComplete ==
    /\ counts.execs = 1 /\ counts.stops = 0 /\ counts.resumes = 0 /\ up
    /\ At("main", "off") /\ counts.crashes = 0 /\ counts.aborts = 0
    => file = Saved(Snapshot)

\* exec ends, by return or exception, when its chain has ended in the worker.
ExecEnds == At("main", "look") ~> At("main", "off")

=============================================================================
