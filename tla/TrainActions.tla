----------------------------- MODULE TrainActions -----------------------------
(***************************************************************************)
(* The actions of a training pipeline and the platform they work on:       *)
(* LoadDataSetAction, TrainAction, ModelPublishAction and DeployAction of  *)
(* python/qianfan/trainer/actions.py, and Model.publish and Service.deploy *)
(* of model/model.py, which the last two call.                             *)
(*                                                                         *)
(* A run is the chain from the first action on (Pipeline.exec) or from the *)
(* action that was under way (Pipeline.resume).  Any request may fail, or  *)
(* be carried out although its answer is lost; either ends the run with an *)
(* exception.  The process may end; the pipeline is then loaded from what  *)
(* it has saved.                                                           *)
(*                                                                         *)
(* The threads of exec, the flag of stop and the steps of a save are those *)
(* of Pipeline: here one run goes on at a time and a save is one step.  A  *)
(* task that is stopped is one that does not finish.                       *)
(***************************************************************************)
EXTENDS Integers, Sequences, FiniteSets

CONSTANTS
    MaxTrouble,     \* bounds on failed requests and lost answers,
    MaxResumes,     \* on the calls of resume,
    MaxCrashes      \* and on the ends of the process

ASSUME ChainAssumption ==
    MaxTrouble \in Nat /\ MaxResumes \in Nat /\ MaxCrashes \in Nat

Chain == <<"load", "train", "publish", "deploy">>
None == 0

VARIABLES
    tasks,      \* external: how the training tasks are, by number
    models,     \* external: the published models, and the task each is of
    services,   \* external: the services, and the model each serves
    me,         \* the pipeline and its actions in memory
    file,       \* what was saved of them
    run,        \* the run that goes on
    strangers,  \* history: the tasks the process does not know
    counts      \* how often trouble, resume and the end of the process came

cloud == <<tasks, models, services>>
vars == <<tasks, models, services, me, file, run, strangers, counts>>

\* The fields of the pipeline and of its four actions.
Fresh ==
    [ current |-> 0,        \* Pipeline.current_action
      loaded  |-> FALSE,    \* LoadDataSetAction.result
      input   |-> FALSE,    \* TrainAction._input
      job     |-> FALSE,    \* TrainAction.job_id
      task    |-> None,     \* TrainAction.task_id
      trained |-> FALSE,    \* TrainAction.result
      source  |-> None,     \* ModelPublishAction.model.task_id
      set     |-> None,     \* ModelPublishAction.model.set_id
      id      |-> None,     \* ModelPublishAction.model.id
      model   |-> None,     \* the model in ModelPublishAction.result
      object  |-> FALSE,    \* whether that result holds the Model object
      named   |-> FALSE,    \* whether DeployAction.model_id is set
      target  |-> None,     \* DeployAction.model
      service |-> None ]    \* DeployAction.model.service

\* What _load_from_dict gives back of what _action_dict wrote: the model by its id
\* alone (auto_complete_info finds its set), nothing of DeployAction.
Reloaded(s) ==
    [ s EXCEPT !.source = None, !.set = s.id, !.object = FALSE,
               !.named = FALSE, !.target = None, !.service = None ]

Idle == [pc |-> "idle", resuming |-> FALSE, polled |-> FALSE, service |-> None]

Init ==
    /\ tasks = <<>> /\ models = <<>> /\ services = <<>>
    /\ me = Fresh
    /\ file = Fresh
    /\ run = [Idle EXCEPT !.pc = "new"]
    /\ strangers = {}
    /\ counts = [trouble |-> 0, resumes |-> 0, crashes |-> 0]

At(l) == run.pc = l

Goto(l) == run' = [run EXCEPT !.pc = l]

\* The run is over; exec still polls and saves once more.
End == run' = [Idle EXCEPT !.polled = run.polled]

\* The action has returned: resume leaves with the last one, everything else goes
\* on to a save (and exec_from of a resume begins with one).
Done == run' = [run EXCEPT !.pc = IF run.resuming /\ me.current = Len(Chain)
                                  THEN "return" ELSE "save",
                           !.resuming = FALSE, !.service = None]

UnchangedMost == UNCHANGED <<cloud, file, strangers, counts>>

-----------------------------------------------------------------------------
(* The pipeline.                                                            *)

\* Pipeline.exec: the caller polls, and so saves at any time.
Exec ==
    /\ At("new")
    /\ run' = [run EXCEPT !.pc = "save", !.polled = TRUE]
    /\ UNCHANGED me /\ UnchangedMost

\* The user calls it when exec has returned, or after a restart.
Resume ==
    /\ At("idle") /\ me.current # 0
    /\ run.polled => file = me
    /\ counts.resumes < MaxResumes
    /\ counts' = [counts EXCEPT !.resumes = @ + 1]
    /\ run' = [Idle EXCEPT !.pc = Chain[me.current], !.resuming = TRUE]
    /\ UNCHANGED <<cloud, me, file, strangers>>

\* The mutant of SaveAfter: the pipeline is saved by the polling caller alone.
SaveNothing ==
    /\ At("save")
    /\ Goto("next")
    /\ UNCHANGED me /\ UnchangedMost

\* The save of exec_from, when it begins and after every action.
SaveAfter ==
    /\ At("save")
    /\ file' = me
    /\ Goto("next")
    /\ UNCHANGED <<cloud, me, strangers, counts>>

\* The save of exec's loop.
SavePolled ==
    /\ run.polled /\ file # me
    /\ file' = me
    /\ UNCHANGED <<cloud, me, run, strangers, counts>>

\* current_action is set, and then the action's exec is called.
SetCurrent ==
    /\ At("next") /\ me.current < Len(Chain)
    /\ me' = [me EXCEPT !.current = @ + 1]
    /\ Goto(Chain[me.current + 1])
    /\ UnchangedMost

Return ==
    /\ At("return") \/ (At("next") /\ me.current = Len(Chain))
    /\ End
    /\ UNCHANGED me /\ UnchangedMost

-----------------------------------------------------------------------------
(* LoadDataSetAction and TrainAction.                                       *)

LoadDataSet ==
    /\ At("load")
    /\ me' = [me EXCEPT !.loaded = TRUE]
    /\ Done
    /\ UnchangedMost

\* Nothing to train on: the process ended after current_action was set and before
\* exec had its input.
LacksInput ==
    /\ At("train") /\ run.resuming
    /\ ~ me.trained /\ ~ me.input
    /\ me.task = None \/ ~ me.job

TrainDone ==
    /\ At("train") /\ run.resuming /\ me.trained
    /\ Done
    /\ UNCHANGED me /\ UnchangedMost

TrainAgain ==
    /\ At("train") /\ run.resuming /\ ~ me.trained
    /\ me.task # None /\ me.job
    /\ Goto("trainwait")
    /\ UNCHANGED me /\ UnchangedMost

\* The mutant of NewTask: a resumed action creates its task again.
AnyTask == ~ me.trained \/ ~ run.resuming

NewTask == ~ run.resuming \/ (~ me.trained /\ (me.task = None \/ ~ me.job))

\* The mutant of Train: the input of the action is not kept.
TrainForgetting ==
    /\ At("train") /\ NewTask /\ ~ LacksInput
    /\ Goto(IF me.job THEN "submit" ELSE "job")
    /\ UNCHANGED me /\ UnchangedMost

Train ==
    /\ At("train") /\ NewTask /\ ~ LacksInput
    /\ me' = [me EXCEPT !.input = TRUE]
    /\ Goto(IF me.job THEN "submit" ELSE "job")
    /\ UnchangedMost

CreateJob ==
    /\ At("job")
    /\ me' = [me EXCEPT !.job = TRUE]
    /\ Goto("submit")
    /\ UnchangedMost

CreateTask ==
    /\ At("submit")
    /\ tasks' = Append(tasks, "running")
    /\ me' = [me EXCEPT !.task = Len(tasks')]
    /\ Goto("trainwait")
    /\ UNCHANGED <<models, services, file, strangers, counts>>

Trained ==
    /\ At("trainwait") /\ tasks[me.task] = "finish"
    /\ me' = [me EXCEPT !.trained = TRUE]
    /\ Done
    /\ UnchangedMost

-----------------------------------------------------------------------------
(* ModelPublishAction and Model.publish.                                    *)

\* exec makes a new Model of the task; resume goes on with the one there is, unless
\* there is a result.
Publish ==
    /\ At("publish")
    /\ IF run.resuming /\ me.model # None
       THEN Done /\ UNCHANGED me
       ELSE /\ Goto("published?")
            /\ me' = IF run.resuming THEN me
                     ELSE [me EXCEPT !.source = me.task, !.set = None, !.id = None]
    /\ UnchangedMost

\* The model is there already, in a set whose first model it is.
FindModel ==
    /\ At("published?") /\ me.set # None
    /\ LET m == IF me.id = None THEN me.set ELSE me.id IN
       /\ me' = [me EXCEPT !.id = m, !.source = models[m].task]
       /\ Goto(IF models[m].state = "ready" THEN "finished?" ELSE "findwait")
    /\ UnchangedMost

FoundReady ==
    /\ At("findwait") /\ models[me.id].state = "ready"
    /\ Goto("finished?")
    /\ UNCHANGED me /\ UnchangedMost

\* A model that was loaded without its id has no task either.
LacksTask == At("published?") /\ me.set = None /\ me.source = None

\* The mutant of NoModel: a model of no task is taken for one of a task.
NoModelOfTask ==
    /\ At("published?") /\ me.set = None
    /\ Goto("finished?")
    /\ UNCHANGED me /\ UnchangedMost

NoModel ==
    /\ At("published?") /\ me.set = None /\ ~ LacksTask
    /\ Goto("finished?")
    /\ UNCHANGED me /\ UnchangedMost

TaskFinished ==
    /\ At("finished?") /\ tasks[me.source] = "finish"
    /\ Goto("release")
    /\ UNCHANGED me /\ UnchangedMost

\* ResourceModel.publish, with is_new: a new set with one model in it.
Release ==
    /\ At("release")
    /\ models' = Append(models, [task |-> me.source, state |-> "creating"])
    /\ me' = [me EXCEPT !.set = Len(models')]
    /\ Goto("describe")
    /\ UNCHANGED <<tasks, services, file, strangers, counts>>

DescribeSet ==
    /\ At("describe")
    /\ me' = [me EXCEPT !.id = me.set]
    /\ Goto("publishwait")
    /\ UnchangedMost

Published ==
    /\ At("publishwait") /\ models[me.id].state = "ready"
    /\ me' = [me EXCEPT !.model = me.id, !.object = TRUE]
    /\ Done
    /\ UnchangedMost

-----------------------------------------------------------------------------
(* DeployAction, Model.deploy and Service.deploy.                           *)

\* exec takes the model of the action before, as an object or by its ids; resume
\* makes the model again if it has the ids, and so forgets its service.
TakeModel ==
    /\ me' = IF ~ run.resuming
             THEN [me EXCEPT !.target = me.model, !.named = ~ me.object]
             ELSE [me EXCEPT !.service = IF me.named THEN None ELSE @]
    /\ me'.target # None

Deploy ==
    /\ At("deploy")
    /\ TakeModel
    /\ IF me'.service # None THEN Done ELSE Goto("launch")
    /\ UnchangedMost

\* A loaded DeployAction has no model.
LacksModel == At("deploy") /\ run.resuming /\ me.target = None

CreateService ==
    /\ At("launch")
    /\ services' = Append(services, [model |-> me.target, state |-> "new"])
    /\ run' = [run EXCEPT !.pc = "deploywait", !.service = Len(services')]
    /\ UNCHANGED <<tasks, models, me, file, strangers, counts>>

Deployed ==
    /\ At("deploywait") /\ services[run.service].state = "serving"
    /\ me' = [me EXCEPT !.service = run.service]
    /\ Done
    /\ UnchangedMost

-----------------------------------------------------------------------------
(* What can go wrong.                                                       *)

\* The polled task, model or service has failed.  (Of a service the code leaves the
\* loop and then reads an endpoint that was never set: an exception as well.)
Failed ==
    \/ At("trainwait") /\ tasks[me.task] = "fail"
    \/ At("finished?") /\ tasks[me.source] = "fail"
    \/ At("findwait") /\ models[me.id].state = "fail"
    \/ At("publishwait") /\ models[me.id].state = "fail"
    \/ At("deploywait") /\ services[run.service].state = "fail"

\* The mutant of Raise: a task that has failed is polled on.
RaiseUnlessFailed ==
    /\ LacksInput \/ LacksTask \/ LacksModel
    /\ End
    /\ UNCHANGED me /\ UnchangedMost

Raise ==
    /\ Failed \/ LacksInput \/ LacksTask \/ LacksModel
    /\ End
    /\ UNCHANGED me /\ UnchangedMost

Trouble ==
    /\ counts.trouble < MaxTrouble
    /\ counts' = [counts EXCEPT !.trouble = @ + 1]
    /\ End

\* A request of the running action fails for good, or a save does (it asks the
\* platform to release the data set), before the action has noted anything.
RequestFails ==
    /\ run.pc \in {"save", "load", "job", "submit", "trainwait", "published?",
                   "findwait", "finished?", "release", "describe", "publishwait",
                   "launch", "deploywait"}
    /\ Trouble
    /\ UNCHANGED <<cloud, me, file, strangers>>

\* Model.publish has found the model of its set, and cannot ask what it is like.
FindFails ==
    /\ At("published?") /\ me.set # None /\ me.id = None
    /\ me' = [me EXCEPT !.id = me.set]
    /\ Trouble
    /\ UNCHANGED <<cloud, file, strangers>>

\* DeployAction has its model, and cannot complete what it knows of it.
DeployFails ==
    /\ At("deploy") /\ (run.resuming => me.named)
    /\ TakeModel
    /\ Trouble
    /\ UNCHANGED <<cloud, file, strangers>>

\* A request that creates something is carried out, and its answer is lost.
AnswerLost ==
    /\ Trouble
    /\ \/ /\ At("submit")
          /\ tasks' = Append(tasks, "running")
          /\ strangers' = strangers \cup {Len(tasks')}
          /\ UNCHANGED <<models, services>>
       \/ /\ At("release")
          /\ models' = Append(models, [task |-> me.source, state |-> "creating"])
          /\ UNCHANGED <<tasks, services, strangers>>
       \/ /\ At("launch")
          /\ services' = Append(services, [model |-> me.target, state |-> "new"])
          /\ UNCHANGED <<tasks, models, strangers>>
    /\ UNCHANGED <<me, file>>

\* The process ends, and another loads the pipeline.
Crash ==
    /\ ~ At("new") /\ counts.crashes < MaxCrashes
    /\ counts' = [counts EXCEPT !.crashes = @ + 1]
    /\ me' = Reloaded(file)
    /\ run' = Idle
    /\ strangers' = strangers \cup (DOMAIN tasks \ {file.task})
    /\ UNCHANGED <<cloud, file>>

TaskEnds ==
    /\ \E t \in DOMAIN tasks, s \in {"finish", "fail"} :
          tasks[t] = "running" /\ tasks' = [tasks EXCEPT ![t] = s]
    /\ UNCHANGED <<models, services, me, file, run, strangers, counts>>

ModelEnds ==
    /\ \E m \in DOMAIN models, s \in {"ready", "fail"} :
          models[m].state = "creating" /\ models' = [models EXCEPT ![m].state = s]
    /\ UNCHANGED <<tasks, services, me, file, run, strangers, counts>>

ServiceEnds ==
    /\ \E v \in DOMAIN services, s \in {"serving", "fail"} :
          services[v].state = "new" /\ services' = [services EXCEPT ![v].state = s]
    /\ UNCHANGED <<tasks, models, me, file, run, strangers, counts>>

-----------------------------------------------------------------------------

Step ==
    \/ SaveAfter \/ SetCurrent \/ Return
    \/ LoadDataSet \/ TrainDone \/ TrainAgain \/ Train \/ CreateJob \/ CreateTask
    \/ Trained
    \/ Publish \/ FindModel \/ FoundReady \/ NoModel \/ TaskFinished \/ Release
    \/ DescribeSet \/ Published
    \/ Deploy \/ CreateService \/ Deployed
    \/ Raise

Platform == TaskEnds \/ ModelEnds \/ ServiceEnds

Next ==
    \/ Exec \/ Resume \/ Step \/ SavePolled
    \/ RequestFails \/ FindFails \/ DeployFails \/ AnswerLost \/ Crash
    \/ Platform

Spec == Init /\ [][Next]_vars

\* A run that can go on does, and the platform brings to an end what it began.
FairSpec == Spec /\ WF_vars(Step) /\ WF_vars(TaskEnds) /\ WF_vars(ModelEnds)
                 /\ WF_vars(ServiceEnds)

-----------------------------------------------------------------------------
(* Properties.                                                              *)

Labels == {"new", "idle", "return", "save", "next", "load", "train", "job", "submit",
           "trainwait", "publish", "published?", "findwait", "finished?", "release",
           "describe", "publishwait", "deploy", "launch", "deploywait"}

Numbers(s) == 0 .. Len(s)

MemoryType ==
    [ current : 0 .. Len(Chain), loaded : BOOLEAN, input : BOOLEAN, job : BOOLEAN,
      task : Numbers(tasks), trained : BOOLEAN,
      source : Numbers(tasks), set : Numbers(models), id : Numbers(models),
      model : Numbers(models), object : BOOLEAN,
      named : BOOLEAN, target : Numbers(models), service : Numbers(services) ]

\* Every variable has its type: in particular what the actions name exists, and what
\* is polled has a number.
TypeOK ==
    /\ tasks \in Seq({"running", "finish", "fail"})
    /\ models \in Seq([task : DOMAIN tasks, state : {"creating", "ready", "fail"}])
    /\ services \in Seq([model : DOMAIN models, state : {"new", "serving", "fail"}])
    /\ me \in MemoryType /\ file \in MemoryType
    /\ run \in [pc : Labels, resuming : BOOLEAN, polled : BOOLEAN,
                service : Numbers(services)]
    /\ strangers \subseteq DOMAIN tasks
    /\ counts \in [trouble : Nat, resumes : Nat, crashes : Nat]
    /\ At("trainwait") => me.task # None
    /\ run.pc \in {"finished?", "release"} => me.source # None
    /\ run.pc \in {"describe", "findwait", "publishwait"} => me.set # None
    /\ At("launch") => me.target # None
    /\ At("deploywait") => run.service # None

\* What the actions hold belongs together, over any failures, resumes and restarts:
\* a model is of a task that has finished, the one TrainAction names; a service is
\* of a model that was ready, and what DeployAction deploys is what was published.
OneChain ==
    /\ \A m \in DOMAIN models :
          tasks[models[m].task] = "finish" /\ models[m].task = me.task
    /\ \A v \in DOMAIN services :
          models[services[v].model].state = "ready"
    /\ me.target # None => me.target = me.model
    /\ me.service # None => services[me.service].model = me.model

\* A task is created again only if the process could not know of the one before:
\* its answer was lost, or the process ended before a save had its number.
OnlyStrangersDoubled == Cardinality(DOMAIN tasks \ strangers) <= 1

\* A resume in the process that ran the chain finds what it needs: no failure
\* leaves an action that every resume must refuse.  (After a restart it may: see
\* LacksInput, LacksTask and LacksModel.)
ResumeFindsInput ==
    counts.crashes = 0 => ~ LacksInput /\ ~ LacksTask /\ ~ LacksModel

\* Every run ends, by return or exception, whatever fails on the platform or on the
\* way to it.
RunEnds == ~ At("idle") /\ ~ At("new") ~> At("idle")

=============================================================================
