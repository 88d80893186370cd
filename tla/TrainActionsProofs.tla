-------------------------- MODULE TrainActionsProofs --------------------------
(***************************************************************************)
(* Theorems about TrainActions, for any number of failures, lost answers,  *)
(* resumes and restarts.                                                   *)
(***************************************************************************)
EXTENDS TrainActions, FiniteSetTheorems, TLAPS

Training == {"train", "job", "submit", "trainwait"}
Publishing == {"publish", "published?", "findwait", "finished?", "release",
               "describe", "publishwait"}
Deploying == {"deploy", "launch", "deploywait"}

\* An action runs while it is the current one, and only an action that is resumed
\* knows that it is.
Located ==
    /\ At("new") => me.current = 0
    /\ At("load") => me.current = 1
    /\ run.pc \in Training => me.current = 2
    /\ run.pc \in Publishing => me.current = 3
    /\ run.pc \in Deploying => me.current = 4
    /\ run.pc \in {"new", "idle", "save", "next", "return"} => ~ run.resuming

\* What is polled or worked on has a number.
Named ==
    /\ At("trainwait") => me.task # None
    /\ run.pc \in {"findwait", "finished?", "release"} => me.source # None
    /\ run.pc \in {"describe", "findwait", "publishwait"} => me.set # None
    /\ run.pc \in {"findwait", "publishwait"} => me.id # None
    /\ run.pc \in {"launch", "deploywait"} => me.target # None
    /\ At("deploywait") => run.service # None

RunType == [pc : Labels, resuming : BOOLEAN, polled : BOOLEAN,
            service : Numbers(services)]
ModelType == [task : DOMAIN tasks, state : {"creating", "ready", "fail"}]
ServiceType == [model : DOMAIN models, state : {"new", "serving", "fail"}]
CountType == [trouble : Nat, resumes : Nat, crashes : Nat]

\* TypeOK without what Named says.
Values ==
    /\ tasks \in Seq({"running", "finish", "fail"})
    /\ models \in Seq(ModelType)
    /\ services \in Seq(ServiceType)
    /\ me \in MemoryType /\ file \in MemoryType
    /\ run \in RunType
    /\ strangers \subseteq DOMAIN tasks
    /\ counts \in CountType

Typed == Values /\ Located /\ Named

\* What belongs together in memory, and in the file.
Coherent(s) ==
    /\ s.task # None => s.job /\ s.current >= 2
    /\ s.trained => s.task # None /\ tasks[s.task] = "finish"
    /\ s.current >= 3 => s.trained
    /\ s.model # None => models[s.model].state = "ready"

\* The file knows of the training that has succeeded.
Kept == file.trained /\ file.task = me.task

\* The training is over, and saved, before the first model is made of it.
InOrder ==
    /\ Coherent(me) /\ Coherent(file)
    /\ run.pc \in Training \ {"train"} => ~ me.trained
    /\ run.pc \in {"job", "submit"} => me.task = None
    /\ At("submit") => me.job
    /\ At("train") /\ ~ run.resuming => me.task = None
    /\ At("save") /\ me.current = 2 => me.trained
    /\ At("next") /\ me.current = 2 => me.trained /\ Kept
    /\ me.current >= 3 => Kept
    /\ models # <<>> => me.trained /\ Kept
    /\ me.source # None => me.current >= 3 /\ me.source = me.task
    /\ run.pc = "release" => tasks[me.source] = "finish"

\* Only the last action has a model to deploy or a service.
Serving ==
    /\ me.target # None => me.current = 4
    /\ me.service # None => me.current = 4
    /\ At("deploywait") => services[run.service].model = me.target

\* The process knows of one task at most.
Known == \A t \in DOMAIN tasks : t \in strangers \/ t = me.task

\* What a process that was not restarted has given to its actions.
Given ==
    counts.crashes = 0 =>
        /\ me.current >= 2 => me.input \/ (At("train") /\ ~ run.resuming)
        /\ me.current >= 3 => me.source # None \/ (At("publish") /\ ~ run.resuming)
        /\ me.current >= 4 => me.target # None \/ (At("deploy") /\ ~ run.resuming)

Inv == Typed /\ InOrder /\ OneChain /\ Serving /\ Known /\ Given

-----------------------------------------------------------------------------
(* What a step does to the run.                                             *)

\* After Done and after End no action runs.
LEMMA DoneRun ==
    ASSUME Typed, Done
    PROVE  run' \in RunType /\ ~ run'.resuming /\ run'.pc \in {"save", "return"}
<1>1. run \in RunType /\ None \in Numbers(services)
    BY DEF Typed, Values, RunType, None, Numbers
<1>2. PICK l \in {"save", "return"} :
          run' = [run EXCEPT !.pc = l, !.resuming = FALSE, !.service = None]
    BY DEF Done
<1>. QED BY <1>1, <1>2 DEF RunType, Labels

LEMMA EndRun ==
    ASSUME Typed, End
    PROVE  run' \in RunType /\ ~ run'.resuming /\ run'.pc = "idle"
<1>1. run \in RunType /\ None \in Numbers(services)
    BY DEF Typed, Values, RunType, None, Numbers
<1>2. run' = [pc |-> "idle", resuming |-> FALSE, polled |-> run.polled,
              service |-> None]
    BY DEF End, Idle
<1>. QED BY <1>1, <1>2 DEF RunType, Labels

-----------------------------------------------------------------------------
(* What a step does to the platform.                                        *)

\* A sequence of more kinds of elements.
LEMMA SeqGrows ==
    ASSUME NEW S, NEW T, S \subseteq T, NEW s \in Seq(S)
    PROVE  s \in Seq(T)
OBVIOUS

\* A new task, model or service has the next number; the others stay as they are.
LEMMA Appended ==
    ASSUME NEW S, NEW s \in Seq(S), NEW e \in S
    PROVE  /\ Append(s, e) \in Seq(S)
           /\ Len(s) \in Nat /\ DOMAIN s = 1 .. Len(s)
           /\ Len(Append(s, e)) = Len(s) + 1
           /\ DOMAIN Append(s, e) = 1 .. Len(s) + 1
           /\ \A i \in 1 .. Len(s) : Append(s, e)[i] = s[i]
           /\ Append(s, e)[Len(s) + 1] = e
OBVIOUS

\* One of them changes its state.
LEMMA Changed ==
    ASSUME NEW S, NEW s \in Seq(S), NEW i \in DOMAIN s, NEW e \in S
    PROVE  /\ [s EXCEPT ![i] = e] \in Seq(S)
           /\ Len([s EXCEPT ![i] = e]) = Len(s)
           /\ DOMAIN [s EXCEPT ![i] = e] = DOMAIN s
           /\ \A j \in DOMAIN s : [s EXCEPT ![i] = e][j] = IF i = j THEN e ELSE s[j]
OBVIOUS

\* What is published or deployed keeps its task or model whatever becomes of it.
LEMMA Ended ==
    ASSUME models \in Seq(ModelType), NEW m \in DOMAIN models,
           NEW s \in {"ready", "fail"}, models[m].state = "creating",
           models' = [models EXCEPT ![m] = [models[m] EXCEPT !.state = s]]
    PROVE  /\ models' \in Seq(ModelType) /\ Len(models') = Len(models)
           /\ DOMAIN models' = DOMAIN models
           /\ \A n \in DOMAIN models :
                 /\ models'[n].task = models[n].task
                 /\ models[n].state = "ready" => models'[n].state = "ready"
           /\ models # <<>>
<1> DEFINE e == [models[m] EXCEPT !.state = s]
<1>1. models[m] \in ModelType
    OBVIOUS
<1>2. e \in ModelType /\ e.task = models[m].task
    BY <1>1 DEF ModelType
<1> HIDE DEF e
<1>3. /\ models' \in Seq(ModelType) /\ Len(models') = Len(models)
      /\ DOMAIN models' = DOMAIN models
      /\ \A n \in DOMAIN models : models'[n] = IF m = n THEN e ELSE models[n]
    BY <1>2, Changed DEF e
<1>. QED BY <1>2, <1>3

LEMMA ServiceEnded ==
    ASSUME services \in Seq(ServiceType), NEW v \in DOMAIN services,
           NEW s \in {"serving", "fail"},
           services' = [services EXCEPT ![v] = [services[v] EXCEPT !.state = s]]
    PROVE  /\ services' \in Seq(ServiceType) /\ Len(services') = Len(services)
           /\ DOMAIN services' = DOMAIN services
           /\ \A n \in DOMAIN services : services'[n].model = services[n].model
<1> DEFINE e == [services[v] EXCEPT !.state = s]
<1>1. services[v] \in ServiceType
    OBVIOUS
<1>2. e \in ServiceType /\ e.model = services[v].model
    BY <1>1 DEF ServiceType
<1> HIDE DEF e
<1>3. /\ services' \in Seq(ServiceType) /\ Len(services') = Len(services)
      /\ DOMAIN services' = DOMAIN services
      /\ \A n \in DOMAIN services : services'[n] = IF v = n THEN e ELSE services[n]
    BY <1>2, Changed DEF e
<1>. QED BY <1>2, <1>3

\* What could be named before can be named still.
LEMMA TypesGrow ==
    ASSUME Len(tasks) \in Nat, Len(models) \in Nat, Len(services) \in Nat,
           Len(tasks') \in Nat, Len(models') \in Nat, Len(services') \in Nat,
           Len(tasks) <= Len(tasks'), Len(models) <= Len(models'),
           Len(services) <= Len(services')
    PROVE  MemoryType \subseteq MemoryType' /\ RunType \subseteq RunType'
<1>1. /\ Numbers(tasks) \subseteq Numbers(tasks')
      /\ Numbers(models) \subseteq Numbers(models')
      /\ Numbers(services) \subseteq Numbers(services')
    BY DEF Numbers
<1>2. MemoryType \subseteq MemoryType'
    BY <1>1 DEF MemoryType
<1>3. RunType \subseteq RunType'
    BY <1>1 DEF RunType
<1>. QED BY <1>2, <1>3

\* What is named is there.
LEMMA Ranges ==
    ASSUME Typed
    PROVE  /\ Len(tasks) \in Nat /\ DOMAIN tasks = 1 .. Len(tasks)
           /\ Len(models) \in Nat /\ DOMAIN models = 1 .. Len(models)
           /\ Len(services) \in Nat /\ DOMAIN services = 1 .. Len(services)
           /\ {me.task, me.source, file.task} \subseteq 0 .. Len(tasks)
           /\ {me.set, me.id, me.model, me.target, file.model} \subseteq 0 .. Len(models)
           /\ {me.service, run.service} \subseteq 0 .. Len(services)
           /\ \A m \in DOMAIN models : models[m].task \in DOMAIN tasks
           /\ \A v \in DOMAIN services : services[v].model \in DOMAIN models
<1>1. /\ Len(tasks) \in Nat /\ DOMAIN tasks = 1 .. Len(tasks)
      /\ Len(models) \in Nat /\ DOMAIN models = 1 .. Len(models)
      /\ Len(services) \in Nat /\ DOMAIN services = 1 .. Len(services)
    BY DEF Typed, Values
<1>2. /\ {me.task, me.source, file.task} \subseteq 0 .. Len(tasks)
      /\ {me.set, me.id, me.model, me.target, file.model} \subseteq 0 .. Len(models)
      /\ {me.service, run.service} \subseteq 0 .. Len(services)
    BY DEF Typed, Values, MemoryType, RunType, Numbers
<1>3. \A m \in DOMAIN models : models[m].task \in DOMAIN tasks
  <2>1. \A m \in DOMAIN models : models[m] \in ModelType
    BY <1>1 DEF Typed, Values
  <2>. QED BY <2>1 DEF ModelType
<1>4. \A v \in DOMAIN services : services[v].model \in DOMAIN models
  <2>1. \A v \in DOMAIN services : services[v] \in ServiceType
    BY <1>1 DEF Typed, Values
  <2>. QED BY <2>1 DEF ServiceType
<1>. QED BY <1>1, <1>2, <1>3, <1>4

-----------------------------------------------------------------------------
(* The pipeline.                                                            *)

LEMMA ExecInv == Inv /\ Exec => Inv'
<1> SUFFICES ASSUME Inv, Exec PROVE Inv'
    OBVIOUS
<1>1. /\ run' = [run EXCEPT !.pc = "save", !.polled = TRUE]
      /\ UNCHANGED <<tasks, models, services, me, file, strangers, counts>>
    BY DEF Exec, UnchangedMost, cloud, At, Goto
<1>2. /\ run' \in RunType /\ run'.pc = "save" /\ run'.resuming = run.resuming
    BY <1>1 DEF Inv, Typed, Values, RunType, MemoryType, Labels
<1>3. run.pc = "new"
    BY <1>1 DEF Inv, Typed, Values, RunType, MemoryType, At, Exec, UnchangedMost,
       cloud, Goto
<1>4. Values'
    BY <1>1, <1>2, <1>3 DEF Inv, Typed, Values, RunType, ModelType, ServiceType,
       CountType, MemoryType, Numbers, None
<1>5. Located' /\ Named'
    BY <1>1, <1>2, <1>3 DEF Inv, Typed, Values, RunType, Located, Named, At, None,
       Training, Publishing, Deploying
<1>6. InOrder'
    BY <1>1, <1>2, <1>3 DEF Inv, Typed, Located, Named, InOrder, Coherent, Kept, At,
       None, Training, Publishing, Deploying
<1>7. OneChain' /\ Serving'
    BY <1>1, <1>2, <1>3 DEF Inv, Typed, Located, Named, InOrder, Coherent, OneChain,
       Serving, At, None, Training, Publishing, Deploying
<1>8. Known' /\ Given'
    BY <1>1, <1>2, <1>3 DEF Inv, Typed, Located, InOrder, Coherent, Known, Given,
       At, None, Training, Publishing, Deploying
<1>. QED BY <1>4, <1>5, <1>6, <1>7, <1>8 DEF Inv, Typed

LEMMA ResumeInv == Inv /\ Resume => Inv'
<1> SUFFICES ASSUME Inv, Resume PROVE Inv'
    OBVIOUS
<1>1. /\ run' = [Idle EXCEPT !.pc = Chain[me.current], !.resuming = TRUE]
      /\ counts' = [counts EXCEPT !.resumes = counts.resumes + 1]
      /\ UNCHANGED <<tasks, models, services, me, file, strangers>>
    BY DEF Resume, cloud
<1>2. /\ Len(Chain) = 4 /\ Chain[1] = "load" /\ Chain[2] = "train"
      /\ Chain[3] = "publish" /\ Chain[4] = "deploy"
    BY DEF Chain
<1>3. /\ me.current \in 1 .. 4 /\ run.pc = "idle"
    BY <1>2 DEF Resume, At, Inv, Typed, Values, RunType, MemoryType
<1>4. /\ run'.pc = Chain[me.current] /\ run'.resuming
    BY <1>1 DEF Idle
<1>5. /\ me.current = 1 => run'.pc = "load"
      /\ me.current = 2 => run'.pc = "train"
      /\ me.current = 3 => run'.pc = "publish"
      /\ me.current = 4 => run'.pc = "deploy"
      /\ run'.pc \in {"load", "train", "publish", "deploy"}
    BY <1>2, <1>3, <1>4
<1>6. None \in Numbers(services)
    BY DEF Inv, Typed, Values, None, Numbers
<1>7. run' \in RunType
    BY <1>1, <1>4, <1>5, <1>6 DEF RunType, Labels, Idle
<1>8. counts \in CountType
    BY DEF Inv, Typed, Values
<1>9. /\ counts' \in CountType /\ counts'.crashes = counts.crashes
    BY <1>1, <1>8 DEF CountType
<1>10. Values'
    BY <1>1, <1>2, <1>3, <1>4, <1>5, <1>6, <1>7, <1>8, <1>9 DEF Inv, Typed, Values,
       RunType, ModelType, ServiceType, CountType, MemoryType, Numbers, None
<1>11. Located' /\ Named'
    BY <1>1, <1>2, <1>3, <1>4, <1>5, <1>6, <1>7, <1>8, <1>9 DEF Inv, Typed, Values,
       RunType, Located, Named, At, None, Training, Publishing, Deploying
<1>12. InOrder'
    BY <1>1, <1>2, <1>3, <1>4, <1>5, <1>6, <1>7, <1>8, <1>9 DEF Inv, Typed, Located,
       Named, InOrder, Coherent, Kept, At, None, Training, Publishing, Deploying
<1>13. OneChain' /\ Serving'
    BY <1>1, <1>2, <1>3, <1>4, <1>5, <1>6, <1>7, <1>8, <1>9 DEF Inv, Typed, Located,
       Named, InOrder, Coherent, OneChain, Serving, At, None, Training, Publishing,
       Deploying
<1>14. Known' /\ Given'
    BY <1>1, <1>2, <1>3, <1>4, <1>5, <1>6, <1>7, <1>8, <1>9 DEF Inv, Typed, Located,
       InOrder, Coherent, Known, Given, At, None, Training, Publishing, Deploying
<1>. QED BY <1>10, <1>11, <1>12, <1>13, <1>14 DEF Inv, Typed

LEMMA SaveAfterInv == Inv /\ SaveAfter => Inv'
<1> SUFFICES ASSUME Inv, SaveAfter PROVE Inv'
    OBVIOUS
<1>1. /\ run' = [run EXCEPT !.pc = "next"] /\ file' = me
      /\ UNCHANGED <<tasks, models, services, me, strangers, counts>>
    BY DEF SaveAfter, UnchangedMost, cloud, At, Goto
<1>2. /\ run' \in RunType /\ run'.pc = "next" /\ run'.resuming = run.resuming
    BY <1>1 DEF Inv, Typed, Values, RunType, MemoryType, Labels
<1>3. run.pc = "save"
    BY <1>1 DEF Inv, Typed, Values, RunType, MemoryType, At, SaveAfter,
       UnchangedMost, cloud, Goto
<1>4. Values'
    BY <1>1, <1>2, <1>3 DEF Inv, Typed, Values, RunType, ModelType, ServiceType,
       CountType, MemoryType, Numbers, None
<1>5. Located' /\ Named'
    BY <1>1, <1>2, <1>3 DEF Inv, Typed, Values, RunType, Located, Named, At, None,
       Training, Publishing, Deploying
<1>6. InOrder'
    BY <1>1, <1>2, <1>3 DEF Inv, Typed, Located, Named, InOrder, Coherent, Kept, At,
       None, Training, Publishing, Deploying
<1>7. OneChain' /\ Serving'
    BY <1>1, <1>2, <1>3 DEF Inv, Typed, Located, Named, InOrder, Coherent, OneChain,
       Serving, At, None, Training, Publishing, Deploying
<1>8. Known' /\ Given'
    BY <1>1, <1>2, <1>3 DEF Inv, Typed, Located, InOrder, Coherent, Known, Given,
       At, None, Training, Publishing, Deploying
<1>. QED BY <1>4, <1>5, <1>6, <1>7, <1>8 DEF Inv, Typed

LEMMA SavePolledInv == Inv /\ SavePolled => Inv'
<1> SUFFICES ASSUME Inv, SavePolled PROVE Inv'
    OBVIOUS
<1>1. /\ run' = run /\ file' = me
      /\ UNCHANGED <<tasks, models, services, me, strangers, counts>>
    BY DEF SavePolled, UnchangedMost, cloud, At, Goto
<1>2. /\ run' \in RunType /\ run'.pc = run.pc /\ run'.resuming = run.resuming
    BY <1>1 DEF Inv, Typed, Values, RunType, MemoryType, Labels
<1>3. Values'
    BY <1>1, <1>2 DEF Inv, Typed, Values, RunType, ModelType, ServiceType,
       CountType, MemoryType, Numbers, None
<1>4. Located' /\ Named'
    BY <1>1, <1>2 DEF Inv, Typed, Values, RunType, Located, Named, At, None,
       Training, Publishing, Deploying
<1>5. InOrder'
    BY <1>1, <1>2 DEF Inv, Typed, Located, Named, InOrder, Coherent, Kept, At, None,
       Training, Publishing, Deploying
<1>6. OneChain' /\ Serving'
    BY <1>1, <1>2 DEF Inv, Typed, Located, Named, InOrder, Coherent, OneChain,
       Serving, At, None, Training, Publishing, Deploying
<1>7. Known' /\ Given'
    BY <1>1, <1>2 DEF Inv, Typed, Located, InOrder, Coherent, Known, Given, At,
       None, Training, Publishing, Deploying
<1>. QED BY <1>3, <1>4, <1>5, <1>6, <1>7 DEF Inv, Typed

LEMMA SetCurrentInv == Inv /\ SetCurrent => Inv'
<1> SUFFICES ASSUME Inv, SetCurrent PROVE Inv'
    OBVIOUS
<1>1. /\ me' = [me EXCEPT !.current = me.current + 1]
      /\ run' = [run EXCEPT !.pc = Chain[me.current + 1]]
      /\ UNCHANGED <<tasks, models, services, file, strangers, counts>>
    BY DEF SetCurrent, UnchangedMost, cloud, At, Goto
<1>2. /\ Len(Chain) = 4 /\ Chain[1] = "load" /\ Chain[2] = "train"
      /\ Chain[3] = "publish" /\ Chain[4] = "deploy"
    BY DEF Chain
<1>3. /\ run.pc = "next" /\ ~ run.resuming /\ me.current \in 0 .. 3
      /\ me.current + 1 \in 0 .. Len(Chain)
    BY <1>2 DEF SetCurrent, At, Located, Inv, Typed, Values, RunType, MemoryType
<1>4. /\ run'.pc = Chain[me.current + 1] /\ ~ run'.resuming
    BY <1>1, <1>3 DEF Inv, Typed, Values, RunType
<1>5. /\ me.current = 0 => run'.pc = "load"
      /\ me.current = 1 => run'.pc = "train"
      /\ me.current = 2 => run'.pc = "publish"
      /\ me.current = 3 => run'.pc = "deploy"
      /\ run'.pc \in {"load", "train", "publish", "deploy"}
    BY <1>2, <1>3, <1>4
<1>6. run' \in RunType
    BY <1>1, <1>4, <1>5 DEF Inv, Typed, Values, RunType, Labels
<1>7. /\ me' \in MemoryType /\ me'.current = me.current + 1
      /\ me'.input = me.input /\ me'.job = me.job /\ me'.task = me.task
      /\ me'.trained = me.trained /\ me'.source = me.source /\ me'.set = me.set
      /\ me'.id = me.id /\ me'.model = me.model /\ me'.target = me.target
      /\ me'.service = me.service
    BY <1>1, <1>2, <1>3 DEF Inv, Typed, Values, RunType, MemoryType
<1>8. Values'
    BY <1>1, <1>2, <1>3, <1>4, <1>5, <1>6, <1>7 DEF Inv, Typed, Values, RunType,
       ModelType, ServiceType, CountType, MemoryType, Numbers, None
<1>9. Located' /\ Named'
    BY <1>1, <1>2, <1>3, <1>4, <1>5, <1>6, <1>7 DEF Inv, Typed, Values, RunType,
       Located, Named, At, None, Training, Publishing, Deploying
<1>10. InOrder'
    BY <1>1, <1>2, <1>3, <1>4, <1>5, <1>6, <1>7 DEF Inv, Typed, Located, Named,
       InOrder, Coherent, Kept, At, None, Training, Publishing, Deploying
<1>11. OneChain' /\ Serving'
    BY <1>1, <1>2, <1>3, <1>4, <1>5, <1>6, <1>7 DEF Inv, Typed, Located, Named,
       InOrder, Coherent, OneChain, Serving, At, None, Training, Publishing,
       Deploying
<1>12. Known' /\ Given'
    BY <1>1, <1>2, <1>3, <1>4, <1>5, <1>6, <1>7 DEF Inv, Typed, Located, InOrder,
       Coherent, Known, Given, At, None, Training, Publishing, Deploying
<1>. QED BY <1>8, <1>9, <1>10, <1>11, <1>12 DEF Inv, Typed

LEMMA ReturnInv == Inv /\ Return => Inv'
<1> SUFFICES ASSUME Inv, Return PROVE Inv'
    OBVIOUS
<1>1. UNCHANGED <<tasks, models, services, me, file, strangers, counts>>
    BY DEF Return, UnchangedMost, cloud, At, Goto
<1>2. /\ run' \in RunType /\ ~ run'.resuming /\ run'.pc = "idle"
    BY EndRun DEF Inv, Return, UnchangedMost, cloud, At, Goto
<1>3. run.pc \in {"return", "next"}
    BY <1>1 DEF Inv, Typed, Values, RunType, MemoryType, At, Return, UnchangedMost,
       cloud, Goto
<1>4. Values'
    BY <1>1, <1>2, <1>3 DEF Inv, Typed, Values, RunType, ModelType, ServiceType,
       CountType, MemoryType, Numbers, None
<1>5. Located' /\ Named'
    BY <1>1, <1>2, <1>3 DEF Inv, Typed, Values, RunType, Located, Named, At, None,
       Training, Publishing, Deploying
<1>6. InOrder'
    BY <1>1, <1>2, <1>3 DEF Inv, Typed, Located, Named, InOrder, Coherent, Kept, At,
       None, Training, Publishing, Deploying
<1>7. OneChain' /\ Serving'
    BY <1>1, <1>2, <1>3 DEF Inv, Typed, Located, Named, InOrder, Coherent, OneChain,
       Serving, At, None, Training, Publishing, Deploying
<1>8. Known' /\ Given'
    BY <1>1, <1>2, <1>3 DEF Inv, Typed, Located, InOrder, Coherent, Known, Given,
       At, None, Training, Publishing, Deploying
<1>. QED BY <1>4, <1>5, <1>6, <1>7, <1>8 DEF Inv, Typed

-----------------------------------------------------------------------------
(* The actions.                                                             *)

LEMMA LoadDataSetInv == Inv /\ LoadDataSet => Inv'
<1> SUFFICES ASSUME Inv, LoadDataSet PROVE Inv'
    OBVIOUS
<1>1. /\ me' = [me EXCEPT !.loaded = TRUE]
      /\ UNCHANGED <<tasks, models, services, file, strangers, counts>>
    BY DEF LoadDataSet, UnchangedMost, cloud, At, Goto
<1>2. /\ run' \in RunType /\ ~ run'.resuming /\ run'.pc \in {"save", "return"}
    BY DoneRun DEF Inv, LoadDataSet, UnchangedMost, cloud, At, Goto
<1>3. run.pc = "load"
    BY <1>1 DEF Inv, Typed, Values, RunType, MemoryType, At, LoadDataSet,
       UnchangedMost, cloud, Goto
<1>4. /\ me' \in MemoryType /\ me'.current = me.current /\ me'.input = me.input
      /\ me'.job = me.job /\ me'.task = me.task /\ me'.trained = me.trained
      /\ me'.source = me.source /\ me'.set = me.set /\ me'.id = me.id
      /\ me'.model = me.model /\ me'.target = me.target
      /\ me'.service = me.service
    BY <1>1, <1>3 DEF Inv, Typed, Values, RunType, MemoryType, Numbers, Located, At,
       Training, Publishing, Deploying
<1>5. Values'
    BY <1>1, <1>2, <1>3, <1>4 DEF Inv, Typed, Values, RunType, ModelType,
       ServiceType, CountType, MemoryType, Numbers, None
<1>6. Located' /\ Named'
    BY <1>1, <1>2, <1>3, <1>4 DEF Inv, Typed, Values, RunType, Located, Named, At,
       None, Training, Publishing, Deploying
<1>7. InOrder'
    BY <1>1, <1>2, <1>3, <1>4 DEF Inv, Typed, Located, Named, InOrder, Coherent,
       Kept, At, None, Training, Publishing, Deploying
<1>8. OneChain' /\ Serving'
    BY <1>1, <1>2, <1>3, <1>4 DEF Inv, Typed, Located, Named, InOrder, Coherent,
       OneChain, Serving, At, None, Training, Publishing, Deploying
<1>9. Known' /\ Given'
    BY <1>1, <1>2, <1>3, <1>4 DEF Inv, Typed, Located, InOrder, Coherent, Known,
       Given, At, None, Training, Publishing, Deploying
<1>. QED BY <1>5, <1>6, <1>7, <1>8, <1>9 DEF Inv, Typed

LEMMA TrainDoneInv == Inv /\ TrainDone => Inv'
<1> SUFFICES ASSUME Inv, TrainDone PROVE Inv'
    OBVIOUS
<1>1. UNCHANGED <<tasks, models, services, me, file, strangers, counts>>
    BY DEF TrainDone, UnchangedMost, cloud, At, Goto
<1>2. /\ run' \in RunType /\ ~ run'.resuming /\ run'.pc \in {"save", "return"}
    BY DoneRun DEF Inv, TrainDone, UnchangedMost, cloud, At, Goto
<1>3. /\ run.pc = "train" /\ me.trained
    BY <1>1 DEF Inv, Typed, Values, RunType, MemoryType, At, TrainDone,
       UnchangedMost, cloud, Goto
<1>4. Values'
    BY <1>1, <1>2, <1>3 DEF Inv, Typed, Values, RunType, ModelType, ServiceType,
       CountType, MemoryType, Numbers, None
<1>5. Located' /\ Named'
    BY <1>1, <1>2, <1>3 DEF Inv, Typed, Values, RunType, Located, Named, At, None,
       Training, Publishing, Deploying
<1>6. InOrder'
    BY <1>1, <1>2, <1>3 DEF Inv, Typed, Located, Named, InOrder, Coherent, Kept, At,
       None, Training, Publishing, Deploying
<1>7. OneChain' /\ Serving'
    BY <1>1, <1>2, <1>3 DEF Inv, Typed, Located, Named, InOrder, Coherent, OneChain,
       Serving, At, None, Training, Publishing, Deploying
<1>8. Known' /\ Given'
    BY <1>1, <1>2, <1>3 DEF Inv, Typed, Located, InOrder, Coherent, Known, Given,
       At, None, Training, Publishing, Deploying
<1>. QED BY <1>4, <1>5, <1>6, <1>7, <1>8 DEF Inv, Typed

LEMMA TrainAgainInv == Inv /\ TrainAgain => Inv'
<1> SUFFICES ASSUME Inv, TrainAgain PROVE Inv'
    OBVIOUS
<1>1. /\ run' = [run EXCEPT !.pc = "trainwait"]
      /\ UNCHANGED <<tasks, models, services, me, file, strangers, counts>>
    BY DEF TrainAgain, UnchangedMost, cloud, At, Goto
<1>2. /\ run' \in RunType /\ run'.pc = "trainwait"
      /\ run'.resuming = run.resuming
    BY <1>1 DEF Inv, Typed, Values, RunType, MemoryType, Labels
<1>3. /\ run.pc = "train" /\ ~ me.trained /\ me.task # None
    BY <1>1 DEF Inv, Typed, Values, RunType, MemoryType, At, TrainAgain,
       UnchangedMost, cloud, Goto
<1>4. Values'
    BY <1>1, <1>2, <1>3 DEF Inv, Typed, Values, RunType, ModelType, ServiceType,
       CountType, MemoryType, Numbers, None
<1>5. Located' /\ Named'
    BY <1>1, <1>2, <1>3 DEF Inv, Typed, Values, RunType, Located, Named, At, None,
       Training, Publishing, Deploying
<1>6. InOrder'
    BY <1>1, <1>2, <1>3 DEF Inv, Typed, Located, Named, InOrder, Coherent, Kept, At,
       None, Training, Publishing, Deploying
<1>7. OneChain' /\ Serving'
    BY <1>1, <1>2, <1>3 DEF Inv, Typed, Located, Named, InOrder, Coherent, OneChain,
       Serving, At, None, Training, Publishing, Deploying
<1>8. Known' /\ Given'
    BY <1>1, <1>2, <1>3 DEF Inv, Typed, Located, InOrder, Coherent, Known, Given,
       At, None, Training, Publishing, Deploying
<1>. QED BY <1>4, <1>5, <1>6, <1>7, <1>8 DEF Inv, Typed

LEMMA TrainInv == Inv /\ Train => Inv'
<1> SUFFICES ASSUME Inv, Train PROVE Inv'
    OBVIOUS
<1>1. /\ run' = [run EXCEPT !.pc = (IF me.job THEN "submit" ELSE "job")]
      /\ me' = [me EXCEPT !.input = TRUE]
      /\ UNCHANGED <<tasks, models, services, file, strangers, counts>>
    BY DEF Train, UnchangedMost, cloud, At, Goto, NewTask, LacksInput
<1>2. /\ run' \in RunType /\ run'.pc = (IF me.job THEN "submit" ELSE "job")
      /\ run'.resuming = run.resuming
    BY <1>1 DEF Inv, Typed, Values, RunType, MemoryType, Labels
<1>3. /\ run.pc = "train" /\ ~ me.trained /\ me.task = None
    BY <1>1 DEF Inv, Typed, Values, RunType, MemoryType, At, InOrder, Coherent,
       Train, UnchangedMost, cloud, Goto, NewTask, LacksInput
<1>4. /\ me' \in MemoryType /\ me'.current = me.current /\ me'.input = TRUE
      /\ me'.job = me.job /\ me'.task = me.task /\ me'.trained = me.trained
      /\ me'.source = me.source /\ me'.set = me.set /\ me'.id = me.id
      /\ me'.model = me.model /\ me'.target = me.target
      /\ me'.service = me.service
    BY <1>1, <1>3 DEF Inv, Typed, Values, RunType, MemoryType, Numbers, Located, At,
       Training, Publishing, Deploying
<1>5. Values'
    BY <1>1, <1>2, <1>3, <1>4 DEF Inv, Typed, Values, RunType, ModelType,
       ServiceType, CountType, MemoryType, Numbers, None
<1>6. Located' /\ Named'
    BY <1>1, <1>2, <1>3, <1>4 DEF Inv, Typed, Values, RunType, Located, Named, At,
       None, Training, Publishing, Deploying
<1>7. InOrder'
    BY <1>1, <1>2, <1>3, <1>4 DEF Inv, Typed, Located, Named, InOrder, Coherent,
       Kept, At, None, Training, Publishing, Deploying
<1>8. OneChain' /\ Serving'
    BY <1>1, <1>2, <1>3, <1>4 DEF Inv, Typed, Located, Named, InOrder, Coherent,
       OneChain, Serving, At, None, Training, Publishing, Deploying
<1>9. Known' /\ Given'
    BY <1>1, <1>2, <1>3, <1>4 DEF Inv, Typed, Located, InOrder, Coherent, Known,
       Given, At, None, Training, Publishing, Deploying
<1>. QED BY <1>5, <1>6, <1>7, <1>8, <1>9 DEF Inv, Typed

LEMMA CreateJobInv == Inv /\ CreateJob => Inv'
<1> SUFFICES ASSUME Inv, CreateJob PROVE Inv'
    OBVIOUS
<1>1. /\ run' = [run EXCEPT !.pc = "submit"] /\ me' = [me EXCEPT !.job = TRUE]
      /\ UNCHANGED <<tasks, models, services, file, strangers, counts>>
    BY DEF CreateJob, UnchangedMost, cloud, At, Goto
<1>2. /\ run' \in RunType /\ run'.pc = "submit" /\ run'.resuming = run.resuming
    BY <1>1 DEF Inv, Typed, Values, RunType, MemoryType, Labels
<1>3. run.pc = "job"
    BY <1>1 DEF Inv, Typed, Values, RunType, MemoryType, At, CreateJob,
       UnchangedMost, cloud, Goto
<1>4. /\ me' \in MemoryType /\ me'.current = me.current /\ me'.input = me.input
      /\ me'.job = TRUE /\ me'.task = me.task /\ me'.trained = me.trained
      /\ me'.source = me.source /\ me'.set = me.set /\ me'.id = me.id
      /\ me'.model = me.model /\ me'.target = me.target
      /\ me'.service = me.service
    BY <1>1, <1>3 DEF Inv, Typed, Values, RunType, MemoryType, Numbers, Located, At,
       Training, Publishing, Deploying
<1>5. Values'
    BY <1>1, <1>2, <1>3, <1>4 DEF Inv, Typed, Values, RunType, ModelType,
       ServiceType, CountType, MemoryType, Numbers, None
<1>6. Located' /\ Named'
    BY <1>1, <1>2, <1>3, <1>4 DEF Inv, Typed, Values, RunType, Located, Named, At,
       None, Training, Publishing, Deploying
<1>7. InOrder'
    BY <1>1, <1>2, <1>3, <1>4 DEF Inv, Typed, Located, Named, InOrder, Coherent,
       Kept, At, None, Training, Publishing, Deploying
<1>8. OneChain' /\ Serving'
    BY <1>1, <1>2, <1>3, <1>4 DEF Inv, Typed, Located, Named, InOrder, Coherent,
       OneChain, Serving, At, None, Training, Publishing, Deploying
<1>9. Known' /\ Given'
    BY <1>1, <1>2, <1>3, <1>4 DEF Inv, Typed, Located, InOrder, Coherent, Known,
       Given, At, None, Training, Publishing, Deploying
<1>. QED BY <1>5, <1>6, <1>7, <1>8, <1>9 DEF Inv, Typed

LEMMA CreateTaskInv == Inv /\ CreateTask => Inv'
<1> SUFFICES ASSUME Inv, CreateTask PROVE Inv'
    OBVIOUS
<1>1. /\ tasks' = Append(tasks, "running")
      /\ me' = [me EXCEPT !.task = Len(tasks')]
      /\ run' = [run EXCEPT !.pc = "trainwait"]
      /\ UNCHANGED <<models, services, file, strangers, counts>>
    BY DEF CreateTask, Goto
<1>2. /\ tasks \in Seq({"running", "finish", "fail"})
      /\ models \in Seq(ModelType) /\ services \in Seq(ServiceType)
    BY DEF Inv, Typed, Values
<1>3. /\ tasks' \in Seq({"running", "finish", "fail"}) /\ Len(tasks) \in Nat
      /\ Len(tasks') = Len(tasks) + 1 /\ DOMAIN tasks = 1 .. Len(tasks)
      /\ DOMAIN tasks' = 1 .. Len(tasks) + 1
      /\ \A t \in DOMAIN tasks : tasks'[t] = tasks[t]
    BY <1>1, <1>2, Appended
<1>4. /\ MemoryType \subseteq MemoryType' /\ RunType \subseteq RunType'
    BY <1>1, <1>2, <1>3, TypesGrow
<1>5. /\ ModelType \subseteq ModelType' /\ ServiceType' = ServiceType
    BY <1>1, <1>3 DEF ModelType, ServiceType
<1>6. /\ models' \in Seq(ModelType') /\ services' \in Seq(ServiceType')
    BY <1>1, <1>2, <1>5, SeqGrows
<1>7. /\ me.task \in 0 .. Len(tasks) /\ file.task \in 0 .. Len(tasks)
      /\ strangers \subseteq DOMAIN tasks
    BY Ranges DEF Inv, Typed, Values
<1>8. /\ run.pc = "submit" /\ me.current = 2 /\ me.task = None /\ ~ me.trained
      /\ models = <<>> /\ me.job
    BY DEF CreateTask, Inv, InOrder, Typed, Located, At, Training
<1>9. /\ run' \in RunType' /\ run'.pc = "trainwait"
      /\ run'.resuming = run.resuming /\ run'.service = run.service
    BY <1>1, <1>4 DEF Inv, Typed, Values, RunType, MemoryType, Labels
<1>10. /\ me \in MemoryType' /\ file' \in MemoryType'
    BY <1>1, <1>4 DEF Inv, Typed, Values
<1>11. Len(tasks) + 1 \in Numbers(tasks)'
    BY <1>3 DEF Numbers
<1>12. /\ me' \in MemoryType' /\ me'.current = me.current /\ me'.input = me.input
       /\ me'.job = me.job /\ me'.task = Len(tasks) + 1
       /\ me'.trained = me.trained /\ me'.source = me.source /\ me'.set = me.set
       /\ me'.id = me.id /\ me'.model = me.model /\ me'.target = me.target
       /\ me'.service = me.service
    BY <1>1, <1>3, <1>10, <1>11 DEF MemoryType
<1>13. /\ Coherent(me)' /\ Coherent(file)'
    BY <1>1, <1>3, <1>7, <1>8, <1>12 DEF Inv, InOrder, Coherent, None
<1>14. Values'
    BY <1>1, <1>3, <1>6, <1>7, <1>9, <1>10, <1>12 DEF Inv, Typed, Values
<1>15. Located'
    BY <1>1, <1>3, <1>7, <1>8, <1>9, <1>12, <1>13 DEF Inv, Typed, Values, RunType,
       Located, Named, At, None, Training, Publishing, Deploying
<1>16. Named'
    BY <1>1, <1>3, <1>7, <1>8, <1>9, <1>12, <1>13 DEF Inv, Typed, Values, RunType,
       Located, Named, At, None, Training, Publishing, Deploying
<1>17. InOrder'
    BY <1>1, <1>3, <1>7, <1>8, <1>9, <1>12, <1>13 DEF Inv, Typed, Located, Named,
       InOrder, Kept, At, None, Training, Publishing, Deploying
<1>18. OneChain'
    BY <1>1, <1>3, <1>7, <1>8, <1>9, <1>12, <1>13 DEF Inv, Typed, Located, Named,
       InOrder, Coherent, OneChain, Serving, At, None, Training, Publishing,
       Deploying
<1>19. Serving'
    BY <1>1, <1>3, <1>7, <1>8, <1>9, <1>12, <1>13 DEF Inv, Typed, Located, Named,
       InOrder, Coherent, OneChain, Serving, At, None, Training, Publishing,
       Deploying
<1>20. Known'
    BY <1>1, <1>3, <1>7, <1>8, <1>9, <1>12, <1>13 DEF Inv, Typed, Located, InOrder,
       Coherent, Known, Given, At, None, Training, Publishing, Deploying
<1>21. Given'
    BY <1>1, <1>3, <1>7, <1>8, <1>9, <1>12, <1>13 DEF Inv, Typed, Located, InOrder,
       Coherent, Known, Given, At, None, Training, Publishing, Deploying
<1>. QED BY <1>14, <1>15, <1>16, <1>17, <1>18, <1>19, <1>20, <1>21 DEF Inv, Typed

LEMMA TrainedInv == Inv /\ Trained => Inv'
<1> SUFFICES ASSUME Inv, Trained PROVE Inv'
    OBVIOUS
<1>1. /\ me' = [me EXCEPT !.trained = TRUE]
      /\ UNCHANGED <<tasks, models, services, file, strangers, counts>>
    BY DEF Trained, UnchangedMost, cloud, At, Goto
<1>2. /\ run' \in RunType /\ ~ run'.resuming /\ run'.pc \in {"save", "return"}
    BY DoneRun DEF Inv, Trained, UnchangedMost, cloud, At, Goto
<1>3. /\ run.pc = "trainwait" /\ tasks[me.task] = "finish" /\ me.task # None
    BY <1>1 DEF Inv, Typed, Values, RunType, MemoryType, At, Named, Trained,
       UnchangedMost, cloud, Goto
<1>4. /\ me' \in MemoryType /\ me'.current = me.current /\ me'.input = me.input
      /\ me'.job = me.job /\ me'.task = me.task /\ me'.trained = TRUE
      /\ me'.source = me.source /\ me'.set = me.set /\ me'.id = me.id
      /\ me'.model = me.model /\ me'.target = me.target
      /\ me'.service = me.service
    BY <1>1, <1>3 DEF Inv, Typed, Values, RunType, MemoryType, Numbers, Located, At,
       Training, Publishing, Deploying
<1>5. Values'
    BY <1>1, <1>2, <1>3, <1>4 DEF Inv, Typed, Values, RunType, ModelType,
       ServiceType, CountType, MemoryType, Numbers, None
<1>6. Located' /\ Named'
    BY <1>1, <1>2, <1>3, <1>4 DEF Inv, Typed, Values, RunType, Located, Named, At,
       None, Training, Publishing, Deploying
<1>7. InOrder'
    BY <1>1, <1>2, <1>3, <1>4 DEF Inv, Typed, Located, Named, InOrder, Coherent,
       Kept, At, None, Training, Publishing, Deploying
<1>8. OneChain' /\ Serving'
    BY <1>1, <1>2, <1>3, <1>4 DEF Inv, Typed, Located, Named, InOrder, Coherent,
       OneChain, Serving, At, None, Training, Publishing, Deploying
<1>9. Known' /\ Given'
    BY <1>1, <1>2, <1>3, <1>4 DEF Inv, Typed, Located, InOrder, Coherent, Known,
       Given, At, None, Training, Publishing, Deploying
<1>. QED BY <1>5, <1>6, <1>7, <1>8, <1>9 DEF Inv, Typed

LEMMA PublishInv == Inv /\ Publish => Inv'
<1> SUFFICES ASSUME Inv, Publish PROVE Inv'
    OBVIOUS
<1>1. CASE run.resuming /\ me.model # None
  <2>1. /\ Done
        /\ UNCHANGED <<tasks, models, services, me, file, strangers, counts>>
      BY <1>1 DEF Publish, UnchangedMost, cloud, At, Goto
  <2>2. /\ run' \in RunType /\ ~ run'.resuming /\ run'.pc \in {"save", "return"}
      BY <2>1, DoneRun DEF Inv
  <2>3. run.pc = "publish"
      BY DEF Publish, At
  <2>4. Values'
      BY <2>1, <2>2, <2>3, <1>1 DEF Inv, Typed, Values, RunType, ModelType,
         ServiceType, CountType, MemoryType, Numbers, None
  <2>5. Located' /\ Named'
      BY <2>1, <2>2, <2>3, <1>1 DEF Inv, Typed, Values, RunType, Located, Named, At,
         None, Training, Publishing, Deploying
  <2>6. InOrder'
      BY <2>1, <2>2, <2>3, <1>1 DEF Inv, Typed, Located, Named, InOrder, Coherent,
         Kept, At, None, Training, Publishing, Deploying
  <2>7. OneChain' /\ Serving'
      BY <2>1, <2>2, <2>3, <1>1 DEF Inv, Typed, Located, Named, InOrder, Coherent,
         OneChain, Serving, At, None, Training, Publishing, Deploying
  <2>8. Known' /\ Given'
      BY <2>1, <2>2, <2>3, <1>1 DEF Inv, Typed, Located, InOrder, Coherent, Known,
         Given, At, None, Training, Publishing, Deploying
  <2>. QED BY <2>4, <2>5, <2>6, <2>7, <2>8 DEF Inv, Typed
<1>2. CASE run.resuming /\ me.model = None
  <2>1. /\ run' = [run EXCEPT !.pc = "published?"]
        /\ UNCHANGED <<tasks, models, services, me, file, strangers, counts>>
      BY <1>2 DEF Publish, UnchangedMost, cloud, At, Goto
  <2>2. /\ run' \in RunType /\ run'.pc = "published?" /\ run'.resuming
      BY <2>1, <1>2 DEF Inv, Typed, Values, RunType, MemoryType, Labels
  <2>3. run.pc = "publish"
      BY DEF Publish, At
  <2>4. Values'
      BY <2>1, <2>2, <2>3, <1>2 DEF Inv, Typed, Values, RunType, ModelType,
         ServiceType, CountType, MemoryType, Numbers, None
  <2>5. Located' /\ Named'
      BY <2>1, <2>2, <2>3, <1>2 DEF Inv, Typed, Values, RunType, Located, Named, At,
         None, Training, Publishing, Deploying
  <2>6. InOrder'
      BY <2>1, <2>2, <2>3, <1>2 DEF Inv, Typed, Located, Named, InOrder, Coherent,
         Kept, At, None, Training, Publishing, Deploying
  <2>7. OneChain' /\ Serving'
      BY <2>1, <2>2, <2>3, <1>2 DEF Inv, Typed, Located, Named, InOrder, Coherent,
         OneChain, Serving, At, None, Training, Publishing, Deploying
  <2>8. Known' /\ Given'
      BY <2>1, <2>2, <2>3, <1>2 DEF Inv, Typed, Located, InOrder, Coherent, Known,
         Given, At, None, Training, Publishing, Deploying
  <2>. QED BY <2>4, <2>5, <2>6, <2>7, <2>8 DEF Inv, Typed
<1>3. CASE ~ run.resuming
  <2>1. /\ run' = [run EXCEPT !.pc = "published?"]
        /\ me' = [me EXCEPT !.source = me.task, !.set = None, !.id = None]
        /\ UNCHANGED <<tasks, models, services, file, strangers, counts>>
      BY <1>3 DEF Publish, UnchangedMost, cloud, At, Goto
  <2>2. /\ run' \in RunType /\ run'.pc = "published?" /\ ~ run'.resuming
      BY <2>1, <1>3 DEF Inv, Typed, Values, RunType, MemoryType, Labels
  <2>3. /\ run.pc = "publish" /\ me.current = 3 /\ me.task # None
      BY DEF Publish, Inv, InOrder, Coherent, Typed, Located, At, Publishing
  <2>4. None \in Numbers(models)
      BY DEF Inv, Typed, Values, None, Numbers
  <2>5. /\ me' \in MemoryType /\ me'.current = me.current /\ me'.input = me.input
        /\ me'.job = me.job /\ me'.task = me.task /\ me'.trained = me.trained
        /\ me'.source = me.task /\ me'.set = None /\ me'.id = None
        /\ me'.model = me.model /\ me'.target = me.target
        /\ me'.service = me.service
      BY <2>1, <2>3, <2>4 DEF Inv, Typed, Values, RunType, MemoryType
  <2>6. Values'
      BY <2>1, <2>2, <2>3, <2>4, <2>5, <1>3 DEF Inv, Typed, Values, RunType,
         ModelType, ServiceType, CountType, MemoryType, Numbers, None
  <2>7. Located' /\ Named'
      BY <2>1, <2>2, <2>3, <2>4, <2>5, <1>3 DEF Inv, Typed, Values, RunType, Located,
         Named, At, None, Training, Publishing, Deploying
  <2>8. InOrder'
      BY <2>1, <2>2, <2>3, <2>4, <2>5, <1>3 DEF Inv, Typed, Located, Named, InOrder,
         Coherent, Kept, At, None, Training, Publishing, Deploying
  <2>9. OneChain' /\ Serving'
      BY <2>1, <2>2, <2>3, <2>4, <2>5, <1>3 DEF Inv, Typed, Located, Named, InOrder,
         Coherent, OneChain, Serving, At, None, Training, Publishing, Deploying
  <2>10. Known' /\ Given'
      BY <2>1, <2>2, <2>3, <2>4, <2>5, <1>3 DEF Inv, Typed, Located, InOrder,
         Coherent, Known, Given, At, None, Training, Publishing, Deploying
  <2>. QED BY <2>6, <2>7, <2>8, <2>9, <2>10 DEF Inv, Typed
<1>. QED BY <1>1, <1>2, <1>3

LEMMA FindModelInv == Inv /\ FindModel => Inv'
<1> SUFFICES ASSUME Inv, FindModel PROVE Inv'
    OBVIOUS
<1> DEFINE m == IF me.id = None THEN me.set ELSE me.id
<1>1. /\ me' = [me EXCEPT !.id = m, !.source = models[m].task]
      /\ UNCHANGED <<tasks, models, services, file, strangers, counts>>
      /\ run' = [run EXCEPT !.pc = IF models[m].state = "ready" THEN "finished?"
                                 ELSE "findwait"]
    BY DEF FindModel, UnchangedMost, cloud, At, Goto
<1>2. /\ run.pc = "published?" /\ me.set # None
    BY DEF FindModel, At
<1>3. /\ DOMAIN models = 1 .. Len(models) /\ Len(models) \in Nat
      /\ me.id \in Numbers(models) /\ me.set \in Numbers(models)
    BY DEF Inv, Typed, Values, RunType, MemoryType
<1>4. /\ m \in DOMAIN models /\ m \in Numbers(models) /\ m # None
    BY <1>2, <1>3 DEF Numbers, None
<1>5. /\ models[m].task = me.task /\ me.task # None /\ me.current = 3
    BY <1>2, <1>4 DEF Inv, OneChain, InOrder, Coherent, Typed, Located, At,
       Publishing
<1>6. /\ run' \in RunType /\ run'.pc \in {"finished?", "findwait"}
      /\ run'.resuming = run.resuming
    BY <1>1 DEF Inv, Typed, Values, RunType, MemoryType, Labels
<1>7. /\ me' \in MemoryType /\ me'.current = me.current /\ me'.input = me.input
      /\ me'.job = me.job /\ me'.task = me.task /\ me'.trained = me.trained
      /\ me'.source = me.task /\ me'.set = me.set /\ me'.id = m
      /\ me'.model = me.model /\ me'.target = me.target
      /\ me'.service = me.service
    BY <1>1, <1>4, <1>5 DEF Inv, Typed, Values, RunType, MemoryType
<1> HIDE DEF m
<1>8. Values'
    BY <1>1, <1>2, <1>3, <1>4, <1>5, <1>6, <1>7 DEF Inv, Typed, Values, RunType,
       ModelType, ServiceType, CountType, MemoryType, Numbers, None
<1>9. Located' /\ Named'
    BY <1>1, <1>2, <1>3, <1>4, <1>5, <1>6, <1>7 DEF Inv, Typed, Values, RunType,
       Located, Named, At, None, Training, Publishing, Deploying
<1>10. InOrder'
    BY <1>1, <1>2, <1>3, <1>4, <1>5, <1>6, <1>7 DEF Inv, Typed, Located, Named,
       InOrder, Coherent, Kept, At, None, Training, Publishing, Deploying
<1>11. OneChain' /\ Serving'
    BY <1>1, <1>2, <1>3, <1>4, <1>5, <1>6, <1>7 DEF Inv, Typed, Located, Named,
       InOrder, Coherent, OneChain, Serving, At, None, Training, Publishing,
       Deploying
<1>12. Known' /\ Given'
    BY <1>1, <1>2, <1>3, <1>4, <1>5, <1>6, <1>7 DEF Inv, Typed, Located, InOrder,
       Coherent, Known, Given, At, None, Training, Publishing, Deploying
<1>. QED BY <1>8, <1>9, <1>10, <1>11, <1>12 DEF Inv, Typed

LEMMA FoundReadyInv == Inv /\ FoundReady => Inv'
<1> SUFFICES ASSUME Inv, FoundReady PROVE Inv'
    OBVIOUS
<1>1. /\ run' = [run EXCEPT !.pc = "finished?"]
      /\ UNCHANGED <<tasks, models, services, me, file, strangers, counts>>
    BY DEF FoundReady, UnchangedMost, cloud, At, Goto
<1>2. /\ run' \in RunType /\ run'.pc = "finished?"
      /\ run'.resuming = run.resuming
    BY <1>1 DEF Inv, Typed, Values, RunType, MemoryType, Labels
<1>3. run.pc = "findwait"
    BY <1>1 DEF Inv, Typed, Values, RunType, MemoryType, At, FoundReady,
       UnchangedMost, cloud, Goto
<1>4. Values'
    BY <1>1, <1>2, <1>3 DEF Inv, Typed, Values, RunType, ModelType, ServiceType,
       CountType, MemoryType, Numbers, None
<1>5. Located' /\ Named'
    BY <1>1, <1>2, <1>3 DEF Inv, Typed, Values, RunType, Located, Named, At, None,
       Training, Publishing, Deploying
<1>6. InOrder'
    BY <1>1, <1>2, <1>3 DEF Inv, Typed, Located, Named, InOrder, Coherent, Kept, At,
       None, Training, Publishing, Deploying
<1>7. OneChain' /\ Serving'
    BY <1>1, <1>2, <1>3 DEF Inv, Typed, Located, Named, InOrder, Coherent, OneChain,
       Serving, At, None, Training, Publishing, Deploying
<1>8. Known' /\ Given'
    BY <1>1, <1>2, <1>3 DEF Inv, Typed, Located, InOrder, Coherent, Known, Given,
       At, None, Training, Publishing, Deploying
<1>. QED BY <1>4, <1>5, <1>6, <1>7, <1>8 DEF Inv, Typed

LEMMA NoModelInv == Inv /\ NoModel => Inv'
<1> SUFFICES ASSUME Inv, NoModel PROVE Inv'
    OBVIOUS
<1>1. /\ run' = [run EXCEPT !.pc = "finished?"]
      /\ UNCHANGED <<tasks, models, services, me, file, strangers, counts>>
    BY DEF NoModel, UnchangedMost, cloud, At, Goto, LacksTask
<1>2. /\ run' \in RunType /\ run'.pc = "finished?"
      /\ run'.resuming = run.resuming
    BY <1>1 DEF Inv, Typed, Values, RunType, MemoryType, Labels
<1>3. /\ run.pc = "published?" /\ me.source # None
    BY <1>1 DEF Inv, Typed, Values, RunType, MemoryType, At, NoModel, UnchangedMost,
       cloud, Goto, LacksTask
<1>4. Values'
    BY <1>1, <1>2, <1>3 DEF Inv, Typed, Values, RunType, ModelType, ServiceType,
       CountType, MemoryType, Numbers, None
<1>5. Located' /\ Named'
    BY <1>1, <1>2, <1>3 DEF Inv, Typed, Values, RunType, Located, Named, At, None,
       Training, Publishing, Deploying
<1>6. InOrder'
    BY <1>1, <1>2, <1>3 DEF Inv, Typed, Located, Named, InOrder, Coherent, Kept, At,
       None, Training, Publishing, Deploying
<1>7. OneChain' /\ Serving'
    BY <1>1, <1>2, <1>3 DEF Inv, Typed, Located, Named, InOrder, Coherent, OneChain,
       Serving, At, None, Training, Publishing, Deploying
<1>8. Known' /\ Given'
    BY <1>1, <1>2, <1>3 DEF Inv, Typed, Located, InOrder, Coherent, Known, Given,
       At, None, Training, Publishing, Deploying
<1>. QED BY <1>4, <1>5, <1>6, <1>7, <1>8 DEF Inv, Typed

LEMMA TaskFinishedInv == Inv /\ TaskFinished => Inv'
<1> SUFFICES ASSUME Inv, TaskFinished PROVE Inv'
    OBVIOUS
<1>1. /\ run' = [run EXCEPT !.pc = "release"]
      /\ UNCHANGED <<tasks, models, services, me, file, strangers, counts>>
    BY DEF TaskFinished, UnchangedMost, cloud, At, Goto
<1>2. /\ run' \in RunType /\ run'.pc = "release" /\ run'.resuming = run.resuming
    BY <1>1 DEF Inv, Typed, Values, RunType, MemoryType, Labels
<1>3. /\ run.pc = "finished?" /\ tasks[me.source] = "finish"
    BY <1>1 DEF Inv, Typed, Values, RunType, MemoryType, At, TaskFinished,
       UnchangedMost, cloud, Goto
<1>4. Values'
    BY <1>1, <1>2, <1>3 DEF Inv, Typed, Values, RunType, ModelType, ServiceType,
       CountType, MemoryType, Numbers, None
<1>5. Located' /\ Named'
    BY <1>1, <1>2, <1>3 DEF Inv, Typed, Values, RunType, Located, Named, At, None,
       Training, Publishing, Deploying
<1>6. InOrder'
    BY <1>1, <1>2, <1>3 DEF Inv, Typed, Located, Named, InOrder, Coherent, Kept, At,
       None, Training, Publishing, Deploying
<1>7. OneChain' /\ Serving'
    BY <1>1, <1>2, <1>3 DEF Inv, Typed, Located, Named, InOrder, Coherent, OneChain,
       Serving, At, None, Training, Publishing, Deploying
<1>8. Known' /\ Given'
    BY <1>1, <1>2, <1>3 DEF Inv, Typed, Located, InOrder, Coherent, Known, Given,
       At, None, Training, Publishing, Deploying
<1>. QED BY <1>4, <1>5, <1>6, <1>7, <1>8 DEF Inv, Typed

LEMMA ReleaseInv == Inv /\ Release => Inv'
<1> SUFFICES ASSUME Inv, Release PROVE Inv'
    OBVIOUS
<1>1. /\ models' = Append(models, [task |-> me.source, state |-> "creating"])
      /\ me' = [me EXCEPT !.set = Len(models')]
      /\ run' = [run EXCEPT !.pc = "describe"]
      /\ UNCHANGED <<tasks, services, file, strangers, counts>>
    BY DEF Release, Goto
<1>2. /\ tasks \in Seq({"running", "finish", "fail"})
      /\ models \in Seq(ModelType) /\ services \in Seq(ServiceType)
    BY DEF Inv, Typed, Values
<1>3. /\ run.pc = "release" /\ me.current = 3 /\ me.source = me.task
      /\ me.task # None /\ tasks[me.task] = "finish" /\ me.trained /\ Kept
    BY DEF Release, Inv, InOrder, Coherent, Typed, Located, Named, At, Publishing
<1>4. me.task \in DOMAIN tasks
    BY <1>3, Ranges DEF Inv, None
<1>5. [task |-> me.source, state |-> "creating"] \in ModelType
    BY <1>3, <1>4 DEF ModelType
<1>6. /\ models' \in Seq(ModelType) /\ Len(models) \in Nat
      /\ Len(models') = Len(models) + 1 /\ DOMAIN models = 1 .. Len(models)
      /\ DOMAIN models' = 1 .. Len(models) + 1
      /\ \A m \in DOMAIN models : models'[m] = models[m]
      /\ models'[Len(models) + 1] = [task |-> me.source, state |-> "creating"]
    BY <1>1, <1>2, <1>5, Appended
<1>7. /\ MemoryType \subseteq MemoryType' /\ RunType \subseteq RunType'
    BY <1>1, <1>2, <1>6, TypesGrow
<1>8. /\ ServiceType \subseteq ServiceType' /\ ModelType' = ModelType
    BY <1>1, <1>6 DEF ModelType, ServiceType
<1>9. /\ models' \in Seq(ModelType') /\ services' \in Seq(ServiceType')
    BY <1>1, <1>2, <1>6, <1>8, SeqGrows
<1>10. /\ run' \in RunType' /\ run'.pc = "describe"
       /\ run'.resuming = run.resuming /\ run'.service = run.service
    BY <1>1, <1>7 DEF Inv, Typed, Values, RunType, MemoryType, Labels
<1>11. /\ me \in MemoryType' /\ file' \in MemoryType'
    BY <1>1, <1>7 DEF Inv, Typed, Values
<1>12. Len(models) + 1 \in Numbers(models)'
    BY <1>6 DEF Numbers
<1>13. /\ me' \in MemoryType' /\ me'.current = me.current /\ me'.input = me.input
       /\ me'.job = me.job /\ me'.task = me.task /\ me'.trained = me.trained
       /\ me'.source = me.source /\ me'.set = Len(models) + 1 /\ me'.id = me.id
       /\ me'.model = me.model /\ me'.target = me.target
       /\ me'.service = me.service
    BY <1>1, <1>6, <1>11, <1>12 DEF MemoryType
<1>14. /\ me.model \in 0 .. Len(models) /\ file.model \in 0 .. Len(models)
       /\ \A v \in DOMAIN services : services[v].model \in DOMAIN models
    BY Ranges DEF Inv
<1>15. /\ Coherent(me)' /\ Coherent(file)'
    BY <1>1, <1>6, <1>13, <1>14 DEF Inv, InOrder, Coherent, None
<1>16. Values'
    BY <1>1, <1>9, <1>10, <1>11, <1>13 DEF Inv, Typed, Values
<1>17. Located'
    BY <1>1, <1>3, <1>6, <1>10, <1>13, <1>14, <1>15 DEF Inv, Typed, Values, RunType,
       Located, Named, At, None, Training, Publishing, Deploying
<1>18. Named'
    BY <1>1, <1>3, <1>6, <1>10, <1>13, <1>14, <1>15 DEF Inv, Typed, Values, RunType,
       Located, Named, At, None, Training, Publishing, Deploying
<1>19. InOrder'
    BY <1>1, <1>3, <1>6, <1>10, <1>13, <1>14, <1>15 DEF Inv, Typed, Located, Named,
       InOrder, Kept, At, None, Training, Publishing, Deploying
<1>20. OneChain'
    BY <1>1, <1>3, <1>6, <1>10, <1>13, <1>14, <1>15 DEF Inv, Typed, Located, Named,
       InOrder, Coherent, OneChain, Serving, At, None, Training, Publishing,
       Deploying
<1>21. Serving'
    BY <1>1, <1>3, <1>6, <1>10, <1>13, <1>14, <1>15 DEF Inv, Typed, Located, Named,
       InOrder, Coherent, OneChain, Serving, At, None, Training, Publishing,
       Deploying
<1>22. Known'
    BY <1>1, <1>3, <1>6, <1>10, <1>13, <1>14, <1>15 DEF Inv, Typed, Located,
       InOrder, Coherent, Known, Given, At, None, Training, Publishing, Deploying
<1>23. Given'
    BY <1>1, <1>3, <1>6, <1>10, <1>13, <1>14, <1>15 DEF Inv, Typed, Located,
       InOrder, Coherent, Known, Given, At, None, Training, Publishing, Deploying
<1>. QED BY <1>16, <1>17, <1>18, <1>19, <1>20, <1>21, <1>22, <1>23 DEF Inv, Typed

LEMMA DescribeSetInv == Inv /\ DescribeSet => Inv'
<1> SUFFICES ASSUME Inv, DescribeSet PROVE Inv'
    OBVIOUS
<1>1. /\ run' = [run EXCEPT !.pc = "publishwait"]
      /\ me' = [me EXCEPT !.id = me.set]
      /\ UNCHANGED <<tasks, models, services, file, strangers, counts>>
    BY DEF DescribeSet, UnchangedMost, cloud, At, Goto
<1>2. /\ run' \in RunType /\ run'.pc = "publishwait"
      /\ run'.resuming = run.resuming
    BY <1>1 DEF Inv, Typed, Values, RunType, MemoryType, Labels
<1>3. run.pc = "describe"
    BY <1>1 DEF Inv, Typed, Values, RunType, MemoryType, At, DescribeSet,
       UnchangedMost, cloud, Goto
<1>4. /\ me' \in MemoryType /\ me'.current = me.current /\ me'.input = me.input
      /\ me'.job = me.job /\ me'.task = me.task /\ me'.trained = me.trained
      /\ me'.source = me.source /\ me'.set = me.set /\ me'.id = me.set
      /\ me'.model = me.model /\ me'.target = me.target
      /\ me'.service = me.service
    BY <1>1, <1>3 DEF Inv, Typed, Values, RunType, MemoryType, Numbers, Located, At,
       Training, Publishing, Deploying
<1>5. Values'
    BY <1>1, <1>2, <1>3, <1>4 DEF Inv, Typed, Values, RunType, ModelType,
       ServiceType, CountType, MemoryType, Numbers, None
<1>6. Located' /\ Named'
    BY <1>1, <1>2, <1>3, <1>4 DEF Inv, Typed, Values, RunType, Located, Named, At,
       None, Training, Publishing, Deploying
<1>7. InOrder'
    BY <1>1, <1>2, <1>3, <1>4 DEF Inv, Typed, Located, Named, InOrder, Coherent,
       Kept, At, None, Training, Publishing, Deploying
<1>8. OneChain' /\ Serving'
    BY <1>1, <1>2, <1>3, <1>4 DEF Inv, Typed, Located, Named, InOrder, Coherent,
       OneChain, Serving, At, None, Training, Publishing, Deploying
<1>9. Known' /\ Given'
    BY <1>1, <1>2, <1>3, <1>4 DEF Inv, Typed, Located, InOrder, Coherent, Known,
       Given, At, None, Training, Publishing, Deploying
<1>. QED BY <1>5, <1>6, <1>7, <1>8, <1>9 DEF Inv, Typed

LEMMA PublishedInv == Inv /\ Published => Inv'
<1> SUFFICES ASSUME Inv, Published PROVE Inv'
    OBVIOUS
<1>1. /\ me' = [me EXCEPT !.model = me.id, !.object = TRUE]
      /\ UNCHANGED <<tasks, models, services, file, strangers, counts>>
    BY DEF Published, UnchangedMost, cloud, At, Goto
<1>2. /\ run' \in RunType /\ ~ run'.resuming /\ run'.pc \in {"save", "return"}
    BY DoneRun DEF Inv, Published, UnchangedMost, cloud, At, Goto
<1>3. /\ run.pc = "publishwait" /\ models[me.id].state = "ready"
    BY <1>1 DEF Inv, Typed, Values, RunType, MemoryType, At, Published,
       UnchangedMost, cloud, Goto
<1>4. /\ me' \in MemoryType /\ me'.current = me.current /\ me'.input = me.input
      /\ me'.job = me.job /\ me'.task = me.task /\ me'.trained = me.trained
      /\ me'.source = me.source /\ me'.set = me.set /\ me'.id = me.id
      /\ me'.model = me.id /\ me'.target = me.target /\ me'.service = me.service
    BY <1>1, <1>3 DEF Inv, Typed, Values, RunType, MemoryType, Numbers, Located, At,
       Training, Publishing, Deploying
<1>5. Values'
    BY <1>1, <1>2, <1>3, <1>4 DEF Inv, Typed, Values, RunType, ModelType,
       ServiceType, CountType, MemoryType, Numbers, None
<1>6. Located' /\ Named'
    BY <1>1, <1>2, <1>3, <1>4 DEF Inv, Typed, Values, RunType, Located, Named, At,
       None, Training, Publishing, Deploying
<1>7. InOrder'
    BY <1>1, <1>2, <1>3, <1>4 DEF Inv, Typed, Located, Named, InOrder, Coherent,
       Kept, At, None, Training, Publishing, Deploying
<1>8. OneChain' /\ Serving'
    BY <1>1, <1>2, <1>3, <1>4 DEF Inv, Typed, Located, Named, InOrder, Coherent,
       OneChain, Serving, At, None, Training, Publishing, Deploying
<1>9. Known' /\ Given'
    BY <1>1, <1>2, <1>3, <1>4 DEF Inv, Typed, Located, InOrder, Coherent, Known,
       Given, At, None, Training, Publishing, Deploying
<1>. QED BY <1>5, <1>6, <1>7, <1>8, <1>9 DEF Inv, Typed

LEMMA DeployInv == Inv /\ Deploy => Inv'
<1> SUFFICES ASSUME Inv, Deploy PROVE Inv'
    OBVIOUS
<1>1. /\ run.pc = "deploy" /\ me.current = 4
      /\ me' = IF ~ run.resuming
               THEN [me EXCEPT !.target = me.model, !.named = ~ me.object]
               ELSE [me EXCEPT !.service = IF me.named THEN None ELSE me.service]
      /\ me'.target # None
      /\ Done \/ run' = [run EXCEPT !.pc = "launch"]
      /\ UNCHANGED <<tasks, models, services, file, strangers, counts>>
    BY DEF Deploy, TakeModel, UnchangedMost, cloud, At, Goto, Inv, Typed, Located, Deploying
<1>2. None \in Numbers(services)
    BY DEF Inv, Typed, Values, None, Numbers
<1>3. /\ me' \in MemoryType /\ me'.current = me.current /\ me'.input = me.input
      /\ me'.job = me.job /\ me'.task = me.task /\ me'.trained = me.trained
      /\ me'.source = me.source /\ me'.set = me.set /\ me'.id = me.id
      /\ me'.model = me.model /\ me'.target \in {me.target, me.model}
      /\ me'.service \in {me.service, None}
    BY <1>1, <1>2 DEF Inv, Typed, Values, RunType, MemoryType
<1>4. /\ run' \in RunType
      /\ \/ run'.pc \in {"save", "return"} /\ ~ run'.resuming
         \/ run'.pc = "launch"
    BY <1>1, DoneRun DEF Inv, Typed, Values, RunType, MemoryType, Labels
<1>5. Values'
    BY <1>1, <1>2, <1>3, <1>4 DEF Inv, Typed, Values, RunType, ModelType,
       ServiceType, CountType, MemoryType, Numbers, None
<1>6. Located' /\ Named'
    BY <1>1, <1>2, <1>3, <1>4 DEF Inv, Typed, Values, RunType, Located, Named, At,
       None, Training, Publishing, Deploying
<1>7. InOrder'
    BY <1>1, <1>2, <1>3, <1>4 DEF Inv, Typed, Located, Named, InOrder, Coherent,
       Kept, At, None, Training, Publishing, Deploying
<1>8. OneChain' /\ Serving'
    BY <1>1, <1>2, <1>3, <1>4 DEF Inv, Typed, Located, Named, InOrder, Coherent,
       OneChain, Serving, At, None, Training, Publishing, Deploying
<1>9. Known' /\ Given'
    BY <1>1, <1>2, <1>3, <1>4 DEF Inv, Typed, Located, InOrder, Coherent, Known,
       Given, At, None, Training, Publishing, Deploying
<1>. QED BY <1>5, <1>6, <1>7, <1>8, <1>9 DEF Inv, Typed

LEMMA CreateServiceInv == Inv /\ CreateService => Inv'
<1> SUFFICES ASSUME Inv, CreateService PROVE Inv'
    OBVIOUS
<1>1. /\ services' = Append(services, [model |-> me.target, state |-> "new"])
      /\ run' = [run EXCEPT !.pc = "deploywait", !.service = Len(services')]
      /\ UNCHANGED <<tasks, models, me, file, strangers, counts>>
    BY DEF CreateService
<1>2. /\ tasks \in Seq({"running", "finish", "fail"})
      /\ models \in Seq(ModelType) /\ services \in Seq(ServiceType)
    BY DEF Inv, Typed, Values
<1>3. /\ run.pc = "launch" /\ me.current = 4 /\ me.target # None
    BY DEF CreateService, Inv, Typed, Located, Named, At, Deploying
<1>4. /\ me.target \in DOMAIN models /\ me.target = me.model
      /\ models[me.target].state = "ready"
    BY <1>3, Ranges DEF Inv, None, OneChain, InOrder, Coherent
<1>5. [model |-> me.target, state |-> "new"] \in ServiceType
    BY <1>4 DEF ServiceType
<1>6. /\ services' \in Seq(ServiceType) /\ Len(services) \in Nat
      /\ Len(services') = Len(services) + 1
      /\ DOMAIN services = 1 .. Len(services)
      /\ DOMAIN services' = 1 .. Len(services) + 1
      /\ \A v \in DOMAIN services : services'[v] = services[v]
      /\ services'[Len(services) + 1] = [model |-> me.target, state |-> "new"]
    BY <1>1, <1>2, <1>5, Appended
<1>7. /\ MemoryType \subseteq MemoryType' /\ RunType \subseteq RunType'
    BY <1>1, <1>2, <1>6, TypesGrow
<1>8. /\ ServiceType' = ServiceType /\ ModelType' = ModelType
    BY <1>1 DEF ModelType, ServiceType
<1>9. /\ run \in RunType' /\ Len(services) + 1 \in Numbers(services)'
    BY <1>6, <1>7 DEF Inv, Typed, Values, Numbers
<1>10. /\ run' \in RunType' /\ run'.pc = "deploywait"
       /\ run'.resuming = run.resuming /\ run'.service = Len(services) + 1
    BY <1>1, <1>6, <1>9 DEF RunType, Labels
<1>11. /\ me' \in MemoryType' /\ file' \in MemoryType'
    BY <1>1, <1>7 DEF Inv, Typed, Values
<1>12. me.service \in 0 .. Len(services)
    BY Ranges DEF Inv
<1>13. /\ Coherent(me)' /\ Coherent(file)'
    BY <1>1 DEF Inv, InOrder, Coherent, None
<1>14. Values'
    BY <1>1, <1>2, <1>6, <1>8, <1>10, <1>11 DEF Inv, Typed, Values
<1>15. Located'
    BY <1>1, <1>3, <1>4, <1>6, <1>10, <1>12, <1>13 DEF Inv, Typed, Values, RunType,
       Located, Named, At, None, Training, Publishing, Deploying
<1>16. Named'
    BY <1>1, <1>3, <1>4, <1>6, <1>10, <1>12, <1>13 DEF Inv, Typed, Values, RunType,
       Located, Named, At, None, Training, Publishing, Deploying
<1>17. InOrder'
    BY <1>1, <1>3, <1>4, <1>6, <1>10, <1>12, <1>13 DEF Inv, Typed, Located, Named,
       InOrder, Kept, At, None, Training, Publishing, Deploying
<1>18. OneChain'
    BY <1>1, <1>3, <1>4, <1>6, <1>10, <1>12, <1>13 DEF Inv, Typed, Located, Named,
       InOrder, Coherent, OneChain, Serving, At, None, Training, Publishing,
       Deploying
<1>19. Serving'
    BY <1>1, <1>3, <1>4, <1>6, <1>10, <1>12, <1>13 DEF Inv, Typed, Located, Named,
       InOrder, Coherent, OneChain, Serving, At, None, Training, Publishing,
       Deploying
<1>20. Known'
    BY <1>1, <1>3, <1>4, <1>6, <1>10, <1>12, <1>13 DEF Inv, Typed, Located, InOrder,
       Coherent, Known, Given, At, None, Training, Publishing, Deploying
<1>21. Given'
    BY <1>1, <1>3, <1>4, <1>6, <1>10, <1>12, <1>13 DEF Inv, Typed, Located, InOrder,
       Coherent, Known, Given, At, None, Training, Publishing, Deploying
<1>. QED BY <1>14, <1>15, <1>16, <1>17, <1>18, <1>19, <1>20, <1>21 DEF Inv, Typed

LEMMA DeployedInv == Inv /\ Deployed => Inv'
<1> SUFFICES ASSUME Inv, Deployed PROVE Inv'
    OBVIOUS
<1>1. /\ me' = [me EXCEPT !.service = run.service]
      /\ UNCHANGED <<tasks, models, services, file, strangers, counts>>
    BY DEF Deployed, UnchangedMost, cloud, At, Goto
<1>2. /\ run' \in RunType /\ ~ run'.resuming /\ run'.pc \in {"save", "return"}
    BY DoneRun DEF Inv, Deployed, UnchangedMost, cloud, At, Goto
<1>3. run.pc = "deploywait"
    BY <1>1 DEF Inv, Typed, Values, RunType, MemoryType, At, Deployed,
       UnchangedMost, cloud, Goto
<1>4. /\ me' \in MemoryType /\ me'.current = me.current /\ me'.input = me.input
      /\ me'.job = me.job /\ me'.task = me.task /\ me'.trained = me.trained
      /\ me'.source = me.source /\ me'.set = me.set /\ me'.id = me.id
      /\ me'.model = me.model /\ me'.target = me.target
      /\ me'.service = run.service
    BY <1>1, <1>3 DEF Inv, Typed, Values, RunType, MemoryType, Numbers, Located, At,
       Training, Publishing, Deploying
<1>5. Values'
    BY <1>1, <1>2, <1>3, <1>4 DEF Inv, Typed, Values, RunType, ModelType,
       ServiceType, CountType, MemoryType, Numbers, None
<1>6. Located' /\ Named'
    BY <1>1, <1>2, <1>3, <1>4 DEF Inv, Typed, Values, RunType, Located, Named, At,
       None, Training, Publishing, Deploying
<1>7. InOrder'
    BY <1>1, <1>2, <1>3, <1>4 DEF Inv, Typed, Located, Named, InOrder, Coherent,
       Kept, At, None, Training, Publishing, Deploying
<1>8. OneChain' /\ Serving'
    BY <1>1, <1>2, <1>3, <1>4 DEF Inv, Typed, Located, Named, InOrder, Coherent,
       OneChain, Serving, At, None, Training, Publishing, Deploying
<1>9. Known' /\ Given'
    BY <1>1, <1>2, <1>3, <1>4 DEF Inv, Typed, Located, InOrder, Coherent, Known,
       Given, At, None, Training, Publishing, Deploying
<1>. QED BY <1>5, <1>6, <1>7, <1>8, <1>9 DEF Inv, Typed

-----------------------------------------------------------------------------
(* What goes wrong.                                                         *)

LEMMA RaiseInv == Inv /\ Raise => Inv'
<1> SUFFICES ASSUME Inv, Raise PROVE Inv'
    OBVIOUS
<1>1. UNCHANGED <<tasks, models, services, me, file, strangers, counts>>
    BY DEF Raise, UnchangedMost, cloud, At, Goto, Failed, LacksInput, LacksTask,
       LacksModel
<1>2. /\ run' \in RunType /\ ~ run'.resuming /\ run'.pc = "idle"
    BY EndRun DEF Inv, Raise, UnchangedMost, cloud, At, Goto, Failed, LacksInput,
       LacksTask, LacksModel
<1>3. /\ ~ (run.pc = "train" /\ ~ run.resuming) /\ run.pc # "publish"
      /\ ~ (run.pc = "deploy" /\ ~ run.resuming)
    BY <1>1 DEF Inv, Typed, Values, RunType, MemoryType, At, Raise, UnchangedMost,
       cloud, Goto, Failed, LacksInput, LacksTask, LacksModel
<1>4. Values'
    BY <1>1, <1>2, <1>3 DEF Inv, Typed, Values, RunType, ModelType, ServiceType,
       CountType, MemoryType, Numbers, None
<1>5. Located' /\ Named'
    BY <1>1, <1>2, <1>3 DEF Inv, Typed, Values, RunType, Located, Named, At, None,
       Training, Publishing, Deploying
<1>6. InOrder'
    BY <1>1, <1>2, <1>3 DEF Inv, Typed, Located, Named, InOrder, Coherent, Kept, At,
       None, Training, Publishing, Deploying
<1>7. OneChain' /\ Serving'
    BY <1>1, <1>2, <1>3 DEF Inv, Typed, Located, Named, InOrder, Coherent, OneChain,
       Serving, At, None, Training, Publishing, Deploying
<1>8. Known' /\ Given'
    BY <1>1, <1>2, <1>3 DEF Inv, Typed, Located, InOrder, Coherent, Known, Given,
       At, None, Training, Publishing, Deploying
<1>. QED BY <1>4, <1>5, <1>6, <1>7, <1>8 DEF Inv, Typed

LEMMA RequestFailsInv == Inv /\ RequestFails => Inv'
<1> SUFFICES ASSUME Inv, RequestFails PROVE Inv'
    OBVIOUS
<1>1. /\ counts' = [counts EXCEPT !.trouble = @ + 1]
      /\ UNCHANGED <<tasks, models, services, me, file, strangers>>
    BY DEF RequestFails, UnchangedMost, cloud, At, Goto, Trouble
<1>2. /\ run' \in RunType /\ ~ run'.resuming /\ run'.pc = "idle"
    BY EndRun DEF Inv, RequestFails, UnchangedMost, cloud, At, Goto, Trouble
<1>3. run.pc \notin {"train", "publish", "deploy"}
    BY <1>1 DEF Inv, Typed, Values, RunType, MemoryType, At, RequestFails,
       UnchangedMost, cloud, Goto, Trouble
<1>4. counts \in CountType
    BY DEF Inv, Typed, Values
<1>5. /\ counts' \in CountType /\ counts'.crashes = counts.crashes
    BY <1>1, <1>4 DEF CountType
<1>6. Values'
    BY <1>1, <1>2, <1>3, <1>4, <1>5 DEF Inv, Typed, Values, RunType, ModelType,
       ServiceType, CountType, MemoryType, Numbers, None
<1>7. Located' /\ Named'
    BY <1>1, <1>2, <1>3, <1>4, <1>5 DEF Inv, Typed, Values, RunType, Located, Named,
       At, None, Training, Publishing, Deploying
<1>8. InOrder'
    BY <1>1, <1>2, <1>3, <1>4, <1>5 DEF Inv, Typed, Located, Named, InOrder,
       Coherent, Kept, At, None, Training, Publishing, Deploying
<1>9. OneChain' /\ Serving'
    BY <1>1, <1>2, <1>3, <1>4, <1>5 DEF Inv, Typed, Located, Named, InOrder,
       Coherent, OneChain, Serving, At, None, Training, Publishing, Deploying
<1>10. Known' /\ Given'
    BY <1>1, <1>2, <1>3, <1>4, <1>5 DEF Inv, Typed, Located, InOrder, Coherent,
       Known, Given, At, None, Training, Publishing, Deploying
<1>. QED BY <1>6, <1>7, <1>8, <1>9, <1>10 DEF Inv, Typed

LEMMA FindFailsInv == Inv /\ FindFails => Inv'
<1> SUFFICES ASSUME Inv, FindFails PROVE Inv'
    OBVIOUS
<1>1. /\ run.pc = "published?" /\ me.set # None /\ me.current = 3
      /\ me' = [me EXCEPT !.id = me.set]
      /\ counts' = [counts EXCEPT !.trouble = @ + 1]
      /\ UNCHANGED <<tasks, models, services, file, strangers>>
    BY DEF FindFails, Trouble, cloud, At, Inv, Typed, Located, Publishing
<1>2. /\ run' \in RunType /\ ~ run'.resuming /\ run'.pc = "idle"
    BY EndRun DEF Inv, FindFails, Trouble
<1>3. /\ me' \in MemoryType /\ me'.current = me.current /\ me'.input = me.input
      /\ me'.job = me.job /\ me'.task = me.task /\ me'.trained = me.trained
      /\ me'.source = me.source /\ me'.set = me.set /\ me'.id = me.set
      /\ me'.model = me.model /\ me'.target = me.target /\ me'.service = me.service
    BY <1>1 DEF Inv, Typed, Values, MemoryType
<1>4. counts' \in CountType /\ counts'.crashes = counts.crashes
  <2>1. counts \in CountType
    BY DEF Inv, Typed, Values
  <2>. QED BY <1>1, <2>1 DEF CountType
<1>5. Values'
    BY <1>1, <1>2, <1>3, <1>4 DEF Inv, Typed, Values, RunType, ModelType, ServiceType,
       CountType, MemoryType, Numbers, None
<1>6. Located' /\ Named'
    BY <1>1, <1>2, <1>3 DEF Inv, Typed, Located, Named, At, None, Training, Publishing,
       Deploying
<1>7. InOrder'
    BY <1>1, <1>2, <1>3 DEF Inv, InOrder, Coherent, Kept, At, None, Training
<1>8. OneChain' /\ Serving'
    BY <1>1, <1>2, <1>3 DEF Inv, OneChain, Serving, At, None
<1>9. Known' /\ Given'
    BY <1>1, <1>2, <1>3, <1>4 DEF Inv, Known, Given, At, None
<1>. QED BY <1>5, <1>6, <1>7, <1>8, <1>9 DEF Inv, Typed

LEMMA DeployFailsInv == Inv /\ DeployFails => Inv'
<1> SUFFICES ASSUME Inv, DeployFails PROVE Inv'
    OBVIOUS
<1>1. /\ run.pc = "deploy" /\ me.current = 4
      /\ me' = IF ~ run.resuming
               THEN [me EXCEPT !.target = me.model, !.named = ~ me.object]
               ELSE [me EXCEPT !.service = IF me.named THEN None ELSE me.service]
      /\ me'.target # None
      /\ counts' = [counts EXCEPT !.trouble = @ + 1]
      /\ UNCHANGED <<tasks, models, services, file, strangers>>
    BY DEF DeployFails, TakeModel, Trouble, cloud, At, Inv, Typed, Located, Deploying
<1>2. /\ run' \in RunType /\ ~ run'.resuming /\ run'.pc = "idle"
    BY EndRun DEF Inv, DeployFails, Trouble
<1>3. None \in Numbers(services)
    BY DEF Inv, Typed, Values, None, Numbers
<1>4. /\ me' \in MemoryType /\ me'.current = me.current /\ me'.input = me.input
      /\ me'.job = me.job /\ me'.task = me.task /\ me'.trained = me.trained
      /\ me'.source = me.source /\ me'.set = me.set /\ me'.id = me.id
      /\ me'.model = me.model /\ me'.target \in {me.target, me.model}
      /\ me'.service \in {me.service, None}
    BY <1>1, <1>3 DEF Inv, Typed, Values, RunType, MemoryType
<1>5. counts' \in CountType /\ counts'.crashes = counts.crashes
  <2>1. counts \in CountType
    BY DEF Inv, Typed, Values
  <2>. QED BY <1>1, <2>1 DEF CountType
<1>6. Values'
    BY <1>1, <1>2, <1>4, <1>5 DEF Inv, Typed, Values, RunType, ModelType, ServiceType,
       CountType, MemoryType, Numbers, None
<1>7. Located' /\ Named'
    BY <1>1, <1>2, <1>4 DEF Inv, Typed, Located, Named, At, None, Training, Publishing,
       Deploying
<1>8. InOrder'
    BY <1>1, <1>2, <1>4 DEF Inv, InOrder, Coherent, Kept, At, None, Training
<1>9. OneChain' /\ Serving'
    BY <1>1, <1>2, <1>4 DEF Inv, OneChain, Serving, At, None
<1>10. Known' /\ Given'
    BY <1>1, <1>2, <1>4, <1>5 DEF Inv, Known, Given, At, None
<1>. QED BY <1>6, <1>7, <1>8, <1>9, <1>10 DEF Inv, Typed

LEMMA AnswerLostInv == Inv /\ AnswerLost => Inv'
<1> SUFFICES ASSUME Inv, AnswerLost PROVE Inv'
    OBVIOUS
<1>1. /\ End
      /\ counts' = [counts EXCEPT !.trouble = @ + 1]
      /\ UNCHANGED <<me, file>>
    BY DEF AnswerLost, Trouble
<1>2. counts' \in CountType /\ counts'.crashes = counts.crashes
  <2>1. counts \in CountType
    BY DEF Inv, Typed, Values
  <2>. QED BY <1>1, <2>1 DEF CountType
<1>3. CASE /\ At("submit")
           /\ tasks' = Append(tasks, "running")
           /\ strangers' = strangers \cup {Len(tasks')}
           /\ UNCHANGED <<models, services>>
  <2>1. /\ tasks \in Seq({"running", "finish", "fail"})
        /\ models \in Seq(ModelType) /\ services \in Seq(ServiceType)
        /\ run' \in RunType /\ ~ run'.resuming /\ run'.pc = "idle"
      BY EndRun, <1>1 DEF Inv, Typed, Values
  <2>2. /\ tasks' \in Seq({"running", "finish", "fail"}) /\ Len(tasks) \in Nat
        /\ Len(tasks') = Len(tasks) + 1 /\ DOMAIN tasks = 1 .. Len(tasks)
        /\ DOMAIN tasks' = 1 .. Len(tasks) + 1
        /\ \A t \in DOMAIN tasks : tasks'[t] = tasks[t]
      BY <2>1, <1>3, Appended
  <2>3. /\ MemoryType \subseteq MemoryType' /\ RunType \subseteq RunType'
      BY <2>1, <2>2, <1>3, TypesGrow
  <2>4. /\ ModelType \subseteq ModelType' /\ ServiceType' = ServiceType
      BY <2>2, <1>3 DEF ModelType, ServiceType
  <2>5. /\ models' \in Seq(ModelType') /\ services' \in Seq(ServiceType')
      BY <2>1, <2>4, <1>3, SeqGrows
  <2>6. /\ me' \in MemoryType' /\ file' \in MemoryType' /\ run' \in RunType'
      BY <2>1, <2>3, <1>1 DEF Inv, Typed, Values
  <2>7. /\ me.task \in 0 .. Len(tasks) /\ file.task \in 0 .. Len(tasks)
      BY Ranges DEF Inv
  <2>8. /\ strangers' \subseteq DOMAIN tasks' /\ strangers \subseteq strangers'
      BY <2>2, <1>3 DEF Inv, Typed, Values
  <2>9. /\ models = <<>> /\ me.current = 2 /\ run.pc = "submit"
      BY <1>3 DEF Inv, Typed, Located, InOrder, At, Training
  <2>10. /\ Coherent(me)' /\ Coherent(file)'
      BY <1>1, <1>3, <2>2, <2>7 DEF Inv, InOrder, Coherent, None
  <2>11. Values'
      BY <2>2, <2>5, <2>6, <2>8, <1>1, <1>2, <1>3 DEF Inv, Typed, Values
  <2>12. Located'
      BY <2>1, <2>2, <2>7, <2>8, <2>9, <2>10, <1>1, <1>2, <1>3 DEF Inv, Typed, Values,
         RunType, Located, Named, At, None, Training, Publishing, Deploying
  <2>13. Named'
      BY <2>1, <2>2, <2>7, <2>8, <2>9, <2>10, <1>1, <1>2, <1>3 DEF Inv, Typed, Values,
         RunType, Located, Named, At, None, Training, Publishing, Deploying
  <2>14. InOrder'
      BY <2>1, <2>2, <2>7, <2>8, <2>9, <2>10, <1>1, <1>2, <1>3 DEF Inv, Typed,
         Located, Named, InOrder, Kept, At, None, Training, Publishing, Deploying
  <2>15. OneChain'
      BY <2>1, <2>2, <2>7, <2>8, <2>9, <2>10, <1>1, <1>2, <1>3 DEF Inv, Typed,
         Located, Named, InOrder, Coherent, OneChain, Serving, At, None, Training,
         Publishing, Deploying
  <2>16. Serving'
      BY <2>1, <2>2, <2>7, <2>8, <2>9, <2>10, <1>1, <1>2, <1>3 DEF Inv, Typed,
         Located, Named, InOrder, Coherent, OneChain, Serving, At, None, Training,
         Publishing, Deploying
  <2>17. Known'
      BY <2>1, <2>2, <2>7, <2>8, <2>9, <2>10, <1>1, <1>2, <1>3 DEF Inv, Typed,
         Located, InOrder, Coherent, Known, Given, At, None, Training, Publishing,
         Deploying
  <2>18. Given'
      BY <2>1, <2>2, <2>7, <2>8, <2>9, <2>10, <1>1, <1>2, <1>3 DEF Inv, Typed,
         Located, InOrder, Coherent, Known, Given, At, None, Training, Publishing,
         Deploying
  <2>. QED BY <2>11, <2>12, <2>13, <2>14, <2>15, <2>16, <2>17, <2>18 DEF Inv, Typed
<1>4. CASE /\ At("release")
           /\ models' = Append(models, [task |-> me.source, state |-> "creating"])
           /\ UNCHANGED <<tasks, services, strangers>>
  <2>1. /\ tasks \in Seq({"running", "finish", "fail"})
        /\ models \in Seq(ModelType) /\ services \in Seq(ServiceType)
        /\ run' \in RunType /\ ~ run'.resuming /\ run'.pc = "idle"
      BY EndRun, <1>1 DEF Inv, Typed, Values
  <2>2. /\ run.pc = "release" /\ me.current = 3 /\ me.source = me.task
        /\ me.task # None /\ tasks[me.task] = "finish" /\ me.trained /\ Kept
      BY <1>4 DEF Inv, InOrder, Coherent, Typed, Located, Named, At, Publishing
  <2>3. me.task \in DOMAIN tasks
      BY <2>2, Ranges DEF Inv, None
  <2>4. [task |-> me.source, state |-> "creating"] \in ModelType
      BY <2>2, <2>3 DEF ModelType
  <2>5. /\ models' \in Seq(ModelType) /\ Len(models) \in Nat
        /\ Len(models') = Len(models) + 1 /\ DOMAIN models = 1 .. Len(models)
        /\ DOMAIN models' = 1 .. Len(models) + 1
        /\ \A m \in DOMAIN models : models'[m] = models[m]
        /\ models'[Len(models) + 1] = [task |-> me.source, state |-> "creating"]
      BY <2>1, <2>4, <1>4, Appended
  <2>6. /\ MemoryType \subseteq MemoryType' /\ RunType \subseteq RunType'
      BY <2>1, <2>5, <1>4, TypesGrow
  <2>7. /\ ServiceType \subseteq ServiceType' /\ ModelType' = ModelType
      BY <2>5, <1>4 DEF ModelType, ServiceType
  <2>8. /\ models' \in Seq(ModelType') /\ services' \in Seq(ServiceType')
      BY <2>1, <2>5, <2>7, <1>4, SeqGrows
  <2>9. /\ me' \in MemoryType' /\ file' \in MemoryType' /\ run' \in RunType'
      BY <2>1, <2>6, <1>1 DEF Inv, Typed, Values
  <2>10. /\ me.model \in 0 .. Len(models) /\ file.model \in 0 .. Len(models)
         /\ \A v \in DOMAIN services : services[v].model \in DOMAIN models
      BY Ranges DEF Inv
  <2>11. /\ Coherent(me)' /\ Coherent(file)'
      BY <1>1, <1>4, <2>5, <2>10 DEF Inv, InOrder, Coherent, None
  <2>12. Values'
      BY <2>1, <2>8, <2>9, <1>1, <1>2, <1>4 DEF Inv, Typed, Values
  <2>13. Located'
      BY <2>1, <2>2, <2>5, <2>10, <2>11, <1>1, <1>2, <1>4 DEF Inv, Typed, Values,
         RunType, Located, Named, At, None, Training, Publishing, Deploying
  <2>14. Named'
      BY <2>1, <2>2, <2>5, <2>10, <2>11, <1>1, <1>2, <1>4 DEF Inv, Typed, Values,
         RunType, Located, Named, At, None, Training, Publishing, Deploying
  <2>15. InOrder'
      BY <2>1, <2>2, <2>5, <2>10, <2>11, <1>1, <1>2, <1>4 DEF Inv, Typed, Located,
         Named, InOrder, Kept, At, None, Training, Publishing, Deploying
  <2>16. OneChain'
      BY <2>1, <2>2, <2>5, <2>10, <2>11, <1>1, <1>2, <1>4 DEF Inv, Typed, Located,
         Named, InOrder, Coherent, OneChain, Serving, At, None, Training, Publishing,
         Deploying
  <2>17. Serving'
      BY <2>1, <2>2, <2>5, <2>10, <2>11, <1>1, <1>2, <1>4 DEF Inv, Typed, Located,
         Named, InOrder, Coherent, OneChain, Serving, At, None, Training, Publishing,
         Deploying
  <2>18. Known'
      BY <2>1, <2>2, <2>5, <2>10, <2>11, <1>1, <1>2, <1>4 DEF Inv, Typed, Located,
         InOrder, Coherent, Known, Given, At, None, Training, Publishing, Deploying
  <2>19. Given'
      BY <2>1, <2>2, <2>5, <2>10, <2>11, <1>1, <1>2, <1>4 DEF Inv, Typed, Located,
         InOrder, Coherent, Known, Given, At, None, Training, Publishing, Deploying
  <2>. QED BY <2>12, <2>13, <2>14, <2>15, <2>16, <2>17, <2>18, <2>19 DEF Inv, Typed
<1>5. CASE /\ At("launch")
           /\ services' = Append(services, [model |-> me.target, state |-> "new"])
           /\ UNCHANGED <<tasks, models, strangers>>
  <2>1. /\ tasks \in Seq({"running", "finish", "fail"})
        /\ models \in Seq(ModelType) /\ services \in Seq(ServiceType)
        /\ run' \in RunType /\ ~ run'.resuming /\ run'.pc = "idle"
      BY EndRun, <1>1 DEF Inv, Typed, Values
  <2>2. /\ run.pc = "launch" /\ me.current = 4 /\ me.target # None
      BY <1>5 DEF Inv, Typed, Located, Named, At, Deploying
  <2>3. /\ me.target \in DOMAIN models /\ me.target = me.model
        /\ models[me.target].state = "ready"
      BY <2>2, Ranges DEF Inv, None, OneChain, InOrder, Coherent
  <2>4. [model |-> me.target, state |-> "new"] \in ServiceType
      BY <2>3 DEF ServiceType
  <2>5. /\ services' \in Seq(ServiceType) /\ Len(services) \in Nat
        /\ Len(services') = Len(services) + 1
        /\ DOMAIN services = 1 .. Len(services)
        /\ DOMAIN services' = 1 .. Len(services) + 1
        /\ \A v \in DOMAIN services : services'[v] = services[v]
        /\ services'[Len(services) + 1] = [model |-> me.target, state |-> "new"]
      BY <2>1, <2>4, <1>5, Appended
  <2>6. /\ MemoryType \subseteq MemoryType' /\ RunType \subseteq RunType'
      BY <2>1, <2>5, <1>5, TypesGrow
  <2>7. /\ ServiceType' = ServiceType /\ ModelType' = ModelType
      BY <1>5 DEF ModelType, ServiceType
  <2>8. /\ me' \in MemoryType' /\ file' \in MemoryType' /\ run' \in RunType'
      BY <2>1, <2>6, <1>1 DEF Inv, Typed, Values
  <2>9. me.service \in 0 .. Len(services)
      BY Ranges DEF Inv
  <2>10. /\ Coherent(me)' /\ Coherent(file)'
      BY <1>1, <1>5 DEF Inv, InOrder, Coherent, None
  <2>11. Values'
      BY <2>1, <2>5, <2>7, <2>8, <1>1, <1>2, <1>5 DEF Inv, Typed, Values
  <2>12. Located'
      BY <2>1, <2>2, <2>3, <2>5, <2>9, <2>10, <1>1, <1>2, <1>5 DEF Inv, Typed, Values,
         RunType, Located, Named, At, None, Training, Publishing, Deploying
  <2>13. Named'
      BY <2>1, <2>2, <2>3, <2>5, <2>9, <2>10, <1>1, <1>2, <1>5 DEF Inv, Typed, Values,
         RunType, Located, Named, At, None, Training, Publishing, Deploying
  <2>14. InOrder'
      BY <2>1, <2>2, <2>3, <2>5, <2>9, <2>10, <1>1, <1>2, <1>5 DEF Inv, Typed,
         Located, Named, InOrder, Kept, At, None, Training, Publishing, Deploying
  <2>15. OneChain'
      BY <2>1, <2>2, <2>3, <2>5, <2>9, <2>10, <1>1, <1>2, <1>5 DEF Inv, Typed,
         Located, Named, InOrder, Coherent, OneChain, Serving, At, None, Training,
         Publishing, Deploying
  <2>16. Serving'
      BY <2>1, <2>2, <2>3, <2>5, <2>9, <2>10, <1>1, <1>2, <1>5 DEF Inv, Typed,
         Located, Named, InOrder, Coherent, OneChain, Serving, At, None, Training,
         Publishing, Deploying
  <2>17. Known'
      BY <2>1, <2>2, <2>3, <2>5, <2>9, <2>10, <1>1, <1>2, <1>5 DEF Inv, Typed,
         Located, InOrder, Coherent, Known, Given, At, None, Training, Publishing,
         Deploying
  <2>18. Given'
      BY <2>1, <2>2, <2>3, <2>5, <2>9, <2>10, <1>1, <1>2, <1>5 DEF Inv, Typed,
         Located, InOrder, Coherent, Known, Given, At, None, Training, Publishing,
         Deploying
  <2>. QED BY <2>11, <2>12, <2>13, <2>14, <2>15, <2>16, <2>17, <2>18 DEF Inv, Typed
<1>. QED BY <1>3, <1>4, <1>5 DEF AnswerLost

LEMMA CrashInv == Inv /\ Crash => Inv'
<1> SUFFICES ASSUME Inv, Crash PROVE Inv'
    OBVIOUS
<1>1. /\ me' = [file EXCEPT !.source = None, !.set = file.id, !.object = FALSE,
                         !.named = FALSE, !.target = None, !.service = None]
      /\ run' = Idle /\ counts' = [counts EXCEPT !.crashes = counts.crashes + 1]
      /\ strangers' = strangers \cup (DOMAIN tasks \ {file.task})
      /\ UNCHANGED <<tasks, models, services, file>>
    BY DEF Crash, cloud, Reloaded
<1>2. /\ None \in Numbers(tasks) /\ None \in Numbers(models)
      /\ None \in Numbers(services)
    BY Ranges DEF Inv, None, Numbers
<1>3. file \in MemoryType
    BY DEF Inv, Typed, Values
<1>4. /\ me' \in MemoryType /\ me'.current = file.current
      /\ me'.input = file.input /\ me'.job = file.job /\ me'.task = file.task
      /\ me'.trained = file.trained /\ me'.source = None /\ me'.set = file.id
      /\ me'.id = file.id /\ me'.model = file.model /\ me'.target = None
      /\ me'.service = None
    BY <1>1, <1>2, <1>3 DEF MemoryType
<1>5. /\ run' \in RunType /\ run'.pc = "idle" /\ ~ run'.resuming
    BY <1>1, <1>2 DEF RunType, Labels, Idle
<1>6. counts \in CountType
    BY DEF Inv, Typed, Values
<1>7. /\ counts' \in CountType /\ counts'.crashes # 0
    BY <1>1, <1>6 DEF CountType
<1>8. /\ Coherent(me)' /\ Coherent(file)'
    BY <1>1, <1>4 DEF Inv, InOrder, Coherent, None
<1>9. strangers' \subseteq DOMAIN tasks
    BY <1>1 DEF Inv, Typed, Values
<1>10. /\ RunType' = RunType /\ MemoryType' = MemoryType
       /\ ModelType' = ModelType /\ ServiceType' = ServiceType
    BY <1>1 DEF RunType, MemoryType, ModelType, ServiceType, Numbers
<1>11. /\ file.current >= 3 => file.trained
       /\ models # <<>> => Kept
       /\ \A m \in DOMAIN models : models # <<>>
    BY Ranges DEF Inv, InOrder, Coherent
<1>12. \A m \in DOMAIN models : models[m].task = file.task
    BY <1>11 DEF Inv, OneChain, Kept
<1>13. Values'
    BY <1>1, <1>3, <1>4, <1>5, <1>7, <1>9, <1>10 DEF Inv, Typed, Values
<1>14. Located'
    BY <1>1, <1>4, <1>5, <1>7, <1>8, <1>11, <1>12 DEF Inv, Typed, Values, RunType,
       Located, Named, At, None, Training, Publishing, Deploying
<1>15. Named'
    BY <1>1, <1>4, <1>5, <1>7, <1>8, <1>11, <1>12 DEF Inv, Typed, Values, RunType,
       Located, Named, At, None, Training, Publishing, Deploying
<1>16. InOrder'
    BY <1>1, <1>4, <1>5, <1>7, <1>8, <1>11, <1>12 DEF Inv, Typed, Located, Named,
       InOrder, Kept, At, None, Training, Publishing, Deploying
<1>17. OneChain'
    BY <1>1, <1>4, <1>5, <1>7, <1>8, <1>11, <1>12 DEF Inv, Typed, Located, Named,
       InOrder, Coherent, OneChain, Serving, At, None, Training, Publishing,
       Deploying
<1>18. Serving'
    BY <1>1, <1>4, <1>5, <1>7, <1>8, <1>11, <1>12 DEF Inv, Typed, Located, Named,
       InOrder, Coherent, OneChain, Serving, At, None, Training, Publishing,
       Deploying
<1>19. Known'
    BY <1>1, <1>4, <1>5, <1>7, <1>8, <1>11, <1>12 DEF Inv, Typed, Located, InOrder,
       Coherent, Known, Given, At, None, Training, Publishing, Deploying
<1>20. Given'
    BY <1>1, <1>4, <1>5, <1>7, <1>8, <1>11, <1>12 DEF Inv, Typed, Located, InOrder,
       Coherent, Known, Given, At, None, Training, Publishing, Deploying
<1>. QED BY <1>13, <1>14, <1>15, <1>16, <1>17, <1>18, <1>19, <1>20 DEF Inv, Typed

LEMMA TaskEndsInv == Inv /\ TaskEnds => Inv'
<1> SUFFICES ASSUME Inv, TaskEnds PROVE Inv'
    OBVIOUS
<1>1. PICK t \in DOMAIN tasks, s \in {"finish", "fail"} :
          tasks[t] = "running" /\ tasks' = [tasks EXCEPT ![t] = s]
    BY DEF TaskEnds
<1>2. UNCHANGED <<models, services, me, file, run, strangers, counts>>
    BY DEF TaskEnds
<1>3. /\ tasks \in Seq({"running", "finish", "fail"})
      /\ models \in Seq(ModelType) /\ services \in Seq(ServiceType)
    BY DEF Inv, Typed, Values
<1>4. /\ tasks' \in Seq({"running", "finish", "fail"})
      /\ Len(tasks') = Len(tasks) /\ DOMAIN tasks' = DOMAIN tasks
      /\ \A u \in DOMAIN tasks : tasks[u] = "finish" => tasks'[u] = "finish"
    BY <1>1, <1>3, Changed
<1>5. /\ me.task \in 0 .. Len(tasks) /\ file.task \in 0 .. Len(tasks)
      /\ DOMAIN tasks = 1 .. Len(tasks)
      /\ \A m \in DOMAIN models : models[m].task \in DOMAIN tasks
    BY Ranges DEF Inv
<1>6. /\ Coherent(me)' /\ Coherent(file)'
    BY <1>2, <1>4, <1>5 DEF Inv, InOrder, Coherent, None
<1>7. /\ RunType' = RunType /\ MemoryType' = MemoryType /\ ModelType' = ModelType
      /\ ServiceType' = ServiceType
    BY <1>2, <1>4 DEF RunType, MemoryType, ModelType, ServiceType, Numbers
<1>8. Values'
    BY <1>2, <1>3, <1>4, <1>7 DEF Inv, Typed, Values
<1>9. Located'
    BY <1>2, <1>4, <1>5, <1>6 DEF Inv, Typed, Values, RunType, Located, Named, At,
       None, Training, Publishing, Deploying
<1>10. Named'
    BY <1>2, <1>4, <1>5, <1>6 DEF Inv, Typed, Values, RunType, Located, Named, At,
       None, Training, Publishing, Deploying
<1>11. InOrder'
    BY <1>2, <1>4, <1>5, <1>6 DEF Inv, Typed, Located, Named, InOrder, Kept, At,
       None, Training, Publishing, Deploying
<1>12. OneChain'
    BY <1>2, <1>4, <1>5, <1>6 DEF Inv, Typed, Located, Named, InOrder, Coherent,
       OneChain, Serving, At, None, Training, Publishing, Deploying
<1>13. Serving'
    BY <1>2, <1>4, <1>5, <1>6 DEF Inv, Typed, Located, Named, InOrder, Coherent,
       OneChain, Serving, At, None, Training, Publishing, Deploying
<1>14. Known'
    BY <1>2, <1>4, <1>5, <1>6 DEF Inv, Typed, Located, InOrder, Coherent, Known,
       Given, At, None, Training, Publishing, Deploying
<1>15. Given'
    BY <1>2, <1>4, <1>5, <1>6 DEF Inv, Typed, Located, InOrder, Coherent, Known,
       Given, At, None, Training, Publishing, Deploying
<1>. QED BY <1>8, <1>9, <1>10, <1>11, <1>12, <1>13, <1>14, <1>15 DEF Inv, Typed

LEMMA ModelEndsInv == Inv /\ ModelEnds => Inv'
<1> SUFFICES ASSUME Inv, ModelEnds PROVE Inv'
    OBVIOUS
<1>1. PICK m \in DOMAIN models, s \in {"ready", "fail"} :
          /\ models[m].state = "creating"
          /\ models' = [models EXCEPT ![m] = [models[m] EXCEPT !.state = s]]
    BY DEF ModelEnds
<1>2. UNCHANGED <<tasks, services, me, file, run, strangers, counts>>
    BY DEF ModelEnds
<1>3. /\ tasks \in Seq({"running", "finish", "fail"})
      /\ models \in Seq(ModelType) /\ services \in Seq(ServiceType)
    BY DEF Inv, Typed, Values
<1>4. /\ models' \in Seq(ModelType) /\ Len(models') = Len(models)
      /\ DOMAIN models' = DOMAIN models
      /\ \A n \in DOMAIN models : models'[n].task = models[n].task
      /\ \A n \in DOMAIN models : models[n].state = "ready" => models'[n].state = "ready"
      /\ models # <<>>
    BY <1>1, <1>3, Ended
<1>5. /\ me.model \in 0 .. Len(models) /\ file.model \in 0 .. Len(models)
      /\ DOMAIN models = 1 .. Len(models)
      /\ \A v \in DOMAIN services : services[v].model \in DOMAIN models
    BY Ranges DEF Inv
<1>6. /\ Coherent(me)' /\ Coherent(file)'
    BY <1>2, <1>4, <1>5 DEF Inv, InOrder, Coherent, None
<1>7. /\ RunType' = RunType /\ MemoryType' = MemoryType /\ ModelType' = ModelType
      /\ ServiceType' = ServiceType
    BY <1>2, <1>4 DEF RunType, MemoryType, ModelType, ServiceType, Numbers
<1>8. Values'
    BY <1>2, <1>3, <1>4, <1>7 DEF Inv, Typed, Values
<1>9. Located'
    BY <1>2, <1>4, <1>5, <1>6 DEF Inv, Typed, Values, RunType, Located, Named, At,
       None, Training, Publishing, Deploying
<1>10. Named'
    BY <1>2, <1>4, <1>5, <1>6 DEF Inv, Typed, Values, RunType, Located, Named, At,
       None, Training, Publishing, Deploying
<1>11. InOrder'
    BY <1>2, <1>4, <1>5, <1>6 DEF Inv, Typed, Located, Named, InOrder, Kept, At,
       None, Training, Publishing, Deploying
<1>12. OneChain'
    BY <1>2, <1>4, <1>5, <1>6 DEF Inv, Typed, Located, Named, InOrder, Coherent,
       OneChain, Serving, At, None, Training, Publishing, Deploying
<1>13. Serving'
    BY <1>2, <1>4, <1>5, <1>6 DEF Inv, Typed, Located, Named, InOrder, Coherent,
       OneChain, Serving, At, None, Training, Publishing, Deploying
<1>14. Known'
    BY <1>2, <1>4, <1>5, <1>6 DEF Inv, Typed, Located, InOrder, Coherent, Known,
       Given, At, None, Training, Publishing, Deploying
<1>15. Given'
    BY <1>2, <1>4, <1>5, <1>6 DEF Inv, Typed, Located, InOrder, Coherent, Known,
       Given, At, None, Training, Publishing, Deploying
<1>. QED BY <1>8, <1>9, <1>10, <1>11, <1>12, <1>13, <1>14, <1>15 DEF Inv, Typed

LEMMA ServiceEndsInv == Inv /\ ServiceEnds => Inv'
<1> SUFFICES ASSUME Inv, ServiceEnds PROVE Inv'
    OBVIOUS
<1>1. PICK v \in DOMAIN services, s \in {"serving", "fail"} :
          /\ services[v].state = "new"
          /\ services' = [services EXCEPT ![v] = [services[v] EXCEPT !.state = s]]
    BY DEF ServiceEnds
<1>2. UNCHANGED <<tasks, models, me, file, run, strangers, counts>>
    BY DEF ServiceEnds
<1>3. /\ tasks \in Seq({"running", "finish", "fail"})
      /\ models \in Seq(ModelType) /\ services \in Seq(ServiceType)
    BY DEF Inv, Typed, Values
<1>4. /\ services' \in Seq(ServiceType) /\ Len(services') = Len(services)
      /\ DOMAIN services' = DOMAIN services
      /\ \A n \in DOMAIN services : services'[n].model = services[n].model
    BY <1>1, <1>3, ServiceEnded
<1>5. /\ me.service \in 0 .. Len(services) /\ run.service \in 0 .. Len(services)
      /\ DOMAIN services = 1 .. Len(services)
    BY Ranges DEF Inv
<1>6. /\ Coherent(me)' /\ Coherent(file)'
    BY <1>2 DEF Inv, InOrder, Coherent, None
<1>7. /\ RunType' = RunType /\ MemoryType' = MemoryType /\ ModelType' = ModelType
      /\ ServiceType' = ServiceType
    BY <1>2, <1>4 DEF RunType, MemoryType, ModelType, ServiceType, Numbers
<1>8. Values'
    BY <1>2, <1>3, <1>4, <1>7 DEF Inv, Typed, Values
<1>9. Located'
    BY <1>2, <1>4, <1>5, <1>6 DEF Inv, Typed, Values, RunType, Located, Named, At,
       None, Training, Publishing, Deploying
<1>10. Named'
    BY <1>2, <1>4, <1>5, <1>6 DEF Inv, Typed, Values, RunType, Located, Named, At,
       None, Training, Publishing, Deploying
<1>11. InOrder'
    BY <1>2, <1>4, <1>5, <1>6 DEF Inv, Typed, Located, Named, InOrder, Kept, At,
       None, Training, Publishing, Deploying
<1>12. OneChain'
    BY <1>2, <1>4, <1>5, <1>6 DEF Inv, Typed, Located, Named, InOrder, Coherent,
       OneChain, Serving, At, None, Training, Publishing, Deploying
<1>13. Serving'
    BY <1>2, <1>4, <1>5, <1>6 DEF Inv, Typed, Located, Named, InOrder, Coherent,
       OneChain, Serving, At, None, Training, Publishing, Deploying
<1>14. Known'
    BY <1>2, <1>4, <1>5, <1>6 DEF Inv, Typed, Located, InOrder, Coherent, Known,
       Given, At, None, Training, Publishing, Deploying
<1>15. Given'
    BY <1>2, <1>4, <1>5, <1>6 DEF Inv, Typed, Located, InOrder, Coherent, Known,
       Given, At, None, Training, Publishing, Deploying
<1>. QED BY <1>8, <1>9, <1>10, <1>11, <1>12, <1>13, <1>14, <1>15 DEF Inv, Typed

-----------------------------------------------------------------------------
(* The invariant.                                                           *)

LEMMA InitInv == Init => Inv
<1> SUFFICES ASSUME Init PROVE Inv
    OBVIOUS
<1>1. /\ tasks = <<>> /\ models = <<>> /\ services = <<>> /\ strangers = {}
      /\ me = Fresh /\ file = Fresh
      /\ run = [Idle EXCEPT !.pc = "new"]
      /\ counts = [trouble |-> 0, resumes |-> 0, crashes |-> 0]
    BY DEF Init
<1>2. /\ tasks \in Seq({"running", "finish", "fail"}) /\ models \in Seq(ModelType)
      /\ services \in Seq(ServiceType)
      /\ None \in Numbers(tasks) /\ None \in Numbers(models)
      /\ None \in Numbers(services)
      /\ DOMAIN tasks = {} /\ DOMAIN models = {} /\ DOMAIN services = {}
    BY <1>1 DEF None, Numbers
<1>3. Len(Chain) = 4
    BY DEF Chain
<1>4. Fresh \in MemoryType
    BY <1>2, <1>3 DEF Fresh, MemoryType
<1>5. run \in RunType /\ run.pc = "new" /\ ~ run.resuming
    BY <1>1, <1>2 DEF Idle, RunType, Labels
<1>6. counts \in CountType
    BY <1>1 DEF CountType
<1>7. Values
    BY <1>1, <1>2, <1>4, <1>5, <1>6 DEF Values
<1>8. Located /\ Named
    BY <1>1, <1>5 DEF Located, Named, At, Fresh, Training, Publishing, Deploying
<1>9. InOrder
    BY <1>1, <1>5 DEF InOrder, Coherent, Kept, At, Fresh, None, Training
<1>10. OneChain /\ Serving
    BY <1>1, <1>2, <1>5 DEF OneChain, Serving, At, Fresh, None
<1>11. Known /\ Given
    BY <1>1, <1>2 DEF Known, Given, Fresh
<1>. QED BY <1>7, <1>8, <1>9, <1>10, <1>11 DEF Inv, Typed

LEMMA StutterInv == Inv /\ UNCHANGED vars => Inv'
<1> SUFFICES ASSUME Inv, UNCHANGED vars PROVE Inv'
    OBVIOUS
<1>1. UNCHANGED <<tasks, models, services, me, file, run, strangers, counts>>
    BY DEF vars
<1>2. Values'
    BY <1>1 DEF Inv, Typed, Values, MemoryType, RunType, ModelType, ServiceType,
                CountType, Numbers
<1>3. Located' /\ Named'
    BY <1>1 DEF Inv, Typed, Located, Named, At, Training, Publishing, Deploying
<1>4. InOrder'
    BY <1>1 DEF Inv, InOrder, Coherent, Kept, At, Training
<1>5. OneChain' /\ Serving'
    BY <1>1 DEF Inv, OneChain, Serving, At
<1>6. Known' /\ Given'
    BY <1>1 DEF Inv, Known, Given, At
<1>. QED BY <1>2, <1>3, <1>4, <1>5, <1>6 DEF Inv, Typed

LEMMA NextInv == Inv /\ [Next]_vars => Inv'
<1> SUFFICES ASSUME Inv, [Next]_vars PROVE Inv'
    OBVIOUS
<1>1. CASE UNCHANGED vars
    BY <1>1, StutterInv
<1>2. CASE Step
  <2>1. CASE SaveAfter \/ SetCurrent \/ Return \/ LoadDataSet
    BY <2>1, SaveAfterInv, SetCurrentInv, ReturnInv, LoadDataSetInv
  <2>2. CASE TrainDone \/ TrainAgain \/ Train \/ CreateJob \/ CreateTask \/ Trained
    BY <2>2, TrainDoneInv, TrainAgainInv, TrainInv, CreateJobInv, CreateTaskInv,
       TrainedInv
  <2>3. CASE \/ Publish \/ FindModel \/ FoundReady \/ NoModel \/ TaskFinished
             \/ Release \/ DescribeSet \/ Published
    BY <2>3, PublishInv, FindModelInv, FoundReadyInv, NoModelInv, TaskFinishedInv,
       ReleaseInv, DescribeSetInv, PublishedInv
  <2>4. CASE Deploy \/ CreateService \/ Deployed \/ Raise
    BY <2>4, DeployInv, CreateServiceInv, DeployedInv, RaiseInv
  <2>. QED BY <1>2, <2>1, <2>2, <2>3, <2>4 DEF Step
<1>3. CASE Platform
    BY <1>3, TaskEndsInv, ModelEndsInv, ServiceEndsInv DEF Platform
<1>4. CASE \/ Exec \/ Resume \/ SavePolled \/ RequestFails \/ FindFails \/ DeployFails
           \/ AnswerLost \/ Crash
    BY <1>4, ExecInv, ResumeInv, SavePolledInv, RequestFailsInv, FindFailsInv,
       DeployFailsInv, AnswerLostInv, CrashInv
<1>. QED BY <1>1, <1>2, <1>3, <1>4 DEF Next

-----------------------------------------------------------------------------

\* The types of the variables, and that whatever is polled, published or deployed is
\* named by a number.
THEOREM TypeCorrect == Spec => []TypeOK
<1>1. Inv => TypeOK
  <2> SUFFICES ASSUME Inv PROVE TypeOK
    OBVIOUS
  <2>1. Values
    BY DEF Inv, Typed
  <2>2. /\ At("trainwait") => me.task # None
        /\ run.pc \in {"finished?", "release"} => me.source # None
        /\ run.pc \in {"describe", "findwait", "publishwait"} => me.set # None
        /\ At("launch") => me.target # None
        /\ At("deploywait") => run.service # None
    BY DEF Inv, Typed, Named, At
  <2>3. models \in Seq([task : DOMAIN tasks, state : {"creating", "ready", "fail"}])
    BY <2>1 DEF Values, ModelType
  <2>4. services \in Seq([model : DOMAIN models, state : {"new", "serving", "fail"}])
    BY <2>1 DEF Values, ServiceType
  <2>5. /\ run \in [pc : Labels, resuming : BOOLEAN, polled : BOOLEAN,
                    service : Numbers(services)]
        /\ counts \in [trouble : Nat, resumes : Nat, crashes : Nat]
    BY <2>1 DEF Values, RunType, CountType
  <2>. QED BY <2>1, <2>2, <2>3, <2>4, <2>5 DEF Values, TypeOK
<1>. QED BY <1>1, InitInv, NextInv, PTL DEF Spec

\* Whatever fails, is lost, resumed or restarted, the models are those of the one
\* training that has finished, and the services those of a model that was ready.
THEOREM ChainKept == Spec => []OneChain
<1>1. Inv => OneChain
    BY DEF Inv
<1>. QED BY <1>1, InitInv, NextInv, PTL DEF Spec

\* All tasks but one are strangers to the process: it does not create a task while
\* it knows of one.
THEOREM OneTask == Spec => []OnlyStrangersDoubled
<1>1. Inv => OnlyStrangersDoubled
  <2> SUFFICES ASSUME Inv PROVE Cardinality(DOMAIN tasks \ strangers) <= 1
    BY DEF OnlyStrangersDoubled
  <2>1. DOMAIN tasks \ strangers \subseteq {me.task}
    BY DEF Inv, Known
  <2>2. IsFiniteSet({me.task}) /\ Cardinality({me.task}) = 1
    BY FS_Singleton
  <2>. QED BY <2>1, <2>2, FS_Subset, FS_CardinalityType
<1>. QED BY <1>1, InitInv, NextInv, PTL DEF Spec

\* A process that was not restarted can resume any action it has begun: the input,
\* the task and the model were given to it before anything could fail.
THEOREM ResumeGoesOn == Spec => []ResumeFindsInput
<1>1. Inv => ResumeFindsInput
  <2> SUFFICES ASSUME Inv, counts.crashes = 0
               PROVE  ~ LacksInput /\ ~ LacksTask /\ ~ LacksModel
    BY DEF ResumeFindsInput
  <2>1. ~ LacksInput
    BY DEF Inv, Typed, Located, Given, LacksInput, At, Training
  <2>2. ~ LacksTask
    BY DEF Inv, Typed, Located, Given, LacksTask, At, Publishing
  <2>3. ~ LacksModel
    BY DEF Inv, Typed, Located, Given, LacksModel, At, Deploying
  <2>. QED BY <2>1, <2>2, <2>3
<1>. QED BY <1>1, InitInv, NextInv, PTL DEF Spec

=============================================================================
