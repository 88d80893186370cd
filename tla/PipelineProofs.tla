--------------------------- MODULE PipelineProofs ---------------------------
(***************************************************************************)
(* Theorems about Pipeline, for a chain of any length and kinds, and any   *)
(* number of stops, resumes and crashes.                                   *)
(***************************************************************************)
EXTENDS Pipeline, TLAPS

\* No thread runs before the pipeline is loaded again, and only a pipeline that
\* has begun an action is resumed.
Quiet ==
    /\ ~ up => \A r \in Threads : At(r, "off")
    /\ At("main", "resume") => current # None

Typed == TypeOK /\ Quiet

Tasks == [action : Chain, state : {"running", "finish", "fail", "stop"}]

FileType(n) == [state : {"none", "empty", "saved", "torn"}, snap : SnapshotType(n)]

LEMMA ChainFacts == Last \in Nat \ {0} /\ Chain = 1 .. Last
BY PipelineAssumption DEF Last, Chain

\* What is typed stays so as tasks are created.
LEMMA TypesGrow ==
    ASSUME NEW n \in Nat, NEW m \in Nat, n <= m
    PROVE  /\ SnapshotType(n) \subseteq SnapshotType(m)
           /\ ThreadType(n) \subseteq ThreadType(m)
           /\ FileType(n) \subseteq FileType(m)
           /\ [Chain -> 0 .. n] \subseteq [Chain -> 0 .. m]
BY DEF SnapshotType, ThreadType, FileType

LEMMA BlankType == ASSUME NEW n \in Nat PROVE Blank \in SnapshotType(n)
BY ChainFacts DEF Blank, SnapshotType, None

LEMMA NewThreadType ==
    ASSUME NEW n \in Nat, NEW l \in Labels
    PROVE  NewThread(l) \in ThreadType(n) /\ NewThread(l).pc = l
BY ChainFacts, BlankType DEF NewThread, ThreadType, None

\* The types of the variables, one by one.
LEMMA TypeFacts ==
    ASSUME Typed
    PROVE  /\ tasks \in Seq(Tasks) /\ Len(tasks) \in Nat
           /\ current \in 0 .. Last /\ stop \in BOOLEAN
           /\ task \in [Chain -> 0 .. Len(tasks)] /\ result \in [Chain -> BOOLEAN]
           /\ file \in FileType(Len(tasks))
           /\ res \in {"none", "output", "error"}
           /\ thread \in [Threads -> ThreadType(Len(tasks))]
           /\ Snapshot \in SnapshotType(Len(tasks))
<1>1. Snapshot \in SnapshotType(Len(tasks)) /\ tasks \in Seq(Tasks)
    BY DEF Typed, TypeOK, Tasks
<1>2. /\ current \in 0 .. Last /\ task \in [Chain -> 0 .. Len(tasks)]
      /\ result \in [Chain -> BOOLEAN]
    BY <1>1 DEF Snapshot, SnapshotType
<1>. QED BY <1>1, <1>2 DEF Typed, TypeOK, FileType

LEMMA InitTyped == Init => Typed
<1> SUFFICES ASSUME Init PROVE Typed
    OBVIOUS
<1>1. tasks \in Seq(Tasks) /\ Len(tasks) = 0
    BY DEF Init
<1>2. Snapshot = Blank
    BY DEF Init, Snapshot, Blank
<1>3. Blank \in SnapshotType(0)
    BY BlankType
<1>4. file \in FileType(0)
    BY <1>3 DEF Init, FileType
<1>5. \A r \in Threads : thread[r] = NewThread("off") /\ thread[r].pc = "off"
    BY NewThreadType DEF Init, Labels
<1>6. thread \in [Threads -> ThreadType(0)]
    BY <1>5, NewThreadType DEF Init, Labels
<1>7. \A r \in Threads : thread[r].pc \notin Acting \cup {"set", "wait", "created", "resume"}
    BY <1>5 DEF Acting
<1>8. counts \in [{"stops", "resumes", "crashes", "execs", "aborts"} -> Nat]
    BY DEF Init
<1>9. /\ stop \in BOOLEAN /\ res \in {"none", "output", "error"}
      /\ stopper \in {"idle", "action"} /\ up \in BOOLEAN
    BY DEF Init
<1>10. TypeOK
    BY <1>1, <1>2, <1>3, <1>4, <1>6, <1>7, <1>8, <1>9
       DEF TypeOK, At, Tasks, FileType
<1>11. Quiet
    BY <1>5, <1>7 DEF Quiet, At, Threads
<1>. QED BY <1>10, <1>11 DEF Typed

\* A step of thread r to d keeps the types when the variables keep theirs and no
\* task is unset.
LEMMA ThreadKeepsType ==
    ASSUME Typed, up, NEW r \in Threads,
           tasks' \in Seq(Tasks), Len(tasks) <= Len(tasks'),
           NEW d \in ThreadType(Len(tasks')), thread' = [thread EXCEPT ![r] = d],
           current' \in 0 .. Last, current # None => current' # None,
           stop' \in BOOLEAN,
           task' \in [Chain -> 0 .. Len(tasks')],
           \A i \in Chain : task[i] # None => task'[i] # None,
           result' \in [Chain -> BOOLEAN],
           file' \in FileType(Len(tasks')),
           res' \in {"none", "output", "error"},
           stopper' = stopper, up' = up,
           counts' \in [{"stops", "resumes", "crashes", "execs", "aborts"} -> Nat],
           d.pc \in Acting \cup {"set"} => d.i \in Chain,
           d.pc = "wait" => task'[d.i] # None,
           d.pc = "created" => d.id # None,
           d.pc = "resume" => current' # None
    PROVE  Typed'
<1>1. /\ Len(tasks) \in Nat /\ Len(tasks') \in Nat
      /\ thread \in [Threads -> ThreadType(Len(tasks))]
    BY TypeFacts
<1>2. thread' \in [Threads -> ThreadType(Len(tasks'))]
    BY <1>1, TypesGrow
<1>3. Snapshot' \in SnapshotType(Len(tasks'))
    BY DEF Snapshot, SnapshotType
<1>4. ASSUME NEW e \in Threads
      PROVE  /\ thread'[e].pc \in Acting \cup {"set"} => thread'[e].i \in Chain
             /\ thread'[e].pc = "wait" => task'[thread'[e].i] # None
             /\ thread'[e].pc = "created" => thread'[e].id # None
             /\ e = "main" /\ thread'[e].pc = "resume" => current' # None
  <2>1. CASE e = r
    BY <1>1, <2>1
  <2>2. CASE e # r
    <3>1. thread'[e] = thread[e]
        BY <1>1, <2>2
    <3>2. /\ thread[e].pc \in Acting \cup {"set"} => thread[e].i \in Chain
          /\ thread[e].pc = "wait" => task[thread[e].i] # None
          /\ thread[e].pc = "created" => thread[e].id # None
          /\ e = "main" /\ thread[e].pc = "resume" => current # None
        BY DEF Typed, TypeOK, Quiet, At
    <3>. QED BY <3>1, <3>2 DEF Acting
  <2>. QED BY <2>1, <2>2
<1>5. stopper' \in {"idle", "action"} /\ up'
    BY DEF Typed, TypeOK
<1>6. TypeOK'
    BY <1>2, <1>3, <1>4, <1>5 DEF TypeOK, At, Tasks, FileType
<1>7. Quiet'
    BY <1>4, <1>5 DEF Quiet, At, Threads
<1>. QED BY <1>6, <1>7 DEF Typed

\* The same of a step that creates no task.
LEMMA ThreadSameTasks ==
    ASSUME Typed, up, NEW r \in Threads, tasks' = tasks,
           NEW d \in ThreadType(Len(tasks)), thread' = [thread EXCEPT ![r] = d],
           current' \in 0 .. Last, current # None => current' # None,
           stop' \in BOOLEAN,
           task' \in [Chain -> 0 .. Len(tasks)],
           \A i \in Chain : task[i] # None => task'[i] # None,
           result' \in [Chain -> BOOLEAN],
           file' \in FileType(Len(tasks)),
           res' \in {"none", "output", "error"},
           stopper' = stopper, up' = up, counts' = counts,
           d.pc \in Acting \cup {"set"} => d.i \in Chain,
           d.pc = "wait" => task'[d.i] # None,
           d.pc = "created" => d.id # None,
           d.pc = "resume" => current' # None
    PROVE  Typed'
<1>1. tasks \in Seq(Tasks) /\ Len(tasks) \in Nat
    BY TypeFacts
<1>2. counts' \in [{"stops", "resumes", "crashes", "execs", "aborts"} -> Nat]
    BY DEF Typed, TypeOK
<1>3. /\ tasks' \in Seq(Tasks) /\ Len(tasks) <= Len(tasks') /\ Len(tasks') = Len(tasks)
      /\ d \in ThreadType(Len(tasks')) /\ file' \in FileType(Len(tasks'))
      /\ task' \in [Chain -> 0 .. Len(tasks')]
    BY <1>1
<1>. QED BY <1>2, <1>3, ThreadKeepsType

\* A step that changes no more than the thread, the file, _stop and res[0].
LEMMA ThreadAlone ==
    ASSUME Typed, NEW r \in Threads, ~ At(r, "off"),
           NEW d \in ThreadType(Len(tasks)), thread' = [thread EXCEPT ![r] = d],
           UNCHANGED <<tasks, current, task, result, user>>,
           file' \in FileType(Len(tasks)),
           stop' \in BOOLEAN, res' \in {"none", "output", "error"},
           d.pc \in Acting \cup {"set"} => d.i \in Chain,
           d.pc = "wait" => task[d.i] # None,
           d.pc = "created" => d.id # None,
           d.pc # "resume"
    PROVE  Typed'
<1>1. up
    BY DEF Typed, Quiet
<1>2. /\ tasks \in Seq(Tasks) /\ Len(tasks) \in Nat
      /\ current \in 0 .. Last
      /\ task \in [Chain -> 0 .. Len(tasks)] /\ result \in [Chain -> BOOLEAN]
    BY TypeFacts
<1>3. /\ tasks' = tasks /\ current' = current /\ task' = task /\ result' = result
      /\ stopper' = stopper /\ up' = up /\ counts' = counts
    BY DEF user
<1>4. /\ current' \in 0 .. Last
      /\ current # None => current' # None
      /\ task' \in [Chain -> 0 .. Len(tasks)] /\ result' \in [Chain -> BOOLEAN]
      /\ d.pc = "wait" => task'[d.i] # None
      /\ \A i \in Chain : task[i] # None => task'[i] # None
      /\ d.pc = "resume" => current' # None
    BY <1>2, <1>3
<1>. QED BY <1>1, <1>3, <1>4, ThreadSameTasks

\* Whoever moves to l keeps his locals.
LEMMA GotoAlone ==
    ASSUME Typed, NEW r \in Threads, NEW l \in Labels, Goto(r, l)
    PROVE  \E d \in ThreadType(Len(tasks)) :
              /\ thread' = [thread EXCEPT ![r] = d]
              /\ d.pc = l /\ d.i = thread[r].i /\ d.id = thread[r].id
              /\ d.resuming = thread[r].resuming /\ d.next = thread[r].next
              /\ d.read = thread[r].read /\ d.snap = thread[r].snap
<1>1. thread \in [Threads -> ThreadType(Len(tasks))]
    BY TypeFacts
<1> DEFINE d == [thread[r] EXCEPT !.pc = l]
<1>2. /\ d \in ThreadType(Len(tasks))
      /\ d.pc = l /\ d.i = thread[r].i /\ d.id = thread[r].id
      /\ d.resuming = thread[r].resuming /\ d.next = thread[r].next
      /\ d.read = thread[r].read /\ d.snap = thread[r].snap
    BY <1>1 DEF ThreadType
<1>3. thread' = [thread EXCEPT ![r] = d]
    BY <1>1 DEF Goto
<1>. QED BY <1>2, <1>3

LEMMA SaveThenAlone ==
    ASSUME Typed, NEW r \in Threads, NEW l \in {"off", "test", "look", "leave"},
           SaveThen(r, l)
    PROVE  \E d \in ThreadType(Len(tasks)) :
              /\ thread' = [thread EXCEPT ![r] = d]
              /\ d.pc = "persist" /\ d.next = l /\ d.i = thread[r].i
              /\ d.resuming = thread[r].resuming
<1>1. thread \in [Threads -> ThreadType(Len(tasks))]
    BY TypeFacts
<1> DEFINE d == [thread[r] EXCEPT !.pc = "persist", !.next = l]
<1>2. /\ d \in ThreadType(Len(tasks))
      /\ d.pc = "persist" /\ d.next = l /\ d.i = thread[r].i
      /\ d.resuming = thread[r].resuming
    BY ZenonT(60), <1>1 DEF ThreadType, Labels
<1>3. thread' = [thread EXCEPT ![r] = d]
    BY <1>1 DEF SaveThen
<1>. QED BY <1>2, <1>3

\* What Done makes of the thread.
LEMMA DoneAlone ==
    ASSUME Typed, NEW r \in Threads, Done(r), thread[r].i \in Chain
    PROVE  \E d \in ThreadType(Len(tasks)) :
              /\ thread' = [thread EXCEPT ![r] = d]
              /\ \/ /\ thread[r].resuming /\ ~ d.resuming
                    /\ d.pc = "resumed" /\ d.i = thread[r].i
                 \/ /\ ~ thread[r].resuming /\ ~ d.resuming
                    /\ d.pc = "persist" /\ d.next = "test" /\ d.i = thread[r].i + 1
<1>1. thread \in [Threads -> ThreadType(Len(tasks))]
    BY TypeFacts
<1>2. CASE thread[r].resuming
  <2> DEFINE d == [thread[r] EXCEPT !.pc = "resumed", !.resuming = FALSE]
  <2>1. /\ d \in ThreadType(Len(tasks)) /\ d.pc = "resumed" /\ ~ d.resuming
        /\ d.i = thread[r].i
    BY ZenonT(60), <1>1 DEF ThreadType, Labels
  <2>2. thread' = [thread EXCEPT ![r] = d]
    BY <1>1, <1>2 DEF Done
  <2>. QED BY <1>2, <2>1, <2>2
<1>3. CASE ~ thread[r].resuming
  <2> DEFINE d == [thread[r] EXCEPT !.pc = "persist", !.next = "test", !.i = @ + 1]
  <2>1. thread[r].i + 1 \in 1 .. Last + 1
    BY ChainFacts
  <2>2. /\ d \in ThreadType(Len(tasks)) /\ d.pc = "persist" /\ d.next = "test"
        /\ ~ d.resuming /\ d.i = thread[r].i + 1
    BY ZenonT(60), <1>1, <1>3, <2>1 DEF ThreadType, Labels
  <2>3. thread' = [thread EXCEPT ![r] = d]
    BY <1>1, <1>3 DEF Done
  <2>. QED BY <1>3, <2>2, <2>3
<1>. QED BY <1>2, <1>3

\* What a save makes of a thread.
LEMMA SavingType ==
    ASSUME NEW n \in Nat, NEW t \in ThreadType(n), NEW l \in Labels,
           NEW k \in 0 .. Last, NEW s \in SnapshotType(n)
    PROVE  /\ [t EXCEPT !.snap = s, !.read = k, !.pc = l] \in ThreadType(n)
           /\ [t EXCEPT !.read = k, !.snap = s] \in ThreadType(n)
           /\ [t EXCEPT !.pc = l, !.next = "off", !.read = k, !.snap = s]
                 \in ThreadType(n)
<1>1. [t EXCEPT !.snap = s, !.read = k, !.pc = l] \in ThreadType(n)
    BY DEF ThreadType
<1>2. [t EXCEPT !.read = k, !.snap = s] \in ThreadType(n)
    BY DEF ThreadType
<1>3. [t EXCEPT !.pc = l, !.next = "off", !.read = k, !.snap = s] \in ThreadType(n)
    BY DEF ThreadType
<1>. QED BY <1>1, <1>2, <1>3

\* What the save has read of one more action.
LEMMA ReadMore ==
    ASSUME Typed, NEW r \in Threads, ReadAction(r)
    PROVE  LET i == thread[r].read + 1
               s == [thread[r].snap EXCEPT !.task[i] = task[i], !.result[i] = result[i]]
           IN  thread' = [thread EXCEPT ![r] = [thread[r] EXCEPT !.read = i, !.snap = s]]
<1>1. /\ thread \in [Threads -> ThreadType(Len(tasks))] /\ Len(tasks) \in Nat
      /\ task \in [Chain -> 0 .. Len(tasks)] /\ result \in [Chain -> BOOLEAN]
    BY TypeFacts
<1>2. thread[r] \in ThreadType(Len(tasks)) /\ thread[r].snap \in SnapshotType(Len(tasks))
    BY <1>1 DEF ThreadType
<1>3. thread[r].read + 1 \in Chain
    BY <1>2, ChainFacts DEF ReadAction, ThreadType
<1>. QED BY ZenonT(60), <1>1, <1>2, <1>3 DEF ReadAction, ThreadType, SnapshotType

\* The saves.
LEMMA SaveTyped == ASSUME Typed, NEW r \in Threads, Save(r) PROVE Typed'
<1>1. /\ thread \in [Threads -> ThreadType(Len(tasks))] /\ Len(tasks) \in Nat
      /\ file \in FileType(Len(tasks)) /\ stop \in BOOLEAN
      /\ res \in {"none", "output", "error"}
      /\ current \in 0 .. Last
      /\ task \in [Chain -> 0 .. Len(tasks)] /\ result \in [Chain -> BOOLEAN]
    BY TypeFacts
<1>2. Blank \in SnapshotType(Len(tasks))
    BY <1>1, BlankType
<1>3. thread[r] \in ThreadType(Len(tasks)) /\ thread[r].snap \in SnapshotType(Len(tasks))
    BY <1>1 DEF ThreadType
<1>4. CASE ReadCurrent(r)
  <2> DEFINE s == [Blank EXCEPT !.current = current]
             d == [thread[r] EXCEPT !.snap = s, !.read = 0, !.pc = "read"]
  <2>1. s \in SnapshotType(Len(tasks))
    BY <1>1, <1>2 DEF SnapshotType
  <2> HIDE DEF s
  <2>2. d \in ThreadType(Len(tasks)) /\ d.pc = "read"
    <3>1. 0 \in 0 .. Last /\ "read" \in Labels
        BY ChainFacts DEF Labels
    <3>2. d \in ThreadType(Len(tasks))
        BY <1>1, <1>3, <2>1, <3>1, SavingType
    <3>3. d.pc = "read"
        BY <1>3 DEF ThreadType
    <3>. QED BY <3>2, <3>3
  <2>3. thread' = [thread EXCEPT ![r] = d]
    BY <1>1, <1>4 DEF ReadCurrent, s
  <2>4. ~ At(r, "off") /\ UNCHANGED <<tasks, object, file, res, user>>
    BY <1>4 DEF ReadCurrent, At
  <2> HIDE DEF d
  <2>. QED BY <1>1, <2>2, <2>3, <2>4, ThreadAlone DEF object, Acting
<1>5. CASE ReadAction(r)
  <2> DEFINE i == thread[r].read + 1
             s == [thread[r].snap EXCEPT !.task[i] = task[i], !.result[i] = result[i]]
             d == [thread[r] EXCEPT !.read = i, !.snap = s]
  <2>1. i \in Chain
    BY <1>3, <1>5, ChainFacts DEF ReadAction, ThreadType
  <2>2. s \in SnapshotType(Len(tasks))
    BY <1>1, <1>3, <2>1 DEF SnapshotType
  <2>3. d \in ThreadType(Len(tasks)) /\ d.pc = "read"
    <3> HIDE DEF s, i
    <3>1. i \in 0 .. Last /\ "read" \in Labels
        BY <2>1, ChainFacts DEF Labels
    <3>2. d \in ThreadType(Len(tasks))
        BY <1>1, <1>3, <2>2, <3>1, SavingType
    <3>3. d.pc = "read"
        BY <1>3, <1>5 DEF ThreadType, ReadAction, At
    <3>. QED BY <3>2, <3>3
  <2>4. thread' = [thread EXCEPT ![r] = d]
    BY <1>5, ReadMore
  <2>5. ~ At(r, "off") /\ UNCHANGED <<tasks, object, file, res, user>>
    BY <1>5 DEF ReadAction, At
  <2> HIDE DEF d
  <2>. QED BY <1>1, <2>3, <2>4, <2>5, ThreadAlone DEF object, Acting
<1>6. CASE OpenFile(r)
  <2>1. PICK d \in ThreadType(Len(tasks)) :
            thread' = [thread EXCEPT ![r] = d] /\ d.pc = "write"
    BY <1>6, GotoAlone DEF OpenFile, Labels
  <2>2. file' \in FileType(Len(tasks))
    BY <1>2, <1>6 DEF OpenFile, FileType
  <2>3. ~ At(r, "off") /\ UNCHANGED <<tasks, object, res, user>>
    BY <1>6 DEF OpenFile, At
  <2>. QED BY <1>1, <2>1, <2>2, <2>3, ThreadAlone DEF object, Acting
<1>7. CASE WriteFile(r)
  <2> DEFINE d == [thread[r] EXCEPT !.pc = thread[r].next, !.next = "off",
                                    !.read = 0, !.snap = Blank]
  <2>1. /\ d \in ThreadType(Len(tasks))
        /\ d.pc \in {"off", "test", "look", "leave"}
    <3>1. /\ 0 \in 0 .. Last
          /\ thread[r].next \in {"off", "test", "look", "leave"}
          /\ thread[r].next \in Labels
        BY <1>3, ChainFacts DEF ThreadType, Labels
    <3>2. d \in ThreadType(Len(tasks))
        BY <1>1, <1>2, <1>3, <3>1, SavingType
    <3>3. d.pc = thread[r].next
        BY <1>3 DEF ThreadType
    <3>. QED BY <3>1, <3>2, <3>3
  <2>2. thread' = [thread EXCEPT ![r] = d]
    BY <1>1, <1>7 DEF WriteFile
  <2>3. file' \in FileType(Len(tasks))
    BY <1>2, <1>3, <1>7 DEF WriteFile, FileType, Saved
  <2>4. ~ At(r, "off") /\ UNCHANGED <<tasks, object, res, user>>
    BY <1>7 DEF WriteFile, At
  <2> HIDE DEF d
  <2>. QED BY <1>1, <2>1, <2>2, <2>3, <2>4, ThreadAlone DEF object, Acting
<1>8. CASE SaveFails(r)
  <2>1. NewThread("off") \in ThreadType(Len(tasks)) /\ NewThread("off").pc = "off"
    BY <1>1, NewThreadType DEF Labels
  <2>2. /\ thread' = [thread EXCEPT ![r] = NewThread("off")]
        /\ res' \in {"none", "output", "error"}
    BY <1>1, <1>8 DEF SaveFails, End
  <2>3. /\ tasks' = tasks /\ current' = current /\ stop' = stop /\ task' = task
        /\ result' = result /\ file' = file /\ stopper' = stopper /\ up' = up
        /\ ~ At(r, "off")
    BY <1>8 DEF SaveFails, At, object
  <2>4. counts' \in [{"stops", "resumes", "crashes", "execs", "aborts"} -> Nat]
    BY <1>8 DEF SaveFails, Typed, TypeOK
  <2>5. up /\ tasks \in Seq(Tasks) /\ Len(tasks) <= Len(tasks)
    BY <1>1, <2>3, TypeFacts DEF Typed, Quiet
  <2>6. /\ task \in [Chain -> 0 .. Len(tasks)] /\ result \in [Chain -> BOOLEAN]
    BY TypeFacts
  <2> DEFINE d == NewThread("off")
  <2> HIDE DEF d
  <2>. QED BY <1>1, <2>1, <2>2, <2>3, <2>4, <2>5, <2>6, ThreadKeepsType DEF Acting, d
<1>. QED BY <1>4, <1>5, <1>6, <1>7, <1>8 DEF Save

\* The chain: the steps that only move the thread.
LEMMA MoveTyped ==
    ASSUME Typed, NEW r \in Threads,
           \/ Begin(r) \/ TestStop(r) \/ ResumeDone(r) \/ ResumeWait(r)
           \/ Raise(r) \/ Finish(r) \/ Return(r)
    PROVE  Typed'
<1>1. /\ thread \in [Threads -> ThreadType(Len(tasks))] /\ Len(tasks) \in Nat
      /\ file \in FileType(Len(tasks)) /\ stop \in BOOLEAN
      /\ res \in {"none", "output", "error"}
    BY TypeFacts
<1>2. thread[r].i \in 1 .. Last + 1
    BY <1>1 DEF ThreadType
<1>3. At(r, "exec") => thread[r].i \in Chain
    BY DEF Typed, TypeOK, At, Acting
<1>4. CASE Begin(r)
  <2>1. PICK d \in ThreadType(Len(tasks)) :
            thread' = [thread EXCEPT ![r] = d] /\ d.pc = "persist"
    BY <1>4, SaveThenAlone DEF Begin
  <2>2. /\ ~ At(r, "off") /\ UNCHANGED <<tasks, current, task, result, file, res, user>>
        /\ stop' = FALSE
    BY <1>4 DEF Begin, At
  <2>. QED BY <1>1, <2>1, <2>2, ThreadAlone DEF Acting
<1>5. CASE TestStop(r)
  <2>1. PICK l \in Labels : /\ l = "finish" \/ (l = "set" /\ thread[r].i <= Last)
                            /\ Goto(r, l)
    BY <1>2, <1>5, ChainFacts DEF TestStop, Labels
  <2>2. PICK d \in ThreadType(Len(tasks)) :
            thread' = [thread EXCEPT ![r] = d] /\ d.pc = l /\ d.i = thread[r].i
    BY <2>1, GotoAlone
  <2>3. ~ At(r, "off") /\ UNCHANGED <<tasks, object, file, res, user>>
    BY <1>5 DEF TestStop, At
  <2>4. d.pc \in Acting \cup {"set"} => d.i \in Chain
    BY <1>2, <2>1, <2>2, ChainFacts DEF Acting
  <2>. QED BY <1>1, <2>1, <2>2, <2>3, <2>4, ThreadAlone DEF object
<1>6. CASE ResumeDone(r)
  <2>1. PICK d \in ThreadType(Len(tasks)) :
            thread' = [thread EXCEPT ![r] = d] /\ d.pc \in {"resumed", "persist"}
    BY <1>3, <1>6, DoneAlone DEF ResumeDone
  <2>2. ~ At(r, "off") /\ UNCHANGED <<tasks, object, file, res, user>>
    BY <1>6 DEF ResumeDone, At
  <2>. QED BY <1>1, <2>1, <2>2, ThreadAlone DEF object, Acting
<1>7. CASE ResumeWait(r)
  <2>1. PICK d \in ThreadType(Len(tasks)) :
            thread' = [thread EXCEPT ![r] = d] /\ d.pc = "wait" /\ d.i = thread[r].i
    BY <1>7, GotoAlone DEF ResumeWait, Labels
  <2>2. ~ At(r, "off") /\ UNCHANGED <<tasks, object, file, res, user>>
    BY <1>7 DEF ResumeWait, At
  <2>3. d.i \in Chain /\ task[d.i] # None
    BY <1>3, <1>7, <2>1 DEF ResumeWait, Known
  <2>. QED BY <1>1, <2>1, <2>2, <2>3, ThreadAlone DEF object
<1>8. ASSUME NEW a \in {"output", "error"}, End(r, a), ~ At(r, "off"),
             UNCHANGED <<tasks, object, file, user>>
      PROVE  Typed'
  <2>1. NewThread("off") \in ThreadType(Len(tasks)) /\ NewThread("off").pc = "off"
    BY <1>1, NewThreadType DEF Labels
  <2>2. /\ thread' = [thread EXCEPT ![r] = NewThread("off")]
        /\ res' \in {"none", "output", "error"}
    BY <1>1, <1>8 DEF End
  <2>. QED BY <1>1, <1>8, <2>1, <2>2, ThreadAlone DEF object, Acting
<1>9. CASE Raise(r)
    BY <1>8, <1>9 DEF Raise, At
<1>10. CASE Return(r)
    BY <1>8, <1>10 DEF Return, At
<1>11. CASE Finish(r)
  <2>1. PICK d \in ThreadType(Len(tasks)) :
            thread' = [thread EXCEPT ![r] = d] /\ d.pc = "return"
    BY <1>11, GotoAlone DEF Finish, Labels
  <2>2. /\ ~ At(r, "off") /\ UNCHANGED <<tasks, current, task, result, file, res, user>>
        /\ stop' = TRUE
    BY <1>11 DEF Finish, At
  <2>. QED BY <1>1, <2>1, <2>2, ThreadAlone DEF Acting
<1>. QED BY <1>4, <1>5, <1>6, <1>7, <1>9, <1>10, <1>11

\* The chain: the steps that change the pipeline or create a task.
LEMMA ActTyped ==
    ASSUME Typed, NEW r \in Threads,
           \/ SetCurrent(r) \/ RunPlain(r) \/ Submit(r) \/ Created(r) \/ Trained(r)
    PROVE  Typed'
<1>1. /\ tasks \in Seq(Tasks) /\ Len(tasks) \in Nat
      /\ thread \in [Threads -> ThreadType(Len(tasks))]
      /\ file \in FileType(Len(tasks)) /\ stop \in BOOLEAN
      /\ res \in {"none", "output", "error"}
      /\ current \in 0 .. Last
      /\ task \in [Chain -> 0 .. Len(tasks)] /\ result \in [Chain -> BOOLEAN]
    BY TypeFacts
<1>2. thread[r] \in ThreadType(Len(tasks)) /\ thread[r].id \in 0 .. Len(tasks)
    BY <1>1 DEF ThreadType
<1>3. /\ thread[r].pc \in {"set", "exec", "created", "wait"} => thread[r].i \in Chain
      /\ thread[r].pc = "wait" => task[thread[r].i] # None
      /\ thread[r].pc = "created" => thread[r].id # None
      /\ ~ At(r, "off") => up
      /\ counts \in [{"stops", "resumes", "crashes", "execs", "aborts"} -> Nat]
    BY DEF Typed, TypeOK, Quiet, At, Acting
<1>4. CASE SetCurrent(r)
  <2>1. PICK d \in ThreadType(Len(tasks)) :
            thread' = [thread EXCEPT ![r] = d] /\ d.pc = "exec" /\ d.i = thread[r].i
    BY <1>4, GotoAlone DEF SetCurrent, Labels
  <2>2. /\ tasks' = tasks /\ task' = task /\ result' = result /\ file' = file
        /\ res' = res /\ stop' = stop /\ stopper' = stopper /\ up' = up
        /\ counts' = counts /\ current' = thread[r].i
        /\ thread[r].pc = "set" /\ up
    BY <1>3, <1>4 DEF SetCurrent, At, user
  <2>3. current' \in 0 .. Last /\ current' # None /\ d.i \in Chain
    BY <1>3, <2>1, <2>2, ChainFacts DEF None
  <2>. QED BY <1>1, <1>3, <2>1, <2>2, <2>3, ThreadSameTasks
<1>5. ASSUME Done(r), result' = [result EXCEPT ![thread[r].i] = TRUE],
             thread[r].pc \in {"exec", "wait"},
             UNCHANGED <<tasks, current, stop, task, file, res, user>>
      PROVE  Typed'
  <2>1. PICK d \in ThreadType(Len(tasks)) :
            thread' = [thread EXCEPT ![r] = d] /\ d.pc \in {"resumed", "persist"}
    BY <1>3, <1>5, DoneAlone
  <2>2. /\ tasks' = tasks /\ task' = task /\ file' = file /\ current' = current
        /\ res' = res /\ stop' = stop /\ stopper' = stopper /\ up' = up
        /\ counts' = counts /\ up
    BY <1>3, <1>5 DEF At, user
  <2>3. result' \in [Chain -> BOOLEAN]
    BY <1>1, <1>5
  <2>4. d.pc \notin Acting \cup {"set", "wait", "created", "resume"}
    BY <2>1 DEF Acting
  <2>. QED BY <1>1, <1>3, <2>1, <2>2, <2>3, <2>4, ThreadSameTasks
<1>6. CASE RunPlain(r)
    BY <1>5, <1>6 DEF RunPlain, At
<1>7. CASE Trained(r)
    BY <1>5, <1>7 DEF Trained, At
<1>8. CASE Submit(r)
  <2> DEFINE n == Len(tasks) + 1
             d == [thread[r] EXCEPT !.pc = "created", !.id = n]
  <2>1. /\ thread[r].i \in Chain /\ up
        /\ tasks' = Append(tasks, [action |-> thread[r].i, state |-> "running"])
    BY <1>3, <1>8 DEF Submit, At
  <2>2. tasks' \in Seq(Tasks) /\ Len(tasks') = n /\ n \in Nat /\ Len(tasks) <= n
    BY <1>1, <2>1 DEF Tasks
  <2>3. thread[r] \in ThreadType(n)
    BY <1>1, <1>2, <2>2, TypesGrow
  <2>4. n \in 0 .. n /\ n # None
    BY <1>1, <2>2 DEF None
  <2>5. thread' = [thread EXCEPT ![r] = d]
    BY <1>1, <1>8, <2>2 DEF Submit
  <2> HIDE DEF n
  <2>6. d \in ThreadType(n) /\ d.pc = "created" /\ d.i \in Chain /\ d.id # None
    BY <2>1, <2>3, <2>4 DEF ThreadType, Labels
  <2>7. /\ task' = task /\ file' = file /\ current' = current /\ result' = result
        /\ res' = res /\ stop' = stop /\ stopper' = stopper /\ up' = up
        /\ counts' = counts
    BY <1>8 DEF Submit, object, user
  <2>8. task' \in [Chain -> 0 .. n] /\ file' \in FileType(n)
    BY <1>1, <2>2, <2>7, TypesGrow
  <2> HIDE DEF d
  <2>. QED BY <1>1, <1>3, <2>1, <2>2, <2>5, <2>6, <2>7, <2>8, ThreadKeepsType
<1>9. CASE Created(r)
  <2> DEFINE d == [thread[r] EXCEPT !.pc = "wait", !.id = None]
  <2>1. /\ thread[r].i \in Chain /\ thread[r].id # None /\ up
        /\ task' = [task EXCEPT ![thread[r].i] = thread[r].id]
    BY <1>3, <1>9 DEF Created, At
  <2>2. /\ task' \in [Chain -> 0 .. Len(tasks)] /\ task'[thread[r].i] # None
        /\ \A i \in Chain : task[i] # None => task'[i] # None
    BY <1>1, <1>2, <2>1
  <2>3. d \in ThreadType(Len(tasks)) /\ d.pc = "wait" /\ d.i = thread[r].i
    <3>1. None \in 0 .. Len(tasks)
        BY <1>1 DEF None
    <3>. QED BY <1>2, <3>1 DEF ThreadType, Labels
  <2>4. thread' = [thread EXCEPT ![r] = d]
    BY <1>1, <1>9 DEF Created
  <2>5. /\ tasks' = tasks /\ file' = file /\ current' = current /\ result' = result
        /\ res' = res /\ stop' = stop /\ stopper' = stopper /\ up' = up
        /\ counts' = counts
    BY <1>9 DEF Created, user
  <2> HIDE DEF d
  <2>. QED BY <1>1, <1>3, <2>1, <2>2, <2>3, <2>4, <2>5, ThreadSameTasks
<1>. QED BY <1>4, <1>6, <1>7, <1>8, <1>9

\* The thread of the caller.
LEMMA MainTyped == ASSUME Typed, Main PROVE Typed'
<1>1. /\ thread \in [Threads -> ThreadType(Len(tasks))] /\ Len(tasks) \in Nat
      /\ file \in FileType(Len(tasks)) /\ stop \in BOOLEAN
      /\ res \in {"none", "output", "error"} /\ current \in 0 .. Last
      /\ "main" \in Threads
    BY TypeFacts DEF Threads
<1>2. /\ thread["main"] \in ThreadType(Len(tasks))
      /\ At("main", "resume") => current # None
    BY <1>1 DEF Typed, Quiet
<1>3. CASE Look \/ Poll \/ LeaveExec
  <2>1. PICK d \in ThreadType(Len(tasks)) :
            /\ thread' = [thread EXCEPT !["main"] = d]
            /\ d.pc \in {"persist", "poll", "off"}
    <3>1. \/ \E l \in {"poll", "off"} : Goto("main", l)
          \/ \E l \in {"look", "leave"} : SaveThen("main", l)
        BY <1>3 DEF Look, Poll, LeaveExec
    <3>2. CASE \E l \in {"poll", "off"} : Goto("main", l)
        BY <1>1, <3>2, GotoAlone DEF Labels
    <3>3. CASE \E l \in {"look", "leave"} : SaveThen("main", l)
        BY <1>1, <3>3, SaveThenAlone
    <3>. QED BY <3>1, <3>2, <3>3
  <2>2. ~ At("main", "off") /\ UNCHANGED <<tasks, object, file, res, user>>
    BY <1>3 DEF Look, Poll, LeaveExec, At
  <2>. QED BY <1>1, <2>1, <2>2, ThreadAlone DEF object, Acting
<1>4. CASE ResumeAction
  <2> DEFINE d == [thread["main"] EXCEPT !.pc = "exec", !.i = current, !.resuming = TRUE]
  <2>1. current \in Chain /\ current \in 1 .. Last + 1
    BY <1>1, <1>2, <1>4, ChainFacts DEF ResumeAction, None
  <2>2. d \in ThreadType(Len(tasks)) /\ d.pc = "exec" /\ d.i = current
    BY <1>2, <2>1 DEF ThreadType, Labels
  <2>3. thread' = [thread EXCEPT !["main"] = d]
    BY <1>1, <1>4 DEF ResumeAction
  <2>4. ~ At("main", "off") /\ UNCHANGED <<tasks, object, file, res, user>>
    BY <1>4 DEF ResumeAction, At
  <2> HIDE DEF d
  <2>. QED BY <1>1, <2>1, <2>2, <2>3, <2>4, ThreadAlone DEF object
<1>5. CASE Resumed
  <2>1. PICK d \in ThreadType(Len(tasks)) :
            thread' = [thread EXCEPT !["main"] = d] /\ d.pc \in {"off", "begin"}
    <3>1. CASE current = Last
        BY <1>1, <1>5, <3>1, NewThreadType DEF Resumed, Labels
    <3>2. CASE current # Last
      <4> DEFINE d == [thread["main"] EXCEPT !.pc = "begin", !.i = current + 1]
      <4>1. current + 1 \in 1 .. Last + 1
        BY <1>1, ChainFacts
      <4>2. d \in ThreadType(Len(tasks)) /\ d.pc = "begin"
        BY <1>2, <4>1 DEF ThreadType, Labels
      <4>3. thread' = [thread EXCEPT !["main"] = d]
        BY <1>1, <1>5, <3>2 DEF Resumed
      <4>. QED BY <4>2, <4>3
    <3>. QED BY <3>1, <3>2
  <2>2. ~ At("main", "off") /\ UNCHANGED <<tasks, object, file, res, user>>
    BY <1>5 DEF Resumed, At
  <2>. QED BY <1>1, <2>1, <2>2, ThreadAlone DEF object, Acting
<1>. QED BY <1>3, <1>4, <1>5 DEF Main

\* The calls of exec and resume.
LEMMA CallTyped == ASSUME Typed, Exec \/ Resume PROVE Typed'
<1>1. /\ tasks \in Seq(Tasks) /\ Len(tasks) \in Nat
      /\ thread \in [Threads -> ThreadType(Len(tasks))]
      /\ file \in FileType(Len(tasks)) /\ stop \in BOOLEAN
      /\ res \in {"none", "output", "error"}
      /\ current \in 0 .. Last
      /\ task \in [Chain -> 0 .. Len(tasks)] /\ result \in [Chain -> BOOLEAN]
      /\ "main" \in Threads
    BY TypeFacts DEF Threads
<1>2. /\ stopper \in {"idle", "action"}
      /\ counts \in [{"stops", "resumes", "crashes", "execs", "aborts"} -> Nat]
    BY DEF Typed, TypeOK
<1>3. counts' \in [{"stops", "resumes", "crashes", "execs", "aborts"} -> Nat]
    BY <1>2 DEF Exec, Resume
<1>4. CASE Exec
  <2> DEFINE d == [NewThread("persist") EXCEPT !.next = "look"]
  <2>1. /\ NewThread("begin") \in ThreadType(Len(tasks))
        /\ NewThread("begin").pc = "begin"
        /\ NewThread("persist") \in ThreadType(Len(tasks))
        /\ NewThread("persist").pc = "persist"
    BY <1>1, NewThreadType DEF Labels
  <2>2. d \in ThreadType(Len(tasks)) /\ d.pc = "persist"
    BY <2>1 DEF ThreadType
  <2>3. \A r \in Threads : thread'[r] = IF r = "worker" THEN NewThread("begin") ELSE d
    BY <1>4 DEF Exec
  <2> HIDE DEF d
  <2>4. thread' \in [Threads -> ThreadType(Len(tasks))]
    BY <1>4, <2>1, <2>2 DEF Exec, d
  <2>5. /\ \A r \in Threads : thread'[r].pc \in {"begin", "persist"}
        /\ tasks' = tasks /\ current' = current /\ task' = task /\ result' = result
        /\ stop' = stop /\ file' = file /\ res' = res /\ stopper' = stopper
        /\ up' = up /\ up
    BY <1>4, <2>1, <2>2, <2>3 DEF Exec, object
  <2>6. Snapshot' \in SnapshotType(Len(tasks)) /\ file \in FileType(Len(tasks))
    BY <1>1, <2>5 DEF Snapshot, SnapshotType
  <2>7. TypeOK'
    BY <1>1, <1>2, <1>3, <2>4, <2>5, <2>6 DEF TypeOK, At, Acting, Tasks, FileType
  <2>8. Quiet'
    BY <1>1, <2>5 DEF Quiet, At
  <2>. QED BY <2>7, <2>8 DEF Typed
<1>5. CASE Resume
  <2>1. PICK d \in ThreadType(Len(tasks)) :
            thread' = [thread EXCEPT !["main"] = d] /\ d.pc = "resume"
    BY <1>1, <1>5, GotoAlone DEF Resume, Labels
  <2>2. /\ tasks' = tasks /\ current' = current /\ task' = task /\ result' = result
        /\ stop' = FALSE /\ file' = file /\ res' = res
        /\ stopper' = stopper /\ up' = up /\ up /\ current # None
    BY <1>5 DEF Resume
  <2>3. /\ tasks' \in Seq(Tasks) /\ Len(tasks) <= Len(tasks')
        /\ d \in ThreadType(Len(tasks')) /\ file' \in FileType(Len(tasks'))
        /\ task' \in [Chain -> 0 .. Len(tasks')]
    BY <1>1, <2>2
  <2>. QED BY <1>1, <1>3, <2>1, <2>2, <2>3, ThreadKeepsType DEF Acting
<1>. QED BY <1>4, <1>5

\* What leaves the threads where they are.
LEMMA OtherTyped ==
    ASSUME Typed, Stop \/ StopAction \/ \E t \in DOMAIN tasks : TaskEnds(t)
    PROVE  Typed'
<1>1. /\ tasks \in Seq(Tasks) /\ Len(tasks) \in Nat
      /\ thread \in [Threads -> ThreadType(Len(tasks))]
      /\ file \in FileType(Len(tasks)) /\ current \in 0 .. Last
      /\ task \in [Chain -> 0 .. Len(tasks)] /\ result \in [Chain -> BOOLEAN]
    BY TypeFacts
<1>2. /\ counts \in [{"stops", "resumes", "crashes", "execs", "aborts"} -> Nat]
      /\ stopper \in {"idle", "action"} /\ stop \in BOOLEAN
    BY DEF Typed, TypeOK
<1>3. \/ tasks' = tasks
      \/ \E t \in DOMAIN tasks, s \in {"finish", "fail", "stop"} :
            tasks' = [tasks EXCEPT ![t].state = s]
  <2>1. CASE Stop
    BY <2>1 DEF Stop
  <2>2. CASE StopAction
    <3>1. CASE tasks' = tasks
        BY <3>1
    <3>2. CASE tasks' # tasks
      <4>1. /\ current # None /\ task[current] # None
            /\ tasks' = [tasks EXCEPT ![task[current]].state = "stop"]
        BY <2>2, <3>2 DEF StopAction
      <4>2. task[current] \in DOMAIN tasks
        BY <1>1, <4>1, ChainFacts DEF None
      <4>. QED BY <4>1, <4>2
    <3>. QED BY <3>1, <3>2
  <2>3. CASE \E t \in DOMAIN tasks : TaskEnds(t)
    BY <2>3 DEF TaskEnds
  <2>. QED BY <2>1, <2>2, <2>3
<1>4. tasks' \in Seq(Tasks) /\ Len(tasks') = Len(tasks)
  <2>1. CASE tasks' = tasks
    BY <1>1, <2>1
  <2>2. CASE \E t \in DOMAIN tasks, s \in {"finish", "fail", "stop"} :
                tasks' = [tasks EXCEPT ![t].state = s]
    <3>1. PICK t \in DOMAIN tasks, s \in {"finish", "fail", "stop"} :
                tasks' = [tasks EXCEPT ![t].state = s]
        BY <2>2
    <3>2. tasks[t] \in Tasks
        BY <1>1, <3>1
    <3>3. [tasks[t] EXCEPT !.state = s] \in Tasks
        BY <3>1, <3>2 DEF Tasks
    <3> DEFINE e == [tasks[t] EXCEPT !.state = s]
    <3>4. tasks' = [tasks EXCEPT ![t] = e]
        BY <3>1
    <3> HIDE DEF e
    <3>. QED BY <1>1, <3>1, <3>3, <3>4 DEF e
  <2>. QED BY <1>3, <2>1, <2>2
<1>5. /\ current' = current /\ task' = task /\ result' = result /\ file' = file
      /\ res' = res /\ thread' = thread /\ up' = up
    BY DEF Stop, StopAction, TaskEnds, object, user
<1>6. /\ counts' \in [{"stops", "resumes", "crashes", "execs", "aborts"} -> Nat]
      /\ stopper' \in {"idle", "action"} /\ stop' \in BOOLEAN
  <2>1. CASE Stop
    BY <1>2, <2>1 DEF Stop
  <2>2. CASE StopAction
    BY <1>2, <2>2 DEF StopAction, object
  <2>3. CASE \E t \in DOMAIN tasks : TaskEnds(t)
    BY <1>2, <2>3 DEF TaskEnds, object, user
  <2>. QED BY <2>1, <2>2, <2>3
<1>7. Snapshot' \in SnapshotType(Len(tasks))
    BY <1>1, <1>5 DEF Snapshot, SnapshotType
<1>8. TypeOK'
    BY <1>1, <1>4, <1>5, <1>6, <1>7 DEF Typed, TypeOK, At, Tasks, FileType
<1>9. Quiet'
    BY <1>5 DEF Typed, Quiet, At
<1>. QED BY <1>8, <1>9 DEF Typed

\* The end of the process, and its restart.
LEMMA RestartTyped == ASSUME Typed, Crash \/ Load PROVE Typed'
<1>1. /\ tasks \in Seq(Tasks) /\ Len(tasks) \in Nat
      /\ thread \in [Threads -> ThreadType(Len(tasks))]
      /\ file \in FileType(Len(tasks)) /\ tasks' = tasks /\ file' = file
    BY TypeFacts DEF Crash, Load
<1>2. /\ counts \in [{"stops", "resumes", "crashes", "execs", "aborts"} -> Nat]
      /\ stopper \in {"idle", "action"} /\ stop \in BOOLEAN
      /\ res \in {"none", "output", "error"}
    BY DEF Typed, TypeOK
<1>3. CASE Crash
  <2>1. Snapshot' = Blank
    BY <1>3 DEF Crash, Snapshot, Blank
  <2>2. Blank \in SnapshotType(Len(tasks))
    BY <1>1, BlankType
  <2>3. /\ \A r \in Threads : thread'[r] = NewThread("off") /\ thread'[r].pc = "off"
        /\ thread' \in [Threads -> ThreadType(Len(tasks))]
    BY <1>1, <1>3, NewThreadType DEF Crash, Labels
  <2>4. /\ counts' \in [{"stops", "resumes", "crashes", "execs", "aborts"} -> Nat]
        /\ stopper' \in {"idle", "action"} /\ stop' \in BOOLEAN
        /\ res' \in {"none", "output", "error"} /\ up' \in BOOLEAN
    <3>1. counts' \in [{"stops", "resumes", "crashes", "execs", "aborts"} -> Nat]
        BY <1>2, <1>3 DEF Crash
    <3>2. /\ stopper' = "idle" /\ stop' = FALSE
          /\ res' = "none" /\ up' = FALSE
        BY <1>3 DEF Crash
    <3>. QED BY <3>1, <3>2
  <2>5. TypeOK'
    BY <1>1, <2>1, <2>2, <2>3, <2>4 DEF TypeOK, At, Acting, Tasks, FileType
  <2>6. Quiet'
    BY <2>3 DEF Quiet, At, Threads
  <2>. QED BY <2>5, <2>6 DEF Typed
<1>4. CASE Load
  <2>1. /\ thread' = thread /\ \A r \in Threads : At(r, "off")
        /\ stop' = stop /\ res' = res /\ stopper' = stopper
        /\ counts' = counts /\ up' \in BOOLEAN
    BY <1>4 DEF Load, Typed, Quiet
  <2>2. file.snap \in SnapshotType(Len(tasks))
    BY <1>1 DEF FileType
  <2>3. Snapshot' \in SnapshotType(Len(tasks))
    BY <1>4, <2>2 DEF Load, Snapshot, SnapshotType
  <2>4. TypeOK'
    BY <1>1, <1>2, <2>1, <2>3 DEF TypeOK, At, Acting, Tasks, FileType
  <2>5. Quiet'
    BY <2>1 DEF Quiet, At, Threads
  <2>. QED BY <2>4, <2>5 DEF Typed
<1>. QED BY <1>3, <1>4

LEMMA StutterTyped == ASSUME Typed, UNCHANGED vars PROVE Typed'
<1>1. TypeOK'
    BY DEF Typed, TypeOK, vars, object, user, Snapshot, At
<1>2. Quiet'
    BY DEF Typed, Quiet, vars, object, user, At
<1>. QED BY <1>1, <1>2 DEF Typed

LEMMA NextTyped == Typed /\ [Next]_vars => Typed'
<1> SUFFICES ASSUME Typed, [Next]_vars PROVE Typed'
    OBVIOUS
<1>1. CASE \E r \in Threads : Step(r)
    BY <1>1, SaveTyped, MoveTyped, ActTyped DEF Step, Run
<1>2. CASE Main
    BY <1>2, MainTyped
<1>3. CASE Exec \/ Resume
    BY <1>3, CallTyped
<1>4. CASE Stop \/ StopAction \/ \E t \in DOMAIN tasks : TaskEnds(t)
    BY <1>4, OtherTyped
<1>5. CASE Crash \/ Load
    BY <1>5, RestartTyped
<1>6. CASE UNCHANGED vars
    BY <1>6, StutterTyped
<1>. QED BY <1>1, <1>2, <1>3, <1>4, <1>5, <1>6 DEF Next

\* Every variable keeps its type; a thread that runs an action runs one of the
\* chain, and one that waits for a remote task waits for a task that there is.
THEOREM TypeCorrect == Spec => []TypeOK
<1>1. Typed => TypeOK
    BY DEF Typed
<1>. QED BY <1>1, InitTyped, NextTyped, PTL DEF Spec

-----------------------------------------------------------------------------
(* The order of the actions.  When resume is called only after the worker   *)
(* has ended, one thread at a time goes through the chain; so an action's   *)
(* predecessors keep the results they had when it was reached.  A save does *)
(* not stop that thread: it reads current_action first and the results one  *)
(* by one later, when they can only have grown.                             *)

Saving == {"persist", "read", "write"}

\* d goes through the chain, saves included.
Going(d) ==
    \/ d.pc \in {"begin", "test", "set", "finish", "return", "resume", "resumed"}
    \/ d.pc \in Acting
    \/ d.pc \in Saving /\ d.next = "test"

OneRunner == Going(thread["main"]) => At("worker", "off")

\* The actions before i have their results in f.
Before(i, f) == \A j \in Chain : j < i => f[j]

\* What a thread d holds, for current_action c and the results f.
Settled(d, c, f) ==
    /\ \/ d.pc \in {"begin", "test", "set"} \cup Acting
       \/ d.pc \in Saving /\ d.next = "test"
       => Before(d.i, f)
    /\ d.pc \in Acting \cup {"resumed"} => c = d.i
    /\ d.pc = "resumed" => c \in Chain /\ f[c]
    /\ d.pc \in {"read", "write"} =>
          /\ Before(d.snap.current, f)
          /\ \A j \in Chain : j < d.snap.current /\ j <= d.read => d.snap.result[j]
    /\ d.pc = "write" => d.read = Last

FileSettled(s) == s.state = "saved" => Before(s.snap.current, s.snap.result)

Ordered ==
    /\ OneRunner
    /\ Before(current, result)
    /\ \A r \in Threads : Settled(thread[r], current, result)
    /\ FileSettled(file)

\* A step of thread r to d keeps the order, when what d holds is settled and only
\* a thread that goes through the chain changes current_action.
LEMMA OrderKept ==
    ASSUME Typed, Ordered, NEW r \in Threads, NEW d,
           thread' = [thread EXCEPT ![r] = d],
           r = "worker" => ~ At("worker", "off"),
           Going(d) => Going(thread[r]) \/ At("worker", "off"),
           current' = current \/ Going(thread[r]),
           \A j \in Chain : result[j] => result'[j],
           Before(current', result'),
           Settled(d, current', result'),
           FileSettled(file')
    PROVE  Ordered'
<1>1. thread \in [Threads -> ThreadType(Len(tasks))] /\ current \in 0 .. Last
    BY TypeFacts
<1>2. thread'[r] = d /\ \A e \in Threads : e # r => thread'[e] = thread[e]
    BY <1>1
<1>3. OneRunner'
    BY <1>2 DEF Ordered, OneRunner, Threads, At
<1>4. ASSUME NEW e \in Threads, e # r PROVE Settled(thread[e], current', result')
  <2>1. Settled(thread[e], current, result)
    BY DEF Ordered
  <2>2. thread[e].pc \in Acting \cup {"resumed"} => Going(thread[e])
    BY DEF Going
  <2>3. ~ (Going(thread[e]) /\ Going(thread[r]))
    <3>1. At("worker", "off") => ~ Going(thread["worker"])
        BY DEF Going, At, Acting, Saving
    <3>. QED BY <1>4, <3>1 DEF Ordered, OneRunner, Threads
  <2>4. thread[e].pc \in Acting \cup {"resumed"} => current' = current
    BY <2>2, <2>3
  <2>. QED BY <2>1, <2>4 DEF Settled, Before
<1>5. \A e \in Threads : Settled(thread'[e], current', result')
    BY <1>2, <1>4
<1>. QED BY <1>3, <1>5 DEF Ordered

\* The saves read the pipeline in an order that keeps the predecessors' results.
LEMMA SaveOrdered == ASSUME Typed, Ordered, NEW r \in Threads, Save(r) PROVE Ordered'
<1>1. /\ thread \in [Threads -> ThreadType(Len(tasks))] /\ current \in 0 .. Last
      /\ Len(tasks) \in Nat
    BY TypeFacts
<1>2. thread[r] \in ThreadType(Len(tasks)) /\ thread[r].snap \in SnapshotType(Len(tasks))
    BY <1>1 DEF ThreadType
<1>3. /\ Before(current, result) /\ Settled(thread[r], current, result)
      /\ FileSettled(file)
    BY DEF Ordered
<1>4. current' = current /\ result' = result
    BY DEF Save, ReadCurrent, ReadAction, OpenFile, WriteFile, SaveFails, object
<1>5. CASE ReadCurrent(r)
  <2> DEFINE s == [Blank EXCEPT !.current = current]
             d == [thread[r] EXCEPT !.snap = s, !.read = 0, !.pc = "read"]
  <2>1. s.current = current
    BY DEF Blank
  <2> HIDE DEF s
  <2>2. /\ d.pc = "read" /\ d.next = thread[r].next /\ d.i = thread[r].i
        /\ d.snap = s /\ d.read = 0
    BY <1>2 DEF ThreadType
  <2>3. thread' = [thread EXCEPT ![r] = d]
    BY <1>1, <1>5 DEF ReadCurrent, s
  <2>4. thread[r].pc = "persist" /\ file' = file
    BY <1>5 DEF ReadCurrent, At
  <2> HIDE DEF d
  <2>5. Settled(d, current, result)
    BY <1>3, <2>1, <2>2, <2>4 DEF Settled, Before, Acting, Saving, Chain
  <2>6. Going(d) => Going(thread[r])
    BY <2>2, <2>4 DEF Going, Acting, Saving
  <2>. QED BY <1>3, <1>4, <2>3, <2>4, <2>5, <2>6, OrderKept DEF At
<1>6. CASE ReadAction(r)
  <2> DEFINE i == thread[r].read + 1
             s == [thread[r].snap EXCEPT !.task[i] = task[i], !.result[i] = result[i]]
             d == [thread[r] EXCEPT !.read = i, !.snap = s]
  <2>1. i \in Chain
    BY <1>2, <1>6, ChainFacts DEF ReadAction, ThreadType
  <2>2. /\ s.current = thread[r].snap.current
        /\ \A j \in Chain : s.result[j] = IF j = i THEN result[j] ELSE thread[r].snap.result[j]
    BY <1>2, <2>1 DEF SnapshotType
  <2>3. thread' = [thread EXCEPT ![r] = d]
    BY <1>6, ReadMore
  <2>4. thread[r].pc = "read" /\ file' = file
    BY <1>6 DEF ReadAction, At
  <2> HIDE DEF s
  <2>5. /\ d.pc = "read" /\ d.next = thread[r].next /\ d.i = thread[r].i
        /\ d.snap = s /\ d.read = thread[r].read + 1
    BY <1>2, <2>4 DEF ThreadType
  <2> HIDE DEF d
  <2>6. \A j \in Chain : j < s.current /\ j <= d.read => s.result[j]
    <3> SUFFICES ASSUME NEW j \in Chain, j < s.current, j <= d.read PROVE s.result[j]
        OBVIOUS
    <3>1. CASE j = i
        BY <1>3, <2>2, <2>4, <3>1 DEF Settled, Before
    <3>2. CASE j # i
      <4>1. j <= thread[r].read
        BY <1>2, <2>5, <3>2 DEF ThreadType, Chain
      <4>. QED BY <1>3, <2>2, <2>4, <3>2, <4>1 DEF Settled
    <3>. QED BY <3>1, <3>2
  <2>7. Settled(d, current, result)
    BY <1>3, <2>2, <2>4, <2>5, <2>6 DEF Settled, Acting, Saving
  <2>8. Going(d) => Going(thread[r])
    BY <2>4, <2>5 DEF Going, Acting, Saving
  <2>. QED BY <1>3, <1>4, <2>3, <2>4, <2>7, <2>8, OrderKept DEF At
<1>7. CASE OpenFile(r)
  <2>1. PICK d \in ThreadType(Len(tasks)) :
            /\ thread' = [thread EXCEPT ![r] = d]
            /\ d.pc = "write" /\ d.i = thread[r].i /\ d.next = thread[r].next
            /\ d.read = thread[r].read /\ d.snap = thread[r].snap
    BY <1>7, GotoAlone DEF OpenFile, Labels
  <2>2. thread[r].pc = "read" /\ thread[r].read = Last /\ FileSettled(file')
    BY <1>7 DEF OpenFile, At, FileSettled
  <2>3. Settled(d, current, result)
    BY <1>3, <2>1, <2>2 DEF Settled, Acting, Saving
  <2>4. Going(d) => Going(thread[r])
    BY <2>1, <2>2 DEF Going, Acting, Saving
  <2>. QED BY <1>3, <1>4, <2>1, <2>2, <2>3, <2>4, OrderKept DEF At
<1>8. CASE WriteFile(r)
  <2> DEFINE d == [thread[r] EXCEPT !.pc = thread[r].next, !.next = "off",
                                    !.read = 0, !.snap = Blank]
  <2>1. d.pc = thread[r].next /\ d.i = thread[r].i
    BY <1>2 DEF ThreadType
  <2>2. thread' = [thread EXCEPT ![r] = d]
    BY <1>1, <1>8 DEF WriteFile
  <2>3. thread[r].pc = "write" /\ thread[r].next \in {"off", "test", "look", "leave"}
    BY <1>2, <1>8 DEF WriteFile, At, ThreadType
  <2>4. FileSettled(file')
    <3>1. Before(thread[r].snap.current, thread[r].snap.result)
        BY <1>3, <2>3, ChainFacts DEF Settled, Before
    <3>. QED BY <1>8, <3>1 DEF WriteFile, FileSettled, Saved
  <2> HIDE DEF d
  <2>5. Settled(d, current, result)
    BY <1>3, <2>1, <2>3 DEF Settled, Acting, Saving
  <2>6. Going(d) => Going(thread[r])
    BY <2>1, <2>3 DEF Going, Acting, Saving
  <2>. QED BY <1>3, <1>4, <2>2, <2>3, <2>4, <2>5, <2>6, OrderKept DEF At
<1>9. CASE SaveFails(r)
  <2>1. /\ thread' = [thread EXCEPT ![r] = NewThread("off")]
        /\ thread[r].pc # "off" /\ file' = file
    BY <1>9 DEF SaveFails, End, At
  <2>2. NewThread("off").pc = "off"
    BY DEF NewThread
  <2>3. Settled(NewThread("off"), current, result) /\ ~ Going(NewThread("off"))
    BY <2>2 DEF Settled, Going, Acting, Saving
  <2>. QED BY <1>3, <1>4, <2>1, <2>3, OrderKept DEF At
<1>. QED BY <1>5, <1>6, <1>7, <1>8, <1>9 DEF Save

\* An action that returns with its result leaves the next one all it needs.
LEMMA DoneOrdered ==
    ASSUME Typed, Ordered, NEW r \in Threads, Done(r),
           thread[r].pc \in {"exec", "wait"}, result'[thread[r].i],
           \A j \in Chain : result[j] => result'[j],
           current' = current, file' = file
    PROVE  Ordered'
<1>1. thread[r].i \in Chain
    BY DEF Typed, TypeOK, Acting
<1>2. /\ Before(current, result) /\ Settled(thread[r], current, result)
      /\ FileSettled(file)
    BY DEF Ordered
<1>3. current = thread[r].i /\ Before(thread[r].i, result) /\ Going(thread[r])
    BY <1>2 DEF Settled, Acting, Going
<1>4. PICK d \in ThreadType(Len(tasks)) :
          /\ thread' = [thread EXCEPT ![r] = d]
          /\ \/ d.pc = "resumed" /\ d.i = thread[r].i
             \/ d.pc = "persist" /\ d.next = "test" /\ d.i = thread[r].i + 1
    BY <1>1, DoneAlone
<1>5. Before(thread[r].i + 1, result')
    BY <1>1, <1>3 DEF Before, Chain
<1>6. Before(current, result')
    BY <1>2 DEF Before
<1>7. Settled(d, current, result')
    BY <1>1, <1>3, <1>4, <1>5 DEF Settled, Acting, Saving
<1>. QED BY <1>2, <1>3, <1>4, <1>6, <1>7, OrderKept DEF At

\* The chain.
LEMMA RunOrdered == ASSUME Typed, Ordered, NEW r \in Threads, Run(r) PROVE Ordered'
<1>1. /\ thread \in [Threads -> ThreadType(Len(tasks))] /\ current \in 0 .. Last
      /\ Len(tasks) \in Nat /\ result \in [Chain -> BOOLEAN]
    BY TypeFacts
<1>2. /\ Before(current, result) /\ Settled(thread[r], current, result)
      /\ FileSettled(file)
    BY DEF Ordered
<1>3. thread[r].pc \in {"set", "exec", "created", "wait"} => thread[r].i \in Chain
    BY DEF Typed, TypeOK, Acting
<1>4. file' = file /\ \A j \in Chain : result[j] => result'[j]
    BY <1>1 DEF Run, Begin, TestStop, SetCurrent, RunPlain, ResumeDone, ResumeWait,
                Submit, Created, Trained, Raise, Finish, Return, object
<1>5. CASE Begin(r)
  <2>1. PICK d \in ThreadType(Len(tasks)) :
            /\ thread' = [thread EXCEPT ![r] = d]
            /\ d.pc = "persist" /\ d.next = "test" /\ d.i = thread[r].i
    BY <1>5, SaveThenAlone DEF Begin
  <2>2. thread[r].pc = "begin" /\ current' = current /\ result' = result
    BY <1>5 DEF Begin, At
  <2>3. Settled(d, current, result) /\ Going(thread[r])
    BY <1>2, <2>1, <2>2 DEF Settled, Going, Acting, Saving
  <2>. QED BY <1>2, <1>4, <2>1, <2>2, <2>3, OrderKept DEF At
<1>6. CASE TestStop(r)
  <2>1. PICK l \in {"finish", "set"} : Goto(r, l)
    BY <1>6 DEF TestStop
  <2>2. PICK d \in ThreadType(Len(tasks)) :
            thread' = [thread EXCEPT ![r] = d] /\ d.pc = l /\ d.i = thread[r].i
    BY <2>1, GotoAlone DEF Labels
  <2>3. thread[r].pc = "test" /\ current' = current /\ result' = result
    BY <1>6 DEF TestStop, At, object
  <2>4. Settled(d, current, result) /\ Going(thread[r])
    BY <1>2, <2>1, <2>2, <2>3 DEF Settled, Going, Acting, Saving
  <2>. QED BY <1>2, <1>4, <2>2, <2>3, <2>4, OrderKept DEF At
<1>7. CASE SetCurrent(r)
  <2>1. PICK d \in ThreadType(Len(tasks)) :
            thread' = [thread EXCEPT ![r] = d] /\ d.pc = "exec" /\ d.i = thread[r].i
    BY <1>7, GotoAlone DEF SetCurrent, Labels
  <2>2. thread[r].pc = "set" /\ current' = thread[r].i /\ result' = result
    BY <1>7 DEF SetCurrent, At
  <2>3. Before(thread[r].i, result)
    BY <1>2, <2>2 DEF Settled
  <2>4. Settled(d, thread[r].i, result) /\ Going(thread[r])
    BY <2>1, <2>2, <2>3 DEF Settled, Going, Acting, Saving
  <2>. QED BY <1>2, <1>4, <2>1, <2>2, <2>3, <2>4, OrderKept DEF At
<1>8. CASE RunPlain(r) \/ Trained(r)
  <2>1. /\ Done(r) /\ thread[r].pc \in {"exec", "wait"}
        /\ result' = [result EXCEPT ![thread[r].i] = TRUE]
        /\ current' = current
    BY <1>8 DEF RunPlain, Trained, At
  <2>2. result'[thread[r].i]
    BY <1>1, <1>3, <2>1
  <2>. QED BY <1>4, <2>1, <2>2, DoneOrdered
<1>9. CASE ResumeDone(r)
  <2>1. /\ Done(r) /\ thread[r].pc = "exec" /\ result[thread[r].i]
        /\ current' = current /\ result' = result
    BY <1>9 DEF ResumeDone, AlreadyDone, At, object
  <2>. QED BY <1>4, <2>1, DoneOrdered
<1>10. CASE ResumeWait(r) \/ Submit(r) \/ Created(r)
  <2> DEFINE d == thread'[r]
  <2>1. /\ d.pc \in {"wait", "created"} /\ d.i = thread[r].i
        /\ thread' = [thread EXCEPT ![r] = d]
    <3>1. thread[r] \in ThreadType(Len(tasks))
        BY <1>1
    <3>2. CASE ResumeWait(r)
        BY <1>1, <3>1, <3>2 DEF ResumeWait, Goto, ThreadType
    <3>3. CASE Submit(r)
        BY <1>1, <3>1, <3>3 DEF Submit, ThreadType
    <3>4. CASE Created(r)
        BY <1>1, <3>1, <3>4 DEF Created, ThreadType
    <3>. QED BY <1>10, <3>2, <3>3, <3>4
  <2>2. /\ thread[r].pc \in {"exec", "created"}
        /\ current' = current /\ result' = result
    BY <1>10 DEF ResumeWait, Submit, Created, At, object
  <2> HIDE DEF d
  <2>3. Settled(d, current, result) /\ Going(thread[r])
    BY <1>2, <2>1, <2>2 DEF Settled, Going, Acting, Saving
  <2>. QED BY <1>2, <1>4, <2>1, <2>2, <2>3, OrderKept DEF At
<1>11. CASE Raise(r) \/ Return(r)
  <2>1. /\ thread' = [thread EXCEPT ![r] = NewThread("off")]
        /\ thread[r].pc # "off" /\ current' = current /\ result' = result
    BY <1>11 DEF Raise, Return, End, At, object
  <2>2. NewThread("off").pc = "off"
    BY DEF NewThread
  <2>3. Settled(NewThread("off"), current, result) /\ ~ Going(NewThread("off"))
    BY <2>2 DEF Settled, Going, Acting, Saving
  <2>. QED BY <1>2, <1>4, <2>1, <2>3, OrderKept DEF At
<1>12. CASE Finish(r)
  <2>1. PICK d \in ThreadType(Len(tasks)) :
            thread' = [thread EXCEPT ![r] = d] /\ d.pc = "return"
    BY <1>12, GotoAlone DEF Finish, Labels
  <2>2. thread[r].pc = "finish" /\ current' = current /\ result' = result
    BY <1>12 DEF Finish, At
  <2>3. Settled(d, current, result) /\ Going(thread[r])
    BY <2>1, <2>2 DEF Settled, Going, Acting, Saving
  <2>. QED BY <1>2, <1>4, <2>1, <2>2, <2>3, OrderKept DEF At
<1>. QED BY <1>5, <1>6, <1>7, <1>8, <1>9, <1>10, <1>11, <1>12 DEF Run

\* The thread of the caller.
LEMMA MainOrdered == ASSUME Typed, Ordered, Main PROVE Ordered'
<1>1. /\ thread \in [Threads -> ThreadType(Len(tasks))] /\ current \in 0 .. Last
      /\ Len(tasks) \in Nat /\ "main" \in Threads
    BY TypeFacts DEF Threads
<1>2. /\ thread["main"] \in ThreadType(Len(tasks))
      /\ At("main", "resume") => current # None
    BY <1>1 DEF Typed, Quiet
<1>3. /\ Before(current, result) /\ Settled(thread["main"], current, result)
      /\ FileSettled(file)
    BY <1>1 DEF Ordered
<1>4. current' = current /\ result' = result /\ file' = file
    BY DEF Main, Look, Poll, LeaveExec, ResumeAction, Resumed, object
<1>5. CASE Look \/ Poll \/ LeaveExec
  <2>1. PICK d \in ThreadType(Len(tasks)) :
            /\ thread' = [thread EXCEPT !["main"] = d]
            /\ \/ d.pc \in {"poll", "off"}
               \/ d.pc = "persist" /\ d.next \in {"look", "leave"}
    <3>1. \/ \E l \in {"poll", "off"} : Goto("main", l)
          \/ \E l \in {"look", "leave"} : SaveThen("main", l)
        BY <1>5 DEF Look, Poll, LeaveExec
    <3>2. CASE \E l \in {"poll", "off"} : Goto("main", l)
        BY <1>1, <3>2, GotoAlone DEF Labels
    <3>3. CASE \E l \in {"look", "leave"} : SaveThen("main", l)
        BY <1>1, <3>3, SaveThenAlone
    <3>. QED BY <3>1, <3>2, <3>3
  <2>2. Settled(d, current, result) /\ ~ Going(d)
    BY <2>1 DEF Settled, Going, Acting, Saving
  <2>. QED BY <1>1, <1>3, <1>4, <2>1, <2>2, OrderKept
<1>6. CASE ResumeAction
  <2> DEFINE d == [thread["main"] EXCEPT !.pc = "exec", !.i = current, !.resuming = TRUE]
  <2>1. thread["main"].pc = "resume" /\ thread' = [thread EXCEPT !["main"] = d]
    BY <1>1, <1>6 DEF ResumeAction, At
  <2>2. d.pc = "exec" /\ d.i = current
    BY <1>2 DEF ThreadType
  <2> HIDE DEF d
  <2>3. Settled(d, current, result) /\ Going(thread["main"])
    BY <1>3, <2>1, <2>2 DEF Settled, Going, Acting, Saving
  <2>. QED BY <1>1, <1>3, <1>4, <2>1, <2>3, OrderKept
<1>7. CASE Resumed
  <2>1. thread["main"].pc = "resumed"
    BY <1>7 DEF Resumed, At
  <2>2. current \in Chain /\ result[current] /\ Going(thread["main"])
    BY <1>3, <2>1 DEF Settled, Going
  <2>3. CASE current = Last
    <3>1. /\ thread' = [thread EXCEPT !["main"] = NewThread("off")]
          /\ NewThread("off").pc = "off"
        BY <1>7, <2>3 DEF Resumed, NewThread
    <3>2. Settled(NewThread("off"), current, result) /\ ~ Going(NewThread("off"))
        BY <3>1 DEF Settled, Going, Acting, Saving
    <3>. QED BY <1>1, <1>3, <1>4, <3>1, <3>2, OrderKept
  <2>4. CASE current # Last
    <3> DEFINE d == [thread["main"] EXCEPT !.pc = "begin", !.i = current + 1]
    <3>1. thread' = [thread EXCEPT !["main"] = d]
        BY <1>1, <1>7, <2>4 DEF Resumed
    <3>2. d.pc = "begin" /\ d.i = current + 1
        BY <1>2 DEF ThreadType
    <3> HIDE DEF d
    <3>3. Before(current + 1, result)
        BY <1>3, <2>2 DEF Before, Chain
    <3>4. Settled(d, current, result)
        BY <3>2, <3>3 DEF Settled, Acting, Saving
    <3>. QED BY <1>1, <1>3, <1>4, <2>2, <3>1, <3>4, OrderKept
  <2>. QED BY <2>3, <2>4
<1>. QED BY <1>5, <1>6, <1>7 DEF Main

\* The calls of exec and resume: with a patient user, both find no worker going.
LEMMA CallOrdered ==
    ASSUME PatientUser, Typed, Ordered, Exec \/ Resume PROVE Ordered'
<1>1. /\ thread \in [Threads -> ThreadType(Len(tasks))] /\ "main" \in Threads
      /\ Threads = {"main", "worker"}
    BY TypeFacts DEF Threads
<1>2. Before(current, result) /\ FileSettled(file)
    BY DEF Ordered
<1>3. current' = current /\ result' = result /\ file' = file
    BY DEF Exec, Resume, object
<1>4. CASE Exec
  <2> DEFINE d == [NewThread("persist") EXCEPT !.next = "look"]
  <2>1. /\ d.pc = "persist" /\ d.next = "look"
        /\ NewThread("begin").pc = "begin" /\ NewThread("begin").i = 1
    BY DEF NewThread
  <2>2. thread'["worker"] = NewThread("begin") /\ thread'["main"] = d
    BY <1>1, <1>4 DEF Exec
  <2> HIDE DEF d
  <2>3. Settled(d, current, result) /\ ~ Going(d)
    BY <2>1 DEF Settled, Going, Acting, Saving
  <2>4. Settled(NewThread("begin"), current, result)
    BY <2>1 DEF Settled, Before, Acting, Saving, Chain
  <2>. QED BY <1>1, <1>2, <1>3, <2>2, <2>3, <2>4 DEF Ordered, OneRunner
<1>5. CASE Resume
  <2>1. PICK d \in ThreadType(Len(tasks)) :
            thread' = [thread EXCEPT !["main"] = d] /\ d.pc = "resume"
    BY <1>1, <1>5, GotoAlone DEF Resume, Labels
  <2>2. At("worker", "off")
    BY <1>5 DEF Resume
  <2>3. Settled(d, current, result)
    BY <2>1 DEF Settled, Acting, Saving
  <2>. QED BY <1>1, <1>2, <1>3, <2>1, <2>2, <2>3, OrderKept
<1>. QED BY <1>4, <1>5

LEMMA OtherOrdered ==
    ASSUME Typed, Ordered,
           \/ Stop \/ StopAction \/ \E t \in DOMAIN tasks : TaskEnds(t)
           \/ UNCHANGED vars
    PROVE  Ordered'
<1>1. current' = current /\ result' = result /\ file' = file /\ thread' = thread
    BY DEF Stop, StopAction, TaskEnds, vars, object
<1>. QED BY <1>1 DEF Ordered, OneRunner, At

\* The end of the process, and its restart: what is loaded was saved.
LEMMA RestartOrdered == ASSUME Typed, Ordered, Crash \/ Load PROVE Ordered'
<1>1. FileSettled(file) /\ file' = file
    BY DEF Ordered, Crash, Load
<1>2. CASE Crash
  <2>1. /\ \A r \in Threads : thread'[r] = NewThread("off")
        /\ current' = None /\ NewThread("off").pc = "off"
    BY <1>2 DEF Crash, NewThread
  <2>2. Settled(NewThread("off"), current', result') /\ ~ Going(NewThread("off"))
    BY <2>1 DEF Settled, Going, Acting, Saving
  <2>3. Before(current', result')
    BY <2>1 DEF Before, None, Chain
  <2>. QED BY <1>1, <2>1, <2>2, <2>3 DEF Ordered, OneRunner, Threads
<1>3. CASE Load
  <2>1. /\ thread' = thread /\ \A r \in Threads : thread[r].pc = "off"
        /\ current' = file.snap.current /\ result' = file.snap.result
        /\ file.state = "saved"
    BY <1>3 DEF Load, Typed, Quiet, At
  <2>2. \A r \in Threads : Settled(thread[r], current', result') /\ ~ Going(thread[r])
    BY <2>1 DEF Settled, Going, Acting, Saving
  <2>3. Before(current', result')
    BY <1>1, <2>1 DEF FileSettled
  <2>. QED BY <1>1, <2>1, <2>2, <2>3 DEF Ordered, OneRunner, Threads
<1>. QED BY <1>2, <1>3

LEMMA InitOrdered == Init => Ordered
<1> SUFFICES ASSUME Init PROVE Ordered
    OBVIOUS
<1>1. \A r \in Threads : thread[r] = NewThread("off") /\ thread[r].pc = "off"
    BY DEF Init, NewThread
<1>2. current = None /\ FileSettled(file)
    BY DEF Init, FileSettled
<1>3. \A r \in Threads : Settled(thread[r], current, result) /\ ~ Going(thread[r])
    BY <1>1 DEF Settled, Going, Acting, Saving
<1>4. Before(current, result)
    BY <1>2 DEF Before, None, Chain
<1>. QED BY <1>2, <1>3, <1>4 DEF Ordered, OneRunner, Threads

LEMMA NextOrdered == ASSUME PatientUser PROVE Typed /\ Ordered /\ [Next]_vars => Ordered'
<1> SUFFICES ASSUME Typed, Ordered, [Next]_vars PROVE Ordered'
    OBVIOUS
<1>1. CASE \E r \in Threads : Step(r)
    BY <1>1, SaveOrdered, RunOrdered DEF Step
<1>2. CASE Main
    BY <1>2, MainOrdered
<1>3. CASE Exec \/ Resume
    BY <1>3, CallOrdered
<1>4. CASE \/ Stop \/ StopAction \/ \E t \in DOMAIN tasks : TaskEnds(t)
           \/ UNCHANGED vars
    BY <1>4, OtherOrdered
<1>5. CASE Crash \/ Load
    BY <1>5, RestartOrdered
<1>. QED BY <1>1, <1>2, <1>3, <1>4, <1>5 DEF Next

\* When resume is called only after the worker has ended, an action runs only when
\* all before it have their results, over any number of saves, stops, resumes,
\* crashes and restarts.
THEOREM PredecessorsFirst == ASSUME PatientUser PROVE Spec => []PredecessorsDone
<1>1. Typed /\ Ordered => PredecessorsDone
  <2> SUFFICES ASSUME Typed, Ordered, NEW r \in Threads, thread[r].pc \in Acting,
                      NEW j \in 1 .. thread[r].i - 1
               PROVE  result[j]
    BY DEF PredecessorsDone
  <2>1. thread[r].i \in Chain
    BY DEF Typed, TypeOK
  <2>2. Before(thread[r].i, result)
    BY DEF Ordered, Settled
  <2>. QED BY <2>1, <2>2, ChainFacts DEF Before
<1>2. Init => Typed /\ Ordered
    BY InitTyped, InitOrdered
<1>3. Typed /\ Ordered /\ [Next]_vars => Typed' /\ Ordered'
    BY NextTyped, NextOrdered
<1>. QED BY <1>1, <1>2, <1>3, PTL DEF Spec

\* And one thread at a time runs an action: "Pipeline is a sequentially executed
\* chain" (pipeline.py:34) of such a user.
THEOREM OneAtATime == ASSUME PatientUser PROVE Spec => []Sequential
<1>1. Typed /\ Ordered => Sequential
    BY DEF Ordered, OneRunner, Going, Sequential, At, Acting, Threads
<1>2. Init => Typed /\ Ordered
    BY InitTyped, InitOrdered
<1>3. Typed /\ Ordered /\ [Next]_vars => Typed' /\ Ordered'
    BY NextTyped, NextOrdered
<1>. QED BY <1>1, <1>2, <1>3, PTL DEF Spec

-----------------------------------------------------------------------------
(* The last save.  It begins when the worker has ended; the worker then     *)
(* changes neither the pipeline nor the file, which is empty when the save  *)
(* comes to write it.                                                       *)

\* exec was called and nothing else, and no save of its loop has failed.
Calm ==
    /\ counts.execs = 1 /\ counts.stops = 0 /\ counts.resumes = 0 /\ counts.crashes = 0
    /\ counts.aborts = 0

Ended == thread["worker"].pc \in {"return", "off"}

\* The caller is in his last save, or past it.
Leaving(t) == t.pc \in {"leave", "off"} \/ (t.pc \in Saving /\ t.next = "leave")

NotBegun ==
    counts.execs = 0 =>
        /\ up /\ ~ stop /\ res = "none" /\ stopper = "idle"
        /\ \A r \in Threads : At(r, "off")

CallerRole(t) ==
    /\ t.pc \in Saving \cup {"look", "poll", "leave", "off"}
    /\ t.pc \in Saving => t.next \in {"look", "leave"}

WorkerRole(t) ==
    /\ ~ t.resuming
    /\ t.pc \notin {"look", "poll", "leave", "resume", "resumed"}
    /\ t.pc \in Saving => t.next = "test"

Roles ==
    /\ up /\ stopper = "idle"
    /\ CallerRole(thread["main"]) /\ WorkerRole(thread["worker"])
    /\ stop \/ res = "error" \/ Leaving(thread["main"]) => Ended

\* The save has read s of the first n actions, as they are.
ReadSoFar(s, n) ==
    /\ s.current = current
    /\ \A j \in 1 .. n : s.task[j] = task[j] /\ s.result[j] = result[j]

Complete(t) ==
    /\ t.pc = "read" /\ t.next = "leave" => ReadSoFar(t.snap, t.read)
    /\ t.pc = "write" /\ t.next = "leave" => file.state = "empty" /\ t.snap = Snapshot
    /\ t.pc \in {"leave", "off"} => file = Saved(Snapshot)

Calmly == Roles /\ Complete(thread["main"])

SaveInv == NotBegun /\ (Calm => Calmly)

\* A step of the worker: as long as he runs the caller is not leaving, and when he
\* has ended he has nothing to do but to return.
LEMMA WorkerCalmly ==
    ASSUME Typed, Calmly, NEW d, thread' = [thread EXCEPT !["worker"] = d],
           up' = up, stopper' = stopper, WorkerRole(d),
           stop' \/ res' = "error" => d.pc \in {"return", "off"},
           Ended => d.pc = "off" /\ UNCHANGED <<object, file>>
    PROVE  Calmly'
<1>1. /\ thread \in [Threads -> ThreadType(Len(tasks))]
      /\ "main" \in Threads /\ "worker" \in Threads
    BY TypeFacts DEF Threads
<1>2. thread'["main"] = thread["main"] /\ thread'["worker"] = d
    BY <1>1
<1>3. Leaving(thread["main"]) => Ended
    BY DEF Calmly, Roles
<1>4. Ended' <=> d.pc \in {"return", "off"}
    BY <1>2 DEF Ended
<1>5. Roles'
    BY <1>2, <1>3, <1>4 DEF Calmly, Roles, CallerRole, WorkerRole, Leaving
<1>6. CASE Ended
  <2>1. /\ current' = current /\ task' = task /\ result' = result /\ file' = file
        /\ Snapshot' = Snapshot
    BY <1>6 DEF object, Snapshot
  <2>2. Complete(thread["main"])
    BY DEF Calmly
  <2>3. Complete(thread["main"])'
    BY <1>2, <2>1, <2>2 DEF Complete, ReadSoFar, Saved
  <2>. QED BY <1>5, <2>3 DEF Calmly
<1>7. CASE ~ Ended
  <2>1. ~ Leaving(thread["main"])
    BY <1>3, <1>7
  <2>2. Complete(thread["main"])'
    BY <1>2, <2>1 DEF Complete, Leaving, Saving
  <2>. QED BY <1>5, <2>2 DEF Calmly
<1>. QED BY <1>6, <1>7

\* A step of the caller: he leaves when the worker has ended.
LEMMA CallerCalmly ==
    ASSUME Typed, Calmly, NEW d, thread' = [thread EXCEPT !["main"] = d],
           UNCHANGED <<object, res, user>>, CallerRole(d),
           Leaving(d) => Leaving(thread["main"]) \/ stop \/ res = "error",
           d.pc = "read" /\ d.next = "leave" => ReadSoFar(d.snap, d.read),
           d.pc = "write" /\ d.next = "leave" => file'.state = "empty" /\ d.snap = Snapshot,
           d.pc \in {"leave", "off"} => file' = Saved(Snapshot)
    PROVE  Calmly'
<1>1. /\ thread \in [Threads -> ThreadType(Len(tasks))]
      /\ "main" \in Threads /\ "worker" \in Threads
    BY TypeFacts DEF Threads
<1>2. thread'["main"] = d /\ thread'["worker"] = thread["worker"]
    BY <1>1
<1>3. /\ current' = current /\ task' = task /\ result' = result /\ stop' = stop
      /\ res' = res /\ up' = up /\ stopper' = stopper /\ Snapshot' = Snapshot
    BY DEF object, user, Snapshot
<1>4. Ended' <=> Ended
    BY <1>2 DEF Ended
<1>5. stop \/ res = "error" \/ Leaving(thread["main"]) => Ended
    BY DEF Calmly, Roles
<1>6. Leaving(d) => Ended
    BY <1>5
<1>7. Roles'
  <2>1. Leaving(thread["main"])' <=> Leaving(d)
    BY <1>2 DEF Leaving
  <2>2. CallerRole(thread["main"])' /\ WorkerRole(thread["worker"])'
    BY <1>2 DEF Calmly, Roles, CallerRole, WorkerRole
  <2>3. up' /\ stopper' = "idle"
    BY <1>3 DEF Calmly, Roles
  <2>. QED BY <1>3, <1>4, <1>5, <1>6, <2>1, <2>2, <2>3 DEF Roles
<1>8. Complete(thread["main"])'
  <2>1. ReadSoFar(d.snap, d.read) => ReadSoFar(thread["main"].snap, thread["main"].read)'
    BY <1>2, <1>3 DEF ReadSoFar
  <2>. QED BY <1>2, <1>3, <2>1 DEF Complete, Saved
<1>. QED BY <1>7, <1>8 DEF Calmly

\* What the worker does while he saves.
LEMMA WorkerSavesCalmly ==
    ASSUME Typed, Calmly, Save("worker") PROVE Calmly'
<1>1. /\ thread \in [Threads -> ThreadType(Len(tasks))] /\ "worker" \in Threads
      /\ thread["worker"] \in ThreadType(Len(tasks))
    BY TypeFacts DEF Threads
<1>2. /\ thread["worker"].pc \in Saving /\ UNCHANGED <<object, up, stopper>>
      /\ res' = res \/ SaveFails("worker")
    BY DEF Save, ReadCurrent, ReadAction, OpenFile, WriteFile, SaveFails, At, Saving, user
<1>3. ~ Ended /\ thread["worker"].next = "test" /\ ~ thread["worker"].resuming
    BY <1>2 DEF Ended, Saving, Calmly, Roles, WorkerRole
<1> DEFINE d == thread'["worker"]
<1>4. /\ thread' = [thread EXCEPT !["worker"] = d] /\ ~ d.resuming
      /\ \/ d.pc = "test" \/ (d.pc \in Saving /\ d.next = "test")
         \/ d.pc = "off" /\ SaveFails("worker")
  <2>1. CASE ReadCurrent("worker")
    BY <1>1, <1>3, <2>1 DEF ReadCurrent, ThreadType, Saving
  <2>2. CASE ReadAction("worker")
    <3> DEFINE i == thread["worker"].read + 1
               s == [thread["worker"].snap EXCEPT !.task[i] = task[i], !.result[i] = result[i]]
               e == [thread["worker"] EXCEPT !.read = i, !.snap = s]
    <3>1. thread' = [thread EXCEPT !["worker"] = e]
        BY <1>1, <2>2, ReadMore
    <3>2. e.pc = "read" /\ e.next = "test" /\ ~ e.resuming
        BY <1>1, <1>3, <2>2 DEF ThreadType, ReadAction, At
    <3> HIDE DEF e
    <3>. QED BY <1>1, <3>1, <3>2 DEF Saving
  <2>3. CASE OpenFile("worker")
    BY <1>1, <1>3, <2>3 DEF OpenFile, Goto, ThreadType, Saving
  <2>4. CASE WriteFile("worker")
    BY <1>1, <1>3, <2>4 DEF WriteFile, ThreadType, Saving
  <2>5. CASE SaveFails("worker")
    BY <1>1, <2>5 DEF SaveFails, End, NewThread
  <2>. QED BY <2>1, <2>2, <2>3, <2>4, <2>5 DEF Save
<1> HIDE DEF d
<1>5. WorkerRole(d)
    BY <1>4 DEF WorkerRole, Saving
<1>6. /\ stop' \/ res' = "error" => d.pc = "off"
      /\ up' = up /\ stopper' = stopper
  <2>1. ~ stop /\ res # "error" /\ stop' = stop
    BY <1>2, <1>3 DEF Calmly, Roles, object
  <2>2. SaveFails("worker") => d.pc = "off"
    BY <1>1 DEF SaveFails, End, NewThread, d
  <2>. QED BY <1>2, <2>1, <2>2
<1>. QED BY <1>3, <1>4, <1>5, <1>6, WorkerCalmly

\* And while he runs the chain.
LEMMA WorkerRunsCalmly ==
    ASSUME Typed, Calmly, Run("worker") PROVE Calmly'
<1> DEFINE r == "worker"
<1>1. /\ thread \in [Threads -> ThreadType(Len(tasks))] /\ r \in Threads
      /\ thread[r] \in ThreadType(Len(tasks)) /\ Len(tasks) \in Nat
    BY TypeFacts DEF Threads
<1>2. /\ up' = up /\ stopper' = stopper
    BY DEF Run, Begin, TestStop, SetCurrent, RunPlain, ResumeDone, ResumeWait,
           Submit, Created, Trained, Raise, Finish, Return, user
<1>3. /\ ~ thread[r].resuming
      /\ stop \/ res = "error" => Ended
    BY DEF Calmly, Roles, WorkerRole
<1>4. thread[r].pc = "return" \/ ~ Ended
    BY DEF Run, Begin, TestStop, SetCurrent, RunPlain, ResumeDone, ResumeWait,
           Submit, Created, Trained, Raise, Finish, Return, At, Ended
<1>5. thread[r].pc \in {"set", "exec", "created", "wait"} => thread[r].i \in Chain
    BY <1>1 DEF Typed, TypeOK, Acting
<1>6. CASE Begin(r)
  <2>1. PICK d \in ThreadType(Len(tasks)) :
            /\ thread' = [thread EXCEPT ![r] = d]
            /\ d.pc = "persist" /\ d.next = "test" /\ d.resuming = thread[r].resuming
    BY <1>1, <1>6, SaveThenAlone DEF Begin
  <2>2. ~ stop' /\ res' = res /\ ~ Ended
    BY <1>6 DEF Begin, At, Ended
  <2>3. WorkerRole(d)
    BY <1>3, <2>1 DEF WorkerRole
  <2>. QED BY <1>2, <1>3, <2>1, <2>2, <2>3, WorkerCalmly
<1>7. CASE TestStop(r) \/ SetCurrent(r) \/ ResumeWait(r)
  <2>1. PICK l \in {"finish", "set", "exec", "wait"} : Goto(r, l)
    BY <1>7 DEF TestStop, SetCurrent, ResumeWait
  <2>2. PICK d \in ThreadType(Len(tasks)) :
            /\ thread' = [thread EXCEPT ![r] = d]
            /\ d.pc = l /\ d.resuming = thread[r].resuming
    BY <1>1, <2>1, GotoAlone DEF Labels
  <2>3. ~ Ended /\ stop' = stop /\ res' = res
    BY <1>7 DEF TestStop, SetCurrent, ResumeWait, At, Ended, object
  <2>4. WorkerRole(d)
    BY <1>3, <2>2 DEF WorkerRole, Saving
  <2>. QED BY <1>2, <1>3, <2>2, <2>3, <2>4, WorkerCalmly
<1>8. CASE RunPlain(r) \/ Trained(r) \/ ResumeDone(r)
  <2>1. /\ Done(r) /\ ~ Ended /\ stop' = stop /\ res' = res
        /\ thread[r].pc \in {"exec", "wait"}
    BY <1>8 DEF RunPlain, Trained, ResumeDone, At, Ended, object
  <2>2. PICK d \in ThreadType(Len(tasks)) :
            /\ thread' = [thread EXCEPT ![r] = d]
            /\ ~ d.resuming /\ d.pc = "persist" /\ d.next = "test"
    BY <1>1, <1>3, <1>5, <2>1, DoneAlone
  <2>3. WorkerRole(d)
    BY <2>2 DEF WorkerRole
  <2>. QED BY <1>2, <1>3, <2>1, <2>2, <2>3, WorkerCalmly
<1>9. CASE Submit(r) \/ Created(r)
  <2> DEFINE d == thread'[r]
  <2>1. thread' = [thread EXCEPT ![r] = d] /\ d.pc \in {"created", "wait"} /\ ~ d.resuming
    <3>1. CASE Submit(r)
        BY <1>1, <1>3, <3>1 DEF Submit, ThreadType
    <3>2. CASE Created(r)
        BY <1>1, <1>3, <3>2 DEF Created, ThreadType
    <3>. QED BY <1>9, <3>1, <3>2
  <2> HIDE DEF d
  <2>2. ~ Ended /\ stop' = stop /\ res' = res
    BY <1>9 DEF Submit, Created, At, Ended, object
  <2>3. WorkerRole(d)
    BY <2>1 DEF WorkerRole, Saving
  <2>. QED BY <1>2, <1>3, <2>1, <2>2, <2>3, WorkerCalmly
<1>10. CASE Raise(r) \/ Return(r)
  <2> DEFINE d == NewThread("off")
  <2>1. thread' = [thread EXCEPT ![r] = d] /\ UNCHANGED <<object, file>>
    BY <1>10 DEF Raise, Return, End
  <2>2. d.pc = "off" /\ ~ d.resuming
    BY DEF NewThread
  <2> HIDE DEF d
  <2>3. WorkerRole(d)
    BY <2>2 DEF WorkerRole, Saving
  <2>. QED BY <1>2, <2>1, <2>2, <2>3, WorkerCalmly
<1>11. CASE Finish(r)
  <2>1. PICK d \in ThreadType(Len(tasks)) :
            /\ thread' = [thread EXCEPT ![r] = d]
            /\ d.pc = "return" /\ d.resuming = thread[r].resuming
    BY <1>1, <1>11, GotoAlone DEF Finish, Labels
  <2>2. ~ Ended
    BY <1>11 DEF Finish, At, Ended
  <2>3. WorkerRole(d)
    BY <1>3, <2>1 DEF WorkerRole, Saving
  <2>. QED BY <1>2, <2>1, <2>2, <2>3, WorkerCalmly
<1>. QED BY <1>6, <1>7, <1>8, <1>9, <1>10, <1>11 DEF Run

\* The saves of the caller.
LEMMA CallerSavesCalmly ==
    ASSUME Typed, Calmly, Save("main"), ~ SaveFails("main") PROVE Calmly'
<1> DEFINE t == thread["main"]
<1>1. /\ thread \in [Threads -> ThreadType(Len(tasks))] /\ "main" \in Threads
      /\ t \in ThreadType(Len(tasks)) /\ t.snap \in SnapshotType(Len(tasks))
      /\ Snapshot \in SnapshotType(Len(tasks)) /\ Len(tasks) \in Nat
    BY TypeFacts DEF Threads, ThreadType
<1>2. t.pc \in Saving /\ UNCHANGED <<object, res, user>>
    BY DEF Save, ReadCurrent, ReadAction, OpenFile, WriteFile, At, Saving
<1>3. t.next \in {"look", "leave"} /\ (t.next = "leave" => Leaving(t))
    BY <1>2 DEF Calmly, Roles, CallerRole, Leaving
<1>4. /\ t.pc = "read" /\ t.next = "leave" => ReadSoFar(t.snap, t.read)
      /\ t.pc = "write" /\ t.next = "leave" => file.state = "empty" /\ t.snap = Snapshot
    BY DEF Calmly, Complete
<1>5. CASE ReadCurrent("main")
  <2> DEFINE s == [Blank EXCEPT !.current = current]
             d == [t EXCEPT !.snap = s, !.read = 0, !.pc = "read"]
  <2>1. thread' = [thread EXCEPT !["main"] = d]
    BY <1>1, <1>5 DEF ReadCurrent
  <2>2. s.current = current
    BY DEF Blank
  <2> HIDE DEF s
  <2>3. d.pc = "read" /\ d.next = t.next /\ d.read = 0 /\ d.snap = s
    BY <1>1 DEF ThreadType
  <2> HIDE DEF d
  <2>4. ReadSoFar(d.snap, d.read)
    BY <2>2, <2>3 DEF ReadSoFar
  <2>5. CallerRole(d) /\ (Leaving(d) => Leaving(t))
    BY <1>3, <2>3 DEF CallerRole, Leaving, Saving
  <2>. QED BY <1>2, <2>1, <2>3, <2>4, <2>5, CallerCalmly
<1>6. CASE ReadAction("main")
  <2> DEFINE i == t.read + 1
             s == [t.snap EXCEPT !.task[i] = task[i], !.result[i] = result[i]]
             d == [t EXCEPT !.read = i, !.snap = s]
  <2>1. thread' = [thread EXCEPT !["main"] = d]
    BY <1>1, <1>6, ReadMore
  <2>2. t.pc = "read" /\ t.read \in Nat /\ i \in Chain
    BY <1>1, <1>6, ChainFacts DEF ReadAction, At, ThreadType
  <2>3. /\ s.current = t.snap.current
        /\ s.task = [t.snap.task EXCEPT ![i] = task[i]]
        /\ s.result = [t.snap.result EXCEPT ![i] = result[i]]
        /\ t.snap.task \in [Chain -> 0 .. Len(tasks)]
        /\ t.snap.result \in [Chain -> BOOLEAN]
    BY <1>1 DEF SnapshotType
  <2> HIDE DEF s
  <2>4. ReadSoFar(t.snap, t.read) => ReadSoFar(s, i)
    <3> SUFFICES ASSUME ReadSoFar(t.snap, t.read), NEW j \in 1 .. i
                 PROVE  s.task[j] = task[j] /\ s.result[j] = result[j]
        BY <2>3 DEF ReadSoFar
    <3>1. j \in Chain
        BY <2>2, ChainFacts
    <3>2. CASE j = i
        BY <2>2, <2>3, <3>1, <3>2
    <3>3. CASE j # i
        <4>1. j \in 1 .. t.read
            BY <2>2, <3>3
        <4>. QED BY <2>3, <3>1, <3>3, <4>1 DEF ReadSoFar
    <3>. QED BY <3>2, <3>3
  <2> HIDE DEF i
  <2>5. d.pc = "read" /\ d.next = t.next /\ d.read = i /\ d.snap = s
    BY <1>1, <2>2 DEF ThreadType
  <2> HIDE DEF d
  <2>6. d.next = "leave" => ReadSoFar(d.snap, d.read)
    BY <1>4, <2>2, <2>4, <2>5
  <2>7. CallerRole(d) /\ (Leaving(d) => Leaving(t))
    BY <1>3, <2>5 DEF CallerRole, Leaving, Saving
  <2>. QED BY <1>2, <2>1, <2>5, <2>6, <2>7, CallerCalmly
<1>7. CASE OpenFile("main")
  <2>1. PICK d \in ThreadType(Len(tasks)) :
            /\ thread' = [thread EXCEPT !["main"] = d]
            /\ d.pc = "write" /\ d.next = t.next /\ d.snap = t.snap
    BY <1>1, <1>7, GotoAlone DEF OpenFile, Labels
  <2>2. file'.state = "empty" /\ t.pc = "read" /\ t.read = Last
    BY <1>7 DEF OpenFile, At
  <2>3. ReadSoFar(t.snap, t.read) => t.snap = Snapshot
    <3> SUFFICES ASSUME ReadSoFar(t.snap, t.read) PROVE t.snap = Snapshot
        OBVIOUS
    <3>1. /\ t.snap.task \in [Chain -> 0 .. Len(tasks)]
          /\ t.snap.result \in [Chain -> BOOLEAN]
          /\ task \in [Chain -> 0 .. Len(tasks)] /\ result \in [Chain -> BOOLEAN]
        BY <1>1, TypeFacts DEF SnapshotType
    <3>2. /\ t.snap.current = current
          /\ \A j \in Chain : t.snap.task[j] = task[j] /\ t.snap.result[j] = result[j]
        BY <2>2, ChainFacts DEF ReadSoFar
    <3>3. t.snap.task = task /\ t.snap.result = result
        BY <3>1, <3>2
    <3>. QED BY <1>1, <3>2, <3>3 DEF SnapshotType, Snapshot
  <2>4. d.next = "leave" => d.snap = Snapshot
    BY <1>4, <2>1, <2>2, <2>3
  <2>5. CallerRole(d) /\ (Leaving(d) => Leaving(t))
    BY <1>3, <2>1 DEF CallerRole, Leaving, Saving
  <2>. QED BY <1>2, <2>1, <2>2, <2>4, <2>5, CallerCalmly
<1>8. CASE WriteFile("main")
  <2> DEFINE d == [t EXCEPT !.pc = t.next, !.next = "off", !.read = 0, !.snap = Blank]
  <2>1. thread' = [thread EXCEPT !["main"] = d]
    BY <1>1, <1>8 DEF WriteFile
  <2>2. d.pc = t.next
    BY <1>1 DEF ThreadType
  <2> HIDE DEF d
  <2>3. t.pc = "write" /\ (file.state = "empty" => file' = Saved(t.snap))
    BY <1>8 DEF WriteFile, At
  <2>4. t.next = "leave" => file' = Saved(Snapshot)
    BY <1>4, <2>3
  <2>5. CallerRole(d) /\ (Leaving(d) => Leaving(t))
    BY <1>3, <2>2 DEF CallerRole, Leaving, Saving
  <2>. QED BY <1>2, <1>3, <2>1, <2>2, <2>4, <2>5, CallerCalmly
<1>. QED BY <1>5, <1>6, <1>7, <1>8 DEF Save

\* What the caller does between his saves.
LEMMA CallerLooksCalmly ==
    ASSUME Typed, Calmly, Main PROVE Calmly'
<1>1. thread["main"].pc \notin {"resume", "resumed"} /\ "main" \in Threads
    BY DEF Calmly, Roles, CallerRole, Saving, Threads
<1>2. /\ UNCHANGED <<object, file, res, user>>
      /\ Look \/ Poll \/ LeaveExec
    BY <1>1 DEF Main, Look, Poll, LeaveExec, ResumeAction, Resumed, At
<1>3. CASE \/ Look /\ res # "error"
           \/ LeaveExec
  <2>1. PICK l \in {"poll", "off"} :
            Goto("main", l) /\ (l = "off" => At("main", "leave"))
    BY <1>3 DEF Look, LeaveExec
  <2>2. PICK d \in ThreadType(Len(tasks)) :
            thread' = [thread EXCEPT !["main"] = d] /\ d.pc = l
    BY <1>1, <2>1, GotoAlone DEF Labels
  <2>3. CallerRole(d) /\ (Leaving(d) => l = "off")
    BY <2>2 DEF CallerRole, Leaving, Saving
  <2>4. l = "off" => Leaving(thread["main"]) /\ file' = Saved(Snapshot)
    BY <1>2, <2>1 DEF At, Leaving, Calmly, Complete
  <2>. QED BY <1>2, <2>2, <2>3, <2>4, CallerCalmly
<1>4. CASE (Look /\ res = "error") \/ Poll
  <2>1. PICK l \in {"look", "leave"} :
            SaveThen("main", l) /\ (l = "leave" => stop \/ res = "error")
    BY <1>4 DEF Look, Poll
  <2>2. PICK d \in ThreadType(Len(tasks)) :
            thread' = [thread EXCEPT !["main"] = d] /\ d.pc = "persist" /\ d.next = l
    BY <1>1, <2>1, SaveThenAlone
  <2>3. CallerRole(d) /\ (Leaving(d) => stop \/ res = "error")
    BY <2>1, <2>2 DEF CallerRole, Leaving, Saving
  <2>. QED BY <1>2, <2>2, <2>3, CallerCalmly
<1>. QED BY <1>2, <1>3, <1>4

LEMMA ExecCalmly == ASSUME Typed, NotBegun, Exec PROVE Calmly'
<1>1. ~ stop /\ res = "none" /\ up /\ stopper = "idle"
    BY DEF NotBegun, Exec
<1>2. UNCHANGED <<object, res, stopper, up>>
    BY DEF Exec
<1>3. /\ thread'["worker"] = NewThread("begin")
      /\ thread'["main"] = [NewThread("persist") EXCEPT !.next = "look"]
    BY DEF Exec, Threads
<1>4. /\ thread'["worker"].pc = "begin" /\ ~ thread'["worker"].resuming
      /\ thread'["main"].pc = "persist" /\ thread'["main"].next = "look"
    BY <1>3 DEF NewThread
<1>5. Roles'
    BY <1>1, <1>2, <1>4 DEF Roles, CallerRole, WorkerRole, Leaving, Saving, object
<1>6. Complete(thread["main"])'
    BY <1>4 DEF Complete
<1>. QED BY <1>5, <1>6 DEF Calmly

\* Nothing happens in a pipeline that has not begun; and what has been disturbed
\* stays so.
LEMMA NextSaves == Typed /\ SaveInv /\ [Next]_vars => SaveInv'
<1> SUFFICES ASSUME Typed, SaveInv, [Next]_vars PROVE SaveInv'
    OBVIOUS
<1>1. /\ counts \in [{"stops", "resumes", "crashes", "execs", "aborts"} -> Nat]
      /\ "main" \in Threads /\ "worker" \in Threads
    BY DEF Typed, TypeOK, Threads
<1>2. NotBegun /\ (Calm => Calmly)
    BY DEF SaveInv
<1>3. CASE \E r \in Threads : Step(r)
  <2>1. PICK r \in Threads : Step(r)
    BY <1>3
  <2>2. /\ ~ At(r, "off")
        /\ \/ counts' = counts
           \/ SaveFails(r) /\ counts' = [counts EXCEPT !.aborts = @ + 1]
    BY <2>1 DEF Step, Save, ReadCurrent, ReadAction, OpenFile, WriteFile, SaveFails, Run,
                Begin, TestStop, SetCurrent, RunPlain, ResumeDone, ResumeWait, Submit,
                Created, Trained, Raise, Finish, Return, At, user
  <2>3. counts.execs # 0 /\ counts'.execs # 0
    BY <1>1, <1>2, <2>2 DEF NotBegun
  <2>4. ASSUME Calm' PROVE Calmly'
    <3>0. Calm /\ counts' = counts
        BY <1>1, <2>2, <2>4 DEF Calm
    <3>1. Calmly
        BY <1>2, <3>0
    <3>2. CASE Save(r)
      <4>1. CASE r = "worker"
        BY <3>1, <3>2, <4>1, WorkerSavesCalmly
      <4>2. CASE r = "main"
        <5>1. ~ SaveFails("main")
          <6> SUFFICES ASSUME SaveFails("main") PROVE FALSE
            OBVIOUS
          <6>1. thread["main"].next # "test"
            BY <3>1 DEF SaveFails, At, Calmly, Roles, CallerRole, Saving
          <6>2. counts' = [counts EXCEPT !.aborts = @ + 1]
            BY <6>1 DEF SaveFails
          <6>. QED BY <1>1, <3>0, <6>2 DEF Calm
        <5>. QED BY <3>1, <3>2, <4>2, <5>1, CallerSavesCalmly
      <4>. QED BY <4>1, <4>2 DEF Threads
    <3>3. CASE Run(r)
      <4>1. r = "worker"
        <5>1. thread["main"].pc \in Saving \cup {"look", "poll", "leave", "off"}
            BY <3>1 DEF Calmly, Roles, CallerRole
        <5>2. ~ Run("main")
            BY <5>1 DEF Run, Begin, TestStop, SetCurrent, RunPlain, ResumeDone,
                        ResumeWait, Submit, Created, Trained, Raise, Finish, Return,
                        At, Saving
        <5>. QED BY <3>3, <5>2 DEF Threads
      <4>. QED BY <3>1, <3>3, <4>1, WorkerRunsCalmly
    <3>. QED BY <2>1, <3>2, <3>3 DEF Step
  <2>. QED BY <2>3, <2>4 DEF SaveInv, NotBegun
<1>4. CASE Main
  <2>1. ~ At("main", "off") /\ counts' = counts
    BY <1>4 DEF Main, Look, Poll, LeaveExec, ResumeAction, Resumed, At, user
  <2>2. counts.execs # 0 /\ (Calm' <=> Calm)
    BY <1>1, <1>2, <2>1 DEF NotBegun, Calm
  <2>. QED BY <1>2, <1>4, <2>1, <2>2, CallerLooksCalmly DEF SaveInv, NotBegun
<1>5. CASE Exec
  <2>1. Calmly' /\ counts'.execs = 1
    BY <1>1, <1>2, <1>5, ExecCalmly DEF Exec
  <2>. QED BY <2>1 DEF SaveInv, NotBegun
<1>6. CASE Resume \/ Stop \/ Crash
  <2>1. counts'.execs = 1 /\ ~ Calm'
    BY <1>1, <1>6 DEF Resume, Stop, Crash, Calm
  <2>. QED BY <2>1 DEF SaveInv, NotBegun
<1>7. CASE StopAction \/ Load
  <2>1. counts' = counts /\ (stopper = "action" \/ ~ up)
    BY <1>7 DEF StopAction, Load
  <2>2. counts.execs # 0 /\ ~ Calm
    BY <1>2, <2>1 DEF NotBegun, Calmly, Roles
  <2>. QED BY <2>1, <2>2 DEF SaveInv, NotBegun, Calm
<1>8. CASE (\E t \in DOMAIN tasks : TaskEnds(t)) \/ UNCHANGED vars
  <2>1. /\ current' = current /\ stop' = stop /\ task' = task /\ result' = result
        /\ file' = file /\ res' = res /\ thread' = thread
        /\ stopper' = stopper /\ up' = up /\ counts' = counts
    BY <1>8 DEF TaskEnds, vars, object, user
  <2>2. NotBegun' /\ (Calm' <=> Calm)
    BY <1>2, <2>1 DEF NotBegun, Calm, At
  <2>3. Roles => Roles'
    BY <2>1 DEF Roles, CallerRole, WorkerRole, Leaving, Ended
  <2>4. Complete(thread["main"]) => Complete(thread["main"])'
    BY <2>1 DEF Complete, ReadSoFar, Saved, Snapshot
  <2>. QED BY <1>2, <2>2, <2>3, <2>4 DEF SaveInv, Calmly
<1>. QED BY <1>3, <1>4, <1>5, <1>6, <1>7, <1>8 DEF Next

\* When exec is over and nobody has stopped it, the file holds the pipeline as it
\* is: what the worker and the poller have written over each other is put right by
\* the last save, of a chain of any length, unless a save of the poller fails.
THEOREM LastSaveHolds == Spec => []LastSaveComplete
<1>1. Init => SaveInv
  <2> SUFFICES ASSUME Init PROVE SaveInv
    OBVIOUS
  <2>1. counts.execs = 0 /\ \A r \in Threads : At(r, "off")
    BY DEF Init, At, NewThread
  <2>. QED BY <2>1 DEF Init, SaveInv, NotBegun, Calm
<1>2. SaveInv => LastSaveComplete
    BY DEF SaveInv, Calm, Calmly, Complete, LastSaveComplete, At
<1>3. Init => Typed
    BY InitTyped
<1>4. Typed /\ SaveInv /\ [Next]_vars => Typed' /\ SaveInv'
    BY NextTyped, NextSaves
<1>. QED BY <1>1, <1>2, <1>3, <1>4, PTL DEF Spec

=============================================================================
