------------------------- MODULE PluginRuntime_proofs -------------------------
(***************************************************************************)
(* Theorems about PluginRuntime and the PluginScheduler in it, for every   *)
(* number of jobs, job runs, callers, handles, child processes and         *)
(* lifecycle calls.                                                        *)
(***************************************************************************)
EXTENDS PluginRuntime, OrderTheorems

-----------------------------------------------------------------------------
(* The inductive invariant: first what the scheduler relies on, which only *)
(* the scheduler's variables take part in.                                 *)

\* A dispatch that is under way has no outcome yet.
NoEarlyOutcome == \A r \in JobRuns : Live(r) => jobRun[r].status \notin Outcomes

\* The runs of a tick are there, each for a job of its own, and no more than the limit.
TickRuns ==
  /\ \A r \in tick.runs : jobRun[r].stage # "unused"
  /\ \A r, s \in tick.runs : jobRun[r].job = jobRun[s].job => r = s
  /\ Cardinality(tick.runs) <= MaxConcurrentJobs

\* Whatever the schedule has dispatched is of the tick in progress, which waits for it.
OfTheTick ==
  /\ tick.stage = "waiting" => TickRuns
  /\ \A r \in JobRuns : LiveScheduled(r) => tick.stage = "waiting" /\ r \in tick.runs

\* What an unregisterPlugin has selected are rows.
Lists == \A o \in Ops : \A r \in op[o].list : jobRun[r].stage # "unused"

\* A process belongs to a handle, and the child a handle knows is a process of it.  A
\* stopped handle knows none, and one that waits for its restart only while it starts or runs.
Processes ==
  /\ \A p \in Alive : proc[p].of \in Handles
  /\ \A h \in Handles : handle[h].child # NoProc => KnownChild(handle[h].child, h)
Children ==
  \A h \in Handles : handle[h].child # NoProc =>
    /\ handle[h].status # "stopped"
    /\ handle[h].backoffTimer => handle[h].status \in {"starting", "running"}

\* What a lifecycle call is for, where it stands.
GoalFits(rec) ==
  /\ rec.pc = "mark" => rec.goal \in {"disabled", "error"}
  /\ rec.pc \in {"unregister", "cancel"} => rec.goal \in {"none", "disabled", "error"}
  /\ rec.pc = "stopping" => rec.goal \in {"restart", "disabled", "error"}
  /\ rec.pc = "restart" => rec.goal = "restart"
Goals == \A o \in Ops : GoalFits(op[o])

\* The invariant of the handles and of the lifecycle calls, with their types.
HandlesSound ==
  /\ handle \in [Handles -> Handle] /\ proc \in [Procs -> Proc]
  /\ Processes /\ Children
OpsSound == op \in [Ops -> Op] /\ Goals /\ Lists

LEMMA Constants ==
  /\ MaxJobRuns \in Nat /\ MaxConcurrentJobs \in Nat /\ MaxProcs \in Nat /\ MaxCrashes \in Nat
  /\ MaxTotal \in Nat /\ MaxEvents \in [EventKinds -> Nat]
  /\ NoHandle \notin Handles /\ NoProc \notin Procs /\ BootOp \in Ops /\ IsFiniteSet(Jobs)
  /\ EventKinds = {"due", "trigger", "enable", "disable", "restart", "exit", "reject", "crash"}
BY PluginHandleAssumption, PluginSchedulerAssumption, PluginRuntimeAssumption DEF NoProc, Procs

-----------------------------------------------------------------------------
(* The steps, as the scheduler sees them. *)

DispatchMoves(r) ==
  \/ CreateRun(r)
  \/ MarkRunning(r)
  \/ \E h \in Handles \cup {NoHandle} : CallWorker(r, h)
  \/ \E outcome \in Outcomes : Answer(r, outcome)
  \/ RecordOutcome(r)
  \/ AdvanceSchedulePointer(r)

CallerMoves(c) ==
  \/ \E j \in Jobs : TriggerBegin(c, j)
  \/ \E running \in BOOLEAN : TriggerSelect(c, running)
  \/ TriggerCreate(c)

Rejects(h) == jobRun' = Rejected(h) /\ UNCHANGED <<next, activeJobs, tick, caller>>

Undispatched ==
  \/ UNCHANGED schedulerVars
  \/ \E r \in JobRuns \ Unused : CancelRun(r)
  \/ \E h \in Handles : Rejects(h)
  \/ \E c \in Callers : CallerMoves(c)
  \/ TickSelect \/ (\E running \in BOOLEAN : TickDispatch(running)) \/ TickDone
  \/ \E j \in Jobs : ComesDue(j)
  \/ RegisterPlugin \/ ForgetActiveJobs
SchedulerGoesOn == Undispatched \/ \E r \in JobRuns : DispatchMoves(r)
SchedulerMoves == SchedulerGoesOn \/ SchedulerLost

LEMMA OpMoves ==
  ASSUME TypeOK, Lists, NEW o \in Ops, OpStep(o)
  PROVE  \/ UNCHANGED schedulerVars
         \/ \E r \in JobRuns \ Unused : CancelRun(r)
         \/ RegisterPlugin \/ ForgetActiveJobs
<1>1. CASE CancelNext(o)
  BY <1>1 DEF CancelNext, TypeOK, Op, Lists, Unused
<1>2. CASE SyncJobs(o) \/ Unregistered(o)
  BY <1>2 DEF SyncJobs, Unregistered
<1>3. CASE EnableWrite(o) \/ LoadSingle(o) \/ StartWorker(o) \/ MarkError(o) \/ Unregister(o)
           \/ MarkStatus(o) \/ Restart(o)
  BY <1>3 DEF EnableWrite, LoadSingle, StartWorker, MarkError, Unregister, MarkStatus, Restart
<1> QED BY <1>1, <1>2, <1>3 DEF OpStep

LEMMA RequestMoves ==
  ASSUME NEW o, Enable(o) \/ Disable(o) \/ RestartWorker(o)
  PROVE  UNCHANGED schedulerVars
BY DEF Enable, Disable, RestartWorker, Request

LEMMA WorkerMoves ==
  ASSUME TypeOK, Processes, NEW p \in Procs, InitOk(p) \/ Exit(p) \/ InitRejected(p)
  PROVE  UNCHANGED schedulerVars \/ \E h \in Handles : Rejects(h)
<1>1. CASE InitOk(p)
  BY <1>1 DEF InitOk
<1>2. CASE Exit(p)
  <2>1. proc[p].of \in Handles
    BY <1>2 DEF Exit, Processes
  <2> QED BY <1>2, <2>1 DEF Exit, Falls, Rejects
<1>3. CASE InitRejected(p)
  <2>1. proc[p].of \in Handles
    BY <1>3 DEF InitRejected, Processes
  <2> QED BY <1>3, <2>1 DEF InitRejected, Falls, Rejects
<1> QED BY <1>1, <1>2, <1>3

LEMMA DispatchStepMoves ==
  ASSUME TypeOK, NEW r, DispatchStep(r) \/ Answered(r)
  PROVE  DispatchMoves(r)
BY DEF DispatchStep, Answered, DispatchMoves, CallTimeout, Outcomes, TypeOK

LEMMA CallerStepMoves ==
  ASSUME NEW c, Trigger(c) \/ CallerStep(c)
  PROVE  CallerMoves(c)
<1>1. IsRunning \in BOOLEAN
  BY DEF IsRunning
<1> QED BY <1>1 DEF Trigger, CallerStep, CallerMoves

LEMMA NextMoves ==
  ASSUME TypeOK, Lists, Processes, [Next]_vars
  PROVE  Undispatched \/ Crash \/ \E r \in JobRuns : DispatchStep(r) \/ Answered(r)
<1>1. CASE \E p \in Procs : InitOk(p) \/ Exit(p) \/ InitRejected(p)
  BY <1>1, WorkerMoves DEF Undispatched
<1>2. CASE \E h \in Handles : TimerFires(h)
  BY <1>2 DEF Undispatched, TimerFires
<1>3. CASE \E o \in Ops : Enable(o) \/ Disable(o) \/ RestartWorker(o) \/ OpStep(o)
  BY <1>3, RequestMoves, OpMoves DEF Undispatched
<1>5. CASE TickStep
  <2>1. IsRunning \in BOOLEAN
    BY DEF IsRunning
  <2> QED BY <1>5, <2>1 DEF Undispatched, TickStep
<1>6. CASE \E c \in Callers : Trigger(c) \/ CallerStep(c)
  BY <1>6, CallerStepMoves DEF Undispatched
<1>7. CASE \E j \in Jobs : ScheduleDue(j)
  BY <1>7 DEF Undispatched, ScheduleDue
<1>9. CASE UNCHANGED vars
  BY <1>9 DEF Undispatched, vars
<1> QED BY <1>1, <1>2, <1>3, <1>5, <1>6, <1>7, <1>9 DEF Next

LEMMA NextGoesOn ==
  ASSUME TypeOK, Lists, Processes, [Next]_vars
  PROVE  SchedulerGoesOn \/ Crash
BY NextMoves, DispatchStepMoves DEF SchedulerGoesOn

LEMMA NextSchedulerMoves ==
  ASSUME TypeOK, Lists, Processes, [Next]_vars
  PROVE  SchedulerMoves
BY NextGoesOn DEF SchedulerMoves, Crash

-----------------------------------------------------------------------------
(* The scheduler: types, outcomes and marks. *)

\* A row that is written once more stays a row.
LEMMA RowWritten ==
  ASSUME SchedulerTypeOK, NEW r \in JobRuns, jobRun[r].stage # "unused",
         NEW status \in JobRunStatuses, NEW stage \in Stages, NEW outcome \in Outcomes,
         NEW worker \in Handles \cup {NoHandle}
  PROVE  /\ jobRun[r] \in JobRun
         /\ [jobRun[r] EXCEPT !.status = status] \in JobRun
         /\ [jobRun[r] EXCEPT !.status = status, !.stage = stage] \in JobRun
         /\ [jobRun[r] EXCEPT !.stage = stage, !.worker = worker] \in JobRun
         /\ [jobRun[r] EXCEPT !.stage = stage, !.outcome = outcome] \in JobRun
         /\ [jobRun[r] EXCEPT !.stage = stage] \in JobRun
<1>1. jobRun[r] \in JobRun
  BY DEF SchedulerTypeOK, UnusedRun
<1> QED BY <1>1 DEF JobRun

LEMMA LiveIsUsed ==
  ASSUME SchedulerTypeOK, NEW r \in JobRuns, jobRun[r].stage # "unused" \/ Live(r)
  PROVE  jobRun[r] \in JobRun /\ jobRun[r].stage # "unused"
BY DEF SchedulerTypeOK, UnusedRun, Live, Dispatching

LEMMA DispatchMovesType ==
  ASSUME SchedulerTypeOK, NEW r \in JobRuns, DispatchMoves(r)
  PROVE  SchedulerTypeOK'
<1>1. jobRun[r].stage # "unused"
  BY DEF DispatchMoves, CreateRun, MarkRunning, CallWorker, Answer, RecordOutcome,
         AdvanceSchedulePointer
<1>2. jobRun[r] \in JobRun
  BY <1>1, LiveIsUsed
<1>3. CASE CreateRun(r) \/ MarkRunning(r)
  <2>1. [jobRun[r] EXCEPT !.status = "queued", !.stage = "mark"] \in JobRun
        /\ [jobRun[r] EXCEPT !.status = "running", !.stage = "call"] \in JobRun
    BY <1>2 DEF JobRun, JobRunStatuses, Unfinished, Stages, Dispatching
  <2> QED BY <1>3, <2>1 DEF CreateRun, MarkRunning, SchedulerTypeOK
<1>4. ASSUME NEW h \in Handles \cup {NoHandle}, CallWorker(r, h)
      PROVE  SchedulerTypeOK'
  <2>1. [jobRun[r] EXCEPT !.stage = IF h = NoHandle THEN "record" ELSE "called", !.worker = h]
           \in JobRun
    BY <1>2 DEF JobRun, Stages, Dispatching
  <2> QED BY <1>4, <2>1 DEF CallWorker, SchedulerTypeOK
<1>5. ASSUME NEW outcome \in Outcomes, Answer(r, outcome)
      PROVE  SchedulerTypeOK'
  <2>1. [jobRun[r] EXCEPT !.stage = "record", !.outcome = outcome] \in JobRun
    BY <1>2 DEF JobRun, Stages, Dispatching
  <2> QED BY <1>5, <2>1 DEF Answer, SchedulerTypeOK
<1>6. CASE RecordOutcome(r)
  <2>1. [jobRun[r] EXCEPT !.status = jobRun[r].outcome,
           !.stage = IF jobRun[r].trigger = "schedule" THEN "advance" ELSE "over"] \in JobRun
    BY <1>2 DEF JobRun, Stages, JobRunStatuses
  <2> QED BY <1>6, <2>1 DEF RecordOutcome, SchedulerTypeOK
<1>7. CASE AdvanceSchedulePointer(r)
  <2>1. [jobRun[r] EXCEPT !.stage = "over"] \in JobRun
    BY <1>2 DEF JobRun, Stages
  <2> QED BY <1>7, <2>1 DEF AdvanceSchedulePointer, SchedulerTypeOK, NextRunAt
<1> QED BY <1>3, <1>4, <1>5, <1>6, <1>7 DEF DispatchMoves

\* The rows that a tick inserts, and what becomes of the others.
Inserted(R, f) ==
  [r \in JobRuns |-> IF r \in R THEN Dispatched(f[r], "schedule", "create", "none") ELSE jobRun[r]]

LEMMA TickDispatches ==
  ASSUME NEW running, TickDispatch(running)
  PROVE  \E D \in Dispatchable(running), R \in SUBSET Unused : \E f \in [R -> D] :
           /\ Cardinality(R) = Cardinality(D)
           /\ \A j \in D : \E r \in R : f[r] = j
           /\ jobRun' = Inserted(R, f)
           /\ activeJobs' = activeJobs \cup D
           /\ tick' = IF D = {} THEN Idle ELSE [tick EXCEPT !.stage = "waiting", !.runs = R]
           /\ UNCHANGED <<next, caller>>
<1>1. PICK D \in Dispatchable(running), R \in SUBSET Unused :
        /\ Cardinality(R) = Cardinality(D)
        /\ \E f \in [R -> D] : (\A j \in D : \E r \in R : f[r] = j) /\ jobRun' = Inserted(R, f)
        /\ activeJobs' = activeJobs \cup D
        /\ tick' = IF D = {} THEN Idle ELSE [tick EXCEPT !.stage = "waiting", !.runs = R]
  BY DEF TickDispatch, Inserted
<1>2. PICK f \in [R -> D] : (\A j \in D : \E r \in R : f[r] = j) /\ jobRun' = Inserted(R, f)
  BY <1>1
<1>3. UNCHANGED <<next, caller>>
  BY DEF TickDispatch
<1> QED BY <1>1, <1>2, <1>3

\* What the loop dispatches is free, and within the limit.
LEMMA DispatchableBound ==
  ASSUME SchedulerTypeOK, NEW running, NEW D \in Dispatchable(running)
  PROVE  /\ D \subseteq Jobs /\ D \cap activeJobs = {} /\ IsFiniteSet(D)
         /\ Cardinality(D) \in Nat /\ Cardinality(D) <= MaxConcurrentJobs
<1>1. D \subseteq Jobs /\ D \cap activeJobs = {}
  BY DEF Dispatchable, SchedulerTypeOK
<1>2. IsFiniteSet(D) /\ Cardinality(D) \in Nat
  BY <1>1, Constants, FS_Subset, FS_CardinalityType
<1>3. IsFiniteSet(activeJobs) /\ Cardinality(activeJobs) \in Nat
  BY Constants, FS_Subset, FS_CardinalityType DEF SchedulerTypeOK
<1>4. PICK room \in Nat : room <= MaxConcurrentJobs /\ Cardinality(D) <= room
  <2>1. PICK room : /\ room = IF Cardinality(activeJobs) < MaxConcurrentJobs
                              THEN MaxConcurrentJobs - Cardinality(activeJobs) ELSE 0
                    /\ Cardinality(D) = room \/ Cardinality(D) <= room
    BY DEF Dispatchable
  <2> QED BY <1>2, <1>3, <2>1, Constants
<1> QED BY <1>1, <1>2, <1>4, Constants

LEMMA DispatchedType ==
  ASSUME NEW j \in Jobs, NEW how \in {"schedule", "manual"}, NEW stage \in Stages,
         NEW status \in JobRunStatuses
  PROVE  Dispatched(j, how, stage, status) \in JobRun
BY DEF Dispatched, JobRun, Outcomes

LEMMA TickType ==
  ASSUME SchedulerTypeOK,
         TickSelect \/ (\E running \in BOOLEAN : TickDispatch(running)) \/ TickDone
  PROVE  SchedulerTypeOK'
<1>1. CASE TickSelect
  BY <1>1 DEF TickSelect, SchedulerTypeOK, Due
<1>2. CASE TickDone
  BY <1>2 DEF TickDone, SchedulerTypeOK, Idle
<1>3. ASSUME NEW running \in BOOLEAN, TickDispatch(running)
      PROVE  SchedulerTypeOK'
  <2>1. PICK D \in Dispatchable(running), R \in SUBSET Unused : \E f \in [R -> D] :
           /\ jobRun' = Inserted(R, f)
           /\ activeJobs' = activeJobs \cup D
           /\ tick' = IF D = {} THEN Idle ELSE [tick EXCEPT !.stage = "waiting", !.runs = R]
           /\ UNCHANGED <<next, caller>>
    BY <1>3, TickDispatches
  <2>2. PICK f \in [R -> D] : jobRun' = Inserted(R, f)
    BY <2>1
  <2>3. D \subseteq Jobs
    BY DispatchableBound
  <2>4. \A r \in R : Dispatched(f[r], "schedule", "create", "none") \in JobRun
    BY <2>3, DispatchedType DEF Stages, Dispatching, JobRunStatuses
  <2>5. jobRun' \in [JobRuns -> JobRun \cup {UnusedRun}]
    BY <2>2, <2>4 DEF Inserted, SchedulerTypeOK
  <2>6. R \subseteq JobRuns
    BY DEF Unused
  <2>7. tick' \in [stage : {"idle", "selected", "waiting"}, due : SUBSET Jobs,
                   runs : SUBSET JobRuns]
    <3>1. tick.due \in SUBSET Jobs
      BY DEF SchedulerTypeOK
    <3>2. tick' = Idle \/ tick' = [stage |-> "waiting", due |-> tick.due, runs |-> R]
      BY <2>1 DEF SchedulerTypeOK
    <3> QED BY <2>6, <3>1, <3>2 DEF Idle
  <2> QED BY <2>1, <2>3, <2>5, <2>7 DEF SchedulerTypeOK
<1> QED BY <1>1, <1>2, <1>3

LEMMA CallerMovesType ==
  ASSUME SchedulerTypeOK, NEW c \in Callers, CallerMoves(c)
  PROVE  SchedulerTypeOK'
<1> DEFINE Calls == [stage : {"select", "create"}, job : Jobs]
<1>1. ASSUME NEW j \in Jobs, TriggerBegin(c, j)
      PROVE  SchedulerTypeOK'
  BY <1>1 DEF TriggerBegin, SchedulerTypeOK
<1>2. ASSUME NEW running \in BOOLEAN, TriggerSelect(c, running)
      PROVE  SchedulerTypeOK'
  <2>1. caller[c] \in Calls /\ [caller[c] EXCEPT !.stage = "create"] \in Calls
    BY <1>2 DEF TriggerSelect, SchedulerTypeOK, NoCall
  <2> QED BY <1>2, <2>1 DEF TriggerSelect, SchedulerTypeOK
<1>3. CASE TriggerCreate(c)
  <2>1. caller[c].job \in Jobs
    BY <1>3 DEF TriggerCreate, SchedulerTypeOK, NoCall
  <2>2. Dispatched(caller[c].job, "manual", "mark", "queued") \in JobRun
    BY <2>1, DispatchedType DEF Stages, Dispatching, JobRunStatuses, Unfinished
  <2> QED BY <1>3, <2>1, <2>2 DEF TriggerCreate, SchedulerTypeOK, Unused
<1> QED BY <1>1, <1>2, <1>3 DEF CallerMoves

\* The server dies: rows without an INSERT are gone, dispatches are lost.
LEMMA LostRows ==
  ASSUME SchedulerTypeOK, NEW r \in JobRuns, SchedulerLost
  PROVE  /\ jobRun'[r] \in {jobRun[r], UnusedRun, [jobRun[r] EXCEPT !.stage = "lost"]}
         /\ jobRun'[r] \in JobRun \cup {UnusedRun}
         /\ ~Live(r)'
<1>1. jobRun'[r] = IF jobRun[r].stage = "create" THEN UnusedRun
                   ELSE IF Live(r) \/ jobRun[r].stage = "advance"
                   THEN [jobRun[r] EXCEPT !.stage = "lost"] ELSE jobRun[r]
  BY DEF SchedulerLost
<1>2. jobRun[r].stage = "advance" \/ Live(r) => jobRun[r] \in JobRun
  BY LiveIsUsed
<1>3. jobRun[r] \in JobRun => [jobRun[r] EXCEPT !.stage = "lost"] \in JobRun
                              /\ [jobRun[r] EXCEPT !.stage = "lost"].stage = "lost"
  BY DEF JobRun, Stages
<1>4. jobRun[r] \in JobRun \cup {UnusedRun}
  BY DEF SchedulerTypeOK
<1> QED BY <1>1, <1>2, <1>3, <1>4 DEF Live, Dispatching, UnusedRun

LEMMA SchedulerType ==
  ASSUME SchedulerTypeOK, SchedulerMoves
  PROVE  SchedulerTypeOK'
<1>1. CASE UNCHANGED schedulerVars
  BY <1>1 DEF SchedulerTypeOK, schedulerVars
<1>2. ASSUME NEW r \in JobRuns \ Unused, CancelRun(r)
      PROVE  SchedulerTypeOK'
  <2>1. [jobRun[r] EXCEPT !.status = "cancelled"] \in JobRun
    BY <1>2, RowWritten DEF Unused, JobRunStatuses, Stages, Outcomes
  <2> QED BY <1>2, <2>1 DEF CancelRun, SchedulerTypeOK
<1>3. ASSUME NEW h \in Handles, Rejects(h)
      PROVE  SchedulerTypeOK'
  <2>1. \A r \in JobRuns : jobRun[r].stage = "called" =>
          [jobRun[r] EXCEPT !.stage = "record"] \in JobRun
    BY RowWritten DEF JobRunStatuses, Stages, Dispatching, Outcomes
  <2> QED BY <1>3, <2>1 DEF Rejects, Rejected, SchedulerTypeOK
<1>4. CASE (\E j \in Jobs : ComesDue(j)) \/ RegisterPlugin \/ ForgetActiveJobs
  BY <1>4 DEF ComesDue, RegisterPlugin, ForgetActiveJobs, SchedulerTypeOK, NextRunAt
<1>5. CASE SchedulerLost
  <2>1. \A r \in JobRuns : jobRun'[r] \in JobRun \cup {UnusedRun}
    BY <1>5, LostRows
  <2>2. jobRun' \in [JobRuns -> JobRun \cup {UnusedRun}]
    BY <1>5, <2>1 DEF SchedulerLost
  <2> QED BY <1>5, <2>2 DEF SchedulerLost, SchedulerTypeOK, Idle
<1> QED BY <1>1, <1>2, <1>3, <1>4, <1>5, DispatchMovesType, TickType, CallerMovesType
        DEF SchedulerMoves, SchedulerGoesOn, Undispatched

\* A step that dispatches nothing and survives: rows keep their job and their trigger, no
\* dispatch begins, and one that ends takes the mark of its job along.
GoesOn(r) ==
  /\ jobRun[r].stage # "unused" =>
       /\ jobRun'[r].stage # "unused"
       /\ jobRun'[r].job = jobRun[r].job /\ jobRun'[r].trigger = jobRun[r].trigger
  /\ Live(r)' => Live(r) /\ (jobRun'[r].status \in Outcomes => jobRun[r].status \in Outcomes)
  /\ Live(r) /\ ~Live(r)' => jobRun[r].job \notin activeJobs'
NoDispatch ==
  /\ activeJobs' \subseteq activeJobs
  /\ \A r \in JobRuns : GoesOn(r)

LEMMA SameRow ==
  ASSUME NEW r \in JobRuns, jobRun'[r] = jobRun[r]
  PROVE  GoesOn(r)
BY DEF GoesOn, Live

LEMMA DispatchGoesOn ==
  ASSUME SchedulerTypeOK, NEW r \in JobRuns, DispatchMoves(r)
  PROVE  NoDispatch /\ UNCHANGED tick
<1>1. jobRun[r] \in JobRun
  BY LiveIsUsed DEF DispatchMoves, CreateRun, MarkRunning, CallWorker, Answer, RecordOutcome,
         AdvanceSchedulePointer
<1>2. \A q \in JobRuns \ {r} : jobRun'[q] = jobRun[q]
  BY DEF DispatchMoves, CreateRun, MarkRunning, CallWorker, Answer, RecordOutcome,
         AdvanceSchedulePointer, SchedulerTypeOK
<1>3. activeJobs' \subseteq activeJobs /\ UNCHANGED tick
  BY DEF DispatchMoves, CreateRun, MarkRunning, CallWorker, Answer, RecordOutcome,
         AdvanceSchedulePointer
<1>4. GoesOn(r)
  <2>1. CASE CreateRun(r) \/ MarkRunning(r)
    <3>1. jobRun'[r] \in {[jobRun[r] EXCEPT !.status = "queued", !.stage = "mark"],
                          [jobRun[r] EXCEPT !.status = "running", !.stage = "call"]}
          /\ jobRun[r].stage \in {"create", "mark"}
      BY <2>1 DEF CreateRun, MarkRunning, SchedulerTypeOK
    <3> QED BY <1>1, <3>1 DEF GoesOn, Live, Dispatching, JobRun, Outcomes
  <2>2. ASSUME NEW h \in Handles \cup {NoHandle}, CallWorker(r, h)
        PROVE  GoesOn(r)
    <3>1. PICK stage \in {"record", "called"} :
             jobRun'[r] = [jobRun[r] EXCEPT !.stage = stage, !.worker = h]
      BY <2>2 DEF CallWorker, SchedulerTypeOK
    <3>2. /\ jobRun'[r].job = jobRun[r].job /\ jobRun'[r].trigger = jobRun[r].trigger
          /\ jobRun'[r].status = jobRun[r].status /\ jobRun'[r].stage = stage
      BY <1>1, <3>1 DEF JobRun
    <3>3. jobRun[r].stage = "call"
      BY <2>2 DEF CallWorker
    <3> QED BY <3>2, <3>3 DEF GoesOn, Live, Dispatching
  <2>3. ASSUME NEW outcome \in Outcomes, Answer(r, outcome)
        PROVE  GoesOn(r)
    <3>1. jobRun'[r] = [jobRun[r] EXCEPT !.stage = "record", !.outcome = outcome]
      BY <2>3 DEF Answer, SchedulerTypeOK
    <3>2. /\ jobRun'[r].job = jobRun[r].job /\ jobRun'[r].trigger = jobRun[r].trigger
          /\ jobRun'[r].status = jobRun[r].status /\ jobRun'[r].stage = "record"
      BY <1>1, <3>1 DEF JobRun
    <3>3. jobRun[r].stage = "called"
      BY <2>3 DEF Answer
    <3> QED BY <3>2, <3>3 DEF GoesOn, Live, Dispatching
  <2>4. CASE RecordOutcome(r)
    <3>1. PICK stage \in {"advance", "over"} :
             jobRun'[r] = [jobRun[r] EXCEPT !.status = jobRun[r].outcome, !.stage = stage]
      BY <2>4 DEF RecordOutcome, SchedulerTypeOK
    <3>2. jobRun[r].job \notin activeJobs'
      BY <2>4 DEF RecordOutcome
    <3> QED BY <1>1, <3>1, <3>2 DEF GoesOn, Live, Dispatching, JobRun
  <2>5. CASE AdvanceSchedulePointer(r)
    <3>1. jobRun'[r] = [jobRun[r] EXCEPT !.stage = "over"] /\ jobRun[r].stage = "advance"
      BY <2>5 DEF AdvanceSchedulePointer, SchedulerTypeOK
    <3> QED BY <1>1, <3>1 DEF GoesOn, Live, Dispatching, JobRun
  <2> QED BY <2>1, <2>2, <2>3, <2>4, <2>5 DEF DispatchMoves
<1> QED BY <1>2, <1>3, <1>4, SameRow DEF NoDispatch

LEMMA Dispatches ==
  ASSUME SchedulerTypeOK, SchedulerGoesOn
  PROVE  \/ NoDispatch /\ UNCHANGED tick
         \/ TickSelect \/ TickDone
         \/ \E running \in BOOLEAN : TickDispatch(running)
         \/ \E c \in Callers : TriggerCreate(c)
<1>1. CASE UNCHANGED <<jobRun, activeJobs, tick>>
  BY <1>1, SameRow DEF NoDispatch
<1>2. ASSUME NEW r \in JobRuns \ Unused, CancelRun(r)
      PROVE  NoDispatch /\ UNCHANGED tick
  <2>1. jobRun[r] \in JobRun
    BY LiveIsUsed DEF Unused
  <2>2. jobRun'[r] = [jobRun[r] EXCEPT !.status = "cancelled"]
    BY <1>2 DEF CancelRun, SchedulerTypeOK
  <2>3. GoesOn(r)
    BY <2>1, <2>2 DEF GoesOn, Live, JobRun, Outcomes
  <2> QED BY <1>2, <2>3, SameRow DEF NoDispatch, CancelRun
<1>3. ASSUME NEW h \in Handles, Rejects(h)
      PROVE  NoDispatch /\ UNCHANGED tick
  <2>1. ASSUME NEW r \in JobRuns
        PROVE  GoesOn(r)
    <3>1. CASE jobRun[r].stage = "called" /\ jobRun[r].worker = h
      <4>1. jobRun'[r] = [jobRun[r] EXCEPT !.stage = "record"] /\ jobRun[r] \in JobRun
        BY <1>3, <3>1, LiveIsUsed DEF Rejects, Rejected
      <4> QED BY <3>1, <4>1 DEF GoesOn, Live, Dispatching, JobRun
    <3>2. CASE ~(jobRun[r].stage = "called" /\ jobRun[r].worker = h)
      BY <1>3, <3>2, SameRow DEF Rejects, Rejected
    <3> QED BY <3>1, <3>2
  <2> QED BY <1>3, <2>1 DEF NoDispatch, Rejects
<1>4. CASE ForgetActiveJobs
  <2>1. \A r \in JobRuns : GoesOn(r)
    BY <1>4, SameRow DEF ForgetActiveJobs
  <2> QED BY <1>4, <2>1 DEF NoDispatch, ForgetActiveJobs
<1>5. ASSUME NEW c \in Callers, CallerMoves(c)
      PROVE  TriggerCreate(c) \/ UNCHANGED <<jobRun, activeJobs, tick>>
  BY <1>5 DEF CallerMoves, TriggerBegin, TriggerSelect
<1>6. CASE (\E j \in Jobs : ComesDue(j)) \/ RegisterPlugin \/ UNCHANGED schedulerVars
  <2>1. UNCHANGED <<jobRun, activeJobs, tick>>
    BY <1>6 DEF ComesDue, RegisterPlugin, schedulerVars
  <2> QED BY <1>1, <2>1
<1> HIDE DEF NoDispatch
<1>7. CASE \E r \in JobRuns : DispatchMoves(r)
  BY <1>7, DispatchGoesOn
<1> QED BY <1>1, <1>2, <1>3, <1>4, <1>5, <1>6, <1>7 DEF SchedulerGoesOn, Undispatched

LEMMA TriggerInserts ==
  ASSUME SchedulerTypeOK, NEW c \in Callers, TriggerCreate(c)
  PROVE  \E r \in Unused :
           /\ jobRun'[r] = Dispatched(caller[c].job, "manual", "mark", "queued")
           /\ \A q \in JobRuns \ {r} : jobRun'[q] = jobRun[q]
           /\ activeJobs' = activeJobs \cup {caller[c].job}
           /\ UNCHANGED tick
BY DEF TriggerCreate, Unused, SchedulerTypeOK

LEMMA InsertedRows ==
  ASSUME NEW R \in SUBSET Unused, NEW D, NEW f \in [R -> D], jobRun' = Inserted(R, f)
  PROVE  /\ \A r \in R : jobRun'[r] = Dispatched(f[r], "schedule", "create", "none")
         /\ \A q \in JobRuns \ R : jobRun'[q] = jobRun[q]
BY DEF Inserted, Unused

LEMMA NoEarlyOutcomeNext ==
  ASSUME SchedulerTypeOK, NoEarlyOutcome, SchedulerMoves
  PROVE  NoEarlyOutcome'
<1>0. \A r \in JobRuns : jobRun'[r] = jobRun[r] => (Live(r)' => jobRun'[r].status \notin Outcomes)
  BY DEF NoEarlyOutcome, Live
<1>1. CASE NoDispatch
  BY <1>1 DEF NoDispatch, GoesOn, NoEarlyOutcome
<1>2. CASE TickSelect \/ TickDone
  BY <1>0, <1>2 DEF NoEarlyOutcome, TickSelect, TickDone
<1>3. ASSUME NEW running \in BOOLEAN, TickDispatch(running)
      PROVE  NoEarlyOutcome'
  <2>1. PICK D \in Dispatchable(running), R \in SUBSET Unused : \E f \in [R -> D] :
           jobRun' = Inserted(R, f)
    BY <1>3, TickDispatches
  <2>2. PICK f \in [R -> D] : jobRun' = Inserted(R, f)
    BY <2>1
  <2>5. /\ \A r \in R : jobRun'[r] = Dispatched(f[r], "schedule", "create", "none")
        /\ \A r \in JobRuns \ R : jobRun'[r] = jobRun[r]
    BY <2>2, InsertedRows
  <2>3. \A r \in R : jobRun'[r].status = "none"
    <3>1. \A j : Dispatched(j, "schedule", "create", "none").status = "none"
      BY DEF Dispatched
    <3> QED BY <2>5, <3>1
  <2>4. \A r \in JobRuns \ R : jobRun'[r] = jobRun[r]
    BY <2>5
  <2> QED BY <1>0, <2>3, <2>4 DEF NoEarlyOutcome, Outcomes
<1>4. ASSUME NEW c \in Callers, TriggerCreate(c)
      PROVE  NoEarlyOutcome'
  <2>1. PICK r \in Unused :
           /\ jobRun'[r] = Dispatched(caller[c].job, "manual", "mark", "queued")
           /\ \A q \in JobRuns \ {r} : jobRun'[q] = jobRun[q]
    BY <1>4, TriggerInserts
  <2>2. jobRun'[r].status = "queued"
    BY <2>1 DEF Dispatched
  <2> QED BY <1>0, <2>1, <2>2 DEF NoEarlyOutcome, Outcomes
<1>5. CASE SchedulerLost
  BY <1>5, LostRows DEF NoEarlyOutcome
<1> QED BY <1>1, <1>2, <1>3, <1>4, <1>5, Dispatches DEF SchedulerMoves

\* Every mark has a dispatch, for one step.
LEMMA MarksNext ==
  ASSUME SchedulerTypeOK, MarkHasDispatch, SchedulerMoves
  PROVE  MarkHasDispatch'
<1>0. ASSUME NEW j \in activeJobs, \A r \in JobRuns : Live(r) => jobRun'[r] = jobRun[r]
      PROVE  \E r \in JobRuns : Live(r)' /\ jobRun'[r].job = j
  BY <1>0 DEF MarkHasDispatch, Live
<1>1. CASE NoDispatch
  <2> SUFFICES ASSUME NEW j \in activeJobs'
               PROVE  \E r \in JobRuns : Live(r)' /\ jobRun'[r].job = j
    BY DEF MarkHasDispatch
  <2>1. PICK r \in JobRuns : Live(r) /\ jobRun[r].job = j
    BY <1>1 DEF NoDispatch, MarkHasDispatch
  <2>2. GoesOn(r) /\ jobRun[r].stage # "unused"
    BY <1>1, <2>1, LiveIsUsed DEF NoDispatch
  <2> QED BY <2>1, <2>2 DEF GoesOn
<1>2. CASE TickSelect \/ TickDone
  BY <1>0, <1>2 DEF MarkHasDispatch, TickSelect, TickDone
<1>3. ASSUME NEW running \in BOOLEAN, TickDispatch(running)
      PROVE  MarkHasDispatch'
  <2>1. PICK D \in Dispatchable(running), R \in SUBSET Unused : \E f \in [R -> D] :
           /\ Cardinality(R) = Cardinality(D)
           /\ \A j \in D : \E r \in R : f[r] = j
           /\ jobRun' = Inserted(R, f)
           /\ activeJobs' = activeJobs \cup D
           /\ tick' = IF D = {} THEN Idle ELSE [tick EXCEPT !.stage = "waiting", !.runs = R]
           /\ UNCHANGED <<next, caller>>
    BY <1>3, TickDispatches
  <2>2. PICK f \in [R -> D] : (\A j \in D : \E r \in R : f[r] = j) /\ jobRun' = Inserted(R, f)
    BY <2>1
  <2>3. \A r \in JobRuns : Live(r) => jobRun'[r] = jobRun[r]
    BY <2>2, InsertedRows, LiveIsUsed DEF Unused
  <2>4. ASSUME NEW j \in D
        PROVE  \E r \in JobRuns : Live(r)' /\ jobRun'[r].job = j
    <3>1. PICK r \in R : f[r] = j
      BY <2>2
    <3>2. jobRun'[r] = Dispatched(j, "schedule", "create", "none") /\ r \in JobRuns
      BY <2>2, <3>1, InsertedRows DEF Unused
    <3> QED BY <3>2 DEF Dispatched, Live, Dispatching
  <2> QED BY <1>0, <2>1, <2>3, <2>4 DEF MarkHasDispatch
<1>4. ASSUME NEW c \in Callers, TriggerCreate(c)
      PROVE  MarkHasDispatch'
  <2>1. PICK r \in Unused :
           /\ jobRun'[r] = Dispatched(caller[c].job, "manual", "mark", "queued")
           /\ \A q \in JobRuns \ {r} : jobRun'[q] = jobRun[q]
           /\ activeJobs' = activeJobs \cup {caller[c].job}
    BY <1>4, TriggerInserts
  <2>2. \A q \in JobRuns : Live(q) => jobRun'[q] = jobRun[q]
    BY <2>1, LiveIsUsed DEF Unused
  <2>3. Live(r)' /\ jobRun'[r].job = caller[c].job /\ r \in JobRuns
    BY <2>1 DEF Dispatched, Live, Dispatching, Unused
  <2> QED BY <1>0, <2>1, <2>2, <2>3 DEF MarkHasDispatch
<1>5. CASE SchedulerLost
  BY <1>5 DEF SchedulerLost, MarkHasDispatch
<1> QED BY <1>1, <1>2, <1>3, <1>4, <1>5, Dispatches DEF SchedulerMoves

\* A tick that dispatches: its runs are new rows, one for each job it has picked.
LEMMA TickBegins ==
  ASSUME SchedulerTypeOK, OfTheTick, NEW running \in BOOLEAN, TickDispatch(running)
  PROVE  OfTheTick'
<1>1. PICK D \in Dispatchable(running), R \in SUBSET Unused : \E f \in [R -> D] :
         /\ Cardinality(R) = Cardinality(D)
         /\ \A j \in D : \E r \in R : f[r] = j
         /\ jobRun' = Inserted(R, f)
         /\ activeJobs' = activeJobs \cup D
         /\ tick' = IF D = {} THEN Idle ELSE [tick EXCEPT !.stage = "waiting", !.runs = R]
         /\ UNCHANGED <<next, caller>>
  BY TickDispatches
<1>2. PICK f \in [R -> D] :
         /\ Cardinality(R) = Cardinality(D)
         /\ \A j \in D : \E r \in R : f[r] = j
         /\ jobRun' = Inserted(R, f)
  BY <1>1
<1>3. /\ \A r \in R : jobRun'[r] = Dispatched(f[r], "schedule", "create", "none")
      /\ \A r \in JobRuns \ R : jobRun'[r] = jobRun[r]
  BY <1>2, InsertedRows
<1>4. \A r \in R : jobRun'[r].job = f[r] /\ jobRun'[r].stage = "create"
  <2>1. \A j : Dispatched(j, "schedule", "create", "none").job = j
               /\ Dispatched(j, "schedule", "create", "none").stage = "create"
    BY DEF Dispatched
  <2> QED BY <1>3, <2>1
<1>5. R \subseteq JobRuns /\ IsFiniteSet(R)
  <2>1. IsFiniteSet(JobRuns)
    BY Constants, FS_Interval DEF JobRuns
  <2>2. R \in SUBSET JobRuns
    BY DEF Unused
  <2> QED BY <2>1, <2>2, FS_Subset
<1>6. \A r, s \in R : f[r] = f[s] => r = s
  <2>1. f \in Surjection(R, D)
    BY <1>2 DEF Surjection
  <2>2. f \in Injection(R, D)
    BY <1>2, <1>5, <2>1, FS_Surjection
  <2> QED BY <2>2 DEF Injection, IsInjective
<1>7. tick.stage = "selected"
  BY DEF TickDispatch
<1>8. \A r \in JobRuns : ~LiveScheduled(r)
  BY <1>7 DEF OfTheTick
<1>9. \A r \in JobRuns : LiveScheduled(r)' => r \in R
  BY <1>3, <1>8 DEF LiveScheduled, Live
<1>10. CASE D = {}
  <2>1. R = {}
    <3>1. Cardinality(D) = 0
      BY <1>10, FS_EmptySet
    <3> QED BY <1>2, <1>5, <3>1, FS_EmptySet
  <2>2. tick'.stage # "waiting"
    BY <1>1, <1>10 DEF Idle
  <2> QED BY <1>9, <2>1, <2>2 DEF OfTheTick
<1>11. CASE D # {}
  <2>1. tick'.runs = R /\ tick'.stage = "waiting"
    BY <1>1, <1>11 DEF SchedulerTypeOK
  <2>2. Cardinality(R) <= MaxConcurrentJobs
    BY <1>2, DispatchableBound
  <2>3. \A r \in R : jobRun'[r].stage # "unused"
    BY <1>4
  <2>4. \A r, s \in R : jobRun'[r].job = jobRun'[s].job => r = s
    BY <1>4, <1>6
  <2>5. TickRuns'
    BY <2>1, <2>2, <2>3, <2>4 DEF TickRuns
  <2> QED BY <1>9, <2>1, <2>5 DEF OfTheTick
<1> QED BY <1>10, <1>11

LEMMA TickGoesOn ==
  ASSUME SchedulerTypeOK, OfTheTick, NoDispatch, UNCHANGED tick
  PROVE  OfTheTick'
<1>1. \A r \in JobRuns : LiveScheduled(r)' => LiveScheduled(r)
  BY LiveIsUsed DEF NoDispatch, GoesOn, LiveScheduled
<1>2. \A r \in tick.runs : r \in JobRuns
  BY DEF SchedulerTypeOK
<1>3. TickRuns => TickRuns'
  BY <1>2 DEF TickRuns, NoDispatch, GoesOn
<1> QED BY <1>1, <1>3 DEF OfTheTick

LEMMA OfTheTickNext ==
  ASSUME SchedulerTypeOK, OfTheTick, SchedulerMoves
  PROVE  OfTheTick'
<1>1. CASE TickSelect
  <2>1. \A r \in JobRuns : ~LiveScheduled(r)
    BY <1>1 DEF TickSelect, OfTheTick
  <2>2. \A r \in JobRuns : ~LiveScheduled(r)'
    BY <1>1, <2>1 DEF TickSelect, LiveScheduled, Live
  <2>3. tick'.stage # "waiting"
    BY <1>1 DEF TickSelect
  <2> QED BY <2>2, <2>3 DEF OfTheTick
<1>2. CASE TickDone
  <2>1. \A r \in JobRuns : ~LiveScheduled(r)
    BY <1>2 DEF TickDone, OfTheTick, LiveScheduled, Live, Dispatching
  <2>2. \A r \in JobRuns : ~LiveScheduled(r)'
    BY <1>2, <2>1 DEF TickDone, LiveScheduled, Live
  <2>3. tick'.stage # "waiting"
    BY <1>2 DEF TickDone, Idle
  <2> QED BY <2>2, <2>3 DEF OfTheTick
<1>3. ASSUME NEW c \in Callers, TriggerCreate(c)
      PROVE  OfTheTick'
  <2>1. PICK r \in Unused :
           /\ jobRun'[r] = Dispatched(caller[c].job, "manual", "mark", "queued")
           /\ \A q \in JobRuns \ {r} : jobRun'[q] = jobRun[q]
           /\ UNCHANGED tick
    BY <1>3, TriggerInserts
  <2>2. jobRun'[r].trigger = "manual"
    BY <2>1 DEF Dispatched
  <2>3. \A q \in JobRuns : LiveScheduled(q)' => q # r /\ LiveScheduled(q)
    BY <2>1, <2>2 DEF LiveScheduled, Live
  <2>4. TickRuns => r \notin tick.runs
    BY DEF TickRuns, Unused
  <2>5. \A q \in tick.runs : q \in JobRuns
    BY DEF SchedulerTypeOK
  <2>6. TickRuns => TickRuns'
    BY <2>1, <2>4, <2>5 DEF TickRuns
  <2> QED BY <2>1, <2>3, <2>6 DEF OfTheTick
<1>4. CASE SchedulerLost
  <2>1. \A r \in JobRuns : ~LiveScheduled(r)'
    BY <1>4, LostRows DEF LiveScheduled
  <2>2. tick'.stage # "waiting"
    BY <1>4 DEF SchedulerLost, Idle
  <2> QED BY <2>1, <2>2 DEF OfTheTick
<1> QED BY <1>1, <1>2, <1>3, <1>4, TickBegins, TickGoesOn, Dispatches DEF SchedulerMoves

\* What the tick's runs say of the schedule.
LEMMA TickIsScheduledOnce ==
  ASSUME SchedulerTypeOK, OfTheTick
  PROVE  ScheduledOnce /\ ScheduledLimit
<1>1. ScheduledOnce
  BY DEF OfTheTick, TickRuns, ScheduledOnce
<1>2. ScheduledLimit
  <2> DEFINE S == {r \in JobRuns : LiveScheduled(r)}
  <2>1. CASE S = {}
    <3>1. Cardinality(S) = 0
      BY <2>1, FS_EmptySet
    <3> QED BY <3>1, Constants DEF ScheduledLimit
  <2>2. CASE S # {}
    <3>1. S \subseteq tick.runs /\ TickRuns
      BY <2>2 DEF OfTheTick
    <3>2. IsFiniteSet(tick.runs)
      <4>1. IsFiniteSet(JobRuns)
        BY Constants, FS_Interval DEF JobRuns
      <4>2. tick.runs \in SUBSET JobRuns
        BY DEF SchedulerTypeOK
      <4> QED BY <4>1, <4>2, FS_Subset
    <3> HIDE DEF S
    <3>3. Cardinality(S) <= Cardinality(tick.runs) /\ Cardinality(S) \in Nat
          /\ Cardinality(tick.runs) \in Nat
      BY <3>1, <3>2, FS_Subset, FS_CardinalityType
    <3>4. Cardinality(S) <= MaxConcurrentJobs
      BY <3>1, <3>3, Constants DEF TickRuns
    <3> QED BY <3>4 DEF S, ScheduledLimit
  <2> QED BY <2>1, <2>2
<1> QED BY <1>1, <1>2

\* A row stays a row unless the server dies.
LEMMA UsedStaysUsed ==
  ASSUME SchedulerTypeOK, SchedulerGoesOn,
         NEW r \in JobRuns, jobRun[r].stage # "unused"
  PROVE  jobRun'[r].stage # "unused"
<1>1. CASE NoDispatch
  BY <1>1 DEF NoDispatch, GoesOn
<1>2. CASE TickSelect \/ TickDone
  BY <1>2 DEF TickSelect, TickDone
<1>3. ASSUME NEW running \in BOOLEAN, TickDispatch(running)
      PROVE  jobRun'[r].stage # "unused"
  <2>1. PICK D \in Dispatchable(running), R \in SUBSET Unused : \E f \in [R -> D] :
           /\ Cardinality(R) = Cardinality(D)
           /\ \A j \in D : \E s \in R : f[s] = j
           /\ jobRun' = Inserted(R, f)
           /\ activeJobs' = activeJobs \cup D
           /\ tick' = IF D = {} THEN Idle ELSE [tick EXCEPT !.stage = "waiting", !.runs = R]
           /\ UNCHANGED <<next, caller>>
    BY <1>3, TickDispatches
  <2>2. PICK f \in [R -> D] : jobRun' = Inserted(R, f)
    BY <2>1
  <2>3. jobRun'[r] = jobRun[r]
    BY <2>2, InsertedRows DEF Unused
  <2> QED BY <2>3
<1>4. ASSUME NEW c \in Callers, TriggerCreate(c)
      PROVE  jobRun'[r].stage # "unused"
  BY <1>4, TriggerInserts DEF Unused
<1> QED BY <1>1, <1>2, <1>3, <1>4, Dispatches

\* An outcome is only replaced by a cancellation, for one step.
LEMMA OutcomeKept ==
  ASSUME SchedulerTypeOK, NoEarlyOutcome, SchedulerMoves,
         NEW r \in JobRuns, jobRun[r].status \in Outcomes, jobRun'[r].status # jobRun[r].status
  PROVE  jobRun'[r].status = "cancelled"
<1>1. ~Live(r) /\ jobRun[r].stage # "unused"
  <2>1. ~Live(r)
    BY DEF NoEarlyOutcome
  <2>2. jobRun[r] # UnusedRun
    BY DEF UnusedRun, Outcomes
  <2>3. jobRun[r] \in JobRun
    BY <2>2 DEF SchedulerTypeOK
  <2> QED BY <2>1, <2>3 DEF JobRun, Stages, Dispatching
<1>2. ASSUME NEW q \in JobRuns, DispatchMoves(q)
      PROVE  FALSE
  <2>1. q # r \/ AdvanceSchedulePointer(q)
    BY <1>1, <1>2 DEF DispatchMoves, CreateRun, MarkRunning, CallWorker, Answer, RecordOutcome,
       Live, Dispatching
  <2>2. jobRun'[r].status = jobRun[r].status
    <3>1. jobRun[r] \in JobRun
      BY <1>1, LiveIsUsed
    <3>2. CASE AdvanceSchedulePointer(q)
      BY <3>1, <3>2 DEF AdvanceSchedulePointer, SchedulerTypeOK, JobRun
    <3>3. CASE q # r
      BY <1>2, <3>3 DEF DispatchMoves, CreateRun, MarkRunning, CallWorker, Answer, RecordOutcome,
         AdvanceSchedulePointer, SchedulerTypeOK
    <3> QED BY <2>1, <3>2, <3>3
  <2> QED BY <2>2
<1>3. CASE SchedulerLost
  <2>1. jobRun'[r] = IF jobRun[r].stage = "advance" THEN [jobRun[r] EXCEPT !.stage = "lost"]
                     ELSE jobRun[r]
    BY <1>1, <1>3 DEF SchedulerLost, Live, Dispatching
  <2>2. jobRun[r] \in JobRun
    BY <1>1, LiveIsUsed
  <2> QED BY <2>1, <2>2 DEF JobRun
<1>4. ASSUME NEW q \in JobRuns \ Unused, CancelRun(q)
      PROVE  jobRun'[r].status = "cancelled"
  <2>1. jobRun[r] \in JobRun
    BY <1>1, LiveIsUsed
  <2> QED BY <1>4, <2>1 DEF CancelRun, SchedulerTypeOK, JobRun
<1>5. ASSUME NEW h \in Handles, Rejects(h)
      PROVE  FALSE
  BY <1>1, <1>5 DEF Rejects, Rejected, Live, Dispatching
<1>6. ASSUME NEW running \in BOOLEAN, TickDispatch(running)
      PROVE  FALSE
  <2>1. PICK D \in Dispatchable(running), R \in SUBSET Unused : \E f \in [R -> D] :
           /\ Cardinality(R) = Cardinality(D)
           /\ \A j \in D : \E s \in R : f[s] = j
           /\ jobRun' = Inserted(R, f)
           /\ activeJobs' = activeJobs \cup D
           /\ tick' = IF D = {} THEN Idle ELSE [tick EXCEPT !.stage = "waiting", !.runs = R]
           /\ UNCHANGED <<next, caller>>
    BY <1>6, TickDispatches
  <2>2. PICK f \in [R -> D] : jobRun' = Inserted(R, f)
    BY <2>1
  <2>3. jobRun'[r] = jobRun[r]
    BY <1>1, <2>2, InsertedRows DEF Unused
  <2> QED BY <2>3
<1>7. ASSUME NEW c \in Callers, CallerMoves(c)
      PROVE  FALSE
  <2>1. CASE TriggerCreate(c)
    BY <1>1, <2>1, TriggerInserts DEF Unused
  <2>2. CASE ~TriggerCreate(c)
    BY <1>7, <2>2 DEF CallerMoves, TriggerBegin, TriggerSelect
  <2> QED BY <2>1, <2>2
<1>8. CASE UNCHANGED jobRun
  BY <1>8
<1> QED BY <1>2, <1>3, <1>4, <1>5, <1>6, <1>7, <1>8 DEF SchedulerMoves, SchedulerGoesOn, Undispatched, TickSelect, TickDone,
        ComesDue, RegisterPlugin, ForgetActiveJobs, schedulerVars

-----------------------------------------------------------------------------
(* Handles and processes. *)

\* A free place for a process is found when there is one.
LEMMA FreePlace ==
  ASSUME NEW procs, NEW q \in Procs, procs[q].state = "none"
  PROVE  NextProc(procs) \in Procs /\ procs[NextProc(procs)].state = "none"
<1> DEFINE free == {p \in Procs : procs[p].state = "none"}
<1>1. free \in SUBSET Int /\ free # {}
  BY DEF Procs
<1>2. IsFiniteSet(free)
  <2>1. IsFiniteSet(Procs)
    BY Constants, FS_Interval DEF Procs
  <2>2. free \in SUBSET Procs
    OBVIOUS
  <2> QED BY <2>1, <2>2, FS_Subset
<1>3. \E p \in free : \A s \in free : p <= s
  BY <1>1, <1>2, LeastOfFinite
<1>4. NextProc(procs) \in free
  BY <1>3 DEF NextProc
<1> QED BY <1>4

\* What is left of a handle.
LEMMA HandleChanges ==
  ASSUME NEW s \in Handle, NEW p \in Procs
  PROVE  /\ NewHandle \in Handle
         /\ Started(s, p) \in Handle /\ Started(s, p).child = p
         /\ Started(s, p).status = "starting"
         /\ Initialized(s) \in Handle /\ Initialized(s).child = s.child
         /\ Initialized(s).status = "running"
         /\ Killed(s) \in Handle /\ Killed(s).child = NoProc
         /\ StopRequested(s) \in Handle /\ StopRequested(s).child = s.child
         /\ ~StopRequested(s).backoffTimer
         /\ StopRequested(s).status = "stopped" => s.status = "stopped" \/ s.child = NoProc
         /\ [s EXCEPT !.backoffTimer = FALSE] \in Handle
         /\ \A status \in WorkerStatuses :
              [s EXCEPT !.status = status] \in Handle /\ [s EXCEPT !.status = status].child = s.child
<1> USE Constants DEF Handle, WorkerStatuses
<1>1. NewHandle \in Handle
  BY DEF NewHandle
<1>2. /\ Started(s, p) \in Handle /\ Started(s, p).child = p
      /\ Started(s, p).status = "starting"
  BY DEF Started
<1>3. /\ Initialized(s) \in Handle /\ Initialized(s).child = s.child
      /\ Initialized(s).status = "running"
  <2>1. 0 \in 0 .. MaxCrashes + 1
    OBVIOUS
  <2> QED BY <2>1 DEF Initialized
<1>4. Killed(s) \in Handle /\ Killed(s).child = NoProc
  BY DEF Killed
<1>5. /\ StopRequested(s) \in Handle /\ StopRequested(s).child = s.child
      /\ ~StopRequested(s).backoffTimer
      /\ StopRequested(s).status = "stopped" => s.status = "stopped" \/ s.child = NoProc
  BY DEF StopRequested, AlreadyStopped
<1>6. /\ [s EXCEPT !.backoffTimer = FALSE] \in Handle
      /\ \A status \in WorkerStatuses :
           [s EXCEPT !.status = status] \in Handle /\ [s EXCEPT !.status = status].child = s.child
  OBVIOUS
<1> QED BY <1>1, <1>2, <1>3, <1>4, <1>5, <1>6

LEMMA ExitChanges ==
  ASSUME NEW h \in Handle, NEW s \in Exits(h)
  PROVE  s \in Handle /\ s.child = NoProc
<1>1. ASSUME NEW count \in 0 .. MaxCrashes + 1
      PROVE  Crashed(h, count) \in Handle /\ Crashed(h, count).child = NoProc
  BY Constants DEF Crashed, Handle, WorkerStatuses
<1>2. [Stopped(h) EXCEPT !.child = NoProc] \in Handle
      /\ [Stopped(h) EXCEPT !.child = NoProc].child = NoProc
  BY DEF Stopped, Handle, WorkerStatuses
<1>3. 1 \in 0 .. MaxCrashes + 1 /\ h.consecutiveCrashes \in 0 .. MaxCrashes + 1
      /\ (h.consecutiveCrashes <= MaxCrashes => h.consecutiveCrashes + 1 \in 0 .. MaxCrashes + 1)
  BY Constants DEF Handle
<1> QED BY <1>1, <1>2, <1>3 DEF Exits

(***************************************************************************)
(* The end of a process, with the names that Falls gives to its parts.     *)
(***************************************************************************)
Failed(h) == {q \in Procs : proc[q] = [state |-> "booting", of |-> h]}
Stops(h) == {o \in Ops : WaitsForExit(o, h)}
Restarts(h) == {o \in Stops(h) : op[o].goal = "restart"}
First(h) == IF Restarts(h) = {} THEN {} ELSE {CHOOSE o \in Restarts(h) : TRUE}
Left(p, h) ==
  [q \in Procs |-> IF q = p THEN NoneProc
                   ELSE IF q \in Failed(h) THEN [proc[q] EXCEPT !.state = "stray"]
                   ELSE proc[q]]
OpsAfter(p, h) ==
  [o \in Ops |->
     IF WaitsForStart(o, Failed(h)) THEN AfterFailedStart(o)
     ELSE IF o \in First(h)
     THEN [op[o] EXCEPT !.pc = "booting", !.proc = NextProc(Left(p, h)), !.handle = NoHandle]
     ELSE IF o \in Restarts(h) THEN IdleOp
     ELSE IF o \in Stops(h) THEN [op[o] EXCEPT !.pc = "mark", !.handle = NoHandle]
     ELSE op[o]]

LEMMA FallsParts ==
  ASSUME NEW p, NEW h, NEW s, Falls(p, h, s)
  PROVE  /\ \E status \in {s.status, "crashed", "stopped"} :
              handle' = [handle EXCEPT ![h] =
                           IF First(h) = {} THEN [s EXCEPT !.status = status]
                           ELSE Started(s, NextProc(Left(p, h)))]
         /\ proc' = IF First(h) = {} THEN Left(p, h) ELSE Spawned(Left(p, h), h)
         /\ registered' = registered \/ registered' = NoHandle
         /\ startLock' = startLock \/ startLock' = NoProc
         /\ op' = OpsAfter(p, h)
         /\ UNCHANGED plugin
         /\ Rejects(h)
<1>1. /\ proc' = IF First(h) = {} THEN Left(p, h) ELSE Spawned(Left(p, h), h)
      /\ registered' = registered \/ registered' = NoHandle
      /\ startLock' = startLock \/ startLock' = NoProc
      /\ UNCHANGED plugin
      /\ Rejects(h)
  BY DEF Falls, First, Restarts, Stops, Failed, Left, Rejects
<1>2. op' = OpsAfter(p, h)
  BY DEF Falls, First, Restarts, Stops, Failed, Left, OpsAfter
<1>3. \E status \in {s.status, "crashed", "stopped"} :
        handle' = [handle EXCEPT ![h] =
                     IF First(h) = {} THEN [s EXCEPT !.status = status]
                     ELSE Started(s, NextProc(Left(p, h)))]
  <2>1. PICK statuses :
          /\ statuses \subseteq {s.status, "crashed", "stopped"}
          /\ \E status \in statuses :
               handle' = [handle EXCEPT ![h] =
                            IF First(h) = {} THEN [s EXCEPT !.status = status]
                            ELSE Started(s, NextProc(Left(p, h)))]
    BY DEF Falls, First, Restarts, Stops, Failed, Left
  <2> QED BY <2>1
<1> QED BY <1>1, <1>2, <1>3

\* A handle whose process has ended, and which a waiting restart may start again.
LEMMA FallenHandle ==
  ASSUME TypeOK, NEW p \in Procs, NEW h \in Handles, NEW s \in Handle, s.child = NoProc,
         Falls(p, h, s)
  PROVE  /\ NextProc(Left(p, h)) \in Procs /\ Left(p, h)[NextProc(Left(p, h))].state = "none"
         /\ handle' \in [Handles -> Handle]
         /\ \A g \in Handles \ {h} : handle'[g] = handle[g]
         /\ First(h) = {} => handle'[h].child = NoProc
         /\ First(h) # {} => /\ handle'[h].child = NextProc(Left(p, h))
                             /\ handle'[h].status = "starting"
<1>1. NextProc(Left(p, h)) \in Procs /\ Left(p, h)[NextProc(Left(p, h))].state = "none"
  <2>1. Left(p, h)[p].state = "none"
    BY DEF Left, NoneProc
  <2> QED BY <2>1, FreePlace
<1>2. PICK status \in {s.status, "crashed", "stopped"} :
         handle' = [handle EXCEPT ![h] =
                      IF First(h) = {} THEN [s EXCEPT !.status = status]
                      ELSE Started(s, NextProc(Left(p, h)))]
  BY FallsParts
<1>3. status \in WorkerStatuses
  BY DEF Handle, WorkerStatuses
<1>4. [s EXCEPT !.status = status] \in Handle /\ [s EXCEPT !.status = status].child = NoProc
  BY <1>3 DEF Handle
<1>5. /\ Started(s, NextProc(Left(p, h))) \in Handle
      /\ Started(s, NextProc(Left(p, h))).child = NextProc(Left(p, h))
      /\ Started(s, NextProc(Left(p, h))).status = "starting"
  BY <1>1 DEF Started, Handle, WorkerStatuses
<1> QED BY <1>1, <1>2, <1>4, <1>5 DEF TypeOK

\* Its processes: p is gone, and there is a new one if a restart has started it.
LEMMA FallenProcs ==
  ASSUME TypeOK, NEW p \in Procs, NEW h \in Handles, NEW s \in Handle, s.child = NoProc,
         Falls(p, h, s)
  PROVE  /\ proc' \in [Procs -> Proc]
         /\ \A q \in Procs : \/ q # p /\ proc'[q].of = proc[q].of
                                /\ (proc'[q].state = "none" <=> proc[q].state = "none")
                             \/ q = p /\ proc'[q] = NoneProc
                             \/ /\ proc'[q] = [state |-> "booting", of |-> h]
                                /\ First(h) # {} /\ q = NextProc(Left(p, h))
                                /\ q \in Alive => q = p
         /\ First(h) # {} =>
              proc'[NextProc(Left(p, h))] = [state |-> "booting", of |-> h]
<1> DEFINE n == NextProc(Left(p, h))
<1>1. n \in Procs /\ Left(p, h)[n].state = "none"
  BY FallenHandle
<1>2. ASSUME NEW q \in Procs
      PROVE  /\ Left(p, h)[q] \in Proc
             /\ q = p => Left(p, h)[q] = NoneProc
             /\ q # p => /\ Left(p, h)[q].of = proc[q].of
                         /\ (Left(p, h)[q].state = "none" <=> proc[q].state = "none")
  <2>1. proc[q] \in Proc
    BY DEF TypeOK
  <2>2. CASE q = p
    <3>1. Left(p, h)[q] = NoneProc
      BY <2>2 DEF Left
    <3> QED BY <2>2, <3>1 DEF NoneProc, Proc, ProcStates
  <2>3. CASE q # p /\ q \in Failed(h)
    <3>1. Left(p, h)[q] = [proc[q] EXCEPT !.state = "stray"]
      BY <2>3 DEF Left
    <3>2. proc[q].state = "booting"
      BY <2>3 DEF Failed
    <3> QED BY <2>1, <2>3, <3>1, <3>2 DEF Proc, ProcStates
  <2>4. CASE q # p /\ q \notin Failed(h)
    <3>1. Left(p, h)[q] = proc[q]
      BY <2>4 DEF Left
    <3> QED BY <2>1, <2>4, <3>1
  <2> QED BY <2>2, <2>3, <2>4
<1>3. Left(p, h) = [q \in Procs |-> Left(p, h)[q]]
  BY DEF Left
<1>4. proc' = IF First(h) = {} THEN Left(p, h) ELSE [Left(p, h) EXCEPT ![n] =
                                                       [state |-> "booting", of |-> h]]
  BY FallsParts DEF Spawned
<1>5. [state |-> "booting", of |-> h] \in Proc
  BY DEF Proc, ProcStates
<1>6. proc' \in [Procs -> Proc]
  BY <1>2, <1>3, <1>4, <1>5
<1>7. First(h) # {} => proc'[n] = [state |-> "booting", of |-> h]
  BY <1>1, <1>3, <1>4
<1>8. n \in Alive => n = p
  BY <1>1, <1>2 DEF Alive
<1> HIDE DEF n
<1>9. \A q \in Procs : q # n \/ First(h) = {} => proc'[q] = Left(p, h)[q]
  BY <1>1, <1>3, <1>4
<1>10. ASSUME NEW q \in Procs
       PROVE  \/ q # p /\ proc'[q].of = proc[q].of
                 /\ (proc'[q].state = "none" <=> proc[q].state = "none")
              \/ q = p /\ proc'[q] = NoneProc
              \/ /\ proc'[q] = [state |-> "booting", of |-> h]
                 /\ First(h) # {} /\ q = n
                 /\ q \in Alive => q = p
  BY <1>2, <1>7, <1>8, <1>9
<1> QED BY <1>6, <1>7, <1>10 DEF n

\* The lifecycle calls after it.
LEMMA FallenOps ==
  ASSUME TypeOK, Goals, NEW p \in Procs, NEW h \in Handles, NEW s \in Handle,
         s.child = NoProc, Falls(p, h, s), NEW o \in Ops
  PROVE  /\ op'[o] \in Op /\ op'[o].list \subseteq op[o].list
         /\ op' = [q \in Ops |-> op'[q]]
         /\ op'[o].pc = "mark" => op'[o].goal \in {"disabled", "error"}
         /\ op'[o].pc \in {"unregister", "cancel", "stopping", "restart"} => op'[o] = op[o]
<1> DEFINE n == NextProc(Left(p, h))
<1>1. n \in Procs
  BY FallenHandle
<1>2. op[o] \in Op
  BY DEF TypeOK
<1>3. op' = OpsAfter(p, h)
  BY FallsParts
<1>4. op' = [q \in Ops |-> op'[q]]
  BY <1>3 DEF OpsAfter
<1>5. op'[o] = IF WaitsForStart(o, Failed(h)) THEN AfterFailedStart(o)
               ELSE IF o \in First(h)
               THEN [op[o] EXCEPT !.pc = "booting", !.proc = n, !.handle = NoHandle]
               ELSE IF o \in Restarts(h) THEN IdleOp
               ELSE IF o \in Stops(h) THEN [op[o] EXCEPT !.pc = "mark", !.handle = NoHandle]
               ELSE op[o]
  BY <1>3 DEF OpsAfter
<1> HIDE DEF n
<1>6. AfterFailedStart(o) \in Op /\ AfterFailedStart(o).list \subseteq op[o].list
      /\ AfterFailedStart(o).pc \in {"idle", "error"}
  BY <1>2, <1>1 DEF AfterFailedStart, IdleOp, Op, PluginStatuses
<1>7. /\ [op[o] EXCEPT !.pc = "booting", !.proc = n, !.handle = NoHandle] \in Op
      /\ [op[o] EXCEPT !.pc = "booting", !.proc = n, !.handle = NoHandle].list = op[o].list
      /\ [op[o] EXCEPT !.pc = "booting", !.proc = n, !.handle = NoHandle].pc = "booting"
  BY <1>1, <1>2 DEF Op
<1>8. IdleOp \in Op /\ IdleOp.list \subseteq op[o].list /\ IdleOp.pc = "idle"
  BY DEF IdleOp, Op, PluginStatuses
<1>9. /\ [op[o] EXCEPT !.pc = "mark", !.handle = NoHandle] \in Op
      /\ [op[o] EXCEPT !.pc = "mark", !.handle = NoHandle].list = op[o].list
      /\ [op[o] EXCEPT !.pc = "mark", !.handle = NoHandle].pc = "mark"
      /\ [op[o] EXCEPT !.pc = "mark", !.handle = NoHandle].goal = op[o].goal
  BY <1>2 DEF Op
<1>10. o \in Stops(h) \ Restarts(h) => op[o].goal \in {"disabled", "error"}
  BY DEF Stops, Restarts, WaitsForExit, Goals, GoalFits
<1>11. op[o].pc = "mark" => op[o].goal \in {"disabled", "error"}
  BY DEF Goals, GoalFits
<1> QED BY <1>2, <1>4, <1>5, <1>6, <1>7, <1>8, <1>9, <1>10, <1>11

-----------------------------------------------------------------------------
(* What keeps the handles sound. *)

LEMMA HandleKeeps ==
  ASSUME HandlesSound, NEW h \in Handles, NEW s \in Handle, s.child \in {handle[h].child, NoProc},
         s.child # NoProc => /\ s.status # "stopped"
                             /\ s.backoffTimer => s.status \in {"starting", "running"},
         handle' = [handle EXCEPT ![h] = s], UNCHANGED proc
  PROVE  HandlesSound' /\ UNCHANGED Alive
<1>1. UNCHANGED Alive
  BY DEF Alive
<1>2. handle' \in [Handles -> Handle] /\ handle'[h] = s
      /\ \A g \in Handles \ {h} : handle'[g] = handle[g]
  BY DEF HandlesSound
<1>3. Processes'
  <2>1. \A p \in Alive' : proc'[p].of \in Handles
    BY <1>1 DEF HandlesSound, Processes
  <2>2. ASSUME NEW g \in Handles, handle'[g].child # NoProc
        PROVE  KnownChild(handle[g].child, g)'
    <3>1. handle'[g].child = handle[g].child
      BY <1>2, <2>2
    <3>2. KnownChild(handle[g].child, g)
      BY <2>2, <3>1 DEF HandlesSound, Processes
    <3> QED BY <1>1, <3>1, <3>2 DEF KnownChild
  <2> QED BY <2>1, <2>2 DEF Processes
<1>4. Children'
  BY <1>2 DEF HandlesSound, Children
<1> QED BY <1>1, <1>2, <1>3, <1>4 DEF HandlesSound

LEMMA SpawnKeeps ==
  ASSUME HandlesSound, Procs # Alive, NEW h \in Handles, NEW s \in Handle,
         s.child = NextProc(proc), s.status = "starting",
         handle' = [handle EXCEPT ![h] = s], proc' = Spawned(proc, h)
  PROVE  /\ HandlesSound'
         /\ NextProc(proc) \in Procs \ Alive
         /\ Alive' = Alive \cup {NextProc(proc)}
         /\ \A p \in Alive : proc'[p] = proc[p]
<1> DEFINE n == NextProc(proc)
<1>1. n \in Procs /\ proc[n].state = "none"
  <2>1. PICK q \in Procs : proc[q].state = "none"
    BY DEF Alive
  <2> QED BY <2>1, FreePlace
<1>2. proc' = [proc EXCEPT ![n] = [state |-> "booting", of |-> h]]
  BY DEF Spawned
<1> HIDE DEF n
<1>3. /\ proc' \in [Procs -> Proc] /\ proc'[n] = [state |-> "booting", of |-> h]
      /\ \A p \in Procs \ {n} : proc'[p] = proc[p]
  BY <1>1, <1>2 DEF HandlesSound, Proc, ProcStates
<1>4. n \notin Alive /\ Alive' = Alive \cup {n}
  BY <1>1, <1>3 DEF Alive
<1>5. \A p \in Alive : proc'[p] = proc[p]
  BY <1>3, <1>4 DEF Alive
<1>6. handle' \in [Handles -> Handle] /\ handle'[h] = s
      /\ \A g \in Handles \ {h} : handle'[g] = handle[g]
  BY DEF HandlesSound
<1>7. Processes'
  <2>1. \A p \in Alive' : proc'[p].of \in Handles
    BY <1>3, <1>4, <1>5 DEF HandlesSound, Processes
  <2>2. ASSUME NEW g \in Handles \ {h}, handle'[g].child # NoProc
        PROVE  KnownChild(handle[g].child, g)'
    <3>1. handle'[g] = handle[g] /\ KnownChild(handle[g].child, g)
      BY <1>6, <2>2 DEF HandlesSound, Processes
    <3> QED BY <1>4, <1>5, <3>1 DEF KnownChild
  <2>3. KnownChild(handle[h].child, h)'
    <3>1. handle'[h].child = n
      BY <1>6 DEF n
    <3> QED BY <1>3, <1>4, <3>1 DEF KnownChild
  <2> QED BY <2>1, <2>2, <2>3 DEF Processes
<1>8. Children'
  BY <1>6 DEF HandlesSound, Children
<1> QED BY <1>1, <1>3, <1>4, <1>5, <1>6, <1>7, <1>8 DEF HandlesSound, n

LEMMA FallKeeps ==
  ASSUME TypeOK, HandlesSound, NEW p \in Alive, NEW h \in Handles, proc[p].of = h,
         NEW s \in Handle, s.child = NoProc, Falls(p, h, s)
  PROVE  HandlesSound'
<1> DEFINE n == NextProc(Left(p, h))
<1>0. p \in Procs
  BY DEF Alive
<1>1. /\ handle' \in [Handles -> Handle]
      /\ \A g \in Handles \ {h} : handle'[g] = handle[g]
      /\ First(h) = {} => handle'[h].child = NoProc
      /\ First(h) # {} => handle'[h].child = n /\ handle'[h].status = "starting"
      /\ n \in Procs
  BY <1>0, FallenHandle
<1>2. /\ proc' \in [Procs -> Proc]
      /\ First(h) # {} => proc'[n] = [state |-> "booting", of |-> h]
      /\ \A q \in Procs : \/ q # p /\ proc'[q].of = proc[q].of
                             /\ (proc'[q].state = "none" <=> proc[q].state = "none")
                          \/ q = p /\ proc'[q] = NoneProc
                          \/ /\ proc'[q] = [state |-> "booting", of |-> h]
                             /\ q \in Alive => q = p
  BY <1>0, FallenProcs
<1> HIDE DEF n
<1>3. ASSUME NEW q \in Alive \ {p}
      PROVE  q \in Alive' /\ proc'[q].of = proc[q].of
  <2>1. q \in Procs
    BY DEF Alive
  <2> QED BY <1>2, <2>1 DEF Alive, NoneProc
<1>4. Processes'
  <2>1. ASSUME NEW q \in Alive'
        PROVE  proc'[q].of \in Handles
    <3>1. q \in Procs /\ proc'[q].state # "none"
      BY DEF Alive
    <3>2. CASE proc'[q] = [state |-> "booting", of |-> h]
      BY <3>2
    <3>3. CASE proc'[q].of = proc[q].of /\ proc[q].state # "none"
      BY <3>1, <3>3 DEF HandlesSound, Processes, Alive
    <3> QED BY <1>2, <3>1, <3>2, <3>3 DEF NoneProc
  <2>2. ASSUME NEW g \in Handles \ {h}, handle'[g].child # NoProc
        PROVE  KnownChild(handle[g].child, g)'
    <3>1. handle'[g] = handle[g] /\ KnownChild(handle[g].child, g)
      BY <1>1, <2>2 DEF HandlesSound, Processes
    <3>2. handle[g].child \in Alive \ {p}
      BY <3>1 DEF KnownChild
    <3> QED BY <1>3, <3>1, <3>2 DEF KnownChild
  <2>3. ASSUME handle'[h].child # NoProc
        PROVE  KnownChild(handle[h].child, h)'
    <3>1. First(h) # {} /\ handle'[h].child = n
      BY <1>1, <2>3
    <3>2. proc'[n] = [state |-> "booting", of |-> h]
      BY <1>2, <3>1
    <3> QED BY <1>1, <3>1, <3>2 DEF KnownChild, Alive
  <2> QED BY <2>1, <2>2, <2>3 DEF Processes
<1>5. Children'
  BY <1>1 DEF HandlesSound, Children
<1> QED BY <1>1, <1>2, <1>4, <1>5 DEF HandlesSound

\* The end of a process is such a fall, in whichever way it comes.
LEMMA Ends ==
  ASSUME TypeOK, HandlesSound, NEW p \in Procs, Exit(p) \/ InitRejected(p)
  PROVE  /\ p \in Alive /\ proc[p].of \in Handles
         /\ \E s \in Handle : s.child = NoProc /\ Falls(p, proc[p].of, s)
<1>1. CASE Exit(p)
  <2>1. p \in Alive /\ proc[p].of \in Handles
    BY <1>1 DEF Exit, HandlesSound, Processes
  <2>2. handle[proc[p].of] \in Handle
    BY <2>1 DEF HandlesSound
  <2>3. PICK s \in Exits(handle[proc[p].of]) : Falls(p, proc[p].of, s)
    BY <1>1 DEF Exit
  <2> QED BY <2>1, <2>2, <2>3, ExitChanges
<1>2. CASE InitRejected(p)
  <2>1. p \in Alive /\ proc[p].of \in Handles
    BY <1>2 DEF InitRejected, HandlesSound, Processes
  <2>2. Killed(handle[proc[p].of]) \in Handle /\ Killed(handle[proc[p].of]).child = NoProc
    <3>1. handle[proc[p].of] \in Handle
      BY <2>1 DEF HandlesSound
    <3> QED BY <3>1 DEF Killed, Handle, WorkerStatuses
  <2>3. Falls(p, proc[p].of, Killed(handle[proc[p].of]))
    BY <1>2 DEF InitRejected
  <2> QED BY <2>1, <2>2, <2>3
<1> QED BY <1>1, <1>2

-----------------------------------------------------------------------------
(* The handles, step by step. *)

\* A handle keeps a process while calls may wait for it: they are rejected when it loses it.
Serves(h) == \E p \in Alive : proc[p].of = h
ServesOn == \A h \in Handles : Serves(h) => Serves(h)' \/ Rejects(h) \/ SchedulerLost

LEMMA SpawnServes ==
  ASSUME Alive \subseteq Alive', \A p \in Alive : proc'[p] = proc[p]
  PROVE  ServesOn
BY DEF ServesOn, Serves

LEMMA SameServes ==
  ASSUME UNCHANGED proc
  PROVE  ServesOn
BY DEF ServesOn, Serves, Alive

LEMMA SameHandles ==
  ASSUME HandlesSound, UNCHANGED <<handle, proc>>
  PROVE  HandlesSound'
BY DEF HandlesSound, Processes, Children, KnownChild, Alive

LEMMA InitOkHandles ==
  ASSUME HandlesSound, NEW p \in Procs, InitOk(p)
  PROVE  HandlesSound' /\ ServesOn
<1> DEFINE h == proc[p].of
           up == [handle EXCEPT ![h] = Initialized(handle[h])]
<1>1. p \in Alive /\ h \in Handles
  BY DEF InitOk, Alive, HandlesSound, Processes
<1>2. handle' = up /\ proc' = [proc EXCEPT ![p].state = "up"]
  BY <1>1 DEF InitOk, HandlesSound
<1>3. /\ proc' \in [Procs -> Proc] /\ Alive' = Alive
      /\ \A q \in Procs : proc'[q].of = proc[q].of
  <2>1. /\ proc'[p].state = "up" /\ proc'[p].of = proc[p].of /\ proc'[p] \in Proc
        /\ \A q \in Procs \ {p} : proc'[q] = proc[q]
    BY <1>2 DEF HandlesSound, Proc, ProcStates
  <2>2. proc' \in [Procs -> Proc]
    BY <1>2, <2>1 DEF HandlesSound
  <2> QED BY <1>1, <2>1, <2>2 DEF Alive
<1>4. Initialized(handle[h]) \in Handle /\ Initialized(handle[h]).child = handle[h].child
      /\ Initialized(handle[h]).status = "running"
  <2>1. handle[h] \in Handle
    BY <1>1 DEF HandlesSound
  <2>2. 0 \in 0 .. MaxCrashes + 1
    BY Constants
  <2> QED BY <2>1, <2>2 DEF Initialized, Handle, WorkerStatuses
<1> HIDE DEF h
<1>5. /\ handle' \in [Handles -> Handle]
      /\ \A g \in Handles : handle'[g].child = handle[g].child
      /\ \A g \in Handles : handle'[g] = handle[g] \/ handle'[g].status = "running"
  BY <1>1, <1>2, <1>4 DEF HandlesSound
<1>6. Processes'
  <2>1. \A q \in Alive' : proc'[q].of \in Handles
    BY <1>3 DEF HandlesSound, Processes, Alive
  <2>2. ASSUME NEW g \in Handles, handle'[g].child # NoProc
        PROVE  KnownChild(handle[g].child, g)'
    <3>1. KnownChild(handle[g].child, g)
      BY <1>5, <2>2 DEF HandlesSound, Processes
    <3>2. handle[g].child \in Procs
      BY <3>1 DEF KnownChild, Alive
    <3> QED BY <1>3, <1>5, <3>1, <3>2 DEF KnownChild
  <2> QED BY <2>1, <2>2 DEF Processes
<1>7. Children'
  BY <1>5 DEF HandlesSound, Children
<1>8. ServesOn
  BY <1>3 DEF ServesOn, Serves, Alive
<1> QED BY <1>3, <1>5, <1>6, <1>7, <1>8 DEF HandlesSound

LEMMA EndsHandles ==
  ASSUME TypeOK, HandlesSound, NEW p \in Procs, Exit(p) \/ InitRejected(p)
  PROVE  HandlesSound' /\ ServesOn
<1>1. PICK h \in Handles, s \in Handle :
         p \in Alive /\ proc[p].of = h /\ s.child = NoProc /\ Falls(p, h, s)
  BY Ends
<1>2. HandlesSound'
  BY <1>1, FallKeeps
<1>3. Rejects(h)
  BY <1>1, FallsParts
<1>4. ASSUME NEW g \in Handles \ {h}, Serves(g)
      PROVE  Serves(g)'
  <2>1. PICK q \in Alive : proc[q].of = g
    BY <1>4 DEF Serves
  <2>2. q \in Procs /\ q # p /\ proc[q].state # "none"
    BY <1>1, <2>1 DEF Alive
  <2>3. \/ q # p /\ proc'[q].of = proc[q].of
           /\ (proc'[q].state = "none" <=> proc[q].state = "none")
        \/ q = p /\ proc'[q] = NoneProc
        \/ /\ proc'[q] = [state |-> "booting", of |-> h]
           /\ First(h) # {} /\ q = NextProc(Left(p, h))
           /\ q \in Alive => q = p
    BY <1>1, <2>2, FallenProcs
  <2>4. proc'[q].of = g /\ proc'[q].state # "none"
    BY <2>1, <2>2, <2>3
  <2> QED BY <2>2, <2>4 DEF Serves, Alive
<1> QED BY <1>2, <1>3, <1>4 DEF ServesOn

LEMMA TimerHandles ==
  ASSUME HandlesSound, NEW h \in Handles, TimerFires(h)
  PROVE  HandlesSound' /\ ServesOn
<1> DEFINE s == [handle[h] EXCEPT !.backoffTimer = FALSE]
<1>1. s \in Handle /\ s.child = handle[h].child /\ s.status = handle[h].status /\ ~s.backoffTimer
  BY DEF HandlesSound, Handle
<1>2. CASE MayStart(s)
  <2>1. /\ Procs # Alive /\ handle' = [handle EXCEPT ![h] = Started(s, NextProc(proc))]
        /\ proc' = Spawned(proc, h)
    BY <1>2 DEF TimerFires
  <2>2. NextProc(proc) \in Procs
    <3>1. PICK q \in Procs : proc[q].state = "none"
      BY <2>1 DEF Alive
    <3> QED BY <3>1, FreePlace
  <2>3. /\ Started(s, NextProc(proc)) \in Handle
        /\ Started(s, NextProc(proc)).child = NextProc(proc)
        /\ Started(s, NextProc(proc)).status = "starting"
    BY <1>1, <2>2 DEF Started, Handle, WorkerStatuses
  <2> HIDE DEF s
  <2> QED BY <2>1, <2>3, SpawnKeeps, SpawnServes
<1>3. CASE ~MayStart(s)
  <2>1. handle' = [handle EXCEPT ![h] = s] /\ UNCHANGED proc
    BY <1>3 DEF TimerFires
  <2>2. s.child # NoProc => s.status # "stopped"
    BY <1>1 DEF HandlesSound, Children
  <2> HIDE DEF s
  <2> QED BY <1>1, <2>1, <2>2, HandleKeeps, SameServes
<1> QED BY <1>2, <1>3

LEMMA StopKeeps ==
  ASSUME HandlesSound, NEW h \in Handles,
         handle' = [handle EXCEPT ![h] = StopRequested(handle[h])], UNCHANGED proc
  PROVE  HandlesSound'
<1>1. handle[h] \in Handle
  BY DEF HandlesSound
<1>2. /\ StopRequested(handle[h]) \in Handle
      /\ StopRequested(handle[h]).child = handle[h].child
      /\ ~StopRequested(handle[h]).backoffTimer
      /\ StopRequested(handle[h]).status = "stopped" =>
           handle[h].status = "stopped" \/ handle[h].child = NoProc
  BY <1>1 DEF StopRequested, AlreadyStopped, Handle, WorkerStatuses
<1>3. handle[h].child # NoProc => handle[h].status # "stopped"
  BY DEF HandlesSound, Children
<1> QED BY <1>2, <1>3, HandleKeeps

LEMMA StartedType ==
  ASSUME NEW s \in Handle, NEW p \in Procs
  PROVE  Started(s, p) \in Handle /\ Started(s, p).child = p /\ Started(s, p).status = "starting"
BY DEF Started, Handle, WorkerStatuses

LEMMA RestartHandles ==
  ASSUME TypeOK, HandlesSound, NEW o \in Ops, Restart(o)
  PROVE  HandlesSound' /\ ServesOn
<1>1. CASE registered = NoHandle
  <2>1. UNCHANGED <<handle, proc>>
    BY <1>1 DEF Restart
  <2> QED BY <2>1, SameHandles, SameServes
<1>2. CASE registered # NoHandle
  <2>1. PICK h \in Handles : h = registered
    BY <1>2 DEF TypeOK
  <2>2. PICK s : s = StopRequested(handle[h])
    OBVIOUS
  <2>3. CASE AlreadyStopped(handle[h]) \/ handle[h].child = NoProc
    <3>1. /\ Procs # Alive /\ handle' = [handle EXCEPT ![h] = Started(s, NextProc(proc))]
          /\ proc' = Spawned(proc, h)
      BY <1>2, <2>1, <2>2, <2>3 DEF Restart
    <3>2. NextProc(proc) \in Procs
      <4>1. PICK q \in Procs : proc[q].state = "none"
        BY <3>1 DEF Alive
      <4> QED BY <4>1, FreePlace
    <3>3. s \in Handle
      <4>1. handle[h] \in Handle
        BY DEF HandlesSound
      <4> QED BY <2>2, <4>1 DEF StopRequested, Handle, WorkerStatuses
    <3> QED BY <3>1, <3>2, <3>3, StartedType, SpawnKeeps, SpawnServes
  <2>4. CASE ~(AlreadyStopped(handle[h]) \/ handle[h].child = NoProc)
    <3>1. handle' = [handle EXCEPT ![h] = s] /\ UNCHANGED proc
      BY <1>2, <2>1, <2>2, <2>4 DEF Restart
    <3> QED BY <2>2, <3>1, StopKeeps, SameServes
  <2> QED BY <2>3, <2>4
<1> QED BY <1>1, <1>2

LEMMA NewHandleType == NewHandle \in Handle
<1>1. 0 \in 0 .. MaxCrashes + 1
  BY Constants
<1> QED BY <1>1 DEF NewHandle, Handle, WorkerStatuses

LEMMA OpHandles ==
  ASSUME TypeOK, HandlesSound, NEW o \in Ops, OpStep(o)
  PROVE  HandlesSound' /\ ServesOn
<1>1. CASE UNCHANGED <<handle, proc>>
  BY <1>1, SameHandles, SameServes
<1>2. CASE StartWorker(o) /\ ~UNCHANGED <<handle, proc>>
  <2>1. PICK h \in Handles :
           /\ Procs # Alive
           /\ handle' = [handle EXCEPT ![h] = Started(NewHandle, NextProc(proc))]
           /\ proc' = Spawned(proc, h)
    BY <1>2 DEF StartWorker
  <2>2. NextProc(proc) \in Procs
    <3>1. PICK q \in Procs : proc[q].state = "none"
      BY <2>1 DEF Alive
    <3> QED BY <3>1, FreePlace
  <2> QED BY <2>1, <2>2, NewHandleType, StartedType, SpawnKeeps, SpawnServes
<1>3. CASE Unregistered(o) /\ ~UNCHANGED <<handle, proc>>
  <2>1. registered # NoHandle
    BY <1>3 DEF Unregistered, IsRunning
  <2>2. PICK h \in Handles : h = registered
    BY <2>1 DEF TypeOK
  <2>3. handle' = [handle EXCEPT ![h] = StopRequested(handle[h])] /\ UNCHANGED proc
    BY <1>3, <2>2 DEF Unregistered, TypeOK
  <2> QED BY <2>3, StopKeeps, SameServes
<1>4. CASE Restart(o)
  BY <1>4, RestartHandles
<1> QED BY <1>1, <1>2, <1>3, <1>4 DEF OpStep, EnableWrite, LoadSingle, SyncJobs, MarkError,
        Unregister, CancelNext, MarkStatus

LEMMA CrashHandles ==
  ASSUME HandlesSound, Crash
  PROVE  HandlesSound' /\ ServesOn
<1>1. /\ handle' = [h \in Handles |-> NewHandle] /\ proc' = [p \in Procs |-> NoneProc]
      /\ SchedulerLost
  BY DEF Crash
<1>2. Processes' /\ Children'
  BY <1>1 DEF Processes, Children, Alive, NoneProc, NewHandle
<1>3. proc' \in [Procs -> Proc]
  BY <1>1 DEF NoneProc, Proc, ProcStates
<1> QED BY <1>1, <1>2, <1>3, NewHandleType DEF HandlesSound, ServesOn

LEMMA HandlesNext ==
  ASSUME TypeOK, HandlesSound, [Next]_vars
  PROVE  HandlesSound' /\ ServesOn
<1>1. CASE UNCHANGED <<handle, proc>>
  BY <1>1, SameHandles, SameServes
<1>2. CASE \E p \in Procs : InitOk(p) \/ Exit(p) \/ InitRejected(p)
  BY <1>2, InitOkHandles, EndsHandles
<1>3. CASE \E h \in Handles : TimerFires(h)
  BY <1>3, TimerHandles
<1>4. CASE \E o \in Ops : OpStep(o)
  BY <1>4, OpHandles
<1>5. CASE Crash
  BY <1>5, CrashHandles
<1>6. CASE \E o \in Ops : Enable(o) \/ Disable(o) \/ RestartWorker(o)
  BY <1>1, <1>6 DEF Enable, Disable, RestartWorker, Request
<1>7. CASE \/ \E r \in JobRuns : DispatchStep(r) \/ Answered(r)
           \/ TickStep
           \/ \E c \in Callers : Trigger(c) \/ CallerStep(c)
           \/ \E j \in Jobs : ScheduleDue(j)
  BY <1>1, <1>7 DEF DispatchStep, Answered, TickStep, Trigger, CallerStep, ScheduleDue, lifecycleVars
<1>8. CASE UNCHANGED vars
  BY <1>1, <1>8 DEF vars, lifecycleVars
<1> QED BY <1>2, <1>3, <1>4, <1>5, <1>6, <1>7, <1>8 DEF Next

-----------------------------------------------------------------------------
(* The lifecycle calls, step by step. *)

UsedRuns == {r \in JobRuns : jobRun[r].stage # "unused"}
Fits(rec) == rec \in Op /\ GoalFits(rec) /\ rec.list \subseteq UsedRuns

LEMMA OpFits ==
  ASSUME OpsSound, NEW o \in Ops
  PROVE  Fits(op[o])
<1>1. op[o] \in Op
  BY DEF OpsSound
<1>2. op[o].list \subseteq JobRuns
  BY <1>1 DEF Op
<1> QED BY <1>1, <1>2 DEF OpsSound, Goals, Lists, Fits, UsedRuns

LEMMA OpsKeep ==
  ASSUME SchedulerTypeOK, SchedulerGoesOn,
         op' = [o \in Ops |-> op'[o]], \A o \in Ops : Fits(op'[o])
  PROVE  OpsSound'
<1>1. op' \in [Ops -> Op] /\ Goals'
  BY DEF Fits, Goals
<1>2. Lists'
  <2> SUFFICES ASSUME NEW o \in Ops, NEW r \in op'[o].list
               PROVE  jobRun'[r].stage # "unused"
    BY DEF Lists
  <2>1. r \in JobRuns /\ jobRun[r].stage # "unused"
    BY DEF Fits, UsedRuns
  <2> QED BY <2>1, UsedStaysUsed
<1> QED BY <1>1, <1>2 DEF OpsSound

LEMMA SameOps ==
  ASSUME SchedulerTypeOK, OpsSound, SchedulerGoesOn, UNCHANGED op
  PROVE  OpsSound'
<1>1. op' = [o \in Ops |-> op'[o]]
  BY DEF OpsSound
<1>2. \A o \in Ops : Fits(op'[o])
  BY OpFits
<1> QED BY <1>1, <1>2, OpsKeep

LEMMA OneOp ==
  ASSUME SchedulerTypeOK, OpsSound, SchedulerGoesOn, NEW o \in Ops, NEW rec, Fits(rec),
         op' = [op EXCEPT ![o] = rec]
  PROVE  OpsSound'
<1>1. op' = [q \in Ops |-> op'[q]] /\ op'[o] = rec /\ \A q \in Ops \ {o} : op'[q] = op[q]
  BY DEF OpsSound
<1>2. \A q \in Ops : Fits(op'[q])
  BY <1>1, OpFits
<1> QED BY <1>1, <1>2, OpsKeep

LEMMA IdleFits == Fits(IdleOp) /\ IdleOp.list = {}
BY DEF IdleOp, Fits, Op, GoalFits, PluginStatuses

\* A call that goes on to pc, with its goal or another one.
LEMMA GotoFits ==
  ASSUME OpsSound, NEW o \in Ops
  PROVE  /\ \A pc \in {"load", "start", "booting", "sync", "error"} :
              Fits([op[o] EXCEPT !.pc = pc])
         /\ \A pc \in {"booting", "sync", "error"}, p \in Procs \cup {NoProc} :
              Fits([op[o] EXCEPT !.pc = pc, !.proc = p])
         /\ op[o].goal \in {"disabled", "error"} => Fits([op[o] EXCEPT !.pc = "mark"])
         /\ \A h \in Handles : op[o].goal \in {"restart", "disabled", "error"} =>
              Fits([op[o] EXCEPT !.pc = "stopping", !.handle = h])
         /\ \A goal \in {"none", "error"}, seen \in PluginStatuses :
              Fits([op[o] EXCEPT !.pc = "unregister", !.goal = goal, !.seen = seen])
         /\ Fits([op[o] EXCEPT !.pc = "unregister", !.goal = "none"])
         /\ op[o].goal \in {"none", "disabled", "error"} =>
              \A list \in SUBSET UsedRuns : Fits([op[o] EXCEPT !.pc = "cancel", !.list = list])
         /\ \A r : Fits([op[o] EXCEPT !.list = @ \ {r}])
<1>1. op[o] \in Op /\ GoalFits(op[o]) /\ op[o].list \subseteq UsedRuns
  BY OpFits DEF Fits
<1>2. UsedRuns \subseteq JobRuns
  BY DEF UsedRuns
<1> HIDE DEF UsedRuns
<1>3. \A pc \in {"load", "start", "booting", "sync", "error"} :
        Fits([op[o] EXCEPT !.pc = pc])
  BY <1>1 DEF Fits, Op, GoalFits
<1>4. \A pc \in {"booting", "sync", "error"}, p \in Procs \cup {NoProc} :
        Fits([op[o] EXCEPT !.pc = pc, !.proc = p])
  BY <1>1 DEF Fits, Op, GoalFits
<1>5. op[o].goal \in {"disabled", "error"} => Fits([op[o] EXCEPT !.pc = "mark"])
  BY <1>1 DEF Fits, Op, GoalFits
<1>6. \A h \in Handles : op[o].goal \in {"restart", "disabled", "error"} =>
        Fits([op[o] EXCEPT !.pc = "stopping", !.handle = h])
  BY <1>1 DEF Fits, Op, GoalFits
<1>7. \A goal \in {"none", "error"}, seen \in PluginStatuses :
        Fits([op[o] EXCEPT !.pc = "unregister", !.goal = goal, !.seen = seen])
  BY <1>1 DEF Fits, Op, GoalFits
<1>8. Fits([op[o] EXCEPT !.pc = "unregister", !.goal = "none"])
  BY <1>1 DEF Fits, Op, GoalFits
<1>9. op[o].goal \in {"none", "disabled", "error"} =>
        \A list \in SUBSET UsedRuns : Fits([op[o] EXCEPT !.pc = "cancel", !.list = list])
  BY <1>1, <1>2 DEF Fits, Op, GoalFits
<1>10. \A r : Fits([op[o] EXCEPT !.list = @ \ {r}])
  BY <1>1 DEF Fits, Op, GoalFits
<1> QED BY <1>3, <1>4, <1>5, <1>6, <1>7, <1>8, <1>9, <1>10

LEMMA FreeProcIsProc ==
  ASSUME Procs # Alive
  PROVE  NextProc(proc) \in Procs
<1>1. PICK q \in Procs : proc[q].state = "none"
  BY DEF Alive
<1> QED BY <1>1, FreePlace

LEMMA OpStepOps ==
  ASSUME TypeOK, OpsSound, SchedulerGoesOn, NEW o \in Ops, OpStep(o)
  PROVE  OpsSound'
<1>0. SchedulerTypeOK
  BY DEF TypeOK
<1>1. SUFFICES \E rec : Fits(rec) /\ op' = [op EXCEPT ![o] = rec]
  BY <1>0, OneOp
<1>2. op[o] \in Op /\ GoalFits(op[o])
  BY OpFits DEF Fits
<1>3. CASE EnableWrite(o)
  BY <1>3, GotoFits DEF EnableWrite, Goto
<1>4. CASE LoadSingle(o)
  BY <1>4, GotoFits, IdleFits DEF LoadSingle, Goto, Return, Become
<1>5. CASE StartWorker(o)
  <2>1. \/ op' = [op EXCEPT ![o].pc = "error"]
        \/ \E p \in Procs \cup {NoProc} : op' = [op EXCEPT ![o] = [op[o] EXCEPT !.pc = "booting",
                                                                          !.proc = p]]
    BY <1>5, FreeProcIsProc DEF StartWorker, Goto, Become, TypeOK
  <2> QED BY <2>1, GotoFits
<1>6. CASE SyncJobs(o)
  BY <1>6, IdleFits DEF SyncJobs, Return, Become
<1>7. CASE MarkError(o)
  BY <1>7, GotoFits DEF MarkError, Become, TypeOK
<1>8. CASE Unregister(o)
  <2>1. UnfinishedRuns \in SUBSET UsedRuns
    <3>1. \A r \in JobRuns : jobRun[r].status \in Unfinished => jobRun[r] # UnusedRun
      BY DEF UnusedRun, Unfinished
    <3>2. \A r \in JobRuns : jobRun[r] \in JobRun => jobRun[r].stage # "unused"
      BY DEF JobRun, Stages, Dispatching
    <3> QED BY <1>0, <3>1, <3>2 DEF UnfinishedRuns, UsedRuns, SchedulerTypeOK
  <2>2. op[o].goal \in {"none", "disabled", "error"}
    BY <1>2, <1>8 DEF Unregister, At, GoalFits
  <2> QED BY <1>8, <2>1, <2>2, GotoFits DEF Unregister, Become
<1>9. CASE CancelNext(o)
  BY <1>9, GotoFits DEF CancelNext
<1>10. CASE Unregistered(o)
  <2>1. op[o].goal \in {"none", "disabled", "error"}
    BY <1>2, <1>10 DEF Unregistered, At, GoalFits
  <2>2. \/ op' = [op EXCEPT ![o] = IdleOp]
        \/ op[o].goal # "none" /\ op' = [op EXCEPT ![o].pc = "mark"]
        \/ /\ op[o].goal # "none" /\ registered \in Handles
           /\ op' = [op EXCEPT ![o] = [op[o] EXCEPT !.pc = "stopping", !.handle = registered]]
    BY <1>10 DEF Unregistered, Return, Become, Goto, IsRunning, TypeOK
  <2> QED BY <2>1, <2>2, GotoFits, IdleFits
<1>11. CASE MarkStatus(o)
  BY <1>11, GotoFits, IdleFits DEF MarkStatus, Return, Become
<1>12. CASE Restart(o)
  <2>1. PICK h \in Handles \cup {NoHandle} : h = registered
    BY DEF TypeOK
  <2>2. CASE h = NoHandle
    BY <1>12, <2>1, <2>2, IdleFits DEF Restart, Return, Become
  <2>3. CASE h # NoHandle
    <3>1. \/ \E p \in Procs : op' = [op EXCEPT ![o] = [op[o] EXCEPT !.pc = "booting", !.proc = p]]
          \/ op' = [op EXCEPT ![o] = [op[o] EXCEPT !.pc = "stopping", !.handle = h]]
      BY <1>12, <2>1, <2>3, FreeProcIsProc DEF Restart, Become
    <3>2. op[o].goal = "restart"
      BY <1>2, <1>12 DEF Restart, At, GoalFits
    <3> QED BY <2>3, <3>1, <3>2, GotoFits
  <2> QED BY <2>2, <2>3
<1> QED BY <1>3, <1>4, <1>5, <1>6, <1>7, <1>8, <1>9, <1>10, <1>11, <1>12 DEF OpStep

LEMMA RequestOps ==
  ASSUME TypeOK, OpsSound, SchedulerGoesOn, NEW o \in Ops, Enable(o) \/ Disable(o) \/ RestartWorker(o)
  PROVE  OpsSound'
<1>1. PICK pc \in {"write", "unregister", "restart"}, goal \in {"ready", "disabled", "restart"} :
         /\ pc = "unregister" => goal = "disabled"
         /\ pc = "restart" => goal = "restart"
         /\ op' = [op EXCEPT ![o] = [IdleOp EXCEPT !.pc = pc, !.goal = goal]]
  BY DEF Enable, Disable, RestartWorker, Request, Become
<1>2. Fits([IdleOp EXCEPT !.pc = pc, !.goal = goal])
  BY <1>1, IdleFits DEF Fits, Op, GoalFits
<1> QED BY <1>1, <1>2, OneOp DEF TypeOK

LEMMA InitOkOps ==
  ASSUME TypeOK, OpsSound, SchedulerGoesOn, NEW p \in Procs, InitOk(p)
  PROVE  OpsSound'
<1>1. op' = [o \in Ops |-> IF WaitsForStart(o, {p}) THEN AfterStart(o) ELSE op[o]]
  BY DEF InitOk
<1>2. \A o \in Ops : Fits(AfterStart(o))
  BY GotoFits, IdleFits DEF AfterStart
<1>3. \A o \in Ops : Fits(op'[o])
  BY <1>1, <1>2, OpFits
<1> QED BY <1>1, <1>3, OpsKeep DEF TypeOK

LEMMA EndsOps ==
  ASSUME TypeOK, HandlesSound, OpsSound, SchedulerGoesOn, NEW p \in Procs,
         Exit(p) \/ InitRejected(p)
  PROVE  OpsSound'
<1>1. PICK h \in Handles, s \in Handle : s.child = NoProc /\ Falls(p, h, s)
  BY Ends
<1>2. ASSUME NEW o \in Ops
      PROVE  /\ op'[o] \in Op /\ op'[o].list \subseteq op[o].list
             /\ op' = [q \in Ops |-> op'[q]]
             /\ op'[o].pc = "mark" => op'[o].goal \in {"disabled", "error"}
             /\ op'[o].pc \in {"unregister", "cancel", "stopping", "restart"} => op'[o] = op[o]
  BY <1>1, FallenOps DEF OpsSound
<1>3. ASSUME NEW o \in Ops
      PROVE  Fits(op'[o])
  <2>1. op[o].list \subseteq UsedRuns /\ GoalFits(op[o])
    BY OpFits DEF Fits
  <2>2. GoalFits(op'[o])
    BY <1>2, <2>1 DEF GoalFits
  <2> QED BY <1>2, <2>1, <2>2 DEF Fits
<1>4. op' = [o \in Ops |-> op'[o]]
  BY <1>2, Constants
<1> QED BY <1>3, <1>4, OpsKeep DEF TypeOK

LEMMA BootingOps ==
  ASSUME op' = Booting
  PROVE  OpsSound'
<1> DEFINE boot == [IdleOp EXCEPT !.pc = "start", !.goal = "ready"]
<1>1. /\ IdleOp \in Op /\ GoalFits(IdleOp) /\ IdleOp.list = {}
      /\ boot \in Op /\ GoalFits(boot) /\ boot.list = {}
  BY DEF IdleOp, Op, GoalFits, PluginStatuses
<1> HIDE DEF boot
<1>2. op' = [o \in Ops |-> IF o = BootOp /\ plugin = "ready" THEN boot ELSE IdleOp]
  BY DEF Booting, boot
<1> QED BY <1>1, <1>2 DEF OpsSound, Goals, Lists

LEMMA OpsNext ==
  ASSUME TypeOK, HandlesSound, OpsSound, [Next]_vars
  PROVE  OpsSound'
<1>0. SchedulerTypeOK /\ (SchedulerGoesOn \/ Crash)
  BY NextGoesOn DEF TypeOK, HandlesSound, OpsSound
<1>1. CASE Crash
  BY <1>1, BootingOps DEF Crash
<1>2. CASE SchedulerGoesOn
  <2>1. CASE UNCHANGED op
    BY <1>0, <1>2, <2>1, SameOps
  <2>2. CASE \E p \in Procs : InitOk(p) \/ Exit(p) \/ InitRejected(p)
    BY <1>2, <2>2, InitOkOps, EndsOps
  <2>3. CASE \E o \in Ops : Enable(o) \/ Disable(o) \/ RestartWorker(o) \/ OpStep(o)
    BY <1>2, <2>3, RequestOps, OpStepOps
  <2>4. CASE Crash
    BY <1>1, <2>4
  <2>5. CASE \/ \E r \in JobRuns : DispatchStep(r) \/ Answered(r)
             \/ TickStep
             \/ \E c \in Callers : Trigger(c) \/ CallerStep(c)
             \/ \E j \in Jobs : ScheduleDue(j)
             \/ \E h \in Handles : TimerFires(h)
    BY <2>1, <2>5 DEF DispatchStep, Answered, TickStep, Trigger, CallerStep, ScheduleDue, TimerFires,
       lifecycleVars
  <2>6. CASE UNCHANGED vars
    BY <2>1, <2>6 DEF vars, lifecycleVars
  <2> QED BY <2>2, <2>3, <2>4, <2>5, <2>6 DEF Next
<1> QED BY <1>0, <1>1, <1>2

-----------------------------------------------------------------------------
(* The rest of the types. *)

LEMMA EventTypes ==
  ASSUME TypeOK, (\E kind \in EventKinds : Event(kind)) \/ NoEvent
  PROVE  (events \in [EventKinds -> Nat] /\ total \in 0 .. MaxTotal)'
<1>1. ASSUME NEW kind \in EventKinds, Event(kind)
      PROVE  (events \in [EventKinds -> Nat] /\ total \in 0 .. MaxTotal)'
  <2>1. total' = total + 1 /\ total < MaxTotal /\ events' = [events EXCEPT ![kind] = @ + 1]
    BY <1>1 DEF Event
  <2> QED BY <2>1, Constants DEF TypeOK
<1>2. CASE NoEvent
  BY <1>2 DEF NoEvent, TypeOK
<1> QED BY <1>1, <1>2

LEMMA NextEvents ==
  ASSUME Next
  PROVE  (\E kind \in EventKinds : Event(kind)) \/ NoEvent
<1>1. CASE \E p \in Procs : InitOk(p) \/ Exit(p) \/ InitRejected(p)
  BY <1>1, Constants DEF InitOk, Exit, InitRejected
<1>2. CASE \E h \in Handles : TimerFires(h)
  BY <1>2 DEF TimerFires
<1>3. CASE \E o \in Ops : Enable(o) \/ Disable(o) \/ RestartWorker(o)
  BY <1>3, Constants DEF Enable, Disable, RestartWorker, Request
<1>4. CASE \E o \in Ops : OpStep(o)
  BY <1>4 DEF OpStep, EnableWrite, LoadSingle, StartWorker, SyncJobs, MarkError, Unregister,
     CancelNext, Unregistered, MarkStatus, Restart
<1>5. CASE \/ \E r \in JobRuns : DispatchStep(r) \/ Answered(r)
           \/ TickStep
           \/ \E c \in Callers : Trigger(c) \/ CallerStep(c)
           \/ \E j \in Jobs : ScheduleDue(j)
           \/ Crash
  BY <1>5, Constants DEF DispatchStep, Answered, TickStep, Trigger, CallerStep, ScheduleDue, Crash
<1> QED BY <1>1, <1>2, <1>3, <1>4, <1>5 DEF Next

\* The row of the plugin, the map of workers and the start locks.
RefsOK ==
  /\ plugin \in PluginStatuses
  /\ registered \in Handles \cup {NoHandle}
  /\ startLock \in Procs \cup {NoProc}

LEMMA RefsNext ==
  ASSUME TypeOK, HandlesSound, OpsSound, [Next]_vars
  PROVE  RefsOK'
<1>0. RefsOK
  BY DEF TypeOK, RefsOK
<1>1. CASE UNCHANGED <<plugin, registered, startLock>>
  BY <1>0, <1>1 DEF RefsOK
<1>2. ASSUME NEW p \in Procs, InitOk(p)
      PROVE  RefsOK'
  BY <1>0, <1>2 DEF InitOk, RefsOK
<1>3. ASSUME NEW p \in Procs, Exit(p) \/ InitRejected(p)
      PROVE  RefsOK'
  <2>1. PICK h \in Handles, s \in Handle : s.child = NoProc /\ Falls(p, h, s)
    BY <1>3, Ends
  <2>2. /\ registered' = registered \/ registered' = NoHandle
        /\ startLock' = startLock \/ startLock' = NoProc
        /\ UNCHANGED plugin
    BY <2>1, FallsParts
  <2> QED BY <1>0, <2>2 DEF RefsOK
<1>4. ASSUME NEW o \in Ops, OpStep(o)
      PROVE  RefsOK'
  <2>1. CASE StartWorker(o)
    BY <1>0, <2>1, FreeProcIsProc DEF StartWorker, RefsOK
  <2>2. CASE MarkStatus(o)
    <3>1. op[o].goal \in PluginStatuses
      <4>1. GoalFits(op[o])
        BY DEF OpsSound, Goals
      <4> QED BY <2>2, <4>1 DEF MarkStatus, At, GoalFits, PluginStatuses
    <3> QED BY <1>0, <2>2, <3>1 DEF MarkStatus, RefsOK
  <2>3. CASE Unregistered(o)
    BY <1>0, <2>3 DEF Unregistered, RefsOK
  <2>4. CASE EnableWrite(o)
    BY <1>0, <2>4 DEF EnableWrite, RefsOK, PluginStatuses
  <2>5. CASE LoadSingle(o) \/ SyncJobs(o) \/ MarkError(o) \/ Unregister(o) \/ CancelNext(o)
             \/ Restart(o)
    BY <1>1, <2>5 DEF LoadSingle, SyncJobs, MarkError, Unregister, CancelNext, Restart
  <2> QED BY <1>4, <2>1, <2>2, <2>3, <2>4, <2>5 DEF OpStep
<1>5. CASE Crash
  BY <1>0, <1>5 DEF Crash, RefsOK
<1>6. CASE \E o \in Ops : Enable(o) \/ Disable(o) \/ RestartWorker(o)
  BY <1>1, <1>6 DEF Enable, Disable, RestartWorker, Request
<1>7. CASE \/ \E r \in JobRuns : DispatchStep(r) \/ Answered(r)
           \/ TickStep
           \/ \E c \in Callers : Trigger(c) \/ CallerStep(c)
           \/ \E j \in Jobs : ScheduleDue(j)
           \/ \E h \in Handles : TimerFires(h)
           \/ UNCHANGED vars
  BY <1>1, <1>7 DEF DispatchStep, Answered, TickStep, Trigger, CallerStep, ScheduleDue, TimerFires,
     lifecycleVars, vars
<1> QED BY <1>2, <1>3, <1>4, <1>5, <1>6, <1>7 DEF Next

-----------------------------------------------------------------------------
(* The inductive invariant of the whole, and what follows from it. *)

Inv ==
  /\ TypeOK
  /\ HandlesSound /\ OpsSound
  /\ NoEarlyOutcome /\ OfTheTick /\ MarkHasDispatch /\ CallHasProcess

\* Only a dispatch makes a call.
LEMMA CalledBefore ==
  ASSUME SchedulerTypeOK, Undispatched, NEW r \in JobRuns, jobRun'[r].stage = "called"
  PROVE  jobRun[r].stage = "called" /\ jobRun'[r].worker = jobRun[r].worker
<1>1. CASE jobRun'[r] = jobRun[r]
  BY <1>1
<1>2. ASSUME NEW q \in JobRuns \ Unused, CancelRun(q)
      PROVE  jobRun[r].stage = "called" /\ jobRun'[r].worker = jobRun[r].worker
  <2>1. CASE q = r
    <3>1. jobRun[r] \in JobRun /\ jobRun'[r] = [jobRun[r] EXCEPT !.status = "cancelled"]
      BY <1>2, <2>1, LiveIsUsed DEF Unused, CancelRun, SchedulerTypeOK
    <3> QED BY <3>1 DEF JobRun
  <2>2. CASE q # r
    BY <1>1, <1>2, <2>2 DEF CancelRun, SchedulerTypeOK
  <2> QED BY <2>1, <2>2
<1>3. ASSUME NEW h \in Handles, Rejects(h)
      PROVE  jobRun[r].stage = "called" /\ jobRun'[r].worker = jobRun[r].worker
  <2>1. CASE jobRun[r].stage = "called" /\ jobRun[r].worker = h
    <3>1. jobRun[r] \in JobRun /\ jobRun'[r] = [jobRun[r] EXCEPT !.stage = "record"]
      BY <1>3, <2>1, LiveIsUsed DEF Rejects, Rejected
    <3> QED BY <3>1 DEF JobRun
  <2>2. CASE ~(jobRun[r].stage = "called" /\ jobRun[r].worker = h)
    BY <1>1, <1>3, <2>2 DEF Rejects, Rejected
  <2> QED BY <2>1, <2>2
<1>4. ASSUME NEW running \in BOOLEAN, TickDispatch(running)
      PROVE  jobRun[r].stage = "called" /\ jobRun'[r].worker = jobRun[r].worker
  <2>1. PICK D \in Dispatchable(running), R \in SUBSET Unused : \E f \in [R -> D] :
           /\ Cardinality(R) = Cardinality(D)
           /\ \A j \in D : \E s \in R : f[s] = j
           /\ jobRun' = Inserted(R, f)
           /\ activeJobs' = activeJobs \cup D
           /\ tick' = IF D = {} THEN Idle ELSE [tick EXCEPT !.stage = "waiting", !.runs = R]
           /\ UNCHANGED <<next, caller>>
    BY <1>4, TickDispatches
  <2>2. PICK f \in [R -> D] : jobRun' = Inserted(R, f)
    BY <2>1
  <2>3. /\ \A q \in R : jobRun'[q] = Dispatched(f[q], "schedule", "create", "none")
        /\ \A q \in JobRuns \ R : jobRun'[q] = jobRun[q]
    BY <2>2, InsertedRows
  <2>4. \A j : Dispatched(j, "schedule", "create", "none").stage = "create"
    BY DEF Dispatched
  <2>5. r \notin R
    BY <2>3, <2>4
  <2> QED BY <1>1, <2>3, <2>5
<1>5. ASSUME NEW c \in Callers, CallerMoves(c)
      PROVE  jobRun[r].stage = "called" /\ jobRun'[r].worker = jobRun[r].worker
  <2>1. CASE TriggerCreate(c)
    <3>1. PICK q \in Unused :
             /\ jobRun'[q] = Dispatched(caller[c].job, "manual", "mark", "queued")
             /\ \A x \in JobRuns \ {q} : jobRun'[x] = jobRun[x]
      BY <2>1, TriggerInserts
    <3>2. jobRun'[q].stage = "mark"
      BY <3>1 DEF Dispatched
    <3> QED BY <1>1, <3>1, <3>2
  <2>2. CASE ~TriggerCreate(c)
    BY <1>1, <1>5, <2>2 DEF CallerMoves, TriggerBegin, TriggerSelect
  <2> QED BY <2>1, <2>2
<1>6. CASE UNCHANGED jobRun
  BY <1>1, <1>6
<1> QED BY <1>2, <1>3, <1>4, <1>5, <1>6 DEF Undispatched, TickSelect, TickDone, ComesDue,
        RegisterPlugin, ForgetActiveJobs, schedulerVars

\* A call that is sent is sent to a worker that has a process, and rejected with it.
LEMMA CallHasProcessNext ==
  ASSUME TypeOK, HandlesSound, Lists, CallHasProcess, ServesOn, [Next]_vars
  PROVE  CallHasProcess'
<1>0. SchedulerTypeOK
  BY DEF TypeOK
<1>1. SUFFICES ASSUME NEW r \in JobRuns, jobRun'[r].stage = "called"
               PROVE  Serves(jobRun[r].worker)'
  BY DEF CallHasProcess, Serves
<1>2. ASSUME jobRun[r].stage = "called", jobRun'[r].worker = jobRun[r].worker
      PROVE  Serves(jobRun[r].worker)'
  <2>1. PICK p \in Alive : proc[p].of = jobRun[r].worker
    BY <1>2 DEF CallHasProcess
  <2>2. PICK h \in Handles : h = jobRun[r].worker
    BY <2>1 DEF HandlesSound, Processes
  <2>3. Serves(h)
    BY <2>1, <2>2 DEF Serves
  <2>4. ~Rejects(h)
    <3>1. SUFFICES ASSUME jobRun' = Rejected(h)
                   PROVE  FALSE
      BY DEF Rejects
    <3>2. jobRun'[r] = [jobRun[r] EXCEPT !.stage = "record"] /\ jobRun[r] \in JobRun
      BY <1>0, <1>2, <2>2, <3>1, LiveIsUsed DEF Rejected
    <3>3. jobRun'[r].stage = "record"
      BY <3>2 DEF JobRun
    <3> QED BY <1>1, <3>3
  <2>5. ~SchedulerLost
    BY <1>0, <1>1, LostRows DEF Live, Dispatching
  <2>6. Serves(h)'
    BY <2>3, <2>4, <2>5 DEF ServesOn
  <2> QED BY <1>2, <2>2, <2>6 DEF Serves
<1>3. CASE jobRun'[r] = jobRun[r]
  BY <1>1, <1>2, <1>3
<1>4. ASSUME NEW h \in Handles \cup {NoHandle}, CallWorker(r, h), DispatchStep(r),
             h = IF registered # NoHandle /\ MayCall(handle[registered]) THEN registered
                 ELSE NoHandle
      PROVE  Serves(jobRun[r].worker)'
  <2>1. jobRun[r].stage = "call" /\ jobRun[r] \in JobRun
    BY <1>0, <1>4, LiveIsUsed DEF CallWorker
  <2>2. jobRun'[r] = [jobRun[r] EXCEPT !.stage = IF h = NoHandle THEN "record" ELSE "called",
                                        !.worker = h]
    BY <1>0, <1>4 DEF CallWorker, SchedulerTypeOK
  <2>3. h # NoHandle /\ jobRun'[r].worker = h
    BY <1>1, <2>1, <2>2 DEF JobRun
  <2>4. h \in Handles /\ handle[h].child # NoProc
    BY <1>4, <2>3 DEF MayCall
  <2>5. KnownChild(handle[h].child, h)
    BY <2>4 DEF HandlesSound, Processes
  <2>6. UNCHANGED proc
    BY <1>4 DEF DispatchStep, lifecycleVars
  <2> QED BY <2>3, <2>5, <2>6 DEF Serves, KnownChild, Alive
<1>5. CASE \E q \in JobRuns : DispatchStep(q) \/ Answered(q)
  <2>1. PICK q \in JobRuns : DispatchStep(q) \/ Answered(q)
    BY <1>5
  <2>2. CASE q = r
    <3>1. CreateRun(r) \/ MarkRunning(r) \/ RecordOutcome(r) \/ AdvanceSchedulePointer(r)
          \/ (\E outcome \in Outcomes : Answer(r, outcome)) => FALSE
      <4>1. \A stage \in {"mark", "call", "record", "advance", "over"} : stage # "called"
        OBVIOUS
      <4>2. CreateRun(r) \/ MarkRunning(r) \/ RecordOutcome(r) \/ AdvanceSchedulePointer(r)
            \/ (\E outcome \in Outcomes : Answer(r, outcome)) => jobRun[r] \in JobRun
        BY <1>0, LiveIsUsed DEF CreateRun, MarkRunning, RecordOutcome, AdvanceSchedulePointer, Answer
      <4>3. CreateRun(r) \/ MarkRunning(r) \/ RecordOutcome(r) \/ AdvanceSchedulePointer(r)
            \/ (\E outcome \in Outcomes : Answer(r, outcome)) =>
            jobRun'[r].stage \in {"mark", "call", "record", "advance", "over"}
        BY <1>0, <4>2 DEF CreateRun, MarkRunning, RecordOutcome, AdvanceSchedulePointer, Answer,
           SchedulerTypeOK, JobRun
      <4> QED BY <1>1, <4>1, <4>3
    <3>2. DispatchStep(r)
      BY <2>1, <2>2, <3>1 DEF Answered
    <3>3. CallWorker(r, IF registered # NoHandle /\ MayCall(handle[registered])
                        THEN registered ELSE NoHandle)
      BY <3>1, <3>2 DEF DispatchStep, CallTimeout, Outcomes
    <3> QED BY <1>4, <3>2, <3>3 DEF TypeOK
  <2>3. CASE q # r
    <3>1. DispatchMoves(q)
      BY <2>1, DispatchStepMoves
    <3>2. jobRun'[r] = jobRun[r]
      BY <1>0, <2>3, <3>1 DEF DispatchMoves, CreateRun, MarkRunning, CallWorker, Answer,
         RecordOutcome, AdvanceSchedulePointer, SchedulerTypeOK
    <3> QED BY <1>3, <3>2
  <2> QED BY <2>2, <2>3
<1>6. CASE Undispatched
  BY <1>0, <1>1, <1>2, <1>6, CalledBefore
<1>7. CASE Crash
  BY <1>0, <1>1, <1>7, LostRows DEF Crash, Live, Dispatching
<1> QED BY <1>5, <1>6, <1>7, NextMoves DEF HandlesSound

LEMMA InitInv == Init => Inv
<1> SUFFICES ASSUME Init
             PROVE  Inv
  OBVIOUS
<1>0. \A r \in JobRuns : jobRun[r] = UnusedRun
  BY DEF Init, SchedulerInit
<1>1. \A r \in JobRuns : jobRun[r].stage = "unused" /\ ~Live(r)
  BY <1>0 DEF UnusedRun, Live, Dispatching
<1>2. SchedulerTypeOK
  BY DEF Init, SchedulerInit, SchedulerTypeOK, NextRunAt, Idle
<1>3. HandlesSound
  <2>1. proc \in [Procs -> Proc] /\ Alive = {}
    BY DEF Init, NoneProc, Proc, ProcStates, Alive
  <2>2. handle \in [Handles -> Handle]
    BY NewHandleType DEF Init
  <2> QED BY <2>1, <2>2 DEF Init, HandlesSound, Processes, Children, NewHandle
<1>4. OpsSound
  <2> DEFINE boot == [IdleOp EXCEPT !.pc = "start", !.goal = "ready"]
  <2>1. /\ IdleOp \in Op /\ GoalFits(IdleOp) /\ IdleOp.list = {}
        /\ boot \in Op /\ GoalFits(boot) /\ boot.list = {}
    BY DEF IdleOp, Op, GoalFits, PluginStatuses
  <2> HIDE DEF boot
  <2>2. op = [o \in Ops |-> IF o = BootOp /\ plugin = "ready" THEN boot ELSE IdleOp]
    BY DEF Init, Booting, boot
  <2> QED BY <2>1, <2>2 DEF OpsSound, Goals, Lists
<1>5. TypeOK
  <2>1. events \in [EventKinds -> Nat] /\ total \in 0 .. MaxTotal
    BY Constants DEF Init
  <2> QED BY <1>2, <1>3, <1>4, <2>1 DEF TypeOK, Init, HandlesSound, OpsSound, PluginStatuses
<1>6. NoEarlyOutcome /\ OfTheTick /\ MarkHasDispatch /\ CallHasProcess
  BY <1>1 DEF NoEarlyOutcome, OfTheTick, LiveScheduled, MarkHasDispatch, CallHasProcess, Init,
     SchedulerInit, Idle
<1> QED BY <1>3, <1>4, <1>5, <1>6 DEF Inv

LEMMA NextInv ==
  ASSUME Inv, [Next]_vars
  PROVE  Inv'
<1>1. TypeOK /\ HandlesSound /\ OpsSound /\ SchedulerTypeOK
  BY DEF Inv, TypeOK
<1>2. Processes /\ Goals /\ Lists
  BY <1>1 DEF HandlesSound, OpsSound
<1>3. SchedulerMoves
  BY <1>1, <1>2, NextSchedulerMoves
<1>4. SchedulerTypeOK' /\ NoEarlyOutcome' /\ OfTheTick' /\ MarkHasDispatch'
  BY <1>1, <1>3, SchedulerType, NoEarlyOutcomeNext, OfTheTickNext, MarksNext DEF Inv
<1>5. HandlesSound' /\ ServesOn
  BY <1>1, HandlesNext
<1>6. OpsSound'
  BY <1>1, OpsNext
<1>7. CallHasProcess'
  BY <1>1, <1>2, <1>5, CallHasProcessNext DEF Inv
<1>8. (events \in [EventKinds -> Nat] /\ total \in 0 .. MaxTotal)'
  <2>1. CASE Next
    BY <1>1, <2>1, NextEvents, EventTypes
  <2>2. CASE UNCHANGED vars
    BY <1>1, <2>2 DEF vars, TypeOK
  <2> QED BY <2>1, <2>2
<1>9. TypeOK'
  BY <1>1, <1>4, <1>5, <1>6, <1>8, RefsNext DEF TypeOK, RefsOK, HandlesSound, OpsSound
<1> QED BY <1>4, <1>5, <1>6, <1>7, <1>9 DEF Inv

LEMMA Invariance == Spec => []Inv
BY InitInv, NextInv, PTL DEF Spec

\* Every variable of the plugin keeps its type: a worker's crashes are counted up to the
\* limit at which it is given up (plugin-worker-manager.ts handleProcessExit), and a run is
\* written with the statuses of plugin_job_runs only.
THEOREM TypeCorrect == Spec => []TypeOK
<1>1. Inv => TypeOK
  BY DEF Inv
<1> QED BY <1>1, Invariance, PTL

\* A job call waits only for a worker that has a process (plugin-worker-manager.ts): whoever
\* takes the last process of a handle away, or starts it again, rejects its calls first.
THEOREM NoCallIsLeft == Spec => []CallHasProcess
<1>1. Inv => CallHasProcess
  BY DEF Inv
<1> QED BY <1>1, Invariance, PTL

\* The scheduler never runs a job of the schedule beside itself (plugin-job-scheduler.ts
\* tick), although unregisterPlugin and manual runs drop the mark that the tick reads.
THEOREM ScheduleRunsOnce == Spec => []ScheduledOnce
<1>1. Inv => ScheduledOnce
  BY TickIsScheduledOnce DEF Inv, TypeOK
<1> QED BY <1>1, Invariance, PTL

\* No more jobs of the schedule run at once than maxConcurrentJobs (plugin-job-scheduler.ts
\* tick), although the count of the marks that the tick reads forgets those dropped.
THEOREM ScheduleKeepsItsLimit == Spec => []ScheduledLimit
<1>1. Inv => ScheduledLimit
  BY TickIsScheduledOnce DEF Inv, TypeOK
<1> QED BY <1>1, Invariance, PTL

\* No mark in activeJobs is left over (plugin-job-scheduler.ts): each has a dispatch under
\* way, so that no job is skipped for ever.
THEOREM NoMarkIsLeft == Spec => []MarkHasDispatch
<1>1. Inv => MarkHasDispatch
  BY DEF Inv
<1> QED BY <1>1, Invariance, PTL

\* A recorded outcome is only replaced by the cancellation of an unregister
\* (plugin-job-store.ts completeRun): an answer, a timeout and a rejection never both count.
THEOREM OutcomesAreFinal == Spec => FinalOutcome
<1>1. ASSUME Inv, [Next]_vars
      PROVE  [\A r \in JobRuns :
                jobRun[r].status \in Outcomes /\ jobRun'[r].status # jobRun[r].status
                  => jobRun'[r].status = "cancelled"]_schedulerVars
  <2>1. SchedulerTypeOK /\ NoEarlyOutcome /\ SchedulerMoves
    BY <1>1, NextSchedulerMoves DEF Inv, TypeOK, HandlesSound, OpsSound
  <2> QED BY <2>1, OutcomeKept
<1> QED BY <1>1, Invariance, PTL DEF Spec, FinalOutcome

-----------------------------------------------------------------------------
(* One process for each registered handle. *)

\* The exit of a process, when its handle knows another one that goes on.
LEMMA EndsBeside ==
  ASSUME Inv, NEW q \in Procs, Exit(q) \/ InitRejected(q),
         NEW h \in Handles, NEW p \in Procs, KnownChild(p, h), StartsBeside(p, h)
  PROVE  \E o \in Ops, x \in Procs \ {p} : EndsFor(o, x, h)
<1>0. TypeOK /\ HandlesSound
  BY DEF Inv
<1>1. PICK g \in Handles, s \in Handle :
         q \in Alive /\ proc[q].of = g /\ s.child = NoProc /\ Falls(q, g, s)
  BY <1>0, Ends
<1> DEFINE n == NextProc(Left(q, g))
<1>2. /\ \A k \in Handles \ {g} : handle'[k] = handle[k]
      /\ First(g) = {} => handle'[g].child = NoProc
      /\ First(g) # {} => handle'[g].child = n
      /\ n \in Procs
  BY <1>0, <1>1, FallenHandle
<1>3. handle[h].child = p /\ handle'[h].child # p /\ handle'[h].child # NoProc /\ p \in Alive'
  BY DEF KnownChild, StartsBeside
<1>4. g = h /\ First(h) # {} /\ n # p
  BY <1>2, <1>3
<1>5. q # p
  <2>1. \A x \in Procs : \/ x # q /\ proc'[x].of = proc[x].of
                            /\ (proc'[x].state = "none" <=> proc[x].state = "none")
                         \/ x = q /\ proc'[x] = NoneProc
                         \/ /\ proc'[x] = [state |-> "booting", of |-> g]
                            /\ First(g) # {} /\ x = n
                            /\ x \in Alive => x = q
    BY <1>0, <1>1, FallenProcs
  <2>2. \/ p # q
        \/ proc'[p] = NoneProc
        \/ p = n
    BY <2>1
  <2> QED BY <1>3, <1>4, <2>2 DEF Alive, NoneProc
<1>6. PICK o \in Restarts(h) : TRUE
  BY <1>4 DEF First
<1>7. WaitsForExit(o, h) /\ op[o].goal = "restart" /\ o \in Ops
  BY <1>6 DEF Restarts, Stops
<1>8. q \notin Alive' \/ handle'[h].child = q
  <2>1. \/ q # q /\ proc'[q].of = proc[q].of
           /\ (proc'[q].state = "none" <=> proc[q].state = "none")
        \/ q = q /\ proc'[q] = NoneProc
        \/ /\ proc'[q] = [state |-> "booting", of |-> g]
           /\ First(g) # {} /\ q = n
           /\ q \in Alive => q = q
    BY <1>0, <1>1, FallenProcs
  <2>2. proc'[q] = NoneProc \/ q = n
    BY <2>1
  <2> QED BY <1>2, <1>4, <2>2 DEF Alive, NoneProc
<1>9. q \in Alive /\ proc[q].of = h
  BY <1>1, <1>4
<1> QED BY <1>5, <1>7, <1>8, <1>9 DEF EndsFor

\* The other steps that start a process find none, unless the worker is being stopped.
LEMMA StartsBesideNone ==
  ASSUME Inv, NEW o \in Ops, OpStep(o),
         NEW h \in Handles, h = registered, NEW p \in Procs, KnownChild(p, h), StartsBeside(p, h)
  PROVE  handle[h].status = "stopping" /\ op[o].pc = "restart"
<1>0. TypeOK /\ HandlesSound
  BY DEF Inv
<1>1. handle[h].child = p /\ handle'[h].child # p /\ handle'[h].child # NoProc
      /\ handle[h] \in Handle /\ p # NoProc
  BY <1>0, Constants DEF KnownChild, StartsBeside, HandlesSound
<1>2. handle' # handle
  BY <1>1
<1>3. CASE StartWorker(o)
  <2>1. PICK g \in Handles : /\ g # registered
                             /\ handle' = [handle EXCEPT ![g] = Started(NewHandle, NextProc(proc))]
    BY <1>2, <1>3 DEF StartWorker, Unreferenced
  <2>2. handle'[h] = handle[h]
    BY <1>0, <2>1 DEF HandlesSound
  <2> QED BY <1>1, <2>2
<1>4. CASE Unregistered(o)
  <2>1. handle' = [handle EXCEPT ![h] = StopRequested(handle[h])]
    BY <1>0, <1>2, <1>4 DEF Unregistered, HandlesSound
  <2>2. handle'[h].child = handle[h].child
    BY <1>0, <1>1, <2>1 DEF HandlesSound, StopRequested, Handle
  <2> QED BY <1>1, <2>2
<1>5. CASE Restart(o)
  <2>1. op[o].pc = "restart" /\ registered # NoHandle
    BY <1>2, <1>5 DEF Restart, At
  <2>2. CASE AlreadyStopped(handle[h])
    <3>1. handle[h].status # "stopped"
      BY <1>0, <1>1 DEF HandlesSound, Children
    <3> QED BY <2>1, <2>2, <3>1 DEF AlreadyStopped
  <2>3. CASE ~AlreadyStopped(handle[h])
    <3>1. handle' = [handle EXCEPT ![h] = StopRequested(handle[h])]
      BY <1>1, <1>5, <2>1, <2>3 DEF Restart
    <3>2. handle'[h].child = handle[h].child
      BY <1>0, <1>1, <3>1 DEF HandlesSound, StopRequested, Handle
    <3> QED BY <1>1, <3>2
  <2> QED BY <2>2, <2>3
<1> QED BY <1>2, <1>3, <1>4, <1>5 DEF OpStep, EnableWrite, LoadSingle, SyncJobs, MarkError,
        Unregister, CancelNext, MarkStatus

\* A timer finds that the worker it would start again has been started already.
LEMMA TimerStartsNone ==
  ASSUME Inv, NEW g \in Handles, TimerFires(g), NEW h \in Handles, NEW p \in Procs, KnownChild(p, h)
  PROVE  ~StartsBeside(p, h)
<1>0. HandlesSound
  BY DEF Inv
<1>1. handle[h].child = p /\ p # NoProc /\ \A k \in Handles : handle[k] \in Handle
  BY <1>0, Constants DEF KnownChild, HandlesSound
<1> DEFINE s == [handle[g] EXCEPT !.backoffTimer = FALSE]
<1>2. s.child = handle[g].child /\ s.status = handle[g].status
  BY <1>1 DEF Handle
<1>3. CASE MayStart(s)
  <2>1. handle' = [handle EXCEPT ![g] = Started(s, NextProc(proc))]
    BY <1>3 DEF TimerFires
  <2>2. handle[g].child = NoProc
    BY <1>0, <1>2, <1>3 DEF HandlesSound, Children, MayStart, TimerFires
  <2>3. g # h
    BY <1>1, <2>2
  <2>4. handle'[h] = handle[h]
    BY <1>0, <2>1, <2>3 DEF HandlesSound
  <2> QED BY <1>1, <2>4 DEF StartsBeside
<1>4. CASE ~MayStart(s)
  <2>1. handle' = [handle EXCEPT ![g] = s]
    BY <1>4 DEF TimerFires
  <2> HIDE DEF s
  <2>2. handle'[h].child = handle[h].child
    BY <1>0, <1>2, <2>1 DEF HandlesSound
  <2> QED BY <1>1, <2>2 DEF StartsBeside
<1> QED BY <1>3, <1>4

\* The registered handle of a plugin never starts a process beside the one it knows
\* (plugin-worker-manager.ts startInternal, scheduleRestart, restart), unless a restart
\* overlaps with another stop.
THEOREM OneProcessEach == Spec => OneProcess
<1>1. ASSUME Inv, [Next]_vars, NEW h \in Handles, NEW p \in Procs,
             h = registered, KnownChild(p, h), StartsBeside(p, h)
      PROVE  \/ handle[h].status = "stopping" /\ \E o \in Ops : op[o].pc = "restart"
             \/ \E o \in Ops, q \in Procs \ {p} : EndsFor(o, q, h)
  <2>1. handle'[h].child # handle[h].child /\ handle'[h].child # NoProc
    BY <1>1 DEF KnownChild, StartsBeside
  <2>2. handle' # handle
    BY <2>1
  <2>3. ASSUME NEW q \in Procs, InitOk(q)
        PROVE  FALSE
    <3>1. PICK g : handle' = [handle EXCEPT ![g] = Initialized(handle[g])]
      BY <2>3 DEF InitOk
    <3>2. handle'[h].child = handle[h].child
      BY <1>1, <3>1 DEF Inv, HandlesSound, Initialized, Handle
    <3> QED BY <2>1, <3>2
  <2>4. CASE \E q \in Procs : Exit(q) \/ InitRejected(q)
    BY <1>1, <2>4, EndsBeside
  <2>5. CASE \E g \in Handles : TimerFires(g)
    BY <1>1, <2>5, TimerStartsNone
  <2>6. CASE \E o \in Ops : OpStep(o)
    BY <1>1, <2>6, StartsBesideNone
  <2>7. CASE Crash
    BY <2>1, <2>7 DEF Crash, NewHandle
  <2>8. CASE \/ \E o \in Ops : Enable(o) \/ Disable(o) \/ RestartWorker(o)
             \/ \E r \in JobRuns : DispatchStep(r) \/ Answered(r)
             \/ TickStep
             \/ \E c \in Callers : Trigger(c) \/ CallerStep(c)
             \/ \E j \in Jobs : ScheduleDue(j)
             \/ UNCHANGED vars
    BY <2>2, <2>8 DEF Enable, Disable, RestartWorker, Request, DispatchStep, Answered, TickStep,
       Trigger, CallerStep, ScheduleDue, lifecycleVars, vars
  <2> QED BY <1>1, <2>3, <2>4, <2>5, <2>6, <2>7, <2>8 DEF Next
<1>2. ASSUME Inv, [Next]_vars
      PROVE  [\A h \in Handles, p \in Procs :
                h = registered /\ KnownChild(p, h) /\ StartsBeside(p, h)
                => \/ handle[h].status = "stopping" /\ \E o \in Ops : op[o].pc = "restart"
                   \/ \E o \in Ops, q \in Procs \ {p} : EndsFor(o, q, h)]_vars
  BY <1>1, <1>2
<1> QED BY <1>2, Invariance, PTL DEF Spec, OneProcess
=============================================================================
