-------------------------- MODULE PluginScheduler --------------------------
(***************************************************************************)
(* The scheduled jobs of one plugin (plugin-job-scheduler.ts over the rows *)
(* of plugin-job-store.ts).  A tick of the loop and triggerJob both        *)
(* dispatch: insert a plugin_job_runs row, mark it running, call the       *)
(* worker, record the outcome.  The steps of a dispatch, a tick, a trigger *)
(* and an unregisterPlugin are separate actions, because the code awaits   *)
(* between them.  The worker is a parameter of the actions that look at    *)
(* it: PluginRuntime composes them with the worker's process.              *)
(***************************************************************************)
EXTENDS Naturals, FiniteSets

CONSTANTS
  Jobs,               \* the plugin's plugin_jobs rows; all active, with a schedule
  MaxJobRuns,         \* bound: plugin_job_runs rows ever created
  MaxConcurrentJobs,  \* maxConcurrentJobs
  Callers,            \* requests that trigger a job by hand
  Handles,            \* worker handles
  NoHandle

ASSUME PluginSchedulerAssumption ==
  /\ IsFiniteSet(Jobs)
  /\ MaxJobRuns \in Nat
  /\ MaxConcurrentJobs \in Nat
  /\ NoHandle \notin Handles

JobRuns == 1 .. MaxJobRuns    \* in the order in which they are dispatched
NoJobRun == 0

VARIABLES
  next,        \* nextRunAt of each job: in the future, or due
  jobRun,      \* each plugin_job_runs row, and where its dispatch is
  activeJobs,  \* activeJobs
  tick,        \* the tick in progress
  caller       \* where each triggerJob is

schedulerVars == <<next, jobRun, activeJobs, tick, caller>>

-----------------------------------------------------------------------------
(* Rows. *)

Unfinished == {"queued", "running"}
Outcomes == {"succeeded", "failed"}
JobRunStatuses == {"none", "cancelled"} \cup Unfinished \cup Outcomes

\* Where a dispatch stands: what it does next, or how its call has ended.
Dispatching == {"create", "mark", "call", "called", "record"}
Stages == {"advance", "over", "lost"} \cup Dispatching

JobRun == [job : Jobs, trigger : {"schedule", "manual"}, status : JobRunStatuses,
           stage : Stages, outcome : Outcomes, worker : Handles \cup {NoHandle}]

UnusedRun == [status |-> "none", stage |-> "unused"]

NextRunAt == {"future", "due"}

NoCall == [stage |-> "idle"]

SchedulerTypeOK ==
  /\ next \in [Jobs -> NextRunAt]
  /\ jobRun \in [JobRuns -> JobRun \cup {UnusedRun}]
  /\ activeJobs \subseteq Jobs
  /\ tick \in [stage : {"idle", "selected", "waiting"}, due : SUBSET Jobs,
               runs : SUBSET JobRuns]
  /\ caller \in [Callers -> [stage : {"select", "create"}, job : Jobs] \cup {NoCall}]

Idle == [stage |-> "idle", due |-> {}, runs |-> {}]

SchedulerInit ==
  /\ next = [j \in Jobs |-> "future"]
  /\ jobRun = [r \in JobRuns |-> UnusedRun]
  /\ activeJobs = {}
  /\ tick = Idle
  /\ caller = [c \in Callers |-> NoCall]

Unused == {r \in JobRuns : jobRun[r].stage = "unused"}

\* The runs that are dispatched: the call, what precedes it and what records it.
Live(r) == jobRun[r].stage \in Dispatching
LiveScheduled(r) == Live(r) /\ jobRun[r].trigger = "schedule"

Dispatched(j, how, stage, status) ==
  [job |-> j, trigger |-> how, status |-> status, stage |-> stage,
   outcome |-> "failed", worker |-> NoHandle]

\* Time passes: the job's nextRunAt is not in the future any more.
ComesDue(j) ==
  /\ next[j] = "future"
  /\ next' = [next EXCEPT ![j] = "due"]
  /\ UNCHANGED <<jobRun, activeJobs, tick, caller>>

-----------------------------------------------------------------------------
(* The tick.  Two ticks never overlap (tickInProgress): this one is over   *)
(* only when all it has dispatched is.                                     *)

Due == {j \in Jobs : next[j] = "due"}

\* The SELECT of due jobs.  A tick that finds none changes nothing.
TickSelect ==
  /\ tick.stage = "idle"
  /\ Due # {}
  /\ tick' = [stage |-> "selected", due |-> Due, runs |-> {}]
  /\ UNCHANGED <<next, jobRun, activeJobs, caller>>

\* Mutant: the limit is looked at after a job has been dispatched.
DispatchableAtLimit(running) ==
  LET free == IF running THEN tick.due \ activeJobs ELSE {}
  IN {D \in SUBSET free : Cardinality(D) <= MaxConcurrentJobs + 1}

\* What the loop over the selected jobs may dispatch: it skips jobs that are
\* active, all of them when the worker is not running, and breaks at the limit.
\* The SELECT has no order.
Dispatchable(running) ==
  LET free == IF running THEN tick.due \ activeJobs ELSE {}
      room == IF Cardinality(activeJobs) < MaxConcurrentJobs
              THEN MaxConcurrentJobs - Cardinality(activeJobs) ELSE 0
  IN {D \in SUBSET free : \/ Cardinality(D) = room
                          \/ D = free /\ Cardinality(D) <= room}

\* Mutant: the dispatches are not awaited.
TickDispatchDetached(running) ==
  /\ tick.stage = "selected"
  /\ \E D \in Dispatchable(running), R \in SUBSET Unused :
       /\ Cardinality(R) = Cardinality(D)
       /\ \A r \in R, u \in Unused \ R : r < u
       /\ \E f \in [R -> D] :
            /\ \A j \in D : \E r \in R : f[r] = j
            /\ jobRun' = [r \in JobRuns |->
                            IF r \in R THEN Dispatched(f[r], "schedule", "create", "none")
                            ELSE jobRun[r]]
       /\ activeJobs' = activeJobs \cup D
  /\ tick' = Idle
  /\ UNCHANGED <<next, caller>>

\* The loop, with the synchronous part of dispatchJob for each job.
TickDispatch(running) ==
  /\ tick.stage = "selected"
  /\ \E D \in Dispatchable(running), R \in SUBSET Unused :
       /\ Cardinality(R) = Cardinality(D)
       /\ \A r \in R, u \in Unused \ R : r < u
       /\ \E f \in [R -> D] :
            /\ \A j \in D : \E r \in R : f[r] = j
            /\ jobRun' = [r \in JobRuns |->
                            IF r \in R THEN Dispatched(f[r], "schedule", "create", "none")
                            ELSE jobRun[r]]
       /\ activeJobs' = activeJobs \cup D
       /\ tick' = IF D = {} THEN Idle ELSE [tick EXCEPT !.stage = "waiting", !.runs = R]
  /\ UNCHANGED <<next, caller>>

\* Mutant: one failure keeps the tick from ending.
TickDoneOnSuccess ==
  /\ tick.stage = "waiting"
  /\ \A r \in tick.runs : jobRun[r].stage = "over" /\ jobRun[r].status # "failed"
  /\ tick' = Idle
  /\ UNCHANGED <<next, jobRun, activeJobs, caller>>

\* Promise.allSettled(dispatches), and the finally block.
TickDone ==
  /\ tick.stage = "waiting"
  /\ \A r \in tick.runs : jobRun[r].stage = "over"
  /\ tick' = Idle
  /\ UNCHANGED <<next, jobRun, activeJobs, caller>>

-----------------------------------------------------------------------------
(* dispatchJob and dispatchManualRun.  Every UPDATE names the run by id    *)
(* only.                                                                   *)

CreateRun(r) ==
  /\ jobRun[r].stage = "create"
  /\ jobRun' = [jobRun EXCEPT ![r].status = "queued", ![r].stage = "mark"]
  /\ UNCHANGED <<next, activeJobs, tick, caller>>

MarkRunning(r) ==
  /\ jobRun[r].stage = "mark"
  /\ jobRun' = [jobRun EXCEPT ![r].status = "running", ![r].stage = "call"]
  /\ UNCHANGED <<next, activeJobs, tick, caller>>

\* workerManager.call: the request is sent to the worker of handle h, or
\* rejected at once when there is none that takes calls.
CallWorker(r, h) ==
  /\ jobRun[r].stage = "call"
  /\ jobRun' = [jobRun EXCEPT ![r].stage = IF h = NoHandle THEN "record" ELSE "called",
                              ![r].worker = h]
  /\ UNCHANGED <<next, activeJobs, tick, caller>>

\* Mutant: an answer is taken after the call has timed out.
AnswerLate(r, outcome) ==
  /\ jobRun[r].stage \in {"called", "over"}
  /\ jobRun' = [jobRun EXCEPT ![r].stage = "record", ![r].outcome = outcome]
  /\ UNCHANGED <<next, activeJobs, tick, caller>>

\* The worker's response, and the timer of the call.
Answer(r, outcome) ==
  /\ jobRun[r].stage = "called"
  /\ jobRun' = [jobRun EXCEPT ![r].stage = "record", ![r].outcome = outcome]
  /\ UNCHANGED <<next, activeJobs, tick, caller>>

CallTimeout(r) == Answer(r, "failed")

\* Mutant: an exit of the worker rejects nothing.
RejectedNothing(h) == jobRun

\* rejectAllPending: the calls that wait for an answer of handle h.
Rejected(h) ==
  [r \in JobRuns |->
     IF jobRun[r].stage = "called" /\ jobRun[r].worker = h
     THEN [jobRun[r] EXCEPT !.stage = "record"] ELSE jobRun[r]]

\* Mutant: the mark is only removed when the job has succeeded.
RecordOutcomeMarked(r) ==
  /\ jobRun[r].stage = "record"
  /\ jobRun' = [jobRun EXCEPT
                  ![r].status = jobRun[r].outcome,
                  ![r].stage = IF jobRun[r].trigger = "schedule" THEN "advance" ELSE "over"]
  /\ activeJobs' = IF jobRun[r].outcome = "failed" THEN activeJobs
                   ELSE activeJobs \ {jobRun[r].job}
  /\ UNCHANGED <<next, tick, caller>>

\* completeRun, and the finally block up to its next await.
RecordOutcome(r) ==
  /\ jobRun[r].stage = "record"
  /\ jobRun' = [jobRun EXCEPT
                  ![r].status = jobRun[r].outcome,
                  ![r].stage = IF jobRun[r].trigger = "schedule" THEN "advance" ELSE "over"]
  /\ activeJobs' = activeJobs \ {jobRun[r].job}
  /\ UNCHANGED <<next, tick, caller>>

AdvanceSchedulePointer(r) ==
  /\ jobRun[r].stage = "advance"
  /\ next' = [next EXCEPT ![jobRun[r].job] = "future"]
  /\ jobRun' = [jobRun EXCEPT ![r].stage = "over"]
  /\ UNCHANGED <<activeJobs, tick, caller>>

-----------------------------------------------------------------------------
(* triggerJob.  The mark in activeJobs is looked at first and set last.    *)

TriggerBegin(c, j) ==
  /\ caller[c].stage = "idle"
  /\ j \notin activeJobs
  /\ caller' = [caller EXCEPT ![c] = [stage |-> "select", job |-> j]]
  /\ UNCHANGED <<next, jobRun, activeJobs, tick>>

TriggerSelect(c, running) ==
  /\ caller[c].stage = "select"
  /\ LET refused == ~running \/ \E r \in JobRuns \ Unused :
                                   /\ jobRun[r].job = caller[c].job
                                   /\ jobRun[r].status = "running"
     IN caller' = [caller EXCEPT ![c] = IF refused THEN NoCall ELSE [@ EXCEPT !.stage = "create"]]
  /\ UNCHANGED <<next, jobRun, activeJobs, tick>>

TriggerCreate(c) ==
  /\ caller[c].stage = "create"
  /\ \E r \in Unused :
       /\ \A u \in Unused : r <= u
       /\ jobRun' = [jobRun EXCEPT ![r] = Dispatched(caller[c].job, "manual", "mark", "queued")]
  /\ activeJobs' = activeJobs \cup {caller[c].job}
  /\ caller' = [caller EXCEPT ![c] = NoCall]
  /\ UNCHANGED <<next, tick>>

-----------------------------------------------------------------------------
(* registerPlugin and unregisterPlugin. *)

\* ensureNextRunTimestamps: what is due is not caught up with.
RegisterPlugin ==
  /\ next' = [j \in Jobs |-> "future"]
  /\ UNCHANGED <<jobRun, activeJobs, tick, caller>>

\* The SELECT of unregisterPlugin, one of its UPDATEs, and its end.
UnfinishedRuns == {r \in JobRuns : jobRun[r].status \in Unfinished}

CancelRun(r) ==
  /\ jobRun' = [jobRun EXCEPT ![r].status = "cancelled"]
  /\ UNCHANGED <<next, activeJobs, tick, caller>>

ForgetActiveJobs ==
  /\ activeJobs' = {}
  /\ UNCHANGED <<next, jobRun, tick, caller>>

\* The server dies: rows and nextRunAt survive, dispatches do not.
SchedulerLost ==
  /\ jobRun' = [r \in JobRuns |->
                  IF jobRun[r].stage = "create" THEN UnusedRun
                  ELSE IF Live(r) \/ jobRun[r].stage = "advance"
                  THEN [jobRun[r] EXCEPT !.stage = "lost"] ELSE jobRun[r]]
  /\ activeJobs' = {}
  /\ tick' = Idle
  /\ caller' = [c \in Callers |-> NoCall]
  /\ UNCHANGED next
-----------------------------------------------------------------------------
(* Properties. *)

\* A job is never dispatched by the schedule while an earlier scheduled dispatch of it is
\* not over, although an unregister or a manual run may have dropped its mark.
ScheduledOnce ==
  \A r, s \in JobRuns :
    LiveScheduled(r) /\ LiveScheduled(s) /\ jobRun[r].job = jobRun[s].job => r = s

\* The schedule never has more than maxConcurrentJobs dispatches under way, whatever has
\* happened to the marks the limit counts.
ScheduledLimit == Cardinality({r \in JobRuns : LiveScheduled(r)}) <= MaxConcurrentJobs

\* A mark in activeJobs, which keeps a job from being dispatched, is never left over: it
\* has a dispatch that will remove it.
MarkHasDispatch ==
  \A j \in activeJobs : \E r \in JobRuns : Live(r) /\ jobRun[r].job = j

\* A recorded outcome of a dispatch is only ever replaced by a cancellation (of an
\* unregister that has selected the run before), never by another outcome: a late answer
\* and a timeout do not both count.
FinalOutcome ==
  [][\A r \in JobRuns :
       jobRun[r].status \in Outcomes /\ jobRun'[r].status # jobRun[r].status
         => jobRun'[r].status = "cancelled"]_schedulerVars
=============================================================================
