---------------------------- MODULE PluginRuntime ----------------------------
(***************************************************************************)
(* One plugin: its row, the handle and the child process of its worker,    *)
(* the lifecycle calls that start and stop it, and its scheduled jobs.     *)
(* Handlers interleave at every await; op[o] is a lifecycle call (enable,  *)
(* disable, restartWorker, or the activation of the plugin when the server *)
(* starts) with everything that it awaits.  The server itself may die: the *)
(* rows survive, handles and processes do not, and the plugin is loaded    *)
(* again if its row says ready.                                            *)
(***************************************************************************)
EXTENDS PluginHandle, PluginScheduler

CONSTANTS
  Ops,         \* lifecycle calls in progress at one time
  BootOp,      \* the one that loadAll makes when the server starts
  EventKinds,  \* what the environment does
  MaxEvents,   \* bound: how often it does each
  MaxTotal     \* bound: how often it does anything

ASSUME PluginRuntimeAssumption ==
  /\ BootOp \in Ops
  /\ EventKinds = {"due", "trigger", "enable", "disable", "restart", "exit", "reject", "crash"}
  /\ MaxEvents \in [EventKinds -> Nat]
  /\ MaxTotal \in Nat

VARIABLES
  plugin,      \* status of the plugins row
  handle,      \* each worker handle
  proc,        \* each child process: where it is, and whose
  registered,  \* the handle in workers
  startLock,   \* the child whose start startupLocks remembers
  op,          \* each lifecycle call
  events,      \* how often the environment has done each
  total        \* how often it has done anything

lifecycleVars == <<plugin, handle, proc, registered, startLock, op>>
vars == <<schedulerVars, lifecycleVars, events, total>>

PluginStatuses == {"ready", "disabled", "error"}

\* booting: its start awaits initialize; stray: its start has failed, and it is alive.
ProcStates == {"none", "booting", "up", "stray"}
Proc == [state : ProcStates, of : Handles \cup {NoHandle}]
NoneProc == [state |-> "none", of |-> NoHandle]

\* goal: the status an unload writes, or what else the call is for.
Op == [pc : {"idle", "write", "load", "start", "booting", "sync", "error", "restart",
             "unregister", "cancel", "stopping", "mark"},
       goal : {"none", "ready", "restart", "disabled", "error"},
       seen : PluginStatuses,
       proc : Procs \cup {NoProc}, handle : Handles \cup {NoHandle},
       list : SUBSET JobRuns]

TypeOK ==
  /\ SchedulerTypeOK
  /\ plugin \in PluginStatuses
  /\ handle \in [Handles -> Handle]
  /\ proc \in [Procs -> Proc]
  /\ registered \in Handles \cup {NoHandle}
  /\ startLock \in Procs \cup {NoProc}
  /\ op \in [Ops -> Op]
  /\ events \in [EventKinds -> Nat]
  /\ total \in 0 .. MaxTotal

IdleOp == [pc |-> "idle", goal |-> "none", seen |-> "ready", proc |-> NoProc,
           handle |-> NoHandle, list |-> {}]

\* The server starts: loadAll activates the plugin if its row says ready.
Booting == [o \in Ops |->
              IF o = BootOp /\ plugin = "ready"
              THEN [IdleOp EXCEPT !.pc = "start", !.goal = "ready"] ELSE IdleOp]

Init ==
  /\ SchedulerInit
  /\ plugin = "ready"
  /\ handle = [h \in Handles |-> NewHandle]
  /\ proc = [p \in Procs |-> NoneProc]
  /\ registered = NoHandle
  /\ startLock = NoProc
  /\ op = Booting
  /\ events = [e \in EventKinds |-> 0]
  /\ total = 0

Event(kind) ==
  /\ events[kind] < MaxEvents[kind]
  /\ total < MaxTotal
  /\ events' = [events EXCEPT ![kind] = @ + 1]
  /\ total' = total + 1
NoEvent == UNCHANGED <<events, total>>

-----------------------------------------------------------------------------
(* Processes and handles. *)

Alive == {p \in Procs : proc[p].state # "none"}

\* startInternal spawns a child for handle h.  procs: the processes so far.
NextProc(procs) ==
  LET free == {p \in Procs : procs[p].state = "none"}
  IN CHOOSE p \in free : \A q \in free : p <= q
Spawned(procs, h) == [procs EXCEPT ![NextProc(procs)] = [state |-> "booting", of |-> h]]

\* manager.isRunning
IsRunning == registered # NoHandle /\ handle[registered].status = "running"

WaitsForStart(o, P) == op[o].pc = "booting" /\ op[o].proc \in P
WaitsForExit(o, h) == op[o].pc = "stopping" /\ op[o].handle = h

\* What a call does once the start it waits for has succeeded or failed.
AfterStart(o) ==
  IF op[o].goal = "restart" THEN IdleOp ELSE [op[o] EXCEPT !.pc = "sync", !.proc = NoProc]
AfterFailedStart(o) ==
  IF op[o].goal = "restart" THEN IdleOp ELSE [op[o] EXCEPT !.pc = "error", !.proc = NoProc]

\* initialize is answered ok.
InitOk(p) ==
  LET h == proc[p].of IN
  /\ proc[p].state = "booting"
  /\ proc' = [proc EXCEPT ![p].state = "up"]
  /\ handle' = [handle EXCEPT ![h] = Initialized(@)]
  /\ startLock' = IF startLock = p THEN NoProc ELSE startLock
  /\ op' = [o \in Ops |-> IF WaitsForStart(o, {p}) THEN AfterStart(o) ELSE op[o]]
  /\ UNCHANGED <<schedulerVars, plugin, registered>>
  /\ NoEvent

(***************************************************************************)
(* Process p of handle h ends and leaves the handle in state s, with all   *)
(* that follows before the next event: the calls it has not answered are   *)
(* rejected, the starts that await an initialize of the handle fail, the   *)
(* stops that await the exit return.  A stopWorker removes the handle from *)
(* the map; a restart starts the handle again.                             *)
(***************************************************************************)
Falls(p, h, s) ==
  LET failed == {q \in Procs : proc[q] = [state |-> "booting", of |-> h]}
      stops == {o \in Ops : WaitsForExit(o, h)}
      restarts == {o \in stops : op[o].goal = "restart"}
      procs == [q \in Procs |-> IF q = p THEN NoneProc
                                ELSE IF q \in failed THEN [proc[q] EXCEPT !.state = "stray"]
                                ELSE proc[q]]
      statuses == IF failed = {} /\ stops = {} THEN {s.status}
                  ELSE (IF failed = {} THEN {} ELSE {"crashed"})
                       \cup (IF stops = {} THEN {} ELSE {"stopped"})
      \* the restart that starts it; the others find it starting and throw
      first == IF restarts = {} THEN {} ELSE {CHOOSE o \in restarts : TRUE}
  IN
  /\ \E status \in statuses :
       handle' = [handle EXCEPT ![h] =
                    IF first = {} THEN [s EXCEPT !.status = status] ELSE Started(s, NextProc(procs))]
  /\ proc' = IF first = {} THEN procs ELSE Spawned(procs, h)
  /\ registered' = IF stops = restarts THEN registered ELSE NoHandle
  /\ startLock' = IF startLock \in failed THEN NoProc ELSE startLock
  /\ op' = [o \in Ops |->
              IF WaitsForStart(o, failed) THEN AfterFailedStart(o)
              ELSE IF o \in first
              THEN [op[o] EXCEPT !.pc = "booting", !.proc = NextProc(procs), !.handle = NoHandle]
              ELSE IF o \in restarts THEN IdleOp
              ELSE IF o \in stops THEN [op[o] EXCEPT !.pc = "mark", !.handle = NoHandle]
              ELSE op[o]]
  /\ jobRun' = Rejected(h)
  /\ UNCHANGED <<next, activeJobs, tick, caller, plugin>>

\* stopInternal asks the child to shut down, and signals the child there is if it does not.
Told(h) == handle[h].intentionalStop \/ \E o \in Ops : WaitsForExit(o, h)

\* A process ends: it has been told to, or by itself.
Exit(p) ==
  LET h == proc[p].of IN
  /\ p \in Alive
  /\ \E s \in Exits(handle[h]) : Falls(p, h, s)
  /\ IF Told(h) THEN NoEvent ELSE Event("exit")

\* An initialize of a handle is answered with an error, or not in time.  The child that is
\* killed is p, the one the handle knows by then: not the one that was asked, if the handle
\* has been started again.
InitRejected(p) ==
  LET h == proc[p].of IN
  /\ p \in Alive
  /\ \E q \in Procs : proc[q] = [state |-> "booting", of |-> h]
  /\ handle[h].child = p
  /\ Falls(p, h, Killed(handle[h]))
  /\ Event("reject")

\* The timer of scheduleRestart.  startInternal throws if the worker has been started.
TimerFires(h) ==
  /\ handle[h].backoffTimer
  /\ LET s == [handle[h] EXCEPT !.backoffTimer = FALSE] IN
     IF MayStart(s)
     THEN /\ Procs # Alive
          /\ handle' = [handle EXCEPT ![h] = Started(s, NextProc(proc))]
          /\ proc' = Spawned(proc, h)
     ELSE handle' = [handle EXCEPT ![h] = s] /\ UNCHANGED proc
  /\ UNCHANGED <<schedulerVars, plugin, registered, startLock, op>>
  /\ NoEvent

-----------------------------------------------------------------------------
(* Lifecycle calls. *)

At(o, pc) == op[o].pc = pc
Become(o, rec) == op' = [op EXCEPT ![o] = rec]
Goto(o, pc) == op' = [op EXCEPT ![o].pc = pc]
Return(o) == Become(o, IdleOp)

Request(o, kind, from, rec) ==
  /\ At(o, "idle")
  /\ plugin \in from
  /\ Become(o, rec)
  /\ UNCHANGED <<schedulerVars, plugin, handle, proc, registered, startLock>>
  /\ Event(kind)

\* enable, disable and restartWorker read the row, and refuse it in other statuses.
Enable(o) ==
  Request(o, "enable", {"disabled", "error"}, [IdleOp EXCEPT !.pc = "write", !.goal = "ready"])
Disable(o) ==
  Request(o, "disable", {"ready"}, [IdleOp EXCEPT !.pc = "unregister", !.goal = "disabled"])
RestartWorker(o) ==
  Request(o, "restart", {"ready"}, [IdleOp EXCEPT !.pc = "restart", !.goal = "restart"])

\* transition to ready.
EnableWrite(o) ==
  /\ At(o, "write")
  /\ plugin' = "ready"
  /\ Goto(o, "load")
  /\ UNCHANGED <<schedulerVars, handle, proc, registered, startLock>>
  /\ NoEvent

\* loadSingle reads the row again.
LoadSingle(o) ==
  /\ At(o, "load")
  /\ IF plugin = "ready" THEN Goto(o, "start") ELSE Return(o)
  /\ UNCHANGED <<schedulerVars, plugin, handle, proc, registered, startLock>>
  /\ NoEvent

\* A handle nothing refers to any more, for a new one.
Unreferenced(h) ==
  /\ h # registered
  /\ handle[h].status = "stopped" /\ ~handle[h].backoffTimer
  /\ \A p \in Alive : proc[p].of # h
  /\ \A o \in Ops : op[o].handle # h

\* manager.startWorker: wait for a start in flight, refuse a registered handle that is
\* not stopped, or start a new one.
StartWorker(o) ==
  /\ At(o, "start")
  /\ \/ /\ startLock # NoProc
        /\ Become(o, [op[o] EXCEPT !.pc = "booting", !.proc = startLock])
        /\ UNCHANGED <<handle, proc, registered, startLock>>
     \/ /\ startLock = NoProc
        /\ registered # NoHandle /\ handle[registered].status # "stopped"
        /\ Goto(o, "error")
        /\ UNCHANGED <<handle, proc, registered, startLock>>
     \/ /\ startLock = NoProc
        /\ registered # NoHandle => handle[registered].status = "stopped"
        /\ Procs # Alive
        /\ \E h \in Handles :
             /\ Unreferenced(h)
             /\ \A g \in Handles : Unreferenced(g) => h <= g
             /\ handle' = [handle EXCEPT ![h] = Started(NewHandle, NextProc(proc))]
             /\ proc' = Spawned(proc, h)
             /\ registered' = h
        /\ startLock' = NextProc(proc)
        /\ Become(o, [op[o] EXCEPT !.pc = "booting", !.proc = NextProc(proc)])
  /\ UNCHANGED <<schedulerVars, plugin>>
  /\ NoEvent

\* activatePlugin registers the jobs with the scheduler, and is done.
SyncJobs(o) ==
  /\ At(o, "sync")
  /\ RegisterPlugin
  /\ Return(o)
  /\ UNCHANGED <<plugin, handle, proc, registered, startLock>>
  /\ NoEvent

\* markError reads the row.
MarkError(o) ==
  /\ At(o, "error")
  /\ Become(o, [op[o] EXCEPT !.pc = "unregister", !.goal = "error", !.seen = plugin])
  /\ UNCHANGED <<schedulerVars, plugin, handle, proc, registered, startLock>>
  /\ NoEvent

\* unregisterPlugin: the SELECT of unfinished runs, the UPDATE of each ...
Unregister(o) ==
  /\ At(o, "unregister")
  /\ Become(o, [op[o] EXCEPT !.pc = "cancel", !.list = UnfinishedRuns])
  /\ UNCHANGED <<schedulerVars, plugin, handle, proc, registered, startLock>>
  /\ NoEvent

CancelNext(o) ==
  /\ At(o, "cancel")
  /\ \E r \in op[o].list :
       /\ CancelRun(r)
       /\ op' = [op EXCEPT ![o].list = @ \ {r}]
  /\ UNCHANGED <<plugin, handle, proc, registered, startLock>>
  /\ NoEvent

\* ... and the marks.  Then unloadSingle stops the worker, but only one that is running.
\* The unregisterPlugin of the coordinator (goal none) ends here.
Unregistered(o) ==
  /\ At(o, "cancel")
  /\ op[o].list = {}
  /\ ForgetActiveJobs
  /\ IF op[o].goal = "none" THEN Return(o) /\ UNCHANGED <<handle, registered>>
     ELSE IF ~IsRunning THEN Goto(o, "mark") /\ UNCHANGED <<handle, registered>>
     ELSE /\ handle' = [handle EXCEPT ![registered] = StopRequested(@)]
          /\ IF handle[registered].child = NoProc
             THEN Goto(o, "mark") /\ registered' = NoHandle
             ELSE /\ Become(o, [op[o] EXCEPT !.pc = "stopping", !.handle = registered])
                  /\ UNCHANGED registered
  /\ UNCHANGED <<plugin, proc, startLock>>
  /\ NoEvent

\* transition to disabled or error: refused if the row was not ready when it was read.
\* plugin.disabled has the coordinator unregister the plugin again.
MarkStatus(o) ==
  /\ At(o, "mark")
  /\ plugin' = IF op[o].seen = "ready" THEN op[o].goal ELSE plugin
  /\ IF op[o].goal = "disabled"
     THEN Become(o, [op[o] EXCEPT !.pc = "unregister", !.goal = "none"])
     ELSE Return(o)
  /\ UNCHANGED <<schedulerVars, handle, proc, registered, startLock>>
  /\ NoEvent

\* Mutant: restart does not wait for the child to exit.
RestartAtOnce(o) ==
  /\ At(o, "restart")
  /\ registered # NoHandle
  /\ Procs # Alive
  /\ handle' = [handle EXCEPT ![registered] = Started(StopRequested(@), NextProc(proc))]
  /\ proc' = Spawned(proc, registered)
  /\ Become(o, [op[o] EXCEPT !.pc = "booting", !.proc = NextProc(proc)])
  /\ UNCHANGED <<schedulerVars, plugin, registered, startLock>>
  /\ NoEvent

\* handle.restart.  stopInternal returns at once when the handle is being stopped, or has
\* no child; startInternal follows.
Restart(o) ==
  /\ At(o, "restart")
  /\ IF registered = NoHandle THEN Return(o) /\ UNCHANGED <<handle, proc>>
     ELSE LET h == registered
              s == StopRequested(handle[h])
          IN IF AlreadyStopped(handle[h]) \/ handle[h].child = NoProc
             THEN /\ Procs # Alive
                  /\ handle' = [handle EXCEPT ![h] = Started(s, NextProc(proc))]
                  /\ proc' = Spawned(proc, h)
                  /\ Become(o, [op[o] EXCEPT !.pc = "booting", !.proc = NextProc(proc)])
             ELSE /\ handle' = [handle EXCEPT ![h] = s]
                  /\ Become(o, [op[o] EXCEPT !.pc = "stopping", !.handle = h])
                  /\ UNCHANGED proc
  /\ UNCHANGED <<schedulerVars, plugin, registered, startLock>>
  /\ NoEvent

OpStep(o) ==
  \/ EnableWrite(o)
  \/ LoadSingle(o)
  \/ StartWorker(o)
  \/ SyncJobs(o)
  \/ MarkError(o)
  \/ Unregister(o)
  \/ CancelNext(o)
  \/ Unregistered(o)
  \/ MarkStatus(o)
  \/ Restart(o)

-----------------------------------------------------------------------------
(* The scheduler beside the worker. *)

DispatchStep(r) ==
  /\ \/ CreateRun(r)
     \/ MarkRunning(r)
     \/ CallWorker(r, IF registered # NoHandle /\ MayCall(handle[registered])
                      THEN registered ELSE NoHandle)
     \/ CallTimeout(r)
     \/ RecordOutcome(r)
     \/ AdvanceSchedulePointer(r)
  /\ UNCHANGED lifecycleVars
  /\ NoEvent

Answered(r) ==
  /\ \E outcome \in Outcomes : Answer(r, outcome)
  /\ UNCHANGED lifecycleVars
  /\ NoEvent

TickStep ==
  /\ TickSelect \/ TickDispatch(IsRunning) \/ TickDone
  /\ UNCHANGED lifecycleVars
  /\ NoEvent

CallerStep(c) ==
  /\ TriggerSelect(c, IsRunning) \/ TriggerCreate(c)
  /\ UNCHANGED lifecycleVars
  /\ NoEvent

ScheduleDue(j) == ComesDue(j) /\ UNCHANGED lifecycleVars /\ Event("due")

Trigger(c) ==
  /\ \E j \in Jobs : TriggerBegin(c, j)
  /\ UNCHANGED lifecycleVars
  /\ Event("trigger")

\* The server dies, and starts again.
Crash ==
  /\ SchedulerLost
  /\ handle' = [h \in Handles |-> NewHandle]
  /\ proc' = [p \in Procs |-> NoneProc]
  /\ registered' = NoHandle
  /\ startLock' = NoProc
  /\ op' = Booting
  /\ UNCHANGED plugin
  /\ Event("crash")

Next ==
  \/ \E p \in Procs : InitOk(p) \/ Exit(p) \/ InitRejected(p)
  \/ \E h \in Handles : TimerFires(h)
  \/ \E o \in Ops : Enable(o) \/ Disable(o) \/ RestartWorker(o) \/ OpStep(o)
  \/ \E r \in JobRuns : DispatchStep(r) \/ Answered(r)
  \/ TickStep
  \/ \E c \in Callers : Trigger(c) \/ CallerStep(c)
  \/ \E j \in Jobs : ScheduleDue(j)
  \/ Crash

Spec == Init /\ [][Next]_vars

\* A stop ends: the shutdown call, SIGTERM and SIGKILL all have a timeout.
StopEnds(h) ==
  \E p \in Procs : proc[p].of = h /\ (\E o \in Ops : WaitsForExit(o, h)) /\ Exit(p)

Fairness ==
  /\ \A p \in Procs : WF_vars(InitOk(p) \/ InitRejected(p))
  /\ \A h \in Handles : WF_vars(StopEnds(h)) /\ WF_vars(TimerFires(h))
  /\ \A o \in Ops : WF_vars(OpStep(o))
  /\ \A r \in JobRuns : WF_vars(DispatchStep(r))
  /\ WF_vars(TickStep)
  /\ \A c \in Callers : WF_vars(CallerStep(c))
FairSpec == Spec /\ Fairness

-----------------------------------------------------------------------------
(* Properties, beside those of PluginScheduler. *)

\* A job call waits only for a worker that has a process: an exit, a failed initialize and
\* a restart leave no call behind that nothing will answer.
CallHasProcess ==
  \A r \in JobRuns : jobRun[r].stage = "called" => \E p \in Alive : proc[p].of = jobRun[r].worker

\* The registered handle never starts a process while the one it knows goes on, unless a
\* restart overlaps with another stop of the worker.  A restart that finds the worker being
\* stopped starts it at once: stopInternal returns, and startInternal does not refuse.  A
\* restart that has waited for the exit of a process starts the worker when that process
\* ends, although another restart may have started it already.
KnownChild(p, h) == p \in Alive /\ proc[p].of = h /\ handle[h].child = p
StartsBeside(p, h) == p \in Alive' /\ handle'[h].child \notin {p, NoProc}
EndsFor(o, q, h) ==
  /\ WaitsForExit(o, h) /\ op[o].goal = "restart"
  /\ q \in Alive /\ proc[q].of = h
  /\ q \notin Alive' \/ handle'[h].child = q
OneProcess ==
  [][\A h \in Handles, p \in Procs :
       h = registered /\ KnownChild(p, h) /\ StartsBeside(p, h)
       => \/ handle[h].status = "stopping" /\ \E o \in Ops : op[o].pc = "restart"
          \/ \E o \in Ops, q \in Procs \ {p} : EndsFor(o, q, h)]_vars

\* Once nobody asks for anything and nothing fails any more, everything comes to rest: no
\* tick waits for a dispatch, every job call has an outcome, every lifecycle call has
\* returned, and every worker runs, is stopped or has been given up.
Rest ==
  /\ tick.stage # "waiting"
  /\ \A r \in JobRuns : ~Live(r)
  /\ \A o \in Ops : op[o].pc = "idle"
  /\ \A h \in Handles : handle[h].status \notin {"starting", "stopping"} /\ ~handle[h].backoffTimer
ComesToRest == <>[]Rest
=============================================================================
