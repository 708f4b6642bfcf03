# Bizbox control plane: specifications, checks and proofs

Bizbox runs companies of AI agents. Agents are woken, a wake becomes a *heartbeat run*
of an adapter (a local child process or a remote service), and runs work on *issues*.
This directory specifies the parts of the server where several handlers work on the same
state: **which run may work on which issue, and what happens when a run, an agent or the
server stops**; **how an agent's question to a human is asked, answered once, and told to
the agent**; and **how the worker of a plugin and its scheduled jobs survive crashes,
restarts and operators**.

All line numbers are those of the source files; `PROJECT.json` maps every definition to
the lines it stands for. Paths without a directory are under `server/src/services/`.

## 1. Inventory of the system

| Component | State | Operations | What is hard |
|---|---|---|---|
| Issue ownership, `issues.ts` | columns `status`, `assigneeAgentId`, `checkoutRunId`, `executionRunId`, `executionAgentNameKey` of an issue; `blocks` relations | `checkout`, `assertCheckoutOwner`, `release`, `adminForceRelease`, `update` | a call is several SQL statements with awaits between them; two locks on one row, written by two services |
| Heartbeat, `heartbeat.ts` | `heartbeat_runs`, `agent_wakeup_requests`, the issue's execution lock; in memory: `activeRunExecutions`, `runningProcesses`, `startLocksByAgent` | `enqueueWakeup`, `startNextQueuedRunForAgent`, `claimQueuedRun`, `executeRun`, three retries, `releaseIssueExecutionAndPromote`, cancellation, `reapOrphanedRuns`, `resumeQueuedRuns`, `reconcileStrandedAssignedIssues` | every handler interleaves with every other one; memory is lost in a crash, rows and children are not |
| Startup and periodic loop, `server/src/index.ts` | none | reap, promote due retries, resume, reconcile | the only driver of what a crash has left behind |
| Agents, `agents.ts`; budgets, `budgets.ts` | agent status; policies and incidents | pause, resume; hard stop | a pause or a stop races with claims under way |
| Run liveness, `run-liveness.ts`, `run-continuations.ts`, `issue-liveness.ts` | `livenessState`, `continuationAttempt` of a run | classify a run, queue a bounded continuation | look-up and insert of an idempotency key |
| Issue execution policy, `issue-execution-policy.ts` | `executionPolicy`, `executionState` of an issue | stages of review and approval | a pure transition function with many cases |
| Routines, cron, workflow schedules | triggers with `nextRunAt`, routine runs | tick, dispatch, catch-up | two ticks for one due trigger |
| Workflows, `workflows*.ts` | workflow runs, steps, waiting points | start, advance, hand off, resume | duplicated completions |
| Interactions, `issue-thread-interactions.ts`, `issue-interaction-resolution-effects.ts` | `issue_thread_interactions`, the issue's status | `create` (with the parking of the issue), `acceptInteraction`, `rejectInteraction`, `answerQuestions`, the effects after the commit | three parties decide; the wake comes after the commit |
| Awaiting-human bridges, `awaiting-human-*.ts`, `clickup-*.ts` | `awaiting_human_notification_outbox`, `awaiting_human_bridges`, `awaiting_human_bridge_inbound_events` | `processAwaitingHumanNotificationOutbox`, `openOrReuseForInteraction`, `retryFailedBridgeOpenings`, `expireWaitingBridges`, `pollActiveBridges`, `closeOpenBridgesForIssue` | an external service that fails and repeats its answers; reconciler passes that overlap |
| Approvals, `approvals.ts` | company decisions | resolve, wake the requester | resolved twice |
| Plugin workers, `plugin-worker-manager.ts` | per worker a status, a child, pending calls, a crash count and a timer; in memory | `startWorker`, `stopWorker`, `restart`, `call`, the exit of a child | the child may end at any await of a start, a stop or a restart |
| Plugin jobs, `plugin-job-scheduler.ts`, `plugin-job-store.ts` | `plugin_jobs`, `plugin_job_runs`; in memory the marks `activeJobs` | `tick`, `dispatchJob`, `triggerJob`, `registerPlugin`, `unregisterPlugin` | marks in memory beside rows; calls that nobody answers |
| Plugin lifecycle, `plugin-lifecycle.ts`, `plugin-loader.ts`, `plugin-job-coordinator.ts` | status of the plugin | `enable`, `disable`, `markError`, `restartWorker`, `loadAll` | calls of the operators overlap, each many awaits long |
| Plugin events, tools, streams | maps in memory | subscribe, register, call | lookups |
| Execution workspaces and runtime services | worktrees, leases, local services | acquire, reuse, release | files and processes |
| Portability, skills, feedback, work products | documents | import, export, store | volume, not concurrency |
| Routes, access, adapters, CLI, UI, MCP server, SDK | none of the control plane | requests | they are the environment |

Interaction: the routes call `issues.ts` and `enqueueWakeup`; `enqueueWakeup` inserts a
run (or defers or merges the wake) under a row lock on the issue, then calls
`startNextQueuedRunForAgent`, which claims queued runs under a per-agent lock in memory
and starts `executeRun` without awaiting it. `executeRun` checks the issue out through
`issues.checkout`, runs the adapter, writes the run and its wake, may queue a retry, and
releases the issue, which promotes a deferred wake or recovers or blocks the issue. The
agent inside the adapter calls the routes. The periodic loop and the cancellations work
on the same rows beside all this.

An agent that asks a human creates an interaction, which parks the issue and puts a row
into the outbox. The outbox worker opens a bridge: a row, and a message at an external
service. Passes of the reconciler expire old bridges, open failed ones again, and poll the
others for posts. UI, posts and expiry decide the interaction; who decides wakes the agent
through `enqueueWakeup`.

The loader starts a plugin's worker through the worker manager and registers its jobs with
the scheduler, whose ticks call the worker. `disable` and `markError` unregister the jobs
and stop the worker; the worker manager restarts a crashed one by itself.

What makes the components correct: one living run owns an issue, and nobody takes the
issue from it; whoever is told "ok" owns the issue; a finished run stays finished; an
agent has no more running runs than its slots; a wake is never forgotten and never
doubled; a run, whatever happens to it, ends; a queued run starts. A human is asked once
at a time, each answer is heard and counted once, a question is decided once, and the
agent told. A worker has one process, a scheduled job one dispatch at a time, every call an
end, and when nothing happens any more everything is at rest.

## 2. Modules

| Module | What it is |
|---|---|
| `HeartbeatStatus` | the status vocabularies shared by `heartbeat.ts` and `issues.ts` |
| `IssueRow` | the deciding columns of one issue and the UPDATE statements on them: `...Matches` is a WHERE clause, the operator beside it the SET clause |
| `IssueOwnership` | abstract: at most one owner; free issues can be taken, issues of runs that have been over taken over, and a run that has not been over only loses the issue because it is given back |
| `IssueCheckout` | `checkout`, `assertCheckoutOwner`, `release` called by any number of runs on one issue, one action per SQL statement; claims, ends and releases of the heartbeat, the reaper's write-back of a run that is over, and the board (`update`, split at its read and its UPDATE; `adminForceRelease`; blockers) as further actions |
| `MCIssueCheckout` | instance for TLC |
| `IssueCheckout_proofs` | theorems about `IssueCheckout` |
| `FifoMutex` | abstract: a lock that lets one caller in at a time, in the order of asking |
| `AgentStartLock` | `withAgentStartLock` for one agent: the chain of promises and its map entry |
| `MCAgentStartLock`, `AgentStartLock_proofs` | instance for TLC; theorems |
| `RunExecution` | wakeups, runs and the execution lock: the handlers of `heartbeat.ts` over the shared rows |
| `MCRunExecution` | instances for TLC and the budgets of environment events of each run |
| `OrderTheorems` | theorems about the first of a finite set of numbers and its sorted enumeration, on which `Oldest` and `Prioritised` rest |
| `RunExecution_types` | theorems about `RunExecution` (1): every operator and every step keeps the rows and the handlers in order |
| `RunExecution_proofs` | theorems about `RunExecution` (2): what holds whatever crashes |
| `RunExecution_served` | theorems about `RunExecution` (3): what holds while the server stays up |
| `PluginHandle` | one worker handle of `plugin-worker-manager.ts`: what a start, a stop, an exit, an initialize do to its fields |
| `PluginScheduler` | the job scheduler over `plugin_job_runs`: ticks, dispatches, manual triggers, register and unregister |
| `PluginRuntime` | the composition for one plugin: handles and their processes, the lifecycle calls, the scheduler, a crash of the server |
| `MCPluginRuntime`, `PluginRuntime_proofs` | instance for TLC; theorems about `PluginRuntime` and the `PluginScheduler` in it |
| `HumanDecision` | abstract: an interaction is decided at most once, and its effects are carried out at most once, after that |
| `HumanBridge` | interactions, outbox, bridges, reconcilers, UI and external posts |
| `MCHumanBridge`, `HumanBridge_proofs` | instance for TLC; theorems |

`RunExecution` uses the statements of `IssueRow` inside its handlers, where a whole
`issues.checkout` is one step; how such a call interleaves with others is the subject of
`IssueCheckout`. The two share `IssueRow` and `HeartbeatStatus`.

### State and actions of RunExecution

`run`, `wake`, `issue` are the three tables; `paused`, `stopped` the agents that are
paused or under a budget stop. These survive `Crash`. In memory, and lost in it: `wanted`
(callers waiting in `withAgentStartLock`), `starter` (the holder of each start lock and
the queue it works through), `exec` (where each `executeRun` is), `cancel` and `sweep`
(cancellations, and the list a pause works through), `reaper`, `recon`. `proc` are the
child processes: a crash leaves any subset of them alive. `booting` is true until the
startup pass has looked for orphans.

A handler is cut where it awaits the database and another handler can see or do
something in between: the claim is `ClaimCheck` (reads of agent, budget, blockers),
`ClaimCas`, `ClaimWake`, `ClaimStamp`; the end of a run is `ExecReturn`/`ExecThrow`,
`ExecPersist`, `ExecWake`, `ExecRetry`, `ExecComment`, `ExecRelease`; a cancellation is
kill, status, wake, release, in the order of the function that does it. `enqueueWakeup`
and `releaseIssueExecutionAndPromote` are transactions that hold the issue row, and are
one step each.

### State and actions of AgentStartLock

`marker` is the entry of `startLocksByAgent`, `previous` the marker a call hangs on, `pc`
where each call is. `Call` is everything up to the first await; `Settle` the end of the
function with or without a rejection, together with the marker's, which no other code can
come between; `Leave` the finally block. `RunExecution` has one `starter` per agent and a
set `wanted` of agents for which somebody waits in place of the chain: the waiting calls of
one agent do the same thing, so their number and order make no difference there.

### State and actions of PluginHandle, PluginScheduler and PluginRuntime

`PluginHandle` has no variables: a handle is a record (`status`, `child`,
`intentionalStop`, `consecutiveCrashes`, `backoffTimer`), and its operators are what one
synchronous stretch of the worker manager makes of it. `PluginScheduler` declares `next`
(the `next_run_at` of each job), `jobRun` (its row, and where its dispatch is), the marks
`activeJobs`, the `tick` and the manual `caller`s; its operators leave the variables of the
lifecycle to the module that composes them. `PluginRuntime` adds `plugin` (the row),
`handle`, `proc` (the child processes, each with the handle it was spawned for: `booting`
until initialize is answered, `stray` when its initialize has failed with another one),
`registered` (the manager's map), `startLock` (its start in flight) and `op` (where each
lifecycle call is), and names the scheduler's actions with what they leave unchanged.

What happens synchronously when a child ends is one step (`Falls`): the pending calls are
rejected, starts that wait for it fail, stops that wait for it return, a restart spawns the
next child. Which of the waiting promises writes the status last is left open.

### State and actions of HumanBridge

`interaction`, `kind`, `issue`, `outbox`, `bridge`, `posted`, `recorded` and `comments` are
rows (`posted` those of the external service), `openFailed` the entries of the activity log
that retries look for, `settled` how often the effects of a decision were carried out.
`worker` has the outbox worker and the reconcilers, `ui` the routes, `asking` the `create`
of the agent; these are lost in a `Crash`. Each is cut at every statement or transaction
and at the calls of the adapter; the transactions (a recorded post with its comment,
decision and closed bridge; a retry's insert and close) are one step, as are `UPDATE`s with
a condition. The outbox worker is guarded by a flag and is one; the reconciler is not, and
there are two.

### State and actions of IssueCheckout

`row` is the issue, `alive` the runs whose status is not terminal, `revived` those of them
that were over before, `call` the last call of each run with its position and the
`checkoutRunId` it has read (`seen`), `edit` an `issues.update` between its read and its
UPDATE. A run may call after it has ended: a request can be late. `RunEnds` is the write of
a terminal status, by whoever ends the run; `HeartbeatRelease` what the handler that has
ended it does to the issue afterwards; `ReaperRevives` the UPDATE by which
`reapOrphanedRuns` sets a run whose child is alive back to running (`heartbeat.ts:4489`),
going by a row it has read earlier: it is possible for any run with a local child
(`Tracked`) that is over. `Unbroken`, the runs that are alive and were not revived, is what
the properties about owners speak of.

## 3. Runs

| Run | Instance | What it shows |
|---|---|---|
| `RunExecution_interleaving` | 2 agents, one with a child, 1 issue, 3 runs, 4 wake rows; any three events of: three wakes, a cancellation, a pause, a budget stop, a crash | `OneDeferredPerAgent`, `QueuedWakeIsLive`, `DeferredHasReleaser`, `PausedAgentIsIdle`, `LiveOwnerHoldsLock`, `TerminalStaysTerminal`, `TypeOK` in every interleaving |
| `RunExecution_recovery` | 1 agent with a child, 4 runs; 1 wake and any two of crash (twice), reconcile, budget stop, edit, transient failure, throw, silent run | `SlotLimit`, `LiveOwnerHoldsLock`, `OneLiveRun`, `RetryOnlyWithoutChild`, `TerminalStaysTerminal` along every path that follows a run |
| `RunExecution_progress` | 1 agent with a child, 6 runs; any three events of: two comment wakes, a crash, a cancellation; `FairSpec` | `RunEnds`, `QueuedIsStarted`, `DeferredSettles` |
| `IssueCheckout` | 2 runs of one agent, the first with a local child, 1 of another; 3 calls, 1 change by the board | `LiveOwnerHoldsLock`, `AdoptsFromTheDead`, `OkMeansOwner`, `OnlyStaleUpdateSeparates`, and the refinement `ImplementsOwnership` |
| `AgentStartLock` | 5 calls for one agent | `ImplementsMutex`, `NoLeftover`, `EveryCallStarts` |
| `PluginRuntime` | 1 plugin, 2 jobs, 3 job runs, limit 1, 2 handles, 3 processes, 2 lifecycle calls, 1 manual caller; any three of: exits, failed initializations, due jobs, triggers, enable, disable, two restarts, a crash; crashes of a worker given up after 1; `FairSpec` | `ScheduledOnce`, `ScheduledLimit`, `MarkHasDispatch`, `FinalOutcome`, `CallHasProcess`, `OneProcess`, `TypeOK`, and `ComesToRest` |
| `HumanBridge` | 1 interaction of either kind, 2 reconcilers, 4 bridges, 2 posts, 2 attempts; any two of: failed sends and polls, posts, expiry, an answer by the UI, closing of the issue, a crash; `FairSpec` | `OneOpenBridge`, `PostOnce`, `DecisionSettles`, the refinement `ImplementsDecision`, `OutboxSettles`, `PostHeard`, `TypeOK` |
| five `violation` runs | the smallest instance that shows it | section 4 |

Scope of the properties. `QueuedWakeIsLive`, `DeferredHasReleaser`, `PausedAgentIsIdle` and
`DeferredSettles` speak of a server that stays up: a crash between two statements of a
cancellation leaves a queued wake of a cancelled run, and section 4 tells what it does to
deferred wakes. `DeferredHasReleaser` and `DeferredSettles` except the lock that a claim
stamps on its issue after a cancellation has finished the run (`LockedByCancelled`;
section 4); `DeferredHasReleaser` also excepts what such a lock leaves behind where an edit or a
reconciliation has dropped it (`CancelledAndEdited`). `OneLiveRun` speaks of an issue that has been woken once and left alone since
(`LeftAlone`): retries, missing comments, throws, budget stops and recoveries follow the run
in every way they can, but another wake, an edit that drops the lock, a cancellation, a
reconciliation or a reaper's pass in the middle of `executeRun`'s last steps has both the
retry and the release of the other handler queue a successor. `TerminalStaysTerminal`,
`LiveOwnerHoldsLock` and `SlotLimit` name their one exception: the reaper, going through
rows it has read before, writes a run back to running (detached) that a pause has finished
and released since, because its child is alive; such a run counts beside the slots. In `IssueCheckout` the same exception is
`Unbroken`: `LiveOwnerHoldsLock`, `AdoptsFromTheDead`, `ImplementsOwnership` and
`OnlyOwnerReleases` speak of runs that have not been over, since a revived run may be left
with the checkout but without the lock, and may lose the checkout to a run of its agent that
has looked it up while it was over (section 4).

`ScheduledOnce` and `ScheduledLimit` speak of dispatches by the schedule: a manual trigger
looks at the mark, waits for two statements and only then sets it (section 4).
`FinalOutcome` allows a cancellation in place of an outcome, and an outcome in place of a
cancellation: `unregisterPlugin` cancels rows whose dispatch goes on. `OneProcess` is about
the registered handle and names its exceptions, both of a restart that overlaps with another
stop of the worker: one that finds it being stopped starts it at once, and one that has
waited for the exit starts it although another restart has done so already. `DecisionSettles` speaks of a server that stays up: a crash between the commit of a
decision and its wake loses the wake. `PostHeard` speaks of confirmations that are still to
be decided.

Why the bounds are enough. Three wakes of two agents on one issue are what it takes to
have a running run, a deferred wake and a third wake that is merged, deferred again or
queued; two wakes and one of the other events, or one wake and two of them,
put the disturbance at every await of a run with a deferred wake behind it. In the
recovery run four run rows hold a run, two successors of it and one more, so a doubled
successor appears. Where `FreshRun` has no row left, an action that would insert one is
disabled: the bounds are large enough that the environment's budget is spent first,
except in chains of recoveries, whose next member is like the one before. Three calls are
an owner, a rival that adopts and a third call that changes the row in between; one
tracked run that can be revived is enough, because an owner is one run. In
`PluginRuntime` two jobs under a limit of one make the marks of one job matter to the
other, two handles are an old one that is still stopping and its replacement, three
processes a child, the next one and an orphan; two lifecycle calls overlap each other, and
a due job and an exit can meet both. In `HumanBridge` one interaction is enough because
bridges, posts and decisions are each of one interaction (the theorems are for any number);
two reconcilers overlap, and four bridges are more than two failed sends and the retries of
both can open, so that an insert is never kept from happening by the bound. Deadlock is not
checked: every instance stops when its budget is spent.

Named bounds: `MaxRuns`, `MaxWakes`, `MaxEvents`, `MaxTotal`, `CommentWakes`,
`Outcomes`, `EditStatuses`; `MaxCalls`, `MaxBoard`, `ExpectedSets`, `BoardStatuses`, `Tracked`;
`MaxJobRuns`, `MaxConcurrentJobs`, `MaxProcs`, `Handles`, `MaxCrashes` (ten in the code);
`MaxReplies`, `Signals`, `MaxBridges`, `MaxAttempts`.

Each property of a passing run has a mutant in `PROJECT.json`: a definition with a
plausible bug (a dropped status condition, an unchecked read, a forgotten write) with
which TLC finds the property violated in the same run.

### Fairness

`FairSpec` of `AgentStartLock` assumes that reactions of settled promises run and that the
function of a call returns. The function is the body of `startNextQueuedRunForAgent`; it
returns unless it asks for the lock again, which is the subject of `RunExecution_start_lock`.

`FairSpec` of `RunExecution` assumes, by weak fairness, that a handler that can take its next step does
(its awaited query or transaction returns), that adapters return and orphaned children
exit, and that the loop of `index.ts:720-793` keeps coming round to `reapOrphanedRuns`,
`promoteDueScheduledRetries`, `resumeQueuedRuns` and the reconciler. Weak fairness is
enough because a step once possible stays possible until it is taken or the situation is
settled by another handler. Nothing is assumed of the environment: wakes, pauses, resumes,
budget changes and crashes need never happen. The five-minute threshold of the reaper is
modelled by what it is for: a row that a handler of this process is about to write
(`InHand`) is not looked at, except at startup, where the threshold is zero.

`FairSpec` of `PluginRuntime` assumes that handlers go on, that ticks come, that a child
answers its initialize or the call times out (both are timers of the worker manager), that
a dispatch is answered, rejected or times out, that a worker which has been told to stop
ends (after a drain period it is killed) and that a timer fires. It assumes nothing of
operators, exits and crashes.

`FairSpec` of `HumanBridge` assumes that the outbox worker and each reconciler go on
(`index.ts:720-819` starts them again and again; a pass that throws is caught, and the
adapter's calls end in an answer or an exception). It is weak and for each worker as a
whole. Nothing is assumed of the UI, of posts or of failures.

## 4. Disagreements between the code and what it says of itself

- `IssueCheckout_release`: "Only checkout run can release issue" (`issues.ts:3147`) is
  checked on a row read earlier; the UPDATE is unconditional, and takes the issue from a
  run that has checked it out in between.
- `RunExecution_two_running`: "A single issue never has more than one active execution
  owner run (`queued|running`) at once" (`doc/plans/2026-02-20-issue-run-orchestration-plan.md:133`).
  A wake that arrives between a run's last status write and its release queues a run
  without a lock; the release then promotes a deferred wake beside it.
- `RunExecution_continues_once`: "Bizbox queues one automatic continuation wake", and
  then blocks the issue (`doc/execution-semantics.md:258-259`). Only an unsuccessful
  continuation counts.
- `RunExecution_deferred_crash`: reconciliation "closes the gap where issue state survives
  a crash but the wake/run path does not" (`doc/execution-semantics.md:275`). A deferred
  wake whose releaser died in a crash keeps its issue out of the reconciliation.
- `RunExecution_start_lock`: "persisted queued work is still being driven forward"
  (`server/src/index.ts:755`). A claim that cancels its run under a budget stop waits for
  the start lock it holds.

Met while modelling and stated as properties that hold: `CheckoutIsByAssignee` alone is
not an invariant, because `update` decides from a row it has read whether it drops the
locks; `OnlyStaleUpdateSeparates` says that this is the only way.

Met while modelling and proving, without a run of their own:

- A claim writes the run's status (`heartbeat.ts:3930`) and stamps the issue's lock two
  awaits later (3963), without looking at the run again. A cancellation that finishes the run
  in between has released the issue before the stamp, so the lock of the issue is then held
  by a cancelled run and no handler is left that releases it: a wake that is deferred behind
  it waits until somebody wakes or edits the issue.
- The slots of an agent (5606) can be exceeded after a crash: a pause cancels a run whose
  child has survived, the agent is resumed and its next run is claimed, and the reaper, with
  a list it read before, writes the first one back to running (4489).
- A run that is written back in this way does not get its issue back. Another run of its
  agent that found it over (`issues.ts:1698`) adopts its checkout although it runs again by
  then, and its execution lock stays released. TLC finds this in the instance of
  `IssueCheckout` as soon as the properties speak of all living runs.
- Two wakes beside the last steps of a run, or an edit that drops the lock between the two
  retries that may follow it, are enough for an issue to have two live runs.
- `disable` and `markError` stop a worker only if it is running (`plugin-loader.ts:1612`).
  One that is starting, or waits for its restart, comes up for a plugin that is disabled.
  After an activation that failed, a crashed handle stays in the manager's map and
  `startWorker` refuses it (`plugin-worker-manager.ts:1242`). A `markError` that has read a
  row that was not ready unloads the worker an enable has started, and then throws.
- "One worker process per installed plugin" (`plugin-worker-manager.ts:11`): a restart of a
  worker that is being stopped returns from `stopInternal` at once (865) and spawns a
  second child beside the first. Of two restarts, one that waited for the exit starts the
  worker when the process ends, although the other, which found it stopping, has started it
  already: the handle then forgets a live process. A `stopWorker` removes from the map a
  handle that a concurrent restart starts again (1286-1296).
- "prevents overlapping execution" (`doc/plugins/PLUGIN_SPEC.md:894`): `triggerJob` looks at
  the mark and sets it two statements later (`plugin-job-scheduler.ts:455-510`), so a tick
  or another trigger runs the job beside it. After a crash, the rows left running make
  every later trigger refuse.
- "Rows are never modified after `status` reaches a terminal value"
  (`packages/db/src/schema/plugin_jobs.ts:62`): a run that `unregisterPlugin` has cancelled
  is written again by its dispatch.
- "Timeouts close the bridge, ... and leave the issue workflow state unchanged"
  (`docs/adr/0001-awaiting-human-bridge.md`): an expiry rejects a confirmation and sets the
  issue to `todo`.
- The `UPDATE` after a send (`awaiting-human-bridge.ts:814`) brings back a bridge that the UI
  has closed; its later expiry wakes the agent once more. A bridge that a failed poll has
  marked is not retried: retries look for failed openings only. The expiry of questions
  closes the bridge and leaves them pending. A crash during a send leaves a
  `pending_delivery` row that the outbox then takes for an open bridge. An answer by the UI
  between `create`'s insert and its parking parks an issue that waits for nothing
  (`issue-thread-interactions.ts:895`).

## 5. Proofs

`IssueCheckout_proofs` proves, for every number of runs, agents, calls and board changes,
from `IssueRowAssumption` and `IssueCheckoutAssumption` (types of the constants, null
values outside their sets; TLC evaluates both in every run of `IssueCheckout`):

| Theorem | Property |
|---|---|
| `TypeCorrect` | `TypeOK` |
| `OwnerHoldsLock` | `LiveOwnerHoldsLock` |
| `TakesOverFromTheDead` | `AdoptsFromTheDead` |
| `OkIsOwner` | `OkMeansOwner` |
| `SeparatedByStaleUpdate` | `OnlyStaleUpdateSeparates` |
| `Refinement` | `ImplementsOwnership` |

The argument. `TypeOK` is inductive (`NextType`, one step per action). The inductive
invariant `Inv` adds to `LiveOwnerHoldsLock` and `AdoptsFromTheDead` the fact `SeenIsRun`:
a call that looks at, or adopts from, a holder has seen a run and not null. It is needed
because a statement that adopts a stale checkout matches `checkoutRunId = seen`: with
`seen` null it would match a free issue and the owner of that moment would not have been
looked up. `LiveOwnerHoldsLock` survives because every statement that sets the checkout
sets the execution lock to the same run, every statement that clears the lock of an owner
that has not been over clears both, and the heartbeat only stamps a lock that is free or the
run's own. That no such owner is robbed (`Refinement`) then follows from `AdoptsFromTheDead`:
runs may come back to life, but the runs that have not been over only become fewer
(`UnbrokenShrinks`), so a holder found over is still one that has been when the UPDATE
matches it. The end of a run that was revived, and the revival, are stuttering steps of
`IssueOwnership`. The theorems about
steps (`OkIsOwner`, `SeparatedByStaleUpdate`) and the refinement are `[][...]_vars`
formulas from `Inv` and the shape of the steps.

`AgentStartLock_proofs` proves, for every number of calls, `TypeCorrect` (`TypeOK`),
`ForgetsTheAgent` (`NoLeftover`) and `ServesInOrder` (`ImplementsMutex`). The inductive
invariant says what the chain looks like: a call hangs on the one before it unless all
earlier ones have settled (`Chained`), the map has no entry only if all calls have settled
and else the entry of the last call (`MarkerIsLast`), and so no function has started before
all earlier ones have settled (`InOrder`). `MarkerIsLast` is what the comparison in the
finally block is for: without it, a caller that leaves would cut off those that wait.

`HumanBridge_proofs` proves, for every number of interactions, reconcilers, bridges, posts
and attempts, from the assumptions of `HumanBridge` on its constants:

| Theorem | Property |
|---|---|
| `TypeCorrect` | `TypeOK` |
| `OneBridge` | `OneOpenBridge` |
| `CommentedOnce` | `PostOnce` |
| `DecisionsSettle` | `DecisionSettles` |
| `Implements` | `ImplementsDecision` |

The inductive invariant `Inv` (TLC has checked it in the instance of the run) is `TypeOK`,
`DecisionSettles` and six facts: an open bridge has no second one of its interaction
(`OpenIsUnique`); rows in use belong to an interaction that was asked (`InUse`); a comment
is recorded (`CommentIsRecorded`); what a worker has in hand fits its position (`Hands`);
the row the outbox worker has in hand has an attempt left (`AttemptsLeft`); an interaction
that is decided was asked (`Asked`); and whoever has a decision to carry out is the only
one, and it has not been carried out (`OneSettles`). Two summaries keep the proof from
being a product of actions and conjuncts. Every step is a *move* of the bridge rows: one
row opened while none of its interaction is, one row closed or failed, or one row set to
waiting while no other is open; from that `OpenIsUnique` follows once. And every step is
one of four kinds as far as decisions go: it asks, it decides and takes the effects in hand,
it carries them out and lets go of them, or it is calm; `OneSettles`, `DecisionSettles` and
the refinement follow from the kinds.

The three modules about `RunExecution` prove, for every number of agents, issues, runs, wakes
and events, and every choice of the bounds, from `IssueRowAssumption` and
`RunExecutionAssumption` (types of the constants, null values outside their sets; TLC
evaluates both in every run of `RunExecution`):

| Theorem | Property | Module |
|---|---|---|
| `RowsAndHands`, `TypeCorrect` | `TypeOK` | `RunExecution_types` |
| `FinishedForGood` | `TerminalStaysTerminal` | `RunExecution_proofs` |
| `ReaperWorksOnTheDead`, `NoRetryBesideChild` | `RetryOnlyWithoutChild` | `RunExecution_proofs` |
| `DeferredOnce` | `OneDeferredPerAgent` | `RunExecution_proofs` |
| `ReleasedAreFinished`, `OwnerHoldsLock` | `LiveOwnerHoldsLock` | `RunExecution_proofs` |
| `AgentsWithinSlots` | `SlotLimit` | `RunExecution_proofs` |
| `NothingToReap`, `QueuedWakesAreServed` | `QueuedWakeIsLive` | `RunExecution_served` |
| `PauseStopsTheAgent` | `PausedAgentIsIdle` | `RunExecution_served` |
| `LocksAreServed`, `DeferredNotForgotten` | `DeferredHasReleaser` | `RunExecution_served` |
| `OneRunLeftAlone` | `OneLiveRun` | `RunExecution_served` |

The argument. Fifteen variables and over forty actions make a product with the properties that
nobody would read, so the proofs work with summaries. The lemmas `StarterStepMoves`,
`ExecStepMoves`, `CancelStepMoves`, `ReaperStepMoves` and `OtherStepMoves` say once what a step
of each handler does to the run's statuses and to the other handlers; `EnqueueMoves`,
`ReleaseMoves` and `InsertRetryMoves` say what the three transactions do to wakes and locks;
`StatusMoves` and `NextMoves` put them together: a status, a wake, a lock changes in one of a
few ways, whatever the step. The invariants:

- `Typed` (`RowsOK`, `HandsOK`) is `TypeOK` with what the handlers need of each other: a handler
  has an existing row in hand, a starter's queue and claims are runs of its agent, a run's wake
  exists and names the run, a lock is held by a run of its issue, and a deferred wake has no run.
- `Done`: whoever is past the write of a run's end (`executeRun` after `ExecPersist`, a
  cancellation after `CancelStatus`, the reaper after its examination) works on a run that is
  finished, or was written back by the reaper. A release therefore never takes the lock of a
  living run: `LiveOwnerHoldsLock`. The reaper's part, `ReaperDone`, adds that the child is gone:
  `RetryOnlyWithoutChild`.
- `SlotsLeft`: while a starter works, running runs and the slots it still has in hand are
  together within the limit; it is needed because the slots are counted once and claims follow
  one another with awaits between them. `QueuesDistinct` (no run is twice in a starter's hands)
  makes each claim use up a slot.
- `Up`: while the server stays up every running run is in the hands of a handler, so that the
  reaper's list stays empty; every other theorem of `RunExecution_served` uses it.
- `ClaimWritesWake`: the claim has written the wake before the run is executed; with it
  `QueuedWakeIsLive` is inductive.
- `PausedSwept`: a run of a paused agent that is running, or whose claim has passed the
  check of the pause, is in the pause's list or being cancelled. The second part is what makes
  it inductive; it holds because a starter's queue has no scheduled retries (`QueuesDue`).
- `LockHolder` and `DeferredWatched`: a lock is held by a run that lives or whose handler is
  still to release (`Serving`), or by one that a request has cancelled in the middle of its
  claim; and a deferred wake has such a run in its issue. They rest on what is in whose hands:
  claimed runs and queues are not executed yet (`Idling`), a run is claimed once
  (`ClaimedOnce`), without requests only claims cancel (`OnlyClaimsCancel`), and a claim in its
  last steps has a live run (`ClaimingLive`).
- `Alone`: if the issue was left alone, at most one run of it is *busy* (it lives, or has ended
  and may still be retried), and a lock that is held is held by it as soon as its claim is over.
  So the retry, the comment and the release, which queue a successor only for the holder of the
  lock or for a free issue, find no other busy run.

TLC has checked each of these on the instances of the runs. Three of the properties turned out
to be false as they had been stated, outside the instances of the runs; the counterexamples are
in section 4, and the properties now name the exceptions.

`PluginRuntime_proofs` proves, for every number of jobs, job runs, callers, handles, child
processes and lifecycle calls, from `PluginHandleAssumption`, `PluginSchedulerAssumption` and
`PluginRuntimeAssumption` (types of the constants and null values outside their sets):

| Theorem | Property |
|---|---|
| `TypeCorrect` | `TypeOK` |
| `NoCallIsLeft` | `CallHasProcess` |
| `ScheduleRunsOnce` | `ScheduledOnce` |
| `ScheduleKeepsItsLimit` | `ScheduledLimit` |
| `NoMarkIsLeft` | `MarkHasDispatch` |
| `OutcomesAreFinal` | `FinalOutcome` |
| `OneProcessEach` | `OneProcess` |

The inductive invariant `Inv` is `TypeOK`, `MarkHasDispatch` and `CallHasProcess` with four facts: a
dispatch that goes on has no outcome yet (`NoEarlyOutcome`); whatever the schedule has
dispatched belongs to the tick in progress, which has one run for each of its jobs and no more
than the limit (`OfTheTick`); a process belongs to a handle, the child a handle knows is a living
process of it, and a stopped handle knows none (`HandlesSound`, of `Processes` and `Children`);
and what a lifecycle call is for fits its position, and the runs it is to cancel exist
(`OpsSound`). `OfTheTick` is why the marks do not matter to `ScheduledOnce`: marks come and go with
`unregisterPlugin`, but a tick does not begin while one is in progress. `HandlesSound` is what
`CallHasProcess` needs: a call is sent to a handle that runs, and every step that takes the
handle's process away rejects its calls. The proofs about the scheduler do not look at the
worker: `NextMoves` says once which of the scheduler's steps a step of the whole is, and
the invariants of the scheduler are proved over those.

What the sorted queue of a starter and the oldest of some wakes are is in `OrderTheorems`: a
finite set of numbers that an order compares has a sorted enumeration (`SortedEnumeration`) and
a least member (`LeastOfFinite`), so that the CHOOSE in `Prioritised` and `Oldest` chooses.

Only model-checked: the liveness properties `RunEnds`, `QueuedIsStarted`, `DeferredSettles`,
`EveryCallStarts`, `ComesToRest`, `OutboxSettles` and `PostHeard` (liveness under fairness and
ENABLED are outside what the prover does). Every safety property of a passing run has a theorem.

## 6. Abstractions, and what is not modelled

In `RunExecution`:

- Only wakes that name an issue. Timer and assignment wakes without one, the coalescing
  by task key, agent deletion and termination, and runs that hold several issues are left
  out. A liveness continuation is one more wake of the environment.
- `skipped` and `coalesced` wake rows are not kept: nothing reads them again.
- Issues are not user-assigned and do not originate from routines; the reconciler's
  special cases for them (and for human-owned blockers), and the suppression of recovery
  for a failed run whose result reports success, are left out.
- `finalizeAgentStatus` (idle, running, error) is left out: an agent is paused or not.
- A pause is the write of the agent's status (`agents.ts:432`) together with the listing
  of its runs; there is one pause sweep at a time and one cancellation per run at a time.
- A budget stop is a block of company, agent or project scope; the cancellations it
  triggers are cancellation requests and `CancelPendingWakes`.
- The cancellation called by a claim ends in a wait for a lock its caller holds: program
  counter `next`, which has no step.
- The queue order keeps the ranks blocked, in progress, other; issue priorities, which
  break ties, are left out.
- `issues.checkout` and `issues.update` are one step, as is `enqueueWakeup`: its reads of
  the agent's status and budget (`heartbeat.ts:7383`, 7432), made before the transaction,
  are read with the insert. The read of the release about the recovering agent (6944) is part
  of its transaction; the reconciler's reads are one step (`ReconcileFind`) and what it does
  about them a later one.
- There is one pass of the reaper and one of the reconciler at a time. The timer that starts
  them (`index.ts:720`) does not look whether the last pass is over, so passes that take
  longer than the interval overlap: two reapers may then both fail and retry one run. What
  the theorems and runs say of reaping holds as long as passes do not overlap.
- The check of a claim reads whether the run was woken by a comment from the row as it is;
  the code reads the snapshot of the row it listed, which a merged wake may have changed.
- The spawn of a child and the write of its pid (3197) are one step, so no crash comes between
  them; `clearDetachedRunWarning` (3215) is left out: a detached run stays marked.
- Which wake reasons check the issue out is a free choice in `ExecCheckout`.
- Process groups, detached services and log output are left out.

In `IssueCheckout`: one issue; a checkout by the board without a run is left out (its
`checkoutRunId` would be null); a status is only patched to the values of `BoardStatuses`.
What the heartbeat does is only what it does to the lock, at any time: `ClaimStamp` also
stands for wakes, promotions and retries, `HeartbeatRelease` for releases, retries and the
blocking of an issue that cannot be recovered. The reaper may revive a tracked run that is
over at any time, whatever its list.

In `PluginRuntime`: one plugin; no installation, upgrade or removal, no change of the
manifest, no graceful shutdown; calls are those of jobs; the instants of `next_run_at` are
`due` or `future`, and a job comes due by itself; `pluginJobs.status` (paused jobs) is left
out; a handle nothing refers to any more is used again for a new one; the window in which
crashes count as consecutive is a free choice. A failed initialize kills the child the handle
knows and waits for its exit up to a second (`plugin-worker-manager.ts:846`, 976): one step.
The exit of any process of a handle ends all stops that wait for one (`Falls`), while
`waitForExit` and `killWithSignal` (925-973), if they wait for another child, go on until
their timeout. The INSERT of a triggered run and its mark (`plugin-job-scheduler.ts:486`,
509) are one step, as are the UPDATE of an outcome and the removal of the mark.

In `HumanBridge`: one issue, assigned to an agent; `continuationPolicy` is `wake_assignee`;
confirmations are reviewed in one stage and do not expire because of their target; posts
have a text, and the order in which the provider returns them is arbitrary; `reject_signal`
is left out, because no adapter of the repository emits it, as are handoffs of workflow
steps and deliveries made before bridges existed; the adapter's `close`, an effort whose
failure is logged, is left out; `create` reads the issue and parks it in one step; a failed
delivery is written with its entry in the activity log; a retry reads the interaction, the
issue and the failed row in one step, an approval signal reads the interaction in its
transaction; `settled` counts that the handler has come to its wake, which `enqueueWakeup`
may still refuse.

The components of section 1 without a module are listed with reasons in `PROJECT.json`.

## 7. Plan

Done: `HeartbeatStatus`, `IssueRow`, `IssueOwnership`, `IssueCheckout`, `AgentStartLock`,
`RunExecution`, `PluginHandle`, `PluginScheduler`, `PluginRuntime`, `HumanDecision`,
`HumanBridge`, and theorems about every safety property the passing runs check.

Next, in this order:

1. An abstract specification of the lock of one issue, implemented by `RunExecution`: the
   summaries `LockMoved` and `WakeMoved` are its steps.
2. How far `OneRunningPerIssue` goes: which of the events of `LeftAlone` may happen as long as
   no two runs of an issue are running.
3. Wakes without an issue, `finalizeAgentStatus` and run liveness continuations.
4. Routines and workflow schedules: a due trigger fires once per slot although ticks
   overlap; issue execution policy as a function checked against a reference.
