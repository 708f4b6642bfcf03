---------------------------- MODULE RunExecution ----------------------------
(***************************************************************************)
(* How server/src/services/heartbeat.ts turns wakeups into runs of agents  *)
(* on issues.  The database (run, wake, issue, and the agents that are      *)
(* paused or stopped by a budget) is shared by the asynchronous handlers of *)
(* one server process; every action is one statement or transaction of one *)
(* handler, so the handlers interleave wherever the code awaits.            *)
(*                                                                         *)
(* Handlers and the variable that holds where they are:                     *)
(*   starter  startNextQueuedRunForAgent, claimQueuedRun (the start lock)  *)
(*   exec     executeRun                                                    *)
(*   cancel   cancelRunInternal, cancelActiveForAgentInternal              *)
(*   reaper   reapOrphanedRuns                                              *)
(*   recon    reconcileStrandedAssignedIssues                              *)
(* Transactions on the issue row (enqueueWakeup, the release) are one step. *)
(***************************************************************************)
EXTENDS IssueRow, Sequences, FiniteSets, Functions

CONSTANTS
  MaxWakes,        \* bound: agent_wakeup_requests rows ever created
  MaxConcurrent,   \* parseHeartbeatPolicy(agent).maxConcurrentRuns, per agent
  LocalAgents,     \* agents whose adapter runs a tracked local child process
  NoIssue,         \* no issue
  FirstAssignee,   \* the agent each issue starts out assigned to
  RetryDelays,     \* BOUNDED_TRANSIENT_HEARTBEAT_RETRY_DELAYS_MS.length
  CommentWakes,    \* bound: whether wakes carry a comment, of TRUE and FALSE
  Outcomes,        \* bound: how adapters end, of the outcomes they can have
  EditStatuses,    \* bound: the statuses PATCH /issues/:id gives an issue
  MaxEvents,       \* bound: how often the environment does each thing it does
  MaxTotal         \* bound: how often it does anything

EventKinds == {"wake", "cancel", "pause", "budget", "crash", "edit", "transient",
               "throw", "silent", "reconcile"}

ASSUME RunExecutionAssumption ==
  /\ MaxWakes \in Nat
  /\ NoIssue \notin Issues
  /\ MaxConcurrent \in [Agents -> Nat]
  /\ LocalAgents \subseteq Agents
  /\ FirstAssignee \in [Issues -> Agents \cup {NoAgent}]
  /\ RetryDelays \in Nat
  /\ CommentWakes \subseteq BOOLEAN
  /\ Outcomes \subseteq {"succeeded", "failed", "timed_out"}
  /\ EditStatuses \subseteq IssueStatuses
  /\ MaxEvents \in [EventKinds -> Nat]
  /\ MaxTotal \in Nat

Wakes == 1 .. MaxWakes   \* in the order of creation (requestedAt)
NoWake == 0

VARIABLES
  run,       \* heartbeat_runs
  wake,      \* agent_wakeup_requests
  issue,     \* issues
  paused,    \* agents that are paused
  stopped,   \* agents for which budgets.getInvocationBlock returns a block
  wanted,    \* agents for which a startNextQueuedRunForAgent waits its turn
  starter,   \* the holder of each agent's start lock
  exec,      \* executeRun of each run
  cancel,    \* the cancellation of each run
  sweep,     \* runs listed by cancelActiveForAgentInternal, not yet reached
  reaper,    \* the pass of reapOrphanedRuns
  recon,     \* the pass of reconcileStrandedAssignedIssues
  proc,      \* runs whose child process is alive
  booting,   \* the startup recovery has not scanned for orphans yet
  events     \* how often the environment did each thing

db == <<run, wake, issue>>
vars == <<run, wake, issue, paused, stopped, wanted, starter, exec, cancel,
          sweep, reaper, recon, proc, booting, events>>

-----------------------------------------------------------------------------
(* Rows and their types. *)

NoRow == [status |-> "none"]

RunRow == [status : RunStatuses, agent : Agents, issue : Issues, wake : Wakes,
           reason : RetryReasons, lost : Nat, attempt : Nat,
           pid : BOOLEAN, detached : BOOLEAN, comment : BOOLEAN]

WakeRow == [status : WakeStatuses, agent : Agents, issue : Issues,
            run : Runs \cup {NoRun}, reason : RetryReasons, comment : BOOLEAN]

Starter == [pc : {"idle", "check", "cas", "wake", "stamp", "cancel"},
            queue : Seq(Runs), slots : Nat, claimed : SUBSET Runs]
Idle == [pc |-> "idle", queue |-> <<>>, slots |-> 0, claimed |-> {}]

\* "threw": adapter.execute or the setup before it threw; the status is "failed".
Exec == [pc : {"none", "begin", "checkout", "spawn", "adapter", "persist",
               "wake", "retry", "comment", "release"},
         outcome : Terminal \cup {"none", "threw"}]
NotExecuting == [pc |-> "none", outcome |-> "none"]

\* by: "request" for cancelRunInternal, "sweep" for cancelActiveForAgentInternal,
\* "claim" for the cancelRunInternal that claimQueuedRun awaits.
Cancel == [pc : {"none", "kill", "status", "wake", "release", "next"},
           by : {"none", "request", "sweep", "claim"}]
NoCancel == [pc |-> "none", by |-> "none"]

Reaper == [pc : {"none", "wake", "retry", "release"}, run : Runs \cup {NoRun},
           list : SUBSET Runs]
Recon == [pc : {"none", "escalate", "recover"}, issue : Issues \cup {NoIssue},
          agent : Agents \cup {NoAgent}, reason : RetryReasons]
NoRecon == [pc |-> "none", issue |-> NoIssue, agent |-> NoAgent, reason |-> "none"]

TypeOK ==
  /\ run \in [Runs -> RunRow \cup {NoRow}]
  /\ wake \in [Wakes -> WakeRow \cup {NoRow}]
  /\ issue \in [Issues -> Row]
  /\ paused \subseteq Agents /\ stopped \subseteq Agents /\ wanted \subseteq Agents
  /\ starter \in [Agents -> Starter]
  /\ exec \in [Runs -> Exec]
  /\ cancel \in [Runs -> Cancel]
  /\ sweep \subseteq Runs
  /\ reaper \in Reaper
  /\ recon \in Recon
  /\ proc \subseteq Runs
  /\ booting \in BOOLEAN
  /\ events \in [EventKinds -> Nat]

Init ==
  /\ run = [r \in Runs |-> NoRow]
  /\ wake = [w \in Wakes |-> NoRow]
  /\ issue = [i \in Issues |->
                [status |-> "todo", assignee |-> FirstAssignee[i], checkout |-> NoRun,
                 exec |-> NoRun, key |-> NoKey, ready |-> TRUE]]
  /\ paused = {} /\ stopped = {} /\ wanted = {}
  /\ starter = [a \in Agents |-> Idle]
  /\ exec = [r \in Runs |-> NotExecuting]
  /\ cancel = [r \in Runs |-> NoCancel]
  /\ sweep = {}
  /\ reaper = [pc |-> "none", run |-> NoRun, list |-> {}]
  /\ recon = NoRecon
  /\ proc = {}
  /\ booting = FALSE
  /\ events = [e \in EventKinds |-> 0]

\* The environment does e once more, within the bounds.
Event(e) ==
  /\ events[e] < MaxEvents[e]
  /\ FoldFunction(+, 0, events) < MaxTotal
  /\ events' = [events EXCEPT ![e] = @ + 1]

-----------------------------------------------------------------------------
(* Queries. *)

Live(r) == run[r].status \in ExecutionPath
Dead(r) == run[r].status \in Terminal

\* Rows of the next INSERT.
FreshRun(r) == run[r] = NoRow /\ \A q \in Runs : q < r => run[q] # NoRow
FreshWake(w) == wake[w] = NoRow /\ \A v \in Wakes : v < w => wake[v] # NoRow

RunsOf(i) == {r \in Runs : run[r] # NoRow /\ run[r].issue = i}
LiveRunsOf(i) == {r \in RunsOf(i) : Live(r)}
Deferred(i) == {w \in Wakes : /\ wake[w] # NoRow
                              /\ wake[w].status = "deferred_issue_execution"
                              /\ wake[w].issue = i}
RunsWithStatus(s) == {r \in Runs : run[r] # NoRow /\ run[r].status = s}
RunningOf(a) == {r \in RunsWithStatus("running") : run[r].agent = a}
QueuedOf(a) == {r \in RunsWithStatus("queued") : run[r].agent = a}

Oldest(S) == CHOOSE r \in S : \A q \in S : r <= q
Latest(S) == CHOOSE r \in S : \A q \in S : q <= r

\* executeRun holds the run in activeRunExecutions from its first step to its end.
InMemory(r) == exec[r].pc \notin {"none", "begin"}

\* A stranded issue's recovery is named after the status the issue was stranded in.
RecoveryReason(status) ==
  IF status = "todo" THEN "assignment_recovery" ELSE "issue_continuation_needed"

\* didAutomaticRecoveryFail, for a run that ended with status "ended".
RecoveryFailed(r, ended, reason) == run[r].reason = reason /\ ended \in Unsuccessful

NewRun(a, i, w, reason) ==
  [status |-> "queued", agent |-> a, issue |-> i, wake |-> w, reason |-> reason,
   lost |-> 0, attempt |-> 0, pid |-> FALSE, detached |-> FALSE, comment |-> FALSE]

NewWake(a, i, status, r, reason, comment) ==
  [status |-> status, agent |-> a, issue |-> i, run |-> r, reason |-> reason,
   comment |-> comment]

\* INSERT a queued wakeup request and the run made from it; "lock" says whether
\* the transaction also gives the run the issue's execution lock.
InsertRun(new, w, row, issueRow, lock) ==
  /\ FreshRun(new) /\ FreshWake(w)
  /\ run' = [run EXCEPT ![new] = row]
  /\ wake' = [wake EXCEPT ![w] = NewWake(row.agent, row.issue, "queued", new, row.reason, row.comment)]
  /\ issue' = [issue EXCEPT ![row.issue] = IF lock THEN LockedBy(issueRow, new, row.agent) ELSE issueRow]

-----------------------------------------------------------------------------
(***************************************************************************)
(* enqueueWakeup(a, ...) for issue i: one transaction that holds the issue *)
(* row.  comment: the wake carries a comment id (or approval), so it may   *)
(* interrupt a blocked issue and deserves a run of its own after a running *)
(* one.  reason: the retryReason in the wake's context.                    *)
(***************************************************************************)

\* The run the issue is being executed by: the holder of the lock if it is on an
\* execution path, else (legacyRun) a running run of the issue, else the oldest.
ActiveRun(i) ==
  LET held == issue[i].exec
      running == {r \in LiveRunsOf(i) : run[r].status = "running"}
  IN  IF held # NoRun /\ Live(held) THEN held
      ELSE IF running # {} THEN Oldest(running)
      ELSE IF LiveRunsOf(i) # {} THEN Oldest(LiveRunsOf(i))
      ELSE NoRun

\* The row with a stale lock dropped and a legacy run's lock restored.
NormalisedRow(i) ==
  LET held == issue[i].exec
      active == ActiveRun(i)
  IN  IF held # NoRun /\ Live(held) THEN issue[i]
      ELSE IF active # NoRun THEN LockedBy(issue[i], active, run[active].agent)
      ELSE IF held # NoRun THEN Unlocked(issue[i])
      ELSE issue[i]

\* isSameExecutionAgent compares with the key the row had when it was read.
SameExecutionAgent(a, i) ==
  LET key == IF issue[i].key # NoKey THEN issue[i].key
             ELSE NameKey[run[ActiveRun(i)].agent]
  IN  key = NameKey[a]

\* No active run and unresolved blockers: a "skipped" request, no run.
EnqueueSkipped(i, comment) ==
  /\ ActiveRun(i) = NoRun
  /\ ~issue[i].ready /\ ~comment
  /\ issue' = [issue EXCEPT ![i] = NormalisedRow(i)]
  /\ UNCHANGED <<run, wake, wanted>>

\* The active run is the agent's own: the wake is merged into its context and only
\* leaves a "coalesced" row, which nothing reads.
EnqueueCoalesced(a, i, comment, reason) ==
  LET active == ActiveRun(i) IN
  /\ active # NoRun
  /\ SameExecutionAgent(a, i)
  /\ ~(comment /\ run[active].status = "running")
  /\ run' = [run EXCEPT ![active].comment = @ \/ comment,
                        ![active].reason = IF reason = "none" THEN @ ELSE reason]
  /\ issue' = [issue EXCEPT ![i] = NormalisedRow(i)]
  /\ wanted' = IF run[active].status = "queued" THEN wanted \cup {a} ELSE wanted
  /\ UNCHANGED wake

\* Mutant: a deferred wake of the agent is not looked for before one is inserted.
EnqueueDeferredAgain(a, i, comment, reason) ==
  /\ ActiveRun(i) # NoRun
  /\ SameExecutionAgent(a, i) => comment /\ run[ActiveRun(i)].status = "running"
  /\ \E w \in Wakes :
       /\ FreshWake(w)
       /\ wake' = [wake EXCEPT ![w] =
                      NewWake(a, i, "deferred_issue_execution", NoRun, reason, comment)]
  /\ issue' = [issue EXCEPT ![i] = NormalisedRow(i)]
  /\ UNCHANGED <<run, wanted>>

\* Another agent is at work, or the agent's own running run needs a follow-up:
\* the wake waits as deferred_issue_execution, one row per agent and issue.
EnqueueDeferred(a, i, comment, reason) ==
  LET active == ActiveRun(i)
      mine == {w \in Deferred(i) : wake[w].agent = a}
  IN
  /\ active # NoRun
  /\ SameExecutionAgent(a, i) => comment /\ run[active].status = "running"
  /\ IF mine # {}
     THEN wake' = [wake EXCEPT ![Oldest(mine)].comment = @ \/ comment,
                               ![Oldest(mine)].reason = IF reason = "none" THEN @ ELSE reason]
     ELSE \E w \in Wakes :
            /\ FreshWake(w)
            /\ wake' = [wake EXCEPT ![w] =
                 NewWake(a, i, "deferred_issue_execution", NoRun, reason, comment)]
  /\ issue' = [issue EXCEPT ![i] = NormalisedRow(i)]
  /\ UNCHANGED <<run, wanted>>

\* Nothing is at work: a queued run.  The lock is not stamped before the claim.
EnqueueQueued(a, i, comment, reason) ==
  /\ ActiveRun(i) = NoRun
  /\ issue[i].ready \/ comment
  /\ \E new \in Runs, w \in Wakes :
       InsertRun(new, w, [NewRun(a, i, w, reason) EXCEPT !.comment = comment],
                 NormalisedRow(i), FALSE)
  /\ wanted' = wanted \cup {a}

Enqueue(a, i, comment, reason) ==
  \/ EnqueueSkipped(i, comment)
  \/ EnqueueCoalesced(a, i, comment, reason)
  \/ EnqueueDeferred(a, i, comment, reason)
  \/ EnqueueQueued(a, i, comment, reason)

\* A request of the board, another agent, a routine, a comment...  A paused agent or
\* a budget block refuses it with a conflict.
WakeAgent(a, i, comment) ==
  /\ Event("wake")
  /\ a \notin paused /\ a \notin stopped
  /\ Enqueue(a, i, comment, "none")
  /\ UNCHANGED <<paused, stopped, starter, exec, cancel, sweep, reaper, recon, proc, booting>>

-----------------------------------------------------------------------------
(***************************************************************************)
(* startNextQueuedRunForAgent(a) inside withAgentStartLock, and the        *)
(* claimQueuedRun of each queued run it tries.                             *)
(***************************************************************************)

\* Rank of a queued run: in_progress issues, ready issues, blocked issues last.
StartRank(r) ==
  IF ~issue[run[r].issue].ready THEN 3
  ELSE IF issue[run[r].issue].status = "in_progress" THEN 0 ELSE 1

StartsBefore(r, q) ==
  \/ StartRank(r) < StartRank(q)
  \/ StartRank(r) = StartRank(q) /\ r < q

Prioritised(S) ==
  CHOOSE s \in [1 .. Cardinality(S) -> S] :
    \A j, k \in 1 .. Cardinality(S) : j < k => StartsBefore(s[j], s[k])

\* Mutant: the runs that are running already do not count.
StartBeginAllSlots(a) ==
  /\ a \in wanted
  /\ starter[a].pc = "idle"
  /\ wanted' = wanted \ {a}
  /\ starter' = IF a \in paused \/ QueuedOf(a) = {} THEN starter
                ELSE [starter EXCEPT ![a] =
                        [pc |-> "check", queue |-> Prioritised(QueuedOf(a)),
                         slots |-> MaxConcurrent[a], claimed |-> {}]]
  /\ UNCHANGED <<run, wake, issue, paused, stopped, exec, cancel, sweep, reaper, recon,
                 proc, booting, events>>

StartBegin(a) ==
  LET slots == MaxConcurrent[a] - Cardinality(RunningOf(a)) IN
  /\ a \in wanted
  /\ starter[a].pc = "idle"
  /\ wanted' = wanted \ {a}
  /\ starter' = IF a \in paused \/ slots <= 0 \/ QueuedOf(a) = {} THEN starter
                ELSE [starter EXCEPT ![a] =
                        [pc |-> "check", queue |-> Prioritised(QueuedOf(a)),
                         slots |-> slots, claimed |-> {}]]
  /\ UNCHANGED <<run, wake, issue, paused, stopped, exec, cancel, sweep, reaper, recon,
                 proc, booting, events>>

Claiming(a) == Head(starter[a].queue)

\* The loop goes on to the next run, or ends: every claimed run is then executed and
\* the lock is released.
StartNext(a, claimed) ==
  LET rest == Tail(starter[a].queue)
      slots == starter[a].slots - Cardinality(claimed \ starter[a].claimed)
  IN  IF rest = <<>> \/ slots = 0
      THEN /\ starter' = [starter EXCEPT ![a] = Idle]
           /\ exec' = [r \in Runs |-> IF r \in claimed THEN [exec[r] EXCEPT !.pc = "begin"]
                                      ELSE exec[r]]
      ELSE /\ starter' = [starter EXCEPT ![a] =
                            [pc |-> "check", queue |-> rest, slots |-> slots, claimed |-> claimed]]
           /\ UNCHANGED exec

\* claimQueuedRun reads the agent, its budget and the blockers; an agent that may not
\* be invoked has the run cancelled on the spot, with the start lock held.
ClaimCheck(a) ==
  LET r == Claiming(a)
      refused == a \in paused \/ a \in stopped
      waiting == ~issue[run[r].issue].ready /\ ~run[r].comment
  IN
  /\ starter[a].pc = "check"
  /\ \/ /\ refused /\ Live(r) /\ cancel[r].pc = "none"
        /\ cancel' = [cancel EXCEPT ![r] = [pc |-> "kill", by |-> "claim"]]
        /\ starter' = [starter EXCEPT ![a].pc = "cancel"]
        /\ UNCHANGED exec
     \/ /\ refused /\ ~Live(r)
        /\ StartNext(a, starter[a].claimed)
        /\ UNCHANGED cancel
     \/ /\ ~refused /\ waiting
        /\ StartNext(a, starter[a].claimed)
        /\ UNCHANGED cancel
     \/ /\ ~refused /\ ~waiting
        /\ starter' = [starter EXCEPT ![a].pc = "cas"]
        /\ UNCHANGED <<exec, cancel>>
  /\ UNCHANGED <<run, wake, issue, paused, stopped, wanted, sweep, reaper, recon, proc,
                 booting, events>>

\* Mutant: the UPDATE has no status condition.
ClaimCasUnconditional(a) ==
  /\ starter[a].pc = "cas"
  /\ run' = [run EXCEPT ![Claiming(a)].status = "running"]
  /\ starter' = [starter EXCEPT ![a].pc = "wake"]
  /\ UNCHANGED <<wake, issue, paused, stopped, wanted, exec, cancel, sweep, reaper, recon,
                 proc, booting, events>>

\* UPDATE ... SET status = 'running' WHERE id = r AND status = 'queued'
ClaimCas(a) ==
  LET r == Claiming(a) IN
  /\ starter[a].pc = "cas"
  /\ IF run[r].status = "queued"
     THEN /\ run' = [run EXCEPT ![r].status = "running"]
          /\ starter' = [starter EXCEPT ![a].pc = "wake"]
          /\ UNCHANGED exec
     ELSE StartNext(a, starter[a].claimed) /\ UNCHANGED run
  /\ UNCHANGED <<wake, issue, paused, stopped, wanted, cancel, sweep, reaper, recon, proc,
                 booting, events>>

ClaimWake(a) ==
  /\ starter[a].pc = "wake"
  /\ wake' = [wake EXCEPT ![run[Claiming(a)].wake].status = "claimed"]
  /\ starter' = [starter EXCEPT ![a].pc = "stamp"]
  /\ UNCHANGED <<run, issue, paused, stopped, wanted, exec, cancel, sweep, reaper, recon,
                 proc, booting, events>>

\* Lazy locking: the stamp is a no-op when another run holds the lock.
ClaimStamp(a) ==
  LET r == Claiming(a)
      i == run[r].issue
  IN
  /\ starter[a].pc = "stamp"
  /\ issue' = IF issue[i].exec \in {NoRun, r}
              THEN [issue EXCEPT ![i] = LockedBy(@, r, a)] ELSE issue
  /\ StartNext(a, starter[a].claimed \cup {r})
  /\ UNCHANGED <<run, wake, paused, stopped, wanted, cancel, sweep, reaper, recon, proc,
                 booting, events>>

\* Mutant: whatever became of a scheduled retry, it is queued when it is due.
PromoteScheduledAnyway(r) ==
  /\ run[r] # NoRow /\ run[r].attempt > 0
  /\ run' = [run EXCEPT ![r].status = "queued"]
  /\ UNCHANGED <<wake, issue, paused, stopped, wanted, starter, exec, cancel, sweep, reaper,
                 recon, proc, booting, events>>

\* promoteDueScheduledRetries
PromoteScheduled(r) ==
  /\ run[r].status = "scheduled_retry"
  /\ run' = [run EXCEPT ![r].status = "queued"]
  /\ UNCHANGED <<wake, issue, paused, stopped, wanted, starter, exec, cancel, sweep, reaper,
                 recon, proc, booting, events>>

\* Mutant: queued runs are only resumed while the server starts.
ResumeQueuedAtStartup(a) ==
  /\ booting
  /\ QueuedOf(a) # {}
  /\ a \notin wanted /\ starter[a].pc = "idle"
  /\ wanted' = wanted \cup {a}
  /\ UNCHANGED <<run, wake, issue, paused, stopped, starter, exec, cancel, sweep, reaper,
                 recon, proc, booting, events>>

\* resumeQueuedRuns
ResumeQueued(a) ==
  /\ QueuedOf(a) # {}
  /\ a \notin wanted /\ starter[a].pc = "idle"
  /\ wanted' = wanted \cup {a}
  /\ UNCHANGED <<run, wake, issue, paused, stopped, starter, exec, cancel, sweep, reaper,
                 recon, proc, booting, events>>

-----------------------------------------------------------------------------
(***************************************************************************)
(* releaseIssueExecutionAndPromote(r), called with a row of r whose status *)
(* reads "seen".  Nothing happens while another run holds the lock.  Else  *)
(* the lock is dropped and, in this order: the oldest deferred wake whose  *)
(* agent may be invoked becomes a queued run that holds the lock; or the   *)
(* issue is recovered (once) or blocked; or the issue is left alone.  The  *)
(* agent of a new run is asked to start it, and so are the agents in "also" *)
(* that the caller goes on to start.                                       *)
(***************************************************************************)
MayRelease(r) == issue[run[r].issue].exec \in {NoRun, r}

Freed(r) ==
  LET i == run[r].issue IN IF issue[i].exec = r THEN Unlocked(issue[i]) ELSE issue[i]

Promotable(i) == {w \in Deferred(i) : wake[w].agent \notin paused}

\* Deferred wakes ahead of the promoted one fail: their agents are paused.
PassedOver(i) ==
  {w \in Deferred(i) : Promotable(i) = {} \/ w < Oldest(Promotable(i))}

WakesFailed(i) == [w \in Wakes |->
  IF w \in PassedOver(i) THEN [wake[w] EXCEPT !.status = "failed"] ELSE wake[w]]

\* A deferred comment reopens a finished issue.
Reopened(row, w) ==
  IF wake[w].comment /\ row.status \in {"done", "cancelled"}
  THEN Updated(row, StatusPatch("todo")) ELSE row

ReleasePromote(r, also) ==
  LET i == run[r].issue
      w == Oldest(Promotable(i))
      a == wake[w].agent
  IN
  /\ Promotable(i) # {}
  /\ \E new \in Runs :
       /\ FreshRun(new)
       /\ run' = [run EXCEPT ![new] =
                    [NewRun(a, i, w, wake[w].reason) EXCEPT !.comment = wake[w].comment]]
       /\ wake' = [WakesFailed(i) EXCEPT ![w].status = "queued", ![w].run = new]
       /\ issue' = [issue EXCEPT ![i] = LockedBy(Reopened(Freed(r), w), new, a)]
  /\ wanted' = wanted \cup also \cup {a}

\* The run was the assignee's, it failed, and nothing else will run the issue.
NeedsRecovery(r, seen) ==
  LET i == run[r].issue IN
  /\ issue[i].status \in {"todo", "in_progress"}
  /\ issue[i].assignee = run[r].agent
  /\ seen \in Unsuccessful
  /\ LiveRunsOf(i) \ {r} = {}

MustBlock(r, seen) ==
  \/ run[r].agent \in paused
  \/ RecoveryFailed(r, seen, RecoveryReason(issue[run[r].issue].status))

\* The raw UPDATE leaves checkoutRunId in place.
ReleaseBlock(r, seen, also) ==
  LET i == run[r].issue IN
  /\ Promotable(i) = {} /\ NeedsRecovery(r, seen) /\ MustBlock(r, seen)
  /\ wake' = WakesFailed(i)
  /\ issue' = [issue EXCEPT ![i] = [Freed(r) EXCEPT !.status = "blocked"]]
  /\ wanted' = wanted \cup also
  /\ UNCHANGED run

ReleaseRecover(r, seen, also) ==
  LET i == run[r].issue
      reason == RecoveryReason(issue[i].status)
      a == run[r].agent
  IN
  /\ Promotable(i) = {} /\ NeedsRecovery(r, seen) /\ ~MustBlock(r, seen)
  /\ \E new \in Runs, w \in Wakes :
       /\ FreshRun(new) /\ FreshWake(w)
       /\ run' = [run EXCEPT ![new] = NewRun(a, i, w, reason)]
       /\ wake' = [WakesFailed(i) EXCEPT ![w] = NewWake(a, i, "queued", new, reason, FALSE)]
       /\ issue' = [issue EXCEPT ![i] = LockedBy(Freed(r), new, a)]
  /\ wanted' = wanted \cup also \cup {a}

ReleaseOnly(r, seen, also) ==
  LET i == run[r].issue IN
  /\ Promotable(i) = {} /\ ~NeedsRecovery(r, seen)
  /\ wake' = WakesFailed(i)
  /\ issue' = [issue EXCEPT ![i] = Freed(r)]
  /\ wanted' = wanted \cup also
  /\ UNCHANGED run

Release(r, seen, also) ==
  \/ /\ ~MayRelease(r)
     /\ wanted' = wanted \cup also
     /\ UNCHANGED <<run, wake, issue>>
  \/ MayRelease(r) /\ \/ ReleasePromote(r, also)
                      \/ ReleaseBlock(r, seen, also)
                      \/ ReleaseRecover(r, seen, also)
                      \/ ReleaseOnly(r, seen, also)

\* A retry of run r: the issue's lock moves to it only if r still holds the lock.
InsertRetry(r, row) ==
  LET i == run[r].issue IN
  \E new \in Runs, w \in Wakes :
    InsertRun(new, w, [row EXCEPT !.wake = w], issue[i], issue[i].exec = r)

-----------------------------------------------------------------------------
(***************************************************************************)
(* executeRun(r), started by the claim and not awaited by it.              *)
(***************************************************************************)

\* The run row is read again; a run that was cancelled meanwhile is not executed.
ExecBegin(r) ==
  /\ exec[r].pc = "begin"
  /\ exec' = [exec EXCEPT ![r].pc = IF Live(r) THEN "checkout" ELSE "none"]
  /\ UNCHANGED <<run, wake, issue, paused, stopped, wanted, starter, cancel, sweep, reaper,
                 recon, proc, booting, events>>

\* shouldAutoCheckoutIssueForWake, apart from the wake's reason.
MayAutoCheckout(r) ==
  LET row == issue[run[r].issue] IN
  /\ row.assignee = run[r].agent
  /\ row.ready
  /\ row.status \in {"todo", "backlog", "blocked", "awaiting_human", "in_progress"}

\* issues.checkout for the run; a conflict is caught and changes nothing but the
\* stale execution lock (clearExecutionRunIfTerminal).
AutoCheckedOut(r) ==
  LET i == run[r].issue
      a == run[r].agent
      row == IF issue[i].exec # NoRun /\ Dead(issue[i].exec) THEN Unlocked(issue[i]) ELSE issue[i]
  IN  IF CheckoutMatches(row, a, r, {"todo", "backlog", "blocked", "awaiting_human"})
      THEN CheckedOut(row, a, r)
      ELSE IF UnownedMatches(row, a, r) THEN Adopted(row, r)
      ELSE IF /\ row.checkout \notin {NoRun, r}
              /\ Dead(row.checkout)
              /\ StaleMatches(row, a, row.checkout)
           THEN Adopted(row, r)
      ELSE row

\* Some wake reasons (a mention, an execution review) never check the issue out.
ExecCheckout(r) ==
  /\ exec[r].pc = "checkout"
  /\ \/ UNCHANGED issue
     \/ MayAutoCheckout(r) /\ issue' = [issue EXCEPT ![run[r].issue] = AutoCheckedOut(r)]
  /\ exec' = [exec EXCEPT ![r].pc = IF run[r].agent \in LocalAgents THEN "spawn" ELSE "adapter"]
  /\ UNCHANGED <<run, wake, paused, stopped, wanted, starter, cancel, sweep, reaper, recon,
                 proc, booting, events>>

\* A local adapter starts its child process, which is recorded in the run row.
ExecSpawn(r) ==
  /\ exec[r].pc = "spawn"
  /\ run' = [run EXCEPT ![r].pid = TRUE]
  /\ proc' = proc \cup {r}
  /\ exec' = [exec EXCEPT ![r].pc = "adapter"]
  /\ UNCHANGED <<wake, issue, paused, stopped, wanted, starter, cancel, sweep, reaper, recon,
                 booting, events>>

\* deriveHeartbeatRunOutcome: a status that is terminal already wins.
DerivedOutcomes(r) == IF Dead(r) THEN {run[r].status} ELSE Outcomes

ExecReturn(r) ==
  /\ exec[r].pc = "adapter"
  /\ \E o \in DerivedOutcomes(r) : exec' = [exec EXCEPT ![r] = [pc |-> "persist", outcome |-> o]]
  /\ proc' = proc \ {r}
  /\ UNCHANGED <<run, wake, issue, paused, stopped, wanted, starter, cancel, sweep, reaper,
                 recon, booting, events>>

\* The adapter, or the setup before it, throws: both catch blocks write "failed".
ExecThrow(r) ==
  /\ Event("throw")
  /\ exec[r].pc \in {"spawn", "adapter"}
  /\ exec' = [exec EXCEPT ![r] = [pc |-> "persist", outcome |-> "threw"]]
  /\ proc' = proc \ {r}
  /\ UNCHANGED <<run, wake, issue, paused, stopped, wanted, starter, cancel, sweep, reaper,
                 recon, booting>>

Status(outcome) == IF outcome = "threw" THEN "failed" ELSE outcome

\* setRunStatus overwrites whatever the status is by now.
ExecPersist(r) ==
  /\ exec[r].pc = "persist"
  /\ run' = [run EXCEPT ![r].status = Status(exec[r].outcome)]
  /\ exec' = [exec EXCEPT ![r].pc = "wake"]
  /\ UNCHANGED <<wake, issue, paused, stopped, wanted, starter, cancel, sweep, reaper, recon,
                 proc, booting, events>>

\* Mutant: the run's status is written to the wake as it is.
ExecWakeUnmapped(r) ==
  /\ exec[r].pc = "wake"
  /\ wake' = [wake EXCEPT ![run[r].wake].status = Status(exec[r].outcome)]
  /\ exec' = [exec EXCEPT ![r].pc = "comment"]
  /\ UNCHANGED <<run, issue, paused, stopped, wanted, starter, cancel, sweep, reaper, recon,
                 proc, booting, events>>

ExecWake(r) ==
  LET s == Status(exec[r].outcome) IN
  /\ exec[r].pc = "wake"
  /\ wake' = [wake EXCEPT ![run[r].wake].status = IF s = "succeeded" THEN "completed" ELSE s]
  /\ \/ exec[r].outcome = "failed" /\ Event("transient")
        /\ exec' = [exec EXCEPT ![r].pc = "retry"]
     \/ exec' = [exec EXCEPT ![r].pc = "comment"] /\ UNCHANGED events
  /\ UNCHANGED <<run, issue, paused, stopped, wanted, starter, cancel, sweep, reaper, recon,
                 proc, booting>>

\* scheduleBoundedRetryForRun after a transient upstream failure, while attempts last.
ExecRetry(r) ==
  /\ exec[r].pc = "retry"
  /\ exec' = [exec EXCEPT ![r].pc = "comment"]
  /\ IF run[r].attempt < RetryDelays
     THEN InsertRetry(r, [NewRun(run[r].agent, run[r].issue, NoWake, "transient_failure")
                            EXCEPT !.status = "scheduled_retry",
                                   !.attempt = run[r].attempt + 1,
                                   !.comment = run[r].comment])
     ELSE UNCHANGED <<run, wake, issue>>
  /\ UNCHANGED <<paused, stopped, wanted, starter, cancel, sweep, reaper, recon, proc,
                 booting, events>>

\* Mutant: a run whose lock went to a retry is asked for its comment all the same.
OwesCommentAnyway(r) ==
  /\ run[r].reason # "missing_issue_comment"
  /\ ~\E w \in Deferred(run[r].issue) : wake[w].agent = run[r].agent /\ wake[w].comment

\* finalizeIssueCommentPolicy: a run that owes a comment is followed by one more run,
\* which takes over its lock, unless a deferred comment wake will run anyway.
OwesComment(r) ==
  /\ run[r].reason # "missing_issue_comment"
  /\ ~\E w \in Deferred(run[r].issue) : wake[w].agent = run[r].agent /\ wake[w].comment
  /\ issue[run[r].issue].exec = r

ExecComment(r) ==
  /\ exec[r].pc = "comment"
  /\ exec' = [exec EXCEPT ![r].pc = "release"]
  /\ \/ UNCHANGED <<run, wake, issue, events>>
     \/ /\ Event("silent")
        /\ OwesComment(r)
        /\ InsertRetry(r, [NewRun(run[r].agent, run[r].issue, NoWake, "missing_issue_comment")
                             EXCEPT !.comment = run[r].comment])
  /\ UNCHANGED <<paused, stopped, wanted, starter, cancel, sweep, reaper, recon, proc, booting>>

\* Mutant: a run that succeeded is not released.
ExecReleaseUnsuccessful(r) ==
  /\ exec[r].pc = "release"
  /\ IF Status(exec[r].outcome) \in Unsuccessful
     THEN Release(r, Status(exec[r].outcome), {run[r].agent})
     ELSE wanted' = wanted \cup {run[r].agent} /\ UNCHANGED <<run, wake, issue>>
  /\ exec' = [exec EXCEPT ![r] = NotExecuting]
  /\ UNCHANGED <<paused, stopped, starter, cancel, sweep, reaper, recon, proc, booting, events>>

\* The release, and the startNextQueuedRunForAgent of the finally block.
ExecRelease(r) ==
  /\ exec[r].pc = "release"
  /\ Release(r, Status(exec[r].outcome), {run[r].agent})
  /\ exec' = [exec EXCEPT ![r] = NotExecuting]
  /\ UNCHANGED <<paused, stopped, starter, cancel, sweep, reaper, recon, proc, booting, events>>

-----------------------------------------------------------------------------
(***************************************************************************)
(* Cancellation.  cancelRunInternal kills the child, then writes the run,  *)
(* then the wake, then releases.  cancelActiveForAgentInternal (a pause)   *)
(* lists the agent's runs and, one after another, writes the run and the   *)
(* wake, kills the child and releases with the row it listed, whose status *)
(* is not terminal.                                                        *)
(***************************************************************************)
CancelRequest(r) ==
  /\ Event("cancel")
  /\ run[r] # NoRow /\ Live(r)
  /\ cancel[r].pc = "none"
  /\ cancel' = [cancel EXCEPT ![r] = [pc |-> "kill", by |-> "request"]]
  /\ UNCHANGED <<run, wake, issue, paused, stopped, wanted, starter, exec, sweep, reaper,
                 recon, proc, booting>>

\* Mutant: only the running runs of the paused agent are cancelled.
PauseRunning(a) ==
  /\ Event("pause")
  /\ a \notin paused /\ sweep = {}
  /\ paused' = paused \cup {a}
  /\ sweep' = RunningOf(a)
  /\ UNCHANGED <<run, wake, issue, stopped, wanted, starter, exec, cancel, reaper, recon,
                 proc, booting>>

Pause(a) ==
  /\ Event("pause")
  /\ a \notin paused /\ sweep = {}
  /\ paused' = paused \cup {a}
  /\ sweep' = {r \in Runs : run[r] # NoRow /\ run[r].agent = a /\ Live(r)}
  /\ UNCHANGED <<run, wake, issue, stopped, wanted, starter, exec, cancel, reaper, recon,
                 proc, booting>>

Resume(a) ==
  /\ a \in paused
  /\ paused' = paused \ {a}
  /\ UNCHANGED <<run, wake, issue, stopped, wanted, starter, exec, cancel, sweep, reaper,
                 recon, proc, booting, events>>

SweepNext(r) ==
  /\ r \in sweep
  /\ cancel[r].pc = "none"
  /\ \A q \in Runs : cancel[q].by # "sweep"
  /\ sweep' = sweep \ {r}
  /\ cancel' = [cancel EXCEPT ![r] = [pc |-> "status", by |-> "sweep"]]
  /\ UNCHANGED <<run, wake, issue, paused, stopped, wanted, starter, exec, reaper, recon,
                 proc, booting, events>>

CancelKill(r) ==
  /\ cancel[r].pc = "kill"
  /\ proc' = proc \ {r}
  /\ cancel' = [cancel EXCEPT ![r].pc = IF cancel[r].by = "sweep" THEN "release" ELSE "status"]
  /\ UNCHANGED <<run, wake, issue, paused, stopped, wanted, starter, exec, sweep, reaper,
                 recon, booting, events>>

CancelStatus(r) ==
  /\ cancel[r].pc = "status"
  /\ run' = [run EXCEPT ![r].status = "cancelled"]
  /\ cancel' = [cancel EXCEPT ![r].pc = "wake"]
  /\ UNCHANGED <<wake, issue, paused, stopped, wanted, starter, exec, sweep, reaper, recon,
                 proc, booting, events>>

\* Mutant: the wake of the cancelled run is forgotten.
CancelWakeForgotten(r) ==
  /\ cancel[r].pc = "wake"
  /\ cancel' = [cancel EXCEPT ![r].pc = IF cancel[r].by = "sweep" THEN "kill" ELSE "release"]
  /\ UNCHANGED <<run, wake, issue, paused, stopped, wanted, starter, exec, sweep, reaper,
                 recon, proc, booting, events>>

CancelWake(r) ==
  /\ cancel[r].pc = "wake"
  /\ wake' = [wake EXCEPT ![run[r].wake].status = "cancelled"]
  /\ cancel' = [cancel EXCEPT ![r].pc = IF cancel[r].by = "sweep" THEN "kill" ELSE "release"]
  /\ UNCHANGED <<run, issue, paused, stopped, wanted, starter, exec, sweep, reaper, recon,
                 proc, booting, events>>

\* Mutant: the cancellation leaves the issue's lock and its deferred wakes alone.
CancelReleaseNothing(r) ==
  /\ cancel[r].pc = "release"
  /\ wanted' = wanted \cup {run[r].agent}
  /\ cancel' = [cancel EXCEPT ![r] = NoCancel]
  /\ UNCHANGED <<run, wake, issue, paused, stopped, starter, exec, sweep, reaper, recon, proc,
                 booting, events>>

\* cancelRunInternal goes on to start the agent's next run.  Called by the claim, it
\* awaits a start lock that its own caller holds until it returns: pc "next" has no step.
CancelRelease(r) ==
  LET by == cancel[r].by IN
  /\ cancel[r].pc = "release"
  /\ Release(r, IF by = "sweep" THEN "running" ELSE "cancelled",
             IF by = "sweep" THEN {} ELSE {run[r].agent})
  /\ cancel' = [cancel EXCEPT ![r] = IF by = "claim" THEN [@ EXCEPT !.pc = "next"] ELSE NoCancel]
  /\ UNCHANGED <<paused, stopped, starter, exec, sweep, reaper, recon, proc, booting, events>>

\* A budget hard stop in force for the agent (company, agent or project scope), and its
\* end.  The runs are cancelled by CancelRequest.
BudgetStop(a) ==
  /\ Event("budget")
  /\ a \notin stopped
  /\ stopped' = stopped \cup {a}
  /\ UNCHANGED <<run, wake, issue, paused, wanted, starter, exec, cancel, sweep, reaper,
                 recon, proc, booting>>

BudgetResume(a) ==
  /\ a \in stopped
  /\ stopped' = stopped \ {a}
  /\ UNCHANGED <<run, wake, issue, paused, wanted, starter, exec, cancel, sweep, reaper,
                 recon, proc, booting, events>>

\* cancelPendingWakeupsForBudgetScope: wakes that have no run yet.
CancelPendingWakes(a) ==
  LET pending == {w \in Wakes : /\ wake[w] # NoRow
                                /\ wake[w].agent = a /\ wake[w].run = NoRun
                                /\ wake[w].status \in {"queued", "deferred_issue_execution"}}
  IN
  /\ a \in stopped
  /\ pending # {}
  /\ wake' = [w \in Wakes |-> IF w \in pending THEN [wake[w] EXCEPT !.status = "cancelled"]
                              ELSE wake[w]]
  /\ UNCHANGED <<run, issue, paused, stopped, wanted, starter, exec, cancel, sweep, reaper,
                 recon, proc, booting, events>>

-----------------------------------------------------------------------------
(***************************************************************************)
(* Crash, orphans and stranded issues.                                     *)
(***************************************************************************)

\* The server process dies and starts again: every handler is gone, some children
\* survive it.
Crash ==
  /\ Event("crash")
  /\ \E survivors \in SUBSET proc : proc' = survivors
  /\ wanted' = {} /\ sweep' = {}
  /\ starter' = [a \in Agents |-> Idle]
  /\ exec' = [r \in Runs |-> NotExecuting]
  /\ cancel' = [r \in Runs |-> NoCancel]
  /\ reaper' = [pc |-> "none", run |-> NoRun, list |-> {}]
  /\ recon' = NoRecon
  /\ booting' = TRUE
  /\ UNCHANGED <<run, wake, issue, paused, stopped>>

\* A child that outlived its server ends.
OrphanExits(r) ==
  /\ r \in proc
  /\ exec[r].pc # "adapter"
  /\ proc' = proc \ {r}
  /\ UNCHANGED <<run, wake, issue, paused, stopped, wanted, starter, exec, cancel, sweep,
                 reaper, recon, booting, events>>

\* A handler of this server is about to write the run: its row is fresh.
InHand(r) ==
  \/ exec[r].pc # "none"
  \/ cancel[r].pc # "none"
  \/ \E a \in Agents : /\ starter[a].pc # "idle"
                       /\ r \in starter[a].claimed \/ Claiming(a) = r

\* Mutant: only runs that recorded a child process are looked for.
ReapScanWithPid ==
  LET orphans == {r \in RunsWithStatus("running") :
                    run[r].pid /\ ~InMemory(r) /\ (booting \/ ~InHand(r))}
  IN
  /\ reaper.pc = "none" /\ reaper.list = {}
  /\ booting \/ orphans # {}
  /\ reaper' = [reaper EXCEPT !.list = orphans]
  /\ booting' = FALSE
  /\ UNCHANGED <<run, wake, issue, paused, stopped, wanted, starter, exec, cancel, sweep,
                 recon, proc, events>>

\* The scan for running rows.  At startup every row this process does not execute is
\* an orphan; later only rows nobody has touched for five minutes.  One pass at a time: a
\* limit of the model, not of the timer.
ReapScan ==
  LET orphans == {r \in RunsWithStatus("running") : ~InMemory(r) /\ (booting \/ ~InHand(r))}
  IN
  /\ reaper.pc = "none" /\ reaper.list = {}
  /\ booting \/ orphans # {}
  /\ reaper' = [reaper EXCEPT !.list = orphans]
  /\ booting' = FALSE
  /\ UNCHANGED <<run, wake, issue, paused, stopped, wanted, starter, exec, cancel, sweep,
                 recon, proc, events>>

\* Mutant: whether the child is alive is not looked at.
ReapExamineBlindly(r) ==
  /\ reaper.pc = "none" /\ r \in reaper.list
  /\ ~InMemory(r)
  /\ run' = [run EXCEPT ![r].status = "failed"]
  /\ reaper' = [pc |-> "wake", run |-> r, list |-> reaper.list \ {r}]
  /\ UNCHANGED <<wake, issue, paused, stopped, wanted, starter, exec, cancel, sweep, recon,
                 proc, booting, events>>

\* The listed row is old by now; only the memory and the child are looked at again.
\* A child that is alive has the row written back as running (detached).
ReapExamine(r) ==
  /\ reaper.pc = "none" /\ r \in reaper.list
  /\ \/ /\ InMemory(r)
        /\ reaper' = [reaper EXCEPT !.list = @ \ {r}]
        /\ UNCHANGED run
     \/ /\ ~InMemory(r) /\ r \in proc
        /\ run' = IF run[r].detached THEN run
                  ELSE [run EXCEPT ![r].status = "running", ![r].detached = TRUE]
        /\ reaper' = [reaper EXCEPT !.list = @ \ {r}]
     \/ /\ ~InMemory(r) /\ r \notin proc
        /\ run' = [run EXCEPT ![r].status = "failed"]
        /\ reaper' = [pc |-> "wake", run |-> r, list |-> reaper.list \ {r}]
  /\ UNCHANGED <<wake, issue, paused, stopped, wanted, starter, exec, cancel, sweep, recon,
                 proc, booting, events>>

ReapWake ==
  LET r == reaper.run IN
  /\ reaper.pc = "wake"
  /\ wake' = [wake EXCEPT ![run[r].wake].status = "failed"]
  /\ reaper' = [reaper EXCEPT !.pc = IF run[r].pid /\ run[r].lost < 1 THEN "retry" ELSE "release"]
  /\ UNCHANGED <<run, issue, paused, stopped, wanted, starter, exec, cancel, sweep, recon,
                 proc, booting, events>>

\* enqueueProcessLossRetry: no release, the retry takes the place of the lost run.
ReapRetry ==
  LET r == reaper.run IN
  /\ reaper.pc = "retry"
  /\ InsertRetry(r, [NewRun(run[r].agent, run[r].issue, NoWake, "process_lost")
                       EXCEPT !.lost = run[r].lost + 1, !.comment = run[r].comment])
  /\ wanted' = wanted \cup {run[r].agent}
  /\ reaper' = [reaper EXCEPT !.pc = "none", !.run = NoRun]
  /\ UNCHANGED <<paused, stopped, starter, exec, cancel, sweep, recon, proc, booting, events>>

ReapRelease ==
  LET r == reaper.run IN
  /\ reaper.pc = "release"
  /\ Release(r, "failed", {run[r].agent})
  /\ reaper' = [reaper EXCEPT !.pc = "none", !.run = NoRun]
  /\ UNCHANGED <<paused, stopped, starter, exec, cancel, sweep, recon, proc, booting, events>>

\* An issue of an invokable agent with no live run and no deferred wake.
Stranded(i) ==
  /\ issue[i].status \in {"todo", "in_progress"}
  /\ issue[i].assignee \in Agents \ paused
  /\ LiveRunsOf(i) = {} /\ Deferred(i) = {}
  /\ IF issue[i].status = "todo"
     THEN RunsOf(i) # {} /\ run[Latest(RunsOf(i))].status # "succeeded"
     ELSE RunsOf(i) # {} \/ issue[i].checkout # NoRun \/ issue[i].exec # NoRun

ReconcileFind(i) ==
  LET reason == RecoveryReason(issue[i].status)
      last == Latest(RunsOf(i))
      failed == RunsOf(i) # {} /\ RecoveryFailed(last, run[last].status, reason)
  IN
  /\ Event("reconcile")
  /\ recon.pc = "none"
  /\ Stranded(i)
  /\ recon' = [pc |-> IF failed THEN "escalate" ELSE "recover", issue |-> i,
               agent |-> issue[i].assignee, reason |-> reason]
  /\ UNCHANGED <<run, wake, issue, paused, stopped, wanted, starter, exec, cancel, sweep,
                 reaper, proc, booting>>

\* escalateStrandedAssignedIssue: issues.update to blocked, whatever happened since.
ReconcileEscalate ==
  LET i == recon.issue IN
  /\ recon.pc = "escalate"
  /\ issue' = [issue EXCEPT ![i] = Updated(@, StatusPatch("blocked"))]
  /\ recon' = NoRecon
  /\ UNCHANGED <<run, wake, paused, stopped, wanted, starter, exec, cancel, sweep, reaper,
                 proc, booting, events>>

\* enqueueStrandedIssueRecovery; a refusal (pause, budget) ends the pass.
ReconcileRecover ==
  /\ recon.pc = "recover"
  /\ IF recon.agent \in paused \cup stopped
     THEN UNCHANGED <<run, wake, issue, wanted>>
     ELSE Enqueue(recon.agent, recon.issue, FALSE, recon.reason)
  /\ recon' = NoRecon
  /\ UNCHANGED <<paused, stopped, starter, exec, cancel, sweep, reaper, proc, booting, events>>

-----------------------------------------------------------------------------
\* A board user or an agent patches the issue, or one of its blockers opens or closes.
EditIssue(i) ==
  /\ Event("edit")
  /\ \/ \E patch \in {p \in Patches : p.fields # {} /\ p.status \in EditStatuses} :
          /\ PatchAllowed(issue[i], patch)
          /\ issue' = [issue EXCEPT ![i] = Updated(@, patch)]
     \/ issue' = [issue EXCEPT ![i].ready = ~@]
  /\ UNCHANGED <<run, wake, paused, stopped, wanted, starter, exec, cancel, sweep, reaper,
                 recon, proc, booting>>

StarterStep(a) ==
  \/ StartBegin(a)
  \/ ClaimCheck(a)
  \/ ClaimCas(a)
  \/ ClaimWake(a)
  \/ ClaimStamp(a)

ExecStep(r) ==
  \/ ExecBegin(r)
  \/ ExecCheckout(r)
  \/ ExecSpawn(r)
  \/ ExecReturn(r)
  \/ ExecThrow(r)
  \/ ExecPersist(r)
  \/ ExecWake(r)
  \/ ExecRetry(r)
  \/ ExecComment(r)
  \/ ExecRelease(r)

CancelStep(r) ==
  \/ SweepNext(r)
  \/ CancelKill(r)
  \/ CancelStatus(r)
  \/ CancelWake(r)
  \/ CancelRelease(r)

ReaperStep ==
  \/ ReapScan
  \/ \E r \in Runs : ReapExamine(r)
  \/ ReapWake
  \/ ReapRetry
  \/ ReapRelease

ReconStep ==
  \/ \E i \in Issues : ReconcileFind(i)
  \/ ReconcileEscalate
  \/ ReconcileRecover

Environment ==
  \/ \E a \in Agents, i \in Issues, comment \in CommentWakes : WakeAgent(a, i, comment)
  \/ \E r \in Runs : CancelRequest(r) \/ OrphanExits(r)
  \/ \E a \in Agents : Pause(a) \/ Resume(a) \/ BudgetStop(a) \/ BudgetResume(a)
  \/ Crash
  \/ \E i \in Issues : EditIssue(i)

Next ==
  \/ Environment
  \/ \E a \in Agents : StarterStep(a) \/ ResumeQueued(a) \/ CancelPendingWakes(a)
  \/ \E r \in Runs : ExecStep(r) \/ CancelStep(r) \/ PromoteScheduled(r)
  \/ ReaperStep
  \/ ReconStep

Spec == Init /\ [][Next]_vars

(***************************************************************************)
(* A handler that can go on does: its awaited call returns.  Adapters and  *)
(* orphaned children end.  The periodic loop of index.ts keeps resuming    *)
(* queued runs, promoting due retries, reaping and reconciling.  Nothing   *)
(* is assumed of the environment.                                          *)
(***************************************************************************)
FairSpec ==
  /\ Spec
  /\ \A a \in Agents : WF_vars(StarterStep(a)) /\ WF_vars(ResumeQueued(a))
  /\ \A r \in Runs : /\ WF_vars(ExecStep(r)) /\ WF_vars(CancelStep(r))
                      /\ WF_vars(PromoteScheduled(r)) /\ WF_vars(OrphanExits(r))
  /\ WF_vars(ReaperStep) /\ WF_vars(ReconStep)

-----------------------------------------------------------------------------
(* Properties. *)

\* An agent never has two deferred wakes for one issue: later ones are merged.
OneDeferredPerAgent ==
  \A v, w \in Wakes :
    /\ wake[v] # NoRow /\ wake[v].status = "deferred_issue_execution"
    /\ wake[w] # NoRow /\ wake[w].status = "deferred_issue_execution"
    /\ wake[v].agent = wake[w].agent /\ wake[v].issue = wake[w].issue
    => v = w

\* No agent has more running runs than its maxConcurrentRuns, beside those that the reaper
\* has found alive and written back to running (detached): a pause may have cancelled such
\* a run before, and its slot be given to the next one.
Attached(a) == {r \in RunningOf(a) : ~run[r].detached}
SlotLimit == \A a \in Agents : Cardinality(Attached(a)) <= MaxConcurrent[a]

\* A handler will still release the issue of r.
WillRelease(r) ==
  \/ exec[r].pc \notin {"none", "begin"}
  \/ cancel[r].pc \notin {"none", "next"}
  \/ reaper.run = r /\ reaper.pc # "none"

\* The lock of the issue was stamped after the end of a run: it was cancelled between the
\* write of its status by the claim and the claim's stamp.  Nobody will release it.
LockedByCancelled(i) == issue[i].exec # NoRun /\ run[issue[i].exec].status = "cancelled"

\* Somebody has cancelled runs, and the board or the reconciler has dropped locks.
CancelledAndEdited ==
  /\ \E e \in {"cancel", "pause"} : events[e] > 0
  /\ \E e \in {"edit", "reconcile"} : events[e] > 0

\* While the server stays up, a deferred wake is never forgotten: some run of its issue is
\* still to be executed, or a handler of one is on its way to the release that promotes it.
\* Only a request to cancel, or a pause, that has hit a run in the middle of its claim can
\* leave it behind, under the lock of that run or where an edit has dropped such a lock.
DeferredHasReleaser ==
  events["crash"] = 0 => \A i \in Issues : Deferred(i) # {} =>
    \/ \E r \in RunsOf(i) : Live(r) \/ WillRelease(r)
    \/ LockedByCancelled(i) /\ \E e \in {"cancel", "pause"} : events[e] > 0
    \/ CancelledAndEdited

\* While the server stays up, a paused agent whose runs have been swept has none running.
PausedAgentIsIdle ==
  events["crash"] = 0 => \A a \in paused :
    (\A r \in Runs : run[r] # NoRow /\ run[r].agent = a => r \notin sweep /\ cancel[r].pc = "none")
      => RunningOf(a) = {}

\* While the server stays up, a wake that still reads queued has a run that is waiting or
\* being claimed, or whose cancellation is about to write the wake.
QueuedWakeIsLive ==
  events["crash"] = 0 => \A w \in Wakes : wake[w] # NoRow /\ wake[w].status = "queued" =>
    LET r == wake[w].run IN
    r # NoRun /\ run[r].wake = w /\ (Live(r) \/ cancel[r].pc = "wake")

\* A live run that has an issue checked out also holds its execution lock, unless it is a
\* run that the reaper has written back to running (detached).
LiveOwnerHoldsLock ==
  \A i \in Issues : LET owner == issue[i].checkout IN
    owner # NoRun /\ Live(owner) /\ ~run[owner].detached => issue[i].exec = owner

\* An issue that has been woken once and left alone since never has two runs on an execution
\* path, whatever retries and recoveries follow a run.  (Another wake, an edit that drops the
\* lock, a cancellation, a pause, and the passes of the reconciler and of the reaper after a
\* restart come between the handlers of a run, and can add a second successor.)
LeftAlone ==
  /\ events["wake"] <= 1
  /\ \A e \in {"crash", "reconcile", "cancel", "pause", "edit"} : events[e] = 0
OneLiveRun == LeftAlone => \A i \in Issues : Cardinality(LiveRunsOf(i)) <= 1

\* A finished run is never queued, scheduled or running again, unless the reaper, going
\* through a list it has read before, finds its child alive and writes it back to running.
TerminalStaysTerminal ==
  [][\A r \in Runs : run[r].status \in Terminal =>
       \/ run'[r].status \in Terminal
       \/ r \in reaper.list /\ r \in proc /\ run'[r].detached /\ ~run[r].detached]_vars

\* A lost run is only replaced by a retry when its child process is gone.
RetryOnlyWithoutChild ==
  reaper.pc = "retry" => reaper.run \notin proc

\* A run that is running stops being so, even if the server dies under it.
RunEnds ==
  \A r \in Runs : run[r].status = "running" ~> run[r].status # "running"

\* A queued run is claimed, cancelled or reaped.
QueuedIsStarted ==
  \A r \in Runs : run[r].status = "queued" ~> run[r].status # "queued"

\* While the server stays up, a deferred wake is promoted, failed or cancelled, unless the
\* issue's lock is one that nobody will release.
DeferredSettles ==
  \A i \in Issues :
    (Deferred(i) # {} /\ events["crash"] = 0)
      ~> (Deferred(i) = {} \/ events["crash"] > 0 \/ LockedByCancelled(i))

-----------------------------------------------------------------------------
(* Promises of the repository's documents that the code does not keep. *)

\* "A single issue never has more than one active execution owner run (queued|running)
\* at once": already two running ones are possible.
OneRunningPerIssue ==
  \A i \in Issues : Cardinality({r \in RunsOf(i) : run[r].status = "running"}) <= 1

\* "Bizbox queues one automatic continuation wake; if that continuation wake also
\* finishes and the issue is still stranded", it is blocked: a continuation run is not
\* followed by a second one.
ContinuesOnce ==
  [][\A i \in Issues, r \in Runs :
       /\ RunsOf(i) # {} /\ run[Latest(RunsOf(i))].reason = "issue_continuation_needed"
       /\ run[r] = NoRow /\ run'[r] # NoRow
       => run'[r].reason # "issue_continuation_needed"]_vars

\* A deferred wake survives a crash: recovery closes "the gap where issue state survives
\* a crash but the wake/run path does not".
DeferredSurvivesCrash ==
  \A i \in Issues : Deferred(i) # {} ~> Deferred(i) = {}
==============================================================================
