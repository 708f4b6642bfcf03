--------------------------- MODULE HeartbeatStatus ---------------------------
(***************************************************************************)
(* The status vocabularies that heartbeat.ts and issues.ts share: heartbeat *)
(* runs, wakeup requests and issues, and the sub-sets of run statuses the   *)
(* guards of both services are written with.                               *)
(***************************************************************************)

\* EXECUTION_PATH_HEARTBEAT_RUN_STATUSES (CANCELLABLE_... has the same value):
\* the run is, or will be, the one working on its issue.
ExecutionPath == {"queued", "running", "scheduled_retry"}

\* HEARTBEAT_RUN_TERMINAL_STATUSES
Terminal == {"succeeded", "failed", "cancelled", "timed_out"}

\* UNSUCCESSFUL_HEARTBEAT_RUN_TERMINAL_STATUSES
Unsuccessful == {"failed", "cancelled", "timed_out"}

RunStatuses == ExecutionPath \cup Terminal

\* The statuses an agent_wakeup_requests row takes.  A request that is refused
\* ("skipped") or merged into a run ("coalesced") leaves a row that nothing reads
\* again: it has no row in the model.
WakeStatuses == {"queued", "deferred_issue_execution", "claimed",
                 "completed", "failed", "cancelled", "timed_out"}

IssueStatuses == {"backlog", "todo", "in_progress", "in_review",
                  "awaiting_human", "blocked", "done", "cancelled"}

\* The retryReason a run carries in its context snapshot.
RetryReasons == {"none", "assignment_recovery", "issue_continuation_needed",
                 "process_lost", "transient_failure", "missing_issue_comment"}
==============================================================================
