------------------------------ MODULE IssueRow ------------------------------
(***************************************************************************)
(* The columns of one issues row that decide who may work on it, and the   *)
(* UPDATE statements of services/issues.ts on them.  Each operator is one  *)
(* statement: its WHERE clause is the "...Matches" operator, its SET clause *)
(* the operator that returns the new row.  RunExecution and IssueCheckout  *)
(* put these statements into the handlers that issue them.                 *)
(*                                                                         *)
(*   status    issues.status                                               *)
(*   assignee  issues.assigneeAgentId, or NoAgent                          *)
(*   checkout  issues.checkoutRunId: the run that owns the issue           *)
(*   exec      issues.executionRunId: the run that is live on the issue    *)
(*   key       issues.executionAgentNameKey: normalised name of the agent  *)
(*             that holds exec; checkout and adoption leave it alone       *)
(*   ready     every "blocks" predecessor of the issue is done             *)
(***************************************************************************)
EXTENDS HeartbeatStatus, Naturals

CONSTANTS
  Agents,      \* the company's agents
  NoAgent,     \* assigneeAgentId IS NULL
  Issues,      \* the issues that are worked on
  NameKeys,    \* normalised agent names
  NoKey,       \* executionAgentNameKey IS NULL
  NameKey,     \* normalizeAgentNameKey(agent.name), for each agent
  MaxRuns      \* bound: heartbeat_runs rows ever created

ASSUME IssueRowAssumption ==
  /\ NoAgent \notin Agents
  /\ NoKey \notin NameKeys
  /\ NameKey \in [Agents -> NameKeys]
  /\ MaxRuns \in Nat

Runs == 1 .. MaxRuns     \* in the order of creation (createdAt)
NoRun == 0               \* a run column that IS NULL

Row == [status : IssueStatuses, assignee : Agents \cup {NoAgent},
        checkout : Runs \cup {NoRun}, exec : Runs \cup {NoRun},
        key : NameKeys \cup {NoKey}, ready : BOOLEAN]

\* Drop the execution lock: executionRunId, executionAgentNameKey, executionLockedAt.
Unlocked(row) == [row EXCEPT !.exec = NoRun, !.key = NoKey]

\* Give the execution lock to run r of agent a.
LockedBy(row, r, a) == [row EXCEPT !.exec = r, !.key = NameKey[a]]

(***************************************************************************)
(* issues.update with a patch that names the status, the assignee or both. *)
(* An issue is only put in progress with an assignee and no open blocker;  *)
(* a patch that leaves in_progress or changes the assignee drops both      *)
(* locks.  The row that is asked is the one update has read; the UPDATE    *)
(* comes later and has no condition.                                       *)
(***************************************************************************)
Patches == [fields : SUBSET {"status", "assignee"}, status : IssueStatuses,
            assignee : Agents \cup {NoAgent}]

StatusPatch(s) == [fields |-> {"status"}, status |-> s, assignee |-> NoAgent]

PatchAllowed(row, p) ==
  "status" \in p.fields /\ p.status = "in_progress" =>
    /\ row.ready
    /\ (IF "assignee" \in p.fields THEN p.assignee ELSE row.assignee) # NoAgent

DropsLocks(row, p) ==
  \/ "status" \in p.fields /\ p.status # "in_progress"
  \/ "assignee" \in p.fields /\ p.assignee # row.assignee

PatchedFields(row, p) ==
  [row EXCEPT !.status = IF "status" \in p.fields THEN p.status ELSE @,
              !.assignee = IF "assignee" \in p.fields THEN p.assignee ELSE @]

\* Mutant: only the execution lock is dropped.
PatchedKeepingCheckout(row, p, drops) ==
  IF drops THEN Unlocked(PatchedFields(row, p)) ELSE PatchedFields(row, p)

Patched(row, p, drops) ==
  IF drops THEN [Unlocked(PatchedFields(row, p)) EXCEPT !.checkout = NoRun]
  ELSE PatchedFields(row, p)

\* The whole of update, where nothing comes between its read and its UPDATE.
Updated(row, p) == Patched(row, p, DropsLocks(row, p))

(***************************************************************************)
(* issues.checkout by run r of agent a.                                    *)
(***************************************************************************)
CheckoutMatches(row, a, r, expected) ==
  /\ row.status \in expected
  /\ \/ row.assignee = NoAgent
     \/ row.assignee = a /\ row.checkout \in {NoRun, r}
  /\ row.exec \in {NoRun, r}

\* Mutant: the checkout does not take the execution lock.
CheckedOutUnlocked(row, a, r) ==
  [row EXCEPT !.status = "in_progress", !.assignee = a, !.checkout = r]

\* Mutant: a status that the vocabulary does not have.
CheckedOutActive(row, a, r) ==
  [row EXCEPT !.status = "active", !.assignee = a, !.checkout = r, !.exec = r]

CheckedOut(row, a, r) ==
  [row EXCEPT !.status = "in_progress", !.assignee = a, !.checkout = r, !.exec = r]

\* The checkout lock is free: adoptUnownedCheckoutRun and the same UPDATE in checkout.
UnownedMatches(row, a, r) ==
  /\ row.status = "in_progress"
  /\ row.assignee = a
  /\ row.checkout = NoRun
  /\ row.exec \in {NoRun, r}

\* adoptStaleCheckoutRun: the checkout run that was read is still in place.
\* The statement does not look at executionRunId.
StaleMatches(row, a, stale) ==
  /\ row.status = "in_progress"
  /\ row.assignee = a
  /\ row.checkout = stale

\* Mutant: the adoption does not take the execution lock.
AdoptedUnlocked(row, r) == [row EXCEPT !.checkout = r]

Adopted(row, r) == [row EXCEPT !.checkout = r, !.exec = r]
==============================================================================
