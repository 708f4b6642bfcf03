---------------------------- MODULE IssueCheckout ----------------------------
(***************************************************************************)
(* checkout, assertCheckoutOwner and release of server/src/services/       *)
(* issues.ts, called by runs at the same time, on one issue.  A call is a  *)
(* sequence of SQL statements with an await between any two: each is an    *)
(* action, and "seen" is the checkoutRunId the call has read and relies on.*)
(* The heartbeat (claim and release of the execution lock, end of a run)   *)
(* and the board (update, which also reads before it writes,               *)
(* adminForceRelease, blockers) change the row at any time, and the reaper *)
(* may write a run that is over back to running.                           *)
(***************************************************************************)
EXTENDS IssueRow, FiniteSets

CONSTANTS
  AgentOf,         \* the agent of each run
  Tracked,         \* runs with a local child, whose pid the reaper looks up
  ExpectedSets,    \* bound: the expectedStatuses that checkouts are called with
  BoardStatuses,   \* bound: the statuses the board gives the issue
  MaxCalls,        \* bound: calls made
  MaxBoard         \* bound: changes by the board

ASSUME IssueCheckoutAssumption ==
  /\ AgentOf \in [Runs -> Agents] /\ Tracked \subseteq Runs
  /\ ExpectedSets \subseteq SUBSET IssueStatuses
  /\ BoardStatuses \subseteq IssueStatuses
  /\ MaxCalls \in Nat /\ MaxBoard \in Nat

VARIABLES
  row,     \* the issue
  alive,   \* runs whose heartbeat_runs row is not terminal
  revived, \* those of them that have been over, and were written back to running
  call,    \* the call each run is making, or what its last one has answered
  edit,    \* the update of the board between its read and its UPDATE
  calls,   \* number of calls made
  board    \* number of changes by the board

vars == <<row, alive, revived, call, edit, calls, board>>

Ops == {"checkout", "assert", "release"}

Call == [op : Ops \cup {"none"},
         pc : {"done", "clear", "blockers", "cas", "read", "unowned", "stale", "adopt", "write"},
         expected : SUBSET IssueStatuses,
         seen : Runs \cup {NoRun},
         reply : {"none", "ok", "conflict", "unprocessable"}]

\* drops: what update made of the row it read; fields = {}: no update is under way
Edit == [patch : Patches, drops : BOOLEAN]

TypeOK ==
  /\ row \in Row
  /\ alive \subseteq Runs /\ revived \subseteq alive
  /\ call \in [Runs -> Call]
  /\ edit \in Edit
  /\ calls \in 0 .. MaxCalls
  /\ board \in 0 .. MaxBoard

NotCalled == [op |-> "none", pc |-> "done", expected |-> {}, seen |-> NoRun, reply |-> "none"]

NoEdit == [patch |-> [StatusPatch("todo") EXCEPT !.fields = {}], drops |-> FALSE]

Init ==
  /\ row = [status |-> "todo", assignee |-> NoAgent, checkout |-> NoRun, exec |-> NoRun,
            key |-> NoKey, ready |-> TRUE]
  /\ alive = Runs /\ revived = {}
  /\ call = [r \in Runs |-> NotCalled]
  /\ edit = NoEdit
  /\ calls = 0 /\ board = 0

-----------------------------------------------------------------------------
(* The calls. *)

Goto(r, pc) == call' = [call EXCEPT ![r].pc = pc]
Saw(r, pc) == call' = [call EXCEPT ![r].pc = pc, ![r].seen = row.checkout]
Reply(r, reply) == call' = [call EXCEPT ![r] = [NotCalled EXCEPT !.reply = reply]]

At(r, ops, pc) == call[r].op \in ops /\ call[r].pc = pc

\* A run may call even after it has ended: a request can be late.
Begin(r) ==
  /\ call[r].pc = "done"
  /\ calls < MaxCalls /\ calls' = calls + 1
  /\ \E op \in Ops, expected \in ExpectedSets :
       call' = [call EXCEPT ![r] =
         [NotCalled EXCEPT !.op = op, !.pc = "clear",
                           !.expected = IF op = "checkout" THEN expected ELSE {}]]
  /\ UNCHANGED <<row, alive, revived, edit, board>>

\* clearExecutionRunIfTerminal, one transaction
Clear(r) ==
  /\ At(r, Ops, "clear")
  /\ row' = IF row.exec # NoRun /\ row.exec \notin alive THEN Unlocked(row) ELSE row
  /\ Goto(r, IF call[r].op = "checkout" THEN "blockers" ELSE "read")
  /\ UNCHANGED <<alive, revived, edit, calls, board>>

\* An unresolved blocker refuses the checkout.
Blockers(r) ==
  /\ At(r, {"checkout"}, "blockers")
  /\ IF row.ready THEN Goto(r, "cas") ELSE Reply(r, "unprocessable")
  /\ UNCHANGED <<row, alive, revived, edit, calls, board>>

\* The conditional UPDATE.
CheckoutCas(r) ==
  /\ At(r, {"checkout"}, "cas")
  /\ IF CheckoutMatches(row, AgentOf[r], r, call[r].expected)
     THEN row' = CheckedOut(row, AgentOf[r], r) /\ Reply(r, "ok")
     ELSE Goto(r, "read") /\ UNCHANGED row
  /\ UNCHANGED <<alive, revived, edit, calls, board>>

\* What checkout and assertCheckoutOwner make of the row they read.
Owns(r, current) ==
  current.status = "in_progress" /\ current.assignee = AgentOf[r] /\ current.checkout = r
MayBeStale(r, current) ==
  /\ current.status = "in_progress" /\ current.assignee = AgentOf[r]
  /\ current.checkout \notin {NoRun, r}

ReadOwner(r) ==
  /\ At(r, {"checkout", "assert"}, "read")
  /\ IF Owns(r, row) THEN Reply(r, "ok")
     ELSE IF UnownedMatches(row, AgentOf[r], r) THEN Goto(r, "unowned")
     ELSE IF MayBeStale(r, row) THEN Saw(r, "stale")
     ELSE Reply(r, "conflict")
  /\ UNCHANGED <<row, alive, revived, edit, calls, board>>

\* Mutant: the UPDATE relies on what was read.
AdoptUnownedUnconditionally(r) ==
  /\ At(r, {"checkout", "assert"}, "unowned")
  /\ row' = Adopted(row, r) /\ Reply(r, "ok")
  /\ UNCHANGED <<alive, revived, edit, calls, board>>

\* adoptUnownedCheckoutRun, or the same UPDATE in checkout.
AdoptUnowned(r) ==
  /\ At(r, {"checkout", "assert"}, "unowned")
  /\ IF UnownedMatches(row, AgentOf[r], r)
     THEN row' = Adopted(row, r) /\ Reply(r, "ok")
     ELSE Reply(r, "conflict") /\ UNCHANGED row
  /\ UNCHANGED <<alive, revived, edit, calls, board>>

\* Mutant: the run that holds the checkout is not looked up.
StaleAssumed(r) ==
  /\ At(r, Ops, "stale")
  /\ Goto(r, IF call[r].op = "release" THEN "write" ELSE "adopt")
  /\ UNCHANGED <<row, alive, revived, edit, calls, board>>

\* isTerminalOrMissingHeartbeatRun of the checkout run that was read.
Stale(r) ==
  /\ At(r, Ops, "stale")
  /\ IF call[r].seen \in alive THEN Reply(r, "conflict")
     ELSE Goto(r, IF call[r].op = "release" THEN "write" ELSE "adopt")
  /\ UNCHANGED <<row, alive, revived, edit, calls, board>>

\* Mutant: an UPDATE that matched nothing is taken for an adoption.
AdoptStaleUnchecked(r) ==
  /\ At(r, {"checkout", "assert"}, "adopt")
  /\ row' = IF StaleMatches(row, AgentOf[r], call[r].seen) THEN Adopted(row, r) ELSE row
  /\ Reply(r, "ok")
  /\ UNCHANGED <<alive, revived, edit, calls, board>>

\* The UPDATE of adoptStaleCheckoutRun.
AdoptStale(r) ==
  /\ At(r, {"checkout", "assert"}, "adopt")
  /\ IF StaleMatches(row, AgentOf[r], call[r].seen)
     THEN row' = Adopted(row, r) /\ Reply(r, "ok")
     ELSE Reply(r, "conflict") /\ UNCHANGED row
  /\ UNCHANGED <<alive, revived, edit, calls, board>>

\* release reads the row; only the assignee, and of its runs only the one that has
\* checked the issue out, may go on, unless that run is over.
ReadReleased(r) ==
  /\ At(r, {"release"}, "read")
  /\ IF row.assignee \notin {NoAgent, AgentOf[r]} THEN Reply(r, "conflict")
     ELSE IF MayBeStale(r, row) THEN Saw(r, "stale")
     ELSE Goto(r, "write")
  /\ UNCHANGED <<row, alive, revived, edit, calls, board>>

\* The UPDATE has no condition but the issue's id.
ReleaseWrite(r) ==
  /\ At(r, {"release"}, "write")
  /\ row' = [Unlocked(row) EXCEPT !.status = "todo", !.assignee = NoAgent, !.checkout = NoRun]
  /\ Reply(r, "ok")
  /\ UNCHANGED <<alive, revived, edit, calls, board>>

-----------------------------------------------------------------------------
(* The heartbeat and the board. *)

\* claimQueuedRun stamps the execution lock if it is free or the run's own, two awaits after
\* its claim and without a look at the run, which may be over by then.  (So do a wake and a
\* promotion that give the free lock to a run they queue; a retry that is given the lock of
\* a run that is over is HeartbeatRelease and then this.)
ClaimStamp(r) ==
  /\ row.exec \in {NoRun, r}
  /\ row' = LockedBy(row, r, AgentOf[r])
  /\ UNCHANGED <<alive, revived, call, edit, calls, board>>

\* The run reaches a terminal status...
RunEnds(r) ==
  /\ r \in alive
  /\ alive' = alive \ {r} /\ revived' = revived \ {r}
  /\ UNCHANGED <<row, call, edit, calls, board>>

\* ... and the handler that has ended it goes on to releaseIssueExecutionAndPromote, even if
\* the run has been revived: its execution lock is dropped, and an issue that cannot be
\* recovered is blocked by an UPDATE that keeps the checkout.
HeartbeatRelease(r) ==
  /\ r \notin alive \ revived
  /\ row.exec \in {NoRun, r}
  /\ \/ row' = Unlocked(row)
     \/ /\ row.status \in {"todo", "in_progress"} /\ row.assignee = AgentOf[r]
        /\ row' = [Unlocked(row) EXCEPT !.status = "blocked"]
  /\ UNCHANGED <<alive, revived, call, edit, calls, board>>

\* reapOrphanedRuns writes a run back to running when its child is alive.  The row it goes by
\* is one it has read when the run was running; the run may be over since.
ReaperRevives(r) ==
  /\ r \in Tracked \ alive
  /\ alive' = alive \cup {r} /\ revived' = revived \cup {r}
  /\ UNCHANGED <<row, call, edit, calls, board>>

BoardChange == board < MaxBoard /\ board' = board + 1

\* issues.update reads the row, refuses or accepts the patch and decides about the locks...
BoardRead ==
  /\ BoardChange
  /\ edit = NoEdit
  /\ \E patch \in {p \in Patches : p.fields # {} /\ p.status \in BoardStatuses} :
       /\ PatchAllowed(row, patch)
       /\ edit' = [patch |-> patch, drops |-> DropsLocks(row, patch)]
  /\ UNCHANGED <<row, alive, revived, call, calls>>

\* ... and then writes what it decided.
BoardWrite ==
  /\ edit # NoEdit
  /\ row' = Patched(row, edit.patch, edit.drops)
  /\ edit' = NoEdit
  /\ UNCHANGED <<alive, revived, call, calls, board>>

\* A blocker of the issue is closed or opened.
BoardBlocker ==
  /\ BoardChange
  /\ row' = [row EXCEPT !.ready = ~@]
  /\ UNCHANGED <<alive, revived, call, edit, calls>>

\* adminForceRelease, with or without clearAssignee; the status stays.
AdminForceRelease ==
  /\ BoardChange
  /\ \E clearAssignee \in BOOLEAN :
       row' = [Unlocked(row) EXCEPT !.checkout = NoRun,
                                    !.assignee = IF clearAssignee THEN NoAgent ELSE @]
  /\ UNCHANGED <<alive, revived, call, edit, calls>>

Statement(r) ==
  \/ Clear(r)
  \/ Blockers(r)
  \/ CheckoutCas(r)
  \/ ReadOwner(r)
  \/ AdoptUnowned(r)
  \/ Stale(r)
  \/ AdoptStale(r)
  \/ ReadReleased(r)
  \/ ReleaseWrite(r)

Next ==
  \/ \E r \in Runs : Begin(r) \/ Statement(r)
  \/ \E r \in Runs : ClaimStamp(r) \/ RunEnds(r) \/ HeartbeatRelease(r) \/ ReaperRevives(r)
  \/ BoardRead
  \/ BoardWrite
  \/ BoardBlocker
  \/ AdminForceRelease

Spec == Init /\ [][Next]_vars

-----------------------------------------------------------------------------
(* Properties. *)

\* The run that has the issue checked out belongs to the issue's assignee...
CheckoutIsByAssignee == row.checkout # NoRun => AgentOf[row.checkout] = row.assignee

\* ... unless the board has written an assignee who was the assignee when its update read
\* the row, and was not any more: nothing else separates the two.
OnlyStaleUpdateSeparates ==
  [][CheckoutIsByAssignee /\ ~CheckoutIsByAssignee'
       => /\ edit # NoEdit /\ edit' = NoEdit
          /\ "assignee" \in edit.patch.fields
          /\ ~edit.drops]_vars

\* The runs that have not been over.  A run that is over may be revived, but its locks may
\* have been released before, and whoever has looked it up may go on to adopt its checkout.
Unbroken == alive \ revived

\* A run that has the issue checked out and has not been over also holds its execution lock.
LiveOwnerHoldsLock == row.checkout \in Unbroken => row.exec = row.checkout

\* The run a call is about to adopt the checkout from is over, or has been over and was
\* revived since: the look at it and the adoption are two statements.
AdoptsFromTheDead ==
  \A r \in Runs : call[r].pc = "adopt" => call[r].seen \in Runs \ Unbroken

\* A checkout or an assertion only answers ok when the run owns the issue then.
OkMeansOwner ==
  [][\A r \in Runs :
       call[r].op \in {"checkout", "assert"} /\ call[r].reply = "none" /\ call'[r].reply = "ok"
         => Owns(r, row')]_vars

\* The checkout lock implements IssueOwnership: a run that has not been over only loses the
\* issue because it is given back.
Ownership == INSTANCE IssueOwnership
               WITH Run <- Runs, None <- NoRun, owner <- row.checkout, live <- Unbroken
ImplementsOwnership == Ownership!Spec

\* "Only checkout run can release issue": a run's call of release never takes the issue
\* from another run that has not been over.
OnlyOwnerReleases ==
  [][\A r \in Runs : call[r].pc = "write" /\ call'[r].pc = "done"
       => row.checkout \in {NoRun, r} \/ row.checkout \notin Unbroken]_vars
==============================================================================
