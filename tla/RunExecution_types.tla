-------------------------- MODULE RunExecution_types --------------------------
(***************************************************************************)
(* Theorems about RunExecution (1): types.  What the operators of the      *)
(* model return (the oldest row of a set, the ranked queue, an agent's     *)
(* free slots), what each action does to the rows and the handlers, and    *)
(* from it the invariant Typed, on which all other theorems rest: TypeOK   *)
(* of the model, with the facts about the state of the handlers that make  *)
(* it inductive.                                                           *)
(***************************************************************************)
EXTENDS RunExecution, OrderTheorems

-----------------------------------------------------------------------------
(* Least and sorted elements. *)

LEMMA RunsAreNumbers ==
  /\ Runs \subseteq Nat /\ IsFiniteSet(Runs) /\ NoRun \notin Runs
  /\ Wakes \subseteq Nat /\ IsFiniteSet(Wakes) /\ NoWake \notin Wakes
  BY IssueRowAssumption, RunExecutionAssumption, FS_Interval DEF Runs, Wakes, NoRun, NoWake

LEMMA OldestIsFirst ==
  ASSUME NEW T, T \subseteq Nat, IsFiniteSet(T), NEW S \in SUBSET T, S # {}
  PROVE  Oldest(S) \in S /\ \A q \in S : Oldest(S) <= q
<1>1. IsFiniteSet(S)
  BY FS_Subset
<1>2. S \in SUBSET Int
  OBVIOUS
<1>3. \E x \in S : \A y \in S : x <= y
  BY <1>1, <1>2, LeastOfFinite
<1> QED BY <1>3 DEF Oldest

LEMMA PrioritisedIsSorted ==
  ASSUME NEW S \in SUBSET Runs
  PROVE  /\ Prioritised(S) \in [1 .. Cardinality(S) -> S]
         /\ \A j, k \in 1 .. Cardinality(S) : j < k => StartsBefore(Prioritised(S)[j], Prioritised(S)[k])
<1> DEFINE R == {p \in S \X S : StartsBefore(p[1], p[2])}
<1>1. IsFiniteSet(S)
  BY RunsAreNumbers, FS_Subset
<1>2. Orders(R, S)
  <2>1. \A r \in S : StartRank(r) \in Nat /\ r \in Nat
    BY RunsAreNumbers DEF StartRank
  <2>2. \A r, q \in S : <<r, q>> \in R <=> StartsBefore(r, q)
    OBVIOUS
  <2> HIDE DEF R
  <2> QED BY <2>1, <2>2 DEF Orders, StartsBefore
<1>3. PICK s \in [1 .. Cardinality(S) -> S] :
        \A j, k \in 1 .. Cardinality(S) : j < k => <<s[j], s[k]>> \in R
  BY <1>1, <1>2, SortedEnumeration
<1>4. \A j, k \in 1 .. Cardinality(S) : j < k => StartsBefore(s[j], s[k])
  BY <1>3
<1> QED BY <1>4 DEF Prioritised

-----------------------------------------------------------------------------
(* The rows. *)

Used == {r \in Runs : run[r] # NoRow}

RowsTyped ==
  /\ run \in [Runs -> RunRow \cup {NoRow}]
  /\ wake \in [Wakes -> WakeRow \cup {NoRow}]
  /\ issue \in [Issues -> Row]

RunHasWake ==
  \A r \in Used : wake[run[r].wake] # NoRow /\ wake[run[r].wake].run = r

DeferredHasNoRun ==
  \A w \in Wakes : wake[w] # NoRow /\ wake[w].status = "deferred_issue_execution"
    => wake[w].run = NoRun

LocksAreRuns ==
  \A i \in Issues : /\ issue[i].checkout \in Used \cup {NoRun}
                    /\ issue[i].exec \in Used \cup {NoRun}
                    /\ issue[i].exec # NoRun => run[issue[i].exec].issue = i

RowsOK == RowsTyped /\ RunHasWake /\ DeferredHasNoRun /\ LocksAreRuns

RunsKept ==
  \A r \in Used : /\ run'[r] # NoRow /\ run'[r].agent = run[r].agent
                  /\ run'[r].issue = run[r].issue /\ run'[r].wake = run[r].wake

StatusesKept ==
  \A r \in Used : run'[r].status = run[r].status /\ run'[r].detached = run[r].detached

NewRunsWait ==
  \A r \in Used' \ Used :
     /\ run'[r].status \in {"queued", "scheduled_retry"} /\ ~run'[r].detached

\* Enqueue, Release and InsertRetry
Transaction == RowsOK' /\ RunsKept /\ StatusesKept /\ NewRunsWait

LEMMA UsedRun ==
  ASSUME RowsTyped, NEW r \in Used
  PROVE  r \in Runs /\ run[r] \in RunRow
  BY DEF Used, RowsTyped

LEMMA NewRunType ==
  ASSUME NEW a \in Agents, NEW i \in Issues, NEW w \in Wakes, NEW reason \in RetryReasons,
         NEW c \in BOOLEAN
  PROVE  /\ NewRun(a, i, w, reason) \in RunRow
         /\ [NewRun(a, i, w, reason) EXCEPT !.comment = c] \in RunRow
  BY DEF NewRun, RunRow, RunStatuses, ExecutionPath

LEMMA NewWakeType ==
  ASSUME NEW a \in Agents, NEW i \in Issues, NEW s \in WakeStatuses, NEW r \in Runs \cup {NoRun},
         NEW reason \in RetryReasons, NEW c \in BOOLEAN
  PROVE  NewWake(a, i, s, r, reason, c) \in WakeRow /\ NewWake(a, i, s, r, reason, c) # NoRow
  BY DEF NewWake, WakeRow, NoRow

LEMMA NoRowIsNoRun == NoRow \notin RunRow /\ NoRow \notin WakeRow
  BY DEF NoRow, RunRow, WakeRow

(***************************************************************************)
(* A change of the rows keeps RowsOK if old rows stay, new runs have their *)
(* wakes, and the issues name runs that there are.                         *)
(***************************************************************************)
WakesKept ==
  \A w \in Wakes : wake[w] # NoRow =>
    wake'[w] # NoRow /\ wake[w].run \in {NoRun, wake'[w].run}

LEMMA RowsStep ==
  ASSUME RowsOK, RowsTyped', RunsKept, WakesKept, DeferredHasNoRun',
         \A r \in Used' \ Used : wake'[run'[r].wake] # NoRow /\ wake'[run'[r].wake].run = r,
         \A i \in Issues : /\ issue'[i].checkout \in Used' \cup {NoRun}
                           /\ issue'[i].exec \in Used' \cup {NoRun}
                           /\ issue'[i].exec # NoRun => run'[issue'[i].exec].issue = i
  PROVE  RowsOK'
<1>1. RunHasWake'
  <2> SUFFICES ASSUME NEW r \in Used'
               PROVE  wake'[run'[r].wake] # NoRow /\ wake'[run'[r].wake].run = r
    BY DEF RunHasWake
  <2>1. CASE r \in Used
    <3>1. run'[r].wake = run[r].wake /\ run[r].wake \in Wakes /\ r # NoRun
      BY <2>1, UsedRun, RunsAreNumbers DEF RunsKept, RunRow, RowsOK
    <3>2. wake[run[r].wake] # NoRow /\ wake[run[r].wake].run = r
      BY <2>1 DEF RowsOK, RunHasWake
    <3> QED BY <3>1, <3>2 DEF WakesKept
  <2> QED BY <2>1
<1> QED BY <1>1 DEF RowsOK, LocksAreRuns

LEMMA UsedGrows == ASSUME RunsKept PROVE Used \subseteq Used'
  BY DEF RunsKept, Used

LEMMA FreshRunInserted ==
  ASSUME RowsTyped, NEW new \in Runs, FreshRun(new), NEW row \in RunRow,
         run' = [run EXCEPT ![new] = row]
  PROVE  /\ run' \in [Runs -> RunRow \cup {NoRow}]
         /\ new \notin Used /\ Used' = Used \cup {new} /\ run'[new] = row
         /\ \A r \in Used : run'[r] = run[r]
         /\ RunsKept /\ StatusesKept
<1>1. run' \in [Runs -> RunRow \cup {NoRow}] /\ run'[new] = row
      /\ \A r \in Runs \ {new} : run'[r] = run[r]
  BY DEF RowsTyped
<1>2. new \notin Used /\ row # NoRow
  BY NoRowIsNoRun DEF FreshRun, Used
<1>3. Used' = Used \cup {new}
  BY <1>1, <1>2 DEF Used
<1>4. \A r \in Used : run'[r] = run[r] /\ run[r] # NoRow
  BY <1>1, <1>2 DEF Used
<1> QED BY <1>1, <1>2, <1>3, <1>4 DEF RunsKept, StatusesKept

\* The row an issue is given by a transaction: it names the runs it named, or the new one.
GoodRow(row, i) ==
  /\ row \in Row
  /\ row.checkout \in Used \cup {NoRun}
  /\ row.exec \in Used \cup {NoRun}
  /\ row.exec # NoRun => run[row.exec].issue = i

LEMMA RowIsGood ==
  ASSUME RowsOK, NEW i \in Issues
  PROVE  GoodRow(issue[i], i)
  BY DEF RowsOK, RowsTyped, LocksAreRuns, GoodRow

LEMMA LockedRow ==
  ASSUME NEW row \in Row, NEW r \in Runs, NEW a \in Agents
  PROVE  /\ LockedBy(row, r, a) \in Row
         /\ LockedBy(row, r, a).exec = r
         /\ LockedBy(row, r, a).checkout = row.checkout
         /\ LockedBy(row, r, a).status = row.status
         /\ LockedBy(row, r, a).assignee = row.assignee
         /\ LockedBy(row, r, a).ready = row.ready
  BY IssueRowAssumption DEF LockedBy, Row

LEMMA UnlockedRow ==
  ASSUME NEW row \in Row
  PROVE  /\ Unlocked(row) \in Row
         /\ Unlocked(row).exec = NoRun
         /\ Unlocked(row).checkout = row.checkout
         /\ Unlocked(row).status = row.status
         /\ Unlocked(row).assignee = row.assignee
         /\ Unlocked(row).ready = row.ready
  BY DEF Unlocked, Row

LEMMA InsertRunRows ==
  ASSUME RowsOK, NEW new \in Runs, NEW w \in Wakes, NEW row \in RunRow, NEW issueRow,
         NEW lock \in BOOLEAN,
         row.wake = w, row.status \in {"queued", "scheduled_retry"}, ~row.detached,
         GoodRow(issueRow, row.issue),
         InsertRun(new, w, row, issueRow, lock)
  PROVE  Transaction
<1> DEFINE i == row.issue
           added == NewWake(row.agent, i, "queued", new, row.reason, row.comment)
           lockedRow == IF lock THEN LockedBy(issueRow, new, row.agent) ELSE issueRow
<1>1. /\ FreshRun(new) /\ FreshWake(w)
      /\ run' = [run EXCEPT ![new] = row]
      /\ wake' = [wake EXCEPT ![w] = added]
      /\ issue' = [issue EXCEPT ![i] = lockedRow]
  BY DEF InsertRun
<1>2. /\ run' \in [Runs -> RunRow \cup {NoRow}]
      /\ new \notin Used /\ Used' = Used \cup {new} /\ run'[new] = row
      /\ \A r \in Used : run'[r] = run[r]
      /\ RunsKept /\ StatusesKept
  BY <1>1, FreshRunInserted DEF RowsOK
<1>3. row.agent \in Agents /\ i \in Issues /\ row.reason \in RetryReasons /\ row.comment \in BOOLEAN
  BY DEF RunRow
<1>4. added \in WakeRow /\ added # NoRow /\ added.run = new /\ added.status = "queued"
  <2>1. added \in WakeRow /\ added # NoRow
    BY <1>3, NewWakeType DEF WakeStatuses
  <2> QED BY <2>1 DEF NewWake
<1> HIDE DEF added
<1>5. /\ wake' \in [Wakes -> WakeRow \cup {NoRow}] /\ wake'[w] = added /\ wake[w] = NoRow
      /\ \A v \in Wakes \ {w} : wake'[v] = wake[v]
  BY <1>1, <1>4 DEF RowsOK, RowsTyped, FreshWake
<1>6. /\ lockedRow \in Row
      /\ lockedRow.checkout = issueRow.checkout
      /\ lockedRow.exec \in {new, issueRow.exec}
  BY <1>3, LockedRow DEF GoodRow
<1> HIDE DEF lockedRow
<1>7. /\ issue' \in [Issues -> Row] /\ issue'[i] = lockedRow
      /\ \A j \in Issues \ {i} : issue'[j] = issue[j]
  BY <1>1, <1>3, <1>6 DEF RowsOK, RowsTyped
<1>8. WakesKept /\ DeferredHasNoRun'
  BY <1>4, <1>5 DEF WakesKept, DeferredHasNoRun, RowsOK
<1>9. \A r \in Used' \ Used : wake'[run'[r].wake] # NoRow /\ wake'[run'[r].wake].run = r
  BY <1>2, <1>4, <1>5
<1>10. ASSUME NEW j \in Issues
       PROVE  /\ issue'[j].checkout \in Used' \cup {NoRun}
              /\ issue'[j].exec \in Used' \cup {NoRun}
              /\ issue'[j].exec # NoRun => run'[issue'[j].exec].issue = j
  <2>1. CASE j = i
    BY <1>2, <1>6, <1>7, <2>1 DEF GoodRow
  <2>2. CASE j # i
    BY <1>2, <1>7, <2>2 DEF RowsOK, LocksAreRuns
  <2> QED BY <2>1, <2>2
<1>11. RowsTyped'
  BY <1>2, <1>5, <1>7 DEF RowsTyped
<1>12. RowsOK'
  BY <1>2, <1>8, <1>9, <1>10, <1>11, RowsStep
<1>13. NewRunsWait
  BY <1>2 DEF NewRunsWait
<1> QED BY <1>2, <1>12, <1>13 DEF Transaction

-----------------------------------------------------------------------------
(* enqueueWakeup. *)

LEMMA ActiveRunIsLive ==
  ASSUME RowsOK, NEW i \in Issues
  PROVE  /\ ActiveRun(i) = NoRun => LiveRunsOf(i) = {}
         /\ ActiveRun(i) # NoRun => ActiveRun(i) \in LiveRunsOf(i)
         /\ issue[i].exec # NoRun /\ Live(issue[i].exec) => ActiveRun(i) = issue[i].exec
<1> DEFINE held == issue[i].exec
           running == {r \in LiveRunsOf(i) : run[r].status = "running"}
<1>1. LiveRunsOf(i) \in SUBSET Runs /\ running \in SUBSET Runs
  BY DEF LiveRunsOf, RunsOf
<1>2. CASE held # NoRun /\ Live(held)
  <2>1. held \in LiveRunsOf(i)
    BY <1>2 DEF RowsOK, LocksAreRuns, LiveRunsOf, RunsOf, Used
  <2>2. ActiveRun(i) = held
    BY <1>2 DEF ActiveRun
  <2> QED BY <1>2, <2>1, <2>2
<1>3. CASE ~(held # NoRun /\ Live(held)) /\ running # {}
  <2>1. Oldest(running) \in running
    BY <1>1, <1>3, OldestIsFirst, RunsAreNumbers
  <2>2. ActiveRun(i) = Oldest(running)
    BY <1>3 DEF ActiveRun
  <2> QED BY <1>1, <1>3, <2>1, <2>2, RunsAreNumbers
<1>4. CASE ~(held # NoRun /\ Live(held)) /\ running = {} /\ LiveRunsOf(i) # {}
  <2>1. Oldest(LiveRunsOf(i)) \in LiveRunsOf(i)
    BY <1>1, <1>4, OldestIsFirst, RunsAreNumbers
  <2>2. ActiveRun(i) = Oldest(LiveRunsOf(i))
    BY <1>4 DEF ActiveRun
  <2> QED BY <1>1, <1>4, <2>1, <2>2, RunsAreNumbers
<1>5. CASE ~(held # NoRun /\ Live(held)) /\ running = {} /\ LiveRunsOf(i) = {}
  BY <1>5 DEF ActiveRun
<1> QED BY <1>2, <1>3, <1>4, <1>5

\* Whatever the lock was: the normalised row names the active run.
LEMMA NormalisedRowIsActive ==
  ASSUME RowsOK, NEW i \in Issues
  PROVE  LET row == NormalisedRow(i) IN
         /\ GoodRow(row, i)
         /\ row.exec = ActiveRun(i)
         /\ row.checkout = issue[i].checkout
         /\ row.status = issue[i].status
         /\ row.assignee = issue[i].assignee
         /\ row.ready = issue[i].ready
<1> DEFINE held == issue[i].exec
           active == ActiveRun(i)
<1>1. GoodRow(issue[i], i) /\ issue[i] \in Row
  BY RowIsGood DEF GoodRow
<1>2. CASE held # NoRun /\ Live(held)
  BY <1>1, <1>2, ActiveRunIsLive DEF NormalisedRow
<1>3. CASE ~(held # NoRun /\ Live(held)) /\ active # NoRun
  <2>1. active \in Used /\ run[active].issue = i /\ active \in Runs
    BY <1>3, ActiveRunIsLive DEF LiveRunsOf, RunsOf, Used
  <2>2. run[active].agent \in Agents
    BY <2>1, UsedRun DEF RowsOK, RunRow
  <2>3. NormalisedRow(i) = LockedBy(issue[i], active, run[active].agent)
    BY <1>3 DEF NormalisedRow
  <2> QED BY <1>1, <2>1, <2>2, <2>3, LockedRow DEF GoodRow
<1>4. CASE ~(held # NoRun /\ Live(held)) /\ active = NoRun /\ held # NoRun
  <2>1. NormalisedRow(i) = Unlocked(issue[i])
    BY <1>4 DEF NormalisedRow
  <2> QED BY <1>1, <1>4, <2>1, UnlockedRow DEF GoodRow
<1>5. CASE active = NoRun /\ held = NoRun
  <2>1. NormalisedRow(i) = issue[i]
    BY <1>5 DEF NormalisedRow
  <2> QED BY <1>1, <1>5, <2>1 DEF GoodRow
<1> QED BY <1>2, <1>3, <1>4, <1>5

\* A transaction that inserts no run and gives issue i another good row.
LEMMA NoRunInserted ==
  ASSUME RowsOK, NEW i \in Issues, NEW row, GoodRow(row, i),
         issue' = [issue EXCEPT ![i] = row],
         run' \in [Runs -> RunRow \cup {NoRow}], wake' \in [Wakes -> WakeRow \cup {NoRow}],
         RunsKept, StatusesKept, Used' = Used, WakesKept, DeferredHasNoRun'
  PROVE  Transaction
<1>1. issue' \in [Issues -> Row] /\ issue'[i] = row
      /\ \A j \in Issues \ {i} : issue'[j] = issue[j]
  BY DEF RowsOK, RowsTyped, GoodRow
<1>2. ASSUME NEW j \in Issues
       PROVE  /\ issue'[j].checkout \in Used' \cup {NoRun}
              /\ issue'[j].exec \in Used' \cup {NoRun}
              /\ issue'[j].exec # NoRun => run'[issue'[j].exec].issue = j
  <2>1. CASE j = i
    BY <1>1, <2>1 DEF GoodRow, RunsKept
  <2>2. CASE j # i
    BY <1>1, <2>2 DEF RowsOK, LocksAreRuns, RunsKept
  <2> QED BY <2>1, <2>2
<1>3. RowsTyped'
  BY <1>1 DEF RowsTyped
<1>4. RowsOK'
  BY <1>2, <1>3, RowsStep
<1> QED BY <1>4 DEF Transaction, NewRunsWait

LEMMA SameRunsKept ==
  ASSUME run' = run
  PROVE  RunsKept /\ StatusesKept /\ Used' = Used
  BY DEF RunsKept, StatusesKept, Used

LEMMA SameWakesKept ==
  ASSUME RowsOK, wake' = wake
  PROVE  WakesKept /\ DeferredHasNoRun'
  BY DEF WakesKept, DeferredHasNoRun, RowsOK

\* The oldest deferred wake of an agent is one.
Mine(a, i) == {w \in Deferred(i) : wake[w].agent = a}

LEMMA OldestDeferred ==
  ASSUME NEW i \in Issues, NEW S \in SUBSET Deferred(i), S # {}
  PROVE  Oldest(S) \in S /\ Oldest(S) \in Wakes /\ \A w \in S : Oldest(S) <= w
  BY OldestIsFirst, RunsAreNumbers DEF Deferred

LEMMA EnqueueRows ==
  ASSUME RowsOK, NEW a \in Agents, NEW i \in Issues, NEW comment \in BOOLEAN,
         NEW reason \in RetryReasons, Enqueue(a, i, comment, reason)
  PROVE  Transaction
<1>0. GoodRow(NormalisedRow(i), i)
  BY NormalisedRowIsActive
<1>t. run \in [Runs -> RunRow \cup {NoRow}] /\ wake \in [Wakes -> WakeRow \cup {NoRow}]
  BY DEF RowsOK, RowsTyped
<1>1. CASE EnqueueSkipped(i, comment)
  BY <1>0, <1>1, <1>t, NoRunInserted, SameRunsKept, SameWakesKept DEF EnqueueSkipped
<1>2. CASE EnqueueCoalesced(a, i, comment, reason)
  <2> DEFINE active == ActiveRun(i)
             row == [run[active] EXCEPT !.comment = @ \/ comment,
                                        !.reason = IF reason = "none" THEN @ ELSE reason]
  <2>1. active \in Used
    BY <1>2, ActiveRunIsLive DEF EnqueueCoalesced, LiveRunsOf, RunsOf, Used
  <2>2. active \in Runs /\ run[active] \in RunRow
    BY <2>1, UsedRun DEF RowsOK
  <2>3. run' = [run EXCEPT ![active] = row]
    BY <1>2, <1>t, <2>2 DEF EnqueueCoalesced
  <2>4. /\ row \in RunRow /\ row.agent = run[active].agent /\ row.issue = run[active].issue
        /\ row.wake = run[active].wake /\ row.status = run[active].status
        /\ row.detached = run[active].detached
    BY <2>2 DEF RunRow
  <2> HIDE DEF active, row
  <2>5. run' \in [Runs -> RunRow \cup {NoRow}] /\ run'[active] = row
        /\ \A r \in Runs \ {active} : run'[r] = run[r]
    BY <1>t, <2>2, <2>3, <2>4
  <2>6. RunsKept /\ StatusesKept /\ Used' = Used
    BY <2>1, <2>4, <2>5, NoRowIsNoRun DEF RunsKept, StatusesKept, Used
  <2>7. wake' = wake /\ issue' = [issue EXCEPT ![i] = NormalisedRow(i)]
    BY <1>2 DEF EnqueueCoalesced
  <2> QED BY <1>0, <1>t, <2>5, <2>6, <2>7, NoRunInserted, SameWakesKept
<1>3. CASE EnqueueDeferred(a, i, comment, reason)
  <2>1. run' = run /\ issue' = [issue EXCEPT ![i] = NormalisedRow(i)]
    BY <1>3 DEF EnqueueDeferred
  <2>2. CASE Mine(a, i) # {}
    <3> DEFINE v == Oldest(Mine(a, i))
               row == [wake[v] EXCEPT !.comment = @ \/ comment,
                                      !.reason = IF reason = "none" THEN @ ELSE reason]
    <3>1. v \in Wakes /\ v \in Deferred(i)
      BY <2>2, OldestDeferred DEF Mine
    <3>2. wake[v] \in WakeRow
      BY <1>t, <3>1 DEF Deferred
    <3>3. wake' = [wake EXCEPT ![v] = row]
      BY <1>3, <1>t, <2>2, <3>1 DEF EnqueueDeferred, Mine
    <3>4. row \in WakeRow /\ row.run = wake[v].run /\ row.status = wake[v].status
      BY <3>2 DEF WakeRow
    <3> HIDE DEF v, row
    <3>5. wake' \in [Wakes -> WakeRow \cup {NoRow}] /\ wake'[v] = row
          /\ \A w \in Wakes \ {v} : wake'[w] = wake[w]
      BY <1>t, <3>1, <3>3, <3>4
    <3>6. wake[v] # NoRow /\ row # NoRow
      BY <3>1, <3>4, NoRowIsNoRun DEF Deferred
    <3>7. WakesKept /\ DeferredHasNoRun'
      BY <3>4, <3>5, <3>6 DEF WakesKept, DeferredHasNoRun, RowsOK
    <3> QED BY <1>0, <1>t, <2>1, <3>5, <3>7, NoRunInserted, SameRunsKept
  <2>3. CASE Mine(a, i) = {}
    <3> DEFINE row == NewWake(a, i, "deferred_issue_execution", NoRun, reason, comment)
    <3>1. PICK v \in Wakes : FreshWake(v) /\ wake' = [wake EXCEPT ![v] = row]
      BY <1>3, <2>3 DEF EnqueueDeferred, Mine
    <3>2. row \in WakeRow /\ row # NoRow /\ row.run = NoRun
      <4>1. row \in WakeRow /\ row # NoRow
        BY NewWakeType DEF WakeStatuses
      <4> QED BY <4>1 DEF NewWake
    <3> HIDE DEF row
    <3>3. wake' \in [Wakes -> WakeRow \cup {NoRow}] /\ wake'[v] = row /\ wake[v] = NoRow
          /\ \A w \in Wakes \ {v} : wake'[w] = wake[w]
      BY <1>t, <3>1, <3>2 DEF FreshWake
    <3>4. WakesKept /\ DeferredHasNoRun'
      BY <3>2, <3>3 DEF WakesKept, DeferredHasNoRun, RowsOK
    <3> QED BY <1>0, <1>t, <2>1, <3>3, <3>4, NoRunInserted, SameRunsKept
  <2> QED BY <2>2, <2>3
<1>4. CASE EnqueueQueued(a, i, comment, reason)
  <2>1. PICK new \in Runs, w \in Wakes :
          InsertRun(new, w, [NewRun(a, i, w, reason) EXCEPT !.comment = comment],
                    NormalisedRow(i), FALSE)
    BY <1>4 DEF EnqueueQueued
  <2> DEFINE row == [NewRun(a, i, w, reason) EXCEPT !.comment = comment]
  <2>2. row \in RunRow
    BY NewRunType
  <2>3. row.wake = w /\ row.status = "queued" /\ ~row.detached /\ row.issue = i
    BY DEF NewRun
  <2> HIDE DEF row
  <2>4. InsertRun(new, w, row, NormalisedRow(i), FALSE)
    BY <2>1 DEF row
  <2> QED BY <1>0, <2>2, <2>3, <2>4, InsertRunRows
<1> QED BY <1>1, <1>2, <1>3, <1>4 DEF Enqueue

-----------------------------------------------------------------------------
(* releaseIssueExecutionAndPromote. *)

LEMMA FreedRow ==
  ASSUME RowsOK, NEW r \in Used
  PROVE  /\ GoodRow(Freed(r), run[r].issue)
         /\ Freed(r).checkout = issue[run[r].issue].checkout
         /\ Freed(r).exec # r
         /\ Freed(r).exec \in {NoRun, issue[run[r].issue].exec}
         /\ MayRelease(r) => Freed(r).exec = NoRun
         /\ Freed(r).status = issue[run[r].issue].status
         /\ Freed(r).assignee = issue[run[r].issue].assignee
<1> DEFINE i == run[r].issue
<1>1. i \in Issues /\ r # NoRun
  BY UsedRun, RunsAreNumbers DEF RowsOK, RunRow
<1>2. GoodRow(issue[i], i) /\ issue[i] \in Row
  BY <1>1, RowIsGood DEF GoodRow
<1> QED BY <1>1, <1>2, UnlockedRow DEF Freed, MayRelease, GoodRow

\* The wakes after those in the way of a promotion have failed.
LEMMA WakesFailedRows ==
  ASSUME RowsOK, NEW i \in Issues
  PROVE  /\ WakesFailed(i) \in [Wakes -> WakeRow \cup {NoRow}]
         /\ \A w \in Wakes : w \notin PassedOver(i) => WakesFailed(i)[w] = wake[w]
         /\ \A w \in PassedOver(i) :
              /\ w \in Deferred(i)
              /\ WakesFailed(i)[w] \in WakeRow /\ WakesFailed(i)[w].status = "failed"
              /\ WakesFailed(i)[w].run = wake[w].run
              /\ WakesFailed(i)[w].agent = wake[w].agent
              /\ WakesFailed(i)[w].issue = wake[w].issue
<1>1. \A w \in PassedOver(i) : w \in Deferred(i) /\ w \in Wakes /\ wake[w] \in WakeRow
  BY DEF PassedOver, Deferred, RowsOK, RowsTyped
<1>2. \A w \in PassedOver(i) : WakesFailed(i)[w] = [wake[w] EXCEPT !.status = "failed"]
  BY <1>1 DEF WakesFailed
<1>3. \A w \in PassedOver(i) :
              /\ WakesFailed(i)[w] \in WakeRow /\ WakesFailed(i)[w].status = "failed"
              /\ WakesFailed(i)[w].run = wake[w].run
              /\ WakesFailed(i)[w].agent = wake[w].agent
              /\ WakesFailed(i)[w].issue = wake[w].issue
  BY <1>1, <1>2 DEF WakeRow, WakeStatuses
<1>4. \A w \in Wakes : w \notin PassedOver(i) => WakesFailed(i)[w] = wake[w]
  BY DEF WakesFailed
<1>5. WakesFailed(i) \in [Wakes -> WakeRow \cup {NoRow}]
  <2>1. \A w \in Wakes : WakesFailed(i)[w] \in WakeRow \cup {NoRow}
    BY <1>3, <1>4 DEF RowsOK, RowsTyped
  <2> QED BY <2>1 DEF WakesFailed
<1> QED BY <1>1, <1>3, <1>4, <1>5

LEMMA FailedWakesKept ==
  ASSUME RowsOK, NEW i \in Issues, wake' = WakesFailed(i)
  PROVE  WakesKept /\ DeferredHasNoRun' /\ wake' \in [Wakes -> WakeRow \cup {NoRow}]
<1>1. \A w \in Wakes : \/ wake'[w] = wake[w]
                       \/ wake'[w] # NoRow /\ wake'[w].status = "failed" /\ wake'[w].run = wake[w].run
  BY WakesFailedRows, NoRowIsNoRun
<1>2. WakesKept /\ DeferredHasNoRun'
  BY <1>1 DEF WakesKept, DeferredHasNoRun, RowsOK
<1> QED BY <1>2, WakesFailedRows

LEMMA PatchedRow ==
  ASSUME NEW row \in Row, NEW s \in IssueStatuses
  PROVE  LET new == Updated(row, StatusPatch(s)) IN
         /\ new \in Row /\ new.status = s /\ new.assignee = row.assignee
         /\ new.ready = row.ready
         /\ s # "in_progress" => new.exec = NoRun /\ new.checkout = NoRun
         /\ s = "in_progress" => new.exec = row.exec /\ new.checkout = row.checkout
<1> DEFINE p == StatusPatch(s)
<1>1. /\ PatchedFields(row, p) \in Row
      /\ PatchedFields(row, p).status = s
      /\ PatchedFields(row, p).assignee = row.assignee
      /\ PatchedFields(row, p).ready = row.ready
      /\ PatchedFields(row, p).exec = row.exec
      /\ PatchedFields(row, p).checkout = row.checkout
  BY DEF PatchedFields, StatusPatch, Row
<1>2. DropsLocks(row, p) <=> s # "in_progress"
  BY DEF DropsLocks, StatusPatch
<1> HIDE DEF p
<1>3. CASE s # "in_progress"
  <2>1. Updated(row, p) = [Unlocked(PatchedFields(row, p)) EXCEPT !.checkout = NoRun]
    BY <1>2, <1>3 DEF Updated, Patched
  <2> QED BY <1>1, <1>3, <2>1, UnlockedRow DEF Row, p
<1>4. CASE s = "in_progress"
  BY <1>1, <1>2, <1>4 DEF Updated, Patched, p
<1> QED BY <1>3, <1>4

LEMMA ReopenedRow ==
  ASSUME NEW row \in Row, NEW w
  PROVE  /\ Reopened(row, w) \in Row
         /\ Reopened(row, w).checkout \in {NoRun, row.checkout}
         /\ Reopened(row, w).exec \in {NoRun, row.exec}
  BY PatchedRow DEF Reopened, IssueStatuses

LEMMA ReleaseRows ==
  ASSUME RowsOK, NEW r \in Used, NEW seen, NEW also, Release(r, seen, also)
  PROVE  Transaction
<1> DEFINE i == run[r].issue
<1>t. run \in [Runs -> RunRow \cup {NoRow}] /\ wake \in [Wakes -> WakeRow \cup {NoRow}]
  BY DEF RowsOK, RowsTyped
<1>i. i \in Issues /\ run[r].agent \in Agents
  BY UsedRun DEF RowsOK, RunRow
<1>f. GoodRow(Freed(r), i) /\ Freed(r) \in Row
  BY FreedRow DEF GoodRow
<1>1. CASE ~MayRelease(r) /\ UNCHANGED <<run, wake, issue>>
  <2>1. GoodRow(issue[i], i) /\ issue' = [issue EXCEPT ![i] = issue[i]]
    BY <1>1, <1>i, RowIsGood DEF RowsOK, RowsTyped
  <2> QED BY <1>1, <1>i, <1>t, <2>1, NoRunInserted, SameRunsKept, SameWakesKept
<1>2. CASE MayRelease(r) /\ ReleasePromote(r, also)
  <2> DEFINE w == Oldest(Promotable(i))
             a == wake[w].agent
             row(n) == [NewRun(a, i, w, wake[w].reason) EXCEPT !.comment = wake[w].comment]
             open == Reopened(Freed(r), w)
  <2>1. w \in Promotable(i) /\ w \in Wakes
    BY <1>2, <1>i, OldestDeferred DEF ReleasePromote, Promotable
  <2>2. w \in Deferred(i) /\ wake[w] \in WakeRow /\ wake[w] # NoRow /\ wake[w].run = NoRun
        /\ wake[w].issue = i
    BY <1>t, <2>1 DEF Promotable, Deferred, RowsOK, DeferredHasNoRun
  <2>3. PICK new \in Runs :
          /\ FreshRun(new)
          /\ run' = [run EXCEPT ![new] = row(new)]
          /\ wake' = [WakesFailed(i) EXCEPT ![w].status = "queued", ![w].run = new]
          /\ issue' = [issue EXCEPT ![i] = LockedBy(open, new, a)]
    BY <1>2 DEF ReleasePromote
  <2>4. a \in Agents /\ row(new) \in RunRow
    BY <1>i, <2>1, <2>2, NewRunType DEF WakeRow
  <2>5. row(new).wake = w /\ row(new).status = "queued" /\ ~row(new).detached /\ row(new).issue = i
    BY DEF NewRun
  <2>6. open \in Row /\ open.checkout \in {NoRun, Freed(r).checkout}
    BY <1>f, ReopenedRow
  <2> HIDE DEF row, open, a
  <2>7. /\ run' \in [Runs -> RunRow \cup {NoRow}]
        /\ new \notin Used /\ Used' = Used \cup {new} /\ run'[new] = row(new)
        /\ RunsKept /\ StatusesKept
    BY <2>3, <2>4, FreshRunInserted DEF RowsOK
  <2>8. w \notin PassedOver(i)
    <3>1. Promotable(i) \in SUBSET Nat
      BY RunsAreNumbers DEF Promotable, Deferred
    <3>2. Promotable(i) # {} /\ w \in Nat
      BY <2>1, <3>1
    <3> QED BY <3>2 DEF PassedOver
  <2>9. WakesFailed(i)[w] = wake[w]
    BY <1>i, <2>1, <2>8, WakesFailedRows
  <2> DEFINE promoted == [wake[w] EXCEPT !.status = "queued", !.run = new]
  <2>10. /\ promoted \in WakeRow /\ promoted.run = new /\ promoted.status = "queued"
    BY <2>2 DEF WakeRow, WakeStatuses
  <2>11. wake' = [WakesFailed(i) EXCEPT ![w] = promoted]
    BY <1>i, <2>1, <2>3, <2>9, WakesFailedRows
  <2> HIDE DEF promoted, w
  <2>12. /\ wake' \in [Wakes -> WakeRow \cup {NoRow}] /\ wake'[w] = promoted
         /\ \A v \in Wakes \ {w} : wake'[v] = WakesFailed(i)[v]
    BY <1>i, <2>1, <2>10, <2>11, WakesFailedRows
  <2>13. \A v \in Wakes \ {w} :
           \/ wake'[v] = wake[v]
           \/ wake'[v] # NoRow /\ wake'[v].status = "failed" /\ wake'[v].run = wake[v].run
    BY <1>i, <2>12, WakesFailedRows, NoRowIsNoRun
  <2>14. WakesKept /\ DeferredHasNoRun' /\ wake'[w] # NoRow
    BY <2>2, <2>10, <2>12, <2>13, NoRowIsNoRun DEF WakesKept, DeferredHasNoRun, RowsOK
  <2>15. \A q \in Used' \ Used : wake'[run'[q].wake] # NoRow /\ wake'[run'[q].wake].run = q
    BY <2>5, <2>7, <2>10, <2>12, <2>14
  <2> DEFINE locked == LockedBy(open, new, a)
  <2>16. locked \in Row /\ locked.exec = new /\ locked.checkout = open.checkout
    BY <2>4, <2>6, LockedRow
  <2>17. issue' = [issue EXCEPT ![i] = locked]
    BY <2>3
  <2> HIDE DEF locked
  <2>18. /\ issue' \in [Issues -> Row] /\ issue'[i] = locked
         /\ \A j \in Issues \ {i} : issue'[j] = issue[j]
    BY <1>i, <2>16, <2>17 DEF RowsOK, RowsTyped
  <2>19. ASSUME NEW j \in Issues
         PROVE  /\ issue'[j].checkout \in Used' \cup {NoRun}
                /\ issue'[j].exec \in Used' \cup {NoRun}
                /\ issue'[j].exec # NoRun => run'[issue'[j].exec].issue = j
    <3>1. CASE j = i
      BY <1>f, <2>5, <2>6, <2>7, <2>16, <2>18, <3>1 DEF GoodRow
    <3>2. CASE j # i
      BY <2>7, <2>18, <3>2 DEF RowsOK, LocksAreRuns, RunsKept
    <3> QED BY <3>1, <3>2
  <2>20. RowsTyped'
    BY <2>7, <2>12, <2>18 DEF RowsTyped
  <2>21. RowsOK'
    BY <2>7, <2>14, <2>15, <2>19, <2>20, RowsStep
  <2>22. NewRunsWait
    BY <2>5, <2>7 DEF NewRunsWait
  <2> QED BY <2>7, <2>21, <2>22 DEF Transaction
<1>3. CASE MayRelease(r) /\ ReleaseBlock(r, seen, also)
  <2> DEFINE row == [Freed(r) EXCEPT !.status = "blocked"]
  <2>1. run' = run /\ wake' = WakesFailed(i) /\ issue' = [issue EXCEPT ![i] = row]
    BY <1>3 DEF ReleaseBlock
  <2>2. GoodRow(row, i)
    BY <1>f DEF GoodRow, Row, IssueStatuses
  <2> HIDE DEF row
  <2> QED BY <1>i, <1>t, <2>1, <2>2, NoRunInserted, SameRunsKept, FailedWakesKept
<1>4. CASE MayRelease(r) /\ ReleaseRecover(r, seen, also)
  <2> DEFINE a == run[r].agent
             reason == RecoveryReason(issue[i].status)
             row(w) == NewRun(a, i, w, reason)
             added(new) == NewWake(a, i, "queued", new, reason, FALSE)
  <2>1. PICK new \in Runs, w \in Wakes :
          /\ FreshRun(new) /\ FreshWake(w)
          /\ run' = [run EXCEPT ![new] = row(w)]
          /\ wake' = [WakesFailed(i) EXCEPT ![w] = added(new)]
          /\ issue' = [issue EXCEPT ![i] = LockedBy(Freed(r), new, a)]
    BY <1>4 DEF ReleaseRecover
  <2>2. reason \in RetryReasons
    BY DEF RecoveryReason, RetryReasons
  <2>3. row(w) \in RunRow
    BY <1>i, <2>2, NewRunType
  <2>4. row(w).wake = w /\ row(w).status = "queued" /\ ~row(w).detached /\ row(w).issue = i
    BY DEF NewRun
  <2>5. added(new) \in WakeRow /\ added(new) # NoRow /\ added(new).run = new
        /\ added(new).status = "queued"
    <3>1. added(new) \in WakeRow /\ added(new) # NoRow
      BY <1>i, <2>2, NewWakeType DEF WakeStatuses
    <3> QED BY <3>1 DEF NewWake
  <2> HIDE DEF row, added, reason
  <2>6. /\ run' \in [Runs -> RunRow \cup {NoRow}]
        /\ new \notin Used /\ Used' = Used \cup {new} /\ run'[new] = row(w)
        /\ RunsKept /\ StatusesKept
    BY <2>1, <2>3, FreshRunInserted DEF RowsOK
  <2>7. /\ wake' \in [Wakes -> WakeRow \cup {NoRow}] /\ wake'[w] = added(new) /\ wake[w] = NoRow
        /\ \A v \in Wakes \ {w} : wake'[v] = WakesFailed(i)[v]
    BY <1>i, <2>1, <2>5, WakesFailedRows DEF FreshWake
  <2>8. \A v \in Wakes \ {w} :
           \/ wake'[v] = wake[v]
           \/ wake'[v] # NoRow /\ wake'[v].status = "failed" /\ wake'[v].run = wake[v].run
    BY <1>i, <2>7, WakesFailedRows, NoRowIsNoRun
  <2>9. WakesKept /\ DeferredHasNoRun'
    BY <2>5, <2>7, <2>8 DEF WakesKept, DeferredHasNoRun, RowsOK
  <2>10. \A q \in Used' \ Used : wake'[run'[q].wake] # NoRow /\ wake'[run'[q].wake].run = q
    BY <2>4, <2>5, <2>6, <2>7
  <2> DEFINE locked == LockedBy(Freed(r), new, a)
  <2>11. locked \in Row /\ locked.exec = new /\ locked.checkout = Freed(r).checkout
    BY <1>f, <1>i, LockedRow
  <2>12. issue' = [issue EXCEPT ![i] = locked]
    BY <2>1
  <2> HIDE DEF locked
  <2>13. /\ issue' \in [Issues -> Row] /\ issue'[i] = locked
         /\ \A j \in Issues \ {i} : issue'[j] = issue[j]
    BY <1>i, <2>11, <2>12 DEF RowsOK, RowsTyped
  <2>14. ASSUME NEW j \in Issues
         PROVE  /\ issue'[j].checkout \in Used' \cup {NoRun}
                /\ issue'[j].exec \in Used' \cup {NoRun}
                /\ issue'[j].exec # NoRun => run'[issue'[j].exec].issue = j
    <3>1. CASE j = i
      BY <1>f, <2>4, <2>6, <2>11, <2>13, <3>1 DEF GoodRow
    <3>2. CASE j # i
      BY <2>6, <2>13, <3>2 DEF RowsOK, LocksAreRuns, RunsKept
    <3> QED BY <3>1, <3>2
  <2>15. RowsTyped'
    BY <2>6, <2>7, <2>13 DEF RowsTyped
  <2>16. RowsOK'
    BY <2>6, <2>9, <2>10, <2>14, <2>15, RowsStep
  <2>17. NewRunsWait
    BY <2>4, <2>6 DEF NewRunsWait
  <2> QED BY <2>6, <2>16, <2>17 DEF Transaction
<1>5. CASE MayRelease(r) /\ ReleaseOnly(r, seen, also)
  <2>1. run' = run /\ wake' = WakesFailed(i) /\ issue' = [issue EXCEPT ![i] = Freed(r)]
    BY <1>5 DEF ReleaseOnly
  <2> QED BY <1>f, <1>i, <1>t, <2>1, NoRunInserted, SameRunsKept, FailedWakesKept
<1> QED BY <1>1, <1>2, <1>3, <1>4, <1>5 DEF Release

\* The row of a retry, before its wake has a number.
RetryRow == [status : RunStatuses, agent : Agents, issue : Issues,
             wake : Wakes \cup {NoWake}, reason : RetryReasons, lost : Nat, attempt : Nat,
             pid : BOOLEAN, detached : BOOLEAN, comment : BOOLEAN]

\* The rows of the three kinds of retries.
TransientRetry(r) ==
  [NewRun(run[r].agent, run[r].issue, NoWake, "transient_failure")
     EXCEPT !.status = "scheduled_retry", !.attempt = run[r].attempt + 1,
            !.comment = run[r].comment]
CommentRetry(r) ==
  [NewRun(run[r].agent, run[r].issue, NoWake, "missing_issue_comment")
     EXCEPT !.comment = run[r].comment]
LostRetry(r) ==
  [NewRun(run[r].agent, run[r].issue, NoWake, "process_lost")
     EXCEPT !.lost = run[r].lost + 1, !.comment = run[r].comment]

LEMMA RetriesTyped ==
  ASSUME RowsTyped, NEW r \in Used,
         NEW row \in {TransientRetry(r), CommentRetry(r), LostRetry(r)}
  PROVE  /\ row \in RetryRow /\ row.issue = run[r].issue
         /\ row.status \in {"queued", "scheduled_retry"} /\ ~row.detached
<1>1. /\ run[r].agent \in Agents /\ run[r].issue \in Issues /\ run[r].comment \in BOOLEAN
      /\ run[r].attempt \in Nat /\ run[r].lost \in Nat
  BY UsedRun DEF RunRow
<1>2. {"transient_failure", "missing_issue_comment", "process_lost"} \subseteq RetryReasons
      /\ {"queued", "scheduled_retry"} \subseteq RunStatuses
  BY DEF RetryReasons, RunStatuses, ExecutionPath
<1> DEFINE plain(reason) == NewRun(run[r].agent, run[r].issue, NoWake, reason)
<1>3. \A reason \in {"transient_failure", "missing_issue_comment", "process_lost"} :
        /\ plain(reason) \in RetryRow /\ plain(reason).issue = run[r].issue
        /\ plain(reason).status = "queued" /\ ~plain(reason).detached
  BY <1>1, <1>2 DEF NewRun, RetryRow
<1>5. run[r].attempt + 1 \in Nat /\ run[r].lost + 1 \in Nat
  BY <1>1
<1> HIDE DEF plain
<1>6. CASE row = TransientRetry(r)
  <2> DEFINE p == plain("transient_failure")
  <2>1. p \in RetryRow /\ p.issue = run[r].issue /\ p.status = "queued" /\ ~p.detached
    BY <1>3
  <2>2. row = [p EXCEPT !.status = "scheduled_retry", !.attempt = run[r].attempt + 1,
                      !.comment = run[r].comment]
    BY <1>6, Zenon DEF TransientRetry, plain
  <2> HIDE DEF p
  <2> QED BY <1>1, <1>2, <1>5, <2>1, <2>2 DEF RetryRow
<1>7. CASE row = CommentRetry(r)
  <2> DEFINE p == plain("missing_issue_comment")
  <2>1. p \in RetryRow /\ p.issue = run[r].issue /\ p.status = "queued" /\ ~p.detached
    BY <1>3
  <2>2. row = [p EXCEPT !.comment = run[r].comment]
    BY <1>7, Zenon DEF CommentRetry, plain
  <2> HIDE DEF p
  <2> QED BY <1>1, <1>2, <1>5, <2>1, <2>2 DEF RetryRow
<1>8. CASE row = LostRetry(r)
  <2> DEFINE p == plain("process_lost")
  <2>1. p \in RetryRow /\ p.issue = run[r].issue /\ p.status = "queued" /\ ~p.detached
    BY <1>3
  <2>2. row = [p EXCEPT !.lost = run[r].lost + 1, !.comment = run[r].comment]
    BY <1>8, Zenon DEF LostRetry, plain
  <2> HIDE DEF p
  <2> QED BY <1>1, <1>2, <1>5, <2>1, <2>2 DEF RetryRow
<1> QED BY <1>6, <1>7, <1>8

LEMMA InsertRetryRows ==
  ASSUME RowsOK, NEW r \in Used, NEW row \in RetryRow,
         row.status \in {"queued", "scheduled_retry"}, ~row.detached,
         row.issue = run[r].issue, InsertRetry(r, row)
  PROVE  Transaction
<1>1. PICK new \in Runs, w \in Wakes :
        InsertRun(new, w, [row EXCEPT !.wake = w], issue[run[r].issue], issue[run[r].issue].exec = r)
  BY DEF InsertRetry
<1> DEFINE retry == [row EXCEPT !.wake = w]
<1>2. /\ retry \in RunRow /\ retry.wake = w /\ retry.status = row.status /\ ~retry.detached
      /\ retry.issue = run[r].issue
  BY DEF RunRow, RetryRow
<1> HIDE DEF retry
<1>3. GoodRow(issue[retry.issue], retry.issue)
  BY <1>2, RowIsGood DEF RunRow
<1>4. InsertRun(new, w, retry, issue[retry.issue], issue[retry.issue].exec = r)
  BY <1>1, <1>2 DEF retry
<1> QED BY <1>2, <1>3, <1>4, InsertRunRows

-----------------------------------------------------------------------------
(* Single writes. *)

LEMMA RowsUnchanged ==
  ASSUME RowsOK, UNCHANGED <<run, wake, issue>>
  PROVE  RowsOK' /\ RunsKept /\ StatusesKept /\ Used' = Used /\ WakesKept
  BY DEF RowsOK, RowsTyped, RunHasWake, DeferredHasNoRun, LocksAreRuns, Used, RunsKept,
         StatusesKept, WakesKept

LEMMA RunWritten ==
  ASSUME RowsOK, NEW r \in Used, NEW row \in RunRow,
         row.agent = run[r].agent, row.issue = run[r].issue, row.wake = run[r].wake,
         run' = [run EXCEPT ![r] = row], UNCHANGED <<wake, issue>>
  PROVE  /\ RowsOK' /\ RunsKept /\ Used' = Used /\ run'[r] = row
         /\ \A q \in Runs \ {r} : run'[q] = run[q]
<1>1. r \in Runs /\ run' \in [Runs -> RunRow \cup {NoRow}] /\ run'[r] = row
      /\ \A q \in Runs \ {r} : run'[q] = run[q]
  BY UsedRun DEF RowsOK, RowsTyped
<1>2. Used' = Used /\ RunsKept
  BY <1>1, NoRowIsNoRun DEF Used, RunsKept
<1>3. RowsTyped' /\ RunHasWake' /\ DeferredHasNoRun' /\ LocksAreRuns'
  <2>1. RowsTyped'
    BY <1>1 DEF RowsOK, RowsTyped
  <2>2. DeferredHasNoRun'
    BY DEF RowsOK, DeferredHasNoRun
  <2>3. RunHasWake'
    BY <1>2 DEF RowsOK, RunHasWake, RunsKept
  <2>4. LocksAreRuns'
    BY <1>2 DEF RowsOK, LocksAreRuns, RunsKept
  <2> QED BY <2>1, <2>2, <2>3, <2>4
<1> QED BY <1>1, <1>2, <1>3 DEF RowsOK

LEMMA StatusWritten ==
  ASSUME RowsOK, NEW r \in Used, NEW s \in RunStatuses,
         run' = [run EXCEPT ![r].status = s], UNCHANGED <<wake, issue>>
  PROVE  /\ RowsOK' /\ RunsKept /\ Used' = Used /\ run'[r] = [run[r] EXCEPT !.status = s]
         /\ run'[r].status = s /\ run'[r].detached = run[r].detached
         /\ run'[r].pid = run[r].pid
         /\ \A q \in Runs \ {r} : run'[q] = run[q]
<1> DEFINE row == [run[r] EXCEPT !.status = s]
<1>1. run[r] \in RunRow /\ r \in Runs
  BY UsedRun DEF RowsOK
<1>2. /\ row \in RunRow /\ row.agent = run[r].agent /\ row.issue = run[r].issue
      /\ row.wake = run[r].wake /\ row.status = s /\ row.detached = run[r].detached
      /\ row.pid = run[r].pid
  BY <1>1 DEF RunRow
<1>3. run' = [run EXCEPT ![r] = row]
  OBVIOUS
<1> QED BY <1>2, <1>3, RunWritten

LEMMA WakeWritten ==
  ASSUME RowsOK, NEW r \in Used, NEW s \in WakeStatuses \ {"deferred_issue_execution"},
         wake' = [wake EXCEPT ![run[r].wake].status = s], UNCHANGED <<run, issue>>
  PROVE  /\ RowsOK' /\ RunsKept /\ StatusesKept /\ Used' = Used
         /\ run[r].wake \in Wakes /\ wake[run[r].wake] # NoRow
         /\ wake'[run[r].wake] # NoRow
         /\ wake'[run[r].wake].status = s
         /\ wake'[run[r].wake].run = r /\ wake[run[r].wake].run = r
         /\ \A w \in Wakes \ {run[r].wake} : wake'[w] = wake[w]
<1> DEFINE v == run[r].wake
           row == [wake[v] EXCEPT !.status = s]
<1>1. v \in Wakes /\ wake[v] \in WakeRow /\ wake[v].run = r
  BY UsedRun DEF RowsOK, RunRow, RunHasWake, RowsTyped
<1>2. row \in WakeRow /\ row.run = wake[v].run /\ row.status = s
  BY <1>1 DEF WakeRow
<1>3. wake' = [wake EXCEPT ![v] = row]
  OBVIOUS
<1> HIDE DEF row
<1>4. wake' \in [Wakes -> WakeRow \cup {NoRow}] /\ wake'[v] = row
      /\ \A w \in Wakes \ {v} : wake'[w] = wake[w]
  BY <1>1, <1>2, <1>3 DEF RowsOK, RowsTyped
<1>5. WakesKept /\ DeferredHasNoRun'
  BY <1>1, <1>2, <1>4, NoRowIsNoRun DEF WakesKept, DeferredHasNoRun, RowsOK
<1>6. RunsKept /\ StatusesKept /\ Used' = Used
  BY SameRunsKept
<1>7. RowsTyped'
  BY <1>4 DEF RowsOK, RowsTyped
<1>8. RowsOK'
  BY <1>5, <1>6, <1>7, RowsStep DEF RowsOK, LocksAreRuns
<1> QED BY <1>1, <1>2, <1>4, <1>6, <1>8, NoRowIsNoRun

LEMMA IssueWritten ==
  ASSUME RowsOK, NEW i \in Issues, NEW row, GoodRow(row, i),
         issue' = [issue EXCEPT ![i] = row], UNCHANGED <<run, wake>>
  PROVE  Transaction /\ Used' = Used /\ issue'[i] = row /\ \A j \in Issues \ {i} : issue'[j] = issue[j]
  BY SameRunsKept, SameWakesKept, NoRunInserted DEF RowsOK, RowsTyped

LEMMA GoodUpdate ==
  ASSUME NEW i \in Issues, NEW row, GoodRow(row, i), NEW new \in Row,
         new.checkout \in {NoRun, row.checkout}, new.exec \in {NoRun, row.exec}
  PROVE  GoodRow(new, i)
  BY DEF GoodRow

LEMMA UpdatedRow ==
  ASSUME NEW row \in Row, NEW p \in Patches
  PROVE  /\ Updated(row, p) \in Row
         /\ Updated(row, p).ready = row.ready
         /\ \/ Updated(row, p).exec = NoRun /\ Updated(row, p).checkout = NoRun
            \/ Updated(row, p).exec = row.exec /\ Updated(row, p).checkout = row.checkout
<1>1. /\ PatchedFields(row, p) \in Row
      /\ PatchedFields(row, p).exec = row.exec
      /\ PatchedFields(row, p).checkout = row.checkout
      /\ PatchedFields(row, p).ready = row.ready
  BY DEF PatchedFields, Row, Patches
<1>2. CASE DropsLocks(row, p)
  <2>1. Updated(row, p) = [Unlocked(PatchedFields(row, p)) EXCEPT !.checkout = NoRun]
    BY <1>2 DEF Updated, Patched
  <2> QED BY <1>1, <2>1, UnlockedRow DEF Row
<1>3. CASE ~DropsLocks(row, p)
  BY <1>1, <1>3 DEF Updated, Patched
<1> QED BY <1>2, <1>3

\* A checkout leaves the issue's locks as they are, drops a lock of a finished run, or
\* gives both locks to the run.
LEMMA AutoCheckedOutRow ==
  ASSUME RowsOK, NEW r \in Used
  PROVE  LET i == run[r].issue
             row == AutoCheckedOut(r) IN
         /\ i \in Issues
         /\ GoodRow(row, i)
         /\ row.ready = issue[i].ready
         /\ \/ row.checkout = r /\ row.exec = r
            \/ row.checkout = issue[i].checkout /\ row.exec = issue[i].exec
            \/ row.checkout = issue[i].checkout /\ row.exec = NoRun /\ Dead(issue[i].exec)
               /\ issue[i].exec # NoRun
<1> DEFINE i == run[r].issue
           a == run[r].agent
           row == IF issue[i].exec # NoRun /\ Dead(issue[i].exec) THEN Unlocked(issue[i]) ELSE issue[i]
<1>1. i \in Issues /\ a \in Agents /\ r \in Runs
  BY UsedRun DEF RowsOK, RunRow
<1>2. GoodRow(issue[i], i) /\ issue[i] \in Row
  BY <1>1, RowIsGood DEF GoodRow
<1>3. /\ row \in Row /\ GoodRow(row, i) /\ row.checkout = issue[i].checkout
      /\ row.ready = issue[i].ready
      /\ \/ row.exec = issue[i].exec
         \/ row.exec = NoRun /\ issue[i].exec # NoRun /\ Dead(issue[i].exec)
  BY <1>1, <1>2, UnlockedRow DEF GoodRow
<1> HIDE DEF row
<1>4. /\ CheckedOut(row, a, r) \in Row /\ CheckedOut(row, a, r).checkout = r
      /\ CheckedOut(row, a, r).exec = r /\ CheckedOut(row, a, r).ready = row.ready
  BY <1>1, <1>3 DEF CheckedOut, Row, IssueStatuses
<1>5. /\ Adopted(row, r) \in Row /\ Adopted(row, r).checkout = r /\ Adopted(row, r).exec = r
      /\ Adopted(row, r).ready = row.ready
  BY <1>1, <1>3 DEF Adopted, Row
<1>6. AutoCheckedOut(r) \in {CheckedOut(row, a, r), Adopted(row, r), row}
  BY DEF AutoCheckedOut, row
<1> QED BY <1>1, <1>3, <1>4, <1>5, <1>6 DEF GoodRow

-----------------------------------------------------------------------------
(* The handlers. *)

EnvironmentOK ==
  /\ paused \subseteq Agents /\ stopped \subseteq Agents /\ wanted \subseteq Agents
  /\ booting \in BOOLEAN
  /\ events \in [EventKinds -> Nat]

UsedOf(a) == {r \in Used : run[r].agent = a}

\* The start lock's holder works through used runs of its agent.
StartersOK ==
  /\ starter \in [Agents -> Starter]
  /\ \A a \in Agents : LET s == starter[a] IN
       /\ s.pc # "idle" => s.queue # <<>> /\ s.slots >= 1
       /\ \A n \in 1 .. Len(s.queue) : s.queue[n] \in UsedOf(a)
       /\ s.claimed \subseteq UsedOf(a)

Persisting == {"persist", "wake", "retry", "comment", "release"}

ExecsOK ==
  /\ exec \in [Runs -> Exec]
  /\ \A r \in Runs : /\ exec[r].pc # "none" => r \in Used
                     /\ exec[r].pc \in Persisting => exec[r].outcome # "none"
  /\ proc \subseteq Used

CancelsOK ==
  /\ cancel \in [Runs -> Cancel]
  /\ \A r \in Runs : cancel[r].pc # "none" => r \in Used
  /\ sweep \subseteq Used

ReaperOK ==
  /\ reaper \in Reaper
  /\ reaper.list \subseteq Used
  /\ reaper.pc = "none" => reaper.run = NoRun
  /\ reaper.pc # "none" => reaper.run \in Used

ReconOK ==
  /\ recon \in Recon
  /\ recon.pc # "none" => recon.issue \in Issues /\ recon.agent \in Agents

HandsOK == EnvironmentOK /\ StartersOK /\ ExecsOK /\ CancelsOK /\ ReaperOK /\ ReconOK

LEMMA UsedOfGrows ==
  ASSUME RunsKept, NEW a
  PROVE  UsedOf(a) \subseteq UsedOf(a)'
  BY UsedGrows DEF UsedOf, RunsKept

LEMMA HandsUnchanged ==
  ASSUME RunsKept
  PROVE  /\ EnvironmentOK /\ UNCHANGED <<paused, stopped, wanted, booting, events>> => EnvironmentOK'
         /\ StartersOK /\ UNCHANGED starter => StartersOK'
         /\ ExecsOK /\ UNCHANGED <<exec, proc>> => ExecsOK'
         /\ CancelsOK /\ UNCHANGED <<cancel, sweep>> => CancelsOK'
         /\ ReaperOK /\ UNCHANGED reaper => ReaperOK'
         /\ ReconOK /\ UNCHANGED recon => ReconOK'
<1>1. Used \subseteq Used' /\ \A a \in Agents : UsedOf(a) \subseteq UsedOf(a)'
  BY UsedGrows, UsedOfGrows
<1>2. EnvironmentOK /\ UNCHANGED <<paused, stopped, wanted, booting, events>> => EnvironmentOK'
  BY DEF EnvironmentOK
<1>3. StartersOK /\ UNCHANGED starter => StartersOK'
  <2> SUFFICES ASSUME StartersOK, starter' = starter
               PROVE  StartersOK'
    OBVIOUS
  <2> HIDE DEF UsedOf
  <2> QED BY <1>1 DEF StartersOK
<1>4. ExecsOK /\ UNCHANGED <<exec, proc>> => ExecsOK'
  BY <1>1 DEF ExecsOK
<1>5. CancelsOK /\ UNCHANGED <<cancel, sweep>> => CancelsOK'
  BY <1>1 DEF CancelsOK
<1>6. ReaperOK /\ UNCHANGED reaper => ReaperOK'
  BY <1>1 DEF ReaperOK
<1>7. ReconOK /\ UNCHANGED recon => ReconOK'
  BY DEF ReconOK
<1> QED BY <1>2, <1>3, <1>4, <1>5, <1>6, <1>7

LEMMA EventTyped ==
  ASSUME EnvironmentOK, NEW e \in EventKinds, Event(e)
  PROVE  /\ events' \in [EventKinds -> Nat] /\ events'[e] = events[e] + 1
         /\ events'[e] > 0
         /\ \A k \in EventKinds \ {e} : events'[k] = events[k]
<1>1. events \in [EventKinds -> Nat] /\ events' = [events EXCEPT ![e] = events[e] + 1]
  BY DEF Event, EnvironmentOK
<1> QED BY <1>1

LEMMA ClaimingIsUsed ==
  ASSUME StartersOK, NEW a \in Agents, starter[a].pc # "idle"
  PROVE  /\ Claiming(a) \in UsedOf(a) /\ Claiming(a) \in Used /\ Claiming(a) \in Runs
         /\ Claiming(a) = starter[a].queue[1]
<1>1. starter[a].queue \in Seq(Runs) /\ starter[a].queue # <<>>
  BY DEF StartersOK, Starter
<1>2. Claiming(a) = starter[a].queue[1] /\ 1 \in 1 .. Len(starter[a].queue)
  BY <1>1 DEF Claiming
<1> QED BY <1>2 DEF StartersOK, UsedOf, Used

LEMMA WriteStarter ==
  ASSUME RunsKept, StartersOK, NEW a \in Agents, NEW s \in Starter,
         s.pc # "idle" => s.queue # <<>> /\ s.slots >= 1,
         \A n \in 1 .. Len(s.queue) : s.queue[n] \in UsedOf(a),
         s.claimed \subseteq UsedOf(a),
         starter' = [starter EXCEPT ![a] = s]
  PROVE  StartersOK'
<1>1. starter' \in [Agents -> Starter] /\ starter'[a] = s
      /\ \A b \in Agents \ {a} : starter'[b] = starter[b]
  BY DEF StartersOK
<1>2. \A b \in Agents : UsedOf(b) \subseteq UsedOf(b)'
  BY UsedOfGrows
<1>3. ASSUME NEW b \in Agents
      PROVE  LET t == starter'[b] IN
               /\ t.pc # "idle" => t.queue # <<>> /\ t.slots >= 1
               /\ \A n \in 1 .. Len(t.queue) : t.queue[n] \in UsedOf(b)'
               /\ t.claimed \subseteq UsedOf(b)'
  <2> HIDE DEF UsedOf
  <2>1. CASE b = a
    BY <1>1, <1>2, <2>1
  <2>2. CASE b # a
    BY <1>1, <1>2, <2>2 DEF StartersOK
  <2> QED BY <2>1, <2>2
<1> QED BY <1>1, <1>3 DEF StartersOK

LEMMA IdleIsStarter ==
  Idle \in Starter /\ Idle.pc = "idle" /\ Len(Idle.queue) = 0 /\ Idle.claimed = {} /\ Idle.queue = <<>>
  BY DEF Idle, Starter

\* A pc of the starter, with nothing else: it keeps what it holds.
LEMMA StarterGoes ==
  ASSUME RunsKept, StartersOK, NEW a \in Agents, starter[a].pc # "idle",
         NEW pc \in {"check", "cas", "wake", "stamp", "cancel"},
         starter' = [starter EXCEPT ![a].pc = pc]
  PROVE  StartersOK'
<1> DEFINE s == [starter[a] EXCEPT !.pc = pc]
<1>1. starter[a] \in Starter
  BY DEF StartersOK
<1>2. s \in Starter /\ s.queue = starter[a].queue /\ s.slots = starter[a].slots
      /\ s.claimed = starter[a].claimed
  BY <1>1 DEF Starter
<1>3. starter' = [starter EXCEPT ![a] = s]
  OBVIOUS
<1> HIDE DEF s
<1>4. /\ starter[a].queue # <<>> /\ starter[a].slots >= 1
      /\ \A n \in 1 .. Len(starter[a].queue) : starter[a].queue[n] \in UsedOf(a)
      /\ starter[a].claimed \subseteq UsedOf(a)
  BY DEF StartersOK
<1> QED BY <1>2, <1>3, <1>4, WriteStarter

\* StartNext: what is left of the queue, and of the slots.
LEMMA StartNextTakes ==
  ASSUME StartersOK, NEW a \in Agents, starter[a].pc # "idle",
         NEW claimed, claimed \in {starter[a].claimed, starter[a].claimed \cup {Claiming(a)}}
  PROVE  LET rest == Tail(starter[a].queue)
             taken == Cardinality(claimed \ starter[a].claimed)
         IN  /\ rest \in Seq(Runs) /\ Len(rest) = Len(starter[a].queue) - 1
             /\ \A n \in 1 .. Len(rest) : /\ rest[n] = starter[a].queue[n + 1]
                                           /\ n + 1 \in 1 .. Len(starter[a].queue)
             /\ taken = IF claimed = starter[a].claimed THEN 0 ELSE 1
             /\ starter[a].slots \in Nat /\ starter[a].slots >= 1
             /\ claimed \subseteq UsedOf(a)
<1>1. starter[a] \in Starter /\ starter[a].queue \in Seq(Runs) /\ starter[a].queue # <<>>
      /\ starter[a].slots \in Nat /\ starter[a].slots >= 1
  BY DEF StartersOK, Starter
<1>2. Tail(starter[a].queue) \in Seq(Runs) /\ Len(Tail(starter[a].queue)) = Len(starter[a].queue) - 1
  BY <1>1
<1>3. \A n \in 1 .. Len(Tail(starter[a].queue)) :
        /\ Tail(starter[a].queue)[n] = starter[a].queue[n + 1]
        /\ n + 1 \in 1 .. Len(starter[a].queue)
  BY <1>1, <1>2
<1>4. Cardinality(claimed \ starter[a].claimed) = IF claimed = starter[a].claimed THEN 0 ELSE 1
  <2>1. CASE claimed = starter[a].claimed
    <3>1. claimed \ starter[a].claimed = {}
      BY <2>1
    <3> QED BY <2>1, <3>1, FS_EmptySet
  <2>2. CASE claimed # starter[a].claimed
    <3>1. claimed \ starter[a].claimed = {Claiming(a)}
      BY <2>2
    <3>2. Cardinality({Claiming(a)}) = 1
      BY FS_Singleton
    <3> QED BY <2>2, <3>1, <3>2
  <2> QED BY <2>1, <2>2
<1>5. claimed \subseteq UsedOf(a)
  BY ClaimingIsUsed DEF StartersOK
<1> QED BY <1>1, <1>2, <1>3, <1>4, <1>5

LEMMA StartNextOK ==
  ASSUME RunsKept, StartersOK, ExecsOK, NEW a \in Agents, starter[a].pc # "idle",
         NEW claimed, claimed \in {starter[a].claimed, starter[a].claimed \cup {Claiming(a)}},
         StartNext(a, claimed), UNCHANGED proc
  PROVE  StartersOK' /\ ExecsOK'
<1> DEFINE rest == Tail(starter[a].queue)
           slots == starter[a].slots - Cardinality(claimed \ starter[a].claimed)
<1>1. /\ rest \in Seq(Runs) /\ Len(rest) = Len(starter[a].queue) - 1
      /\ \A n \in 1 .. Len(rest) : /\ rest[n] = starter[a].queue[n + 1]
                                    /\ n + 1 \in 1 .. Len(starter[a].queue)
      /\ slots \in Nat
      /\ claimed \subseteq UsedOf(a)
  <2> DEFINE taken == Cardinality(claimed \ starter[a].claimed)
  <2>1. /\ rest \in Seq(Runs) /\ Len(rest) = Len(starter[a].queue) - 1
        /\ \A n \in 1 .. Len(rest) : /\ rest[n] = starter[a].queue[n + 1]
                                      /\ n + 1 \in 1 .. Len(starter[a].queue)
        /\ claimed \subseteq UsedOf(a)
    BY StartNextTakes, Zenon
  <2>2. taken \in {0, 1} /\ starter[a].slots \in Nat /\ starter[a].slots >= 1
    <3>1. taken = IF claimed = starter[a].claimed THEN 0 ELSE 1
      BY StartNextTakes, Zenon
    <3>2. starter[a].slots \in Nat /\ starter[a].slots >= 1
      BY StartNextTakes, Zenon
    <3> QED BY <3>1, <3>2
  <2> HIDE DEF taken, rest
  <2>3. slots \in Nat
    BY <2>2 DEF taken
  <2> QED BY <2>1, <2>3
<1>2. claimed \subseteq Runs /\ claimed \subseteq Used
  BY <1>1 DEF UsedOf, Used
<1> HIDE DEF rest, slots
<1>3. CASE rest = <<>> \/ slots = 0
  <2>1. /\ starter' = [starter EXCEPT ![a] = Idle]
        /\ exec' = [r \in Runs |-> IF r \in claimed THEN [exec[r] EXCEPT !.pc = "begin"]
                                   ELSE exec[r]]
    BY <1>3 DEF StartNext, rest, slots
  <2>2. StartersOK'
    <3>1. \A n \in 1 .. Len(Idle.queue) : Idle.queue[n] \in UsedOf(a)
      BY IdleIsStarter
    <3>2. Idle.claimed \subseteq UsedOf(a) /\ Idle.pc = "idle" /\ Idle \in Starter
      BY IdleIsStarter
    <3> QED BY <2>1, <3>1, <3>2, WriteStarter, Zenon
  <2>3. \A r \in Runs : [exec[r] EXCEPT !.pc = "begin"] \in Exec /\ exec[r] \in Exec
                        /\ [exec[r] EXCEPT !.pc = "begin"].pc = "begin"
    BY DEF ExecsOK, Exec
  <2>4. exec' \in [Runs -> Exec]
    BY <2>1, <2>3
  <2>5. ExecsOK'
    BY <1>2, <2>1, <2>3, <2>4, UsedGrows DEF ExecsOK, Persisting
  <2> QED BY <2>2, <2>5
<1>4. CASE ~(rest = <<>> \/ slots = 0)
  <2> DEFINE s == [pc |-> "check", queue |-> rest, slots |-> slots, claimed |-> claimed]
  <2>1. starter' = [starter EXCEPT ![a] = s] /\ exec' = exec
    BY <1>4 DEF StartNext, rest, slots
  <2>2. s \in Starter /\ s.queue = rest /\ s.slots = slots /\ s.claimed = claimed
    BY <1>1, <1>2 DEF Starter
  <2> HIDE DEF s
  <2>3. \A n \in 1 .. Len(rest) : rest[n] \in UsedOf(a)
    BY <1>1 DEF StartersOK
  <2>4. StartersOK'
    <3>1. s.queue # <<>> /\ s.slots >= 1
      BY <1>1, <1>4, <2>2
    <3>2. \A n \in 1 .. Len(s.queue) : s.queue[n] \in UsedOf(a)
      BY <2>2, <2>3
    <3>3. s.claimed \subseteq UsedOf(a) /\ s \in Starter
      BY <1>1, <2>2
    <3> QED BY <2>1, <3>1, <3>2, <3>3, WriteStarter, Zenon
  <2> QED BY <2>1, <2>4, HandsUnchanged
<1> QED BY <1>3, <1>4

-----------------------------------------------------------------------------
(* Every step keeps rows and handlers in order. *)

Typed == RowsOK /\ HandsOK
KeepsTyped == Typed' /\ RunsKept

LEMMA StarterStepTyped ==
  ASSUME Typed, NEW a \in Agents, StarterStep(a)
  PROVE  KeepsTyped
<1>0. RowsOK /\ EnvironmentOK /\ StartersOK /\ ExecsOK /\ CancelsOK /\ ReaperOK /\ ReconOK
  BY DEF Typed, HandsOK
<1>1. CASE StartBegin(a)
  <2>1. RowsOK' /\ RunsKept
    BY <1>0, <1>1, RowsUnchanged DEF StartBegin
  <2>2. EnvironmentOK'
    BY <1>0, <1>1 DEF StartBegin, EnvironmentOK
  <2>3. CASE starter' = starter
    BY <1>0, <1>1, <2>1, <2>2, <2>3, HandsUnchanged DEF StartBegin, KeepsTyped, Typed, HandsOK
  <2>4. CASE starter' # starter
    <3> DEFINE queue == Prioritised(QueuedOf(a))
               slots == MaxConcurrent[a] - Cardinality(RunningOf(a))
               s == [pc |-> "check", queue |-> queue, slots |-> slots, claimed |-> {}]
    <3>1. /\ starter' = [starter EXCEPT ![a] = s]
          /\ ~(slots <= 0) /\ QueuedOf(a) # {}
      BY <1>1, <2>4 DEF StartBegin
    <3>2. QueuedOf(a) \in SUBSET Runs /\ QueuedOf(a) \subseteq UsedOf(a)
          /\ RunningOf(a) \in SUBSET Runs
      BY DEF QueuedOf, RunningOf, RunsWithStatus, UsedOf, Used
    <3>3. queue \in [1 .. Cardinality(QueuedOf(a)) -> QueuedOf(a)]
      BY <3>2, PrioritisedIsSorted
    <3>4. IsFiniteSet(QueuedOf(a)) /\ IsFiniteSet(RunningOf(a))
      BY <3>2, RunsAreNumbers, FS_Subset
    <3>5. Cardinality(QueuedOf(a)) \in Nat /\ Cardinality(QueuedOf(a)) # 0
          /\ Cardinality(RunningOf(a)) \in Nat
      BY <3>1, <3>4, FS_CardinalityType, FS_EmptySet
    <3>6. slots \in Nat /\ slots >= 1
      BY <3>1, <3>5, RunExecutionAssumption
    <3> HIDE DEF queue, slots
    <3>7. queue \in Seq(Runs) /\ Len(queue) = Cardinality(QueuedOf(a)) /\ queue # <<>>
      BY <3>2, <3>3, <3>5
    <3>8. s \in Starter
      BY <3>6, <3>7 DEF Starter
    <3>9. \A n \in 1 .. Len(s.queue) : s.queue[n] \in UsedOf(a)
      BY <3>2, <3>3, <3>7
    <3>10. s.claimed \subseteq UsedOf(a) /\ s.queue # <<>> /\ s.slots >= 1
      BY <3>6, <3>7
    <3> HIDE DEF s
    <3>11. StartersOK'
      BY <1>0, <2>1, <3>1, <3>8, <3>9, <3>10, WriteStarter, Zenon
    <3> QED BY <1>0, <1>1, <2>1, <2>2, <3>11, HandsUnchanged
            DEF StartBegin, KeepsTyped, Typed, HandsOK
  <2> QED BY <2>3, <2>4
<1>2. CASE ClaimCheck(a)
  <2> DEFINE r == Claiming(a)
  <2>1. RowsOK' /\ RunsKept /\ starter[a].pc # "idle" /\ starter[a].pc = "check"
    BY <1>0, <1>2, RowsUnchanged DEF ClaimCheck
  <2>2. r \in Used /\ r \in Runs
    BY <1>0, <2>1, ClaimingIsUsed
  <2>3. CASE StartNext(a, starter[a].claimed) /\ UNCHANGED cancel
    <3>1. StartersOK' /\ ExecsOK'
      BY <1>0, <1>2, <2>1, <2>3, StartNextOK DEF ClaimCheck
    <3> QED BY <1>0, <1>2, <2>1, <2>3, <3>1, HandsUnchanged
            DEF ClaimCheck, KeepsTyped, Typed, HandsOK
  <2>4. CASE starter' = [starter EXCEPT ![a].pc = "cas"] /\ UNCHANGED <<exec, cancel>>
    <3>1. StartersOK'
      BY <1>0, <2>1, <2>4, StarterGoes
    <3> QED BY <1>0, <1>2, <2>1, <2>4, <3>1, HandsUnchanged
            DEF ClaimCheck, KeepsTyped, Typed, HandsOK
  <2>5. CASE /\ cancel' = [cancel EXCEPT ![r] = [pc |-> "kill", by |-> "claim"]]
             /\ starter' = [starter EXCEPT ![a].pc = "cancel"]
             /\ UNCHANGED exec
    <3>1. StartersOK'
      BY <1>0, <2>1, <2>5, StarterGoes
    <3>2. [pc |-> "kill", by |-> "claim"] \in Cancel
      BY DEF Cancel
    <3>3. CancelsOK'
      BY <1>0, <1>2, <2>1, <2>2, <2>5, <3>2, UsedGrows DEF ClaimCheck, CancelsOK
    <3> QED BY <1>0, <1>2, <2>1, <2>5, <3>1, <3>3, HandsUnchanged
            DEF ClaimCheck, KeepsTyped, Typed, HandsOK
  <2> QED BY <1>2, <2>3, <2>4, <2>5 DEF ClaimCheck
<1>3. CASE ClaimCas(a)
  <2> DEFINE r == Claiming(a)
  <2>1. starter[a].pc # "idle" /\ r \in Used
    BY <1>0, <1>3, ClaimingIsUsed DEF ClaimCas
  <2>2. CASE run[r].status = "queued"
    <3>1. /\ run' = [run EXCEPT ![r].status = "running"]
          /\ starter' = [starter EXCEPT ![a].pc = "wake"]
          /\ UNCHANGED exec
      BY <1>3, <2>2 DEF ClaimCas
    <3>2. RowsOK' /\ RunsKept
      BY <1>0, <1>3, <2>1, <3>1, StatusWritten DEF ClaimCas, RunStatuses, ExecutionPath
    <3>3. StartersOK'
      BY <1>0, <2>1, <3>1, <3>2, StarterGoes
    <3> QED BY <1>0, <1>3, <3>1, <3>2, <3>3, HandsUnchanged
            DEF ClaimCas, KeepsTyped, Typed, HandsOK
  <2>3. CASE run[r].status # "queued"
    <3>1. StartNext(a, starter[a].claimed) /\ UNCHANGED run
      BY <1>3, <2>3 DEF ClaimCas
    <3>2. RowsOK' /\ RunsKept
      BY <1>0, <1>3, <3>1, RowsUnchanged DEF ClaimCas
    <3>3. StartersOK' /\ ExecsOK'
      BY <1>0, <1>3, <2>1, <3>1, <3>2, StartNextOK DEF ClaimCas
    <3> QED BY <1>0, <1>3, <3>1, <3>2, <3>3, HandsUnchanged
            DEF ClaimCas, KeepsTyped, Typed, HandsOK
  <2> QED BY <2>2, <2>3
<1>4. CASE ClaimWake(a)
  <2>1. starter[a].pc # "idle" /\ Claiming(a) \in Used
    BY <1>0, <1>4, ClaimingIsUsed DEF ClaimWake
  <2>2. RowsOK' /\ RunsKept
    <3>1. wake' = [wake EXCEPT ![run[Claiming(a)].wake].status = "claimed"]
          /\ UNCHANGED <<run, issue>>
      BY <1>4 DEF ClaimWake
    <3>2. "claimed" \in WakeStatuses \ {"deferred_issue_execution"}
      BY DEF WakeStatuses
    <3> QED BY <1>0, <2>1, <3>1, <3>2, WakeWritten
  <2>3. StartersOK'
    BY <1>0, <1>4, <2>1, <2>2, StarterGoes DEF ClaimWake
  <2> QED BY <1>0, <1>4, <2>2, <2>3, HandsUnchanged
          DEF ClaimWake, KeepsTyped, Typed, HandsOK
<1>5. CASE ClaimStamp(a)
  <2> DEFINE r == Claiming(a)
             i == run[r].issue
             row == IF issue[i].exec \in {NoRun, r} THEN LockedBy(issue[i], r, a) ELSE issue[i]
  <2>1. starter[a].pc # "idle" /\ r \in Used /\ r \in Runs
    BY <1>0, <1>5, ClaimingIsUsed DEF ClaimStamp
  <2>2. i \in Issues
    BY <1>0, <2>1, UsedRun DEF RowsOK, RunRow
  <2>3. GoodRow(row, i)
    BY <1>0, <2>1, <2>2, RowIsGood, LockedRow DEF GoodRow
  <2>4. issue' = [issue EXCEPT ![i] = row]
    BY <1>0, <1>5, <2>2 DEF ClaimStamp, RowsOK, RowsTyped
  <2> HIDE DEF row
  <2>5. RowsOK' /\ RunsKept
    <3>1. UNCHANGED <<run, wake>>
      BY <1>5 DEF ClaimStamp
    <3>2. Transaction
      BY <1>0, <2>2, <2>3, <2>4, <3>1, IssueWritten, Zenon
    <3> QED BY <3>2 DEF Transaction
  <2>6. StartersOK' /\ ExecsOK'
    BY <1>0, <1>5, <2>1, <2>5, StartNextOK DEF ClaimStamp
  <2> QED BY <1>0, <1>5, <2>5, <2>6, HandsUnchanged
          DEF ClaimStamp, KeepsTyped, Typed, HandsOK
<1> QED BY <1>1, <1>2, <1>3, <1>4, <1>5 DEF StarterStep

\* Whom a transaction asks to start a run.
LEMMA EnqueueWanted ==
  ASSUME wanted \subseteq Agents, NEW a \in Agents, NEW i, NEW comment, NEW reason,
         Enqueue(a, i, comment, reason)
  PROVE  wanted' \subseteq Agents
  BY DEF Enqueue, EnqueueSkipped, EnqueueCoalesced, EnqueueDeferred, EnqueueQueued

LEMMA ReleaseWanted ==
  ASSUME RowsOK, wanted \subseteq Agents, NEW r \in Used, NEW seen, NEW also \in SUBSET Agents,
         Release(r, seen, also)
  PROVE  wanted' \subseteq Agents
<1> DEFINE i == run[r].issue
<1>1. i \in Issues /\ run[r].agent \in Agents
  BY UsedRun DEF RowsOK, RunRow
<1>2. CASE ReleasePromote(r, also)
  <2>1. Oldest(Promotable(i)) \in Promotable(i)
    BY <1>1, <1>2, OldestDeferred DEF ReleasePromote, Promotable
  <2>2. wake[Oldest(Promotable(i))].agent \in Agents
    BY <2>1 DEF Promotable, Deferred, RowsOK, RowsTyped, WakeRow
  <2> QED BY <1>2, <2>2 DEF ReleasePromote
<1>3. CASE ~ReleasePromote(r, also)
  BY <1>1, <1>3 DEF Release, ReleaseBlock, ReleaseRecover, ReleaseOnly
<1> QED BY <1>2, <1>3

LEMMA WriteExec ==
  ASSUME RunsKept, ExecsOK, NEW r \in Used, NEW x \in Exec,
         x.pc \in Persisting => x.outcome # "none",
         exec' = [exec EXCEPT ![r] = x], proc' \subseteq proc \cup {r}
  PROVE  ExecsOK' /\ exec'[r] = x /\ \A q \in Runs \ {r} : exec'[q] = exec[q]
<1>1. r \in Runs /\ Used \subseteq Used'
  BY UsedGrows DEF Used
<1>2. exec' \in [Runs -> Exec] /\ exec'[r] = x /\ \A q \in Runs \ {r} : exec'[q] = exec[q]
  BY <1>1 DEF ExecsOK
<1>3. \A q \in Runs : /\ exec'[q].pc # "none" => q \in Used'
                      /\ exec'[q].pc \in Persisting => exec'[q].outcome # "none"
  BY <1>1, <1>2 DEF ExecsOK
<1>4. proc' \subseteq Used'
  BY <1>1 DEF ExecsOK
<1> QED BY <1>2, <1>3, <1>4 DEF ExecsOK

\* executeRun goes on to pc; what it has got stays.
LEMMA ExecGoes ==
  ASSUME RunsKept, ExecsOK, NEW r \in Used,
         NEW pc \in {"none", "checkout", "spawn", "adapter", "wake", "retry", "comment", "release"},
         pc \in Persisting => exec[r].pc \in Persisting,
         exec' = [exec EXCEPT ![r].pc = pc], proc' \subseteq proc \cup {r}
  PROVE  ExecsOK' /\ exec'[r].pc = pc /\ exec'[r].outcome = exec[r].outcome
         /\ \A q \in Runs \ {r} : exec'[q] = exec[q]
<1> DEFINE x == [exec[r] EXCEPT !.pc = pc]
<1>1. r \in Runs /\ exec[r] \in Exec /\ (exec[r].pc \in Persisting => exec[r].outcome # "none")
  BY DEF Used, ExecsOK
<1>2. x \in Exec /\ x.pc = pc /\ x.outcome = exec[r].outcome
  BY <1>1 DEF Exec
<1>3. exec' = [exec EXCEPT ![r] = x]
  OBVIOUS
<1> HIDE DEF x
<1>4. x.pc \in Persisting => x.outcome # "none"
  BY <1>1, <1>2
<1> QED BY <1>2, <1>3, <1>4, WriteExec

LEMMA ExecStepTyped ==
  ASSUME Typed, NEW r \in Runs, ExecStep(r)
  PROVE  KeepsTyped
<1>0. RowsOK /\ EnvironmentOK /\ StartersOK /\ ExecsOK /\ CancelsOK /\ ReaperOK /\ ReconOK
  BY DEF Typed, HandsOK
<1>u. exec[r].pc # "none" => r \in Used
  BY <1>0 DEF ExecsOK
<1>x. r \in Used => run[r].agent \in Agents /\ run[r].issue \in Issues /\ run[r] \in RunRow
  BY <1>0, UsedRun DEF RowsOK, RunRow
<1>1. CASE ExecBegin(r)
  <2>1. RowsOK' /\ RunsKept /\ r \in Used
    BY <1>0, <1>u, <1>1, RowsUnchanged DEF ExecBegin
  <2>2. ExecsOK'
    <3> DEFINE pc == IF Live(r) THEN "checkout" ELSE "none"
    <3>1. pc \in {"none", "checkout"} /\ exec' = [exec EXCEPT ![r].pc = pc] /\ proc' = proc
      BY <1>1 DEF ExecBegin
    <3> HIDE DEF pc
    <3>2. pc \notin Persisting
      BY <3>1 DEF Persisting
    <3> QED BY <1>0, <2>1, <3>1, <3>2, ExecGoes
  <2> QED BY <1>0, <1>1, <2>1, <2>2, HandsUnchanged DEF ExecBegin, KeepsTyped, Typed, HandsOK
<1>2. CASE ExecCheckout(r)
  <2>1. r \in Used
    BY <1>u, <1>2 DEF ExecCheckout
  <2>2. RowsOK' /\ RunsKept
    <3>1. UNCHANGED <<run, wake>>
      BY <1>2 DEF ExecCheckout
    <3>2. CASE UNCHANGED issue
      BY <1>0, <3>1, <3>2, RowsUnchanged
    <3>3. CASE issue' = [issue EXCEPT ![run[r].issue] = AutoCheckedOut(r)]
      <4>1. run[r].issue \in Issues /\ GoodRow(AutoCheckedOut(r), run[r].issue)
        BY <1>0, <2>1, AutoCheckedOutRow
      <4>2. Transaction
        BY <1>0, <3>1, <3>3, <4>1, IssueWritten
      <4> QED BY <4>2 DEF Transaction
    <3> QED BY <1>2, <3>2, <3>3 DEF ExecCheckout
  <2>3. ExecsOK'
    <3> DEFINE pc == IF run[r].agent \in LocalAgents THEN "spawn" ELSE "adapter"
    <3>1. pc \in {"spawn", "adapter"} /\ exec' = [exec EXCEPT ![r].pc = pc] /\ proc' = proc
      BY <1>2 DEF ExecCheckout
    <3> HIDE DEF pc
    <3>2. pc \notin Persisting
      BY <3>1 DEF Persisting
    <3> QED BY <1>0, <2>1, <2>2, <3>1, <3>2, ExecGoes
  <2> QED BY <1>0, <1>2, <2>2, <2>3, HandsUnchanged DEF ExecCheckout, KeepsTyped, Typed, HandsOK
<1>3. CASE ExecSpawn(r)
  <2>1. r \in Used
    BY <1>u, <1>3 DEF ExecSpawn
  <2> DEFINE row == [run[r] EXCEPT !.pid = TRUE]
  <2>2. row \in RunRow /\ row.agent = run[r].agent /\ row.issue = run[r].issue
        /\ row.wake = run[r].wake
    BY <1>x, <2>1 DEF RunRow
  <2>3. run' = [run EXCEPT ![r] = row] /\ UNCHANGED <<wake, issue>>
    BY <1>3 DEF ExecSpawn
  <2> HIDE DEF row
  <2>4. RowsOK' /\ RunsKept
    BY <1>0, <2>1, <2>2, <2>3, RunWritten
  <2>5. ExecsOK'
    BY <1>0, <1>3, <2>1, <2>4, ExecGoes DEF ExecSpawn, Persisting
  <2> QED BY <1>0, <1>3, <2>4, <2>5, HandsUnchanged DEF ExecSpawn, KeepsTyped, Typed, HandsOK
<1>4. CASE ExecReturn(r)
  <2>1. RowsOK' /\ RunsKept /\ r \in Used
    BY <1>0, <1>u, <1>4, RowsUnchanged DEF ExecReturn
  <2>2. PICK o \in DerivedOutcomes(r) : exec' = [exec EXCEPT ![r] = [pc |-> "persist", outcome |-> o]]
    BY <1>4 DEF ExecReturn
  <2>3. o \in Terminal
    BY RunExecutionAssumption DEF DerivedOutcomes, Dead, Terminal
  <2>4. [pc |-> "persist", outcome |-> o] \in Exec /\ o # "none"
    BY <2>3 DEF Exec, Terminal
  <2>5. ExecsOK'
    BY <1>0, <1>4, <2>1, <2>2, <2>4, WriteExec DEF ExecReturn
  <2> QED BY <1>0, <1>4, <2>1, <2>5, HandsUnchanged DEF ExecReturn, KeepsTyped, Typed, HandsOK
<1>5. CASE ExecThrow(r)
  <2>1. RowsOK' /\ RunsKept /\ r \in Used
    BY <1>0, <1>u, <1>5, RowsUnchanged DEF ExecThrow
  <2>2. [pc |-> "persist", outcome |-> "threw"] \in Exec
    BY DEF Exec
  <2>3. ExecsOK'
    BY <1>0, <1>5, <2>1, <2>2, WriteExec DEF ExecThrow
  <2>4. EnvironmentOK'
    BY <1>0, <1>5, EventTyped DEF ExecThrow, EventKinds, EnvironmentOK
  <2> QED BY <1>0, <1>5, <2>1, <2>3, <2>4, HandsUnchanged DEF ExecThrow, KeepsTyped, Typed, HandsOK
<1>6. CASE ExecPersist(r)
  <2>1. r \in Used
    BY <1>u, <1>6 DEF ExecPersist
  <2>2. Status(exec[r].outcome) \in RunStatuses
    BY <1>0, <1>6 DEF ExecPersist, ExecsOK, Exec, Status, RunStatuses, Terminal, Persisting
  <2>3. RowsOK' /\ RunsKept
    BY <1>0, <1>6, <2>1, <2>2, StatusWritten DEF ExecPersist
  <2>4. ExecsOK'
    BY <1>0, <1>6, <2>1, <2>3, ExecGoes DEF ExecPersist, Persisting
  <2> QED BY <1>0, <1>6, <2>3, <2>4, HandsUnchanged DEF ExecPersist, KeepsTyped, Typed, HandsOK
<1>7. CASE ExecWake(r)
  <2> DEFINE s == Status(exec[r].outcome)
             new == IF s = "succeeded" THEN "completed" ELSE s
  <2>1. r \in Used
    BY <1>u, <1>7 DEF ExecWake
  <2>2. new \in WakeStatuses \ {"deferred_issue_execution"}
    BY <1>0, <1>7 DEF ExecWake, ExecsOK, Exec, Status, WakeStatuses, Terminal, Persisting
  <2>3. wake' = [wake EXCEPT ![run[r].wake].status = new] /\ UNCHANGED <<run, issue>>
    BY <1>7 DEF ExecWake
  <2> HIDE DEF new
  <2>4. RowsOK' /\ RunsKept
    BY <1>0, <2>1, <2>2, <2>3, WakeWritten
  <2>5. ExecsOK'
    BY <1>0, <1>7, <2>1, <2>4, ExecGoes DEF ExecWake, Persisting
  <2>6. EnvironmentOK'
    BY <1>0, <1>7, EventTyped DEF ExecWake, EventKinds, EnvironmentOK
  <2> QED BY <1>0, <1>7, <2>4, <2>5, <2>6, HandsUnchanged DEF ExecWake, KeepsTyped, Typed, HandsOK
<1>8. CASE ExecRetry(r)
  <2>1. r \in Used
    BY <1>u, <1>8 DEF ExecRetry
  <2> DEFINE row == TransientRetry(r)
  <2>2. row \in RetryRow /\ row.issue = run[r].issue
        /\ row.status \in {"queued", "scheduled_retry"} /\ ~row.detached
    BY <1>0, <2>1, RetriesTyped DEF RowsOK
  <2>4. CASE run[r].attempt < RetryDelays
    <3>1. InsertRetry(r, row)
      BY <1>8, <2>4 DEF ExecRetry, TransientRetry
    <3> HIDE DEF row
    <3>2. Transaction
      BY <1>0, <2>1, <2>2, <3>1, InsertRetryRows
    <3>3. RowsOK' /\ RunsKept
      BY <3>2 DEF Transaction
    <3>4. ExecsOK'
      BY <1>0, <1>8, <2>1, <3>3, ExecGoes DEF ExecRetry, Persisting
    <3> QED BY <1>0, <1>8, <3>3, <3>4, HandsUnchanged DEF ExecRetry, KeepsTyped, Typed, HandsOK
  <2>5. CASE ~(run[r].attempt < RetryDelays)
    <3>1. RowsOK' /\ RunsKept
      BY <1>0, <1>8, <2>5, RowsUnchanged DEF ExecRetry
    <3>2. ExecsOK'
      BY <1>0, <1>8, <2>1, <3>1, ExecGoes DEF ExecRetry, Persisting
    <3> QED BY <1>0, <1>8, <3>1, <3>2, HandsUnchanged DEF ExecRetry, KeepsTyped, Typed, HandsOK
  <2> QED BY <2>4, <2>5
<1>9. CASE ExecComment(r)
  <2>1. r \in Used
    BY <1>u, <1>9 DEF ExecComment
  <2> DEFINE row == CommentRetry(r)
  <2>2. row \in RetryRow /\ row.issue = run[r].issue
        /\ row.status \in {"queued", "scheduled_retry"} /\ ~row.detached
    BY <1>0, <2>1, RetriesTyped DEF RowsOK
  <2>4. RowsOK' /\ RunsKept /\ EnvironmentOK'
    <3>1. CASE UNCHANGED <<run, wake, issue, events>>
      BY <1>0, <1>9, <3>1, RowsUnchanged DEF ExecComment, EnvironmentOK
    <3>2. CASE Event("silent") /\ InsertRetry(r, row)
      <4>1. EnvironmentOK'
        BY <1>0, <1>9, <3>2, EventTyped DEF ExecComment, EventKinds, EnvironmentOK
      <4> HIDE DEF row
      <4>2. Transaction
        BY <1>0, <2>1, <2>2, <3>2, InsertRetryRows
      <4> QED BY <4>1, <4>2, Zenon DEF Transaction
    <3>3. \/ UNCHANGED <<run, wake, issue, events>>
          \/ Event("silent") /\ InsertRetry(r, row)
      BY <1>9 DEF ExecComment, CommentRetry
    <3> QED BY <3>1, <3>2, <3>3
  <2>5. ExecsOK'
    BY <1>0, <1>9, <2>1, <2>4, ExecGoes DEF ExecComment, Persisting
  <2> QED BY <1>0, <1>9, <2>4, <2>5, HandsUnchanged DEF ExecComment, KeepsTyped, Typed, HandsOK
<1>10. CASE ExecRelease(r)
  <2>1. r \in Used
    BY <1>u, <1>10 DEF ExecRelease
  <2>2. Release(r, Status(exec[r].outcome), {run[r].agent})
    BY <1>10 DEF ExecRelease
  <2>3. Transaction
    BY <1>0, <2>1, <2>2, ReleaseRows
  <2>4. RowsOK' /\ RunsKept
    BY <2>3 DEF Transaction
  <2>5. NotExecuting \in Exec /\ NotExecuting.pc = "none"
    BY DEF NotExecuting, Exec
  <2>6. ExecsOK'
    BY <1>0, <1>10, <2>1, <2>4, <2>5, WriteExec DEF ExecRelease, Persisting
  <2>7. wanted' \subseteq Agents
    BY <1>0, <1>x, <2>1, <2>2, ReleaseWanted DEF EnvironmentOK
  <2>8. EnvironmentOK'
    BY <1>0, <1>10, <2>7 DEF ExecRelease, EnvironmentOK
  <2> QED BY <1>0, <1>10, <2>4, <2>6, <2>8, HandsUnchanged DEF ExecRelease, KeepsTyped, Typed, HandsOK
<1> QED BY <1>1, <1>2, <1>3, <1>4, <1>5, <1>6, <1>7, <1>8, <1>9, <1>10 DEF ExecStep

LEMMA WriteCancel ==
  ASSUME RunsKept, CancelsOK, NEW r \in Used, NEW x \in Cancel,
         cancel' = [cancel EXCEPT ![r] = x], sweep' \subseteq sweep
  PROVE  CancelsOK' /\ cancel'[r] = x /\ \A q \in Runs \ {r} : cancel'[q] = cancel[q]
<1>1. r \in Runs /\ Used \subseteq Used'
  BY UsedGrows DEF Used
<1>2. cancel' \in [Runs -> Cancel] /\ cancel'[r] = x /\ \A q \in Runs \ {r} : cancel'[q] = cancel[q]
  BY <1>1 DEF CancelsOK
<1> QED BY <1>1, <1>2 DEF CancelsOK

LEMMA CancelGoes ==
  ASSUME RunsKept, CancelsOK, NEW r \in Used,
         NEW pc \in {"none", "kill", "status", "wake", "release", "next"},
         cancel' = [cancel EXCEPT ![r].pc = pc], sweep' \subseteq sweep
  PROVE  CancelsOK' /\ cancel'[r].pc = pc /\ cancel'[r].by = cancel[r].by
         /\ \A q \in Runs \ {r} : cancel'[q] = cancel[q]
<1> DEFINE x == [cancel[r] EXCEPT !.pc = pc]
<1>1. r \in Runs /\ cancel[r] \in Cancel
  BY DEF Used, CancelsOK
<1>2. x \in Cancel /\ x.pc = pc /\ x.by = cancel[r].by
  BY <1>1 DEF Cancel
<1>3. cancel' = [cancel EXCEPT ![r] = x]
  OBVIOUS
<1> HIDE DEF x
<1> QED BY <1>2, <1>3, WriteCancel

LEMMA CancelStepTyped ==
  ASSUME Typed, NEW r \in Runs, CancelStep(r)
  PROVE  KeepsTyped
<1>0. RowsOK /\ EnvironmentOK /\ StartersOK /\ ExecsOK /\ CancelsOK /\ ReaperOK /\ ReconOK
  BY DEF Typed, HandsOK
<1>u. cancel[r].pc # "none" => r \in Used
  BY <1>0 DEF CancelsOK
<1>1. CASE SweepNext(r)
  <2>1. RowsOK' /\ RunsKept /\ r \in Used
    BY <1>0, <1>1, RowsUnchanged DEF SweepNext, CancelsOK
  <2>2. [pc |-> "status", by |-> "sweep"] \in Cancel
    BY DEF Cancel
  <2>3. CancelsOK'
    BY <1>0, <1>1, <2>1, <2>2, WriteCancel DEF SweepNext
  <2> QED BY <1>0, <1>1, <2>1, <2>3, HandsUnchanged DEF SweepNext, KeepsTyped, Typed, HandsOK
<1>2. CASE CancelKill(r)
  <2>1. RowsOK' /\ RunsKept /\ r \in Used
    BY <1>0, <1>u, <1>2, RowsUnchanged DEF CancelKill
  <2>2. CancelsOK'
    BY <1>0, <1>2, <2>1, CancelGoes DEF CancelKill
  <2>3. ExecsOK'
    BY <1>0, <1>2, <2>1, UsedGrows DEF CancelKill, ExecsOK
  <2> QED BY <1>0, <1>2, <2>1, <2>2, <2>3, HandsUnchanged
          DEF CancelKill, KeepsTyped, Typed, HandsOK
<1>3. CASE CancelStatus(r)
  <2>1. r \in Used
    BY <1>u, <1>3 DEF CancelStatus
  <2>2. RowsOK' /\ RunsKept
    <3>1. "cancelled" \in RunStatuses
      BY DEF RunStatuses, Terminal
    <3> QED BY <1>0, <1>3, <2>1, <3>1, StatusWritten DEF CancelStatus
  <2>3. CancelsOK'
    BY <1>0, <1>3, <2>1, <2>2, CancelGoes DEF CancelStatus
  <2> QED BY <1>0, <1>3, <2>2, <2>3, HandsUnchanged DEF CancelStatus, KeepsTyped, Typed, HandsOK
<1>4. CASE CancelWake(r)
  <2>1. r \in Used
    BY <1>u, <1>4 DEF CancelWake
  <2>2. RowsOK' /\ RunsKept
    <3>1. wake' = [wake EXCEPT ![run[r].wake].status = "cancelled"] /\ UNCHANGED <<run, issue>>
      BY <1>4 DEF CancelWake
    <3>2. "cancelled" \in WakeStatuses \ {"deferred_issue_execution"}
      BY DEF WakeStatuses
    <3> QED BY <1>0, <2>1, <3>1, <3>2, WakeWritten
  <2>3. CancelsOK'
    BY <1>0, <1>4, <2>1, <2>2, CancelGoes DEF CancelWake
  <2> QED BY <1>0, <1>4, <2>2, <2>3, HandsUnchanged DEF CancelWake, KeepsTyped, Typed, HandsOK
<1>5. CASE CancelRelease(r)
  <2> DEFINE by == cancel[r].by
             seen == IF by = "sweep" THEN "running" ELSE "cancelled"
             also == IF by = "sweep" THEN {} ELSE {run[r].agent}
  <2>1. r \in Used /\ run[r].agent \in Agents
    BY <1>0, <1>u, <1>5, UsedRun DEF CancelRelease, RowsOK, RunRow
  <2>2. Release(r, seen, also)
    BY <1>5 DEF CancelRelease
  <2>3. also \in SUBSET Agents
    BY <2>1
  <2> HIDE DEF seen, also
  <2>4. Transaction
    BY <1>0, <2>1, <2>2, ReleaseRows
  <2>5. RowsOK' /\ RunsKept
    BY <2>4 DEF Transaction
  <2>6. wanted' \subseteq Agents
    BY <1>0, <2>1, <2>2, <2>3, ReleaseWanted DEF EnvironmentOK
  <2>7. EnvironmentOK'
    BY <1>0, <1>5, <2>6 DEF CancelRelease, EnvironmentOK
  <2>8. CancelsOK'
    <3>1. CASE by = "claim"
      <4>1. cancel' = [cancel EXCEPT ![r].pc = "next"] /\ sweep' = sweep
        BY <1>5, <3>1 DEF CancelRelease
      <4> QED BY <1>0, <2>1, <2>5, <4>1, CancelGoes
    <3>2. CASE by # "claim"
      <4>1. cancel' = [cancel EXCEPT ![r] = NoCancel] /\ sweep' = sweep
        BY <1>5, <3>2 DEF CancelRelease
      <4>2. NoCancel \in Cancel
        BY DEF NoCancel, Cancel
      <4> QED BY <1>0, <2>1, <2>5, <4>1, <4>2, WriteCancel
    <3> QED BY <3>1, <3>2
  <2> QED BY <1>0, <1>5, <2>5, <2>7, <2>8, HandsUnchanged
          DEF CancelRelease, KeepsTyped, Typed, HandsOK
<1> QED BY <1>1, <1>2, <1>3, <1>4, <1>5 DEF CancelStep

LEMMA ReaperStepTyped ==
  ASSUME Typed, ReaperStep
  PROVE  KeepsTyped
<1>0. RowsOK /\ EnvironmentOK /\ StartersOK /\ ExecsOK /\ CancelsOK /\ ReaperOK /\ ReconOK
  BY DEF Typed, HandsOK
<1>t. reaper \in Reaper /\ reaper.list \subseteq Used /\ Used \subseteq Runs
  BY <1>0 DEF ReaperOK, Used
<1>1. CASE ReapScan
  <2>1. RowsOK' /\ RunsKept /\ Used' = Used
    BY <1>0, <1>1, RowsUnchanged DEF ReapScan
  <2> DEFINE orphans == {r \in RunsWithStatus("running") : ~InMemory(r) /\ (booting \/ ~InHand(r))}
  <2>2. orphans \subseteq Used
    BY DEF RunsWithStatus, Used
  <2>3. reaper' = [reaper EXCEPT !.list = orphans] /\ reaper.pc = "none" /\ booting' = FALSE
    BY <1>1 DEF ReapScan
  <2> HIDE DEF orphans
  <2>4. ReaperOK'
    BY <1>0, <1>t, <2>1, <2>2, <2>3 DEF ReaperOK, Reaper
  <2>5. EnvironmentOK'
    BY <1>0, <1>1, <2>3 DEF ReapScan, EnvironmentOK
  <2> QED BY <1>0, <1>1, <2>1, <2>4, <2>5, HandsUnchanged
          DEF ReapScan, KeepsTyped, Typed, HandsOK
<1>2. ASSUME NEW r \in Runs, ReapExamine(r)
      PROVE  KeepsTyped
  <2>1. reaper.pc = "none" /\ r \in reaper.list /\ r \in Used
    BY <1>2, <1>t DEF ReapExamine
  <2>2. RowsOK' /\ RunsKept /\ Used' = Used
    <3>1. CASE run' = run
      BY <1>0, <1>2, <3>1, RowsUnchanged DEF ReapExamine
    <3>2. CASE run' = [run EXCEPT ![r].status = "failed"]
      <4>1. "failed" \in RunStatuses
        BY DEF RunStatuses, Terminal
      <4> QED BY <1>0, <1>2, <2>1, <3>2, <4>1, StatusWritten DEF ReapExamine
    <3>3. CASE run' = [run EXCEPT ![r].status = "running", ![r].detached = TRUE]
      <4> DEFINE row == [run[r] EXCEPT !.status = "running", !.detached = TRUE]
      <4>1. run[r] \in RunRow
        BY <1>0, <2>1, UsedRun DEF RowsOK
      <4>2. row \in RunRow /\ row.agent = run[r].agent /\ row.issue = run[r].issue
            /\ row.wake = run[r].wake
        BY <4>1 DEF RunRow, RunStatuses, ExecutionPath
      <4>3. run' = [run EXCEPT ![r] = row]
        BY <1>0, <2>1, <3>3 DEF RowsOK, RowsTyped, Used
      <4> HIDE DEF row
      <4> QED BY <1>0, <1>2, <2>1, <4>2, <4>3, RunWritten DEF ReapExamine
    <3> QED BY <1>2, <3>1, <3>2, <3>3 DEF ReapExamine
  <2>3. ReaperOK'
    <3>1. CASE reaper' = [reaper EXCEPT !.list = @ \ {r}]
      BY <1>0, <1>t, <2>1, <2>2, <3>1 DEF ReaperOK, Reaper
    <3>2. CASE reaper' = [pc |-> "wake", run |-> r, list |-> reaper.list \ {r}]
      BY <1>0, <1>t, <2>1, <2>2, <3>2 DEF ReaperOK, Reaper
    <3> QED BY <1>2, <3>1, <3>2 DEF ReapExamine
  <2> QED BY <1>0, <1>2, <2>2, <2>3, HandsUnchanged
          DEF ReapExamine, KeepsTyped, Typed, HandsOK
<1>3. CASE ReapWake
  <2>1. reaper.run \in Used /\ reaper.pc = "wake"
    BY <1>0, <1>3 DEF ReapWake, ReaperOK
  <2>2. RowsOK' /\ RunsKept /\ Used' = Used
    <3>1. wake' = [wake EXCEPT ![run[reaper.run].wake].status = "failed"] /\ UNCHANGED <<run, issue>>
      BY <1>3 DEF ReapWake
    <3>2. "failed" \in WakeStatuses \ {"deferred_issue_execution"}
      BY DEF WakeStatuses
    <3> QED BY <1>0, <2>1, <3>1, <3>2, WakeWritten
  <2>3. ReaperOK'
    <3> DEFINE pc == IF run[reaper.run].pid /\ run[reaper.run].lost < 1 THEN "retry" ELSE "release"
    <3>1. pc \in {"retry", "release"} /\ reaper' = [reaper EXCEPT !.pc = pc]
      BY <1>3 DEF ReapWake
    <3> HIDE DEF pc
    <3> QED BY <1>0, <1>t, <2>1, <2>2, <3>1 DEF ReaperOK, Reaper
  <2> QED BY <1>0, <1>3, <2>2, <2>3, HandsUnchanged
          DEF ReapWake, KeepsTyped, Typed, HandsOK
<1>4. CASE ReapRetry
  <2> DEFINE r == reaper.run
             row == LostRetry(r)
  <2>1. r \in Used
    BY <1>0, <1>4 DEF ReapRetry, ReaperOK
  <2>2. row \in RetryRow /\ row.issue = run[r].issue
        /\ row.status \in {"queued", "scheduled_retry"} /\ ~row.detached
    BY <1>0, <2>1, RetriesTyped DEF RowsOK
  <2>4. InsertRetry(r, row)
    BY <1>4 DEF ReapRetry, LostRetry
  <2> HIDE DEF row
  <2>5. Transaction
    BY <1>0, <2>1, <2>2, <2>4, InsertRetryRows
  <2>6. RowsOK' /\ RunsKept
    BY <2>5 DEF Transaction
  <2>7. run[r].agent \in Agents
    BY <1>0, <2>1, UsedRun DEF RowsOK, RunRow
  <2>8. EnvironmentOK'
    BY <1>0, <1>4, <2>7 DEF ReapRetry, EnvironmentOK
  <2>9. ReaperOK'
    BY <1>0, <1>4, <1>t, <2>6, UsedGrows DEF ReapRetry, ReaperOK, Reaper
  <2> QED BY <1>0, <1>4, <2>6, <2>8, <2>9, HandsUnchanged
          DEF ReapRetry, KeepsTyped, Typed, HandsOK
<1>5. CASE ReapRelease
  <2> DEFINE r == reaper.run
  <2>1. r \in Used
    BY <1>0, <1>5 DEF ReapRelease, ReaperOK
  <2>2. run[r].agent \in Agents
    BY <1>0, <2>1, UsedRun DEF RowsOK, RunRow
  <2>3. Release(r, "failed", {run[r].agent})
    BY <1>5 DEF ReapRelease
  <2>4. Transaction
    BY <1>0, <2>1, <2>3, ReleaseRows
  <2>5. RowsOK' /\ RunsKept
    BY <2>4 DEF Transaction
  <2>6. wanted' \subseteq Agents
    BY <1>0, <2>1, <2>2, <2>3, ReleaseWanted DEF EnvironmentOK
  <2>7. EnvironmentOK'
    BY <1>0, <1>5, <2>6 DEF ReapRelease, EnvironmentOK
  <2>8. ReaperOK'
    BY <1>0, <1>5, <1>t, <2>5, UsedGrows DEF ReapRelease, ReaperOK, Reaper
  <2> QED BY <1>0, <1>5, <2>5, <2>7, <2>8, HandsUnchanged
          DEF ReapRelease, KeepsTyped, Typed, HandsOK
<1> QED BY <1>1, <1>2, <1>3, <1>4, <1>5 DEF ReaperStep

LEMMA ReconStepTyped ==
  ASSUME Typed, ReconStep
  PROVE  KeepsTyped
<1>0. RowsOK /\ EnvironmentOK /\ StartersOK /\ ExecsOK /\ CancelsOK /\ ReaperOK /\ ReconOK
  BY DEF Typed, HandsOK
<1>n. NoRecon \in Recon /\ NoRecon.pc = "none"
  BY DEF NoRecon, Recon, RetryReasons
<1>1. ASSUME NEW i \in Issues, ReconcileFind(i)
      PROVE  KeepsTyped
  <2>1. RowsOK' /\ RunsKept
    BY <1>0, <1>1, RowsUnchanged DEF ReconcileFind
  <2>2. EnvironmentOK'
    BY <1>0, <1>1, EventTyped DEF ReconcileFind, EventKinds, EnvironmentOK
  <2>3. RecoveryReason(issue[i].status) \in RetryReasons
    BY DEF RecoveryReason, RetryReasons
  <2>4. issue[i].assignee \in Agents
    BY <1>1 DEF ReconcileFind, Stranded
  <2>5. PICK pc \in {"escalate", "recover"} :
          recon' = [pc |-> pc, issue |-> i, agent |-> issue[i].assignee,
                    reason |-> RecoveryReason(issue[i].status)]
    BY <1>1 DEF ReconcileFind
  <2>6. ReconOK'
    BY <2>3, <2>4, <2>5 DEF ReconOK, Recon
  <2> QED BY <1>0, <1>1, <2>1, <2>2, <2>6, HandsUnchanged
          DEF ReconcileFind, KeepsTyped, Typed, HandsOK
<1>2. CASE ReconcileEscalate
  <2> DEFINE i == recon.issue
             row == Updated(issue[i], StatusPatch("blocked"))
  <2>1. i \in Issues
    BY <1>0, <1>2 DEF ReconcileEscalate, ReconOK
  <2>2. GoodRow(issue[i], i) /\ issue[i] \in Row
    BY <1>0, <2>1, RowIsGood DEF GoodRow
  <2>3. row \in Row /\ row.exec = NoRun /\ row.checkout = NoRun
    BY <2>2, PatchedRow DEF IssueStatuses
  <2>4. issue' = [issue EXCEPT ![i] = row] /\ UNCHANGED <<run, wake>>
    BY <1>2 DEF ReconcileEscalate
  <2> HIDE DEF row
  <2>5. GoodRow(row, i)
    BY <2>3 DEF GoodRow
  <2>6. Transaction
    BY <1>0, <2>1, <2>4, <2>5, IssueWritten
  <2>7. RowsOK' /\ RunsKept
    BY <2>6 DEF Transaction
  <2>8. ReconOK'
    BY <1>2, <1>n DEF ReconcileEscalate, ReconOK
  <2> QED BY <1>0, <1>2, <2>7, <2>8, HandsUnchanged
          DEF ReconcileEscalate, KeepsTyped, Typed, HandsOK
<1>3. CASE ReconcileRecover
  <2>1. ReconOK'
    BY <1>3, <1>n DEF ReconcileRecover, ReconOK
  <2>2. CASE UNCHANGED <<run, wake, issue, wanted>>
    <3>1. RowsOK' /\ RunsKept
      BY <1>0, <2>2, RowsUnchanged
    <3> QED BY <1>0, <1>3, <2>1, <2>2, <3>1, HandsUnchanged
            DEF ReconcileRecover, KeepsTyped, Typed, HandsOK
  <2>3. CASE Enqueue(recon.agent, recon.issue, FALSE, recon.reason)
    <3>1. recon.issue \in Issues /\ recon.agent \in Agents /\ recon.reason \in RetryReasons
      BY <1>0, <1>3 DEF ReconcileRecover, ReconOK, Recon
    <3>2. Transaction
      BY <1>0, <2>3, <3>1, EnqueueRows
    <3>3. RowsOK' /\ RunsKept
      BY <3>2 DEF Transaction
    <3>4. wanted' \subseteq Agents
      BY <1>0, <2>3, <3>1, EnqueueWanted DEF EnvironmentOK
    <3>5. EnvironmentOK'
      BY <1>0, <1>3, <3>4 DEF ReconcileRecover, EnvironmentOK
    <3> QED BY <1>0, <1>3, <2>1, <3>3, <3>5, HandsUnchanged
            DEF ReconcileRecover, KeepsTyped, Typed, HandsOK
  <2> QED BY <1>3, <2>2, <2>3 DEF ReconcileRecover
<1> QED BY <1>1, <1>2, <1>3 DEF ReconStep

LEMMA EditedRow ==
  ASSUME RowsOK, NEW i \in Issues, NEW patch \in Patches
  PROVE  GoodRow(Updated(issue[i], patch), i)
<1>1. GoodRow(issue[i], i) /\ issue[i] \in Row
  BY RowIsGood DEF GoodRow
<1>2. Updated(issue[i], patch) \in Row
      /\ Updated(issue[i], patch).exec \in {NoRun, issue[i].exec}
      /\ Updated(issue[i], patch).checkout \in {NoRun, issue[i].checkout}
  BY <1>1, UpdatedRow
<1> QED BY <1>1, <1>2 DEF GoodRow

LEMMA EnvironmentTyped ==
  ASSUME Typed, Environment
  PROVE  KeepsTyped
<1>0. RowsOK /\ EnvironmentOK /\ StartersOK /\ ExecsOK /\ CancelsOK /\ ReaperOK /\ ReconOK
  BY DEF Typed, HandsOK
<1>1. ASSUME NEW a \in Agents, NEW i \in Issues, NEW comment \in CommentWakes,
             WakeAgent(a, i, comment)
      PROVE  KeepsTyped
  <2>1. Enqueue(a, i, comment, "none") /\ Event("wake") /\ comment \in BOOLEAN
        /\ "none" \in RetryReasons
    BY <1>1, RunExecutionAssumption DEF WakeAgent, RetryReasons
  <2>2. Transaction
    BY <1>0, <2>1, EnqueueRows
  <2>3. RowsOK' /\ RunsKept
    BY <2>2 DEF Transaction
  <2>4. wanted' \subseteq Agents
    BY <1>0, <2>1, EnqueueWanted DEF EnvironmentOK
  <2>5. EnvironmentOK'
    BY <1>0, <1>1, <2>1, <2>4, EventTyped DEF WakeAgent, EventKinds, EnvironmentOK
  <2> QED BY <1>0, <1>1, <2>3, <2>5, HandsUnchanged DEF WakeAgent, KeepsTyped, Typed, HandsOK
<1>2. ASSUME NEW r \in Runs, CancelRequest(r)
      PROVE  KeepsTyped
  <2>1. RowsOK' /\ RunsKept /\ r \in Used
    BY <1>0, <1>2, RowsUnchanged DEF CancelRequest, Used
  <2>2. [pc |-> "kill", by |-> "request"] \in Cancel
    BY DEF Cancel
  <2>3. CancelsOK'
    BY <1>0, <1>2, <2>1, <2>2, WriteCancel DEF CancelRequest
  <2>4. EnvironmentOK'
    BY <1>0, <1>2, EventTyped DEF CancelRequest, EventKinds, EnvironmentOK
  <2> QED BY <1>0, <1>2, <2>1, <2>3, <2>4, HandsUnchanged
          DEF CancelRequest, KeepsTyped, Typed, HandsOK
<1>3. ASSUME NEW r \in Runs, OrphanExits(r)
      PROVE  KeepsTyped
  <2>1. RowsOK' /\ RunsKept
    BY <1>0, <1>3, RowsUnchanged DEF OrphanExits
  <2>2. ExecsOK'
    BY <1>0, <1>3, <2>1, UsedGrows DEF OrphanExits, ExecsOK
  <2> QED BY <1>0, <1>3, <2>1, <2>2, HandsUnchanged DEF OrphanExits, KeepsTyped, Typed, HandsOK
<1>4. ASSUME NEW a \in Agents, Pause(a)
      PROVE  KeepsTyped
  <2>1. RowsOK' /\ RunsKept
    BY <1>0, <1>4, RowsUnchanged DEF Pause
  <2>2. EnvironmentOK'
    BY <1>0, <1>4, EventTyped DEF Pause, EventKinds, EnvironmentOK
  <2>3. CancelsOK'
    <3>1. sweep' \subseteq Used
      BY <1>4 DEF Pause, Used
    <3> QED BY <1>0, <1>4, <2>1, <3>1, UsedGrows DEF Pause, CancelsOK
  <2> QED BY <1>0, <1>4, <2>1, <2>2, <2>3, HandsUnchanged DEF Pause, KeepsTyped, Typed, HandsOK
<1>5. ASSUME NEW a \in Agents, Resume(a) \/ BudgetStop(a) \/ BudgetResume(a)
      PROVE  KeepsTyped
  <2>1. /\ UNCHANGED <<run, wake, issue>> /\ UNCHANGED <<starter, exec, proc>>
        /\ UNCHANGED <<cancel, sweep>> /\ UNCHANGED <<reaper, recon>>
    BY <1>5 DEF Resume, BudgetStop, BudgetResume
  <2>2. RowsOK' /\ RunsKept
    BY <1>0, <2>1, RowsUnchanged
  <2>3. EnvironmentOK'
    BY <1>0, <1>5, EventTyped DEF Resume, BudgetStop, BudgetResume, EventKinds, EnvironmentOK
  <2> QED BY <1>0, <2>1, <2>2, <2>3, HandsUnchanged DEF KeepsTyped, Typed, HandsOK
<1>6. CASE Crash
  <2>1. RowsOK' /\ RunsKept /\ Used' = Used
    BY <1>0, <1>6, RowsUnchanged DEF Crash
  <2>2. EnvironmentOK'
    BY <1>0, <1>6, EventTyped DEF Crash, EventKinds, EnvironmentOK
  <2>3. StartersOK'
    BY <1>6, IdleIsStarter DEF Crash, StartersOK
  <2>4. ExecsOK'
    <3>1. NotExecuting \in Exec /\ NotExecuting.pc = "none" /\ "none" \notin Persisting
      BY DEF NotExecuting, Exec, Persisting
    <3> QED BY <1>0, <1>6, <2>1, <3>1 DEF Crash, ExecsOK
  <2>5. CancelsOK'
    BY <1>6 DEF Crash, CancelsOK, NoCancel, Cancel
  <2>6. ReaperOK' /\ ReconOK'
    BY <1>6 DEF Crash, ReaperOK, ReconOK, Reaper, Recon, NoRecon, RetryReasons
  <2> QED BY <2>1, <2>2, <2>3, <2>4, <2>5, <2>6 DEF KeepsTyped, Typed, HandsOK
<1>7. ASSUME NEW i \in Issues, EditIssue(i)
      PROVE  KeepsTyped
  <2>1. issue \in [Issues -> Row] /\ UNCHANGED <<run, wake>>
    BY <1>0, <1>7 DEF RowsOK, RowsTyped, EditIssue
  <2>2. PICK row : GoodRow(row, i) /\ issue' = [issue EXCEPT ![i] = row]
    <3>1. CASE issue' = [issue EXCEPT ![i].ready = ~@]
      <4> DEFINE row == [issue[i] EXCEPT !.ready = ~@]
      <4>1. GoodRow(issue[i], i)
        BY <1>0, RowIsGood
      <4>2. row \in Row /\ row.exec = issue[i].exec /\ row.checkout = issue[i].checkout
        BY <2>1 DEF Row
      <4>3. issue' = [issue EXCEPT ![i] = row]
        BY <3>1
      <4> HIDE DEF row
      <4>4. GoodRow(row, i)
        BY <4>1, <4>2 DEF GoodRow
      <4> QED BY <4>3, <4>4
    <3>2. CASE \E patch \in Patches : issue' = [issue EXCEPT ![i] = Updated(@, patch)]
      <4>1. PICK patch \in Patches : issue' = [issue EXCEPT ![i] = Updated(@, patch)]
        BY <3>2
      <4>2. GoodRow(Updated(issue[i], patch), i)
        BY <1>0, EditedRow
      <4> QED BY <4>1, <4>2
    <3> QED BY <1>7, <3>1, <3>2 DEF EditIssue
  <2>3. Transaction
    BY <1>0, <2>1, <2>2, IssueWritten
  <2>4. RowsOK' /\ RunsKept
    BY <2>3 DEF Transaction
  <2>5. EnvironmentOK'
    BY <1>0, <1>7, EventTyped DEF EditIssue, EventKinds, EnvironmentOK
  <2> QED BY <1>0, <1>7, <2>4, <2>5, HandsUnchanged DEF EditIssue, KeepsTyped, Typed, HandsOK
<1> QED BY <1>1, <1>2, <1>3, <1>4, <1>5, <1>6, <1>7 DEF Environment

LEMMA TimerStepTyped ==
  ASSUME Typed,
         \/ \E a \in Agents : ResumeQueued(a) \/ CancelPendingWakes(a)
         \/ \E r \in Runs : PromoteScheduled(r)
  PROVE  KeepsTyped
<1>0. RowsOK /\ EnvironmentOK /\ StartersOK /\ ExecsOK /\ CancelsOK /\ ReaperOK /\ ReconOK
  BY DEF Typed, HandsOK
<1>1. ASSUME NEW a \in Agents, ResumeQueued(a)
      PROVE  KeepsTyped
  <2>1. RowsOK' /\ RunsKept
    BY <1>0, <1>1, RowsUnchanged DEF ResumeQueued
  <2>2. EnvironmentOK'
    BY <1>0, <1>1 DEF ResumeQueued, EnvironmentOK
  <2> QED BY <1>0, <1>1, <2>1, <2>2, HandsUnchanged DEF ResumeQueued, KeepsTyped, Typed, HandsOK
<1>2. ASSUME NEW a \in Agents, CancelPendingWakes(a)
      PROVE  KeepsTyped
  <2> DEFINE pending == {w \in Wakes : /\ wake[w] # NoRow
                                       /\ wake[w].agent = a /\ wake[w].run = NoRun
                                       /\ wake[w].status \in {"queued", "deferred_issue_execution"}}
  <2>1. wake' = [w \in Wakes |-> IF w \in pending THEN [wake[w] EXCEPT !.status = "cancelled"]
                                 ELSE wake[w]]
    BY <1>2 DEF CancelPendingWakes
  <2>2. run' = run /\ issue' = issue
    BY <1>2 DEF CancelPendingWakes
  <2>3. ASSUME NEW w \in pending
        PROVE  LET x == [wake[w] EXCEPT !.status = "cancelled"] IN
               x \in WakeRow /\ x # NoRow /\ x.status = "cancelled" /\ x.run = wake[w].run
    <3>1. wake[w] \in WakeRow
      BY <1>0 DEF RowsOK, RowsTyped
    <3> QED BY <3>1, NoRowIsNoRun DEF WakeRow, WakeStatuses
  <2>4. \A w \in Wakes \ pending : wake'[w] = wake[w]
    BY <2>1
  <2>5. \A w \in pending : /\ wake'[w] \in WakeRow /\ wake'[w] # NoRow
                           /\ wake'[w].status = "cancelled" /\ wake'[w].run = wake[w].run
    BY <2>1, <2>3
  <2>6. wake' \in [Wakes -> WakeRow \cup {NoRow}]
    <3>1. \A w \in Wakes : wake'[w] \in WakeRow \cup {NoRow}
      BY <1>0, <2>4, <2>5 DEF RowsOK, RowsTyped
    <3>2. wake' = [w \in Wakes |-> wake'[w]]
      BY <2>1
    <3> HIDE DEF pending
    <3> QED BY <3>1, <3>2
  <2> HIDE DEF pending
  <2>7. WakesKept /\ DeferredHasNoRun'
    <3>1. WakesKept
      BY <2>4, <2>5 DEF WakesKept
    <3>2. DeferredHasNoRun'
      BY <1>0, <2>4, <2>5 DEF DeferredHasNoRun, RowsOK
    <3> QED BY <3>1, <3>2
  <2>8. RunsKept /\ Used' = Used
    BY <2>2, SameRunsKept
  <2>9. RowsOK'
    <3>1. RowsTyped'
      BY <1>0, <2>2, <2>6 DEF RowsOK, RowsTyped
    <3>2. \A i \in Issues : /\ issue'[i].checkout \in Used' \cup {NoRun}
                            /\ issue'[i].exec \in Used' \cup {NoRun}
                            /\ issue'[i].exec # NoRun => run'[issue'[i].exec].issue = i
      BY <1>0, <2>2, <2>8 DEF RowsOK, LocksAreRuns
    <3> QED BY <1>0, <2>7, <2>8, <3>1, <3>2, RowsStep
  <2> QED BY <1>0, <1>2, <2>8, <2>9, HandsUnchanged
          DEF CancelPendingWakes, KeepsTyped, Typed, HandsOK
<1>3. ASSUME NEW r \in Runs, PromoteScheduled(r)
      PROVE  KeepsTyped
  <2>1. r \in Used
    BY <1>3 DEF PromoteScheduled, Used, NoRow
  <2>2. RowsOK' /\ RunsKept
    <3>1. "queued" \in RunStatuses
      BY DEF RunStatuses, ExecutionPath
    <3> QED BY <1>0, <1>3, <2>1, <3>1, StatusWritten DEF PromoteScheduled
  <2> QED BY <1>0, <1>3, <2>2, HandsUnchanged DEF PromoteScheduled, KeepsTyped, Typed, HandsOK
<1> QED BY <1>1, <1>2, <1>3

LEMMA NextTyped ==
  ASSUME Typed, [Next]_vars
  PROVE  KeepsTyped
<1>1. CASE Next
  BY <1>1, EnvironmentTyped, TimerStepTyped, StarterStepTyped, ExecStepTyped, CancelStepTyped,
     ReaperStepTyped, ReconStepTyped DEF Next
<1>2. CASE UNCHANGED vars
  <2>1. /\ UNCHANGED <<run, wake, issue>> /\ UNCHANGED <<starter, exec, proc>>
        /\ UNCHANGED <<cancel, sweep>> /\ UNCHANGED <<reaper, recon>>
        /\ UNCHANGED <<paused, stopped, wanted, booting, events>>
    BY <1>2 DEF vars
  <2>2. RowsOK' /\ RunsKept
    BY <2>1, RowsUnchanged DEF Typed
  <2> QED BY <2>1, <2>2, HandsUnchanged DEF KeepsTyped, Typed, HandsOK
<1> QED BY <1>1, <1>2

LEMMA InitTyped == Init => Typed
<1> SUFFICES ASSUME Init
             PROVE  Typed
  OBVIOUS
<1>1. Used = {}
  BY DEF Init, Used
<1>2. RowsTyped
  BY IssueRowAssumption, RunExecutionAssumption DEF Init, RowsTyped, Row, IssueStatuses
<1>3. RowsOK
  BY <1>1, <1>2 DEF Init, RowsOK, RunHasWake, DeferredHasNoRun, LocksAreRuns
<1>4. EnvironmentOK
  BY DEF Init, EnvironmentOK
<1>5. StartersOK
  BY IdleIsStarter DEF Init, StartersOK
<1>6. ExecsOK
  BY DEF Init, ExecsOK, Exec, NotExecuting, Persisting
<1>7. CancelsOK
  BY DEF Init, CancelsOK, Cancel, NoCancel
<1>8. ReaperOK /\ ReconOK
  BY DEF Init, ReaperOK, ReconOK, Reaper, Recon, NoRecon, RetryReasons
<1> QED BY <1>3, <1>4, <1>5, <1>6, <1>7, <1>8 DEF Typed, HandsOK

\* In every reachable state the rows and the handlers are in order: each run has its wake,
\* locks and handlers name runs that there are, and a start lock's holder has work left.
THEOREM RowsAndHands == Spec => []Typed
<1>1. Typed /\ [Next]_vars => Typed'
  BY NextTyped DEF KeepsTyped
<1> QED BY InitTyped, <1>1, PTL DEF Spec

\* The rows of runs, wakes and issues, and the state of every handler, have their types.
THEOREM TypeCorrect == Spec => []TypeOK
<1>1. Typed => TypeOK
  BY DEF Typed, HandsOK, RowsOK, RowsTyped, EnvironmentOK, StartersOK, ExecsOK, CancelsOK,
         ReaperOK, ReconOK, TypeOK, Used
<1> QED BY RowsAndHands, <1>1, PTL
=============================================================================
