-------------------------- MODULE RunExecution_proofs --------------------------
(***************************************************************************)
(* Theorems about RunExecution (2): what holds whatever crashes.  Finished *)
(* runs stay finished, a retry replaces a run whose child is gone, locks   *)
(* and deferred wakes are one per issue and agent, and an agent's runs     *)
(* keep within its slots.                                                  *)
(***************************************************************************)
EXTENDS RunExecution_types

-----------------------------------------------------------------------------
(***************************************************************************)
(* What each handler's steps do to the runs' statuses and to the other     *)
(* handlers.  The proofs of the invariants work with these summaries.      *)
(***************************************************************************)

\* The status of run r changes to s, and no other.
OnlyBecomes(r, s) ==
  /\ run'[r].status = s /\ run'[r].detached = run[r].detached
  /\ \A q \in Used \ {r} : run'[q].status = run[q].status /\ run'[q].detached = run[q].detached
  /\ Used' = Used

Quietly(E) == \A e \in EventKinds \ E : events'[e] = events[e]

ExecMoves == {<<"begin", "none">>, <<"begin", "checkout">>, <<"checkout", "spawn">>,
              <<"checkout", "adapter">>, <<"spawn", "adapter">>, <<"spawn", "persist">>,
              <<"adapter", "persist">>, <<"persist", "wake">>, <<"wake", "retry">>,
              <<"wake", "comment">>, <<"retry", "comment">>, <<"comment", "release">>,
              <<"release", "none">>}

LEMMA EventIsQuiet ==
  ASSUME EnvironmentOK, NEW e \in EventKinds, Event(e)
  PROVE  Quietly({e})
  BY EventTyped DEF Quietly

LEMMA SameRows ==
  ASSUME UNCHANGED run
  PROVE  RunsKept /\ StatusesKept /\ NewRunsWait /\ Used' = Used
  BY SameRunsKept DEF NewRunsWait

LEMMA ExecStepMoves ==
  ASSUME Typed, NEW r \in Runs, ExecStep(r)
  PROVE  /\ r \in Used /\ exec[r].pc # "none"
         /\ UNCHANGED <<starter, cancel, sweep, reaper, recon, paused, booting>>
         /\ <<exec[r].pc, exec'[r].pc>> \in ExecMoves
         /\ \A q \in Runs \ {r} : exec'[q] = exec[q]
         /\ exec[r].pc = "begin" => (exec'[r].pc = "checkout" <=> Live(r))
         /\ proc' \subseteq proc \cup {r}
         /\ r \in proc' => r \in proc \/ exec[r].pc = "spawn"
         /\ Quietly({"throw", "transient", "silent"})
         /\ RunsKept /\ NewRunsWait
         /\ exec[r].pc # "persist" => StatusesKept
         /\ exec[r].pc = "persist" => \E s \in Terminal : OnlyBecomes(r, s)
<1>0. RowsOK /\ EnvironmentOK /\ StartersOK /\ ExecsOK /\ exec \in [Runs -> Exec]
  BY DEF Typed, HandsOK, ExecsOK
<1>k. RunsKept
  BY NextTyped DEF KeepsTyped, Next
<1>c. UNCHANGED <<starter, cancel, sweep, reaper, recon, paused, booting>>
  BY DEF ExecStep, ExecBegin, ExecCheckout, ExecSpawn, ExecReturn, ExecThrow, ExecPersist,
         ExecWake, ExecRetry, ExecComment, ExecRelease
<1>n. exec[r].pc # "none"
  BY DEF ExecStep, ExecBegin, ExecCheckout, ExecSpawn, ExecReturn, ExecThrow, ExecPersist,
         ExecWake, ExecRetry, ExecComment, ExecRelease
<1>u. r \in Used
  BY <1>0, <1>n DEF ExecsOK
<1>x. exec' = [exec EXCEPT ![r] = exec'[r]] /\ \A q \in Runs \ {r} : exec'[q] = exec[q]
  BY <1>0 DEF ExecStep, ExecBegin, ExecCheckout, ExecSpawn, ExecReturn, ExecThrow, ExecPersist,
         ExecWake, ExecRetry, ExecComment, ExecRelease
<1>p. <<exec[r].pc, exec'[r].pc>> \in ExecMoves
  <2>1. \A x \in Exec, pc \in STRING : [x EXCEPT !.pc = pc].pc = pc
    BY DEF Exec
  <2> QED BY <1>0, <2>1 DEF ExecStep, ExecBegin, ExecCheckout, ExecSpawn, ExecReturn, ExecThrow,
         ExecPersist, ExecWake, ExecRetry, ExecComment, ExecRelease, ExecMoves, NotExecuting, Exec
<1>b. exec[r].pc = "begin" => (exec'[r].pc = "checkout" <=> Live(r))
  BY <1>0 DEF ExecStep, ExecBegin, ExecCheckout, ExecSpawn, ExecReturn, ExecThrow, ExecPersist,
         ExecWake, ExecRetry, ExecComment, ExecRelease, Exec
<1>q. proc' \subseteq proc \cup {r} /\ (r \in proc' => r \in proc \/ exec[r].pc = "spawn")
  BY DEF ExecStep, ExecBegin, ExecCheckout, ExecSpawn, ExecReturn, ExecThrow, ExecPersist,
         ExecWake, ExecRetry, ExecComment, ExecRelease
<1>e. Quietly({"throw", "transient", "silent"})
  <2>1. \A e \in {"throw", "transient", "silent"} : Event(e) => Quietly({e})
    BY <1>0, EventIsQuiet DEF EventKinds
  <2>2. UNCHANGED events \/ \E e \in {"throw", "transient", "silent"} : Event(e)
    BY DEF ExecStep, ExecBegin, ExecCheckout, ExecSpawn, ExecReturn, ExecThrow, ExecPersist,
         ExecWake, ExecRetry, ExecComment, ExecRelease
  <2> QED BY <2>1, <2>2 DEF Quietly
<1>s. /\ NewRunsWait
      /\ exec[r].pc # "persist" => StatusesKept
      /\ exec[r].pc = "persist" => \E s \in Terminal : OnlyBecomes(r, s)
  <2>1. CASE UNCHANGED run /\ exec[r].pc # "persist"
    BY <2>1, SameRows
  <2>2. CASE ExecSpawn(r)
    <3>1. run' = [run EXCEPT ![r].pid = TRUE]
      BY <2>2 DEF ExecSpawn
    <3>2. run[r] \in RunRow /\ run \in [Runs -> RunRow \cup {NoRow}]
      BY <1>0, <1>u, UsedRun DEF RowsOK, RowsTyped
    <3>3. run'[r].status = run[r].status /\ run'[r].detached = run[r].detached
          /\ \A q \in Runs \ {r} : run'[q] = run[q]
      BY <3>1, <3>2 DEF RunRow
    <3>4. StatusesKept
      BY <1>u, <3>3 DEF StatusesKept, Used
    <3>5. NewRunsWait
      BY <1>u, <3>3 DEF NewRunsWait, Used
    <3> QED BY <2>2, <3>4, <3>5 DEF ExecSpawn
  <2>3. CASE ExecPersist(r)
    <3>1. Status(exec[r].outcome) \in Terminal /\ Terminal \subseteq RunStatuses
      BY <1>0, <2>3 DEF ExecPersist, ExecsOK, Exec, Status, RunStatuses, Terminal, Persisting
    <3>2. /\ Used' = Used /\ run'[r].status = Status(exec[r].outcome)
          /\ run'[r].detached = run[r].detached
          /\ \A q \in Runs \ {r} : run'[q] = run[q]
      BY <1>0, <1>u, <2>3, <3>1, StatusWritten DEF ExecPersist
    <3>3. OnlyBecomes(r, Status(exec[r].outcome))
      BY <3>2 DEF OnlyBecomes, Used
    <3> QED BY <2>3, <3>1, <3>2, <3>3 DEF ExecPersist, NewRunsWait
  <2>4. CASE ExecRetry(r)
    <3> DEFINE row == TransientRetry(r)
    <3>1. row \in RetryRow /\ row.issue = run[r].issue
          /\ row.status \in {"queued", "scheduled_retry"} /\ ~row.detached
      BY <1>0, <1>u, RetriesTyped DEF RowsOK
    <3>2. InsertRetry(r, row) \/ UNCHANGED run
      BY <2>4 DEF ExecRetry, TransientRetry
    <3> HIDE DEF row
    <3>3. InsertRetry(r, row) => Transaction
      BY <1>0, <1>u, <3>1, InsertRetryRows
    <3> QED BY <2>4, <3>2, <3>3, SameRows DEF ExecRetry, Transaction
  <2>5. CASE ExecComment(r)
    <3> DEFINE row == CommentRetry(r)
    <3>1. row \in RetryRow /\ row.issue = run[r].issue
          /\ row.status \in {"queued", "scheduled_retry"} /\ ~row.detached
      BY <1>0, <1>u, RetriesTyped DEF RowsOK
    <3>2. InsertRetry(r, row) \/ UNCHANGED run
      BY <2>5 DEF ExecComment, CommentRetry
    <3> HIDE DEF row
    <3>3. InsertRetry(r, row) => Transaction
      BY <1>0, <1>u, <3>1, InsertRetryRows
    <3> QED BY <2>5, <3>2, <3>3, SameRows DEF ExecComment, Transaction
  <2>6. CASE ExecRelease(r)
    <3>1. Transaction
      BY <1>0, <1>u, <2>6, ReleaseRows DEF ExecRelease
    <3> QED BY <2>6, <3>1 DEF ExecRelease, Transaction
  <2> QED BY <2>1, <2>2, <2>3, <2>4, <2>5, <2>6
          DEF ExecStep, ExecBegin, ExecCheckout, ExecReturn, ExecThrow, ExecWake
<1> QED BY <1>k, <1>c, <1>n, <1>u, <1>x, <1>p, <1>b, <1>q, <1>e, <1>s

\* none is followed by status when the sweep takes the run up.
CancelMoves == {<<"none", "status">>, <<"kill", "status">>, <<"kill", "release">>,
                <<"status", "wake">>, <<"wake", "kill">>, <<"wake", "release">>,
                <<"release", "next">>, <<"release", "none">>}

LEMMA CancelStepMoves ==
  ASSUME Typed, NEW r \in Runs, CancelStep(r)
  PROVE  /\ r \in Used
         /\ UNCHANGED <<starter, exec, reaper, recon, paused, booting, events>>
         /\ <<cancel[r].pc, cancel'[r].pc>> \in CancelMoves
         /\ \A q \in Runs \ {r} : cancel'[q] = cancel[q]
         /\ cancel[r].pc = "none" => r \in sweep /\ cancel'[r].by = "sweep"
         /\ cancel[r].pc \notin {"none", "release"} => cancel'[r].by = cancel[r].by
         /\ cancel[r].pc \in {"kill", "wake"} =>
              cancel'[r].pc = IF cancel[r].by = "sweep" THEN (IF cancel[r].pc = "kill" THEN "release" ELSE "kill")
                              ELSE (IF cancel[r].pc = "kill" THEN "status" ELSE "release")
         /\ sweep' \subseteq sweep /\ sweep \ {r} \subseteq sweep'
         /\ proc' \subseteq proc
         /\ RunsKept /\ NewRunsWait
         /\ cancel[r].pc # "status" => StatusesKept
         /\ cancel[r].pc = "status" => OnlyBecomes(r, "cancelled")
<1>0. RowsOK /\ CancelsOK /\ cancel \in [Runs -> Cancel]
  BY DEF Typed, HandsOK, CancelsOK
<1>k. RunsKept
  BY NextTyped DEF KeepsTyped, Next
<1>c. UNCHANGED <<starter, exec, reaper, recon, paused, booting, events>>
  BY DEF CancelStep, SweepNext, CancelKill, CancelStatus, CancelWake, CancelRelease
<1>u. r \in Used
  BY <1>0 DEF CancelsOK, CancelStep, SweepNext, CancelKill, CancelStatus, CancelWake, CancelRelease
<1>x. \A q \in Runs \ {r} : cancel'[q] = cancel[q]
  BY <1>0 DEF CancelStep, SweepNext, CancelKill, CancelStatus, CancelWake, CancelRelease
<1>p. /\ <<cancel[r].pc, cancel'[r].pc>> \in CancelMoves
      /\ cancel[r].pc = "none" => r \in sweep /\ cancel'[r].by = "sweep"
      /\ cancel[r].pc \notin {"none", "release"} => cancel'[r].by = cancel[r].by
      /\ cancel[r].pc \in {"kill", "wake"} =>
           cancel'[r].pc = IF cancel[r].by = "sweep" THEN (IF cancel[r].pc = "kill" THEN "release" ELSE "kill")
                           ELSE (IF cancel[r].pc = "kill" THEN "status" ELSE "release")
  <2>1. \A x \in Cancel, pc \in STRING : [x EXCEPT !.pc = pc].pc = pc /\ [x EXCEPT !.pc = pc].by = x.by
    BY DEF Cancel
  <2>2. CASE SweepNext(r)
    BY <1>0, <2>2 DEF SweepNext, CancelMoves
  <2>3. CASE CancelKill(r)
    BY <1>0, <2>1, <2>3 DEF CancelKill, CancelMoves
  <2>4. CASE CancelStatus(r)
    BY <1>0, <2>1, <2>4 DEF CancelStatus, CancelMoves
  <2>5. CASE CancelWake(r)
    BY <1>0, <2>1, <2>5 DEF CancelWake, CancelMoves
  <2>6. CASE CancelRelease(r)
    BY <1>0, <2>1, <2>6 DEF CancelRelease, CancelMoves, NoCancel
  <2> QED BY <2>2, <2>3, <2>4, <2>5, <2>6 DEF CancelStep
<1>w. sweep' \subseteq sweep /\ sweep \ {r} \subseteq sweep' /\ proc' \subseteq proc
  BY DEF CancelStep, SweepNext, CancelKill, CancelStatus, CancelWake, CancelRelease
<1>s. /\ NewRunsWait
      /\ cancel[r].pc # "status" => StatusesKept
      /\ cancel[r].pc = "status" => OnlyBecomes(r, "cancelled")
  <2>1. CASE UNCHANGED run /\ cancel[r].pc # "status"
    BY <2>1, SameRows
  <2>2. CASE CancelStatus(r)
    <3>1. "cancelled" \in RunStatuses
      BY DEF RunStatuses, Terminal
    <3>2. /\ Used' = Used /\ run'[r].status = "cancelled"
          /\ run'[r].detached = run[r].detached
          /\ \A q \in Runs \ {r} : run'[q] = run[q]
      BY <1>0, <1>u, <2>2, <3>1, StatusWritten DEF CancelStatus
    <3>3. OnlyBecomes(r, "cancelled")
      BY <3>2 DEF OnlyBecomes, Used
    <3> QED BY <2>2, <3>2, <3>3 DEF CancelStatus, NewRunsWait
  <2>3. CASE CancelRelease(r)
    <3>1. PICK seen, also : Release(r, seen, also)
      BY <2>3 DEF CancelRelease
    <3>2. Transaction
      BY <1>0, <1>u, <3>1, ReleaseRows
    <3> QED BY <2>3, <3>2 DEF CancelRelease, Transaction
  <2> QED BY <2>1, <2>2, <2>3 DEF CancelStep, SweepNext, CancelKill, CancelWake
<1> QED BY <1>k, <1>c, <1>u, <1>x, <1>p, <1>w, <1>s, Zenon

\* The holder of a start lock goes on to the next run with what it has claimed, or ends.
GoesOn(a, claimed) ==
  \/ /\ starter'[a] = [pc |-> "check", queue |-> Tail(starter[a].queue),
                       slots |-> starter[a].slots - Cardinality(claimed \ starter[a].claimed),
                       claimed |-> claimed]
     /\ Tail(starter[a].queue) # <<>>
     /\ starter[a].slots - Cardinality(claimed \ starter[a].claimed) # 0
     /\ exec' = exec
  \/ /\ starter'[a] = Idle
     /\ \A q \in claimed : exec'[q].pc = "begin"
     /\ \A q \in Runs \ claimed : exec'[q] = exec[q]

\* What one step of the holder of a's start lock does to the lock and to the claimed runs.
StarterMoves(a) ==
  \/ starter' = starter /\ exec' = exec
  \/ /\ starter[a].pc = "idle" /\ a \notin paused
     /\ MaxConcurrent[a] - Cardinality(RunningOf(a)) > 0
     /\ starter'[a] = [pc |-> "check", queue |-> Prioritised(QueuedOf(a)),
                       slots |-> MaxConcurrent[a] - Cardinality(RunningOf(a)), claimed |-> {}]
     /\ exec' = exec
  \/ /\ <<starter[a].pc, starter'[a].pc>> \in
          {<<"check", "cancel">>, <<"check", "cas">>, <<"cas", "wake">>, <<"wake", "stamp">>}
     /\ starter[a].pc = "check" /\ starter'[a].pc = "cas" => a \notin paused
     /\ starter'[a].queue = starter[a].queue
     /\ starter'[a].slots = starter[a].slots
     /\ starter'[a].claimed = starter[a].claimed
     /\ exec' = exec
  \/ starter[a].pc \in {"check", "cas"} /\ GoesOn(a, starter[a].claimed)
  \/ starter[a].pc = "stamp" /\ GoesOn(a, starter[a].claimed \cup {Claiming(a)})

LEMMA StartNextGoesOn ==
  ASSUME Typed, NEW a \in Agents, starter[a].pc # "idle",
         NEW claimed \in SUBSET Runs, StartNext(a, claimed)
  PROVE  GoesOn(a, claimed) /\ \A b \in Agents \ {a} : starter'[b] = starter[b]
<1>0. starter \in [Agents -> Starter] /\ exec \in [Runs -> Exec]
  BY DEF Typed, HandsOK, StartersOK, ExecsOK
<1>1. CASE \/ Tail(starter[a].queue) = <<>>
           \/ starter[a].slots - Cardinality(claimed \ starter[a].claimed) = 0
  <2>1. /\ starter' = [starter EXCEPT ![a] = Idle]
        /\ exec' = [r \in Runs |-> IF r \in claimed THEN [exec[r] EXCEPT !.pc = "begin"]
                                   ELSE exec[r]]
    BY <1>1 DEF StartNext
  <2>2. \A r \in Runs : [exec[r] EXCEPT !.pc = "begin"].pc = "begin"
    BY <1>0 DEF Exec
  <2>3. starter'[a] = Idle /\ \A b \in Agents \ {a} : starter'[b] = starter[b]
    BY <1>0, <2>1
  <2>4. /\ \A q \in claimed : exec'[q].pc = "begin"
        /\ \A q \in Runs \ claimed : exec'[q] = exec[q]
    BY <2>1, <2>2
  <2> QED BY <2>3, <2>4 DEF GoesOn
<1>2. CASE /\ Tail(starter[a].queue) # <<>>
           /\ starter[a].slots - Cardinality(claimed \ starter[a].claimed) # 0
  BY <1>0, <1>2 DEF StartNext, GoesOn
<1> QED BY <1>1, <1>2

LEMMA StarterStepMoves ==
  ASSUME Typed, NEW a \in Agents, StarterStep(a)
  PROVE  /\ UNCHANGED <<sweep, reaper, recon, paused, booting, events, proc>>
         /\ \A b \in Agents \ {a} : starter'[b] = starter[b]
         /\ StarterMoves(a)
         /\ \/ UNCHANGED cancel
            \/ /\ starter[a].pc = "check" /\ starter'[a].pc = "cancel"
               /\ starter'[a].queue = starter[a].queue
               /\ cancel[Claiming(a)].pc = "none"
               /\ cancel' = [cancel EXCEPT ![Claiming(a)] = [pc |-> "kill", by |-> "claim"]]
         /\ RunsKept /\ NewRunsWait /\ Used' = Used
         /\ starter[a].pc = "cas" /\ starter'[a].pc = "wake" =>
              run[Claiming(a)].status = "queued" /\ OnlyBecomes(Claiming(a), "running")
         /\ ~(starter[a].pc = "cas" /\ starter'[a].pc = "wake") => StatusesKept
<1>0. /\ RowsOK /\ StartersOK /\ starter \in [Agents -> Starter]
      /\ starter[a].pc # "idle" => Claiming(a) \in Used /\ Claiming(a) \in Runs
                                   /\ starter[a].claimed \in SUBSET Runs
  BY ClaimingIsUsed DEF Typed, HandsOK, StartersOK, Starter
<1>k. RunsKept
  BY NextTyped DEF KeepsTyped, Next
<1>c. UNCHANGED <<sweep, reaper, recon, paused, booting, events, proc>>
  BY DEF StarterStep, StartBegin, ClaimCheck, ClaimCas, ClaimWake, ClaimStamp
<1>g. \A pc \in STRING, x \in Starter :
        LET y == [x EXCEPT !.pc = pc] IN
        y.pc = pc /\ y.queue = x.queue /\ y.slots = x.slots /\ y.claimed = x.claimed
  BY DEF Starter
<1>1. CASE StartBegin(a)
  <2>1. UNCHANGED cancel /\ UNCHANGED run /\ exec' = exec
    BY <1>1 DEF StartBegin
  <2>2. \A b \in Agents \ {a} : starter'[b] = starter[b]
    BY <1>0, <1>1 DEF StartBegin
  <2>3. StarterMoves(a)
    <3> DEFINE slots == MaxConcurrent[a] - Cardinality(RunningOf(a))
    <3>1. RunningOf(a) \in SUBSET Runs
      BY DEF RunningOf, RunsWithStatus
    <3>2. slots \in Int
      BY <3>1, RunsAreNumbers, FS_Subset, FS_CardinalityType, RunExecutionAssumption
    <3>3. ~(slots <= 0) => slots > 0
      BY <3>2
    <3>4. \/ starter' = starter
          \/ /\ a \notin paused /\ ~(slots <= 0)
             /\ starter' = [starter EXCEPT ![a] =
                             [pc |-> "check", queue |-> Prioritised(QueuedOf(a)),
                              slots |-> slots, claimed |-> {}]]
      BY <1>1 DEF StartBegin
    <3>5. starter[a].pc = "idle"
      BY <1>1 DEF StartBegin
    <3> QED BY <1>0, <2>1, <3>3, <3>4, <3>5 DEF StarterMoves
  <2>4. StatusesKept /\ NewRunsWait /\ Used' = Used
    BY <2>1, SameRows
  <2> QED BY <1>k, <1>c, <1>1, <2>1, <2>2, <2>3, <2>4 DEF StartBegin
<1>2. CASE ClaimCheck(a)
  <2> DEFINE r == Claiming(a)
  <2>1. StatusesKept /\ NewRunsWait /\ Used' = Used
    BY <1>2, SameRows DEF ClaimCheck
  <2>2. starter[a].pc = "check"
    BY <1>2 DEF ClaimCheck
  <2>3. CASE StartNext(a, starter[a].claimed) /\ UNCHANGED cancel
    <3>1. GoesOn(a, starter[a].claimed) /\ \A b \in Agents \ {a} : starter'[b] = starter[b]
      BY <1>0, <2>2, <2>3, StartNextGoesOn
    <3> QED BY <1>k, <1>c, <2>1, <2>2, <2>3, <3>1 DEF StarterMoves
  <2>4. CASE starter' = [starter EXCEPT ![a].pc = "cas"] /\ UNCHANGED <<exec, cancel>>
    <3>1. a \notin paused
      <4>1. starter'[a].pc = "cas" /\ starter'[a].queue = starter[a].queue
        BY <1>0, <1>g, <2>4
      <4>2. CASE StartNext(a, starter[a].claimed)
        <5>1. GoesOn(a, starter[a].claimed)
          BY <1>0, <2>2, <4>2, StartNextGoesOn
        <5> QED BY <4>1, <5>1, IdleIsStarter DEF GoesOn
      <4>3. CASE starter' = [starter EXCEPT ![a].pc = "cancel"]
        BY <1>0, <1>g, <4>1, <4>3
      <4> QED BY <1>2, <4>2, <4>3 DEF ClaimCheck
    <3>2. /\ starter'[a].pc = "cas" /\ starter'[a].queue = starter[a].queue
          /\ starter'[a].slots = starter[a].slots /\ starter'[a].claimed = starter[a].claimed
          /\ \A b \in Agents \ {a} : starter'[b] = starter[b]
      BY <1>0, <1>g, <2>4
    <3> QED BY <1>k, <1>c, <2>1, <2>2, <2>4, <3>1, <3>2 DEF StarterMoves
  <2>5. CASE /\ cancel' = [cancel EXCEPT ![r] = [pc |-> "kill", by |-> "claim"]]
             /\ cancel[r].pc = "none"
             /\ starter' = [starter EXCEPT ![a].pc = "cancel"]
             /\ UNCHANGED exec
    <3>1. /\ starter'[a].pc = "cancel" /\ starter'[a].queue = starter[a].queue
          /\ starter'[a].slots = starter[a].slots /\ starter'[a].claimed = starter[a].claimed
          /\ \A b \in Agents \ {a} : starter'[b] = starter[b]
      BY <1>0, <1>g, <2>5
    <3> QED BY <1>k, <1>c, <2>1, <2>2, <2>5, <3>1 DEF StarterMoves
  <2> QED BY <1>2, <2>3, <2>4, <2>5 DEF ClaimCheck
<1>3. CASE ClaimCas(a)
  <2> DEFINE r == Claiming(a)
  <2>1. starter[a].pc = "cas" /\ UNCHANGED cancel
    BY <1>3 DEF ClaimCas
  <2>2. CASE run[r].status = "queued"
    <3>1. /\ run' = [run EXCEPT ![r].status = "running"]
          /\ starter' = [starter EXCEPT ![a].pc = "wake"]
          /\ UNCHANGED <<exec, wake, issue>>
      BY <1>3, <2>2 DEF ClaimCas
    <3>2. /\ Used' = Used /\ run'[r].status = "running"
          /\ run'[r].detached = run[r].detached
          /\ \A q \in Runs \ {r} : run'[q] = run[q]
      BY <1>0, <2>1, <3>1, StatusWritten DEF RunStatuses, ExecutionPath
    <3>3. OnlyBecomes(r, "running") /\ NewRunsWait
      BY <3>2 DEF OnlyBecomes, Used, NewRunsWait
    <3>4. /\ starter'[a].pc = "wake" /\ starter'[a].queue = starter[a].queue
          /\ starter'[a].slots = starter[a].slots /\ starter'[a].claimed = starter[a].claimed
          /\ \A b \in Agents \ {a} : starter'[b] = starter[b]
      BY <1>0, <1>g, <3>1
    <3> QED BY <1>k, <1>c, <2>1, <2>2, <3>1, <3>2, <3>3, <3>4 DEF StarterMoves
  <2>3. CASE run[r].status # "queued"
    <3>1. StartNext(a, starter[a].claimed) /\ UNCHANGED run
      BY <1>3, <2>3 DEF ClaimCas
    <3>2. GoesOn(a, starter[a].claimed) /\ \A b \in Agents \ {a} : starter'[b] = starter[b]
      BY <1>0, <2>1, <3>1, StartNextGoesOn
    <3>3. StatusesKept /\ NewRunsWait /\ Used' = Used
      BY <3>1, SameRows
    <3>4. starter'[a].pc # "wake"
      BY <3>2, IdleIsStarter DEF GoesOn
    <3> QED BY <1>k, <1>c, <2>1, <2>3, <3>1, <3>2, <3>3, <3>4 DEF StarterMoves
  <2> QED BY <2>2, <2>3
<1>4. CASE ClaimWake(a)
  <2>1. /\ starter' = [starter EXCEPT ![a].pc = "stamp"]
        /\ starter[a].pc = "wake" /\ UNCHANGED <<run, exec, cancel>>
    BY <1>4 DEF ClaimWake
  <2>2. /\ starter'[a].pc = "stamp" /\ starter'[a].queue = starter[a].queue
        /\ starter'[a].slots = starter[a].slots /\ starter'[a].claimed = starter[a].claimed
        /\ \A b \in Agents \ {a} : starter'[b] = starter[b]
    BY <1>0, <1>g, <2>1
  <2>3. StatusesKept /\ NewRunsWait /\ Used' = Used
    BY <2>1, SameRows
  <2> QED BY <1>k, <1>c, <2>1, <2>2, <2>3 DEF StarterMoves
<1>5. CASE ClaimStamp(a)
  <2>1. /\ StartNext(a, starter[a].claimed \cup {Claiming(a)})
        /\ starter[a].pc = "stamp" /\ UNCHANGED <<run, cancel>>
    BY <1>5 DEF ClaimStamp
  <2>2. /\ GoesOn(a, starter[a].claimed \cup {Claiming(a)})
        /\ \A b \in Agents \ {a} : starter'[b] = starter[b]
    <3>1. starter[a].claimed \cup {Claiming(a)} \in SUBSET Runs
      BY <1>0, <2>1
    <3> QED BY <2>1, <3>1, StartNextGoesOn
  <2>3. StatusesKept /\ NewRunsWait /\ Used' = Used
    BY <2>1, SameRows
  <2> QED BY <1>k, <1>c, <2>1, <2>2, <2>3 DEF StarterMoves
<1> QED BY <1>1, <1>2, <1>3, <1>4, <1>5 DEF StarterStep

Orphans == {r \in RunsWithStatus("running") : ~InMemory(r) /\ (booting \/ ~InHand(r))}

\* A run whose child the reaper has found alive is written back to running.
Revived(r) ==
  /\ run'[r].status = "running" /\ run'[r].detached /\ ~run[r].detached
  /\ \A q \in Used \ {r} : run'[q].status = run[q].status /\ run'[q].detached = run[q].detached
  /\ Used' = Used

\* The four things a step of the reaper can be.
ReaperMoves ==
  \/ /\ StatusesKept /\ reaper.pc = "none" /\ reaper'.pc = "none"
     /\ \/ reaper'.list = Orphans /\ booting' = FALSE /\ (booting \/ Orphans # {})
        \/ reaper'.list \subseteq reaper.list /\ reaper.list # {} /\ booting' = booting
  \/ /\ reaper.pc = "none" /\ reaper'.pc = "none" /\ booting' = booting
     /\ reaper'.list \subseteq reaper.list
     /\ \E r \in reaper.list \cap proc : ~InMemory(r) /\ Revived(r)
  \/ /\ reaper.pc = "none" /\ reaper'.pc = "wake" /\ booting' = booting
     /\ reaper'.list \subseteq reaper.list
     /\ \E r \in reaper.list \ proc : reaper'.run = r /\ ~InMemory(r) /\ OnlyBecomes(r, "failed")
  \/ /\ reaper.pc # "none" /\ StatusesKept /\ booting' = booting
     /\ reaper'.list = reaper.list
     /\ reaper'.pc # "none" => reaper'.run = reaper.run

LEMMA ReaperStepMoves ==
  ASSUME Typed, ReaperStep
  PROVE  /\ UNCHANGED <<starter, exec, cancel, sweep, recon, paused, proc, events>>
         /\ RunsKept /\ NewRunsWait /\ ReaperMoves
<1>0. RowsOK /\ reaper \in Reaper /\ reaper.list \subseteq Used /\ Used \subseteq Runs
      /\ run \in [Runs -> RunRow \cup {NoRow}]
      /\ (reaper.pc # "none" => reaper.run \in Used)
  BY DEF Typed, HandsOK, ReaperOK, RowsOK, RowsTyped, Used
<1>k. RunsKept
  BY NextTyped DEF KeepsTyped, Next
<1>c. UNCHANGED <<starter, exec, cancel, sweep, recon, paused, proc, events>>
  BY DEF ReaperStep, ReapScan, ReapExamine, ReapWake, ReapRetry, ReapRelease
<1>1. CASE ReapScan
  <2>1. reaper'.list = Orphans /\ reaper'.pc = "none" /\ reaper.pc = "none"
    BY <1>0, <1>1 DEF ReapScan, Orphans, Reaper
  <2>2. StatusesKept /\ NewRunsWait
    BY <1>1, SameRows DEF ReapScan
  <2>3. booting' = FALSE /\ (booting \/ Orphans # {})
    BY <1>1 DEF ReapScan, Orphans
  <2> QED BY <1>k, <1>c, <2>1, <2>2, <2>3 DEF ReaperMoves
<1>2. ASSUME NEW r \in Runs, ReapExamine(r)
      PROVE  NewRunsWait /\ ReaperMoves
  <2>1. reaper.pc = "none" /\ r \in reaper.list /\ r \in Used /\ booting' = booting
        /\ UNCHANGED <<wake, issue>>
    BY <1>0, <1>2 DEF ReapExamine
  <2>2. CASE run' = run /\ reaper' = [reaper EXCEPT !.list = @ \ {r}]
    <3>1. StatusesKept /\ NewRunsWait
      BY <2>2, SameRows
    <3>2. reaper'.pc = "none" /\ reaper'.list = reaper.list \ {r}
      BY <1>0, <2>1, <2>2 DEF Reaper
    <3> QED BY <2>1, <3>1, <3>2 DEF ReaperMoves
  <2>3. CASE /\ ~InMemory(r) /\ r \in proc /\ ~run[r].detached
             /\ run' = [run EXCEPT ![r].status = "running", ![r].detached = TRUE]
             /\ reaper' = [reaper EXCEPT !.list = @ \ {r}]
    <3>1. reaper'.pc = "none" /\ reaper'.list = reaper.list \ {r}
      BY <1>0, <2>1, <2>3 DEF Reaper
    <3>2. run[r] \in RunRow
      BY <1>0, <2>1, UsedRun DEF RowsOK
    <3>3. run'[r].status = "running" /\ run'[r].detached /\ run'[r] # NoRow
          /\ \A q \in Runs \ {r} : run'[q] = run[q]
      BY <1>0, <2>1, <2>3, <3>2, NoRowIsNoRun DEF RunRow, NoRow
    <3>4. Used' = Used
      BY <2>1, <3>3 DEF Used
    <3>5. Revived(r) /\ NewRunsWait
      BY <1>0, <2>1, <2>3, <3>3, <3>4 DEF Revived, NewRunsWait
    <3> QED BY <2>1, <2>3, <3>1, <3>5 DEF ReaperMoves
  <2>4. CASE /\ ~InMemory(r) /\ r \notin proc
             /\ run' = [run EXCEPT ![r].status = "failed"]
             /\ reaper' = [pc |-> "wake", run |-> r, list |-> reaper.list \ {r}]
    <3>1. "failed" \in RunStatuses
      BY DEF RunStatuses, Terminal
    <3>2. /\ Used' = Used /\ run'[r].status = "failed" /\ run'[r].detached = run[r].detached
          /\ \A q \in Runs \ {r} : run'[q] = run[q]
      BY <1>0, <2>1, <2>4, <3>1, StatusWritten
    <3>3. OnlyBecomes(r, "failed") /\ NewRunsWait
      BY <1>0, <3>2 DEF OnlyBecomes, NewRunsWait
    <3> QED BY <2>1, <2>4, <3>3 DEF ReaperMoves
  <2> QED BY <1>2, <2>2, <2>3, <2>4 DEF ReapExamine
<1>3. CASE ReapWake
  <2>1. StatusesKept /\ NewRunsWait
    BY <1>3, SameRows DEF ReapWake
  <2>2. reaper'.list = reaper.list /\ reaper'.run = reaper.run /\ reaper.pc = "wake"
        /\ booting' = booting
    BY <1>0, <1>3 DEF ReapWake, Reaper
  <2> QED BY <1>k, <1>c, <2>1, <2>2 DEF ReaperMoves
<1>4. CASE ReapRetry \/ ReapRelease
  <2>1. reaper.pc # "none" /\ reaper.run \in Used
    BY <1>0, <1>4 DEF ReapRetry, ReapRelease
  <2>2. Transaction
    <3>1. CASE ReapRelease
      BY <1>0, <2>1, <3>1, ReleaseRows DEF ReapRelease
    <3>2. CASE ReapRetry
      <4> DEFINE r == reaper.run
                 row == LostRetry(r)
      <4>1. row \in RetryRow /\ row.issue = run[r].issue
            /\ row.status \in {"queued", "scheduled_retry"} /\ ~row.detached
        BY <1>0, <2>1, RetriesTyped DEF RowsOK
      <4>2. InsertRetry(r, row)
        BY <3>2 DEF ReapRetry, LostRetry
      <4> HIDE DEF row
      <4> QED BY <1>0, <2>1, <4>1, <4>2, InsertRetryRows
    <3> QED BY <1>4, <3>1, <3>2
  <2>3. reaper'.pc = "none" /\ reaper'.list = reaper.list /\ booting' = booting
    BY <1>0, <1>4 DEF ReapRetry, ReapRelease, Reaper
  <2> QED BY <1>k, <1>c, <2>1, <2>2, <2>3 DEF ReaperMoves, Transaction
<1> QED BY <1>k, <1>c, <1>1, <1>2, <1>3, <1>4 DEF ReaperStep

-----------------------------------------------------------------------------
(* Everything else that is not a crash: the environment, the timers, the reconciler. *)

OtherStep ==
  \/ \E a \in Agents, i \in Issues, comment \in CommentWakes : WakeAgent(a, i, comment)
  \/ \E r \in Runs : CancelRequest(r) \/ OrphanExits(r) \/ PromoteScheduled(r)
  \/ \E a \in Agents : \/ Pause(a) \/ Resume(a) \/ BudgetStop(a) \/ BudgetResume(a)
                       \/ ResumeQueued(a) \/ CancelPendingWakes(a)
  \/ \E i \in Issues : EditIssue(i)
  \/ ReconStep
  \/ UNCHANGED vars

LEMMA StepKinds ==
  ASSUME [Next]_vars
  PROVE  \/ \E a \in Agents : StarterStep(a)
         \/ \E r \in Runs : ExecStep(r) \/ CancelStep(r)
         \/ ReaperStep
         \/ Crash
         \/ OtherStep
  BY DEF Next, Environment, OtherStep

LEMMA OtherStepMoves ==
  ASSUME Typed, OtherStep
  PROVE  /\ UNCHANGED <<starter, exec, reaper, booting>>
         /\ proc' \subseteq proc
         /\ \A e \in EventKinds : events[e] <= events'[e]
         /\ Quietly({"wake", "cancel", "pause", "budget", "edit", "reconcile"})
         /\ \/ UNCHANGED <<cancel, sweep>> /\ paused' \subseteq paused
            \/ /\ UNCHANGED <<sweep, paused>> /\ events'["cancel"] > 0
               /\ \E r \in Runs : /\ Live(r) /\ cancel[r].pc = "none"
                                  /\ cancel' = [cancel EXCEPT ![r] = [pc |-> "kill", by |-> "request"]]
            \/ /\ UNCHANGED cancel /\ events'["pause"] > 0
               /\ \E a \in Agents : /\ paused' = paused \cup {a}
                                    /\ sweep = {} /\ sweep' = {r \in UsedOf(a) : Live(r)}
         /\ RunsKept /\ NewRunsWait
         /\ \/ StatusesKept
            \/ \E r \in Used : run[r].status = "scheduled_retry" /\ OnlyBecomes(r, "queued")
<1>0. RowsOK /\ EnvironmentOK /\ ReconOK /\ events \in [EventKinds -> Nat]
  BY DEF Typed, HandsOK, EnvironmentOK
<1>k. RunsKept
  BY NextTyped DEF KeepsTyped, OtherStep, Next, Environment
<1>c. UNCHANGED <<starter, exec, reaper, booting>> /\ proc' \subseteq proc
  <2>1. CASE ReconStep
    BY <2>1 DEF ReconStep, ReconcileFind, ReconcileEscalate, ReconcileRecover
  <2> QED BY <2>1 DEF OtherStep, WakeAgent, CancelRequest, OrphanExits, PromoteScheduled, Pause, Resume, BudgetStop,
         BudgetResume, ResumeQueued, CancelPendingWakes, EditIssue, vars
<1>e. /\ \A e \in EventKinds : events[e] <= events'[e]
      /\ Quietly({"wake", "cancel", "pause", "budget", "edit", "reconcile"})
  <2> DEFINE E == {"wake", "cancel", "pause", "budget", "edit", "reconcile"}
  <2>1. UNCHANGED events \/ \E e \in E : Event(e)
    BY DEF OtherStep, WakeAgent, CancelRequest, OrphanExits, PromoteScheduled, Pause, Resume,
           BudgetStop, BudgetResume, ResumeQueued, CancelPendingWakes, EditIssue, vars,
           ReconStep, ReconcileFind, ReconcileEscalate, ReconcileRecover
  <2>2. CASE UNCHANGED events
    BY <1>0, <2>2 DEF Quietly
  <2>3. ASSUME NEW e \in E, Event(e)
        PROVE  (\A k \in EventKinds : events[k] <= events'[k]) /\ Quietly(E)
    <3>1. e \in EventKinds
      BY DEF EventKinds
    <3>2. events'[e] = events[e] + 1 /\ \A k \in EventKinds \ {e} : events'[k] = events[k]
      BY <1>0, <2>3, <3>1, EventTyped
    <3> QED BY <1>0, <3>1, <3>2 DEF Quietly
  <2> QED BY <2>1, <2>2, <2>3
<1>h. \/ UNCHANGED <<cancel, sweep>> /\ paused' \subseteq paused
      \/ /\ UNCHANGED <<sweep, paused>> /\ events'["cancel"] > 0
         /\ \E r \in Runs : /\ Live(r) /\ cancel[r].pc = "none"
                            /\ cancel' = [cancel EXCEPT ![r] = [pc |-> "kill", by |-> "request"]]
      \/ /\ UNCHANGED cancel /\ events'["pause"] > 0
         /\ \E a \in Agents : /\ paused' = paused \cup {a}
                              /\ sweep = {} /\ sweep' = {r \in UsedOf(a) : Live(r)}
  <2>1. CASE \E r \in Runs : CancelRequest(r)
    <3>1. PICK r \in Runs : CancelRequest(r)
      BY <2>1
    <3>2. events'["cancel"] > 0
      BY <1>0, <3>1, EventTyped DEF CancelRequest, EventKinds
    <3>3. /\ UNCHANGED <<sweep, paused>>
          /\ Live(r) /\ cancel[r].pc = "none"
          /\ cancel' = [cancel EXCEPT ![r] = [pc |-> "kill", by |-> "request"]]
      BY <3>1 DEF CancelRequest
    <3> QED BY <3>2, <3>3
  <2>2. CASE \E a \in Agents : Pause(a)
    <3>1. PICK a \in Agents : Pause(a)
      BY <2>2
    <3>2. events'["pause"] > 0
      BY <1>0, <3>1, EventTyped DEF Pause, EventKinds
    <3>3. sweep' = {r \in UsedOf(a) : Live(r)}
      <4>1. sweep' = {r \in Runs : run[r] # NoRow /\ run[r].agent = a /\ Live(r)}
        BY <3>1 DEF Pause
      <4> QED BY <4>1 DEF UsedOf, Used
    <3> QED BY <3>1, <3>2, <3>3 DEF Pause
  <2>3. CASE ReconStep
    BY <2>3 DEF ReconStep, ReconcileFind, ReconcileEscalate, ReconcileRecover
  <2> QED BY <2>1, <2>2, <2>3 DEF OtherStep, WakeAgent, OrphanExits, PromoteScheduled, Resume,
         BudgetStop, BudgetResume, ResumeQueued, CancelPendingWakes, EditIssue, vars
<1>s. NewRunsWait /\ (\/ StatusesKept
                      \/ \E r \in Used : run[r].status = "scheduled_retry" /\ OnlyBecomes(r, "queued"))
  <2>1. CASE UNCHANGED run
    BY <2>1, SameRows
  <2>2. CASE \E r \in Runs : PromoteScheduled(r)
    <3>1. PICK r \in Runs : PromoteScheduled(r)
      BY <2>2
    <3>2. r \in Used /\ run[r].status = "scheduled_retry"
      BY <3>1 DEF PromoteScheduled, Used, NoRow
    <3>3. "queued" \in RunStatuses
      BY DEF RunStatuses, ExecutionPath
    <3>4. /\ Used' = Used /\ run'[r].status = "queued" /\ run'[r].detached = run[r].detached
          /\ \A q \in Runs \ {r} : run'[q] = run[q]
      BY <1>0, <3>1, <3>2, <3>3, StatusWritten DEF PromoteScheduled
    <3> QED BY <3>2, <3>4 DEF OnlyBecomes, NewRunsWait, Used
  <2>3. CASE \E a \in Agents, i \in Issues, comment \in CommentWakes : WakeAgent(a, i, comment)
    <3>1. PICK a \in Agents, i \in Issues, comment \in CommentWakes : WakeAgent(a, i, comment)
      BY <2>3
    <3>2. Enqueue(a, i, comment, "none") /\ comment \in BOOLEAN /\ "none" \in RetryReasons
      BY <3>1, RunExecutionAssumption DEF WakeAgent, RetryReasons
    <3>3. Transaction
      BY <1>0, <3>2, EnqueueRows
    <3> QED BY <3>3 DEF Transaction
  <2>4. CASE ReconcileRecover
    <3>1. recon.issue \in Issues /\ recon.agent \in Agents /\ recon.reason \in RetryReasons
      BY <1>0, <2>4 DEF ReconcileRecover, ReconOK, Recon
    <3>2. UNCHANGED run \/ Enqueue(recon.agent, recon.issue, FALSE, recon.reason)
      BY <2>4 DEF ReconcileRecover
    <3>3. UNCHANGED run \/ Transaction
      BY <1>0, <3>1, <3>2, EnqueueRows
    <3> QED BY <2>1, <3>3 DEF Transaction
  <2> QED BY <2>1, <2>2, <2>3, <2>4
          DEF OtherStep, CancelRequest, OrphanExits, Pause, Resume, BudgetStop, BudgetResume,
              ResumeQueued, CancelPendingWakes, EditIssue, vars,
              ReconStep, ReconcileFind, ReconcileEscalate
<1> QED BY <1>k, <1>c, <1>e, <1>h, <1>s, Zenon

LEMMA CrashMoves ==
  ASSUME Typed, Crash
  PROVE  /\ starter' = [a \in Agents |-> Idle] /\ exec' = [r \in Runs |-> NotExecuting]
         /\ cancel' = [r \in Runs |-> NoCancel] /\ sweep' = {} /\ recon' = NoRecon
         /\ reaper' = [pc |-> "none", run |-> NoRun, list |-> {}]
         /\ booting' /\ UNCHANGED paused /\ proc' \subseteq proc
         /\ events'["crash"] > 0 /\ Quietly({"crash"})
         /\ RunsKept /\ StatusesKept /\ NewRunsWait /\ Used' = Used
<1>1. EnvironmentOK /\ "crash" \in EventKinds /\ Event("crash")
  BY DEF Typed, HandsOK, Crash, EventKinds
<1>2. events'["crash"] > 0 /\ Quietly({"crash"})
  BY <1>1, EventTyped, EventIsQuiet
<1>3. RunsKept /\ StatusesKept /\ NewRunsWait /\ Used' = Used
  BY SameRows DEF Crash
<1> QED BY <1>2, <1>3 DEF Crash

\* What becomes of the status of a run, whoever takes the step.
LEMMA StatusMoves ==
  ASSUME Typed, [Next]_vars, NEW r \in Used
  PROVE  \/ run'[r].status = run[r].status /\ run'[r].detached = run[r].detached
         \/ run'[r].status \in Terminal /\ run'[r].detached = run[r].detached
         \/ /\ run[r].status = "scheduled_retry" /\ run'[r].status = "queued"
            /\ run'[r].detached = run[r].detached
         \/ /\ run[r].status = "queued" /\ run'[r].status = "running"
            /\ run'[r].detached = run[r].detached
            /\ \E a \in Agents : /\ StarterStep(a) /\ starter[a].pc = "cas"
                                 /\ starter'[a].pc = "wake" /\ r = Claiming(a)
         \/ /\ run'[r].status = "running" /\ run'[r].detached /\ ~run[r].detached
            /\ r \in reaper.list \cap proc /\ ~InMemory(r) /\ reaper.pc = "none" /\ reaper'.pc = "none"
<1>1. CASE StatusesKept
  BY <1>1 DEF StatusesKept
<1>2. ASSUME NEW q, NEW s, OnlyBecomes(q, s)
      PROVE  IF r = q THEN run'[r].status = s /\ run'[r].detached = run[r].detached
             ELSE run'[r].status = run[r].status /\ run'[r].detached = run[r].detached
  BY <1>2 DEF OnlyBecomes
<1>3. ASSUME NEW a \in Agents, StarterStep(a), starter[a].pc = "cas", starter'[a].pc = "wake"
      PROVE  run[Claiming(a)].status = "queued" /\ OnlyBecomes(Claiming(a), "running")
  BY <1>3, StarterStepMoves
<1>4. ASSUME NEW a \in Agents, StarterStep(a), ~(starter[a].pc = "cas" /\ starter'[a].pc = "wake")
      PROVE  StatusesKept
  BY <1>4, StarterStepMoves, Zenon
<1>5. ASSUME NEW q \in Runs, ExecStep(q)
      PROVE  StatusesKept \/ \E s \in Terminal : OnlyBecomes(q, s)
  BY <1>5, ExecStepMoves, Zenon
<1>6. ASSUME NEW q \in Runs, CancelStep(q)
      PROVE  StatusesKept \/ \E s \in Terminal : OnlyBecomes(q, s)
  <2>1. "cancelled" \in Terminal
    BY DEF Terminal
  <2> QED BY <1>6, <2>1, CancelStepMoves, Zenon
<1>7. CASE ReaperStep
  <2>1. ReaperMoves /\ "failed" \in Terminal
    BY <1>7, ReaperStepMoves DEF Terminal
  <2>2. CASE \E q \in reaper.list \ proc : OnlyBecomes(q, "failed")
    BY <1>2, <2>1, <2>2
  <2>3. CASE /\ reaper.pc = "none" /\ reaper'.pc = "none"
             /\ \E q \in reaper.list \cap proc : ~InMemory(q) /\ Revived(q)
    BY <2>3 DEF Revived
  <2> QED BY <1>1, <2>1, <2>2, <2>3 DEF ReaperMoves
<1>8. CASE OtherStep
  <2>1. \/ StatusesKept
        \/ \E q \in Used : run[q].status = "scheduled_retry" /\ OnlyBecomes(q, "queued")
    BY <1>8, OtherStepMoves
  <2> QED BY <1>1, <1>2, <2>1
<1>9. CASE Crash
  BY <1>1, <1>9, CrashMoves
<1> QED BY <1>1, <1>2, <1>3, <1>4, <1>5, <1>6, <1>7, <1>8, <1>9, StepKinds

\* A run that has ended stays ended, or the reaper has written it back to running.
Finished(r) == Dead(r) \/ run[r].detached

LEMMA FinishedStays ==
  ASSUME Typed, [Next]_vars, NEW r \in Used, Finished(r)
  PROVE  Finished(r)' /\ r \in Used'
<1>1. run'[r].status \in Terminal \/ run'[r].detached
  BY StatusMoves DEF Finished, Dead, Terminal
<1>2. r \in Used'
  BY NextTyped, UsedGrows DEF KeepsTyped
<1> QED BY <1>1, <1>2 DEF Finished, Dead

-----------------------------------------------------------------------------
(* Statuses. *)

\* A finished run is never on an execution path again, unless the reaper, going through a
\* list it has read before, finds its child alive: whatever handlers are still at work.
THEOREM FinishedForGood == Spec => TerminalStaysTerminal
<1> DEFINE A == \A r \in Runs : run[r].status \in Terminal =>
                  \/ run'[r].status \in Terminal
                  \/ r \in reaper.list /\ r \in proc /\ run'[r].detached /\ ~run[r].detached
<1>1. ASSUME Typed, [Next]_vars
      PROVE  [A]_vars
  <2> SUFFICES ASSUME NEW r \in Runs, run[r].status \in Terminal
               PROVE  \/ run'[r].status \in Terminal
                      \/ r \in reaper.list /\ r \in proc /\ run'[r].detached /\ ~run[r].detached
    OBVIOUS
  <2>1. r \in Used
    BY DEF Used, NoRow, Terminal
  <2> QED BY <1>1, <2>1, StatusMoves DEF Terminal
<1>2. Typed /\ [Next]_vars => [A]_vars
  BY <1>1
<1> QED BY <1>2, RowsAndHands, PTL DEF Spec, TerminalStaysTerminal

LEMMA StarterExecs ==
  ASSUME NEW a \in Agents, StarterMoves(a), NEW q \in Runs
  PROVE  \/ exec'[q] = exec[q]
         \/ /\ exec'[q].pc = "begin"
            /\ \/ q \in starter[a].claimed
               \/ starter[a].pc = "stamp" /\ q = Claiming(a)
  BY DEF StarterMoves, GoesOn

ReaperDone ==
  reaper.pc # "none" =>
    /\ Dead(reaper.run) /\ reaper.run \notin proc
    /\ exec[reaper.run].pc \in {"none", "begin"}

LEMMA ReaperDoneNext ==
  ASSUME Typed, ReaperDone, [Next]_vars
  PROVE  ReaperDone'
<1> DEFINE r == reaper.run
<1>0. ReaperOK
  BY DEF Typed, HandsOK
<1>1. ASSUME reaper.pc # "none", reaper'.run = r,
             proc' \subseteq proc \/ r \notin proc',
             exec'[r].pc \in {"none", "begin"}
      PROVE  ReaperDone'
  <2>1. r \in Used /\ Dead(r) /\ r \notin proc
    BY <1>0, <1>1 DEF ReaperOK, ReaperDone
  <2>2. run'[r].status \in Terminal
    BY <1>1, <2>1, StatusMoves DEF Dead, Terminal
  <2> QED BY <1>1, <2>1, <2>2 DEF ReaperDone, Dead
<1>2. ASSUME NEW a \in Agents, StarterStep(a)
      PROVE  ReaperDone'
  <2>1. reaper' = reaper /\ proc' = proc /\ StarterMoves(a)
    BY <1>2, StarterStepMoves
  <2>2. CASE reaper.pc # "none"
    <3>1. exec'[r].pc \in {"none", "begin"}
      BY <1>0, <2>1, <2>2, StarterExecs DEF ReaperOK, ReaperDone, Used
    <3> QED BY <1>1, <2>1, <2>2, <3>1
  <2> QED BY <2>1, <2>2 DEF ReaperDone
<1>3. ASSUME NEW q \in Runs, ExecStep(q)
      PROVE  ReaperDone'
  <2>1. /\ reaper' = reaper /\ exec[q].pc # "none"
        /\ <<exec[q].pc, exec'[q].pc>> \in ExecMoves
        /\ \A p \in Runs \ {q} : exec'[p] = exec[p]
        /\ exec[q].pc = "begin" => (exec'[q].pc = "checkout" <=> Live(q))
        /\ proc' \subseteq proc \cup {q}
        /\ q \in proc' => q \in proc \/ exec[q].pc = "spawn"
    BY <1>3, ExecStepMoves
  <2>2. CASE reaper.pc # "none"
    <3>1. Dead(r) /\ exec[r].pc \in {"none", "begin"} /\ r \in Runs /\ r \notin proc
      BY <1>0, <2>2 DEF ReaperOK, ReaperDone, Used
    <3>2. CASE q = r
      BY <1>1, <2>1, <2>2, <3>1, <3>2 DEF ExecMoves, Dead, Live, Terminal, ExecutionPath
    <3>3. CASE q # r
      BY <1>1, <2>1, <2>2, <3>1, <3>3
    <3> QED BY <3>2, <3>3
  <2> QED BY <2>1, <2>2 DEF ReaperDone
<1>4. ASSUME \/ \E q \in Runs : CancelStep(q)
             \/ OtherStep
      PROVE  ReaperDone'
  <2>1. reaper' = reaper /\ proc' \subseteq proc /\ exec' = exec
    BY <1>4, CancelStepMoves, OtherStepMoves
  <2> QED BY <1>1, <2>1 DEF ReaperDone
<1>5. CASE ReaperStep
  <2>1. exec' = exec /\ proc' = proc /\ ReaperMoves
    BY <1>5, ReaperStepMoves
  <2>2. CASE reaper'.pc # "none" /\ reaper.pc # "none"
    BY <1>1, <2>1, <2>2 DEF ReaperMoves, ReaperDone
  <2>3. CASE reaper'.pc # "none" /\ reaper.pc = "none"
    <3>1. PICK q \in reaper.list \ proc : reaper'.run = q /\ ~InMemory(q) /\ OnlyBecomes(q, "failed")
      BY <2>1, <2>3 DEF ReaperMoves
    <3>2. Dead(q)' /\ exec[q].pc \in {"none", "begin"}
      BY <3>1 DEF OnlyBecomes, Dead, Terminal, InMemory
    <3> QED BY <2>1, <3>1, <3>2 DEF ReaperDone, Dead
  <2> QED BY <2>2, <2>3 DEF ReaperDone
<1>6. CASE Crash
  BY <1>6, CrashMoves DEF ReaperDone
<1> QED BY <1>2, <1>3, <1>4, <1>5, <1>6, StepKinds

\* The run the reaper works on has failed and has no child, and nobody can execute it any
\* more: whoever begins to, reads its status first.
THEOREM ReaperWorksOnTheDead == Spec => []ReaperDone
<1>1. Init => ReaperDone
  BY DEF Init, ReaperDone
<1>2. Typed /\ ReaperDone /\ [Next]_vars => ReaperDone'
  BY ReaperDoneNext
<1> QED BY <1>1, <1>2, RowsAndHands, PTL DEF Spec

\* A lost run is replaced by a retry only when its child process is gone, although the
\* reaper looked at the child two database round trips earlier.
THEOREM NoRetryBesideChild == Spec => []RetryOnlyWithoutChild
<1>1. ReaperDone => RetryOnlyWithoutChild
  BY DEF ReaperDone, RetryOnlyWithoutChild
<1> QED BY <1>1, ReaperWorksOnTheDead, PTL

\* Whoever has written a run's end has ended it: from there to the release of the issue the
\* run is finished.
ExecDone ==
  \A r \in Runs : exec[r].pc \in {"wake", "retry", "comment", "release"} => Finished(r)
CancelDone ==
  \A r \in Runs :
    \/ cancel[r].pc \in {"wake", "release", "next"}
    \/ cancel[r].pc = "kill" /\ cancel[r].by = "sweep"
    => Finished(r)

LEMMA ExecDoneNext ==
  ASSUME Typed, ExecDone, [Next]_vars
  PROVE  ExecDone'
<1> DEFINE Late == {"wake", "retry", "comment", "release"}
<1> SUFFICES ASSUME NEW r \in Runs, exec'[r].pc \in Late
             PROVE  Finished(r)'
  BY DEF ExecDone
<1>0. ExecsOK
  BY DEF Typed, HandsOK
<1>1. ASSUME exec[r].pc \in Late
      PROVE  Finished(r)'
  BY <1>0, <1>1, FinishedStays DEF ExecsOK, ExecDone
<1>2. CASE \E a \in Agents : StarterStep(a)
  <2>1. exec'[r] = exec[r] \/ exec'[r].pc = "begin"
    BY <1>2, StarterStepMoves, StarterExecs
  <2> QED BY <1>1, <2>1
<1>3. ASSUME NEW q \in Runs, ExecStep(q)
      PROVE  Finished(r)'
  <2>1. /\ <<exec[q].pc, exec'[q].pc>> \in ExecMoves
        /\ \A p \in Runs \ {q} : exec'[p] = exec[p]
        /\ exec[q].pc = "persist" => \E s \in Terminal : OnlyBecomes(q, s)
    BY <1>3, ExecStepMoves, Zenon
  <2>2. CASE exec[q].pc = "persist" /\ q = r
    BY <2>1, <2>2 DEF OnlyBecomes, Finished, Dead
  <2>3. CASE ~(exec[q].pc = "persist" /\ q = r)
    BY <1>1, <2>1, <2>3 DEF ExecMoves
  <2> QED BY <2>2, <2>3
<1>4. CASE (\E q \in Runs : CancelStep(q)) \/ OtherStep \/ ReaperStep
  <2>1. exec' = exec
    BY <1>4, CancelStepMoves, OtherStepMoves, ReaperStepMoves
  <2> QED BY <1>1, <2>1
<1>5. CASE Crash
  BY <1>5, CrashMoves DEF NotExecuting
<1> QED BY <1>2, <1>3, <1>4, <1>5, StepKinds

LEMMA CancelDoneNext ==
  ASSUME Typed, CancelDone, [Next]_vars
  PROVE  CancelDone'
<1> DEFINE Late(c) == \/ c.pc \in {"wake", "release", "next"}
                      \/ c.pc = "kill" /\ c.by = "sweep"
<1> SUFFICES ASSUME NEW r \in Runs, Late(cancel'[r])
             PROVE  Finished(r)'
  BY DEF CancelDone
<1>0. CancelsOK
  BY DEF Typed, HandsOK
<1>1. ASSUME Late(cancel[r])
      PROVE  Finished(r)'
  BY <1>0, <1>1, FinishedStays DEF CancelsOK, CancelDone
<1>2. ASSUME cancel'[r] = cancel[r] \/ (cancel'[r].pc = "kill" /\ cancel'[r].by # "sweep")
      PROVE  Finished(r)'
  BY <1>1, <1>2
<1>3. CASE \E a \in Agents : StarterStep(a)
  <2>1. PICK a \in Agents : StarterStep(a)
    BY <1>3
  <2>2. \/ UNCHANGED cancel
        \/ cancel' = [cancel EXCEPT ![Claiming(a)] = [pc |-> "kill", by |-> "claim"]]
    BY <2>1, StarterStepMoves
  <2> QED BY <1>0, <1>2, <2>2 DEF CancelsOK
<1>4. ASSUME NEW q \in Runs, CancelStep(q)
      PROVE  Finished(r)'
  <2>1. /\ <<cancel[q].pc, cancel'[q].pc>> \in CancelMoves
        /\ \A p \in Runs \ {q} : cancel'[p] = cancel[p]
        /\ cancel[q].pc \in {"kill", "wake"} =>
              cancel'[q].pc = IF cancel[q].by = "sweep" THEN (IF cancel[q].pc = "kill" THEN "release" ELSE "kill")
                              ELSE (IF cancel[q].pc = "kill" THEN "status" ELSE "release")
        /\ cancel[q].pc = "status" => OnlyBecomes(q, "cancelled")
    BY <1>4, CancelStepMoves, Zenon
  <2>2. CASE cancel[q].pc = "status" /\ q = r
    BY <2>1, <2>2 DEF OnlyBecomes, Finished, Dead, Terminal
  <2>3. CASE ~(cancel[q].pc = "status" /\ q = r)
    BY <1>1, <2>1, <2>3 DEF CancelMoves
  <2> QED BY <2>2, <2>3
<1>5. CASE OtherStep
  <2>1. \/ UNCHANGED cancel
        \/ \E q \in Runs : cancel' = [cancel EXCEPT ![q] = [pc |-> "kill", by |-> "request"]]
    BY <1>5, OtherStepMoves
  <2> QED BY <1>0, <1>2, <2>1 DEF CancelsOK
<1>6. CASE ReaperStep \/ \E q \in Runs : ExecStep(q)
  <2>1. cancel' = cancel
    BY <1>6, ExecStepMoves, ReaperStepMoves
  <2> QED BY <1>2, <2>1
<1>7. CASE Crash
  BY <1>7, CrashMoves DEF NoCancel
<1> QED BY <1>3, <1>4, <1>5, <1>6, <1>7, StepKinds

Done == ExecDone /\ CancelDone /\ ReaperDone

\* Every handler that releases an issue, or replaces a run by another, does so for a run that
\* is finished by then: it has ended, or the reaper has written it back to running.
THEOREM ReleasedAreFinished == Spec => []Done
<1>1. Init => ExecDone /\ CancelDone
  BY DEF Init, ExecDone, CancelDone, NotExecuting, NoCancel
<1>2. Typed /\ ExecDone /\ CancelDone /\ [Next]_vars => (ExecDone /\ CancelDone)'
  BY ExecDoneNext, CancelDoneNext
<1> QED BY <1>1, <1>2, RowsAndHands, ReaperWorksOnTheDead, PTL DEF Spec, Done

-----------------------------------------------------------------------------
(* What the transactions do to the wakes and to the locks. *)

IsDeferred(w) == wake[w] # NoRow /\ wake[w].status = "deferred_issue_execution"

KeepsWake(w) ==
  /\ wake[w] # NoRow /\ wake'[w] # NoRow
  /\ wake'[w].agent = wake[w].agent /\ wake'[w].issue = wake[w].issue

\* Only the environment and the reconciler ask for a wake.
Asking == recon.pc # "none" \/ events'["wake"] > events["wake"]

\* The first deferred wake of its agent for an issue that is being executed.
DeferredAnew(w) ==
  /\ Asking
  /\ wake[w] = NoRow /\ wake'[w] # NoRow /\ wake'[w].status = "deferred_issue_execution"
  /\ \A v \in Wakes \ {w} : wake'[v] = wake[v]
  /\ \A v \in Wakes : IsDeferred(v) =>
       wake[v].agent # wake'[w].agent \/ wake[v].issue # wake'[w].issue
  /\ wake'[w].issue \in Issues /\ LiveRunsOf(wake'[w].issue) # {} /\ run' = run

WakeMoved(w) ==
  \/ wake[w] = NoRow /\ wake'[w] = NoRow
  \/ KeepsWake(w) /\ wake'[w].status = wake[w].status /\ wake'[w].run = wake[w].run
  \/ KeepsWake(w) /\ wake'[w].status \notin {"queued", "deferred_issue_execution"}
  \/ /\ wake'[w] # NoRow /\ wake'[w].status = "queued" /\ wake'[w].run \in Used' \ Used
     /\ run'[wake'[w].run].wake = w
  \/ DeferredAnew(w)

WakesMoved == \A w \in Wakes : WakeMoved(w)

LEMMA WakesSame ==
  ASSUME UNCHANGED wake
  PROVE  WakesMoved
  BY DEF WakesMoved, WakeMoved, KeepsWake

\* A run of issue i has been inserted, which holds the issue's lock if "lock".
Hires(i, lock) ==
  \E new \in Runs \ Used : /\ Used' = Used \cup {new} /\ run'[new].issue = i
                           /\ lock => issue'[i].exec = new

\* Nothing but the lock of issue i moves, and the other issues do not.
OnlyLock(i) ==
  /\ issue'[i].checkout = issue[i].checkout /\ issue'[i].ready = issue[i].ready
  /\ \A j \in Issues \ {i} : issue'[j] = issue[j]

\* The run "row" of issue i is inserted with its wake, and the issue's row becomes "locked".
Inserts(new, w, row, i, locked) ==
  /\ new \in Runs /\ w \in Wakes /\ FreshRun(new) /\ FreshWake(w)
  /\ row \in RunRow /\ row.wake = w /\ row.issue = i
  /\ i \in Issues /\ locked \in Row
  /\ locked.checkout = issue[i].checkout /\ locked.ready = issue[i].ready
  /\ run' = [run EXCEPT ![new] = row]
  /\ wake' = [wake EXCEPT ![w] = NewWake(row.agent, i, "queued", new, row.reason, row.comment)]
  /\ issue' = [issue EXCEPT ![i] = locked]

\* The new run and wake are there, and of the issues only the lock of i has moved.
Inserted(new, i, locked) ==
  /\ WakesMoved
  /\ new \notin Used /\ Used' = Used \cup {new} /\ run'[new].issue = i
  /\ OnlyLock(i)
  /\ issue'[i] = locked

LEMMA RunInserted ==
  ASSUME RowsOK, NEW new, NEW w, NEW row, NEW i, NEW locked, Inserts(new, w, row, i, locked)
  PROVE  Inserted(new, i, locked)
<1> DEFINE added == NewWake(row.agent, i, "queued", new, row.reason, row.comment)
<1>2. /\ new \notin Used /\ Used' = Used \cup {new} /\ run'[new] = row
      /\ \A r \in Used : run'[r] = run[r]
  BY FreshRunInserted DEF RowsOK, Inserts
<1>3. row.agent \in Agents /\ row.reason \in RetryReasons /\ row.comment \in BOOLEAN
  BY DEF RunRow, Inserts
<1>4. added \in WakeRow /\ added # NoRow /\ added.run = new /\ added.status = "queued"
  <2>1. added \in WakeRow /\ added # NoRow
    BY <1>3, NewWakeType DEF WakeStatuses, Inserts
  <2> QED BY <2>1 DEF NewWake
<1>w. wake' = [wake EXCEPT ![w] = added]
  BY DEF Inserts
<1> HIDE DEF added
<1>5. /\ wake'[w] = added /\ \A v \in Wakes \ {w} : wake'[v] = wake[v]
  BY <1>w, <1>4 DEF RowsOK, RowsTyped, Inserts
<1>7. issue'[i] = locked /\ \A j \in Issues \ {i} : issue'[j] = issue[j]
  BY DEF RowsOK, RowsTyped, Inserts
<1>8. WakesMoved
  <2>1. WakeMoved(w)
    BY <1>2, <1>4, <1>5 DEF WakeMoved, Inserts, FreshWake
  <2>2. \A v \in Wakes \ {w} : WakeMoved(v)
    BY <1>5 DEF WakeMoved, KeepsWake
  <2> QED BY <2>1, <2>2 DEF WakesMoved
<1> QED BY <1>2, <1>7, <1>8 DEF OnlyLock, Inserted, Inserts

LEMMA InsertRetryMoves ==
  ASSUME RowsOK, NEW r \in Used, NEW row \in RetryRow,
         row.issue = run[r].issue, InsertRetry(r, row)
  PROVE  LET i == run[r].issue IN
         /\ WakesMoved /\ OnlyLock(i)
         /\ Hires(i, issue[i].exec = r)
         /\ issue[i].exec # r => issue'[i].exec = issue[i].exec
<1> DEFINE i == run[r].issue
<1>1. PICK new \in Runs, w \in Wakes :
        InsertRun(new, w, [row EXCEPT !.wake = w], issue[i], issue[i].exec = r)
  BY DEF InsertRetry
<1> DEFINE retry == [row EXCEPT !.wake = w]
           locked == IF issue[i].exec = r THEN LockedBy(issue[i], new, retry.agent) ELSE issue[i]
<1>2. retry \in RunRow /\ retry.wake = w /\ retry.issue = i
  BY DEF RunRow, RetryRow
<1>3. /\ FreshRun(new) /\ FreshWake(w)
      /\ run' = [run EXCEPT ![new] = retry]
      /\ wake' = [wake EXCEPT ![w] =
                    NewWake(retry.agent, i, "queued", new, retry.reason, retry.comment)]
      /\ issue' = [issue EXCEPT ![i] = locked]
  BY <1>1, <1>2 DEF InsertRun
<1>a. retry.agent \in Agents
  BY <1>2 DEF RunRow
<1> HIDE DEF retry
<1>4. i \in Issues /\ issue[i] \in Row
  BY UsedRun DEF RowsOK, RowsTyped, RunRow
<1>5. /\ locked \in Row /\ locked.checkout = issue[i].checkout /\ locked.ready = issue[i].ready
      /\ issue[i].exec = r => locked.exec = new
      /\ issue[i].exec # r => locked.exec = issue[i].exec
  BY <1>a, <1>4, LockedRow
<1> HIDE DEF locked
<1>6. Inserts(new, w, retry, i, locked)
  BY <1>2, <1>3, <1>4, <1>5 DEF Inserts
<1>7. Inserted(new, i, locked)
  <2> HIDE DEF i
  <2> QED BY <1>6, RunInserted
<1> QED BY <1>5, <1>7 DEF Hires, Inserted

LEMMA EnqueueMoves ==
  ASSUME RowsOK, NEW a \in Agents, NEW i \in Issues, NEW comment \in BOOLEAN,
         NEW reason \in RetryReasons, Enqueue(a, i, comment, reason), Asking
  PROVE  /\ WakesMoved /\ OnlyLock(i)
         /\ issue'[i].exec = ActiveRun(i)
         /\ \/ ActiveRun(i) # NoRun /\ Used' = Used
            \/ ActiveRun(i) = NoRun /\ ~issue[i].ready /\ Used' = Used /\ wake' = wake
            \/ ActiveRun(i) = NoRun /\ Hires(i, FALSE)
<1> DEFINE normal == NormalisedRow(i)
<1>0. /\ GoodRow(normal, i) /\ normal \in Row /\ normal.exec = ActiveRun(i)
      /\ normal.checkout = issue[i].checkout /\ normal.ready = issue[i].ready
  BY NormalisedRowIsActive DEF GoodRow
<1>t. wake \in [Wakes -> WakeRow \cup {NoRow}] /\ issue \in [Issues -> Row]
  BY DEF RowsOK, RowsTyped
<1> HIDE DEF normal
<1>n. ASSUME issue' = [issue EXCEPT ![i] = normal]
      PROVE  OnlyLock(i) /\ issue'[i].exec = ActiveRun(i)
  BY <1>0, <1>n, <1>t DEF OnlyLock
<1>1. CASE EnqueueSkipped(i, comment)
  <2>1. issue' = [issue EXCEPT ![i] = normal] /\ UNCHANGED <<run, wake>>
        /\ ActiveRun(i) = NoRun /\ ~issue[i].ready
    BY <1>1 DEF EnqueueSkipped, normal
  <2> QED BY <1>n, <2>1, WakesSame, SameRows
<1>2. CASE EnqueueCoalesced(a, i, comment, reason)
  <2>1. issue' = [issue EXCEPT ![i] = normal] /\ UNCHANGED wake /\ ActiveRun(i) # NoRun
    BY <1>2 DEF EnqueueCoalesced, normal
  <2>2. Used' = Used
    <3>1. ActiveRun(i) \in Used
      BY <2>1, ActiveRunIsLive DEF LiveRunsOf, RunsOf, Used
    <3>2. run' = [run EXCEPT ![ActiveRun(i)] = run'[ActiveRun(i)]]
          /\ run'[ActiveRun(i)].status = run[ActiveRun(i)].status
          /\ run'[ActiveRun(i)] # NoRow
      <4>1. ActiveRun(i) \in Runs /\ run[ActiveRun(i)] \in RunRow /\ run \in [Runs -> RunRow \cup {NoRow}]
        BY <3>1, UsedRun DEF RowsOK, RowsTyped
      <4> QED BY <1>2, <4>1, NoRowIsNoRun DEF EnqueueCoalesced, RunRow, NoRow
    <3> QED BY <3>1, <3>2 DEF Used, RowsOK, RowsTyped
  <2> QED BY <1>n, <2>1, <2>2, WakesSame
<1>3. CASE EnqueueDeferred(a, i, comment, reason)
  <2>1. run' = run /\ issue' = [issue EXCEPT ![i] = normal] /\ ActiveRun(i) # NoRun
    BY <1>3 DEF EnqueueDeferred, normal
  <2>2. WakesMoved
    <3>1. CASE Mine(a, i) # {}
      <4> DEFINE v == Oldest(Mine(a, i))
                 row == [wake[v] EXCEPT !.comment = @ \/ comment,
                                        !.reason = IF reason = "none" THEN @ ELSE reason]
      <4>1. v \in Wakes /\ v \in Deferred(i)
        BY <3>1, OldestDeferred DEF Mine
      <4>2. wake[v] \in WakeRow
        BY <1>t, <4>1 DEF Deferred
      <4>3. wake' = [wake EXCEPT ![v] = row]
        BY <1>3, <1>t, <3>1, <4>1 DEF EnqueueDeferred, Mine
      <4>4. row \in WakeRow /\ row.run = wake[v].run /\ row.status = wake[v].status
            /\ row.agent = wake[v].agent /\ row.issue = wake[v].issue
        BY <4>2 DEF WakeRow
      <4> HIDE DEF v, row
      <4>5. wake'[v] = row /\ \A w \in Wakes \ {v} : wake'[w] = wake[w]
        BY <1>t, <4>1, <4>3, <4>4
      <4>6. wake[v] # NoRow /\ row # NoRow
        BY <4>1, <4>4, NoRowIsNoRun DEF Deferred
      <4> QED BY <4>4, <4>5, <4>6 DEF WakesMoved, WakeMoved, KeepsWake
    <3>2. CASE Mine(a, i) = {}
      <4> DEFINE row == NewWake(a, i, "deferred_issue_execution", NoRun, reason, comment)
      <4>1. PICK v \in Wakes : FreshWake(v) /\ wake' = [wake EXCEPT ![v] = row]
        BY <1>3, <3>2 DEF EnqueueDeferred, Mine
      <4>2. row # NoRow /\ row.status = "deferred_issue_execution" /\ row.agent = a /\ row.issue = i
        <5>1. row # NoRow
          BY NewWakeType, RunsAreNumbers DEF WakeStatuses
        <5> QED BY <5>1 DEF NewWake
      <4> HIDE DEF row
      <4>3. wake'[v] = row /\ wake[v] = NoRow /\ \A w \in Wakes \ {v} : wake'[w] = wake[w]
        BY <1>t, <4>1 DEF FreshWake
      <4>4. \A w \in Wakes : IsDeferred(w) => wake[w].agent # a \/ wake[w].issue # i
        BY <3>2 DEF IsDeferred, Mine, Deferred
      <4>5. LiveRunsOf(i) # {}
        BY <2>1, ActiveRunIsLive
      <4>6. DeferredAnew(v)
        BY <2>1, <4>2, <4>3, <4>4, <4>5 DEF DeferredAnew
      <4> QED BY <4>3, <4>6 DEF WakesMoved, WakeMoved, KeepsWake
    <3> QED BY <3>1, <3>2
  <2> QED BY <1>n, <2>1, <2>2, SameRows
<1>4. CASE EnqueueQueued(a, i, comment, reason)
  <2>1. PICK new \in Runs, w \in Wakes :
          InsertRun(new, w, [NewRun(a, i, w, reason) EXCEPT !.comment = comment],
                    normal, FALSE)
    BY <1>4 DEF EnqueueQueued, normal
  <2> DEFINE row == [NewRun(a, i, w, reason) EXCEPT !.comment = comment]
  <2>2. row \in RunRow
    BY NewRunType
  <2>3. row.wake = w /\ row.issue = i
    BY DEF NewRun
  <2>4. /\ FreshRun(new) /\ FreshWake(w)
        /\ run' = [run EXCEPT ![new] = row]
        /\ wake' = [wake EXCEPT ![w] =
                      NewWake(row.agent, i, "queued", new, row.reason, row.comment)]
        /\ issue' = [issue EXCEPT ![i] = normal]
    BY <2>1, <2>3 DEF InsertRun
  <2> HIDE DEF row
  <2>5. Inserts(new, w, row, i, normal)
    BY <1>0, <2>2, <2>3, <2>4 DEF Inserts
  <2>6. Inserted(new, i, normal)
    BY <2>5, RunInserted
  <2>7. ActiveRun(i) = NoRun
    BY <1>4 DEF EnqueueQueued
  <2> QED BY <1>0, <2>6, <2>7 DEF Hires, Inserted
<1> QED BY <1>1, <1>2, <1>3, <1>4 DEF Enqueue

\* The wakes that a release passes over have failed; the others are as they were.
LEMMA FailedWakesMove ==
  ASSUME RowsOK, NEW i \in Issues, NEW w \in Wakes, wake'[w] = WakesFailed(i)[w]
  PROVE  /\ WakeMoved(w)
         /\ Promotable(i) = {} => ~(w \in Deferred(i))'
<1>1. CASE w \in PassedOver(i)
  <2>1. /\ wake'[w] # NoRow /\ wake'[w].status = "failed" /\ wake[w] # NoRow
        /\ wake'[w].agent = wake[w].agent /\ wake'[w].issue = wake[w].issue
    BY <1>1, WakesFailedRows, NoRowIsNoRun DEF Deferred
  <2> QED BY <2>1 DEF WakeMoved, KeepsWake, Deferred
<1>2. CASE w \notin PassedOver(i)
  <2>1. wake'[w] = wake[w]
    BY <1>2, WakesFailedRows
  <2>2. Promotable(i) = {} => w \notin Deferred(i)
    BY <1>2 DEF PassedOver
  <2> QED BY <2>1, <2>2 DEF WakeMoved, KeepsWake, Deferred
<1> QED BY <1>1, <1>2

\* What became of the lock and of the deferred wakes of issue i when run r released it.
Released(r, i) ==
  \/ ~MayRelease(r) /\ UNCHANGED <<run, wake, issue>>
  \/ MayRelease(r) /\ run' = run /\ issue'[i].exec = NoRun /\ Deferred(i)' = {}
  \/ MayRelease(r) /\ Hires(i, TRUE)

\* Nothing but the locks of issue i moves, and the other issues do not.
OnlyLocks(i) ==
  /\ issue'[i].checkout \in {NoRun, issue[i].checkout} /\ issue'[i].ready = issue[i].ready
  /\ \A j \in Issues \ {i} : issue'[j] = issue[j]

LEMMA PromotionWrites ==
  ASSUME NEW r, NEW also, ReleasePromote(r, also)
  PROVE  LET i == run[r].issue
             w == Oldest(Promotable(i))
             a == wake[w].agent
         IN \E new \in Runs :
              /\ FreshRun(new)
              /\ run' = [run EXCEPT ![new] =
                           [NewRun(a, i, w, wake[w].reason) EXCEPT !.comment = wake[w].comment]]
              /\ wake' = [WakesFailed(i) EXCEPT ![w].status = "queued", ![w].run = new]
              /\ issue' = [issue EXCEPT ![i] = LockedBy(Reopened(Freed(r), w), new, a)]
  BY Zenon DEF ReleasePromote

LEMMA ReleaseMoves ==
  ASSUME RowsOK, NEW r \in Used, NEW i \in Issues, i = run[r].issue,
         NEW seen, NEW also, Release(r, seen, also)
  PROVE  WakesMoved /\ OnlyLocks(i) /\ Released(r, i)
<1>t. run \in [Runs -> RunRow \cup {NoRow}] /\ wake \in [Wakes -> WakeRow \cup {NoRow}]
      /\ issue \in [Issues -> Row] /\ run[r].agent \in Agents
  BY UsedRun DEF RowsOK, RowsTyped, RunRow
<1>f. /\ Freed(r) \in Row /\ Freed(r).checkout = issue[i].checkout
      /\ Freed(r).ready = issue[i].ready
      /\ MayRelease(r) => Freed(r).exec = NoRun
  <2>1. Freed(r).ready = issue[i].ready
    BY <1>t, UnlockedRow DEF Freed
  <2> QED BY <2>1, FreedRow DEF GoodRow
<1>l. ASSUME NEW row \in Row, issue' = [issue EXCEPT ![i] = row],
             row.checkout \in {NoRun, issue[i].checkout}, row.ready = issue[i].ready
      PROVE  OnlyLocks(i) /\ issue'[i] = row
  BY <1>t, <1>l DEF OnlyLocks
<1>w. ASSUME wake' = WakesFailed(i)
      PROVE  WakesMoved /\ (Promotable(i) = {} => Deferred(i)' = {})
  <2>1. \A w \in Wakes : WakeMoved(w) /\ (Promotable(i) = {} => ~(w \in Deferred(i))')
    BY <1>w, FailedWakesMove
  <2> QED BY <2>1 DEF WakesMoved, Deferred
<1>1. CASE ~MayRelease(r) /\ UNCHANGED <<run, wake, issue>>
  BY <1>1, WakesSame DEF OnlyLocks, Released
<1>2. CASE MayRelease(r) /\ ReleasePromote(r, also)
  <2> DEFINE j == run[r].issue
             w == Oldest(Promotable(j))
             a == wake[w].agent
             row(n) == [NewRun(a, j, w, wake[w].reason) EXCEPT !.comment = wake[w].comment]
             open == Reopened(Freed(r), w)
  <2>1. w \in Promotable(i) /\ w \in Wakes
    BY <1>2, OldestDeferred DEF ReleasePromote, Promotable
  <2>2. wake[w] \in WakeRow
    BY <1>t, <2>1 DEF Promotable, Deferred
  <2>3. PICK new \in Runs :
          /\ FreshRun(new)
          /\ run' = [run EXCEPT ![new] = row(new)]
          /\ wake' = [WakesFailed(j) EXCEPT ![w].status = "queued", ![w].run = new]
          /\ issue' = [issue EXCEPT ![j] = LockedBy(open, new, a)]
    BY <1>2, PromotionWrites
  <2>4. a \in Agents /\ row(new) \in RunRow /\ row(new).wake = w /\ row(new).issue = i
    <3>1. a \in Agents /\ row(new) \in RunRow
      BY <2>1, <2>2, NewRunType DEF WakeRow
    <3> QED BY <3>1 DEF NewRun
  <2>5. open \in Row /\ open.checkout \in {NoRun, Freed(r).checkout} /\ open.ready = Freed(r).ready
    <3>1. open.ready = Freed(r).ready
      BY <1>f, PatchedRow DEF Reopened, IssueStatuses
    <3> QED BY <1>f, <3>1, ReopenedRow
  <2> DEFINE locked == LockedBy(open, new, a)
  <2> HIDE DEF row, open, a
  <2>6. new \notin Used /\ Used' = Used \cup {new} /\ run'[new] = row(new)
    BY <2>3, <2>4, FreshRunInserted DEF RowsOK
  <2>7. w \notin PassedOver(i)
    <3>1. Promotable(i) \in SUBSET Nat
      BY RunsAreNumbers DEF Promotable, Deferred
    <3>2. Promotable(i) # {} /\ w \in Nat
      BY <2>1, <3>1
    <3> QED BY <3>2 DEF PassedOver
  <2>8. WakesFailed(i)[w] = wake[w]
    BY <2>1, <2>7, WakesFailedRows
  <2>9. locked \in Row /\ locked.exec = new /\ locked.checkout = open.checkout
        /\ locked.ready = open.ready
    BY <2>4, <2>5, LockedRow
  <2>10. issue' = [issue EXCEPT ![i] = locked]
    BY <2>3
  <2> DEFINE promoted == [wake[w] EXCEPT !.status = "queued", !.run = new]
  <2>11. /\ promoted \in WakeRow /\ promoted.run = new /\ promoted.status = "queued"
    BY <2>2 DEF WakeRow, WakeStatuses
  <2>12. wake' = [WakesFailed(i) EXCEPT ![w] = promoted]
    BY <2>1, <2>3, <2>8, WakesFailedRows
  <2> HIDE DEF promoted, locked, w
  <2>13. wake'[w] = promoted /\ \A v \in Wakes \ {w} : wake'[v] = WakesFailed(i)[v]
    BY <2>1, <2>11, <2>12, WakesFailedRows
  <2>14. WakesMoved
    <3>1. WakeMoved(w)
      BY <2>4, <2>6, <2>11, <2>13, NoRowIsNoRun DEF WakeMoved
    <3>2. \A v \in Wakes \ {w} : WakeMoved(v)
      BY <2>13, FailedWakesMove
    <3> QED BY <3>1, <3>2 DEF WakesMoved
  <2>15. OnlyLocks(i) /\ issue'[i] = locked
    <3>1. locked \in Row /\ locked.checkout \in {NoRun, issue[i].checkout}
          /\ locked.ready = issue[i].ready
      BY <1>f, <2>5, <2>9
    <3> QED BY <1>l, <2>10, <3>1
  <2>16. Hires(i, TRUE)
    BY <2>4, <2>6, <2>9, <2>15 DEF Hires
  <2> QED BY <1>2, <2>14, <2>15, <2>16 DEF Released
<1>3. CASE MayRelease(r) /\ ReleaseBlock(r, seen, also)
  <2> DEFINE row == [Freed(r) EXCEPT !.status = "blocked"]
  <2>1. run' = run /\ wake' = WakesFailed(i) /\ issue' = [issue EXCEPT ![i] = row]
        /\ Promotable(i) = {}
    BY <1>3 DEF ReleaseBlock
  <2>2. row \in Row /\ row.exec = Freed(r).exec /\ row.checkout = Freed(r).checkout
        /\ row.ready = Freed(r).ready
    BY <1>f DEF Row, IssueStatuses
  <2> HIDE DEF row
  <2>3. OnlyLocks(i) /\ issue'[i] = row
    BY <1>f, <1>l, <2>1, <2>2
  <2> QED BY <1>3, <1>f, <1>w, <2>1, <2>2, <2>3 DEF Released
<1>4. CASE MayRelease(r) /\ ReleaseRecover(r, seen, also)
  <2> DEFINE a == run[r].agent
             reason == RecoveryReason(issue[i].status)
             row(w) == NewRun(a, i, w, reason)
             added(new) == NewWake(a, i, "queued", new, reason, FALSE)
  <2>1. PICK new \in Runs, w \in Wakes :
          /\ FreshRun(new) /\ FreshWake(w)
          /\ run' = [run EXCEPT ![new] = row(w)]
          /\ wake' = [WakesFailed(i) EXCEPT ![w] = added(new)]
          /\ issue' = [issue EXCEPT ![i] = LockedBy(Freed(r), new, a)]
    BY <1>4 DEF ReleaseRecover
  <2>2. reason \in RetryReasons
    BY DEF RecoveryReason, RetryReasons
  <2>3. row(w) \in RunRow /\ row(w).wake = w /\ row(w).issue = i
    <3>1. row(w) \in RunRow
      BY <1>t, <2>2, NewRunType
    <3> QED BY <3>1 DEF NewRun
  <2>5. added(new) \in WakeRow /\ added(new) # NoRow /\ added(new).run = new
        /\ added(new).status = "queued"
    <3>1. added(new) \in WakeRow /\ added(new) # NoRow
      BY <1>t, <2>2, NewWakeType DEF WakeStatuses
    <3> QED BY <3>1 DEF NewWake
  <2> HIDE DEF row, added, reason
  <2>6. new \notin Used /\ Used' = Used \cup {new} /\ run'[new] = row(w)
    BY <2>1, <2>3, FreshRunInserted DEF RowsOK
  <2>7. wake'[w] = added(new) /\ \A v \in Wakes \ {w} : wake'[v] = WakesFailed(i)[v]
    BY <2>1, <2>5, WakesFailedRows
  <2>8. WakesMoved
    <3>1. WakeMoved(w)
      BY <2>3, <2>5, <2>6, <2>7 DEF WakeMoved
    <3>2. \A v \in Wakes \ {w} : WakeMoved(v)
      BY <2>7, FailedWakesMove
    <3> QED BY <3>1, <3>2 DEF WakesMoved
  <2> DEFINE locked == LockedBy(Freed(r), new, a)
  <2>9. locked \in Row /\ locked.exec = new /\ locked.checkout = Freed(r).checkout
        /\ locked.ready = Freed(r).ready
    BY <1>f, <1>t, LockedRow
  <2>10. issue' = [issue EXCEPT ![i] = locked]
    BY <2>1
  <2> HIDE DEF locked
  <2>11. OnlyLocks(i) /\ issue'[i] = locked
    BY <1>f, <1>l, <2>9, <2>10
  <2>12. Hires(i, TRUE)
    BY <2>3, <2>6, <2>9, <2>11 DEF Hires
  <2> QED BY <1>4, <2>8, <2>11, <2>12 DEF Released
<1>5. CASE MayRelease(r) /\ ReleaseOnly(r, seen, also)
  <2>1. run' = run /\ wake' = WakesFailed(i) /\ issue' = [issue EXCEPT ![i] = Freed(r)]
        /\ Promotable(i) = {}
    BY <1>5 DEF ReleaseOnly
  <2>2. OnlyLocks(i) /\ issue'[i] = Freed(r)
    BY <1>f, <1>l, <2>1
  <2> QED BY <1>5, <1>f, <1>w, <2>1, <2>2 DEF Released
<1> QED BY <1>1, <1>2, <1>3, <1>4, <1>5 DEF Release

-----------------------------------------------------------------------------
(* What a step does to the locks of an issue. *)

LockKept(i) ==
  issue'[i].exec = issue[i].exec /\ issue'[i].checkout = issue[i].checkout

\* A wake has found the run that the issue is being executed by.
LockNormalised(i) ==
  /\ issue'[i].exec = ActiveRun(i) /\ issue'[i].checkout = issue[i].checkout
  /\ ActiveRun(i) # NoRun \/ ~issue[i].ready \/ Hires(i, FALSE)

LockStamped(i) ==
  \E a \in Agents :
    /\ StarterStep(a) /\ starter[a].pc = "stamp" /\ run[Claiming(a)].issue = i
    /\ issue[i].exec \in {NoRun, Claiming(a)} /\ issue'[i].exec = Claiming(a)
    /\ issue'[i].checkout = issue[i].checkout

\* A finished run that may hold the lock gives it up, or passes it on.
LockReleased(i) ==
  \E r \in Used :
    /\ run[r].issue = i /\ Finished(r) /\ issue[i].exec \in {NoRun, r}
    /\ issue'[i].checkout \in {NoRun, issue[i].checkout}
    /\ \/ issue'[i].exec = NoRun /\ Deferred(i)' = {}
       \/ Hires(i, TRUE)

\* A run that begins takes both locks, or drops the lock of a run that has ended.
LockTaken(i) ==
  \E r \in Used :
    /\ run[r].issue = i /\ exec[r].pc = "checkout" /\ exec'[r].pc \in {"spawn", "adapter"}
    /\ \/ issue'[i].checkout = r /\ issue'[i].exec = r
       \/ /\ issue'[i].checkout = issue[i].checkout /\ issue'[i].exec = NoRun
          /\ issue[i].exec # NoRun /\ Dead(issue[i].exec)

LockDropped(i) ==
  /\ issue'[i].exec = NoRun /\ issue'[i].checkout = NoRun
  /\ events'["edit"] > 0 \/ recon.pc = "escalate"

LockMoved(i) ==
  \/ LockKept(i) \/ LockNormalised(i) \/ LockStamped(i)
  \/ LockReleased(i) \/ LockTaken(i) \/ LockDropped(i)

ReadyMoved(i) == issue'[i].ready = issue[i].ready \/ events'["edit"] > 0

Moved == WakesMoved /\ \A i \in Issues : LockMoved(i) /\ ReadyMoved(i)

LEMMA IssuesSame ==
  ASSUME UNCHANGED issue, WakesMoved
  PROVE  Moved
  BY DEF Moved, LockMoved, LockKept, ReadyMoved

LEMMA OneIssueMoves ==
  ASSUME WakesMoved, NEW i \in Issues, \A j \in Issues \ {i} : issue'[j] = issue[j],
         LockMoved(i), ReadyMoved(i)
  PROVE  Moved
  BY DEF Moved, LockMoved, LockKept, ReadyMoved

LEMMA ReleaseLocks ==
  ASSUME RowsOK, NEW r \in Used, Finished(r), NEW seen, NEW also, Release(r, seen, also)
  PROVE  Moved
<1>1. PICK i \in Issues : i = run[r].issue
  BY UsedRun DEF RowsOK, RunRow
<1>2. WakesMoved /\ OnlyLocks(i) /\ Released(r, i)
  BY <1>1, ReleaseMoves
<1>3. ReadyMoved(i) /\ \A j \in Issues \ {i} : issue'[j] = issue[j]
  BY <1>2 DEF OnlyLocks, ReadyMoved
<1>4. LockMoved(i)
  <2>1. CASE UNCHANGED <<run, wake, issue>>
    BY <2>1 DEF LockMoved, LockKept
  <2>2. CASE MayRelease(r) /\ \/ issue'[i].exec = NoRun /\ Deferred(i)' = {}
                              \/ Hires(i, TRUE)
    BY <1>1, <1>2, <2>2 DEF LockMoved, LockReleased, MayRelease, OnlyLocks
  <2> QED BY <1>2, <2>1, <2>2 DEF Released
<1> QED BY <1>2, <1>3, <1>4, OneIssueMoves

LEMMA RetryLocks ==
  ASSUME RowsOK, NEW r \in Used, Finished(r), NEW row \in RetryRow,
         row.issue = run[r].issue, InsertRetry(r, row)
  PROVE  Moved
<1>1. PICK i \in Issues : i = run[r].issue
  BY UsedRun DEF RowsOK, RunRow
<1>2. /\ WakesMoved /\ OnlyLock(i)
      /\ Hires(i, issue[i].exec = r)
      /\ issue[i].exec # r => issue'[i].exec = issue[i].exec
  BY <1>1, InsertRetryMoves
<1>3. ReadyMoved(i) /\ \A j \in Issues \ {i} : issue'[j] = issue[j]
  BY <1>2 DEF OnlyLock, ReadyMoved
<1>4. CASE issue[i].exec = r
  <2>1. Hires(i, TRUE)
    BY <1>2, <1>4 DEF Hires
  <2>2. LockReleased(i)
    BY <1>1, <1>2, <1>4, <2>1 DEF LockReleased, OnlyLock
  <2> QED BY <1>2, <1>3, <2>2, OneIssueMoves DEF LockMoved
<1>5. CASE issue[i].exec # r
  BY <1>2, <1>3, <1>5, OneIssueMoves DEF LockMoved, LockKept, OnlyLock
<1> QED BY <1>4, <1>5

LEMMA EnqueueLocks ==
  ASSUME RowsOK, NEW a \in Agents, NEW i \in Issues, NEW comment \in BOOLEAN,
         NEW reason \in RetryReasons, Enqueue(a, i, comment, reason), Asking
  PROVE  Moved
<1>1. /\ WakesMoved /\ OnlyLock(i)
      /\ issue'[i].exec = ActiveRun(i)
      /\ \/ ActiveRun(i) # NoRun
         \/ ~issue[i].ready
         \/ Hires(i, FALSE)
  BY EnqueueMoves, Zenon
<1>2. LockMoved(i) /\ ReadyMoved(i) /\ \A j \in Issues \ {i} : issue'[j] = issue[j]
  BY <1>1 DEF LockMoved, LockNormalised, OnlyLock, ReadyMoved
<1> QED BY <1>1, <1>2, OneIssueMoves

\* A status written to the wake of a run is no longer one that waits.
LEMMA WakeStatusMoves ==
  ASSUME RowsOK, NEW r \in Used, NEW s \in WakeStatuses \ {"queued", "deferred_issue_execution"},
         wake' = [wake EXCEPT ![run[r].wake].status = s], UNCHANGED <<run, issue>>
  PROVE  Moved /\ wake'[run[r].wake].status = s
<1> DEFINE v == run[r].wake
           row == [wake[v] EXCEPT !.status = s]
<1>1. v \in Wakes /\ wake[v] \in WakeRow /\ wake \in [Wakes -> WakeRow \cup {NoRow}]
  BY UsedRun DEF RowsOK, RunRow, RunHasWake, RowsTyped
<1>2. row \in WakeRow /\ row.agent = wake[v].agent /\ row.issue = wake[v].issue /\ row.status = s
  BY <1>1 DEF WakeRow
<1>3. wake' = [wake EXCEPT ![v] = row]
  OBVIOUS
<1> HIDE DEF row, v
<1>4. wake'[v] = row /\ \A w \in Wakes \ {v} : wake'[w] = wake[w]
  BY <1>1, <1>2, <1>3
<1>5. \A w \in Wakes : WakeMoved(w)
  BY <1>1, <1>2, <1>4, NoRowIsNoRun DEF WakeMoved, KeepsWake
<1> QED BY <1>2, <1>4, <1>5, IssuesSame DEF WakesMoved, v

LEMMA StarterLocks ==
  ASSUME Typed, NEW a \in Agents, StarterStep(a)
  PROVE  Moved /\ (starter[a].pc = "wake" => wake'[run[Claiming(a)].wake].status = "claimed")
<1>0. /\ RowsOK /\ StartersOK
      /\ starter[a].pc # "idle" => Claiming(a) \in Used /\ Claiming(a) \in Runs
                                   /\ run[Claiming(a)].issue \in Issues
  BY ClaimingIsUsed, UsedRun DEF Typed, HandsOK, RowsOK, RunRow
<1> DEFINE r == Claiming(a)
           i == run[r].issue
<1>1. CASE UNCHANGED <<wake, issue>> /\ starter[a].pc # "wake"
  BY <1>1, WakesSame, IssuesSame
<1>2. CASE ClaimWake(a)
  <2>1. "claimed" \in WakeStatuses \ {"queued", "deferred_issue_execution"}
    BY DEF WakeStatuses
  <2>2. /\ wake' = [wake EXCEPT ![run[r].wake].status = "claimed"]
        /\ UNCHANGED <<run, issue>> /\ starter[a].pc = "wake"
    BY <1>2 DEF ClaimWake
  <2> QED BY <1>0, <2>1, <2>2, WakeStatusMoves
<1>3. CASE ClaimStamp(a)
  <2>1. /\ starter[a].pc = "stamp" /\ wake' = wake
        /\ issue' = IF issue[i].exec \in {NoRun, r}
                    THEN [issue EXCEPT ![i] = LockedBy(issue[i], r, a)] ELSE issue
    BY <1>3 DEF ClaimStamp
  <2>2. r \in Runs /\ i \in Issues /\ issue \in [Issues -> Row]
    BY <1>0, <2>1 DEF RowsOK, RowsTyped
  <2>3. WakesMoved
    BY <2>1, WakesSame
  <2>4. CASE issue[i].exec \in {NoRun, r}
    <3> DEFINE row == LockedBy(issue[i], r, a)
    <3>1. row.exec = r /\ row.checkout = issue[i].checkout /\ row.ready = issue[i].ready
      BY <2>2, LockedRow
    <3>2. issue' = [issue EXCEPT ![i] = row]
      BY <2>1, <2>4
    <3> HIDE DEF row
    <3>3. issue'[i] = row /\ \A j \in Issues \ {i} : issue'[j] = issue[j]
      BY <2>2, <3>2
    <3>4. LockStamped(i) /\ ReadyMoved(i)
      BY <2>1, <2>4, <3>1, <3>3 DEF LockStamped, ReadyMoved
    <3>5. \E j \in Issues : /\ \A k \in Issues \ {j} : issue'[k] = issue[k]
                            /\ LockMoved(j) /\ ReadyMoved(j)
      BY <2>2, <3>3, <3>4 DEF LockMoved
    <3> QED BY <2>1, <2>3, <3>5, OneIssueMoves
  <2>5. CASE issue[i].exec \notin {NoRun, r}
    BY <2>1, <2>3, <2>5, IssuesSame
  <2> QED BY <2>4, <2>5
<1> QED BY <1>1, <1>2, <1>3 DEF StarterStep, StartBegin, ClaimCheck, ClaimCas

LEMMA ExecLocks ==
  ASSUME Typed, Done, NEW r \in Runs, ExecStep(r)
  PROVE  Moved
<1>0. RowsOK /\ ExecsOK /\ ExecDone /\ exec \in [Runs -> Exec] /\ r \in Used /\ RowsTyped
  BY ExecStepMoves DEF Typed, HandsOK, Done, ExecsOK, RowsOK
<1>1. CASE UNCHANGED <<wake, issue>>
  BY <1>1, WakesSame, IssuesSame
<1>2. CASE ExecCheckout(r) /\ issue' # issue
  <2> DEFINE i == run[r].issue
             row == AutoCheckedOut(r)
  <2>1. /\ exec[r].pc = "checkout" /\ wake' = wake /\ issue' = [issue EXCEPT ![i] = row]
        /\ exec' = [exec EXCEPT ![r].pc = IF run[r].agent \in LocalAgents THEN "spawn" ELSE "adapter"]
    BY <1>2 DEF ExecCheckout
  <2>2. exec'[r].pc \in {"spawn", "adapter"}
    BY <1>0, <2>1 DEF Exec
  <2>3. i \in Issues /\ row.ready = issue[i].ready
        /\ \/ row.checkout = r /\ row.exec = r
           \/ row.checkout = issue[i].checkout /\ row.exec = issue[i].exec
           \/ row.checkout = issue[i].checkout /\ row.exec = NoRun /\ Dead(issue[i].exec)
              /\ issue[i].exec # NoRun
    BY <1>0, AutoCheckedOutRow
  <2> HIDE DEF row
  <2>4. issue'[i] = row /\ \A j \in Issues \ {i} : issue'[j] = issue[j]
    BY <1>0, <2>1, <2>3 DEF RowsTyped
  <2>5. LockTaken(i) \/ LockKept(i)
    BY <1>0, <2>1, <2>2, <2>3, <2>4 DEF LockTaken, LockKept
  <2>6. ReadyMoved(i) /\ WakesMoved
    BY <2>1, <2>3, <2>4, WakesSame DEF ReadyMoved
  <2>7. \E j \in Issues : /\ \A k \in Issues \ {j} : issue'[k] = issue[k]
                          /\ LockMoved(j) /\ ReadyMoved(j)
    BY <2>3, <2>4, <2>5, <2>6 DEF LockMoved
  <2> QED BY <2>6, <2>7, OneIssueMoves
<1>3. CASE ExecWake(r)
  <2> DEFINE o == Status(exec[r].outcome)
             s == IF o = "succeeded" THEN "completed" ELSE o
  <2>1. /\ wake' = [wake EXCEPT ![run[r].wake].status = s] /\ UNCHANGED <<run, issue>>
        /\ exec[r].pc = "wake"
    BY <1>3 DEF ExecWake
  <2>2. s \in WakeStatuses \ {"queued", "deferred_issue_execution"}
    BY <1>0, <2>1 DEF ExecsOK, Exec, Status, WakeStatuses, Terminal, Persisting
  <2> HIDE DEF s
  <2> QED BY <1>0, <2>1, <2>2, WakeStatusMoves
<1>4. CASE ExecRetry(r) \/ ExecComment(r)
  <2>1. Finished(r)
    BY <1>0, <1>4 DEF ExecRetry, ExecComment, ExecDone
  <2>2. CASE ExecRetry(r)
    <3>1. InsertRetry(r, TransientRetry(r)) \/ UNCHANGED <<wake, issue>>
      BY <2>2 DEF ExecRetry, TransientRetry
    <3> QED BY <1>0, <1>1, <2>1, <3>1, RetriesTyped, RetryLocks
  <2>3. CASE ExecComment(r)
    <3>1. InsertRetry(r, CommentRetry(r)) \/ UNCHANGED <<wake, issue>>
      BY <2>3 DEF ExecComment, CommentRetry
    <3> QED BY <1>0, <1>1, <2>1, <3>1, RetriesTyped, RetryLocks
  <2> QED BY <1>4, <2>2, <2>3
<1>5. CASE ExecRelease(r)
  <2>1. Finished(r) /\ \E seen, also : Release(r, seen, also)
    BY <1>0, <1>5 DEF ExecRelease, ExecDone
  <2> QED BY <1>0, <2>1, ReleaseLocks
<1> QED BY <1>1, <1>2, <1>3, <1>4, <1>5
        DEF ExecStep, ExecBegin, ExecCheckout, ExecSpawn, ExecReturn, ExecThrow, ExecPersist

LEMMA CancelLocks ==
  ASSUME Typed, Done, NEW r \in Runs, CancelStep(r)
  PROVE  Moved /\ (cancel[r].pc = "wake" => wake'[run[r].wake].status = "cancelled")
<1>0. RowsOK /\ CancelDone /\ r \in Used
  BY CancelStepMoves DEF Typed, Done
<1>1. CASE UNCHANGED <<wake, issue>> /\ cancel[r].pc # "wake"
  BY <1>1, WakesSame, IssuesSame
<1>2. CASE CancelWake(r)
  <2>1. "cancelled" \in WakeStatuses \ {"queued", "deferred_issue_execution"}
    BY DEF WakeStatuses
  <2>2. wake' = [wake EXCEPT ![run[r].wake].status = "cancelled"] /\ UNCHANGED <<run, issue>>
    BY <1>2 DEF CancelWake
  <2> QED BY <1>0, <2>1, <2>2, WakeStatusMoves
<1>3. CASE CancelRelease(r)
  <2>1. Finished(r) /\ cancel[r].pc = "release" /\ \E seen, also : Release(r, seen, also)
    BY <1>0, <1>3 DEF CancelRelease, CancelDone
  <2> QED BY <1>0, <2>1, ReleaseLocks
<1> QED BY <1>1, <1>2, <1>3 DEF CancelStep, SweepNext, CancelKill, CancelStatus

LEMMA ReaperLocks ==
  ASSUME Typed, Done, ReaperStep
  PROVE  Moved
<1> DEFINE r == reaper.run
<1>0. RowsOK /\ RowsTyped /\ ReaperOK /\ ReaperDone
  BY DEF Typed, HandsOK, Done, RowsOK
<1>1. CASE UNCHANGED <<wake, issue>>
  BY <1>1, WakesSame, IssuesSame
<1>f. reaper.pc # "none" => Finished(r) /\ r \in Used
  BY <1>0 DEF ReaperDone, ReaperOK, Finished
<1>2. CASE ReapWake
  <2>1. "failed" \in WakeStatuses \ {"queued", "deferred_issue_execution"}
    BY DEF WakeStatuses
  <2>2. wake' = [wake EXCEPT ![run[r].wake].status = "failed"] /\ UNCHANGED <<run, issue>>
        /\ reaper.pc # "none"
    BY <1>2 DEF ReapWake
  <2> QED BY <1>0, <1>f, <2>1, <2>2, WakeStatusMoves
<1>3. CASE ReapRetry
  <2>1. reaper.pc # "none" /\ InsertRetry(r, LostRetry(r))
    BY <1>3 DEF ReapRetry, LostRetry
  <2> QED BY <1>0, <1>f, <2>1, RetriesTyped, RetryLocks
<1>4. CASE ReapRelease
  <2>1. reaper.pc # "none" /\ \E seen, also : Release(r, seen, also)
    BY <1>4 DEF ReapRelease
  <2> QED BY <1>0, <1>f, <2>1, ReleaseLocks
<1> QED BY <1>1, <1>2, <1>3, <1>4 DEF ReaperStep, ReapScan, ReapExamine

\* PATCH /issues/:id and the escalation: both locks stay, or both are dropped.
LEMMA EditLocks ==
  ASSUME RowsOK, NEW i \in Issues, NEW row \in Row, UNCHANGED wake,
         issue' = [issue EXCEPT ![i] = row],
         row.ready = issue[i].ready \/ events'["edit"] > 0,
         \/ row.exec = issue[i].exec /\ row.checkout = issue[i].checkout
         \/ /\ row.exec = NoRun /\ row.checkout = NoRun
            /\ events'["edit"] > 0 \/ recon.pc = "escalate"
  PROVE  Moved
<1>1. issue'[i] = row /\ \A j \in Issues \ {i} : issue'[j] = issue[j]
  BY DEF RowsOK, RowsTyped
<1>2. LockMoved(i) /\ ReadyMoved(i) /\ WakesMoved
  BY <1>1, WakesSame DEF LockMoved, LockKept, LockDropped, ReadyMoved
<1> QED BY <1>1, <1>2, OneIssueMoves

LEMMA OtherLocks ==
  ASSUME Typed, OtherStep
  PROVE  Moved
<1>0. RowsOK /\ EnvironmentOK /\ ReconOK /\ wake \in [Wakes -> WakeRow \cup {NoRow}]
      /\ issue \in [Issues -> Row]
  BY DEF Typed, HandsOK, RowsOK, RowsTyped
<1>1. CASE UNCHANGED <<wake, issue>>
  BY <1>1, WakesSame, IssuesSame
<1>2. ASSUME NEW a \in Agents, NEW i \in Issues, NEW comment \in CommentWakes,
             WakeAgent(a, i, comment)
      PROVE  Moved
  <2>1. Enqueue(a, i, comment, "none") /\ comment \in BOOLEAN /\ "none" \in RetryReasons
    BY <1>2, RunExecutionAssumption DEF WakeAgent, RetryReasons
  <2>2. Asking
    <3>1. "wake" \in EventKinds /\ Event("wake")
      BY <1>2 DEF WakeAgent, EventKinds
    <3> QED BY <1>0, <3>1, EventTyped DEF Asking, EnvironmentOK
  <2> QED BY <1>0, <2>1, <2>2, EnqueueLocks
<1>3. ASSUME NEW a \in Agents, CancelPendingWakes(a)
      PROVE  Moved
  <2> DEFINE pending == {w \in Wakes : /\ wake[w] # NoRow
                                       /\ wake[w].agent = a /\ wake[w].run = NoRun
                                       /\ wake[w].status \in {"queued", "deferred_issue_execution"}}
  <2>1. /\ wake' = [w \in Wakes |-> IF w \in pending THEN [wake[w] EXCEPT !.status = "cancelled"]
                                    ELSE wake[w]]
        /\ UNCHANGED issue
    BY <1>3 DEF CancelPendingWakes
  <2>2. ASSUME NEW w \in Wakes
        PROVE  WakeMoved(w)
    <3>1. CASE w \in pending
      <4> DEFINE row == [wake[w] EXCEPT !.status = "cancelled"]
      <4>1. wake[w] \in WakeRow /\ wake[w] # NoRow
        BY <1>0, <3>1
      <4>2. row \in WakeRow /\ row.status = "cancelled" /\ row.agent = wake[w].agent
            /\ row.issue = wake[w].issue
        BY <4>1 DEF WakeRow, WakeStatuses
      <4>3. wake'[w] = row
        BY <2>1, <3>1
      <4> HIDE DEF row
      <4> QED BY <4>1, <4>2, <4>3, NoRowIsNoRun DEF WakeMoved, KeepsWake
    <3>2. CASE w \notin pending
      <4>1. wake'[w] = wake[w]
        BY <2>1, <3>2
      <4> QED BY <4>1 DEF WakeMoved, KeepsWake
    <3> QED BY <3>1, <3>2
  <2> QED BY <2>1, <2>2, IssuesSame DEF WakesMoved
<1>4. ASSUME NEW i \in Issues, EditIssue(i)
      PROVE  Moved
  <2>1. events'["edit"] > 0 /\ UNCHANGED wake
    BY <1>0, <1>4, EventTyped DEF EditIssue, EventKinds
  <2>2. ASSUME NEW patch \in Patches, issue' = [issue EXCEPT ![i] = Updated(@, patch)]
        PROVE  Moved
    <3> DEFINE row == Updated(issue[i], patch)
    <3>1. /\ row \in Row /\ row.ready = issue[i].ready
          /\ \/ row.exec = NoRun /\ row.checkout = NoRun
             \/ row.exec = issue[i].exec /\ row.checkout = issue[i].checkout
      BY <1>0, UpdatedRow
    <3>2. issue' = [issue EXCEPT ![i] = row]
      BY <2>2
    <3> HIDE DEF row
    <3> QED BY <1>0, <2>1, <3>1, <3>2, EditLocks
  <2>3. CASE issue' = [issue EXCEPT ![i].ready = ~@]
    <3> DEFINE row == [issue[i] EXCEPT !.ready = ~@]
    <3>1. row \in Row /\ row.exec = issue[i].exec /\ row.checkout = issue[i].checkout
      BY <1>0 DEF Row
    <3>2. issue' = [issue EXCEPT ![i] = row]
      BY <2>3
    <3> HIDE DEF row
    <3> QED BY <1>0, <2>1, <3>1, <3>2, EditLocks
  <2> QED BY <1>4, <2>2, <2>3 DEF EditIssue
<1>5. CASE ReconcileEscalate
  <2> DEFINE i == recon.issue
             row == Updated(issue[i], StatusPatch("blocked"))
  <2>1. i \in Issues /\ UNCHANGED wake /\ issue' = [issue EXCEPT ![i] = row]
        /\ recon.pc = "escalate"
    BY <1>0, <1>5 DEF ReconcileEscalate, ReconOK
  <2>2. row \in Row /\ row.ready = issue[i].ready /\ row.exec = NoRun /\ row.checkout = NoRun
    BY <1>0, <2>1, PatchedRow DEF IssueStatuses
  <2> HIDE DEF row
  <2> QED BY <1>0, <2>1, <2>2, EditLocks
<1>6. CASE ReconcileRecover
  <2>1. recon.issue \in Issues /\ recon.agent \in Agents /\ recon.reason \in RetryReasons
    BY <1>0, <1>6 DEF ReconcileRecover, ReconOK, Recon
  <2>2. UNCHANGED <<wake, issue>> \/ Enqueue(recon.agent, recon.issue, FALSE, recon.reason)
    BY <1>6 DEF ReconcileRecover
  <2>3. Asking
    BY <1>6 DEF ReconcileRecover, Asking
  <2> QED BY <1>0, <1>1, <2>1, <2>2, <2>3, EnqueueLocks
<1> QED BY <1>1, <1>2, <1>3, <1>4, <1>5, <1>6
        DEF OtherStep, CancelRequest, OrphanExits, PromoteScheduled, Pause, Resume, BudgetStop,
            BudgetResume, ResumeQueued, ReconStep, ReconcileFind, vars

\* Whatever the step is.
LEMMA NextMoves ==
  ASSUME Typed, Done, [Next]_vars
  PROVE  Moved
<1>1. CASE Crash
  <2>1. UNCHANGED <<wake, issue>>
    BY <1>1 DEF Crash
  <2> QED BY <2>1, WakesSame, IssuesSame
<1> QED BY <1>1, StepKinds, StarterLocks, ExecLocks, CancelLocks, ReaperLocks, OtherLocks

-----------------------------------------------------------------------------
(* One deferred wake, and the owner's lock. *)

LEMMA OneDeferredNext ==
  ASSUME WakesMoved, OneDeferredPerAgent
  PROVE  OneDeferredPerAgent'
<1>1. ASSUME NEW w \in Wakes, IsDeferred(w)'
      PROVE  \/ /\ IsDeferred(w)
                /\ wake'[w].agent = wake[w].agent /\ wake'[w].issue = wake[w].issue
             \/ DeferredAnew(w)
  BY <1>1 DEF IsDeferred, WakesMoved, WakeMoved, KeepsWake
<1>2. SUFFICES ASSUME NEW v \in Wakes, NEW w \in Wakes, IsDeferred(v)', IsDeferred(w)',
                      wake'[v].agent = wake'[w].agent, wake'[v].issue = wake'[w].issue
               PROVE  v = w
  BY DEF OneDeferredPerAgent, IsDeferred
<1>3. CASE DeferredAnew(v)
  BY <1>2, <1>3 DEF DeferredAnew, IsDeferred
<1>4. CASE DeferredAnew(w)
  BY <1>2, <1>4 DEF DeferredAnew, IsDeferred
<1>5. CASE ~DeferredAnew(v) /\ ~DeferredAnew(w)
  BY <1>1, <1>2, <1>5 DEF OneDeferredPerAgent, IsDeferred
<1> QED BY <1>3, <1>4, <1>5

\* Wakes are deferred once per agent and issue: enqueueWakeup looks for the agent's deferred
\* wake in the transaction that inserts one, and no other step makes a wake wait again.
THEOREM DeferredOnce == Spec => []OneDeferredPerAgent
<1>1. Init => OneDeferredPerAgent
  BY DEF Init, OneDeferredPerAgent
<1>2. Typed /\ Done /\ OneDeferredPerAgent /\ [Next]_vars => OneDeferredPerAgent'
  BY NextMoves, OneDeferredNext DEF Moved
<1> QED BY <1>1, <1>2, RowsAndHands, ReleasedAreFinished, PTL DEF Spec

LEMMA OwnerNext ==
  ASSUME Typed, Done, LiveOwnerHoldsLock, [Next]_vars
  PROVE  LiveOwnerHoldsLock'
<1> SUFFICES ASSUME NEW i \in Issues, issue'[i].checkout # NoRun,
                    run'[issue'[i].checkout].status \in ExecutionPath,
                    ~run'[issue'[i].checkout].detached
             PROVE  issue'[i].exec = issue'[i].checkout
  BY DEF LiveOwnerHoldsLock, Live
<1> DEFINE owner == issue'[i].checkout
<1>0. RowsOK /\ LockMoved(i) /\ issue[i].checkout \in Used \cup {NoRun}
      /\ issue[i].exec \in Used \cup {NoRun} /\ NoRun \notin Used
  BY NextMoves, RunsAreNumbers DEF Typed, Moved, RowsOK, LocksAreRuns, Used
<1>1. \A r \in Used : r = owner => ~Finished(r)
  BY FinishedStays DEF Finished, Dead, Terminal, ExecutionPath
<1>2. ASSUME owner = issue[i].checkout
      PROVE  issue[i].exec = owner /\ ~Finished(owner) /\ Live(owner) /\ owner \in Used
  <2>1. owner \in Used
    BY <1>0, <1>2
  <2>2. ~Finished(owner)
    BY <1>1, <2>1
  <2>3. Live(owner) /\ ~run[owner].detached
    BY <1>0, <2>1, <2>2, UsedRun DEF RowsOK, RunRow, RunStatuses, Live, Dead, Finished
  <2> QED BY <1>2, <2>1, <2>2, <2>3 DEF LiveOwnerHoldsLock
<1>3. CASE LockKept(i)
  BY <1>2, <1>3 DEF LockKept
<1>4. CASE LockNormalised(i)
  BY <1>0, <1>2, <1>4 DEF LockNormalised, ActiveRun
<1>5. CASE LockStamped(i)
  BY <1>0, <1>2, <1>5 DEF LockStamped
<1>6. CASE LockReleased(i)
  BY <1>0, <1>2, <1>6 DEF LockReleased
<1>7. CASE LockTaken(i)
  BY <1>0, <1>2, <1>7 DEF LockTaken, Finished
<1>8. CASE LockDropped(i)
  BY <1>8 DEF LockDropped
<1> QED BY <1>0, <1>3, <1>4, <1>5, <1>6, <1>7, <1>8 DEF LockMoved

\* A live run that owns an issue holds its execution lock: only a finished run releases an
\* issue or hands its lock to a successor, and a live holder is what a wake finds.
THEOREM OwnerHoldsLock == Spec => []LiveOwnerHoldsLock
<1>1. Init => LiveOwnerHoldsLock
  BY DEF Init, LiveOwnerHoldsLock
<1>2. Typed /\ Done /\ LiveOwnerHoldsLock /\ [Next]_vars => LiveOwnerHoldsLock'
  BY OwnerNext
<1> QED BY <1>1, <1>2, RowsAndHands, ReleasedAreFinished, PTL DEF Spec

-----------------------------------------------------------------------------
(* The slots of an agent. *)

LEMMA StarterChanges ==
  ASSUME Typed, [Next]_vars, NEW a \in Agents
  PROVE  \/ starter'[a] = starter[a]
         \/ StarterStep(a)
         \/ starter'[a] = Idle
<1>1. ASSUME NEW b \in Agents, StarterStep(b)
      PROVE  starter'[a] = starter[a] \/ StarterStep(a)
  BY <1>1, StarterStepMoves
<1>2. CASE \/ \E r \in Runs : ExecStep(r) \/ CancelStep(r)
           \/ ReaperStep
           \/ OtherStep
  BY <1>2, ExecStepMoves, CancelStepMoves, ReaperStepMoves, OtherStepMoves
<1>3. CASE Crash
  BY <1>3, CrashMoves
<1> QED BY <1>1, <1>2, <1>3, StepKinds

\* The runs that a holder of a start lock has yet to try are different ones, and it has
\* claimed none of them.
Distinct(s) ==
  /\ \A m, n \in 1 .. Len(s.queue) : s.queue[m] = s.queue[n] => m = n
  /\ \A n \in 1 .. Len(s.queue) : s.queue[n] \notin s.claimed

QueuesDistinct == \A a \in Agents : starter[a].pc # "idle" => Distinct(starter[a])

LEMMA PrioritisedDistinct ==
  ASSUME RowsTyped, NEW S \in SUBSET Used
  PROVE  \A m, n \in 1 .. Len(Prioritised(S)) : Prioritised(S)[m] = Prioritised(S)[n] => m = n
<1> DEFINE s == Prioritised(S)
           n == Cardinality(S)
<1>1. S \in SUBSET Runs /\ n \in Nat
  BY RunsAreNumbers, FS_Subset, FS_CardinalityType DEF Used
<1>2. /\ s \in [1 .. n -> S]
      /\ \A j, k \in 1 .. n : j < k => StartsBefore(s[j], s[k])
  BY <1>1, PrioritisedIsSorted
<1>3. \A r \in Runs : ~StartsBefore(r, r)
  BY RunsAreNumbers DEF StartsBefore, StartRank
<1>4. \A j, k \in 1 .. n : j < k => s[j] # s[k]
  BY <1>1, <1>2, <1>3
<1> HIDE DEF s, n
<1>5. Len(s) = n
  BY <1>1, <1>2
<1> QED BY <1>1, <1>4, <1>5 DEF s

LEMMA DistinctGoesOn ==
  ASSUME StartersOK, NEW a \in Agents, starter[a].pc # "idle", Distinct(starter[a]),
         NEW claimed, claimed \in {starter[a].claimed, starter[a].claimed \cup {Claiming(a)}},
         GoesOn(a, claimed), starter'[a].pc # "idle"
  PROVE  Distinct(starter'[a])
<1> DEFINE rest == Tail(starter[a].queue)
<1>1. starter'[a].queue = rest /\ starter'[a].claimed = claimed
  <2>1. starter'[a] # Idle
    BY IdleIsStarter
  <2>2. starter'[a] = [pc |-> "check", queue |-> Tail(starter[a].queue),
                       slots |-> starter[a].slots - Cardinality(claimed \ starter[a].claimed),
                       claimed |-> claimed]
    BY <2>1, Zenon DEF GoesOn
  <2> QED BY <2>2
<1>2. /\ Len(rest) = Len(starter[a].queue) - 1
      /\ \A n \in 1 .. Len(rest) : /\ rest[n] = starter[a].queue[n + 1]
                                   /\ n + 1 \in 1 .. Len(starter[a].queue)
  BY StartNextTakes
<1>3. Claiming(a) = starter[a].queue[1] /\ starter[a].queue \in Seq(Runs)
      /\ starter[a].queue # <<>>
  BY ClaimingIsUsed DEF StartersOK, Starter
<1>4. 1 \in 1 .. Len(starter[a].queue) /\ Len(starter[a].queue) \in Nat
  BY <1>3
<1> HIDE DEF rest
<1>5. \A m, n \in 1 .. Len(rest) : rest[m] = rest[n] => m = n
  BY <1>2, <1>4 DEF Distinct
<1>6. \A n \in 1 .. Len(rest) : rest[n] \notin starter[a].claimed /\ rest[n] # Claiming(a)
  BY <1>2, <1>3, <1>4 DEF Distinct
<1> QED BY <1>1, <1>5, <1>6 DEF Distinct

LEMMA QueuesDistinctNext ==
  ASSUME Typed, QueuesDistinct, [Next]_vars
  PROVE  QueuesDistinct'
<1> SUFFICES ASSUME NEW a \in Agents, starter'[a].pc # "idle"
             PROVE  Distinct(starter'[a])
  BY DEF QueuesDistinct, Distinct
<1>0. RowsTyped /\ StartersOK
  BY DEF Typed, RowsOK, HandsOK
<1>1. starter[a].pc # "idle" => Distinct(starter[a])
  BY DEF QueuesDistinct
<1>2. CASE starter'[a] = starter[a]
  BY <1>1, <1>2
<1>3. CASE starter'[a] = Idle
  BY <1>3, IdleIsStarter
<1>4. CASE StarterStep(a)
  <2>1. StarterMoves(a)
    BY <1>4, StarterStepMoves
  <2>2. CASE starter[a].pc = "idle" /\ starter'[a].queue = Prioritised(QueuedOf(a))
             /\ starter'[a].claimed = {}
    <3>1. QueuedOf(a) \in SUBSET Used
      BY DEF QueuedOf, RunsWithStatus, Used
    <3> QED BY <1>0, <2>2, <3>1, PrioritisedDistinct DEF Distinct
  <2>3. CASE starter[a].pc # "idle" /\ starter'[a].queue = starter[a].queue
             /\ starter'[a].claimed = starter[a].claimed
    BY <1>1, <2>3 DEF Distinct
  <2>4. CASE starter[a].pc \in {"check", "cas"} /\ GoesOn(a, starter[a].claimed)
    BY <1>0, <1>1, <2>4, DistinctGoesOn
  <2>5. CASE starter[a].pc = "stamp" /\ GoesOn(a, starter[a].claimed \cup {Claiming(a)})
    BY <1>0, <1>1, <2>5, DistinctGoesOn
  <2> QED BY <1>2, <2>1, <2>2, <2>3, <2>4, <2>5 DEF StarterMoves
<1> QED BY <1>2, <1>3, <1>4, StarterChanges

\* Of the slots that were free when the lock was taken, those not used yet.
Claimed(a) == IF starter[a].pc \in {"wake", "stamp"} THEN 1 ELSE 0

SlotsLeft ==
  \A a \in Agents : starter[a].pc # "idle" =>
    Cardinality(Attached(a)) + starter[a].slots - Claimed(a) <= MaxConcurrent[a]

LEMMA NewRunsOnlyWait ==
  ASSUME Typed, [Next]_vars
  PROVE  NewRunsWait
<1>1. CASE \E a \in Agents : StarterStep(a)
  BY <1>1, StarterStepMoves
<1>2. CASE \E r \in Runs : ExecStep(r) \/ CancelStep(r)
  BY <1>2, ExecStepMoves, CancelStepMoves
<1>3. CASE ReaperStep
  BY <1>3, ReaperStepMoves
<1>4. CASE Crash
  BY <1>4, CrashMoves
<1>5. CASE OtherStep
  BY <1>5, OtherStepMoves
<1> QED BY <1>1, <1>2, <1>3, <1>4, <1>5, StepKinds

\* Only a claim adds to the runs that count against an agent's limit.
LEMMA AttachedMoves ==
  ASSUME Typed, [Next]_vars, NEW a \in Agents
  PROVE  /\ IsFiniteSet(Attached(a)) /\ IsFiniteSet(Attached(a)')
         /\ \/ Attached(a)' \subseteq Attached(a)
            \/ /\ StarterStep(a) /\ starter[a].pc = "cas" /\ starter'[a].pc = "wake"
               /\ Attached(a)' \subseteq Attached(a) \cup {Claiming(a)}
<1>0. RunsKept /\ NewRunsWait /\ StartersOK
  BY NextTyped, NewRunsOnlyWait DEF KeepsTyped, Typed, HandsOK
<1>1. IsFiniteSet(Attached(a)) /\ IsFiniteSet(Attached(a)')
  BY RunsAreNumbers, FS_Subset DEF Attached, RunningOf, RunsWithStatus
<1>2. ASSUME NEW r \in Attached(a)'
      PROVE  \/ r \in Attached(a)
             \/ /\ StarterStep(a) /\ starter[a].pc = "cas" /\ starter'[a].pc = "wake"
                /\ r = Claiming(a)
  <2>1. r \in Used' /\ run'[r].status = "running" /\ run'[r].agent = a /\ ~run'[r].detached
    BY DEF Attached, RunningOf, RunsWithStatus, Used
  <2>2. r \in Used
    BY <1>0, <2>1 DEF NewRunsWait
  <2>3. run[r].agent = a
    BY <1>0, <2>1, <2>2 DEF RunsKept
  <2>4. CASE run'[r].status = run[r].status /\ run'[r].detached = run[r].detached
    BY <2>1, <2>2, <2>3, <2>4 DEF Attached, RunningOf, RunsWithStatus, Used
  <2>5. CASE \E b \in Agents : /\ StarterStep(b) /\ starter[b].pc = "cas"
                               /\ starter'[b].pc = "wake" /\ r = Claiming(b)
    <3>1. PICK b \in Agents : /\ StarterStep(b) /\ starter[b].pc = "cas"
                              /\ starter'[b].pc = "wake" /\ r = Claiming(b)
      BY <2>5
    <3>2. run[r].agent = b
      BY <1>0, <3>1, ClaimingIsUsed DEF UsedOf
    <3> QED BY <2>3, <3>1, <3>2
  <2>6. CASE ~run'[r].detached => run'[r].status \in Terminal \cup {"queued"}
    BY <2>1, <2>6 DEF Terminal
  <2> QED BY <2>2, <2>4, <2>5, <2>6, StatusMoves
<1> QED BY <1>1, <1>2

LEMMA AttachedCount ==
  ASSUME Typed, [Next]_vars, NEW a \in Agents
  PROVE  /\ Cardinality(Attached(a)) \in Nat /\ Cardinality(Attached(a)') \in Nat
         /\ \/ Cardinality(Attached(a)') <= Cardinality(Attached(a))
            \/ /\ StarterStep(a) /\ starter[a].pc = "cas" /\ starter'[a].pc = "wake"
               /\ Cardinality(Attached(a)') <= Cardinality(Attached(a)) + 1
<1>1. IsFiniteSet(Attached(a)) /\ IsFiniteSet(Attached(a)')
  BY AttachedMoves
<1>2. Cardinality(Attached(a)) \in Nat /\ Cardinality(Attached(a)') \in Nat
  BY <1>1, FS_CardinalityType
<1>3. CASE Attached(a)' \subseteq Attached(a)
  BY <1>1, <1>2, <1>3, FS_Subset
<1>4. CASE /\ StarterStep(a) /\ starter[a].pc = "cas" /\ starter'[a].pc = "wake"
           /\ Attached(a)' \subseteq Attached(a) \cup {Claiming(a)}
  <2>1. /\ IsFiniteSet(Attached(a) \cup {Claiming(a)})
        /\ Cardinality(Attached(a) \cup {Claiming(a)}) <= Cardinality(Attached(a)) + 1
        /\ Cardinality(Attached(a) \cup {Claiming(a)}) \in Nat
    <3> DEFINE S == Attached(a)
               x == Claiming(a)
    <3> HIDE DEF S, x
    <3>1. IsFiniteSet(S) /\ Cardinality(S) \in Nat
      BY <1>1, <1>2 DEF S
    <3>2. /\ IsFiniteSet(S \cup {x})
          /\ Cardinality(S \cup {x}) = Cardinality(S) \/ Cardinality(S \cup {x}) = Cardinality(S) + 1
      BY <3>1, FS_AddElement
    <3>3. Cardinality(S \cup {x}) \in Nat /\ Cardinality(S \cup {x}) <= Cardinality(S) + 1
      BY <3>1, <3>2
    <3> QED BY <3>2, <3>3 DEF S, x
  <2>2. Cardinality(Attached(a)') <= Cardinality(Attached(a) \cup {Claiming(a)})
    BY <1>4, <2>1, FS_Subset
  <2> QED BY <1>2, <1>4, <2>1, <2>2
<1> QED BY <1>2, <1>3, <1>4, AttachedMoves

\* What a step of the holder of a's start lock does to the slots that are left.
LEMMA SlotsMove ==
  ASSUME Typed, QueuesDistinct, [Next]_vars, NEW a \in Agents, starter'[a].pc # "idle",
         starter[a].pc # "idle"
  PROVE  /\ starter[a].slots \in Nat /\ starter'[a].slots \in Nat
         /\ starter'[a].slots - Claimed(a)' + (IF starter[a].pc = "cas" /\ starter'[a].pc = "wake" THEN 1 ELSE 0)
              = starter[a].slots - Claimed(a)
<1>0. StartersOK /\ StartersOK' /\ starter[a].slots \in Nat /\ starter'[a].slots \in Nat
  BY NextTyped DEF KeepsTyped, Typed, HandsOK, StartersOK, Starter
<1>2. CASE starter'[a] = starter[a]
  BY <1>0, <1>2 DEF Claimed
<1>3. CASE starter'[a] = Idle
  BY <1>3, IdleIsStarter
<1>4. CASE StarterStep(a)
  <2>1. StarterMoves(a)
    BY <1>4, StarterStepMoves
  <2>2. CASE /\ <<starter[a].pc, starter'[a].pc>> \in
                  {<<"check", "cancel">>, <<"check", "cas">>, <<"cas", "wake">>, <<"wake", "stamp">>}
             /\ starter'[a].slots = starter[a].slots
    BY <1>0, <2>2 DEF Claimed
  <2>3. CASE starter[a].pc \in {"check", "cas"} /\ GoesOn(a, starter[a].claimed)
    <3>1. /\ Cardinality(starter[a].claimed \ starter[a].claimed) = 0
      BY <1>0, StartNextTakes
    <3>2. starter'[a].pc = "check" /\ starter'[a].slots = starter[a].slots - 0
      BY <2>3, <3>1, IdleIsStarter DEF GoesOn
    <3> QED BY <1>0, <2>3, <3>2 DEF Claimed
  <2>4. CASE starter[a].pc = "stamp" /\ GoesOn(a, starter[a].claimed \cup {Claiming(a)})
    <3> DEFINE taken == Cardinality((starter[a].claimed \cup {Claiming(a)}) \ starter[a].claimed)
    <3>1. Claiming(a) \notin starter[a].claimed
      <4>1. Claiming(a) = starter[a].queue[1] /\ 1 \in 1 .. Len(starter[a].queue)
        BY <1>0, <2>4, ClaimingIsUsed DEF StartersOK, Starter
      <4> QED BY <4>1 DEF QueuesDistinct, Distinct
    <3>2. taken = 1
      BY <1>0, <3>1, StartNextTakes
    <3>3. starter'[a].pc = "check" /\ starter'[a].slots = starter[a].slots - taken
      <4> DEFINE now == starter[a].claimed \cup {Claiming(a)}
      <4>1. starter'[a] # Idle
        BY IdleIsStarter
      <4>2. starter'[a] = [pc |-> "check", queue |-> Tail(starter[a].queue),
                           slots |-> starter[a].slots - Cardinality(now \ starter[a].claimed),
                           claimed |-> now]
        <5>1. GoesOn(a, now)
          BY <2>4
        <5> HIDE DEF now
        <5> QED BY <4>1, <5>1, Zenon DEF GoesOn
      <4> HIDE DEF now
      <4>3. starter'[a].pc = "check"
            /\ starter'[a].slots = starter[a].slots - Cardinality(now \ starter[a].claimed)
        BY <4>2
      <4> QED BY <4>3, Zenon DEF now
    <3> HIDE DEF taken
    <3> QED BY <1>0, <2>4, <3>2, <3>3 DEF Claimed
  <2> QED BY <1>2, <2>1, <2>2, <2>3, <2>4 DEF StarterMoves
<1> QED BY <1>0, <1>2, <1>3, <1>4, StarterChanges

LEMMA SlotLimitNext ==
  ASSUME Typed, QueuesDistinct, SlotsLeft, SlotLimit, [Next]_vars
  PROVE  SlotLimit' /\ SlotsLeft'
<1>0. /\ StartersOK /\ StartersOK' /\ MaxConcurrent \in [Agents -> Nat]
      /\ \A a \in Agents : Claimed(a) \in {0, 1} /\ Claimed(a)' \in {0, 1}
  BY NextTyped, RunExecutionAssumption DEF KeepsTyped, Typed, HandsOK, Claimed
<1>1. ASSUME NEW a \in Agents
      PROVE  Cardinality(Attached(a)') <= MaxConcurrent[a]
  <2>1. CASE Cardinality(Attached(a)') <= Cardinality(Attached(a))
    BY <1>0, <2>1, AttachedCount DEF SlotLimit
  <2>2. CASE starter[a].pc = "cas" /\ Cardinality(Attached(a)') <= Cardinality(Attached(a)) + 1
    <3>1. Cardinality(Attached(a)) + starter[a].slots - 0 <= MaxConcurrent[a]
          /\ starter[a].slots \in Nat /\ starter[a].slots >= 1
      BY <1>0, <2>2 DEF SlotsLeft, Claimed, StartersOK, Starter
    <3> QED BY <1>0, <2>2, <3>1, AttachedCount
  <2> QED BY <2>1, <2>2, AttachedCount
<1>2. ASSUME NEW a \in Agents, starter'[a].pc # "idle"
      PROVE  Cardinality(Attached(a)') + starter'[a].slots - Claimed(a)' <= MaxConcurrent[a]
  <2>1. CASE starter[a].pc = "idle"
    <3>1. StarterMoves(a) /\ starter'[a] # starter[a] /\ StatusesKept
      BY <1>2, <2>1, StarterChanges, StarterStepMoves, IdleIsStarter
    <3>2. /\ starter'[a].slots = MaxConcurrent[a] - Cardinality(RunningOf(a))
          /\ starter'[a].pc = "check"
      BY <2>1, <3>1 DEF StarterMoves
    <3>3. /\ Cardinality(Attached(a)) <= Cardinality(RunningOf(a))
          /\ Cardinality(RunningOf(a)) \in Nat
      <4>1. IsFiniteSet(RunningOf(a)) /\ Attached(a) \subseteq RunningOf(a)
        BY RunsAreNumbers, FS_Subset DEF Attached, RunningOf, RunsWithStatus
      <4> QED BY <4>1, FS_Subset, FS_CardinalityType
    <3>4. Claimed(a)' = 0
      BY <3>2 DEF Claimed
    <3> QED BY <1>0, <2>1, <3>2, <3>3, <3>4, AttachedCount
  <2>2. CASE starter[a].pc # "idle"
    <3>1. Cardinality(Attached(a)) + starter[a].slots - Claimed(a) <= MaxConcurrent[a]
      BY <2>2 DEF SlotsLeft
    <3> QED BY <1>0, <1>2, <2>2, <3>1, AttachedCount, SlotsMove
  <2> QED BY <2>1, <2>2
<1> QED BY <1>1, <1>2 DEF SlotLimit, SlotsLeft

\* An agent's attached runs never exceed its limit: the slots counted when the start lock is
\* taken are enough for the claims made under it, because nobody else starts its runs.
THEOREM AgentsWithinSlots == Spec => []SlotLimit
<1>1. Init => QueuesDistinct /\ SlotsLeft /\ SlotLimit
  <2> SUFFICES ASSUME Init PROVE QueuesDistinct /\ SlotsLeft /\ SlotLimit
    OBVIOUS
  <2>1. \A a \in Agents : starter[a].pc = "idle"
    BY IdleIsStarter DEF Init
  <2>2. \A a \in Agents : Attached(a) = {}
    BY DEF Init, Attached, RunningOf, RunsWithStatus
  <2>3. \A a \in Agents : Cardinality(Attached(a)) <= MaxConcurrent[a]
    BY <2>2, FS_EmptySet, RunExecutionAssumption
  <2> QED BY <2>1, <2>3 DEF QueuesDistinct, SlotsLeft, SlotLimit
<1>2. /\ Typed /\ QueuesDistinct /\ SlotsLeft /\ SlotLimit /\ [Next]_vars
      => (QueuesDistinct /\ SlotsLeft /\ SlotLimit)'
  BY QueuesDistinctNext, SlotLimitNext
<1> QED BY <1>1, <1>2, RowsAndHands, PTL DEF Spec
=============================================================================
