------------------------- MODULE RunExecution_served -------------------------
(***************************************************************************)
(* Theorems about RunExecution (3): what holds while the server stays up.  *)
(* Every row that says "queued", "running" or "deferred" has somebody who   *)
(* serves it, an agent that is paused runs nothing, and an issue that is    *)
(* left alone after its wake has one run.                                   *)
(***************************************************************************)
EXTENDS RunExecution_proofs

-----------------------------------------------------------------------------
(* While the server stays up, the reaper finds nothing to do. *)

ServerUp == events["crash"] = 0

\* A run that its agent's starter has claimed, its wake written; or is claiming.
Taken(a, r) ==
  /\ starter[a].pc # "idle"
  /\ r \in starter[a].claimed \/ (starter[a].pc = "stamp" /\ r = Claiming(a))
Taking(a, r) == Taken(a, r) \/ (starter[a].pc = "wake" /\ r = Claiming(a))

NoReaper ==
  /\ reaper.pc = "none" /\ reaper.list = {} /\ ~booting
  /\ \A r \in Used : ~run[r].detached
RunningInHand ==
  \A r \in Used : run[r].status = "running" =>
    exec[r].pc # "none" \/ \E a \in Agents : Taking(a, r)
Up == ServerUp => NoReaper /\ RunningInHand

LEMMA NoReaperStep ==
  ASSUME NoReaper, RunningInHand
  PROVE  ~ReaperMoves
<1>1. \A r \in Used : run[r].status = "running" => InHand(r)
  BY DEF RunningInHand, Taking, Taken, InHand
<1>2. Orphans = {}
  BY <1>1 DEF Orphans, RunsWithStatus, NoReaper, Used
<1> QED BY <1>2 DEF ReaperMoves, NoReaper

\* The steps of a server that stays up.
UpStep ==
  \/ \E a \in Agents : StarterStep(a)
  \/ \E r \in Runs : ExecStep(r)
  \/ \E r \in Runs : CancelStep(r)
  \/ OtherStep

LEMMA UpSteps ==
  ASSUME Typed, Up, [Next]_vars, ServerUp'
  PROVE  /\ ServerUp /\ NoReaper /\ RunningInHand /\ UpStep
         /\ UNCHANGED <<reaper, booting>>
<1>1. ASSUME NEW a \in Agents, StarterStep(a)
      PROVE  ServerUp /\ UNCHANGED <<reaper, booting>>
  BY <1>1, StarterStepMoves DEF ServerUp
<1>2. ASSUME NEW r \in Runs, ExecStep(r)
      PROVE  ServerUp /\ UNCHANGED <<reaper, booting>>
  <2>1. Quietly({"throw", "transient", "silent"}) /\ UNCHANGED <<reaper, booting>>
    BY <1>2, ExecStepMoves
  <2> QED BY <2>1 DEF ServerUp, Quietly, EventKinds
<1>3. ASSUME NEW r \in Runs, CancelStep(r)
      PROVE  ServerUp /\ UNCHANGED <<reaper, booting>>
  BY <1>3, CancelStepMoves DEF ServerUp
<1>4. ASSUME OtherStep
      PROVE  ServerUp /\ UNCHANGED <<reaper, booting>>
  <2>1. Quietly({"wake", "cancel", "pause", "budget", "edit", "reconcile"})
        /\ UNCHANGED <<reaper, booting>>
    BY <1>4, OtherStepMoves
  <2> QED BY <2>1 DEF ServerUp, Quietly, EventKinds
<1>5. ~ReaperStep
  <2> SUFFICES ASSUME ReaperStep PROVE FALSE
    OBVIOUS
  <2>1. ReaperMoves /\ UNCHANGED events
    BY ReaperStepMoves
  <2> QED BY <2>1, NoReaperStep DEF Up, ServerUp
<1>6. ~Crash
  BY CrashMoves DEF ServerUp
<1>7. UpStep /\ ServerUp /\ UNCHANGED <<reaper, booting>>
  BY <1>1, <1>2, <1>3, <1>4, <1>5, <1>6, StepKinds DEF UpStep
<1> QED BY <1>7 DEF Up

\* The loop of the starter is back at its check, or over.
LEMMA GoesOnTo ==
  ASSUME NEW a \in Agents, NEW claimed, GoesOn(a, claimed)
  PROVE  starter'[a].pc \in {"check", "idle"}
<1>1. CASE starter'[a] = [pc |-> "check", queue |-> Tail(starter[a].queue),
             slots |-> starter[a].slots - Cardinality(claimed \ starter[a].claimed),
             claimed |-> claimed]
  BY <1>1
<1>2. CASE starter'[a] = Idle
  BY <1>2, IdleIsStarter
<1> QED BY <1>1, <1>2 DEF GoesOn

\* Until it goes on, it stays with the run it is trying.
LEMMA StarterHolds ==
  ASSUME Typed, NEW a \in Agents, StarterStep(a), starter[a].pc # "idle",
         starter'[a].pc \in {"cancel", "cas", "wake", "stamp"}
  PROVE  /\ starter'[a].queue = starter[a].queue /\ Claiming(a)' = Claiming(a)
         /\ starter'[a].claimed = starter[a].claimed
         /\ \/ starter' = starter
            \/ <<starter[a].pc, starter'[a].pc>> \in
                 {<<"check", "cancel">>, <<"check", "cas">>, <<"cas", "wake">>, <<"wake", "stamp">>}
<1>1. StarterMoves(a)
  BY StarterStepMoves
<1>2. \A claimed : ~GoesOn(a, claimed)
  BY GoesOnTo
<1> QED BY <1>1, <1>2 DEF StarterMoves, Claiming

\* What a starter has taken it keeps, or it is executed.
LEMMA TakingStays ==
  ASSUME Typed, UpStep, NEW a \in Agents, NEW r \in Used, Taking(a, r)
  PROVE  Taking(a, r)' \/ exec'[r].pc = "begin"
<1>1. CASE starter'[a] = starter[a]
  BY <1>1 DEF Taking, Taken, Claiming
<1>2. CASE StarterStep(a)
  <2>1. StarterMoves(a)
    BY <1>2, StarterStepMoves
  <2>2. CASE <<starter[a].pc, starter'[a].pc>> \in
               {<<"check", "cancel">>, <<"check", "cas">>, <<"cas", "wake">>, <<"wake", "stamp">>}
             /\ starter'[a].queue = starter[a].queue
             /\ starter'[a].claimed = starter[a].claimed
    BY <2>2 DEF Taking, Taken, Claiming
  <2>3. ASSUME NEW claimed, r \in claimed, GoesOn(a, claimed)
        PROVE  Taking(a, r)' \/ exec'[r].pc = "begin"
    <3>1. CASE starter'[a] = [pc |-> "check", queue |-> Tail(starter[a].queue),
                 slots |-> starter[a].slots - Cardinality(claimed \ starter[a].claimed),
                 claimed |-> claimed]
      BY <2>3, <3>1 DEF Taking, Taken
    <3> QED BY <2>3, <3>1 DEF GoesOn
  <2>4. CASE starter[a].pc \in {"check", "cas"} /\ GoesOn(a, starter[a].claimed)
    BY <2>3, <2>4 DEF Taking, Taken
  <2>5. CASE starter[a].pc = "stamp" /\ GoesOn(a, starter[a].claimed \cup {Claiming(a)})
    BY <2>3, <2>5 DEF Taking, Taken
  <2> QED BY <1>1, <2>1, <2>2, <2>4, <2>5 DEF StarterMoves, Taking, Taken
<1>3. CASE \E b \in Agents : StarterStep(b) /\ b # a
  BY <1>1, <1>3, StarterStepMoves
<1>4. CASE (\E q \in Runs : ExecStep(q)) \/ (\E q \in Runs : CancelStep(q)) \/ OtherStep
  BY <1>1, <1>4, ExecStepMoves, CancelStepMoves, OtherStepMoves
<1> QED BY <1>2, <1>3, <1>4 DEF UpStep

\* A run is executed until it is finished.
LEMMA ExecStays ==
  ASSUME Typed, Done, UpStep, NEW r \in Used, exec[r].pc # "none"
  PROVE  \/ exec'[r].pc # "none"
         \/ exec[r].pc = "begin" /\ ~Live(r)
         \/ exec[r].pc = "release" /\ Finished(r)
<1>0. r \in Runs
  BY DEF Used
<1>1. CASE \E a \in Agents : StarterStep(a)
  <2>1. exec'[r] = exec[r] \/ exec'[r].pc = "begin"
    BY <1>0, <1>1, StarterStepMoves, StarterExecs
  <2> QED BY <2>1
<1>2. ASSUME NEW q \in Runs, ExecStep(q)
      PROVE  \/ exec'[r].pc # "none"
             \/ exec[r].pc = "begin" /\ ~Live(r)
             \/ exec[r].pc = "release" /\ Finished(r)
  <2>1. /\ <<exec[q].pc, exec'[q].pc>> \in ExecMoves
        /\ \A p \in Runs \ {q} : exec'[p] = exec[p]
        /\ exec[q].pc = "begin" => (exec'[q].pc = "checkout" <=> Live(q))
    BY <1>2, ExecStepMoves, Zenon
  <2> QED BY <1>0, <2>1 DEF ExecMoves, Done, ExecDone
<1>3. CASE (\E q \in Runs : CancelStep(q)) \/ OtherStep
  BY <1>3, CancelStepMoves, OtherStepMoves
<1> QED BY <1>1, <1>2, <1>3 DEF UpStep

LEMMA UpNext ==
  ASSUME Typed, Done, Up, [Next]_vars
  PROVE  Up'
<1> SUFFICES ASSUME ServerUp' PROVE NoReaper' /\ RunningInHand'
  BY DEF Up
<1>0. ServerUp /\ NoReaper /\ RunningInHand /\ UpStep /\ UNCHANGED <<reaper, booting>>
  BY UpSteps
<1>1. RunsKept /\ NewRunsWait
  BY NextTyped, NewRunsOnlyWait DEF KeepsTyped
<1>2. \A r \in Used : run'[r].detached = run[r].detached
  BY <1>0, StatusMoves DEF NoReaper
<1>3. NoReaper'
  BY <1>0, <1>1, <1>2 DEF NoReaper, NewRunsWait
<1>4. ASSUME NEW r \in Used', run'[r].status = "running"
      PROVE  exec'[r].pc # "none" \/ \E a \in Agents : Taking(a, r)'
  <2>1. r \in Used
    BY <1>1, <1>4 DEF NewRunsWait
  <2>2. CASE run[r].status = "running"
    <3>1. CASE exec[r].pc # "none"
      <4>1. ~run[r].detached
        BY <1>0, <2>1 DEF NoReaper
      <4> QED BY <1>0, <2>1, <2>2, <3>1, <4>1, ExecStays DEF Live, ExecutionPath, Finished, Dead, Terminal
    <3>2. CASE \E a \in Agents : Taking(a, r)
      BY <1>0, <2>1, <3>2, TakingStays
    <3> QED BY <1>0, <2>1, <2>2, <3>1, <3>2 DEF RunningInHand
  <2>3. CASE \E a \in Agents : starter'[a].pc = "wake" /\ r = Claiming(a) /\ StarterStep(a)
                              /\ starter[a].pc = "cas"
    <3>1. PICK a \in Agents : starter'[a].pc = "wake" /\ r = Claiming(a) /\ StarterStep(a)
                              /\ starter[a].pc = "cas"
      BY <2>3
    <3>2. starter'[a].queue = starter[a].queue
      BY <3>1, StarterHolds
    <3> QED BY <3>1, <3>2 DEF Taking, Claiming
  <2> QED BY <1>0, <1>4, <2>1, <2>2, <2>3, StatusMoves DEF NoReaper, Terminal
<1> QED BY <1>3, <1>4 DEF RunningInHand

\* While the server stays up, the reaper is never at work, no run is detached, and whatever
\* run is running is in the hands of a handler of this server.
THEOREM NothingToReap == Spec => []Up
<1>1. Init => Up
  BY DEF Init, Up, NoReaper, RunningInHand, Used
<1>2. Typed /\ Done /\ Up /\ [Next]_vars => Up'
  BY UpNext
<1> QED BY <1>1, <1>2, RowsAndHands, ReleasedAreFinished, PTL DEF Spec

-----------------------------------------------------------------------------
(* The wakes of the runs. *)

WakeOf(r) == wake[run[r].wake]

LEMMA WakeStays ==
  ASSUME Typed, Done, [Next]_vars, NEW r \in Used
  PROVE  /\ run'[r].wake = run[r].wake /\ r \in Used'
         /\ WakeOf(r)'.status = "queued" => WakeOf(r).status = "queued"
<1>0. RowsOK /\ RowsOK' /\ RunsKept
  BY NextTyped DEF KeepsTyped, Typed
<1>1. run'[r].wake = run[r].wake /\ r \in Used'
  BY <1>0, UsedGrows DEF RunsKept
<1> DEFINE w == run[r].wake
<1>2. w \in Wakes /\ wake[w] # NoRow /\ wake[w].run = r /\ wake'[w].run = r
  BY <1>0, <1>1, UsedRun DEF RowsOK, RunHasWake, RunRow
<1>3. WakeMoved(w)
  BY <1>2, NextMoves DEF Moved, WakesMoved
<1>4. wake'[w].status = "queued" => wake[w].status = "queued"
  BY <1>2, <1>3 DEF WakeMoved, DeferredAnew
<1> QED BY <1>1, <1>4 DEF WakeOf

\* The wake of a run that has been claimed does not read queued any more.
ClaimWritesWake ==
  \A r \in Used : exec[r].pc # "none" \/ (\E a \in Agents : Taken(a, r))
    => WakeOf(r).status # "queued"

LEMMA ClaimWritesWakeNext ==
  ASSUME Typed, Done, ClaimWritesWake, [Next]_vars
  PROVE  ClaimWritesWake'
<1> SUFFICES ASSUME NEW r \in Used',
                    exec'[r].pc # "none" \/ \E a \in Agents : Taken(a, r)'
             PROVE  WakeOf(r)'.status # "queued"
  BY DEF ClaimWritesWake
<1>0. ExecsOK /\ StartersOK /\ StartersOK' /\ RowsOK
  BY NextTyped DEF KeepsTyped, Typed, HandsOK
<1>1. ASSUME exec[r].pc # "none" \/ \E a \in Agents : Taken(a, r)
      PROVE  WakeOf(r)'.status # "queued"
  <2>1. r \in Used
    BY <1>0, <1>1, ClaimingIsUsed DEF ExecsOK, Used, Taken, StartersOK, UsedOf
  <2> QED BY <1>1, <2>1, WakeStays DEF ClaimWritesWake
<1>2. ASSUME NEW a \in Agents, StarterStep(a)
      PROVE  WakeOf(r)'.status # "queued"
  <2>1. StarterMoves(a) /\ \A b \in Agents \ {a} : starter'[b] = starter[b]
    BY <1>2, StarterStepMoves
  <2>2. CASE exec'[r].pc # "none"
    <3>1. \/ exec'[r] = exec[r]
          \/ r \in starter[a].claimed \/ (starter[a].pc = "stamp" /\ r = Claiming(a))
      BY <2>1, StarterExecs DEF Used
    <3>2. CASE exec'[r] = exec[r]
      BY <1>1, <2>2, <3>2
    <3>3. CASE exec'[r] # exec[r] /\ r \in starter[a].claimed
      <4>1. starter[a].pc # "idle"
        BY <2>1, <3>3 DEF StarterMoves
      <4> QED BY <1>1, <3>3, <4>1 DEF Taken
    <3>4. CASE starter[a].pc = "stamp" /\ r = Claiming(a)
      BY <1>1, <3>4 DEF Taken
    <3> QED BY <3>1, <3>2, <3>3, <3>4
  <2>3. ASSUME NEW b \in Agents \ {a}, Taken(b, r)'
        PROVE  WakeOf(r)'.status # "queued"
    <3>1. Taken(b, r)
      BY <2>1, <2>3 DEF Taken, Claiming
    <3> QED BY <1>1, <3>1
  <2>4. CASE Taken(a, r)'
    <3>1. CASE starter' = starter
      BY <1>1, <2>4, <3>1 DEF Taken, Claiming
    <3>2. CASE starter[a].pc = "idle" /\ starter'[a].claimed = {} /\ starter'[a].pc = "check"
      BY <2>4, <3>2 DEF Taken
    <3>3. CASE starter[a].pc # "idle" /\ starter'[a].pc \in {"cancel", "cas", "wake", "stamp"}
                /\ starter' # starter
      <4>1. /\ Claiming(a)' = Claiming(a) /\ starter'[a].claimed = starter[a].claimed
            /\ starter'[a].pc = "stamp" => starter[a].pc = "wake"
        BY <1>2, <3>3, StarterHolds
      <4>2. Taken(a, r) \/ (starter[a].pc = "wake" /\ r = Claiming(a))
        BY <2>4, <3>3, <4>1 DEF Taken
      <4>3. CASE starter[a].pc = "wake" /\ r = Claiming(a)
        <5>1. r \in Used /\ wake'[run[r].wake].status = "claimed"
          BY <1>0, <1>2, <4>3, ClaimingIsUsed, StarterLocks
        <5>2. run'[r].wake = run[r].wake
          BY <5>1, WakeStays
        <5> QED BY <5>1, <5>2 DEF WakeOf
      <4> QED BY <1>1, <4>2, <4>3
    <3>4. ASSUME NEW claimed, GoesOn(a, claimed), starter[a].pc # "idle",
                 claimed = starter[a].claimed \/
                   (starter[a].pc = "stamp" /\ claimed = starter[a].claimed \cup {Claiming(a)})
          PROVE  WakeOf(r)'.status # "queued"
      <4>1. starter'[a].pc = "check" /\ starter'[a].claimed = claimed
        <5>1. starter'[a] # Idle
          BY <2>4, IdleIsStarter DEF Taken
        <5>2. starter'[a] = [pc |-> "check", queue |-> Tail(starter[a].queue),
                 slots |-> starter[a].slots - Cardinality(claimed \ starter[a].claimed),
                 claimed |-> claimed]
          BY <3>4, <5>1, Zenon DEF GoesOn
        <5> QED BY <5>2
      <4>2. Taken(a, r)
        BY <2>4, <3>4, <4>1 DEF Taken
      <4> QED BY <1>1, <4>2
    <3> QED BY <2>1, <3>1, <3>2, <3>3, <3>4 DEF StarterMoves
  <2> QED BY <2>2, <2>3, <2>4
<1>3. ASSUME NEW q \in Runs, ExecStep(q)
      PROVE  WakeOf(r)'.status # "queued"
  <2>1. exec[q].pc # "none" /\ starter' = starter /\ \A p \in Runs \ {q} : exec'[p] = exec[p]
    BY <1>3, ExecStepMoves
  <2>2. exec[r].pc # "none" \/ \E a \in Agents : Taken(a, r)
    BY <2>1 DEF Taken, Claiming, Used
  <2> QED BY <1>1, <2>2
<1>4. CASE (\E q \in Runs : CancelStep(q)) \/ OtherStep \/ ReaperStep
  <2>1. UNCHANGED <<exec, starter>>
    BY <1>4, CancelStepMoves, OtherStepMoves, ReaperStepMoves
  <2>2. exec[r].pc # "none" \/ \E a \in Agents : Taken(a, r)
    BY <2>1 DEF Taken, Claiming
  <2> QED BY <1>1, <2>2
<1>5. CASE Crash
  BY <1>5, CrashMoves, IdleIsStarter DEF NotExecuting, Taken, Used
<1> QED BY <1>2, <1>3, <1>4, <1>5, StepKinds

LEMMA QueuedWakeNext ==
  ASSUME Typed, Done, Up, ClaimWritesWake, QueuedWakeIsLive, [Next]_vars
  PROVE  QueuedWakeIsLive'
<1> SUFFICES ASSUME ServerUp', NEW w \in Wakes, wake'[w] # NoRow, wake'[w].status = "queued"
             PROVE  LET r == wake'[w].run IN
                    /\ r # NoRun /\ run'[r].wake = w
                    /\ run'[r].status \in ExecutionPath \/ cancel'[r].pc = "wake"
  BY DEF QueuedWakeIsLive, ServerUp, Live
<1> DEFINE r == wake'[w].run
<1>0. ServerUp /\ NoReaper /\ UpStep /\ RowsOK /\ CancelsOK /\ ExecsOK
  BY UpSteps DEF Typed, HandsOK
<1>1. WakeMoved(w) /\ NewRunsWait
  BY NextMoves, NewRunsOnlyWait DEF Moved, WakesMoved
<1>2. CASE r \in Used' \ Used /\ run'[r].wake = w
  BY <1>1, <1>2, RunsAreNumbers DEF NewRunsWait, ExecutionPath, Used
<1>3. CASE KeepsWake(w) /\ wake'[w].status = wake[w].status /\ wake'[w].run = wake[w].run
  <2>1. r # NoRun /\ run[r].wake = w /\ (Live(r) \/ cancel[r].pc = "wake")
    BY <1>0, <1>3 DEF QueuedWakeIsLive, ServerUp, KeepsWake
  <2>2. r \in Runs
    <3>1. wake[w] \in WakeRow
      BY <1>0, <1>3 DEF RowsOK, RowsTyped, KeepsWake
    <3> QED BY <1>3, <2>1, <3>1 DEF WakeRow
  <2>3. r \in Used
    BY <1>0, <2>1, <2>2 DEF Live, ExecutionPath, Used, NoRow, CancelsOK
  <2>4. run'[r].wake = w
    BY <2>1, <2>3, WakeStays
  <2>5. WakeOf(r).status = "queued"
    BY <1>3, <2>1 DEF WakeOf
  <2>6. exec[r].pc = "none"
    BY <2>3, <2>5 DEF ClaimWritesWake
  <2>7. CASE cancel[r].pc = "wake"
    <3>1. ASSUME NEW q \in Runs, CancelStep(q)
          PROVE  cancel'[r] = cancel[r]
      <4>1. q # r
        <5> SUFFICES ASSUME q = r PROVE FALSE
          OBVIOUS
        <5>1. wake'[run[r].wake].status = "cancelled"
          BY <2>7, <3>1, CancelLocks
        <5> QED BY <2>1, <5>1
      <4> QED BY <2>2, <3>1, <4>1, CancelStepMoves
    <3>2. ASSUME NEW a \in Agents, StarterStep(a)
          PROVE  cancel'[r].pc = "wake"
      <4>1. \/ UNCHANGED cancel
            \/ /\ cancel[Claiming(a)].pc = "none"
               /\ cancel' = [cancel EXCEPT ![Claiming(a)] = [pc |-> "kill", by |-> "claim"]]
        BY <3>2, StarterStepMoves
      <4> QED BY <1>0, <2>2, <2>7, <4>1 DEF CancelsOK
    <3>3. ASSUME OtherStep
          PROVE  cancel'[r].pc = "wake"
      <4>1. \/ UNCHANGED cancel
            \/ \E q \in Runs : /\ cancel[q].pc = "none"
                               /\ cancel' = [cancel EXCEPT ![q] = [pc |-> "kill", by |-> "request"]]
        BY <3>3, OtherStepMoves
      <4> QED BY <1>0, <2>2, <2>7, <4>1 DEF CancelsOK
    <3>4. ASSUME NEW q \in Runs, ExecStep(q)
          PROVE  cancel'[r].pc = "wake"
      BY <2>7, <3>4, ExecStepMoves
    <3> QED BY <1>0, <2>4, <2>1, <2>7, <3>1, <3>2, <3>3, <3>4 DEF UpStep
  <2>8. CASE Live(r)
    <3>1. ASSUME NEW q \in Runs, CancelStep(q)
          PROVE  run'[r].status \in ExecutionPath \/ cancel'[r].pc = "wake"
      <4>1. /\ <<cancel[q].pc, cancel'[q].pc>> \in CancelMoves
            /\ cancel[q].pc # "status" => StatusesKept
            /\ cancel[q].pc = "status" => OnlyBecomes(q, "cancelled")
        BY <3>1, CancelStepMoves, Zenon
      <4> QED BY <2>3, <2>8, <4>1 DEF CancelMoves, StatusesKept, OnlyBecomes, Live
    <3>2. ASSUME NEW a \in Agents, StarterStep(a)
          PROVE  run'[r].status \in ExecutionPath
      BY <2>3, <2>8, <3>2, StarterStepMoves DEF StatusesKept, OnlyBecomes, Live, ExecutionPath
    <3>3. ASSUME OtherStep
          PROVE  run'[r].status \in ExecutionPath
      BY <2>3, <2>8, <3>3, OtherStepMoves DEF StatusesKept, OnlyBecomes, Live, ExecutionPath
    <3>4. ASSUME NEW q \in Runs, ExecStep(q)
          PROVE  run'[r].status \in ExecutionPath
      <4>1. /\ exec[q].pc # "none"
            /\ StatusesKept \/ \E s \in Terminal : OnlyBecomes(q, s)
        BY <3>4, ExecStepMoves
      <4> QED BY <2>3, <2>6, <2>8, <4>1 DEF StatusesKept, OnlyBecomes, Live
    <3> QED BY <1>0, <2>1, <2>4, <3>1, <3>2, <3>3, <3>4 DEF UpStep
  <2> QED BY <2>1, <2>7, <2>8
<1> QED BY <1>1, <1>2, <1>3 DEF WakeMoved, DeferredAnew

\* While the server stays up, no wake is left reading queued with nobody to serve it: its run
\* is waiting or being claimed, or the handler that cancels the run is about to write the
\* wake.  The claim writes the wake before the run is executed, and so before it can end.
THEOREM QueuedWakesAreServed == Spec => []QueuedWakeIsLive
<1>1. Init => ClaimWritesWake /\ QueuedWakeIsLive
  BY DEF Init, ClaimWritesWake, QueuedWakeIsLive, Used
<1>2. /\ Typed /\ Done /\ Up /\ ClaimWritesWake /\ QueuedWakeIsLive /\ [Next]_vars
      => (ClaimWritesWake /\ QueuedWakeIsLive)'
  BY ClaimWritesWakeNext, QueuedWakeNext
<1> QED BY <1>1, <1>2, RowsAndHands, ReleasedAreFinished, NothingToReap, PTL DEF Spec

-----------------------------------------------------------------------------
(* Paused agents. *)

\* What a starter tries is a run that was queued: a retry that is not due is not.
QueuesDue ==
  \A a \in Agents : starter[a].pc # "idle" =>
    \A n \in 1 .. Len(starter[a].queue) : run[starter[a].queue[n]].status # "scheduled_retry"

LEMMA NotScheduledStays ==
  ASSUME Typed, [Next]_vars, NEW r \in Used, run[r].status # "scheduled_retry"
  PROVE  run'[r].status # "scheduled_retry"
  BY StatusMoves DEF Terminal

LEMMA QueuesDueNext ==
  ASSUME Typed, QueuesDue, [Next]_vars
  PROVE  QueuesDue'
<1> SUFFICES ASSUME NEW a \in Agents, starter'[a].pc # "idle",
                    NEW n \in 1 .. Len(starter'[a].queue)
             PROVE  run'[starter'[a].queue[n]].status # "scheduled_retry"
  BY DEF QueuesDue
<1>0. StartersOK /\ RowsTyped
  BY DEF Typed, RowsOK, HandsOK
<1>1. ASSUME NEW m \in 1 .. Len(starter[a].queue), starter[a].pc # "idle",
             starter'[a].queue[n] = starter[a].queue[m]
      PROVE  run'[starter'[a].queue[n]].status # "scheduled_retry"
  <2>1. starter[a].queue[m] \in Used /\ run[starter[a].queue[m]].status # "scheduled_retry"
    BY <1>0, <1>1 DEF QueuesDue, StartersOK, UsedOf
  <2> QED BY <1>1, <2>1, NotScheduledStays
<1>2. CASE starter'[a] = starter[a]
  BY <1>1, <1>2
<1>3. CASE StarterStep(a)
  <2>1. StarterMoves(a)
    BY <1>3, StarterStepMoves
  <2>2. CASE starter[a].pc = "idle" /\ starter'[a].queue = Prioritised(QueuedOf(a))
    <3>1. QueuedOf(a) \in SUBSET Used /\ QueuedOf(a) \in SUBSET Runs
      BY DEF QueuedOf, RunsWithStatus, Used
    <3>2. Cardinality(QueuedOf(a)) \in Nat
      BY <3>1, RunsAreNumbers, FS_Subset, FS_CardinalityType
    <3>3. Prioritised(QueuedOf(a)) \in [1 .. Cardinality(QueuedOf(a)) -> QueuedOf(a)]
      BY <3>1, PrioritisedIsSorted
    <3>4. Prioritised(QueuedOf(a))[n] \in QueuedOf(a)
      BY <2>2, <3>2, <3>3
    <3>5. run[starter'[a].queue[n]].status = "queued" /\ starter'[a].queue[n] \in Used
      BY <2>2, <3>1, <3>4 DEF QueuedOf, RunsWithStatus
    <3> QED BY <3>5, NotScheduledStays
  <2>3. CASE starter[a].pc # "idle" /\ starter'[a].queue = starter[a].queue
    BY <1>1, <2>3
  <2>4. ASSUME NEW claimed, GoesOn(a, claimed), starter[a].pc # "idle"
        PROVE  run'[starter'[a].queue[n]].status # "scheduled_retry"
    <3>1. starter'[a].queue = Tail(starter[a].queue)
      <4>1. starter'[a] # Idle
        BY IdleIsStarter
      <4>2. starter'[a] = [pc |-> "check", queue |-> Tail(starter[a].queue),
               slots |-> starter[a].slots - Cardinality(claimed \ starter[a].claimed),
               claimed |-> claimed]
        BY <2>4, <4>1, Zenon DEF GoesOn
      <4> QED BY <4>2
    <3>2. /\ Tail(starter[a].queue)[n] = starter[a].queue[n + 1]
          /\ n + 1 \in 1 .. Len(starter[a].queue)
      BY <1>0, <2>4, <3>1, StartNextTakes
    <3> QED BY <1>1, <2>4, <3>1, <3>2
  <2> QED BY <1>2, <2>1, <2>2, <2>3, <2>4 DEF StarterMoves
<1>4. CASE starter'[a] = Idle
  BY <1>4, IdleIsStarter
<1> QED BY <1>2, <1>3, <1>4, StarterChanges

\* A run of a paused agent that is running, or that the claim which has checked the agent
\* before the pause is going to run, is still on the list of the pause or being cancelled.
MayRun(a, r) ==
  \/ run[r].status = "running"
  \/ run[r].status = "queued" /\ starter[a].pc = "cas" /\ Claiming(a) = r

PausedSwept ==
  ServerUp => \A a \in paused : \A r \in UsedOf(a) : MayRun(a, r) =>
    r \in sweep \/ cancel[r].pc # "none"

LEMMA SweptStays ==
  ASSUME Typed, Done, Up, [Next]_vars, ServerUp', NEW r \in Used,
         r \in sweep \/ cancel[r].pc # "none"
  PROVE  (r \in sweep \/ cancel[r].pc # "none")' \/ Finished(r)
<1>0. UpStep /\ CancelsOK /\ r \in Runs
  BY UpSteps DEF Typed, HandsOK, Used
<1>1. ASSUME NEW q \in Runs, CancelStep(q)
      PROVE  (r \in sweep \/ cancel[r].pc # "none")' \/ Finished(r)
  <2>1. /\ <<cancel[q].pc, cancel'[q].pc>> \in CancelMoves
        /\ \A p \in Runs \ {q} : cancel'[p] = cancel[p]
        /\ sweep \ {q} \subseteq sweep'
    BY <1>1, CancelStepMoves, Zenon
  <2>2. cancel[r].pc = "release" => Finished(r)
    BY <1>0 DEF Done, CancelDone
  <2> QED BY <1>0, <2>1, <2>2 DEF CancelMoves
<1>2. ASSUME NEW a \in Agents, StarterStep(a)
      PROVE  (r \in sweep \/ cancel[r].pc # "none")'
  <2>1. /\ UNCHANGED sweep
        /\ \/ UNCHANGED cancel
           \/ cancel' = [cancel EXCEPT ![Claiming(a)] = [pc |-> "kill", by |-> "claim"]]
    BY <1>2, StarterStepMoves
  <2> QED BY <1>0, <2>1 DEF CancelsOK
<1>3. ASSUME OtherStep
      PROVE  (r \in sweep \/ cancel[r].pc # "none")'
  <2>1. \/ UNCHANGED <<cancel, sweep>>
        \/ /\ UNCHANGED sweep
           /\ \E q \in Runs : cancel' = [cancel EXCEPT ![q] = [pc |-> "kill", by |-> "request"]]
        \/ UNCHANGED cancel /\ sweep = {}
    BY <1>3, OtherStepMoves
  <2> QED BY <1>0, <2>1 DEF CancelsOK
<1>4. ASSUME NEW q \in Runs, ExecStep(q)
      PROVE  (r \in sweep \/ cancel[r].pc # "none")'
  BY <1>4, ExecStepMoves
<1> QED BY <1>0, <1>1, <1>2, <1>3, <1>4 DEF UpStep

LEMMA PausedSweptNext ==
  ASSUME Typed, Done, Up, QueuesDue, PausedSwept, [Next]_vars
  PROVE  PausedSwept'
<1> SUFFICES ASSUME ServerUp', NEW a \in paused', NEW r \in Used', run'[r].agent = a,
                    MayRun(a, r)'
             PROVE  (r \in sweep \/ cancel[r].pc # "none")'
  BY DEF PausedSwept, UsedOf
<1>0. /\ ServerUp /\ NoReaper /\ UpStep /\ RunsKept /\ NewRunsWait /\ StartersOK /\ RowsTyped
      /\ StartersOK' /\ EnvironmentOK'
  BY UpSteps, NextTyped, NewRunsOnlyWait DEF KeepsTyped, Typed, HandsOK, RowsOK
<1>a. a \in Agents
  BY <1>0 DEF EnvironmentOK
<1>b. ~Finished(r)'
  <2>1. r \in Used' /\ run'[r].status \in {"running", "queued"}
    BY DEF MayRun
  <2>2. ~run'[r].detached
    BY UpNext DEF Up, NoReaper
  <2> QED BY <2>1, <2>2 DEF Finished, Dead, Terminal
\* The starter is at its claim only if it was before, or has just found the agent unpaused.
<1>1. ASSUME starter'[a].pc = "cas"
      PROVE  /\ starter[a].pc \in {"cas", "check"} /\ Claiming(a)' = Claiming(a)
             /\ Claiming(a) \in Used
             /\ starter[a].pc = "cas" \/ a \notin paused'
  <2>1. CASE starter'[a] = starter[a]
    BY <1>0, <1>a, <1>1, <2>1, ClaimingIsUsed DEF Claiming
  <2>2. CASE starter'[a] = Idle
    BY <1>1, <2>2, IdleIsStarter
  <2>3. CASE StarterStep(a)
    <3>1. StarterMoves(a) /\ paused' = paused
      BY <1>a, <2>3, StarterStepMoves
    <3>2. starter[a].pc # "idle"
      BY <1>1, <3>1 DEF StarterMoves
    <3>3. /\ Claiming(a)' = Claiming(a)
          /\ \/ starter' = starter
             \/ <<starter[a].pc, starter'[a].pc>> \in
                 {<<"check", "cancel">>, <<"check", "cas">>, <<"cas", "wake">>, <<"wake", "stamp">>}
      BY <1>a, <1>1, <2>3, <3>2, StarterHolds
    <3>4. \A claimed : ~GoesOn(a, claimed)
      BY <1>a, <1>1, GoesOnTo
    <3>5. starter[a].pc = "cas" \/ a \notin paused'
      BY <1>1, <3>1, <3>4 DEF StarterMoves
    <3> QED BY <1>0, <1>a, <1>1, <3>2, <3>3, <3>5, ClaimingIsUsed
  <2> QED BY <1>a, <2>1, <2>2, <2>3, StarterChanges
<1>2. r \in Used /\ run[r].agent = a
  <2>1. r \in Used
    <3>1. CASE run'[r].status = "running"
      BY <1>0, <3>1 DEF NewRunsWait
    <3>2. CASE starter'[a].pc = "cas" /\ Claiming(a)' = r
      BY <1>1, <3>2
    <3> QED BY <3>1, <3>2 DEF MayRun
  <2> QED BY <1>0, <2>1 DEF RunsKept
<1>3. MayRun(a, r)
  <2>1. CASE run'[r].status = run[r].status
    BY <1>1, <2>1 DEF MayRun
  <2>2. CASE run'[r].status \in Terminal
    BY <2>2 DEF MayRun, Terminal
  <2>3. CASE run[r].status = "scheduled_retry" /\ run'[r].status = "queued"
    <3>1. starter'[a].pc = "cas" /\ Claiming(a)' = r
      BY <2>3 DEF MayRun
    <3>2. Claiming(a) = r /\ starter[a].pc # "idle"
      BY <1>1, <3>1
    <3>3. r = starter[a].queue[1] /\ 1 \in 1 .. Len(starter[a].queue)
      BY <1>0, <1>a, <3>2, ClaimingIsUsed DEF StartersOK, Starter
    <3> QED BY <1>a, <2>3, <3>2, <3>3 DEF QueuesDue
  <2>4. CASE \E b \in Agents : starter[b].pc = "cas" /\ r = Claiming(b) /\ run[r].status = "queued"
    <3>1. PICK b \in Agents : starter[b].pc = "cas" /\ r = Claiming(b) /\ run[r].status = "queued"
      BY <2>4
    <3>2. b = a
      BY <1>0, <1>2, <3>1, ClaimingIsUsed DEF UsedOf
    <3> QED BY <3>1, <3>2 DEF MayRun
  <2> QED BY <1>0, <1>2, <2>1, <2>2, <2>3, <2>4, StatusMoves DEF NoReaper
<1>4. CASE a \in paused
  <2>1. r \in sweep \/ cancel[r].pc # "none"
    BY <1>0, <1>2, <1>3, <1>4 DEF PausedSwept, UsedOf
  <2>2. ~Finished(r)
    BY <1>2, <1>b, FinishedStays
  <2> QED BY <1>2, <2>1, <2>2, SweptStays
<1>5. CASE a \notin paused
  <2>1. ASSUME OtherStep
        PROVE  r \in sweep'
    <3>1. \E b \in Agents : /\ paused' = paused \cup {b}
                            /\ sweep' = {q \in UsedOf(b) : Live(q)}
      BY <1>5, <2>1, OtherStepMoves
    <3>2. sweep' = {q \in UsedOf(a) : Live(q)}
      BY <1>5, <3>1
    <3> QED BY <1>2, <1>3, <3>2 DEF UsedOf, MayRun, Live, ExecutionPath
  <2>2. ~OtherStep => paused' = paused
    BY <1>0, StarterStepMoves, ExecStepMoves, CancelStepMoves DEF UpStep
  <2> QED BY <1>5, <2>1, <2>2
<1> QED BY <1>4, <1>5

\* While the server stays up, an agent whose pause has gone through its list runs nothing: the
\* pause lists queued runs too, so that one whose claim has passed the check is cancelled.
THEOREM PauseStopsTheAgent == Spec => []PausedAgentIsIdle
<1>1. Init => QueuesDue /\ PausedSwept
  <2> SUFFICES ASSUME Init PROVE QueuesDue /\ PausedSwept
    OBVIOUS
  <2>1. \A a \in Agents : starter[a].pc = "idle"
    BY IdleIsStarter DEF Init
  <2>2. paused = {}
    BY DEF Init
  <2> QED BY <2>1, <2>2 DEF QueuesDue, PausedSwept
<1>2. /\ Typed /\ Done /\ Up /\ QueuesDue /\ PausedSwept /\ [Next]_vars
      => (QueuesDue /\ PausedSwept)'
  BY QueuesDueNext, PausedSweptNext
<1>3. Typed /\ PausedSwept => PausedAgentIsIdle
  <2> SUFFICES ASSUME PausedSwept, ServerUp, NEW a \in paused,
                 \A r \in Runs : run[r] # NoRow /\ run[r].agent = a => r \notin sweep /\ cancel[r].pc = "none",
                 NEW r \in RunningOf(a)
               PROVE  FALSE
    BY DEF PausedAgentIsIdle, ServerUp
  <2>1. r \in UsedOf(a) /\ MayRun(a, r)
    BY DEF RunningOf, RunsWithStatus, UsedOf, Used, MayRun
  <2> QED BY <2>1 DEF PausedSwept, UsedOf, Used
<1> QED BY <1>1, <1>2, <1>3, RowsAndHands, ReleasedAreFinished, NothingToReap, PTL DEF Spec

-----------------------------------------------------------------------------
(* Claims and cancellations. *)

InHands(r) == exec[r].pc # "none" \/ \E a \in Agents : Taking(a, r)

LEMMA InHandsMoves ==
  ASSUME Typed, [Next]_vars, NEW r \in Used', InHands(r)'
  PROVE  \/ InHands(r) /\ r \in Used
         \/ \E a \in Agents : /\ StarterStep(a) /\ starter[a].pc = "cas"
                              /\ starter'[a].pc = "wake" /\ r = Claiming(a)
<1>0. ExecsOK /\ StartersOK /\ r \in Runs
  BY DEF Typed, HandsOK, Used
<1>1. InHands(r) => r \in Used
  BY <1>0, ClaimingIsUsed DEF InHands, ExecsOK, Used, Taking, Taken, StartersOK, UsedOf
<1>2. ASSUME NEW a \in Agents, StarterStep(a), ~InHands(r)
      PROVE  starter[a].pc = "cas" /\ starter'[a].pc = "wake" /\ r = Claiming(a)
  <2>1. StarterMoves(a) /\ \A b \in Agents \ {a} : starter'[b] = starter[b]
    BY <1>2, StarterStepMoves
  <2>2. exec[r].pc = "none" /\ \A b \in Agents : ~Taking(b, r)
    BY <1>2 DEF InHands
  <2>3. starter[a].pc # "idle" => r \notin starter[a].claimed
    BY <2>2 DEF Taking, Taken
  <2>4. starter[a].pc \in {"wake", "stamp"} => r # Claiming(a)
    BY <2>2 DEF Taking, Taken
  <2>5. \A b \in Agents \ {a} : ~Taking(b, r)'
    BY <2>1, <2>2 DEF Taking, Taken, Claiming
  <2>6. exec'[r] = exec[r]
    <3>1. starter[a].pc = "idle" => exec' = exec
      BY <2>1 DEF StarterMoves
    <3> QED BY <1>0, <2>1, <2>3, <2>4, <3>1, StarterExecs
  <2>7. Taking(a, r)'
    BY <2>2, <2>5, <2>6 DEF InHands
  <2>8. ASSUME NEW claimed, r \notin claimed
        PROVE  ~GoesOn(a, claimed)
    <3> SUFFICES ASSUME GoesOn(a, claimed) PROVE FALSE
      OBVIOUS
    <3>1. starter'[a] # Idle
      BY <2>7, IdleIsStarter DEF Taking, Taken
    <3>2. starter'[a] = [pc |-> "check", queue |-> Tail(starter[a].queue),
             slots |-> starter[a].slots - Cardinality(claimed \ starter[a].claimed),
             claimed |-> claimed]
      BY <2>8, <3>1, Zenon DEF GoesOn
    <3>3. starter'[a].pc = "check" /\ starter'[a].claimed = claimed
      BY <3>2
    <3> QED BY <2>7, <2>8, <3>3 DEF Taking, Taken
  <2>9. CASE starter' = starter
    BY <2>2, <2>7, <2>9 DEF Taking, Taken, Claiming
  <2>10. CASE starter[a].pc = "idle" /\ starter' # starter
    <3>1. starter'[a].pc = "check" /\ starter'[a].claimed = {}
      BY <2>1, <2>10 DEF StarterMoves
    <3> QED BY <2>7, <3>1 DEF Taking, Taken
  <2>11. CASE starter[a].pc # "idle" /\ starter' # starter
    <3>1. \/ <<starter[a].pc, starter'[a].pc>> \in
               {<<"check", "cancel">>, <<"check", "cas">>, <<"cas", "wake">>, <<"wake", "stamp">>}
          \/ starter[a].pc \in {"check", "cas"} /\ GoesOn(a, starter[a].claimed)
          \/ starter[a].pc = "stamp" /\ GoesOn(a, starter[a].claimed \cup {Claiming(a)})
      BY <2>1, <2>11 DEF StarterMoves
    <3>2. starter'[a].pc \in {"cancel", "cas", "wake", "stamp"}
      BY <2>3, <2>4, <2>8, <2>11, <3>1
    <3>3. Claiming(a)' = Claiming(a) /\ starter'[a].claimed = starter[a].claimed
          /\ <<starter[a].pc, starter'[a].pc>> \in
               {<<"check", "cancel">>, <<"check", "cas">>, <<"cas", "wake">>, <<"wake", "stamp">>}
      BY <1>2, <2>11, <3>2, StarterHolds
    <3> QED BY <2>3, <2>4, <2>7, <2>11, <3>3 DEF Taking, Taken
  <2> QED BY <2>9, <2>10, <2>11
<1>3. ASSUME NEW q \in Runs, ExecStep(q)
      PROVE  InHands(r)
  <2>1. exec[q].pc # "none" /\ starter' = starter /\ \A p \in Runs \ {q} : exec'[p] = exec[p]
    BY <1>3, ExecStepMoves
  <2> QED BY <1>0, <2>1 DEF InHands, Taking, Taken, Claiming
<1>4. CASE (\E q \in Runs : CancelStep(q)) \/ OtherStep \/ ReaperStep
  <2>1. UNCHANGED <<exec, starter>>
    BY <1>4, CancelStepMoves, OtherStepMoves, ReaperStepMoves
  <2> QED BY <1>1, <2>1 DEF InHands, Taking, Taken, Claiming
<1>5. ~Crash
  BY <1>0, CrashMoves, IdleIsStarter DEF NotExecuting, InHands, Taking, Taken
<1> QED BY <1>1, <1>2, <1>3, <1>4, <1>5, StepKinds

\* A run that has been claimed is not queued: the UPDATE that claims it has made it running.
Waiting(r) == run[r].status \in {"queued", "scheduled_retry"}
ClaimedOnce == \A r \in Used : InHands(r) => ~Waiting(r)

LEMMA ClaimedOnceNext ==
  ASSUME Typed, ClaimedOnce, [Next]_vars
  PROVE  ClaimedOnce'
<1> SUFFICES ASSUME NEW r \in Used', InHands(r)' PROVE ~Waiting(r)'
  BY DEF ClaimedOnce
<1>1. CASE InHands(r) /\ r \in Used
  BY <1>1, StatusMoves DEF ClaimedOnce, Waiting, Terminal
<1>2. CASE \E a \in Agents : /\ StarterStep(a) /\ starter[a].pc = "cas"
                             /\ starter'[a].pc = "wake" /\ r = Claiming(a)
  BY <1>2, StarterStepMoves DEF OnlyBecomes, Waiting
<1> QED BY <1>1, <1>2, InHandsMoves

\* What a starter has yet to try is not being executed.
QueuesIdle ==
  \A a \in Agents : starter[a].pc # "idle" =>
    \A n \in 1 .. Len(starter[a].queue) : exec[starter[a].queue[n]].pc = "none"

LEMMA QueuesIdleNext ==
  ASSUME Typed, ClaimedOnce, QueuesIdle, [Next]_vars
  PROVE  QueuesIdle'
<1> SUFFICES ASSUME NEW a \in Agents, starter'[a].pc # "idle",
                    NEW n \in 1 .. Len(starter'[a].queue)
             PROVE  exec'[starter'[a].queue[n]].pc = "none"
  BY DEF QueuesIdle
<1> DEFINE r == starter'[a].queue[n]
<1>0. StartersOK /\ RowsTyped
  BY DEF Typed, RowsOK, HandsOK
<1>1. CASE StarterStep(a)
  <2>1. StarterMoves(a)
    BY <1>1, StarterStepMoves
  <2>2. exec' = exec
    BY <2>1, IdleIsStarter DEF StarterMoves, GoesOn
  <2>3. CASE starter[a].pc = "idle" /\ starter'[a].queue = Prioritised(QueuedOf(a))
    <3>1. QueuedOf(a) \in SUBSET Used /\ QueuedOf(a) \in SUBSET Runs
      BY DEF QueuedOf, RunsWithStatus, Used
    <3>2. Cardinality(QueuedOf(a)) \in Nat
      BY <3>1, RunsAreNumbers, FS_Subset, FS_CardinalityType
    <3>3. Prioritised(QueuedOf(a)) \in [1 .. Cardinality(QueuedOf(a)) -> QueuedOf(a)]
      BY <3>1, PrioritisedIsSorted
    <3>4. Prioritised(QueuedOf(a))[n] \in QueuedOf(a)
      BY <2>3, <3>2, <3>3
    <3>5. Waiting(r) /\ r \in Used
      BY <2>3, <3>1, <3>4 DEF QueuedOf, RunsWithStatus, Waiting
    <3> QED BY <2>2, <3>5 DEF ClaimedOnce, InHands
  <2>4. CASE starter[a].pc # "idle" /\ starter'[a].queue = starter[a].queue
    BY <2>2, <2>4 DEF QueuesIdle
  <2>5. ASSUME NEW claimed, GoesOn(a, claimed), starter[a].pc # "idle"
        PROVE  exec'[r].pc = "none"
    <3>1. starter'[a].queue = Tail(starter[a].queue)
      <4>1. starter'[a] # Idle
        BY IdleIsStarter
      <4>2. starter'[a] = [pc |-> "check", queue |-> Tail(starter[a].queue),
               slots |-> starter[a].slots - Cardinality(claimed \ starter[a].claimed),
               claimed |-> claimed]
        BY <2>5, <4>1, Zenon DEF GoesOn
      <4> QED BY <4>2
    <3>2. /\ Tail(starter[a].queue)[n] = starter[a].queue[n + 1]
          /\ n + 1 \in 1 .. Len(starter[a].queue)
      BY <1>0, <2>5, <3>1, StartNextTakes
    <3> QED BY <2>2, <2>5, <3>1, <3>2 DEF QueuesIdle
  <2>6. CASE starter' = starter
    BY <2>2, <2>6 DEF QueuesIdle
  <2> QED BY <2>1, <2>3, <2>4, <2>5, <2>6 DEF StarterMoves
<1>2. CASE starter'[a] = starter[a]
  <2>1. /\ r \in UsedOf(a) /\ r \in Used /\ r \in Runs /\ exec[r].pc = "none"
    BY <1>0, <1>2 DEF QueuesIdle, StartersOK, UsedOf, Used
  <2>2. ASSUME NEW b \in Agents \ {a}, StarterStep(b)
        PROVE  exec'[r].pc = "none"
    <3>1. StarterMoves(b)
      BY <2>2, StarterStepMoves
    <3>2. r \notin starter[b].claimed
      BY <1>0, <2>1 DEF StartersOK, UsedOf
    <3>3. starter[b].pc = "stamp" => r # Claiming(b)
      BY <1>0, <2>1, ClaimingIsUsed DEF UsedOf
    <3> QED BY <2>1, <3>1, <3>2, <3>3, StarterExecs
  <2>3. ASSUME NEW q \in Runs, ExecStep(q)
        PROVE  exec'[r].pc = "none"
    BY <2>1, <2>3, ExecStepMoves
  <2>4. CASE (\E q \in Runs : CancelStep(q)) \/ OtherStep \/ ReaperStep
    BY <2>1, <2>4, CancelStepMoves, OtherStepMoves, ReaperStepMoves
  <2>5. ~Crash
    BY CrashMoves, IdleIsStarter
  <2> QED BY <1>1, <2>2, <2>3, <2>4, <2>5, StepKinds
<1>3. CASE starter'[a] = Idle
  BY <1>3, IdleIsStarter
<1> QED BY <1>1, <1>2, <1>3, StarterChanges

-----------------------------------------------------------------------------
(* What the environment has done. *)

Counted == {"wake", "cancel", "pause", "edit", "reconcile"}

LEMMA EventsGrow ==
  ASSUME Typed, UpStep, NEW e \in Counted
  PROVE  events[e] \in Nat /\ events'[e] \in Nat /\ events[e] <= events'[e]
<1>0. events[e] \in Nat /\ e \in EventKinds
  BY DEF Typed, HandsOK, EnvironmentOK, Counted, EventKinds
<1>1. CASE OtherStep
  <2>1. events' \in [EventKinds -> Nat]
    <3>1. [Next]_vars
      BY <1>1 DEF OtherStep, Next, Environment, StarterStep
    <3> QED BY <3>1, NextTyped DEF KeepsTyped, Typed, HandsOK, EnvironmentOK
  <2>2. \A k \in EventKinds : events[k] <= events'[k]
    BY <1>1, OtherStepMoves
  <2> QED BY <1>0, <2>1, <2>2
<1>2. ASSUME NEW r \in Runs, ExecStep(r)
      PROVE  events'[e] = events[e]
  <2>1. Quietly({"throw", "transient", "silent"})
    BY <1>2, ExecStepMoves
  <2> QED BY <2>1 DEF Quietly, EventKinds, Counted
<1>3. CASE (\E a \in Agents : StarterStep(a)) \/ \E r \in Runs : CancelStep(r)
  <2>1. events' = events
    BY <1>3, StarterStepMoves, CancelStepMoves
  <2> QED BY <1>0, <2>1
<1> QED BY <1>0, <1>1, <1>2, <1>3 DEF UpStep

\* A run has been cancelled by a request, or by a pause.
Stopping == events["cancel"] > 0 \/ events["pause"] > 0

LEMMA StoppingStays ==
  ASSUME Typed, UpStep, Stopping
  PROVE  Stopping'
<1>1. /\ events["cancel"] \in Nat /\ events'["cancel"] \in Nat /\ events["cancel"] <= events'["cancel"]
      /\ events["pause"] \in Nat /\ events'["pause"] \in Nat /\ events["pause"] <= events'["pause"]
  BY EventsGrow DEF Counted
<1> QED BY <1>1 DEF Stopping

\* Without such a request the only cancellations are those of the claim, whose starter waits.
CancelledByClaim(r) == \E a \in Agents : starter[a].pc = "cancel" /\ Claiming(a) = r

OnlyClaimsCancel ==
  ServerUp /\ ~Stopping =>
    sweep = {} /\ \A r \in Runs : cancel[r].pc # "none" => CancelledByClaim(r)

LEMMA CancelledByClaimStays ==
  ASSUME Typed, UpStep, NEW r, CancelledByClaim(r)
  PROVE  CancelledByClaim(r)'
<1>1. PICK a \in Agents : starter[a].pc = "cancel" /\ Claiming(a) = r
  BY DEF CancelledByClaim
<1>2. starter'[a] = starter[a]
  <2>1. ASSUME StarterStep(a)
        PROVE  starter' = starter
    BY <1>1, <2>1, StarterStepMoves DEF StarterMoves
  <2>2. ASSUME NEW b \in Agents \ {a}, StarterStep(b)
        PROVE  starter'[a] = starter[a]
    BY <2>2, StarterStepMoves
  <2>3. CASE (\E q \in Runs : ExecStep(q)) \/ (\E q \in Runs : CancelStep(q)) \/ OtherStep
    BY <2>3, ExecStepMoves, CancelStepMoves, OtherStepMoves
  <2> QED BY <2>1, <2>2, <2>3 DEF UpStep
<1> QED BY <1>1, <1>2 DEF CancelledByClaim, Claiming

LEMMA OnlyClaimsCancelNext ==
  ASSUME Typed, Up, OnlyClaimsCancel, [Next]_vars
  PROVE  OnlyClaimsCancel'
<1> SUFFICES ASSUME ServerUp', ~Stopping'
             PROVE  sweep' = {} /\ \A r \in Runs : cancel'[r].pc # "none" => CancelledByClaim(r)'
  BY DEF OnlyClaimsCancel
<1>0. ServerUp /\ UpStep /\ ~Stopping /\ CancelsOK /\ StartersOK
  BY UpSteps, StoppingStays DEF Typed, HandsOK
<1>1. sweep = {} /\ \A r \in Runs : cancel[r].pc # "none" => CancelledByClaim(r)'
  BY <1>0, CancelledByClaimStays DEF OnlyClaimsCancel
<1>2. ASSUME NEW a \in Agents, StarterStep(a)
      PROVE  sweep' = {} /\ \A r \in Runs : cancel'[r].pc # "none" => CancelledByClaim(r)'
  <2>0. sweep' = sweep
    BY <1>2, StarterStepMoves
  <2>1. CASE cancel' = cancel
    BY <1>1, <2>0, <2>1
  <2>2. CASE cancel' # cancel
    <3>1. /\ starter[a].pc = "check" /\ starter'[a].pc = "cancel"
          /\ starter'[a].queue = starter[a].queue /\ sweep' = sweep
          /\ cancel' = [cancel EXCEPT ![Claiming(a)] = [pc |-> "kill", by |-> "claim"]]
      BY <1>2, <2>2, StarterStepMoves
    <3>2. \A r : r = Claiming(a) => CancelledByClaim(r)'
      BY <3>1 DEF CancelledByClaim, Claiming
    <3>3. \A r \in Runs : r # Claiming(a) => cancel'[r] = cancel[r]
      BY <1>0, <3>1 DEF CancelsOK
    <3> QED BY <1>1, <3>1, <3>2, <3>3
  <2> QED BY <2>1, <2>2
<1>3. ASSUME NEW q \in Runs, CancelStep(q)
      PROVE  sweep' = {} /\ \A r \in Runs : cancel'[r].pc # "none" => CancelledByClaim(r)'
  <2>1. /\ \A p \in Runs \ {q} : cancel'[p] = cancel[p]
        /\ cancel[q].pc = "none" => q \in sweep
        /\ sweep' \subseteq sweep
    BY <1>3, CancelStepMoves
  <2> QED BY <1>1, <2>1
<1>4. ASSUME NEW q \in Runs, ExecStep(q)
      PROVE  sweep' = {} /\ \A r \in Runs : cancel'[r].pc # "none" => CancelledByClaim(r)'
  BY <1>1, <1>4, ExecStepMoves
<1>5. ASSUME OtherStep
      PROVE  sweep' = {} /\ \A r \in Runs : cancel'[r].pc # "none" => CancelledByClaim(r)'
  BY <1>1, <1>5, OtherStepMoves DEF Stopping
<1> QED BY <1>0, <1>2, <1>3, <1>4, <1>5 DEF UpStep

\* A run that is being claimed is live, or it has been cancelled meanwhile.
ClaimingLive ==
  ServerUp => \A a \in Agents : starter[a].pc \in {"wake", "stamp"} =>
    Live(Claiming(a)) \/ (Stopping /\ run[Claiming(a)].status = "cancelled")

LEMMA ClaimingLiveNext ==
  ASSUME Typed, Up, QueuesIdle, OnlyClaimsCancel, ClaimingLive, [Next]_vars
  PROVE  ClaimingLive'
<1> SUFFICES ASSUME ServerUp', NEW a \in Agents, starter'[a].pc \in {"wake", "stamp"}
             PROVE  \/ run'[Claiming(a)'].status \in ExecutionPath
                    \/ Stopping' /\ run'[Claiming(a)'].status = "cancelled"
  BY DEF ClaimingLive, Live
<1>0. /\ ServerUp /\ NoReaper /\ UpStep /\ StartersOK
  BY UpSteps DEF Typed, HandsOK
<1> DEFINE r == Claiming(a)
<1>1. /\ r \in Used /\ r \in UsedOf(a) /\ starter[a].pc \in {"cas", "wake", "stamp"}
      /\ Claiming(a)' = r
      /\ starter[a].pc = "cas" => StarterStep(a) /\ starter'[a].pc = "wake"
  <2>1. CASE starter'[a] = starter[a]
    BY <1>0, <2>1, ClaimingIsUsed DEF Claiming
  <2>2. CASE StarterStep(a) /\ starter'[a] # starter[a]
    <3>1. StarterMoves(a)
      BY <2>2, StarterStepMoves
    <3>2. starter[a].pc # "idle"
      BY <2>2, <3>1 DEF StarterMoves
    <3> QED BY <1>0, <2>2, <3>2, StarterHolds, ClaimingIsUsed
  <2>3. CASE starter'[a] = Idle
    BY <2>3, IdleIsStarter
  <2> QED BY <2>1, <2>2, <2>3, StarterChanges
<1>2. CASE starter[a].pc = "cas"
  BY <1>1, <1>2, StarterStepMoves DEF OnlyBecomes, ExecutionPath
<1>3. CASE starter[a].pc \in {"wake", "stamp"}
  <2>1. Live(r) \/ (Stopping /\ run[r].status = "cancelled")
    BY <1>0, <1>3 DEF ClaimingLive
  <2>2. exec[r].pc = "none"
    <3>1. r = starter[a].queue[1] /\ 1 \in 1 .. Len(starter[a].queue)
      BY <1>0, <1>3, ClaimingIsUsed DEF StartersOK, Starter
    <3> QED BY <1>3, <3>1 DEF QueuesIdle
  <2>3. CASE run'[r].status = run[r].status
    BY <1>0, <1>1, <2>1, <2>3, StoppingStays DEF Live
  <2>4. CASE run'[r].status # run[r].status
    <3>1. ASSUME NEW q \in Runs, CancelStep(q)
          PROVE  Stopping' /\ run'[r].status = "cancelled"
      <4>1. cancel[q].pc = "status" /\ OnlyBecomes(q, "cancelled")
        BY <1>1, <2>4, <3>1, CancelStepMoves DEF StatusesKept
      <4>2. q = r
        BY <1>1, <2>4, <4>1 DEF OnlyBecomes
      <4>3. ~CancelledByClaim(r)
        BY <1>0, <1>1, <1>3, ClaimingIsUsed DEF CancelledByClaim, UsedOf
      <4>4. Stopping
        BY <1>0, <3>1, <4>1, <4>2, <4>3 DEF OnlyClaimsCancel
      <4> QED BY <1>0, <4>1, <4>2, <4>4, StoppingStays DEF OnlyBecomes
    <3>2. ASSUME NEW q \in Runs, ExecStep(q)
          PROVE  FALSE
      <4>1. exec[q].pc = "persist" /\ \E s \in Terminal : OnlyBecomes(q, s)
        BY <1>1, <2>4, <3>2, ExecStepMoves DEF StatusesKept
      <4>2. q = r
        BY <1>1, <2>4, <4>1 DEF OnlyBecomes
      <4> QED BY <2>2, <4>1, <4>2
    <3>3. ASSUME NEW b \in Agents, StarterStep(b)
          PROVE  run'[r].status \in ExecutionPath
      BY <1>1, <2>4, <3>3, StarterStepMoves DEF StatusesKept, OnlyBecomes, ExecutionPath
    <3>4. ASSUME OtherStep
          PROVE  run'[r].status \in ExecutionPath
      BY <1>1, <2>4, <3>4, OtherStepMoves DEF StatusesKept, OnlyBecomes, ExecutionPath
    <3> QED BY <1>0, <1>1, <3>1, <3>2, <3>3, <3>4 DEF UpStep
  <2> QED BY <2>3, <2>4
<1> QED BY <1>1, <1>2, <1>3

\* Blockers open and close, and the reconciler works, only when the environment says so.
ReadyUnlessEdited == ServerUp /\ events["edit"] = 0 => \A i \in Issues : issue[i].ready
ReconCounted == recon.pc # "none" => events["reconcile"] > 0

LEMMA ReadyUnlessEditedNext ==
  ASSUME Typed, Done, Up, ReadyUnlessEdited, [Next]_vars
  PROVE  ReadyUnlessEdited'
<1> SUFFICES ASSUME ServerUp', events'["edit"] = 0, NEW i \in Issues PROVE issue'[i].ready
  BY DEF ReadyUnlessEdited
<1>1. ServerUp /\ UpStep
  BY UpSteps
<1>2. events["edit"] = 0
  BY <1>1, EventsGrow DEF Counted
<1>3. ReadyMoved(i)
  BY NextMoves DEF Moved
<1> QED BY <1>1, <1>2, <1>3 DEF ReadyUnlessEdited, ReadyMoved

LEMMA ReconCountedNext ==
  ASSUME Typed, ReconCounted, [Next]_vars
  PROVE  ReconCounted'
<1>1. CASE (\E a \in Agents : StarterStep(a)) \/ \E r \in Runs : CancelStep(r)
  BY <1>1, StarterStepMoves, CancelStepMoves DEF ReconCounted
<1>2. ASSUME NEW r \in Runs, ExecStep(r)
      PROVE  ReconCounted'
  <2>1. Quietly({"throw", "transient", "silent"}) /\ recon' = recon
    BY <1>2, ExecStepMoves
  <2> QED BY <2>1 DEF Quietly, EventKinds, ReconCounted
<1>3. CASE ReaperStep
  BY <1>3, ReaperStepMoves DEF ReconCounted
<1>4. CASE Crash
  BY <1>4, CrashMoves DEF ReconCounted, NoRecon
<1>5. CASE OtherStep
  <2>1. CASE ReconStep
    <3>1. ASSUME NEW i \in Issues, ReconcileFind(i)
          PROVE  events'["reconcile"] > 0
      BY <3>1, EventTyped DEF ReconcileFind, Typed, HandsOK, EventKinds
    <3>2. CASE ReconcileEscalate \/ ReconcileRecover
      BY <3>2 DEF ReconcileEscalate, ReconcileRecover, NoRecon, ReconCounted
    <3> QED BY <2>1, <3>1, <3>2 DEF ReconStep, ReconCounted
  <2>2. CASE ~ReconStep
    <3>1. recon' = recon
      BY <1>5, <2>2 DEF OtherStep, WakeAgent, CancelRequest, OrphanExits, PromoteScheduled, Pause,
                        Resume, BudgetStop, BudgetResume, ResumeQueued, CancelPendingWakes, EditIssue, vars
    <3>2. UpStep /\ events["reconcile"] <= events'["reconcile"] /\ events["reconcile"] \in Nat
          /\ events'["reconcile"] \in Nat
      BY <1>5, EventsGrow DEF UpStep, Counted
    <3> QED BY <3>1, <3>2 DEF ReconCounted
  <2> QED BY <2>1, <2>2
<1> QED BY <1>1, <1>2, <1>3, <1>4, <1>5, StepKinds

-----------------------------------------------------------------------------
(* Who still serves an issue. *)

\* What a starter has claimed is not executed before its lock is given back.
ClaimedIdle ==
  \A a \in Agents : starter[a].pc # "idle" => \A r \in starter[a].claimed : exec[r].pc = "none"

LEMMA ClaimedIdleNext ==
  ASSUME Typed, QueuesIdle, ClaimedIdle, [Next]_vars
  PROVE  ClaimedIdle'
<1> SUFFICES ASSUME NEW a \in Agents, starter'[a].pc # "idle", NEW r \in starter'[a].claimed
             PROVE  exec'[r].pc = "none"
  BY DEF ClaimedIdle
<1>0. StartersOK /\ RowsTyped
  BY DEF Typed, RowsOK, HandsOK
<1>1. CASE StarterStep(a) /\ starter' # starter
  <2>1. StarterMoves(a)
    BY <1>1, StarterStepMoves
  <2>2. exec' = exec
    BY <2>1, IdleIsStarter DEF StarterMoves, GoesOn
  <2>3. CASE starter[a].pc = "idle" /\ starter'[a].claimed = {}
    BY <2>3
  <2>4. CASE starter[a].pc # "idle" /\ starter'[a].claimed = starter[a].claimed
    BY <2>2, <2>4 DEF ClaimedIdle
  <2>5. ASSUME NEW claimed, GoesOn(a, claimed)
        PROVE  starter'[a].claimed = claimed
    <3>1. starter'[a] # Idle
      BY IdleIsStarter
    <3>2. starter'[a] = [pc |-> "check", queue |-> Tail(starter[a].queue),
             slots |-> starter[a].slots - Cardinality(claimed \ starter[a].claimed),
             claimed |-> claimed]
      BY <2>5, <3>1, Zenon DEF GoesOn
    <3> QED BY <3>2
  <2>6. starter[a].pc # "idle" => exec[Claiming(a)].pc = "none"
    <3> SUFFICES ASSUME starter[a].pc # "idle" PROVE exec[Claiming(a)].pc = "none"
      OBVIOUS
    <3>1. Claiming(a) = starter[a].queue[1] /\ 1 \in 1 .. Len(starter[a].queue)
      BY <1>0, ClaimingIsUsed DEF StartersOK, Starter
    <3> QED BY <3>1 DEF QueuesIdle
  <2>7. CASE starter[a].pc \in {"check", "cas"} /\ GoesOn(a, starter[a].claimed)
    BY <2>4, <2>5, <2>7
  <2>8. CASE starter[a].pc = "stamp" /\ GoesOn(a, starter[a].claimed \cup {Claiming(a)})
    <3>1. starter'[a].claimed = starter[a].claimed \cup {Claiming(a)}
      BY <2>5, <2>8
    <3> QED BY <2>2, <2>6, <2>8, <3>1 DEF ClaimedIdle
  <2> QED BY <1>1, <2>1, <2>3, <2>4, <2>7, <2>8 DEF StarterMoves
<1>2. CASE starter'[a] = starter[a]
  <2>1. /\ r \in UsedOf(a) /\ r \in Used /\ r \in Runs /\ exec[r].pc = "none"
    BY <1>0, <1>2 DEF ClaimedIdle, StartersOK, UsedOf, Used
  <2>2. ASSUME NEW b \in Agents \ {a}, StarterStep(b)
        PROVE  exec'[r].pc = "none"
    <3>1. StarterMoves(b)
      BY <2>2, StarterStepMoves
    <3>2. r \notin starter[b].claimed
      BY <1>0, <2>1 DEF StartersOK, UsedOf
    <3>3. starter[b].pc = "stamp" => r # Claiming(b)
      BY <1>0, <2>1, ClaimingIsUsed DEF UsedOf
    <3> QED BY <2>1, <3>1, <3>2, <3>3, StarterExecs
  <2>3. ASSUME NEW q \in Runs, ExecStep(q)
        PROVE  exec'[r].pc = "none"
    BY <2>1, <2>3, ExecStepMoves
  <2>4. CASE (\E q \in Runs : CancelStep(q)) \/ OtherStep \/ ReaperStep
    BY <2>1, <2>4, CancelStepMoves, OtherStepMoves, ReaperStepMoves
  <2>5. ~Crash
    BY CrashMoves, IdleIsStarter
  <2>6. CASE StarterStep(a) /\ starter' = starter
    <3>1. exec' = exec
      BY <2>6, StarterStepMoves, IdleIsStarter DEF StarterMoves, GoesOn
    <3> QED BY <2>1, <3>1
  <2> QED BY <1>1, <2>2, <2>3, <2>4, <2>5, <2>6, StepKinds
<1>3. CASE starter'[a] = Idle
  BY <1>3, IdleIsStarter
<1>4. CASE StarterStep(a) /\ starter' = starter
  BY <1>2, <1>4
<1> QED BY <1>1, <1>2, <1>3, <1>4, StarterChanges

\* A run that is still to be executed or being executed, or whose handler has yet to release
\* its issue.
Serving(r) == Live(r) \/ WillRelease(r)

\* The handler of r has released its issue i, and no other handler has moved.
LetGo(r, i) ==
  /\ Released(r, i)
  /\ \A q \in Runs \ {r} : exec'[q] = exec[q] /\ cancel'[q] = cancel[q]

LEMMA HandlerLets ==
  ASSUME Typed, NEW r \in Runs, NEW i \in Issues, run[r].issue = i,
         (ExecStep(r) /\ exec[r].pc = "release") \/ (CancelStep(r) /\ cancel[r].pc = "release")
  PROVE  LetGo(r, i)
<1>1. CASE ExecStep(r) /\ exec[r].pc = "release"
  <2>1. \E seen, also : Release(r, seen, also)
    BY <1>1 DEF ExecStep, ExecBegin, ExecCheckout, ExecSpawn, ExecReturn, ExecThrow, ExecPersist,
                ExecWake, ExecRetry, ExecComment, ExecRelease
  <2>2. r \in Used /\ UNCHANGED cancel /\ \A q \in Runs \ {r} : exec'[q] = exec[q]
    BY <1>1, ExecStepMoves
  <2>3. Released(r, i)
    BY <2>1, <2>2, ReleaseMoves DEF Typed
  <2> QED BY <2>2, <2>3 DEF LetGo
<1>2. CASE CancelStep(r) /\ cancel[r].pc = "release"
  <2>1. \E seen, also : Release(r, seen, also)
    BY <1>2 DEF CancelStep, SweepNext, CancelKill, CancelStatus, CancelWake, CancelRelease
  <2>2. r \in Used /\ UNCHANGED exec /\ \A q \in Runs \ {r} : cancel'[q] = cancel[q]
    BY <1>2, CancelStepMoves
  <2>3. Released(r, i)
    BY <2>1, <2>2, ReleaseMoves DEF Typed
  <2> QED BY <2>2, <2>3 DEF LetGo
<1> QED BY <1>1, <1>2

Idling == QueuesIdle /\ ClaimedIdle

LEMMA WillReleaseMoves ==
  ASSUME Typed, Up, Idling, [Next]_vars, ServerUp', NEW r \in Used, NEW i \in Issues,
         run[r].issue = i, WillRelease(r)
  PROVE  WillRelease(r)' \/ LetGo(r, i)
<1>0. UpStep /\ NoReaper /\ CancelsOK /\ ExecsOK /\ StartersOK /\ r \in Runs
  BY UpSteps DEF Typed, HandsOK, Used
<1>1. CASE exec[r].pc \notin {"none", "begin"}
  <2>1. ASSUME NEW a \in Agents, StarterStep(a)
        PROVE  exec'[r] = exec[r]
    <3>1. StarterMoves(a)
      BY <2>1, StarterStepMoves
    <3>2. starter[a].pc # "idle" => r \notin starter[a].claimed
      BY <1>1 DEF Idling, ClaimedIdle
    <3>3. starter[a].pc = "stamp" => r # Claiming(a)
      <4> SUFFICES ASSUME starter[a].pc = "stamp" PROVE r # Claiming(a)
        OBVIOUS
      <4>1. Claiming(a) = starter[a].queue[1] /\ 1 \in 1 .. Len(starter[a].queue)
        BY <1>0, ClaimingIsUsed DEF StartersOK, Starter
      <4> QED BY <1>1, <4>1 DEF Idling, QueuesIdle
    <3>4. starter[a].pc = "idle" => exec' = exec
      BY <3>1 DEF StarterMoves
    <3> QED BY <1>0, <3>1, <3>2, <3>3, <3>4, StarterExecs
  <2>2. ASSUME NEW q \in Runs, ExecStep(q)
        PROVE  exec'[r].pc \notin {"none", "begin"} \/ LetGo(r, i)
    <3>1. <<exec[q].pc, exec'[q].pc>> \in ExecMoves /\ \A p \in Runs \ {q} : exec'[p] = exec[p]
      BY <2>2, ExecStepMoves
    <3>2. CASE q = r /\ exec[r].pc = "release"
      BY <2>2, <3>2, HandlerLets
    <3> QED BY <1>0, <1>1, <3>1, <3>2 DEF ExecMoves
  <2>3. CASE (\E q \in Runs : CancelStep(q)) \/ OtherStep
    BY <1>1, <2>3, CancelStepMoves, OtherStepMoves DEF WillRelease
  <2> QED BY <1>0, <1>1, <2>1, <2>2, <2>3 DEF UpStep, WillRelease
<1>2. CASE cancel[r].pc \notin {"none", "next"}
  <2>1. ASSUME NEW a \in Agents, StarterStep(a)
        PROVE  cancel'[r] = cancel[r]
    <3>1. \/ UNCHANGED cancel
          \/ /\ cancel[Claiming(a)].pc = "none"
             /\ cancel' = [cancel EXCEPT ![Claiming(a)] = [pc |-> "kill", by |-> "claim"]]
      BY <2>1, StarterStepMoves
    <3> QED BY <1>0, <1>2, <3>1 DEF CancelsOK
  <2>2. ASSUME OtherStep
        PROVE  cancel'[r] = cancel[r]
    <3>1. \/ UNCHANGED cancel
          \/ \E q \in Runs : /\ cancel[q].pc = "none"
                             /\ cancel' = [cancel EXCEPT ![q] = [pc |-> "kill", by |-> "request"]]
      BY <2>2, OtherStepMoves
    <3> QED BY <1>0, <1>2, <3>1 DEF CancelsOK
  <2>3. ASSUME NEW q \in Runs, CancelStep(q)
        PROVE  cancel'[r].pc \notin {"none", "next"} \/ LetGo(r, i)
    <3>1. <<cancel[q].pc, cancel'[q].pc>> \in CancelMoves /\ \A p \in Runs \ {q} : cancel'[p] = cancel[p]
      BY <2>3, CancelStepMoves
    <3>2. CASE q = r /\ cancel[r].pc = "release"
      BY <2>3, <3>2, HandlerLets
    <3> QED BY <1>0, <1>2, <3>1, <3>2 DEF CancelMoves
  <2>4. CASE \E q \in Runs : ExecStep(q)
    BY <1>2, <2>4, ExecStepMoves DEF WillRelease
  <2> QED BY <1>0, <1>2, <2>1, <2>2, <2>3, <2>4 DEF UpStep, WillRelease
<1> QED BY <1>0, <1>1, <1>2 DEF WillRelease, NoReaper

\* A run that ends leaves behind the handler that has ended it.
LEMMA EndsInHandler ==
  ASSUME Typed, Up, [Next]_vars, ServerUp', NEW r \in Used,
         run'[r].status # run[r].status
  PROVE  \/ Live(r)' /\ Live(r)
         \/ WillRelease(r)'
<1>0. UpStep /\ r \in Runs
  BY UpSteps DEF Used
<1>1. ASSUME NEW q \in Runs, CancelStep(q)
      PROVE  WillRelease(r)'
  <2>1. /\ <<cancel[q].pc, cancel'[q].pc>> \in CancelMoves
        /\ cancel[q].pc # "status" => StatusesKept
        /\ cancel[q].pc = "status" => OnlyBecomes(q, "cancelled")
    BY <1>1, CancelStepMoves, Zenon
  <2>2. q = r /\ cancel[q].pc = "status"
    BY <2>1 DEF StatusesKept, OnlyBecomes
  <2> QED BY <2>1, <2>2 DEF CancelMoves, WillRelease
<1>2. ASSUME NEW q \in Runs, ExecStep(q)
      PROVE  WillRelease(r)'
  <2>1. /\ <<exec[q].pc, exec'[q].pc>> \in ExecMoves
        /\ exec[q].pc # "persist" => StatusesKept
        /\ exec[q].pc = "persist" => \E s \in Terminal : OnlyBecomes(q, s)
    BY <1>2, ExecStepMoves, Zenon
  <2>2. q = r /\ exec[q].pc = "persist"
    BY <2>1 DEF StatusesKept, OnlyBecomes
  <2> QED BY <2>1, <2>2 DEF ExecMoves, WillRelease
<1>3. ASSUME NEW a \in Agents, StarterStep(a)
      PROVE  Live(r)' /\ Live(r)
  BY <1>3, StarterStepMoves DEF StatusesKept, OnlyBecomes, Live, ExecutionPath
<1>4. ASSUME OtherStep
      PROVE  Live(r)' /\ Live(r)
  BY <1>4, OtherStepMoves DEF StatusesKept, OnlyBecomes, Live, ExecutionPath
<1> QED BY <1>0, <1>1, <1>2, <1>3, <1>4 DEF UpStep

LEMMA ServingMoves ==
  ASSUME Typed, Up, Idling, [Next]_vars, ServerUp', NEW r \in Used, NEW i \in Issues,
         run[r].issue = i, Serving(r)
  PROVE  Serving(r)' \/ LetGo(r, i)
<1>1. CASE WillRelease(r)
  BY <1>1, WillReleaseMoves DEF Serving
<1>2. CASE Live(r) /\ run'[r].status = run[r].status
  BY <1>2 DEF Live, Serving
<1>3. CASE Live(r) /\ run'[r].status # run[r].status
  BY <1>3, EndsInHandler DEF Serving
<1> QED BY <1>1, <1>2, <1>3 DEF Serving

\* The holder of a lock: only a cancellation in the middle of a claim leaves it with a run
\* that nobody serves.
Held(q) == Serving(q) \/ (Stopping /\ run[q].status = "cancelled")

LockHolder == ServerUp => \A i \in Issues : issue[i].exec # NoRun => Held(issue[i].exec)

LEMMA HeldMoves ==
  ASSUME Typed, Up, Idling, [Next]_vars, ServerUp', NEW q \in Used, NEW i \in Issues,
         run[q].issue = i, Held(q)
  PROVE  Held(q)' \/ LetGo(q, i)
<1>1. CASE Serving(q)
  BY <1>1, ServingMoves DEF Held
<1>2. CASE Stopping /\ run[q].status = "cancelled"
  <2>1. Stopping'
    BY <1>2, UpSteps, StoppingStays
  <2>2. CASE run'[q].status = run[q].status
    BY <1>2, <2>1, <2>2 DEF Held
  <2>3. CASE run'[q].status # run[q].status
    <3>1. ~Live(q)
      BY <1>2 DEF Live, ExecutionPath
    <3>2. WillRelease(q)'
      BY <2>3, <3>1, EndsInHandler
    <3> QED BY <3>2 DEF Held, Serving
  <2> QED BY <2>2, <2>3
<1> QED BY <1>1, <1>2 DEF Held

LEMMA HiredIsLive ==
  ASSUME NewRunsWait, NEW i, NEW lock \in BOOLEAN, Hires(i, lock)
  PROVE  \E new \in Used' \ Used : /\ run'[new].issue = i /\ Live(new)'
                                   /\ lock => issue'[i].exec = new
<1>1. PICK new \in Runs \ Used : /\ Used' = Used \cup {new} /\ run'[new].issue = i
                                 /\ lock => issue'[i].exec = new
  BY DEF Hires
<1>2. new \in Used' \ Used
  BY <1>1
<1>3. Live(new)'
  BY <1>2 DEF NewRunsWait, Live, ExecutionPath
<1> QED BY <1>1, <1>2, <1>3

LEMMA LockHolderNext ==
  ASSUME Typed, Done, Up, Idling, ClaimingLive, LockHolder, [Next]_vars
  PROVE  LockHolder'
<1> SUFFICES ASSUME ServerUp', NEW i \in Issues, NEW q, q = issue'[i].exec, q # NoRun
             PROVE  Held(q)'
  BY DEF LockHolder, Held, Serving, Live, WillRelease, Stopping
<1>0. /\ ServerUp /\ RowsOK /\ StartersOK /\ NewRunsWait /\ LockMoved(i)
      /\ issue[i].exec # NoRun =>
           issue[i].exec \in Used /\ run[issue[i].exec].issue = i /\ Held(issue[i].exec)
  BY UpSteps, NextMoves, NewRunsOnlyWait DEF Typed, HandsOK, Moved, RowsOK, LocksAreRuns, LockHolder
<1>1. ASSUME q = issue[i].exec
      PROVE  Held(q)'
  <2>1. Held(q)' \/ LetGo(q, i)
    BY <1>0, <1>1, HeldMoves
  <2>2. CASE LetGo(q, i)
    <3>1. MayRelease(q)
      BY <1>0, <1>1 DEF MayRelease
    <3>2. Hires(i, TRUE)
      BY <2>2, <3>1 DEF LetGo, Released
    <3> QED BY <1>0, <3>2, HiredIsLive DEF Held, Serving
  <2> QED BY <2>1, <2>2
<1>2. ASSUME NEW r \in Used, run[r].issue = i, Held(r), ~LetGo(r, i), q = r
      PROVE  Held(q)'
  BY <1>2, HeldMoves
<1>3. CASE LockKept(i)
  BY <1>1, <1>3 DEF LockKept
<1>4. CASE LockNormalised(i)
  <2>1. q \in LiveRunsOf(i)
    BY <1>0, <1>4, ActiveRunIsLive DEF LockNormalised
  <2>2. q \in Used /\ run[q].issue = i /\ Live(q)
    BY <2>1 DEF LiveRunsOf, RunsOf, Used
  <2>3. CASE Live(q)'
    BY <2>3 DEF Held, Serving
  <2>4. CASE ~Live(q)'
    <3>1. run'[q].status # run[q].status
      BY <2>2, <2>4 DEF Live
    <3> QED BY <2>2, <2>4, <3>1, EndsInHandler DEF Held, Serving
  <2> QED BY <2>3, <2>4
<1>5. CASE LockStamped(i)
  <2>1. PICK a \in Agents : /\ StarterStep(a) /\ starter[a].pc = "stamp"
                            /\ run[Claiming(a)].issue = i /\ q = Claiming(a)
    BY <1>5 DEF LockStamped
  <2>2. q \in Used /\ run[q].issue = i /\ Held(q)
    BY <1>0, <2>1, ClaimingIsUsed DEF ClaimingLive, Held, Serving
  <2>3. ~LetGo(q, i)
    <3>1. run'[q].status = run[q].status /\ UNCHANGED events
      BY <2>1, <2>2, StarterStepMoves DEF StatusesKept
    <3> QED BY <1>5, <2>1, <2>2 DEF LetGo, Released, LockStamped, MayRelease, Hires
  <2> QED BY <1>2, <2>2, <2>3
<1>6. CASE LockReleased(i)
  <2>1. Hires(i, TRUE)
    BY <1>6 DEF LockReleased
  <2> QED BY <1>0, <2>1, HiredIsLive DEF Held, Serving
<1>7. CASE LockTaken(i)
  <2>1. PICK r \in Used : /\ exec'[r].pc \in {"spawn", "adapter"} /\ issue'[i].exec \in {NoRun, r}
    BY <1>7 DEF LockTaken
  <2> QED BY <2>1 DEF Held, Serving, WillRelease
<1>8. CASE LockDropped(i)
  BY <1>8 DEF LockDropped
<1> QED BY <1>0, <1>3, <1>4, <1>5, <1>6, <1>7, <1>8 DEF LockMoved

-----------------------------------------------------------------------------
(* Deferred wakes. *)

Watched(i) ==
  \/ \E r \in RunsOf(i) : Serving(r)
  \/ LockedByCancelled(i) /\ Stopping
  \/ Stopping /\ (events["edit"] > 0 \/ events["reconcile"] > 0)

DeferredWatched == ServerUp => \A i \in Issues : Deferred(i) # {} => Watched(i)

LEMMA WatchedIsReleaser ==
  DeferredWatched <=> DeferredHasReleaser
<1>1. Stopping <=> \E e \in {"cancel", "pause"} : events[e] > 0
  BY DEF Stopping
<1>2. (events["edit"] > 0 \/ events["reconcile"] > 0)
        <=> \E e \in {"edit", "reconcile"} : events[e] > 0
  OBVIOUS
<1>3. \A i \in Issues :
        Watched(i) <=> \/ \E r \in RunsOf(i) : Live(r) \/ WillRelease(r)
                       \/ LockedByCancelled(i) /\ \E e \in {"cancel", "pause"} : events[e] > 0
                       \/ CancelledAndEdited
  BY <1>1, <1>2 DEF Watched, Serving, CancelledAndEdited
<1> QED BY <1>3, Zenon DEF DeferredWatched, DeferredHasReleaser, ServerUp

\* A new run of the issue is waiting.
LEMMA HiredWatches ==
  ASSUME NewRunsWait, NEW i, NEW lock \in BOOLEAN, Hires(i, lock)
  PROVE  Watched(i)'
<1>1. PICK new \in Used' \ Used : run'[new].issue = i /\ Live(new)'
  BY HiredIsLive
<1>2. new \in RunsOf(i)' /\ Serving(new)'
  BY <1>1 DEF RunsOf, Used, Serving
<1> QED BY <1>2 DEF Watched

\* Whoever serves the issue goes on to, or releases it: then no deferred wake is left, or a
\* new run takes over, or the lock is another run's, who serves the issue.
LEMMA ServedStaysWatched ==
  ASSUME Typed, Done, Up, Idling, LockHolder, [Next]_vars, ServerUp', NEW i \in Issues,
         Deferred(i)' # {}, NEW r \in RunsOf(i), Serving(r)
  PROVE  Watched(i)'
<1>0. /\ r \in Used /\ r \in Runs /\ run[r].issue = i /\ RunsKept /\ NewRunsWait /\ ServerUp
      /\ UNCHANGED reaper /\ UpStep
  BY UpSteps, NextTyped, NewRunsOnlyWait DEF KeepsTyped, RunsOf, Used
<1>k. \A q \in RunsOf(i) : q \in RunsOf(i)' /\ q \in Used
  BY <1>0 DEF RunsOf, RunsKept, Used
<1>1. CASE Serving(r)'
  BY <1>k, <1>1 DEF Watched
<1>2. CASE LetGo(r, i)
  <2>1. CASE Hires(i, TRUE)
    BY <1>0, <2>1, HiredWatches
  <2>2. CASE ~MayRelease(r) /\ UNCHANGED <<run, wake, issue>>
    <3>q. PICK q : q = issue[i].exec
      OBVIOUS
    <3>1. q # NoRun /\ q # r
      BY <1>0, <2>2, <3>q DEF MayRelease
    <3>2. q \in RunsOf(i) /\ Held(q)
      BY <1>0, <3>q, <3>1 DEF LockHolder, Typed, RowsOK, LocksAreRuns, RunsOf, Used
    <3>3. CASE Live(q)
      <4>1. q \in RunsOf(i)' /\ Serving(q)'
        BY <1>k, <2>2, <3>2, <3>3 DEF Live, Serving
      <4> QED BY <4>1 DEF Watched
    <3>4. CASE WillRelease(q)
      <4>1. exec'[q] = exec[q] /\ cancel'[q] = cancel[q]
        BY <1>2, <3>1, <3>2 DEF LetGo, RunsOf
      <4>2. q \in RunsOf(i)' /\ Serving(q)'
        BY <1>0, <1>k, <3>2, <3>4, <4>1 DEF WillRelease, Serving
      <4> QED BY <4>2 DEF Watched
    <3>5. CASE Stopping /\ run[q].status = "cancelled"
      <4>1. Stopping'
        BY <1>0, <3>5, StoppingStays
      <4>2. LockedByCancelled(i)'
        BY <2>2, <3>q, <3>1, <3>5 DEF LockedByCancelled
      <4> QED BY <4>1, <4>2 DEF Watched
    <3> QED BY <3>2, <3>3, <3>4, <3>5 DEF Held, Serving
  <2> QED BY <1>2, <2>1, <2>2 DEF LetGo, Released
<1> QED BY <1>0, <1>1, <1>2, ServingMoves

LEMMA LiveStaysWatched ==
  ASSUME Typed, Done, Up, Idling, LockHolder, [Next]_vars, ServerUp', NEW i \in Issues,
         Deferred(i)' # {}, LiveRunsOf(i) # {}
  PROVE  Watched(i)'
<1>1. PICK r \in RunsOf(i) : Live(r)
  BY DEF LiveRunsOf
<1> QED BY <1>1, ServedStaysWatched DEF Serving

LEMMA CancelledStaysWatched ==
  ASSUME Typed, Done, Up, Idling, LockHolder, ReadyUnlessEdited, ReconCounted, [Next]_vars,
         ServerUp', NEW i \in Issues, Deferred(i)' # {}, LockedByCancelled(i), Stopping
  PROVE  Watched(i)'
<1> DEFINE q == issue[i].exec
<1>0. /\ ServerUp /\ UpStep /\ RowsOK /\ StartersOK /\ NewRunsWait /\ LockMoved(i) /\ Stopping'
      /\ q \in Used /\ run[q].issue = i /\ q # NoRun /\ run[q].status = "cancelled" /\ RunsKept
  BY UpSteps, NextMoves, NewRunsOnlyWait, NextTyped, StoppingStays
     DEF KeepsTyped, Typed, HandsOK, Moved, RowsOK, LocksAreRuns, LockedByCancelled
<1>1. ASSUME issue'[i].exec = q
      PROVE  Watched(i)'
  <2>1. CASE run'[q].status = run[q].status
    <3>1. LockedByCancelled(i)'
      BY <1>0, <1>1, <2>1 DEF LockedByCancelled
    <3> QED BY <1>0, <3>1 DEF Watched
  <2>2. CASE run'[q].status # run[q].status
    <3>1. ~Live(q)
      BY <1>0 DEF Live, ExecutionPath
    <3>2. \A x : x = q => x \in RunsOf(i)' /\ WillRelease(x)'
      <4> SUFFICES ASSUME NEW x, x = q PROVE x \in RunsOf(i)' /\ WillRelease(x)'
        OBVIOUS
      <4>1. x \in Used /\ run'[x].status # run[x].status /\ ~Live(x)
        BY <1>0, <2>2, <3>1
      <4>2. WillRelease(x)'
        BY <4>1, EndsInHandler
      <4>3. x \in RunsOf(i)'
        BY <1>0, <4>1 DEF RunsOf, RunsKept, Used
      <4> QED BY <4>2, <4>3
    <3> QED BY <3>2 DEF Watched, Serving
  <2> QED BY <2>1, <2>2
<1>2. CASE LockKept(i)
  BY <1>1, <1>2 DEF LockKept
<1>3. CASE LockNormalised(i)
  <2>1. CASE ActiveRun(i) # NoRun
    BY <1>0, <2>1, ActiveRunIsLive, LiveStaysWatched
  <2>2. CASE ~issue[i].ready
    <3>1. events["edit"] # 0
      BY <1>0, <2>2 DEF ReadyUnlessEdited
    <3>2. events'["edit"] > 0
      BY <1>0, <3>1, EventsGrow DEF Counted
    <3> QED BY <1>0, <3>2 DEF Watched
  <2>3. CASE Hires(i, FALSE)
    BY <1>0, <2>3, HiredWatches
  <2> QED BY <1>3, <2>1, <2>2, <2>3 DEF LockNormalised
<1>4. CASE LockStamped(i)
  <2>1. issue'[i].exec = q
    BY <1>0, <1>4 DEF LockStamped
  <2> QED BY <1>1, <2>1
<1>5. CASE LockReleased(i)
  <2>1. Hires(i, TRUE)
    BY <1>5 DEF LockReleased
  <2> QED BY <1>0, <2>1, HiredWatches
<1>6. CASE LockTaken(i)
  <2>1. PICK r \in Used : run[r].issue = i /\ exec'[r].pc \in {"spawn", "adapter"}
    BY <1>6 DEF LockTaken
  <2>2. r \in RunsOf(i)' /\ Serving(r)'
    BY <1>0, <2>1 DEF RunsOf, RunsKept, Used, Serving, WillRelease
  <2> QED BY <2>2 DEF Watched
<1>7. CASE LockDropped(i)
  <2>1. events'["edit"] > 0 \/ events["reconcile"] > 0
    BY <1>7 DEF LockDropped, ReconCounted
  <2>2. events'["edit"] > 0 \/ events'["reconcile"] > 0
    BY <1>0, <2>1, EventsGrow DEF Counted
  <2> QED BY <1>0, <2>2 DEF Watched
<1> QED BY <1>0, <1>2, <1>3, <1>4, <1>5, <1>6, <1>7 DEF LockMoved

LEMMA DeferredWatchedNext ==
  ASSUME Typed, Done, Up, Idling, LockHolder, ReadyUnlessEdited, ReconCounted,
         DeferredWatched, [Next]_vars
  PROVE  DeferredWatched'
<1> SUFFICES ASSUME ServerUp', NEW i \in Issues, Deferred(i)' # {}
             PROVE  Watched(i)'
  BY DEF DeferredWatched
<1>0. ServerUp /\ UpStep /\ WakesMoved
  BY UpSteps, NextMoves DEF Moved
<1>1. CASE Deferred(i) = {}
  <2>1. PICK w \in Wakes : wake'[w] # NoRow /\ wake'[w].status = "deferred_issue_execution"
                           /\ wake'[w].issue = i
    BY DEF Deferred
  <2>2. ~KeepsWake(w) \/ wake'[w].status # wake[w].status
    BY <1>1, <2>1 DEF Deferred, KeepsWake
  <2>3. DeferredAnew(w)
    BY <1>0, <2>1, <2>2 DEF WakesMoved, WakeMoved
  <2>4. LiveRunsOf(i) # {}
    BY <2>1, <2>3 DEF DeferredAnew
  <2> QED BY <2>4, LiveStaysWatched
<1>2. CASE Deferred(i) # {}
  <2>1. Watched(i)
    BY <1>0, <1>2 DEF DeferredWatched
  <2>2. CASE \E r \in RunsOf(i) : Serving(r)
    BY <2>2, ServedStaysWatched
  <2>3. CASE LockedByCancelled(i) /\ Stopping
    BY <2>3, CancelledStaysWatched
  <2>4. CASE Stopping /\ (events["edit"] > 0 \/ events["reconcile"] > 0)
    <3>1. Stopping' /\ (events'["edit"] > 0 \/ events'["reconcile"] > 0)
      BY <1>0, <2>4, StoppingStays, EventsGrow DEF Counted
    <3> QED BY <3>1 DEF Watched
  <2> QED BY <2>1, <2>2, <2>3, <2>4 DEF Watched
<1> QED BY <1>1, <1>2

\* The claims and cancellations of a server that stays up, and the holders of its locks.
Handling ==
  /\ ClaimedOnce /\ Idling /\ OnlyClaimsCancel /\ ClaimingLive
  /\ ReadyUnlessEdited /\ ReconCounted /\ LockHolder

LEMMA InitHandling == Init => Handling /\ DeferredWatched
<1> SUFFICES ASSUME Init PROVE Handling /\ DeferredWatched
  OBVIOUS
<1>1. \A a \in Agents : starter[a].pc = "idle"
  BY IdleIsStarter DEF Init
<1>2. /\ Used = {} /\ sweep = {} /\ \A r \in Runs : cancel[r].pc = "none"
      /\ recon.pc = "none" /\ \A i \in Issues : issue[i].ready /\ issue[i].exec = NoRun
      /\ \A i \in Issues : Deferred(i) = {}
  BY DEF Init, Used, NoCancel, NoRecon, Deferred
<1>3. ClaimedOnce /\ Idling
  BY <1>1, <1>2 DEF ClaimedOnce, Idling, QueuesIdle, ClaimedIdle
<1>4. OnlyClaimsCancel /\ ClaimingLive
  BY <1>1, <1>2 DEF OnlyClaimsCancel, ClaimingLive
<1>5. ReadyUnlessEdited /\ ReconCounted /\ LockHolder /\ DeferredWatched
  BY <1>2 DEF ReadyUnlessEdited, ReconCounted, LockHolder, DeferredWatched
<1> QED BY <1>3, <1>4, <1>5 DEF Handling

LEMMA HandlingNext ==
  ASSUME Typed, Done, Up, Handling, [Next]_vars
  PROVE  Handling'
  BY ClaimedOnceNext, QueuesIdleNext, ClaimedIdleNext, OnlyClaimsCancelNext, ClaimingLiveNext,
     ReadyUnlessEditedNext, ReconCountedNext, LockHolderNext DEF Handling, Idling

\* While the server stays up, the lock of an issue is held by a run that is still served, or
\* by one that was cancelled in the middle of its claim.
THEOREM LocksAreServed == Spec => []LockHolder
<1>1. Typed /\ Done /\ Up /\ Handling /\ [Next]_vars => Handling'
  BY HandlingNext
<1>2. Init => Handling
  BY InitHandling
<1>3. Handling => LockHolder
  BY DEF Handling
<1> QED BY <1>1, <1>2, <1>3, RowsAndHands, ReleasedAreFinished, NothingToReap, PTL DEF Spec

\* While the server stays up, a deferred wake is never forgotten: a run of its issue is still
\* to be executed, or a handler is on its way to the release that promotes the wake; but for
\* a cancellation in the middle of a claim.
THEOREM DeferredNotForgotten == Spec => []DeferredHasReleaser
<1>1. /\ Typed /\ Done /\ Up /\ Handling /\ DeferredWatched /\ [Next]_vars
      => (Handling /\ DeferredWatched)'
  BY HandlingNext, DeferredWatchedNext DEF Handling
<1>2. Init => Handling /\ DeferredWatched
  BY InitHandling
<1>3. DeferredWatched => DeferredHasReleaser
  BY WatchedIsReleaser
<1> QED BY <1>1, <1>2, <1>3, RowsAndHands, ReleasedAreFinished, NothingToReap, PTL DEF Spec

-----------------------------------------------------------------------------
(***************************************************************************)
(* An issue that is left alone has one run.  Three handlers may queue the   *)
(* successor of a run: its retry, its request for a comment, its release.   *)
(* Each looks at the lock, and each but the last passes it on.  So at most  *)
(* one run of the issue is busy, and nobody else holds the lock (Undoubled). *)
(***************************************************************************)

\* On an execution path; or ended, and about to be replaced by a retry.
Busy(r) == Live(r) \/ exec[r].pc \in {"wake", "retry"}

\* The claim of the run is over: it has stamped the lock.
Started(r) ==
  \/ exec[r].pc # "none"
  \/ \E a \in Agents : starter[a].pc # "idle" /\ r \in starter[a].claimed

Ended == {"wake", "retry", "comment", "release"}

\* Before there is a wake there is nothing; a run is live until its handler writes its
\* outcome; the runs of an issue that are busy are one, and no other holds the lock.
NothingYet == events["wake"] = 0 => Used = {}
NothingDeferred == \A w \in Wakes : ~IsDeferred(w)
InHandsLive == \A r \in Used : InHands(r) => Live(r) \/ exec[r].pc \in Ended
OneBusy == \A p, q \in Used : Busy(p) /\ Busy(q) /\ run[p].issue = run[q].issue => p = q
Holds(p, held) == held \in {NoRun, p} /\ (Started(p) => held = p)
BusyHolds == \A p \in Used : Busy(p) => Holds(p, issue[run[p].issue].exec)
Undoubled == NothingYet /\ NothingDeferred /\ InHandsLive /\ OneBusy /\ BusyHolds
Alone == LeftAlone => Undoubled

\* What there is while everything is left alone.
Quiet ==
  /\ ServerUp /\ NoReaper /\ recon.pc = "none" /\ ~Stopping /\ sweep = {}
  /\ \A r \in Runs : cancel[r].pc # "none" => CancelledByClaim(r)

LEMMA AloneStep ==
  ASSUME Typed, Up, OnlyClaimsCancel, ReconCounted, [Next]_vars, LeftAlone'
  PROVE  LeftAlone /\ Quiet /\ UpStep
<1>1. ServerUp'
  BY DEF LeftAlone, ServerUp
<1>2. ServerUp /\ NoReaper /\ UpStep
  BY <1>1, UpSteps
<1>3. \A e \in Counted : events[e] \in Nat /\ events'[e] \in Nat /\ events[e] <= events'[e]
  BY <1>2, EventsGrow
<1>4. \A e \in {"reconcile", "cancel", "pause", "edit"} : e \in Counted /\ events'[e] = 0
  BY DEF LeftAlone, Counted
<1>5. \A e \in {"reconcile", "cancel", "pause", "edit"} : events[e] = 0
  BY <1>3, <1>4
<1>6. events["wake"] <= 1
  <2>1. events'["wake"] <= 1 /\ "wake" \in Counted
    BY DEF LeftAlone, Counted
  <2> QED BY <1>3, <2>1
<1>7. LeftAlone
  BY <1>2, <1>5, <1>6 DEF LeftAlone, ServerUp
<1>8. ~Stopping /\ recon.pc = "none"
  BY <1>5 DEF Stopping, ReconCounted
<1> QED BY <1>2, <1>7, <1>8 DEF Quiet, OnlyClaimsCancel

LEMMA TakingIdle ==
  ASSUME Typed, Idling, NEW a \in Agents, NEW r \in Runs, Taking(a, r)
  PROVE  exec[r].pc = "none"
<1>1. CASE r \in starter[a].claimed /\ starter[a].pc # "idle"
  BY <1>1 DEF Idling, ClaimedIdle
<1>2. CASE r = Claiming(a) /\ starter[a].pc # "idle"
  <2>1. Claiming(a) = starter[a].queue[1] /\ 1 \in 1 .. Len(starter[a].queue)
    <3>1. starter[a].queue \in Seq(Runs) /\ starter[a].queue # <<>>
      BY <1>2 DEF Typed, HandsOK, StartersOK, Starter
    <3> QED BY <1>2, <3>1, ClaimingIsUsed DEF Typed, HandsOK
  <2> QED BY <1>2, <2>1 DEF Idling, QueuesIdle
<1> QED BY <1>1, <1>2 DEF Taking, Taken

\* A run that a claim cancels is in nobody's hands.
LEMMA CancelledByClaimIdle ==
  ASSUME Typed, Idling, QueuesDistinct, NEW r \in Runs, CancelledByClaim(r)
  PROVE  ~InHands(r)
<1>1. PICK a \in Agents : starter[a].pc = "cancel" /\ Claiming(a) = r
  BY DEF CancelledByClaim
<1>2. /\ r \in UsedOf(a) /\ r = starter[a].queue[1] /\ 1 \in 1 .. Len(starter[a].queue)
  <2>1. starter[a].queue \in Seq(Runs) /\ starter[a].queue # <<>>
    BY <1>1 DEF Typed, HandsOK, StartersOK, Starter
  <2> QED BY <1>1, <2>1, ClaimingIsUsed DEF Typed, HandsOK
<1>3. exec[r].pc = "none"
  BY <1>1, <1>2 DEF Idling, QueuesIdle
<1>4. r \notin starter[a].claimed
  BY <1>1, <1>2 DEF QueuesDistinct, Distinct
<1>5. ASSUME NEW b \in Agents, Taking(b, r)
      PROVE  FALSE
  <2>1. r \in UsedOf(b)
    BY <1>5, ClaimingIsUsed DEF Taking, Taken, Typed, HandsOK, StartersOK
  <2>2. b = a
    BY <1>2, <2>1 DEF UsedOf
  <2> QED BY <1>1, <1>4, <1>5, <2>2 DEF Taking, Taken
<1> QED BY <1>3, <1>5 DEF InHands

LEMMA InHandsLiveNext ==
  ASSUME Typed, Done, Idling, QueuesDistinct, Quiet, UpStep, [Next]_vars, InHandsLive
  PROVE  InHandsLive'
<1> SUFFICES ASSUME NEW r \in Used', InHands(r)'
             PROVE  Live(r)' \/ exec'[r].pc \in Ended
  BY DEF InHandsLive
<1>0. r \in Runs
  BY DEF Used
<1>1. CASE \E a \in Agents : StarterStep(a) /\ starter[a].pc = "cas"
                             /\ starter'[a].pc = "wake" /\ r = Claiming(a)
  BY <1>1, StarterStepMoves DEF OnlyBecomes, Live, ExecutionPath
<1>2. CASE InHands(r) /\ r \in Used
  <2>1. CASE exec[r].pc \in Ended
    <3>1. \A a \in Agents : ~Taking(a, r)
      BY <1>0, <2>1, TakingIdle DEF Ended
    <3>2. CASE exec'[r] = exec[r]
      BY <2>1, <3>2
    <3>3. ASSUME NEW q \in Runs, ExecStep(q)
          PROVE  exec'[r].pc \in Ended
      <4>1. starter' = starter /\ <<exec[q].pc, exec'[q].pc>> \in ExecMoves
            /\ \A p \in Runs \ {q} : exec'[p] = exec[p]
        BY <3>3, ExecStepMoves
      <4>2. \A a \in Agents : ~Taking(a, r)'
        BY <3>1, <4>1 DEF Taking, Taken, Claiming
      <4>3. exec'[r].pc # "none"
        BY <4>2 DEF InHands
      <4> QED BY <1>0, <2>1, <4>1, <4>3 DEF ExecMoves, Ended
    <3>4. ASSUME NEW a \in Agents, StarterStep(a)
          PROVE  exec'[r] = exec[r]
      <4>1. \/ exec'[r] = exec[r]
            \/ r \in starter[a].claimed
            \/ starter[a].pc = "stamp" /\ r = Claiming(a)
        BY <1>0, <3>4, StarterStepMoves, StarterExecs
      <4>2. starter[a].pc # "idle" \/ exec' = exec
        BY <3>4, StarterStepMoves DEF StarterMoves
      <4> QED BY <3>1, <4>1, <4>2 DEF Taking, Taken
    <3>5. CASE (\E q \in Runs : CancelStep(q)) \/ OtherStep
      <4>1. exec' = exec
        BY <3>5, CancelStepMoves, OtherStepMoves
      <4> QED BY <3>2, <4>1
    <3> QED BY <3>2, <3>3, <3>4, <3>5 DEF UpStep
  <2>2. CASE Live(r) /\ run'[r].status \notin Terminal
    <3>1. run'[r].status \in ExecutionPath
      BY <1>2, <2>2, StatusMoves DEF Live, Terminal, ExecutionPath
    <3> QED BY <3>1 DEF Live
  <2>3. CASE Live(r) /\ run'[r].status \in Terminal
    <3>0. ~StatusesKept
      BY <1>2, <2>3 DEF StatusesKept, Live, Terminal, ExecutionPath
    <3>1. ASSUME NEW a \in Agents, StarterStep(a)
          PROVE  FALSE
      <4>1. /\ Used' = Used
            /\ starter[a].pc = "cas" /\ starter'[a].pc = "wake" => OnlyBecomes(Claiming(a), "running")
            /\ ~(starter[a].pc = "cas" /\ starter'[a].pc = "wake") => StatusesKept
        BY <3>1, StarterStepMoves
      <4>2. OnlyBecomes(Claiming(a), "running")
        BY <3>0, <4>1
      <4> QED BY <1>2, <2>3, <4>2 DEF OnlyBecomes, Live, Terminal, ExecutionPath
    <3>2. ASSUME NEW q \in Runs, ExecStep(q)
          PROVE  exec'[r].pc \in Ended
      <4>1. /\ <<exec[q].pc, exec'[q].pc>> \in ExecMoves
            /\ exec[q].pc # "persist" => StatusesKept
            /\ exec[q].pc = "persist" => \E s \in Terminal : OnlyBecomes(q, s)
        BY <3>2, ExecStepMoves
      <4>2. exec[q].pc = "persist" /\ exec'[q].pc = "wake" /\ \E s \in Terminal : OnlyBecomes(q, s)
        BY <3>0, <4>1 DEF ExecMoves
      <4>3. r = q
        BY <1>2, <2>3, <4>2 DEF OnlyBecomes, Live, Terminal, ExecutionPath
      <4> QED BY <4>2, <4>3 DEF Ended
    <3>3. ASSUME NEW q \in Runs, CancelStep(q)
          PROVE  FALSE
      <4>1. cancel[q].pc = "status" /\ OnlyBecomes(q, "cancelled")
        BY <3>0, <3>3, CancelStepMoves
      <4>2. r = q
        BY <1>2, <2>3, <4>1 DEF OnlyBecomes, Live, Terminal, ExecutionPath
      <4>3. CancelledByClaim(r)
        BY <3>3, <4>1, <4>2 DEF Quiet
      <4> QED BY <1>0, <1>2, <4>3, CancelledByClaimIdle
    <3>4. CASE OtherStep
      <4>1. PICK q \in Used : run[q].status = "scheduled_retry" /\ OnlyBecomes(q, "queued")
        BY <3>0, <3>4, OtherStepMoves
      <4> QED BY <1>2, <2>3, <4>1 DEF OnlyBecomes, Live, Terminal, ExecutionPath
    <3> QED BY <3>1, <3>2, <3>3, <3>4 DEF UpStep
  <2>4. Live(r) \/ exec[r].pc \in Ended
    BY <1>2 DEF InHandsLive
  <2> QED BY <2>1, <2>2, <2>3, <2>4
<1> QED BY <1>1, <1>2, InHandsMoves

\* No run that is there becomes busy again.
LEMMA BusyStays ==
  ASSUME Typed, Quiet, UpStep, [Next]_vars, InHandsLive, NEW r \in Used, Busy(r)'
  PROVE  Busy(r)
<1>0. r \in Runs
  BY DEF Used
<1>1. CASE Live(r)'
  <2>1. run'[r].status \in ExecutionPath
    BY <1>1 DEF Live
  <2>2. reaper.list = {}
    BY DEF Quiet, NoReaper
  <2> QED BY <2>1, <2>2, StatusMoves DEF Busy, Live, Terminal, ExecutionPath
<1>2. CASE exec'[r].pc \in {"wake", "retry"}
  <2>1. CASE exec'[r] = exec[r]
    BY <1>2, <2>1 DEF Busy
  <2>2. ASSUME NEW q \in Runs, ExecStep(q)
        PROVE  Busy(r)
    <3>1. <<exec[q].pc, exec'[q].pc>> \in ExecMoves
          /\ \A p \in Runs \ {q} : exec'[p] = exec[p]
      BY <2>2, ExecStepMoves
    <3>2. exec[r].pc \in {"persist", "wake", "retry"}
      BY <1>0, <1>2, <3>1 DEF ExecMoves
    <3>3. exec[r].pc = "persist" => Live(r)
      <4>1. exec[r].pc = "persist" => InHands(r) /\ exec[r].pc \notin Ended
        BY DEF InHands, Ended
      <4> QED BY <4>1 DEF InHandsLive
    <3> QED BY <3>2, <3>3 DEF Busy
  <2>3. ASSUME NEW a \in Agents, StarterStep(a)
        PROVE  exec'[r] = exec[r]
    BY <1>0, <1>2, <2>3, StarterStepMoves, StarterExecs
  <2>4. CASE (\E q \in Runs : CancelStep(q)) \/ OtherStep
    <3>1. exec' = exec
      BY <2>4, CancelStepMoves, OtherStepMoves
    <3> QED BY <2>1, <3>1
  <2> QED BY <2>1, <2>2, <2>3, <2>4 DEF UpStep
<1> QED BY <1>1, <1>2 DEF Busy

\* No run that is there becomes busy, or has its claim end, in the step.
Fading == \A p \in Used : (Busy(p)' => Busy(p)) /\ (Started(p)' => Started(p))

\* A run of issue i that has no other busy run is inserted.
Engages(i) ==
  \E new \in Runs \ Used :
    /\ Used' = Used \cup {new} /\ run'[new].issue = i /\ issue'[i].exec \in {NoRun, new}
    /\ \A j \in Issues \ {i} : issue'[j] = issue[j]
    /\ \A p \in Used : run[p].issue = i => ~Busy(p)'

\* Nothing, or one busy run of an issue that has no other.
OnlyEngages == (Used' = Used \/ \E i \in Issues : Engages(i)) /\ BusyHolds'

LEMMA HoldsNext ==
  ASSUME RowsOK, RunsKept, Fading, BusyHolds, NEW p \in Used, Busy(p)',
         issue'[run[p].issue].exec \in {NoRun, issue[run[p].issue].exec},
         Started(p)' => issue'[run[p].issue].exec = issue[run[p].issue].exec
  PROVE  Holds(p, issue[run[p].issue].exec)'
<1>1. Busy(p) /\ (Started(p)' => Started(p)) /\ run'[p].issue = run[p].issue
  BY DEF Fading, RunsKept
<1>2. Holds(p, issue[run[p].issue].exec)
  BY <1>1 DEF BusyHolds
<1> QED BY <1>1, <1>2 DEF Holds

LEMMA LocksSame ==
  ASSUME RowsOK, RunsKept, Fading, BusyHolds, Used' = Used, UNCHANGED issue
  PROVE  OnlyEngages
<1>1. ASSUME NEW p \in Used, Busy(p)'
      PROVE  Holds(p, issue[run[p].issue].exec)'
  BY <1>1, HoldsNext
<1> QED BY <1>1 DEF OnlyEngages, BusyHolds

LEMMA NewNotStarted ==
  ASSUME Typed, [Next]_vars, NEW r \in Used' \ Used
  PROVE  ~Started(r)'
<1>1. ~InHands(r)'
  <2>1. \A a \in Agents : starter[a].pc = "cas" => Claiming(a) \in Used
    BY ClaimingIsUsed DEF Typed, HandsOK
  <2> QED BY <2>1, InHandsMoves
<1> QED BY <1>1 DEF Started, InHands, Taking, Taken

LEMMA EngagesHolds ==
  ASSUME Typed, [Next]_vars, RunsKept, Fading, BusyHolds, NEW i \in Issues, Engages(i)
  PROVE  OnlyEngages
<1>1. PICK new \in Runs \ Used :
         /\ Used' = Used \cup {new} /\ run'[new].issue = i /\ issue'[i].exec \in {NoRun, new}
         /\ \A j \in Issues \ {i} : issue'[j] = issue[j]
         /\ \A p \in Used : run[p].issue = i => ~Busy(p)'
  BY DEF Engages
<1>2. ASSUME NEW p \in Used', Busy(p)'
      PROVE  Holds(p, issue[run[p].issue].exec)'
  <2>1. CASE p = new
    <3>1. ~Started(p)'
      BY <1>1, <2>1, NewNotStarted
    <3> QED BY <1>1, <2>1, <3>1 DEF Holds
  <2>2. CASE p \in Used
    <3>1. run[p].issue \in Issues \ {i}
      BY <1>1, <1>2, <2>2, UsedRun DEF Typed, RowsOK, RunRow
    <3>2. issue'[run[p].issue].exec = issue[run[p].issue].exec
      BY <1>1, <3>1
    <3> QED BY <1>2, <2>2, <3>2, HoldsNext DEF Typed
  <2> QED BY <1>1, <2>1, <2>2
<1> QED BY <1>2 DEF OnlyEngages, BusyHolds

LEMMA OneBusyNext ==
  ASSUME Typed, RunsKept, \A p \in Used : Busy(p)' => Busy(p), OneBusy, OnlyEngages
  PROVE  OneBusy'
<1>1. ASSUME NEW p \in Used, NEW q \in Used, Busy(p)', Busy(q)', run'[p].issue = run'[q].issue
      PROVE  p = q
  <2>1. Busy(p) /\ Busy(q) /\ run[p].issue = run[q].issue
    BY <1>1 DEF RunsKept
  <2> QED BY <2>1 DEF OneBusy
<1>2. CASE Used' = Used
  BY <1>1, <1>2 DEF OneBusy
<1>3. ASSUME NEW i \in Issues, Engages(i)
      PROVE  OneBusy'
  <2>1. PICK new \in Runs \ Used :
          /\ Used' = Used \cup {new} /\ run'[new].issue = i
          /\ \A p \in Used : run[p].issue = i => ~Busy(p)'
    BY <1>3 DEF Engages
  <2>2. \A p \in Used : run'[p].issue = run[p].issue
    BY DEF RunsKept
  <2>3. ASSUME NEW p \in Used', NEW q \in Used', Busy(p)', Busy(q)', run'[p].issue = run'[q].issue
        PROVE  p = q
    BY <1>1, <2>1, <2>2, <2>3
  <2> QED BY <2>3 DEF OneBusy
<1> QED BY <1>2, <1>3 DEF OnlyEngages

LEMMA StartedMoves ==
  ASSUME Typed, UpStep, NEW p \in Used, Started(p)'
  PROVE  \/ Started(p)
         \/ \E a \in Agents : starter[a].pc = "stamp" /\ starter'[a] # starter[a] /\ p = Claiming(a)
<1>0. p \in Runs
  BY DEF Used
<1>1. CASE UNCHANGED <<starter, exec>>
  BY <1>1 DEF Started
<1>2. ASSUME NEW r \in Runs, ExecStep(r)
      PROVE  Started(p)
  <2>1. /\ starter' = starter /\ exec[r].pc # "none"
        /\ \A q \in Runs \ {r} : exec'[q] = exec[q]
    BY <1>2, ExecStepMoves
  <2> QED BY <1>0, <2>1 DEF Started
<1>3. ASSUME NEW a \in Agents, StarterStep(a), ~(starter[a].pc = "stamp" /\ p = Claiming(a))
      PROVE  Started(p)
  <2>1. /\ StarterMoves(a) /\ \A b \in Agents \ {a} : starter'[b] = starter[b]
    BY <1>3, StarterStepMoves
  <2>2. CASE exec'[p].pc # "none"
    <3>1. exec'[p] = exec[p] \/ p \in starter[a].claimed
      BY <1>0, <1>3, <2>1, StarterExecs
    <3>2. starter[a].pc # "idle" \/ exec' = exec
      BY <2>1 DEF StarterMoves
    <3> QED BY <2>2, <3>1, <3>2 DEF Started
  <2>3. ASSUME NEW b \in Agents, starter'[b].pc # "idle", p \in starter'[b].claimed
        PROVE  Started(p)
    <3>1. CASE starter'[b] = starter[b]
      BY <2>3, <3>1 DEF Started
    <3>2. CASE b = a
      <4>1. starter[a].pc # "idle" \/ starter' = starter \/ starter'[a].claimed = {}
        BY <2>1 DEF StarterMoves
      <4>2. starter[a].pc # "idle" \/ starter' = starter
        BY <2>3, <3>2, <4>1
      <4>3. \/ starter'[a].claimed = starter[a].claimed
            \/ starter[a].pc = "idle"
            \/ GoesOn(a, starter[a].claimed)
            \/ starter[a].pc = "stamp" /\ GoesOn(a, starter[a].claimed \cup {Claiming(a)})
        BY <2>1 DEF StarterMoves
      <4>4. ASSUME NEW c, GoesOn(a, c)
            PROVE  starter'[a].claimed \subseteq c
        BY <4>4, IdleIsStarter DEF GoesOn
      <4>5. p \in starter[a].claimed \/ starter[a].pc = "idle" \/ (starter[a].pc = "stamp" /\ p = Claiming(a))
        BY <2>3, <3>2, <4>3, <4>4
      <4> QED BY <1>3, <2>3, <3>2, <4>2, <4>5 DEF Started
    <3> QED BY <2>1, <3>1, <3>2
  <2> QED BY <2>2, <2>3 DEF Started
<1>4. CASE (\E r \in Runs : CancelStep(r)) \/ OtherStep
  BY <1>1, <1>4, CancelStepMoves, OtherStepMoves
<1>5. ASSUME NEW a \in Agents, StarterStep(a), starter[a].pc = "stamp" /\ p = Claiming(a)
      PROVE  Started(p) \/ starter'[a] # starter[a]
  <2>1. UNCHANGED <<starter, exec>> \/ GoesOn(a, starter[a].claimed \cup {Claiming(a)})
    <3>1. StarterMoves(a)
      BY <1>5, StarterStepMoves
    <3> QED BY <1>5, <3>1 DEF StarterMoves
  <2>2. ASSUME NEW c, GoesOn(a, c)
        PROVE  starter'[a] # starter[a]
    BY <1>5, <2>2, GoesOnTo
  <2> QED BY <1>1, <2>1, <2>2
<1> QED BY <1>2, <1>3, <1>4, <1>5 DEF UpStep

\* What executeRun does to the rows of runs and issues.
LEMMA ExecRows ==
  ASSUME Typed, NEW r \in Runs, ExecStep(r), NEW i \in Issues, i = run[r].issue
  PROVE  \/ Used' = Used /\ UNCHANGED issue
         \/ /\ exec[r].pc = "checkout" /\ Used' = Used
            /\ issue' = [issue EXCEPT ![i] = AutoCheckedOut(r)]
         \/ exec[r].pc = "retry" /\ exec'[r].pc = "comment" /\ InsertRetry(r, TransientRetry(r))
         \/ exec[r].pc = "comment" /\ issue[i].exec = r /\ InsertRetry(r, CommentRetry(r))
         \/ exec[r].pc = "release" /\ exec'[r].pc = "none" /\ \E seen, also : Release(r, seen, also)
<1>0. /\ exec \in [Runs -> Exec] /\ r \in Used
      /\ exec[r].pc # "persist" \/ Used' = Used
  BY ExecStepMoves DEF Typed, HandsOK, ExecsOK, OnlyBecomes
<1>1. CASE UNCHANGED <<run, issue>>
  BY <1>1 DEF Used
<1>2. CASE ExecCheckout(r)
  BY <1>2 DEF ExecCheckout, Used
<1>3. CASE ExecSpawn(r)
  <2> DEFINE row == [run[r] EXCEPT !.pid = TRUE]
  <2>1. run[r] \in RunRow /\ RowsOK
    BY <1>0, UsedRun DEF Typed, RowsOK
  <2>2. row \in RunRow /\ row.agent = run[r].agent /\ row.issue = run[r].issue /\ row.wake = run[r].wake
    BY <2>1 DEF RunRow
  <2>3. run' = [run EXCEPT ![r] = row] /\ UNCHANGED <<wake, issue>>
    BY <1>3 DEF ExecSpawn
  <2> HIDE DEF row
  <2> QED BY <1>0, <2>1, <2>2, <2>3, RunWritten
<1>4. CASE ExecPersist(r)
  BY <1>0, <1>4 DEF ExecPersist
<1>5. CASE ExecRetry(r)
  <2>1. exec'[r].pc = "comment" /\ exec[r].pc = "retry"
    BY <1>0, <1>5 DEF ExecRetry, Exec
  <2>2. InsertRetry(r, TransientRetry(r)) \/ UNCHANGED <<run, issue>>
    BY <1>5 DEF ExecRetry, TransientRetry
  <2> QED BY <1>1, <2>1, <2>2
<1>6. CASE ExecComment(r)
  <2>1. \/ InsertRetry(r, CommentRetry(r)) /\ issue[run[r].issue].exec = r /\ exec[r].pc = "comment"
        \/ UNCHANGED <<run, issue>>
    BY <1>6 DEF ExecComment, CommentRetry, OwesComment
  <2> QED BY <1>1, <2>1
<1>7. CASE ExecRelease(r)
  <2>1. exec'[r].pc = "none"
    BY <1>0, <1>7 DEF ExecRelease, NotExecuting
  <2> QED BY <1>7, <2>1 DEF ExecRelease
<1>8. \/ UNCHANGED <<run, issue>> \/ ExecCheckout(r) \/ ExecSpawn(r) \/ ExecPersist(r)
      \/ ExecRetry(r) \/ ExecComment(r) \/ ExecRelease(r)
  BY DEF ExecStep, ExecBegin, ExecReturn, ExecThrow, ExecWake
<1> QED BY <1>1, <1>2, <1>3, <1>4, <1>5, <1>6, <1>7, <1>8

\* Without a deferred wake a release only has a run follow when no other run is live.
LEMMA ReleaseHires ==
  ASSUME RowsOK, NEW r \in Used, NEW i \in Issues, i = run[r].issue, Deferred(i) = {},
         NEW seen, NEW also, Release(r, seen, also)
  PROVE  \/ ~MayRelease(r) /\ UNCHANGED <<run, wake, issue>>
         \/ MayRelease(r) /\ run' = run /\ issue'[i].exec = NoRun
         \/ MayRelease(r) /\ Hires(i, TRUE) /\ LiveRunsOf(i) \ {r} = {}
<1>1. Released(r, i)
  BY ReleaseMoves
<1>2. ~ReleasePromote(r, also)
  BY DEF ReleasePromote, Promotable
<1>3. \/ run' = run
      \/ LiveRunsOf(i) \ {r} = {}
  BY <1>2 DEF Release, ReleaseBlock, ReleaseRecover, ReleaseOnly, NeedsRecovery
<1>4. Hires(i, TRUE) => run' # run
  BY DEF Hires, Used
<1> QED BY <1>1, <1>3, <1>4 DEF Released

LEMMA ReleaseAlone ==
  ASSUME Typed, [Next]_vars, RunsKept, Fading, BusyHolds, NothingDeferred,
         NEW r \in Used, ~Busy(r)', NEW seen, NEW also, Release(r, seen, also)
  PROVE  OnlyEngages
<1>0. PICK i \in Issues : i = run[r].issue
  BY UsedRun DEF Typed, RowsOK, RunRow
<1>1. RowsOK /\ OnlyLocks(i) /\ NoRun \notin Runs
  BY <1>0, ReleaseMoves, RunsAreNumbers DEF Typed
<1>2. Deferred(i) = {}
  BY DEF NothingDeferred, Deferred, IsDeferred
<1>3. \/ ~MayRelease(r) /\ UNCHANGED <<run, wake, issue>>
      \/ MayRelease(r) /\ run' = run /\ issue'[i].exec = NoRun
      \/ MayRelease(r) /\ Hires(i, TRUE) /\ LiveRunsOf(i) \ {r} = {}
  BY <1>0, <1>1, <1>2, ReleaseHires
<1>4. ASSUME MayRelease(r), NEW p \in Used, run[p].issue = i, Busy(p)'
      PROVE  ~Started(p) /\ Busy(p) /\ p # r
  <2>1. Holds(p, issue[i].exec) /\ Busy(p) /\ p # r
    BY <1>4 DEF Fading, BusyHolds
  <2>2. issue[i].exec # p
    BY <1>0, <1>1, <1>4, <2>1 DEF MayRelease, Used
  <2> QED BY <2>1, <2>2 DEF Holds
<1>5. CASE ~MayRelease(r) /\ UNCHANGED <<run, wake, issue>>
  BY <1>1, <1>5, LocksSame DEF Used
<1>6. CASE MayRelease(r) /\ run' = run /\ issue'[i].exec = NoRun
  <2>1. ASSUME NEW p \in Used, Busy(p)'
        PROVE  Holds(p, issue[run[p].issue].exec)'
    <3>1. CASE run[p].issue = i
      <4>1. ~Started(p)'
        BY <1>4, <1>6, <2>1, <3>1 DEF Fading
      <4> QED BY <1>6, <3>1, <4>1 DEF Holds
    <3>2. CASE run[p].issue # i
      <4>1. issue'[run[p].issue] = issue[run[p].issue]
        BY <1>1, <3>2, UsedRun DEF OnlyLocks, RowsOK, RunRow
      <4> QED BY <1>1, <2>1, <4>1, HoldsNext
    <3> QED BY <3>1, <3>2
  <2> QED BY <1>6, <2>1 DEF OnlyEngages, BusyHolds, Used
<1>7. CASE MayRelease(r) /\ Hires(i, TRUE) /\ LiveRunsOf(i) \ {r} = {}
  <2>1. ASSUME NEW p \in Used, run[p].issue = i, Busy(p)'
        PROVE  FALSE
    <3>1. ~Started(p) /\ Busy(p) /\ p # r
      BY <1>4, <1>7, <2>1
    <3>2. Live(p)
      BY <3>1 DEF Busy, Started
    <3> QED BY <1>7, <2>1, <3>1, <3>2 DEF LiveRunsOf, RunsOf, Used
  <2>2. Engages(i)
    BY <1>1, <1>7, <2>1 DEF Engages, Hires, OnlyLocks
  <2> QED BY <2>2, EngagesHolds
<1> QED BY <1>3, <1>5, <1>6, <1>7

LEMMA RetryAlone ==
  ASSUME Typed, [Next]_vars, RunsKept, Fading, BusyHolds,
         NEW r \in Used, NEW row \in {TransientRetry(r), CommentRetry(r)}, InsertRetry(r, row),
         issue[run[r].issue].exec = r,
         \A p \in Used : run[p].issue = run[r].issue => ~Busy(p)'
  PROVE  OnlyEngages
<1>0. PICK i \in Issues : i = run[r].issue
  BY UsedRun DEF Typed, RowsOK, RunRow
<1>1. row \in RetryRow /\ row.issue = run[r].issue
  BY RetriesTyped DEF Typed, RowsOK
<1>2. OnlyLock(i) /\ Hires(i, TRUE)
  <2>1. OnlyLock(i) /\ Hires(i, issue[i].exec = r)
    BY <1>0, <1>1, InsertRetryMoves DEF Typed
  <2> QED BY <1>0, <2>1 DEF Hires
<1>3. Engages(i)
  BY <1>0, <1>2 DEF Engages, Hires, OnlyLock
<1> QED BY <1>3, EngagesHolds

LEMMA ExecAlone ==
  ASSUME Typed, Done, [Next]_vars, Quiet, Fading, Undoubled, NEW r \in Runs, ExecStep(r)
  PROVE  OnlyEngages
<1>0. /\ r \in Used /\ exec[r].pc # "none" /\ RowsOK
      /\ RunsKept /\ (exec[r].pc # "persist" => StatusesKept)
      /\ BusyHolds /\ OneBusy /\ InHandsLive /\ NothingDeferred
  BY ExecStepMoves DEF Typed, Undoubled
<1>1. PICK i \in Issues : i = run[r].issue
  BY <1>0, UsedRun DEF RowsOK, RunRow
<1>2. Started(r) /\ InHands(r)
  BY <1>0 DEF Started, InHands
<1>3. Busy(r) => issue[i].exec = r
  BY <1>0, <1>1, <1>2 DEF BusyHolds, Holds
<1>4. exec[r].pc \in {"retry", "comment", "release"} => Dead(r) /\ Dead(r)'
  BY <1>0 DEF Done, ExecDone, Finished, Quiet, NoReaper, StatusesKept, Dead
<1>5. Dead(r) => ~Live(r)
  BY DEF Dead, Live, Terminal, ExecutionPath
<1>6. Dead(r)' => ~Live(r)'
  BY DEF Dead, Live, Terminal, ExecutionPath
<1>7. CASE Used' = Used /\ UNCHANGED issue
  BY <1>0, <1>7, LocksSame
<1>8. CASE exec[r].pc = "checkout" /\ Used' = Used
           /\ issue' = [issue EXCEPT ![i] = AutoCheckedOut(r)]
  <2> DEFINE row == AutoCheckedOut(r)
  <2>1. \/ row.exec = r
        \/ row.exec = issue[i].exec
        \/ row.exec = NoRun /\ Dead(issue[i].exec)
    BY <1>0, <1>1, AutoCheckedOutRow
  <2> HIDE DEF row
  <2>2. Live(r)
    BY <1>0, <1>2, <1>8 DEF InHandsLive, Ended
  <2>3. issue[i].exec = r /\ Busy(r)
    BY <1>3, <2>2 DEF Busy
  <2>4. row.exec = issue[i].exec
    BY <1>5, <2>1, <2>2, <2>3
  <2>5. \A j \in Issues : issue'[j].exec = issue[j].exec
    <3>1. issue' = [issue EXCEPT ![i] = row]
      BY <1>8 DEF row
    <3>2. \A j \in Issues : issue'[j] = IF j = i THEN row ELSE issue[j]
      BY <1>0, <3>1 DEF RowsOK, RowsTyped
    <3> QED BY <2>4, <3>2
  <2>6. ASSUME NEW p \in Used, Busy(p)'
        PROVE  Holds(p, issue[run[p].issue].exec)'
    <3>1. run[p].issue \in Issues
      BY <1>0, UsedRun DEF RowsOK, RunRow
    <3> QED BY <1>0, <2>5, <2>6, <3>1, HoldsNext
  <2> QED BY <1>8, <2>6 DEF OnlyEngages, BusyHolds
<1>9. CASE exec[r].pc = "retry" /\ exec'[r].pc = "comment" /\ InsertRetry(r, TransientRetry(r))
  <2>1. Busy(r) /\ ~Busy(r)'
    BY <1>4, <1>6, <1>9 DEF Busy
  <2>2. \A p \in Used : run[p].issue = run[r].issue => ~Busy(p)'
    BY <1>0, <2>1 DEF OneBusy, Fading
  <2> QED BY <1>0, <1>1, <1>3, <1>9, <2>1, <2>2, RetryAlone
<1>10. CASE exec[r].pc = "comment" /\ issue[i].exec = r /\ InsertRetry(r, CommentRetry(r))
  <2>1. ~Busy(r)
    BY <1>4, <1>5, <1>10 DEF Busy
  <2>2. \A p \in Used : run[p].issue = run[r].issue => ~Busy(p)'
    <3>1. r # NoRun
      BY RunsAreNumbers
    <3> QED BY <1>0, <1>1, <1>10, <2>1, <3>1 DEF BusyHolds, Holds, Fading
  <2> QED BY <1>0, <1>1, <1>10, <2>2, RetryAlone
<1>11. CASE exec[r].pc = "release" /\ exec'[r].pc = "none" /\ \E seen, also : Release(r, seen, also)
  <2>1. ~Busy(r)'
    BY <1>4, <1>6, <1>11 DEF Busy
  <2> QED BY <1>0, <1>11, <2>1, ReleaseAlone
<1> QED BY <1>1, <1>7, <1>8, <1>9, <1>10, <1>11, ExecRows

LEMMA StarterAlone ==
  ASSUME Typed, [Next]_vars, UpStep, LeftAlone, Quiet, ClaimingLive, Undoubled,
         \A p \in Used : Busy(p)' => Busy(p), NEW a \in Agents, StarterStep(a)
  PROVE  OnlyEngages
<1>0. /\ RowsOK /\ RunsKept /\ Used' = Used /\ NoRun \notin Runs
      /\ BusyHolds /\ OneBusy
  BY StarterStepMoves, RunsAreNumbers DEF Typed, Undoubled
<1>1. CASE UNCHANGED issue /\ starter[a].pc # "stamp"
  <2>1. \A b \in Agents : starter'[b] # starter[b] => b = a
    BY StarterStepMoves
  <2>2. Fading
    BY <1>1, <2>1, StartedMoves DEF Fading
  <2> QED BY <1>0, <1>1, <2>2, LocksSame
<1>2. CASE ClaimStamp(a)
  <2>1. PICK r \in Used : r = Claiming(a)
    BY <1>2, ClaimingIsUsed DEF ClaimStamp, Typed, HandsOK
  <2>2. PICK i \in Issues : i = run[r].issue
    BY <1>0, UsedRun DEF RowsOK, RunRow
  <2>3. Busy(r)
    BY <1>2, <2>1 DEF ClaimingLive, ClaimStamp, Quiet, Busy
  <2>4. issue[i].exec \in {NoRun, r}
    BY <1>0, <2>2, <2>3 DEF BusyHolds, Holds
  <2>5. issue'[i].exec = r /\ \A j \in Issues \ {i} : issue'[j] = issue[j]
    <3>1. issue' = [issue EXCEPT ![i] = LockedBy(issue[i], r, a)]
      BY <1>2, <2>1, <2>2, <2>4 DEF ClaimStamp
    <3>2. issue \in [Issues -> Row]
      BY <1>0 DEF RowsOK, RowsTyped
    <3>3. issue'[i] = LockedBy(issue[i], r, a) /\ \A j \in Issues \ {i} : issue'[j] = issue[j]
      BY <3>1, <3>2
    <3> QED BY <2>1, <3>2, <3>3, LockedRow DEF Used
  <2>6. ASSUME NEW p \in Used, Busy(p)'
        PROVE  Holds(p, issue[run[p].issue].exec)'
    <3>1. run'[p].issue = run[p].issue /\ Busy(p) /\ run[p].issue \in Issues
      BY <1>0, <2>6, UsedRun DEF RunsKept, RowsOK, RunRow
    <3>2. CASE run[p].issue = i
      <4>1. p = r
        BY <1>0, <2>2, <2>3, <3>1, <3>2 DEF OneBusy
      <4> QED BY <2>5, <3>1, <3>2, <4>1 DEF Holds
    <3>3. CASE run[p].issue # i
      <4>1. p # r /\ issue'[run[p].issue].exec = issue[run[p].issue].exec
        BY <2>2, <2>5, <3>1, <3>3
      <4>2. Started(p)' => Started(p)
        <5>1. \A b \in Agents : starter'[b] # starter[b] => b = a
          BY StarterStepMoves
        <5> QED BY <2>1, <4>1, <5>1, StartedMoves
      <4>3. Holds(p, issue[run[p].issue].exec)
        BY <1>0, <3>1 DEF BusyHolds
      <4> QED BY <3>1, <4>1, <4>2, <4>3 DEF Holds
    <3> QED BY <3>2, <3>3
  <2> QED BY <1>0, <2>6 DEF OnlyEngages, BusyHolds
<1> QED BY <1>1, <1>2 DEF StarterStep, StartBegin, ClaimCheck, ClaimCas, ClaimWake

LEMMA CancelAlone ==
  ASSUME Typed, Done, Idling, QueuesDistinct, [Next]_vars, Quiet, Fading, Undoubled,
         NEW r \in Runs, CancelStep(r)
  PROVE  OnlyEngages
<1>0. /\ r \in Used /\ RowsOK /\ RunsKept /\ BusyHolds /\ NothingDeferred
      /\ UNCHANGED exec /\ (cancel[r].pc # "status" => StatusesKept)
      /\ cancel[r].pc = "status" => Used' = Used
      /\ cancel[r].pc # "none"
  BY CancelStepMoves DEF Typed, Undoubled, Quiet, OnlyBecomes
<1>1. CASE UNCHANGED issue /\ Used' = Used
  BY <1>0, <1>1, LocksSame
<1>2. CASE CancelRelease(r)
  <2>1. Dead(r) /\ Dead(r)'
    BY <1>0, <1>2 DEF CancelRelease, Done, CancelDone, Finished, Quiet, NoReaper, StatusesKept, Dead
  <2>2. exec[r].pc = "none"
    BY <1>0, CancelledByClaimIdle DEF Quiet, InHands
  <2>3. ~Busy(r)'
    BY <1>0, <2>1, <2>2 DEF Busy, Dead, Live, Terminal, ExecutionPath
  <2> QED BY <1>0, <1>2, <2>3, ReleaseAlone DEF CancelRelease
<1> QED BY <1>0, <1>1, <1>2 DEF CancelStep, SweepNext, CancelKill, CancelStatus, CancelWake, Used

\* The only wake.
LEMMA OtherAlone ==
  ASSUME Typed, [Next]_vars, LeftAlone, LeftAlone', Quiet, Fading, Undoubled, OtherStep
  PROVE  /\ OnlyEngages
         /\ Used' = Used \/ events'["wake"] > 0
<1>0. /\ RowsOK /\ RunsKept /\ BusyHolds /\ NothingYet /\ EnvironmentOK /\ ReconOK
  BY OtherStepMoves DEF Typed, HandsOK, Undoubled
<1>1. CASE UNCHANGED <<run, issue>>
  BY <1>0, <1>1, LocksSame DEF Used
<1>2. ASSUME NEW r \in Runs, PromoteScheduled(r)
      PROVE  OnlyEngages /\ Used' = Used
  <2>1. r \in Used /\ "queued" \in RunStatuses /\ UNCHANGED <<wake, issue>>
        /\ run' = [run EXCEPT ![r].status = "queued"]
    BY <1>2 DEF PromoteScheduled, Used, NoRow, RunStatuses, ExecutionPath
  <2>2. Used' = Used
    BY <1>0, <2>1, StatusWritten
  <2> QED BY <1>0, <2>1, <2>2, LocksSame
<1>3. ASSUME NEW a \in Agents, NEW i \in Issues, NEW comment \in CommentWakes,
             WakeAgent(a, i, comment)
      PROVE  OnlyEngages /\ events'["wake"] > 0
  <2>1. /\ Enqueue(a, i, comment, "none") /\ comment \in BOOLEAN /\ "none" \in RetryReasons
        /\ Event("wake") /\ "wake" \in EventKinds
    BY <1>3, RunExecutionAssumption DEF WakeAgent, RetryReasons, EventKinds
  <2>2. events'["wake"] = events["wake"] + 1 /\ events["wake"] \in Nat /\ events'["wake"] <= 1
    BY <1>0, <2>1, EventTyped DEF LeftAlone, EnvironmentOK
  <2>3. Used = {} /\ Asking
    BY <1>0, <2>2 DEF NothingYet, Asking
  <2>4. ActiveRun(i) = NoRun
    BY <1>0, <2>3, ActiveRunIsLive DEF LiveRunsOf, RunsOf, Used
  <2>5. OnlyLock(i) /\ issue'[i].exec = NoRun /\ (Used' = Used \/ Hires(i, FALSE))
    BY <1>0, <2>1, <2>3, <2>4, EnqueueMoves
  <2>6. CASE Used' = Used
    BY <2>2, <2>3, <2>6 DEF OnlyEngages, BusyHolds
  <2>7. CASE Hires(i, FALSE)
    <3>1. Engages(i)
      BY <2>3, <2>5, <2>7 DEF Engages, Hires, OnlyLock
    <3> QED BY <1>0, <2>2, <3>1, EngagesHolds
  <2> QED BY <2>5, <2>6, <2>7
<1>4. \A i \in Issues : ~EditIssue(i)
  BY <1>0, EventTyped DEF EditIssue, EventKinds, LeftAlone
<1>5. ~ReconcileEscalate /\ ~ReconcileRecover
  BY DEF Quiet, ReconcileEscalate, ReconcileRecover
<1>6. \/ UNCHANGED <<run, issue>>
      \/ \E r \in Runs : PromoteScheduled(r)
      \/ \E a \in Agents, i \in Issues, comment \in CommentWakes : WakeAgent(a, i, comment)
  BY <1>4, <1>5 DEF OtherStep, CancelRequest, OrphanExits, Pause, Resume, BudgetStop, BudgetResume,
     ResumeQueued, CancelPendingWakes, ReconStep, ReconcileFind, vars
<1> QED BY <1>1, <1>2, <1>3, <1>6 DEF Used

LEMMA AloneMoves ==
  ASSUME Typed, Done, Up, Handling, QueuesDistinct, Undoubled, [Next]_vars,
         LeftAlone, LeftAlone', Quiet, UpStep
  PROVE  /\ \A p \in Used : Busy(p)' => Busy(p)
         /\ OnlyEngages
         /\ Used' = Used \/ Used # {} \/ events'["wake"] > 0
<1>0. Idling /\ ClaimingLive /\ InHandsLive
  BY DEF Handling, Quiet, Undoubled
<1>1. \A p \in Used : Busy(p)' => Busy(p)
  BY <1>0, BusyStays
<1>2. ASSUME NEW a \in Agents, StarterStep(a)
      PROVE  OnlyEngages /\ Used' = Used
  BY <1>0, <1>1, <1>2, StarterAlone, StarterStepMoves
<1>3. Fading \/ \E a \in Agents : StarterStep(a)
  <2>1. ASSUME NEW a \in Agents, starter'[a] # starter[a]
        PROVE  StarterStep(a)
    <3>1. CASE UNCHANGED starter
      BY <2>1, <3>1
    <3>2. ASSUME NEW b \in Agents, StarterStep(b)
          PROVE  StarterStep(a)
      BY <2>1, <3>2, StarterStepMoves
    <3> QED BY <3>1, <3>2, ExecStepMoves, CancelStepMoves, OtherStepMoves DEF UpStep
  <2> QED BY <1>1, <2>1, StartedMoves DEF Fading
<1>4. ASSUME NEW r \in Runs, ExecStep(r) \/ CancelStep(r), Fading
      PROVE  OnlyEngages /\ Used # {}
  <2>1. r \in Used
    BY <1>4, ExecStepMoves, CancelStepMoves
  <2> QED BY <1>0, <1>4, <2>1, ExecAlone, CancelAlone
<1>5. ASSUME OtherStep, Fading
      PROVE  OnlyEngages /\ (Used' = Used \/ events'["wake"] > 0)
  BY <1>5, OtherAlone
<1> QED BY <1>1, <1>2, <1>3, <1>4, <1>5 DEF UpStep

LEMMA AloneNext ==
  ASSUME Typed, Done, Up, Handling, QueuesDistinct, Alone, [Next]_vars
  PROVE  Alone'
<1> SUFFICES ASSUME LeftAlone'
             PROVE  Undoubled'
  BY DEF Alone
<1>1. LeftAlone /\ Quiet /\ UpStep
  BY AloneStep DEF Handling
<1>2. Undoubled
  BY <1>1 DEF Alone
<1>3. /\ \A p \in Used : Busy(p)' => Busy(p)
      /\ OnlyEngages
      /\ Used' = Used \/ Used # {} \/ events'["wake"] > 0
  BY <1>1, <1>2, AloneMoves
<1>4. RunsKept /\ Moved
  BY NextTyped, NextMoves DEF KeepsTyped
<1>5. events["wake"] \in Nat /\ events'["wake"] \in Nat /\ events["wake"] <= events'["wake"]
      /\ events'["wake"] <= 1
  <2>1. "wake" \in Counted
    BY DEF Counted
  <2> QED BY <1>1, <2>1, EventsGrow DEF LeftAlone
<1>6. NothingYet'
  BY <1>2, <1>3, <1>5 DEF NothingYet, Undoubled
<1>7. NothingDeferred'
  <2> SUFFICES ASSUME NEW w \in Wakes, IsDeferred(w)'
               PROVE  FALSE
    BY DEF NothingDeferred
  <2>1. ~IsDeferred(w) /\ WakeMoved(w)
    BY <1>2, <1>4 DEF Undoubled, NothingDeferred, Moved, WakesMoved
  <2>2. DeferredAnew(w)
    BY <2>1 DEF IsDeferred, WakeMoved, KeepsWake
  <2>3. events["wake"] = 0
    BY <1>1, <1>5, <2>2 DEF DeferredAnew, Asking, Quiet
  <2>4. Used = {}
    BY <1>2, <2>3 DEF Undoubled, NothingYet
  <2> QED BY <2>2, <2>4 DEF DeferredAnew, LiveRunsOf, RunsOf, Used
<1>8. InHandsLive'
  BY <1>1, <1>2, InHandsLiveNext DEF Handling, Undoubled
<1>9. OneBusy' /\ BusyHolds'
  BY <1>2, <1>3, <1>4, OneBusyNext DEF Undoubled, OnlyEngages
<1> QED BY <1>6, <1>7, <1>8, <1>9 DEF Undoubled

LEMMA InitAlone == Init => Alone /\ QueuesDistinct
<1> SUFFICES ASSUME Init
             PROVE  Alone /\ QueuesDistinct
  OBVIOUS
<1>1. Used = {} /\ \A w \in Wakes : wake[w] = NoRow
  BY DEF Init, Used
<1>2. \A a \in Agents : starter[a].pc = "idle"
  BY DEF Init, Idle
<1> QED BY <1>1, <1>2 DEF Alone, Undoubled, NothingYet, NothingDeferred, IsDeferred, InHandsLive,
           OneBusy, BusyHolds, QueuesDistinct

LEMMA AloneIsOne ==
  ASSUME Alone
  PROVE  OneLiveRun
<1> SUFFICES ASSUME LeftAlone, NEW i \in Issues
             PROVE  Cardinality(LiveRunsOf(i)) <= 1
  BY DEF OneLiveRun
<1>1. \A p, q \in LiveRunsOf(i) : p = q
  BY DEF Alone, Undoubled, OneBusy, Busy, LiveRunsOf, RunsOf, Used
<1>2. CASE LiveRunsOf(i) = {}
  BY <1>2, FS_EmptySet
<1>3. ASSUME NEW r \in LiveRunsOf(i)
      PROVE  Cardinality(LiveRunsOf(i)) <= 1
  <2>1. LiveRunsOf(i) = {r}
    BY <1>1
  <2>2. Cardinality({r}) = 1
    BY FS_Singleton
  <2> QED BY <2>1, <2>2
<1> QED BY <1>2, <1>3

\* An issue that has been woken once and left alone since never has two runs on an execution
\* path: neither a retry, nor the request for a comment, nor a recovery adds a second one.
THEOREM OneRunLeftAlone == Spec => []OneLiveRun
<1>1. /\ Typed /\ Done /\ Up /\ Handling /\ QueuesDistinct /\ Alone /\ [Next]_vars
      => (Handling /\ QueuesDistinct /\ Alone)'
  BY HandlingNext, QueuesDistinctNext, AloneNext
<1>2. Init => Handling /\ QueuesDistinct /\ Alone
  BY InitHandling, InitAlone
<1>3. Alone => OneLiveRun
  BY AloneIsOne
<1> QED BY <1>1, <1>2, <1>3, RowsAndHands, ReleasedAreFinished, NothingToReap, PTL DEF Spec
=============================================================================
