---------------------------- MODULE AgentStartLock ----------------------------
(***************************************************************************)
(* withAgentStartLock of server/src/services/heartbeat.ts for one agent: a *)
(* chain of promises.  Each call hangs its function on the marker that the *)
(* map holds (or starts it at once if the map has no entry), puts its own  *)
(* marker into the map, and when its function has settled deletes the      *)
(* entry if it is still its own.  Calls are numbered in the order in which *)
(* they are made; everything up to the first await of a call is one step.  *)
(* RunExecution uses the lock as one starter per agent.                    *)
(***************************************************************************)
EXTENDS Naturals

CONSTANT MaxCalls   \* bound: calls made

ASSUME AgentStartLockAssumption == MaxCalls \in Nat

Calls == 1 .. MaxCalls
NoCall == 0

VARIABLES
  called,    \* number of calls made
  pc,        \* where each call is
  previous,  \* the call whose marker each call waits for, or NoCall
  threw,     \* calls whose function was rejected
  marker     \* the call whose marker is in startLocksByAgent, or NoCall

vars == <<called, pc, previous, threw, marker>>

TypeOK ==
  /\ called \in 0 .. MaxCalls
  /\ pc \in [Calls -> {"none", "waiting", "running", "settled", "left"}]
  /\ previous \in [Calls -> Calls \cup {NoCall}]
  /\ threw \subseteq Calls
  /\ marker \in Calls \cup {NoCall}

Init ==
  /\ called = 0
  /\ pc = [n \in Calls |-> "none"]
  /\ previous = [n \in Calls |-> NoCall]
  /\ threw = {}
  /\ marker = NoCall

\* The synchronous part: read the map, chain the function, set the map.
Call(n) ==
  /\ n = called + 1
  /\ called' = n
  /\ pc' = [pc EXCEPT ![n] = "waiting"]
  /\ previous' = [previous EXCEPT ![n] = marker]
  /\ marker' = n
  /\ UNCHANGED threw

Settled(n) == pc[n] \in {"settled", "left"}

\* Mutant: the marker is rejected with the function, and nothing follows a rejection.
StartAfterSuccess(n) ==
  /\ pc[n] = "waiting"
  /\ previous[n] # NoCall => Settled(previous[n]) /\ previous[n] \notin threw
  /\ pc' = [pc EXCEPT ![n] = "running"]
  /\ UNCHANGED <<called, previous, threw, marker>>

\* The marker settles whether the function it stands for is fulfilled or rejected.
Start(n) ==
  /\ pc[n] = "waiting"
  /\ previous[n] # NoCall => Settled(previous[n])
  /\ pc' = [pc EXCEPT ![n] = "running"]
  /\ UNCHANGED <<called, previous, threw, marker>>

\* Mutant: a rejection is a state that nobody else knows.
SettleRejected(n) ==
  /\ pc[n] = "running"
  /\ \/ pc' = [pc EXCEPT ![n] = "settled"] /\ UNCHANGED threw
     \/ pc' = [pc EXCEPT ![n] = "rejected"] /\ threw' = threw \cup {n}
  /\ UNCHANGED <<called, previous, marker>>

\* The function settles, and with it the marker, before the caller goes on.
Settle(n) ==
  /\ pc[n] = "running"
  /\ pc' = [pc EXCEPT ![n] = "settled"]
  /\ threw' \in {threw, threw \cup {n}}
  /\ UNCHANGED <<called, previous, marker>>

\* Mutant: the entry is deleted whoever has set it.
LeaveDeleting(n) ==
  /\ pc[n] = "settled"
  /\ pc' = [pc EXCEPT ![n] = "left"]
  /\ marker' = NoCall
  /\ UNCHANGED <<called, previous, threw>>

\* Mutant: a call that has thrown leaves its entry behind.
LeaveUnlessThrown(n) ==
  /\ pc[n] = "settled"
  /\ pc' = [pc EXCEPT ![n] = "left"]
  /\ marker' = IF marker = n /\ n \notin threw THEN NoCall ELSE marker
  /\ UNCHANGED <<called, previous, threw>>

\* The finally block.
Leave(n) ==
  /\ pc[n] = "settled"
  /\ pc' = [pc EXCEPT ![n] = "left"]
  /\ marker' = IF marker = n THEN NoCall ELSE marker
  /\ UNCHANGED <<called, previous, threw>>

Next == \E n \in Calls : Call(n) \/ Start(n) \/ Settle(n) \/ Leave(n)

Spec == Init /\ [][Next]_vars

\* Promises are settled and their reactions run; the function of a call returns, which
\* startNextQueuedRunForAgent does unless it asks for the lock again.
FairSpec == Spec /\ \A n \in Calls : WF_vars(Start(n) \/ Settle(n) \/ Leave(n))

-----------------------------------------------------------------------------
(* Properties. *)

\* The chain is a mutual exclusion that serves the calls in order: no function of the
\* agent starts before those of all earlier calls have settled.
Waiting == {n \in Calls : pc[n] = "waiting"}
Inside == IF \E n \in Calls : pc[n] = "running"
          THEN CHOOSE n \in Calls : pc[n] = "running" ELSE NoCall
Mutex == INSTANCE FifoMutex
           WITH Caller <- Calls, Nobody <- NoCall, waiting <- Waiting, inside <- Inside
ImplementsMutex == Mutex!Spec

\* The map forgets the agent when all its calls have left.
NoLeftover == (\A n \in Calls : pc[n] \in {"none", "left"}) => marker = NoCall

\* Every call's function is run, although earlier ones are rejected.
EveryCallStarts == \A n \in Calls : pc[n] = "waiting" ~> pc[n] = "running"
==============================================================================
