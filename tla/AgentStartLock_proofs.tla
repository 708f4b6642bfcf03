------------------------ MODULE AgentStartLock_proofs ------------------------
(***************************************************************************)
(* Theorems about AgentStartLock, for every number of calls.               *)
(***************************************************************************)
EXTENDS AgentStartLock, TLAPS

-----------------------------------------------------------------------------
(* The inductive invariant. *)

\* The calls made so far are the first ones.
Counted == \A n \in Calls : pc[n] = "none" <=> n > called

\* The map holds the marker of the last call, which has not left, or the chain is over.
MarkerIsLast ==
  IF marker = NoCall THEN \A n \in Calls : n <= called => Settled(n)
  ELSE marker = called /\ pc[marker] # "left"

\* A call hangs on the one before it, unless all earlier ones had settled.
Chained ==
  \A n \in Calls : n <= called =>
    \/ previous[n] \in Calls /\ previous[n] = n - 1
    \/ previous[n] = NoCall /\ \A m \in Calls : m < n => Settled(m)

\* No function has started before all earlier ones have settled.
InOrder ==
  \A n \in Calls : pc[n] \in {"running", "settled", "left"} =>
    \A m \in Calls : m < n => Settled(m)

Inv ==
  /\ TypeOK
  /\ Counted
  /\ MarkerIsLast
  /\ Chained
  /\ InOrder

LEMMA CallsAreNats == Calls \subseteq Nat /\ NoCall \notin Calls
BY AgentStartLockAssumption DEF Calls, NoCall

LEMMA InitInv == Init => Inv
BY AgentStartLockAssumption, CallsAreNats
   DEF Init, Inv, TypeOK, Counted, MarkerIsLast, Chained, InOrder, Calls, NoCall

\* A settled call stays settled.
LEMMA SettledStays ==
  ASSUME TypeOK, Counted, [Next]_vars, NEW m \in Calls, Settled(m)
  PROVE  Settled(m)'
<1>1. pc[m] # "none" /\ pc[m] # "waiting" /\ pc[m] # "running"
  BY DEF Settled
<1>2. ASSUME NEW n \in Calls, Call(n) PROVE Settled(m)'
  <2>1. called \in Nat /\ n \in Nat /\ n > called
    BY <1>2, CallsAreNats, AgentStartLockAssumption DEF Call, TypeOK
  <2>2. pc[n] = "none"
    BY <2>1 DEF Counted
  <2> QED BY <1>1, <1>2, <2>2 DEF Call, Settled, TypeOK
<1>3. ASSUME NEW n \in Calls, Start(n) PROVE Settled(m)'
  BY <1>1, <1>3 DEF Start, Settled, TypeOK
<1>4. ASSUME NEW n \in Calls, Settle(n) PROVE Settled(m)'
  BY <1>4 DEF Settle, Settled, TypeOK
<1>5. ASSUME NEW n \in Calls, Leave(n) PROVE Settled(m)'
  BY <1>5 DEF Leave, Settled, TypeOK
<1>6. CASE UNCHANGED vars
  BY <1>6 DEF vars, Settled
<1> QED BY <1>2, <1>3, <1>4, <1>5, <1>6 DEF Next

LEMMA NextType == TypeOK /\ [Next]_vars => TypeOK'
<1> SUFFICES ASSUME TypeOK, [Next]_vars PROVE TypeOK'
  OBVIOUS
<1> USE DEF TypeOK
<1>1. ASSUME NEW n \in Calls, Call(n) PROVE TypeOK'
  BY <1>1, AgentStartLockAssumption DEF Call, Calls
<1>2. ASSUME NEW n \in Calls, Start(n) \/ Settle(n) PROVE TypeOK'
  BY <1>2 DEF Start, Settle
<1>3. ASSUME NEW n \in Calls, Leave(n) PROVE TypeOK'
  BY <1>3 DEF Leave
<1>4. CASE UNCHANGED vars
  BY <1>4 DEF vars
<1> QED BY <1>1, <1>2, <1>3, <1>4 DEF Next

LEMMA NextCounted == Inv /\ [Next]_vars => Counted'
<1> SUFFICES ASSUME Inv, [Next]_vars PROVE Counted'
  OBVIOUS
<1> USE CallsAreNats DEF Inv, TypeOK, Counted
<1>0. called \in Nat
  BY AgentStartLockAssumption
<1>1. ASSUME NEW n \in Calls, Call(n) PROVE Counted'
  BY <1>0, <1>1 DEF Call
<1>2. ASSUME NEW n \in Calls, Start(n) \/ Settle(n) \/ Leave(n) PROVE Counted'
  BY <1>2 DEF Start, Settle, Leave
<1>3. CASE UNCHANGED vars
  BY <1>3 DEF vars
<1> QED BY <1>1, <1>2, <1>3 DEF Next

LEMMA NextMarker == Inv /\ [Next]_vars => MarkerIsLast'
<1> SUFFICES ASSUME Inv, [Next]_vars PROVE MarkerIsLast'
  OBVIOUS
<1>a. TypeOK /\ Counted /\ MarkerIsLast /\ InOrder /\ called \in Nat
  BY AgentStartLockAssumption DEF Inv, TypeOK
<1>b. \A m \in Calls : Settled(m) => Settled(m)'
  BY <1>a, SettledStays
<1>1. ASSUME NEW n \in Calls, Call(n) PROVE MarkerIsLast'
  BY <1>1, <1>a, CallsAreNats DEF Call, MarkerIsLast, TypeOK
<1>2. ASSUME NEW n \in Calls, Start(n) \/ Settle(n) PROVE MarkerIsLast'
  <2>1. called' = called /\ marker' = marker
    BY <1>2 DEF Start, Settle
  <2>2. CASE marker = NoCall
    BY <2>1, <2>2, <1>a, <1>b DEF MarkerIsLast
  <2>3. CASE marker # NoCall
    BY <2>1, <2>3, <1>2, <1>a DEF MarkerIsLast, Start, Settle, TypeOK
  <2> QED BY <2>2, <2>3
<1>3. ASSUME NEW n \in Calls, Leave(n) PROVE MarkerIsLast'
  <2>1. CASE marker = n
    \* the last call has settled, and so have all before it
    <3>1. marker' = NoCall /\ called' = called /\ n = called /\ pc[n] = "settled"
      BY <2>1, <1>3, <1>a, CallsAreNats DEF Leave, MarkerIsLast
    <3>2. \A m \in Calls : m <= called => Settled(m)
      BY <3>1, <1>a, CallsAreNats DEF InOrder, Settled
    <3> QED BY <3>1, <3>2, <1>b DEF MarkerIsLast
  <2>2. CASE marker # n
    <3>1. marker' = marker /\ called' = called
      BY <2>2, <1>3 DEF Leave
    <3>2. CASE marker = NoCall
      BY <3>1, <3>2, <1>a, <1>b DEF MarkerIsLast
    <3>3. CASE marker # NoCall
      BY <3>1, <3>3, <2>2, <1>3, <1>a DEF MarkerIsLast, Leave, TypeOK
    <3> QED BY <3>2, <3>3
  <2> QED BY <2>1, <2>2
<1>4. CASE UNCHANGED vars
  BY <1>4, <1>a DEF vars, MarkerIsLast, Settled
<1> QED BY <1>1, <1>2, <1>3, <1>4 DEF Next

LEMMA NextChained == Inv /\ [Next]_vars => Chained'
<1> SUFFICES ASSUME Inv, [Next]_vars PROVE Chained'
  OBVIOUS
<1>a. TypeOK /\ Counted /\ MarkerIsLast /\ Chained /\ called \in Nat
  BY AgentStartLockAssumption DEF Inv, TypeOK
<1>b. \A m \in Calls : Settled(m) => Settled(m)'
  BY <1>a, SettledStays
<1>1. ASSUME NEW n \in Calls, Call(n) PROVE Chained'
  <2> SUFFICES ASSUME NEW k \in Calls, k <= called'
               PROVE  \/ previous'[k] \in Calls /\ previous'[k] = k - 1
                      \/ previous'[k] = NoCall /\ \A m \in Calls : m < k => Settled(m)'
    BY DEF Chained
  <2>1. called' = called + 1 /\ n = called + 1 /\ k \in Nat /\ n \in Nat
    BY <1>1, CallsAreNats DEF Call
  <2>2. CASE k = n
    <3>1. previous'[k] = marker
      BY <2>2, <1>1, <1>a DEF Call, TypeOK
    <3>2. CASE marker = NoCall
      BY <3>1, <3>2, <2>1, <2>2, <1>a, <1>b, CallsAreNats DEF MarkerIsLast
    <3>3. CASE marker # NoCall
      BY <3>1, <3>3, <2>1, <2>2, <1>a DEF MarkerIsLast, TypeOK
    <3> QED BY <3>2, <3>3
  <2>3. CASE k # n
    <3>1. k <= called /\ previous'[k] = previous[k]
      BY <2>1, <2>3, <1>1, <1>a DEF Call, TypeOK
    <3> QED BY <3>1, <1>a, <1>b DEF Chained
  <2> QED BY <2>2, <2>3
<1>2. ASSUME called' = called, previous' = previous PROVE Chained'
  BY <1>2, <1>a, <1>b DEF Chained
<1> QED BY <1>1, <1>2 DEF Next, Start, Settle, Leave, vars

LEMMA NextInOrder == Inv /\ [Next]_vars => InOrder'
<1> SUFFICES ASSUME Inv, [Next]_vars PROVE InOrder'
  OBVIOUS
<1>a. TypeOK /\ Counted /\ Chained /\ InOrder /\ called \in Nat
  BY AgentStartLockAssumption DEF Inv, TypeOK
<1>b. \A m \in Calls : Settled(m) => Settled(m)'
  BY <1>a, SettledStays
<1> SUFFICES ASSUME NEW k \in Calls, pc'[k] \in {"running", "settled", "left"},
                    NEW m \in Calls, m < k
             PROVE  Settled(m)'
  BY DEF InOrder
<1>c. k \in Nat /\ m \in Nat
  BY CallsAreNats
<1>1. CASE pc[k] \in {"running", "settled", "left"}
  BY <1>1, <1>a, <1>b DEF InOrder
<1>2. CASE pc[k] \notin {"running", "settled", "left"}
  <2>1. Start(k)
    BY <1>2, <1>a DEF Next, Call, Start, Settle, Leave, vars, TypeOK
  <2>2. k <= called
    BY <2>1, <1>a, <1>c DEF Start, Counted
  <2>3. CASE previous[k] = NoCall
    BY <2>2, <2>3, <1>a, <1>b, CallsAreNats DEF Chained
  <2>4. CASE previous[k] # NoCall
    <3>1. previous[k] \in Calls /\ previous[k] = k - 1 /\ Settled(previous[k])
      BY <2>1, <2>2, <2>4, <1>a DEF Chained, Start
    <3>2. CASE m = k - 1
      BY <3>1, <3>2, <1>b
    <3>3. CASE m # k - 1
      <4>1. m < previous[k] /\ pc[previous[k]] \in {"running", "settled", "left"}
        BY <3>1, <3>3, <1>c DEF Settled
      <4> QED BY <4>1, <3>1, <1>a, <1>b DEF InOrder
    <3> QED BY <3>2, <3>3
  <2> QED BY <2>3, <2>4
<1> QED BY <1>1, <1>2

LEMMA Invariance == Spec => []Inv
<1>1. Inv /\ [Next]_vars => Inv'
  <2> SUFFICES ASSUME Inv, [Next]_vars PROVE Inv'
    OBVIOUS
  <2>1. TypeOK'
    BY NextType DEF Inv
  <2> QED BY <2>1, NextCounted, NextMarker, NextChained, NextInOrder DEF Inv
<1> QED BY InitInv, <1>1, PTL DEF Spec

-----------------------------------------------------------------------------
(* Theorems. *)

\* The map, the chain and the calls always have their types.
THEOREM TypeCorrect == Spec => []TypeOK
BY Invariance, PTL DEF Inv

\* When all calls for an agent's start lock have left, the map has forgotten the agent.
THEOREM ForgetsTheAgent == Spec => []NoLeftover
<1>1. Inv => NoLeftover
  <2> SUFFICES ASSUME Inv, \A n \in Calls : pc[n] \in {"none", "left"}, marker # NoCall
               PROVE  FALSE
    BY DEF NoLeftover
  <2>1. marker \in Calls /\ marker = called /\ pc[marker] # "left"
    BY DEF Inv, TypeOK, MarkerIsLast
  <2>2. ~(marker > called)
    BY <2>1, CallsAreNats
  <2> QED BY <2>1, <2>2 DEF Inv, Counted
<1> QED BY Invariance, <1>1, PTL

\* Only one function of an agent runs at a time.
LEMMA OneInside ==
  ASSUME Inv, NEW m \in Calls, NEW n \in Calls, pc[m] = "running", pc[n] = "running"
  PROVE  m = n
<1>1. m \in Nat /\ n \in Nat
  BY CallsAreNats
<1>2. ~(m < n)
  BY DEF Inv, InOrder, Settled
<1>3. ~(n < m)
  BY DEF Inv, InOrder, Settled
<1> QED BY <1>1, <1>2, <1>3

InsideKnown ==
  /\ \A n \in Calls : pc[n] = "running" => Inside = n
  /\ (\A n \in Calls : pc[n] # "running") => Inside = NoCall

LEMMA InsideIs == Inv => InsideKnown
BY OneInside DEF Inside, InsideKnown

\* Every step of the chain is a step of the mutual exclusion or leaves it alone.
LEMMA NextMutex ==
  Inv /\ Inv' /\ [Next]_vars => [Mutex!Next]_<<Waiting, Inside>>
<1> SUFFICES ASSUME Inv, Inv', [Next]_vars PROVE [Mutex!Next]_<<Waiting, Inside>>
  OBVIOUS
<1>a. TypeOK /\ Counted /\ InOrder /\ called \in Nat
  BY AgentStartLockAssumption DEF Inv, TypeOK
<1>i. /\ \A n \in Calls : pc[n] = "running" => Inside = n
      /\ (\A n \in Calls : pc[n] # "running") => Inside = NoCall
  BY InsideIs DEF InsideKnown
<1>j. /\ \A n \in Calls : pc'[n] = "running" => Inside' = n
      /\ (\A n \in Calls : pc'[n] # "running") => Inside' = NoCall
  <2>1. InsideKnown'
    BY InsideIs, PTL
  <2> QED BY <2>1 DEF InsideKnown
<1>1. ASSUME NEW n \in Calls, Call(n) PROVE Mutex!Ask(n)
  <2>1. pc[n] = "none" /\ pc' = [pc EXCEPT ![n] = "waiting"]
    BY <1>1, <1>a, CallsAreNats DEF Call, Counted
  <2>2. Waiting' = Waiting \cup {n}
    BY <2>1, <1>a DEF Waiting, TypeOK
  <2>3. \A m \in Waiting : m < n
    BY <1>1, <1>a, CallsAreNats DEF Waiting, Counted, Call
  <2>4. \A m \in Calls : pc'[m] = "running" <=> pc[m] = "running"
    BY <2>1, <1>a DEF TypeOK
  <2>5. Inside' = Inside
    BY <2>4 DEF Inside
  <2> QED BY <2>2, <2>3, <2>5 DEF Mutex!Ask
<1>2. ASSUME NEW n \in Calls, Start(n) PROVE Mutex!Enter(n)
  <2>1. pc[n] = "waiting" /\ pc' = [pc EXCEPT ![n] = "running"]
    BY <1>2 DEF Start
  <2>2. pc'[n] = "running" /\ Inside' = n
    BY <2>1, <1>a, <1>j DEF TypeOK
  <2>3. \A m \in Calls : m < n => Settled(m)'
    BY <2>2 DEF Inv, InOrder
  <2>4. \A m \in Calls : m < n => Settled(m)
    BY <2>1, <2>3, <1>a, CallsAreNats DEF Settled, TypeOK
  <2>5. \A m \in Calls : pc[m] # "running"
    <3> SUFFICES ASSUME NEW m \in Calls, pc[m] = "running" PROVE FALSE
      OBVIOUS
    <3>1. ~(m < n) /\ ~(n < m) /\ m # n
      BY <2>1, <2>4, <1>a DEF InOrder, Settled
    <3> QED BY <3>1, CallsAreNats
  <2>6. Inside = NoCall
    BY <2>5, <1>i
  <2>7. n \in Waiting /\ \A m \in Waiting : n <= m
    BY <2>1, <2>4, CallsAreNats DEF Waiting, Settled
  <2>8. Waiting' = Waiting \ {n}
    BY <2>1, <1>a DEF Waiting, TypeOK
  <2> QED BY <2>2, <2>6, <2>7, <2>8 DEF Mutex!Enter
<1>3. ASSUME NEW n \in Calls, Settle(n) PROVE Mutex!Exit
  <2>1. pc[n] = "running" /\ pc' = [pc EXCEPT ![n] = "settled"]
    BY <1>3 DEF Settle
  <2>2. Inside = n /\ n # NoCall
    BY <2>1, <1>i, CallsAreNats
  <2>3. \A m \in Calls : pc'[m] # "running"
    BY <2>1, <2>2, <1>a, <1>i DEF TypeOK
  <2>4. Waiting' = Waiting
    BY <2>1, <1>a DEF Waiting, TypeOK
  <2> QED BY <2>2, <2>3, <2>4, <1>j DEF Mutex!Exit
<1>4. ASSUME NEW n \in Calls, Leave(n) PROVE UNCHANGED <<Waiting, Inside>>
  <2>1. pc[n] = "settled" /\ pc' = [pc EXCEPT ![n] = "left"]
    BY <1>4 DEF Leave
  <2>2. Waiting' = Waiting
    BY <2>1, <1>a DEF Waiting, TypeOK
  <2>3. \A m \in Calls : pc'[m] = "running" <=> pc[m] = "running"
    BY <2>1, <1>a DEF TypeOK
  <2>4. Inside' = Inside
    BY <2>3 DEF Inside
  <2> QED BY <2>2, <2>4
<1>5. ASSUME UNCHANGED vars PROVE UNCHANGED <<Waiting, Inside>>
  BY <1>5 DEF vars, Waiting, Inside
<1> QED BY <1>1, <1>2, <1>3, <1>4, <1>5 DEF Next, Mutex!Next

LEMMA InitMutex == Init => Mutex!Init
BY DEF Init, Mutex!Init, Waiting, Inside

\* The chain of promises lets one function of an agent run at a time, in the order of the
\* calls, however many calls there are and whether functions are fulfilled or rejected.
THEOREM ServesInOrder == Spec => ImplementsMutex
<1>1. Spec => Mutex!Spec
  BY InitMutex, NextMutex, Invariance, PTL DEF Spec, Mutex!Spec
<1> QED BY <1>1 DEF ImplementsMutex
==============================================================================
