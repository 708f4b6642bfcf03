------------------------ MODULE IssueCheckout_proofs ------------------------
(***************************************************************************)
(* Proofs about IssueCheckout, for every number of runs, calls and board   *)
(* changes and every assignment of runs to agents.  Safety rests on one    *)
(* inductive invariant, Inv; the action properties and the implementation  *)
(* of IssueOwnership follow from it step by step.                          *)
(***************************************************************************)
EXTENDS IssueCheckout, TLAPS

\* A call that is about to look up the run it read, or to adopt from it, has read one.
SeenIsRun == \A r \in Runs : call[r].pc = "stale" => call[r].seen \in Runs

Inv ==
  /\ TypeOK
  /\ LiveOwnerHoldsLock
  /\ SeenIsRun
  /\ AdoptsFromTheDead

-----------------------------------------------------------------------------
(* Lemmas on the null run and on the calls. *)

\* No run is the null run, so a run column tells whether it is null.
LEMMA NoRunIsNoRun == NoRun \notin Runs
BY IssueRowAssumption DEF NoRun, Runs

\* Every UPDATE of the issue leaves a row that the columns' types allow.
LEMMA RowTypes ==
  ASSUME NEW w \in Row, NEW r \in Runs, NEW a \in Agents
  PROVE  /\ Unlocked(w) \in Row
         /\ LockedBy(w, r, a) \in Row
         /\ CheckedOut(w, a, r) \in Row
         /\ Adopted(w, r) \in Row
<1>1. NameKey[a] \in NameKeys
  BY IssueRowAssumption
<1>2. Unlocked(w) \in Row
  BY DEF Unlocked, Row
<1>3. LockedBy(w, r, a) \in Row
  BY <1>1 DEF LockedBy, Row
<1>4. CheckedOut(w, a, r) \in Row
  BY DEF CheckedOut, Row, IssueStatuses
<1>5. Adopted(w, r) \in Row
  BY DEF Adopted, Row
<1> QED BY <1>2, <1>3, <1>4, <1>5

\* Moving the program counter of a call, noting what it has read, and replying keep the
\* calls typed.
LEMMA CallTypes ==
  ASSUME TypeOK, NEW r \in Runs,
         NEW pc \in {"done", "clear", "blockers", "cas", "read", "unowned", "stale", "adopt", "write"},
         NEW reply \in {"none", "ok", "conflict", "unprocessable"}
  PROVE  /\ Goto(r, pc) => call' \in [Runs -> Call]
         /\ Saw(r, pc) => call' \in [Runs -> Call]
         /\ Reply(r, reply) => call' \in [Runs -> Call]
<1>1. call \in [Runs -> Call] /\ call[r] \in Call /\ row.checkout \in Runs \cup {NoRun}
  BY DEF TypeOK, Row
<1>2. [call[r] EXCEPT !.pc = pc] \in Call
  BY <1>1 DEF Call
<1>3. [[call[r] EXCEPT !.pc = pc] EXCEPT !.seen = row.checkout] \in Call
  BY <1>1 DEF Call
<1>4. [NotCalled EXCEPT !.reply = reply] \in Call
  BY DEF NotCalled, Call
<1>5. Saw(r, pc) => call' = [call EXCEPT ![r] = [[call[r] EXCEPT !.pc = pc] EXCEPT !.seen = row.checkout]]
  BY <1>1 DEF Saw, Call
<1> QED BY <1>1, <1>2, <1>3, <1>4, <1>5 DEF Goto, Reply

-----------------------------------------------------------------------------
(* Types. *)

LEMMA InitType == Init => TypeOK
<1> SUFFICES ASSUME Init PROVE TypeOK
  OBVIOUS
<1>1. row \in Row
  BY DEF Init, Row, IssueStatuses
<1>2. call \in [Runs -> Call]
  BY DEF Init, NotCalled, Call
<1>3. edit \in Edit
  BY DEF Init, NoEdit, Edit, StatusPatch, Patches, IssueStatuses
<1> QED BY <1>1, <1>2, <1>3, IssueCheckoutAssumption DEF Init, TypeOK

LEMMA NextType == TypeOK /\ [Next]_vars => TypeOK'
<1> SUFFICES ASSUME TypeOK, [Next]_vars PROVE TypeOK'
  OBVIOUS
<1> USE DEF TypeOK
<1>a. \A r \in Runs : AgentOf[r] \in Agents
  BY IssueCheckoutAssumption
<1>1. ASSUME NEW r \in Runs, Begin(r) PROVE TypeOK'
  <2>1. PICK op \in Ops, expected \in ExpectedSets :
          call' = [call EXCEPT ![r] =
            [NotCalled EXCEPT !.op = op, !.pc = "clear",
                              !.expected = IF op = "checkout" THEN expected ELSE {}]]
    BY <1>1 DEF Begin
  <2>2. expected \in SUBSET IssueStatuses
    BY IssueCheckoutAssumption
  <2>3. [NotCalled EXCEPT !.op = op, !.pc = "clear",
                          !.expected = IF op = "checkout" THEN expected ELSE {}] \in Call
    BY <2>2 DEF NotCalled, Call
  <2>4. call' \in [Runs -> Call]
    BY <2>1, <2>3
  <2> QED BY <1>1, <2>4, IssueCheckoutAssumption DEF Begin
<1>2. ASSUME NEW r \in Runs, Clear(r) PROVE TypeOK'
  <2>1. row' \in Row
    BY <1>2, RowTypes, <1>a DEF Clear
  <2>2. call' \in [Runs -> Call]
    BY <1>2, CallTypes DEF Clear
  <2> QED BY <1>2, <2>1, <2>2 DEF Clear
<1>3. ASSUME NEW r \in Runs, Blockers(r) PROVE TypeOK'
  BY <1>3, CallTypes DEF Blockers
<1>4. ASSUME NEW r \in Runs, CheckoutCas(r) PROVE TypeOK'
  <2>1. row' \in Row
    BY <1>4, RowTypes, <1>a DEF CheckoutCas
  <2>2. call' \in [Runs -> Call]
    BY <1>4, CallTypes DEF CheckoutCas
  <2> QED BY <1>4, <2>1, <2>2 DEF CheckoutCas
<1>5. ASSUME NEW r \in Runs, ReadOwner(r) PROVE TypeOK'
  <2>1. call' \in [Runs -> Call]
    BY <1>5, CallTypes DEF ReadOwner
  <2> QED BY <1>5, <2>1 DEF ReadOwner
<1>6. ASSUME NEW r \in Runs, AdoptUnowned(r) PROVE TypeOK'
  <2>1. row' \in Row
    BY <1>6, RowTypes, <1>a DEF AdoptUnowned
  <2>2. call' \in [Runs -> Call]
    BY <1>6, CallTypes DEF AdoptUnowned
  <2> QED BY <1>6, <2>1, <2>2 DEF AdoptUnowned
<1>7. ASSUME NEW r \in Runs, Stale(r) PROVE TypeOK'
  <2>1. call' \in [Runs -> Call]
    BY <1>7, CallTypes DEF Stale
  <2> QED BY <1>7, <2>1 DEF Stale
<1>8. ASSUME NEW r \in Runs, AdoptStale(r) PROVE TypeOK'
  <2>1. row' \in Row
    BY <1>8, RowTypes, <1>a DEF AdoptStale
  <2>2. call' \in [Runs -> Call]
    BY <1>8, CallTypes DEF AdoptStale
  <2> QED BY <1>8, <2>1, <2>2 DEF AdoptStale
<1>9. ASSUME NEW r \in Runs, ReadReleased(r) PROVE TypeOK'
  <2>1. call' \in [Runs -> Call]
    BY <1>9, CallTypes DEF ReadReleased
  <2> QED BY <1>9, <2>1 DEF ReadReleased
<1>10. ASSUME NEW r \in Runs, ReleaseWrite(r) PROVE TypeOK'
  <2>1. row' \in Row
    BY <1>10 DEF ReleaseWrite, Unlocked, Row, IssueStatuses
  <2>2. call' \in [Runs -> Call]
    BY <1>10, CallTypes DEF ReleaseWrite
  <2> QED BY <1>10, <2>1, <2>2 DEF ReleaseWrite
<1>11. ASSUME NEW r \in Runs, ClaimStamp(r) PROVE TypeOK'
  <2>1. row' \in Row
    BY <1>11, RowTypes, <1>a DEF ClaimStamp
  <2> QED BY <1>11, <2>1 DEF ClaimStamp
<1>12. ASSUME NEW r \in Runs, RunEnds(r) PROVE TypeOK'
  BY <1>12 DEF RunEnds
<1>13. ASSUME NEW r \in Runs, HeartbeatRelease(r) PROVE TypeOK'
  BY <1>13 DEF HeartbeatRelease, Unlocked, Row, IssueStatuses
<1>14. ASSUME BoardRead PROVE TypeOK'
  <2>1. edit' \in Edit
    BY <1>14 DEF BoardRead, Edit, DropsLocks
  <2> QED BY <1>14, <2>1, IssueCheckoutAssumption DEF BoardRead, BoardChange
<1>15. ASSUME BoardWrite PROVE TypeOK'
  <2>1. edit.patch \in Patches
    BY DEF Edit
  <2>2. row' \in Row
    BY <1>15, <2>1 DEF BoardWrite, Patched, PatchedFields, Patches, Unlocked, Row
  <2>3. edit' \in Edit
    BY <1>15 DEF BoardWrite, NoEdit, Edit, StatusPatch, Patches, IssueStatuses
  <2> QED BY <1>15, <2>2, <2>3 DEF BoardWrite
<1>16. ASSUME BoardBlocker PROVE TypeOK'
  <2>1. row' \in Row
    BY <1>16 DEF BoardBlocker, Row
  <2> QED BY <1>16, <2>1, IssueCheckoutAssumption DEF BoardBlocker, BoardChange
<1>17. ASSUME AdminForceRelease PROVE TypeOK'
  <2>1. row' \in Row
    BY <1>17 DEF AdminForceRelease, Unlocked, Row
  <2> QED BY <1>17, <2>1, IssueCheckoutAssumption DEF AdminForceRelease, BoardChange
<1>18. ASSUME NEW r \in Runs, ReaperRevives(r) PROVE TypeOK'
  BY <1>18 DEF ReaperRevives
<1>19. CASE UNCHANGED vars
  BY <1>19 DEF vars
<1> QED
  BY <1>1, <1>2, <1>3, <1>4, <1>5, <1>6, <1>7, <1>8, <1>9, <1>10, <1>11, <1>12,
     <1>13, <1>14, <1>15, <1>16, <1>17, <1>18, <1>19 DEF Next, Statement

\* The columns, the calls and the sets of runs that are not over, and of those that have been,
\* always have their types.
THEOREM TypeCorrect == Spec => []TypeOK
<1> QED BY InitType, NextType, PTL DEF Spec

-----------------------------------------------------------------------------
(* The inductive invariant. *)

LEMMA InitInv == Init => Inv
<1> SUFFICES ASSUME Init PROVE Inv
  OBVIOUS
<1>1. TypeOK
  BY InitType
<1>2. LiveOwnerHoldsLock
  BY NoRunIsNoRun DEF Init, LiveOwnerHoldsLock
<1>3. SeenIsRun /\ AdoptsFromTheDead
  BY DEF Init, SeenIsRun, AdoptsFromTheDead, NotCalled
<1> QED BY <1>1, <1>2, <1>3 DEF Inv

\* The statements that give a run the checkout give it the execution lock too; the lock
\* is only dropped together with the checkout, or for a run that has been over.
LEMMA NextLock == Inv /\ [Next]_vars => LiveOwnerHoldsLock'
<1> SUFFICES ASSUME Inv, [Next]_vars PROVE LiveOwnerHoldsLock'
  OBVIOUS
<1> USE DEF LiveOwnerHoldsLock
<1>a. row \in Row /\ Unbroken \subseteq Runs /\ LiveOwnerHoldsLock /\ NoRun \notin Runs
  BY NoRunIsNoRun DEF Inv, TypeOK, Unbroken
<1>b. UNCHANGED <<alive, revived>> => UNCHANGED Unbroken
  BY DEF Unbroken
<1>1. ASSUME NEW r \in Runs, CheckoutCas(r) PROVE LiveOwnerHoldsLock'
  <2>1. UNCHANGED Unbroken /\ (row' = row \/ row' = CheckedOut(row, AgentOf[r], r))
    BY <1>1, <1>b DEF CheckoutCas
  <2>2. LET w == CheckedOut(row, AgentOf[r], r) IN w.checkout = r /\ w.exec = r
    BY <1>a DEF CheckedOut, Row
  <2> QED BY <2>1, <2>2, <1>a
<1>2. ASSUME NEW r \in Runs, AdoptUnowned(r) \/ AdoptStale(r) PROVE LiveOwnerHoldsLock'
  <2>1. UNCHANGED Unbroken /\ (row' = row \/ row' = Adopted(row, r))
    BY <1>2, <1>b DEF AdoptUnowned, AdoptStale
  <2>2. Adopted(row, r).checkout = r /\ Adopted(row, r).exec = r
    BY <1>a DEF Adopted, Row
  <2> QED BY <2>1, <2>2, <1>a
<1>3. ASSUME NEW r \in Runs, Clear(r) \/ HeartbeatRelease(r) PROVE LiveOwnerHoldsLock'
  <2>1. UNCHANGED Unbroken
    BY <1>3, <1>b DEF Clear, HeartbeatRelease
  <2>2. row'.checkout = row.checkout
    BY <1>3, <1>a DEF Clear, HeartbeatRelease, Unlocked, Row
  <2>3. row' = row \/ row.exec \notin Unbroken
    BY <1>3, <1>a DEF Clear, HeartbeatRelease, Unbroken
  <2> QED BY <2>1, <2>2, <2>3, <1>a
<1>4. ASSUME NEW r \in Runs, ClaimStamp(r) PROVE LiveOwnerHoldsLock'
  BY <1>4, <1>a, <1>b DEF ClaimStamp, LockedBy, Row
<1>5. ASSUME NEW r \in Runs, ReleaseWrite(r) PROVE LiveOwnerHoldsLock'
  BY <1>5, <1>a, <1>b DEF ReleaseWrite, Unlocked, Row
<1>6. ASSUME BoardWrite PROVE LiveOwnerHoldsLock'
  <2>1. row'.checkout = NoRun \/ (row'.checkout = row.checkout /\ row'.exec = row.exec)
    BY <1>6, <1>a DEF BoardWrite, Patched, PatchedFields, Unlocked, Row
  <2> QED BY <1>6, <2>1, <1>a, <1>b DEF BoardWrite
<1>7. ASSUME BoardBlocker \/ AdminForceRelease PROVE LiveOwnerHoldsLock'
  <2>1. CASE BoardBlocker
    BY <2>1, <1>a, <1>b DEF BoardBlocker, Row
  <2>2. CASE AdminForceRelease
    <3>1. row'.checkout = NoRun /\ UNCHANGED Unbroken
      BY <2>2, <1>a, <1>b DEF AdminForceRelease, Unlocked, Row
    <3> QED BY <3>1, <1>a
  <2> QED BY <1>7, <2>1, <2>2
<1>8. ASSUME NEW r \in Runs, RunEnds(r) \/ ReaperRevives(r) PROVE LiveOwnerHoldsLock'
  <2>1. UNCHANGED row /\ Unbroken' \subseteq Unbroken
    BY <1>8 DEF RunEnds, ReaperRevives, Unbroken
  <2> QED BY <2>1, <1>a
<1>9. ASSUME NEW r \in Runs,
             Begin(r) \/ Blockers(r) \/ ReadOwner(r) \/ Stale(r) \/ ReadReleased(r)
      PROVE LiveOwnerHoldsLock'
  <2>1. UNCHANGED <<row, Unbroken>>
    BY <1>9, <1>b DEF Begin, Blockers, ReadOwner, Stale, ReadReleased
  <2> QED BY <2>1, <1>a
<1>10. ASSUME BoardRead PROVE LiveOwnerHoldsLock'
  BY <1>10, <1>a, <1>b DEF BoardRead
<1>11. CASE UNCHANGED vars
  BY <1>11, <1>a, <1>b DEF vars
<1> QED
  BY <1>1, <1>2, <1>3, <1>4, <1>5, <1>6, <1>7, <1>8, <1>9, <1>10, <1>11 DEF Next, Statement

\* A run that has been over counts as such from then on: the reaper may revive it, but
\* never makes it one that has not been over.
LEMMA UnbrokenShrinks == TypeOK /\ [Next]_vars => Unbroken' \subseteq Unbroken
<1> SUFFICES ASSUME TypeOK, [Next]_vars PROVE Unbroken' \subseteq Unbroken
  OBVIOUS
<1> USE DEF Unbroken
<1>1. ASSUME NEW r \in Runs, Begin(r) \/ Statement(r) PROVE UNCHANGED <<alive, revived>>
  BY <1>1 DEF Begin, Statement, Clear, Blockers, CheckoutCas, ReadOwner, AdoptUnowned, Stale,
              AdoptStale, ReadReleased, ReleaseWrite
<1>2. ASSUME NEW r \in Runs, RunEnds(r) \/ ReaperRevives(r) PROVE Unbroken' \subseteq Unbroken
  BY <1>2 DEF RunEnds, ReaperRevives
<1>3. ASSUME NEW r \in Runs, ClaimStamp(r) \/ HeartbeatRelease(r)
      PROVE  UNCHANGED <<alive, revived>>
  BY <1>3 DEF ClaimStamp, HeartbeatRelease
<1>4. ASSUME BoardRead \/ BoardWrite \/ BoardBlocker \/ AdminForceRelease
      PROVE  UNCHANGED <<alive, revived>>
  BY <1>4 DEF BoardRead, BoardWrite, BoardBlocker, AdminForceRelease
<1>5. CASE UNCHANGED vars
  BY <1>5 DEF vars
<1> QED BY <1>1, <1>2, <1>3, <1>4, <1>5 DEF Next

\* seen is set when the row is read, to the run that has the issue; a run that has been over
\* stays one that has, hence what Stale finds out of it still holds when the UPDATE is made,
\* although the run itself may have been revived.
LEMMA NextSeen == Inv /\ [Next]_vars => SeenIsRun' /\ AdoptsFromTheDead'
<1> SUFFICES ASSUME Inv, [Next]_vars, NEW q \in Runs
             PROVE  /\ call'[q].pc = "stale" => call'[q].seen \in Runs
                    /\ call'[q].pc = "adopt" => call'[q].seen \in Runs \ Unbroken'
  BY DEF SeenIsRun, AdoptsFromTheDead
<1> DEFINE Kept == /\ call'[q].pc = "stale" => call'[q].seen \in Runs
                   /\ call'[q].pc = "adopt" => call'[q].seen \in Runs \ Unbroken'
<1>a. /\ call \in [Runs -> Call]
      /\ row.checkout \in Runs \cup {NoRun}
      /\ call[q].pc = "stale" => call[q].seen \in Runs
      /\ call[q].pc = "adopt" => call[q].seen \in Runs \ Unbroken
      /\ Unbroken' \subseteq Unbroken /\ Unbroken \subseteq alive
  BY UnbrokenShrinks DEF Inv, TypeOK, Row, SeenIsRun, AdoptsFromTheDead, Unbroken
<1>b. call[q] \in Call
  BY <1>a
<1> HIDE DEF Kept
<1>3. ASSUME call'[q] = call[q] \/ call'[q].pc \notin {"stale", "adopt"} PROVE Kept
  BY <1>3, <1>a DEF Kept
<1>1. ASSUME NEW r \in Runs, ReadOwner(r) \/ ReadReleased(r) PROVE Kept
  <2>1. CASE q = r
    <3>1. CASE Saw(r, "stale") /\ MayBeStale(r, row)
      <4>1. call'[q].pc = "stale" /\ call'[q].seen = row.checkout
        BY <3>1, <2>1, <1>a, <1>b DEF Saw, Call
      <4> QED BY <4>1, <3>1, <1>a DEF Kept, MayBeStale
    <3>2. CASE Goto(r, "unowned") \/ Goto(r, "write") \/ Reply(r, "ok") \/ Reply(r, "conflict")
      <4>1. call'[q].pc \notin {"stale", "adopt"}
        BY <3>2, <2>1, <1>a, <1>b DEF Goto, Reply, NotCalled, Call
      <4> QED BY <4>1, <1>3
    <3> QED BY <1>1, <3>1, <3>2 DEF ReadOwner, ReadReleased
  <2>2. CASE q # r
    <3>1. call'[q] = call[q]
      BY <1>1, <2>2, <1>a DEF ReadOwner, ReadReleased, Saw, Goto, Reply
    <3> QED BY <3>1, <1>3
  <2> QED BY <2>1, <2>2
<1>2. ASSUME NEW r \in Runs, Stale(r) PROVE Kept
  <2>1. CASE q = r
    <3>1. call[r].pc = "stale"
      BY <1>2 DEF Stale, At
    <3>2. CASE call[r].seen \in alive
      <4>1. call'[q].pc = "done"
        BY <1>2, <2>1, <3>2, <1>a, <1>b DEF Stale, Reply, NotCalled, Call
      <4> QED BY <4>1, <1>3
    <3>3. CASE call[r].seen \notin alive
      <4>1. call'[q].seen = call[q].seen /\ call'[q].pc \in {"write", "adopt"}
        BY <1>2, <2>1, <3>3, <1>a, <1>b DEF Stale, Goto, Call
      <4> QED BY <4>1, <3>1, <3>3, <2>1, <1>a DEF Kept
    <3> QED BY <3>2, <3>3
  <2>2. CASE q # r
    <3>1. call'[q] = call[q]
      BY <1>2, <2>2, <1>a DEF Stale, Goto, Reply
    <3> QED BY <3>1, <1>3
  <2> QED BY <2>1, <2>2
<1>4. ASSUME NEW r \in Runs, Clear(r) \/ Blockers(r) \/ CheckoutCas(r) PROVE Kept
  <2>1. call'[q] = call[q] \/ call'[q].pc \notin {"stale", "adopt"}
    BY <1>4, <1>a, <1>b DEF Clear, Blockers, CheckoutCas, Goto, Reply, NotCalled, Call
  <2> QED BY <2>1, <1>3
<1>5. ASSUME NEW r \in Runs, AdoptUnowned(r) \/ AdoptStale(r) \/ ReleaseWrite(r) PROVE Kept
  <2>1. call'[q] = call[q] \/ call'[q].pc \notin {"stale", "adopt"}
    BY <1>5, <1>a, <1>b DEF AdoptUnowned, AdoptStale, ReleaseWrite, Reply, NotCalled, Call
  <2> QED BY <2>1, <1>3
<1>6. ASSUME NEW r \in Runs, Begin(r) PROVE Kept
  <2>1. call'[q] = call[q] \/ call'[q].pc = "clear"
    BY <1>6, <1>a, <1>b DEF Begin, NotCalled, Call
  <2> QED BY <2>1, <1>3
<1>7. ASSUME NEW r \in Runs,
             ClaimStamp(r) \/ RunEnds(r) \/ HeartbeatRelease(r) \/ ReaperRevives(r)
      PROVE Kept
  BY <1>7, <1>3 DEF ClaimStamp, RunEnds, HeartbeatRelease, ReaperRevives
<1>8. ASSUME BoardRead \/ BoardWrite \/ BoardBlocker \/ AdminForceRelease PROVE Kept
  BY <1>8, <1>3 DEF BoardRead, BoardWrite, BoardBlocker, AdminForceRelease
<1>9. ASSUME UNCHANGED vars PROVE Kept
  BY <1>9, <1>3 DEF vars
<1>10. Kept
  BY <1>1, <1>2, <1>4, <1>5, <1>6, <1>7, <1>8, <1>9 DEF Next, Statement
<1> QED BY <1>10 DEF Kept

LEMMA NextInv == Inv /\ [Next]_vars => Inv'
BY NextType, NextLock, NextSeen DEF Inv

LEMMA Invariance == Spec => []Inv
BY InitInv, NextInv, PTL DEF Spec

-----------------------------------------------------------------------------
(* Safety. *)

\* A run that has the issue checked out and has not been over holds the execution lock, so
\* no other run is promoted or claimed on the issue beside it.  (A run that was over and is
\* revived by the reaper may have the checkout without the lock.)
THEOREM OwnerHoldsLock == Spec => []LiveOwnerHoldsLock
<1>1. Inv => LiveOwnerHoldsLock
  BY DEF Inv
<1> QED BY <1>1, Invariance, PTL

\* A stale checkout is only taken over from a run that is over or has been, although the run
\* is looked up in one statement and taken over from in a later one, and the reaper may
\* revive it in between.
THEOREM TakesOverFromTheDead == Spec => []AdoptsFromTheDead
<1>1. Inv => AdoptsFromTheDead
  BY DEF Inv
<1> QED BY <1>1, Invariance, PTL

\* A checkout or an assertion that answers ok finds or makes the caller the owner.
THEOREM OkIsOwner == Spec => OkMeansOwner
<1> DEFINE Honest == \A r \in Runs :
       call[r].op \in {"checkout", "assert"} /\ call[r].reply = "none" /\ call'[r].reply = "ok"
         => Owns(r, row')
<1>1. Inv /\ [Next]_vars => [Honest]_vars
  <2> SUFFICES ASSUME Inv, Next, NEW q \in Runs,
                      call[q].op \in {"checkout", "assert"},
                      call[q].reply = "none", call'[q].reply = "ok"
               PROVE  Owns(q, row')
    OBVIOUS
  <2>a. row \in Row /\ call \in [Runs -> Call] /\ call[q] \in Call
    BY DEF Inv, TypeOK
  <2>1. ASSUME NEW r \in Runs, ReadOwner(r) PROVE Owns(q, row')
    <3>1. q = r
      BY <2>1, <2>a DEF ReadOwner, Goto, Saw, Reply, Call
    <3>2. Owns(q, row) /\ row' = row
      BY <2>1, <3>1, <2>a DEF ReadOwner, Goto, Saw, Reply, NotCalled, Call
    <3> QED BY <3>2
  <2>2. ASSUME NEW r \in Runs, CheckoutCas(r) PROVE Owns(q, row')
    <3>1. q = r
      BY <2>2, <2>a DEF CheckoutCas, Goto, Reply, Call
    <3>2. row' = CheckedOut(row, AgentOf[q], q)
      BY <2>2, <3>1, <2>a DEF CheckoutCas, Goto, Call
    <3> QED BY <3>2, <2>a DEF CheckedOut, Owns, Row
  <2>3. ASSUME NEW r \in Runs, AdoptUnowned(r) PROVE Owns(q, row')
    <3>1. q = r
      BY <2>3, <2>a DEF AdoptUnowned, Reply
    <3>2. row' = Adopted(row, q) /\ UnownedMatches(row, AgentOf[q], q)
      BY <2>3, <3>1, <2>a DEF AdoptUnowned, Reply, NotCalled, Call
    <3> QED BY <3>2, <2>a DEF Adopted, UnownedMatches, Owns, Row
  <2>4. ASSUME NEW r \in Runs, AdoptStale(r) PROVE Owns(q, row')
    <3>1. q = r
      BY <2>4, <2>a DEF AdoptStale, Reply
    <3>2. row' = Adopted(row, q) /\ StaleMatches(row, AgentOf[q], call[q].seen)
      BY <2>4, <3>1, <2>a DEF AdoptStale, Reply, NotCalled, Call
    <3> QED BY <3>2, <2>a DEF Adopted, StaleMatches, Owns, Row
  <2>5. ASSUME NEW r \in Runs, Begin(r) PROVE FALSE
    BY <2>5, <2>a DEF Begin, NotCalled, Call
  <2>6. ASSUME NEW r \in Runs, Clear(r) \/ Blockers(r) \/ Stale(r) PROVE FALSE
    BY <2>6, <2>a DEF Clear, Blockers, Stale, Goto, Reply, NotCalled, Call
  <2>7. ASSUME NEW r \in Runs, ReadReleased(r) \/ ReleaseWrite(r) PROVE FALSE
    BY <2>7, <2>a DEF ReadReleased, ReleaseWrite, At, Goto, Saw, Reply, NotCalled, Call
  <2>8. ASSUME NEW r \in Runs,
               ClaimStamp(r) \/ RunEnds(r) \/ HeartbeatRelease(r) \/ ReaperRevives(r)
        PROVE FALSE
    BY <2>8 DEF ClaimStamp, RunEnds, HeartbeatRelease, ReaperRevives
  <2>9. CASE BoardRead \/ BoardWrite \/ BoardBlocker \/ AdminForceRelease
    BY <2>9 DEF BoardRead, BoardWrite, BoardBlocker, AdminForceRelease
  <2> QED
    BY <2>1, <2>2, <2>3, <2>4, <2>5, <2>6, <2>7, <2>8, <2>9 DEF Next, Statement
<1> QED BY <1>1, Invariance, PTL DEF Spec, OkMeansOwner

\* Whoever takes the checkout lock is of the agent it makes, or finds, the assignee, and
\* a change of the assignee drops the lock, but for an update that read a row whose
\* assignee was the one it goes on to write.
THEOREM SeparatedByStaleUpdate == Spec => OnlyStaleUpdateSeparates
<1> DEFINE Stray ==
       CheckoutIsByAssignee /\ ~CheckoutIsByAssignee'
         => edit # NoEdit /\ edit' = NoEdit /\ "assignee" \in edit.patch.fields /\ ~edit.drops
<1>1. Inv /\ [Next]_vars => [Stray]_vars
  <2> SUFFICES ASSUME Inv, Next, CheckoutIsByAssignee, ~CheckoutIsByAssignee'
               PROVE  /\ edit # NoEdit /\ edit' = NoEdit
                      /\ "assignee" \in edit.patch.fields /\ ~edit.drops
    OBVIOUS
  <2> USE DEF CheckoutIsByAssignee
  <2>a. row \in Row /\ NoRun \notin Runs
    BY NoRunIsNoRun DEF Inv, TypeOK
  <2>1. ASSUME NEW r \in Runs, CheckoutCas(r) PROVE FALSE
    BY <2>1, <2>a DEF CheckoutCas, CheckedOut, Row
  <2>2. ASSUME NEW r \in Runs, AdoptUnowned(r) \/ AdoptStale(r) PROVE FALSE
    BY <2>2, <2>a DEF AdoptUnowned, AdoptStale, UnownedMatches, StaleMatches, Adopted, Row
  <2>3. ASSUME NEW r \in Runs, Clear(r) \/ HeartbeatRelease(r) \/ ClaimStamp(r) PROVE FALSE
    BY <2>3, <2>a DEF Clear, HeartbeatRelease, ClaimStamp, Unlocked, LockedBy, Row
  <2>4. ASSUME NEW r \in Runs, ReleaseWrite(r) PROVE FALSE
    BY <2>4, <2>a DEF ReleaseWrite, Unlocked, Row
  <2>5. CASE BoardWrite
    <3>1. edit # NoEdit /\ edit' = NoEdit
      BY <2>5 DEF BoardWrite
    <3>2. ASSUME edit.drops PROVE FALSE
      BY <2>5, <3>2, <2>a DEF BoardWrite, Patched, PatchedFields, Unlocked, Row
    <3>3. ASSUME ~edit.drops, "assignee" \notin edit.patch.fields PROVE FALSE
      BY <2>5, <3>3, <2>a DEF BoardWrite, Patched, PatchedFields, Row
    <3> QED BY <3>1, <3>2, <3>3
  <2>6. ASSUME BoardBlocker \/ AdminForceRelease PROVE FALSE
    BY <2>6, <2>a DEF BoardBlocker, AdminForceRelease, Unlocked, Row
  <2>7. ASSUME NEW r \in Runs,
               \/ Begin(r) \/ Blockers(r) \/ ReadOwner(r) \/ Stale(r) \/ ReadReleased(r)
               \/ RunEnds(r) \/ ReaperRevives(r)
        PROVE FALSE
    BY <2>7 DEF Begin, Blockers, ReadOwner, Stale, ReadReleased, RunEnds, ReaperRevives
  <2>8. ASSUME BoardRead PROVE FALSE
    BY <2>8 DEF BoardRead
  <2> QED
    BY <2>1, <2>2, <2>3, <2>4, <2>5, <2>6, <2>7, <2>8 DEF Next, Statement
<1> QED BY <1>1, Invariance, PTL DEF Spec, OnlyStaleUpdateSeparates

-----------------------------------------------------------------------------
(* Refinement. *)

LEMMA InitOwnership == Init => Ownership!Init
BY DEF Init, Unbroken, Ownership!Init

\* A statement that takes the checkout lock finds it free, or finds a run that has been over:
\* an owner that has not would hold the execution lock.  Every other change gives the issue back.
LEMMA NextOwnership == Inv /\ [Next]_vars => [Ownership!Next]_<<row.checkout, Unbroken>>
<1> SUFFICES ASSUME Inv, [Next]_vars,
                    ~ UNCHANGED <<row.checkout, Unbroken>>
             PROVE  Ownership!Next
  OBVIOUS
<1>a. /\ row \in Row /\ Unbroken \subseteq Runs /\ NoRun \notin Runs
      /\ LiveOwnerHoldsLock /\ AdoptsFromTheDead
  BY NoRunIsNoRun DEF Inv, TypeOK, Unbroken
<1>d. UNCHANGED <<alive, revived>> => UNCHANGED Unbroken
  BY DEF Unbroken
<1>b. ASSUME row'.checkout = NoRun, UNCHANGED Unbroken PROVE Ownership!Next
  <2>1. row.checkout # NoRun
    BY <1>b
  <2> QED BY <1>b, <2>1 DEF Ownership!Next, Ownership!GiveBack
<1>c. ASSUME NEW r \in Runs, row.checkout \notin Unbroken, row'.checkout = r, UNCHANGED Unbroken
      PROVE Ownership!Next
  BY <1>c DEF Ownership!Next, Ownership!Take, Ownership!TakeOver
<1>1. ASSUME NEW r \in Runs, CheckoutCas(r) PROVE Ownership!Next
  <2>1. /\ UNCHANGED Unbroken /\ row'.checkout = r
        /\ CheckoutMatches(row, AgentOf[r], r, call[r].expected)
    BY <1>1, <1>a, <1>d DEF CheckoutCas, CheckedOut, Row
  <2>2. row.checkout # r
    BY <2>1
  <2>3. row.checkout \notin Unbroken
    BY <2>1, <2>2, <1>a DEF CheckoutMatches, LiveOwnerHoldsLock
  <2> QED BY <2>1, <2>3, <1>c
<1>2. ASSUME NEW r \in Runs, AdoptUnowned(r) PROVE Ownership!Next
  <2>1. UNCHANGED Unbroken /\ row'.checkout = r /\ row.checkout = NoRun
    BY <1>2, <1>a, <1>d DEF AdoptUnowned, UnownedMatches, Adopted, Row
  <2> QED BY <2>1, <1>a, <1>c
<1>3. ASSUME NEW r \in Runs, AdoptStale(r) PROVE Ownership!Next
  <2>1. UNCHANGED Unbroken /\ row'.checkout = r /\ StaleMatches(row, AgentOf[r], call[r].seen)
    BY <1>3, <1>a, <1>d DEF AdoptStale, Adopted, Row
  <2>2. row.checkout \in Runs \ Unbroken
    BY <1>3, <2>1, <1>a DEF AdoptStale, At, StaleMatches, AdoptsFromTheDead
  <2> QED BY <2>1, <2>2, <1>c
<1>4. ASSUME NEW r \in Runs, RunEnds(r) \/ ReaperRevives(r) PROVE Ownership!Next
  <2>1. UNCHANGED row
    BY <1>4 DEF RunEnds, ReaperRevives
  <2>2. Unbroken' = Unbroken \/ (r \in Unbroken /\ Unbroken' = Unbroken \ {r})
    BY <1>4 DEF RunEnds, ReaperRevives, Unbroken
  <2> QED BY <2>1, <2>2 DEF Ownership!Next, Ownership!End
<1>5. ASSUME NEW r \in Runs, ReleaseWrite(r) PROVE Ownership!Next
  <2>1. row'.checkout = NoRun /\ UNCHANGED Unbroken
    BY <1>5, <1>a, <1>d DEF ReleaseWrite, Unlocked, Row
  <2> QED BY <2>1, <1>b
<1>6. ASSUME BoardWrite PROVE Ownership!Next
  <2>1. (row'.checkout = row.checkout \/ row'.checkout = NoRun) /\ UNCHANGED Unbroken
    BY <1>6, <1>a, <1>d DEF BoardWrite, Patched, PatchedFields, Unlocked, Row
  <2> QED BY <2>1, <1>b
<1>7. ASSUME AdminForceRelease PROVE Ownership!Next
  <2>1. row'.checkout = NoRun /\ UNCHANGED Unbroken
    BY <1>7, <1>a, <1>d DEF AdminForceRelease, Unlocked, Row
  <2> QED BY <2>1, <1>b
<1>8. ASSUME NEW r \in Runs, Clear(r) \/ ClaimStamp(r) \/ HeartbeatRelease(r) PROVE FALSE
  <2>1. row'.checkout = row.checkout /\ UNCHANGED Unbroken
    BY <1>8, <1>a, <1>d DEF Clear, ClaimStamp, HeartbeatRelease, Unlocked, LockedBy, Row
  <2> QED BY <2>1
<1>9. ASSUME BoardBlocker \/ BoardRead PROVE FALSE
  BY <1>9, <1>a, <1>d DEF BoardBlocker, BoardRead, Row
<1>10. ASSUME NEW r \in Runs,
              Begin(r) \/ Blockers(r) \/ ReadOwner(r) \/ Stale(r) \/ ReadReleased(r)
       PROVE FALSE
  BY <1>10, <1>d DEF Begin, Blockers, ReadOwner, Stale, ReadReleased
<1>11. CASE UNCHANGED vars
  BY <1>11, <1>d DEF vars
<1> QED
  BY <1>1, <1>2, <1>3, <1>4, <1>5, <1>6, <1>7, <1>8, <1>9, <1>10, <1>11 DEF Next, Statement

\* issues.ts implements IssueOwnership: a run that has not been over loses the checkout only
\* because it is given back.  The end of a run that was revived, and the revival itself, are
\* no steps of IssueOwnership.
THEOREM Refinement == Spec => ImplementsOwnership
<1>1. Spec => Ownership!Init /\ [][Ownership!Next]_<<row.checkout, Unbroken>>
  BY InitOwnership, NextOwnership, Invariance, PTL DEF Spec
<1> QED BY <1>1 DEF ImplementsOwnership, Ownership!Spec
=============================================================================
