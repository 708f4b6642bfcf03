--------------------------- MODULE MCRunExecution ---------------------------
(***************************************************************************)
(* Instances of RunExecution for TLC: one issue, at most two agents with   *)
(* one slot each.  Each definition says how often the environment does what *)
(* in the run of that name; MaxTotal bounds the sum.                       *)
(***************************************************************************)
EXTENDS RunExecution

CONSTANTS a1, a2, i1

MCNameKey == [a \in Agents |-> a]
MCMaxConcurrent == [a \in Agents |-> 1]
MCFirstAssignee == [i \in Issues |-> a1]

Nothing == [e \in EventKinds |-> 0]

\* Handlers interleave: wakes, a cancellation, a pause, a budget stop and a crash.
Interleaving ==
  [Nothing EXCEPT !["wake"] = 3, !["cancel"] = 1, !["pause"] = 1, !["budget"] = 1,
                  !["crash"] = 1]

\* What can follow one wake: any two of these.
Recovery ==
  [Nothing EXCEPT !["wake"] = 1, !["crash"] = 2, !["reconcile"] = 1, !["budget"] = 1,
                  !["edit"] = 1, !["transient"] = 1, !["throw"] = 1, !["silent"] = 1]

\* Two wakes, and a crash or a cancellation.
Progress == [Nothing EXCEPT !["wake"] = 2, !["crash"] = 1, !["cancel"] = 1]

\* The runs that refute a promise.
ThreeWakes == [Nothing EXCEPT !["wake"] = 3]
TwoReconciliations == [Nothing EXCEPT !["wake"] = 1, !["reconcile"] = 2]
CrashAndReconcile == [Nothing EXCEPT !["wake"] = 2, !["crash"] = 1, !["reconcile"] = 1]
BudgetAndResume == [Nothing EXCEPT !["wake"] = 2, !["budget"] = 1]
=============================================================================
