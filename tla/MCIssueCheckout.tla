--------------------------- MODULE MCIssueCheckout ---------------------------
(* Two runs of one agent and a run of another call on one issue. *)
EXTENDS IssueCheckout

CONSTANTS a1, a2, i1

MCNameKey == [a \in Agents |-> a]
MCAgentOf == [r \in Runs |-> IF r = 3 THEN a2 ELSE a1]
MCExpectedSets == {{"todo", "in_progress"}}
=============================================================================
