---------------------------- MODULE MCHumanBridge ----------------------------
(* One interaction of either kind, two posts, two reconcilers at work, and   *)
(* two of the events in any order, the number of each limited here.          *)
EXTENDS HumanBridge
CONSTANTS i1, p1, p2, outboxWorker
MCSignals ==
  [kind : {"reply"}, verdict : {"approve", "reject", "none"}]
    \cup [kind : {"approval_signal"}, verdict : {"approve"}]
Nothing == [e \in EventKinds |-> 0]
MCMaxEvents ==
  [Nothing EXCEPT !["undelivered"] = 2, !["unpolled"] = 1, !["old"] = 1, !["post"] = 2,
                  !["ui"] = 1, !["close"] = 1, !["crash"] = 1]
=============================================================================
