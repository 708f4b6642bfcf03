--------------------------- MODULE IssueOwnership ---------------------------
(***************************************************************************)
(* What the checkout lock of an issue promises, apart from how issues.ts   *)
(* keeps it: at most one run owns the issue; a free issue can be taken; a   *)
(* run can take the issue over from a run that has been over; and a run    *)
(* that has not been over only loses the issue because it is given back,   *)
(* never because another run takes it.  A run that comes back to life      *)
(* after it was over is not given the issue back, nor protected again.     *)
(***************************************************************************)
CONSTANTS Run, None

VARIABLES owner,   \* the run that owns the issue, or None
          live     \* the runs that have not been over

Init == owner = None /\ live \in SUBSET Run

Take(r) == owner = None /\ owner' = r /\ UNCHANGED live

TakeOver(r) ==
  /\ owner # None /\ owner \notin live
  /\ owner' = r
  /\ UNCHANGED live

GiveBack == owner # None /\ owner' = None /\ UNCHANGED live

End(r) == r \in live /\ live' = live \ {r} /\ UNCHANGED owner

Next ==
  \/ \E r \in Run : Take(r) \/ TakeOver(r) \/ End(r)
  \/ GiveBack

Spec == Init /\ [][Next]_<<owner, live>>
=============================================================================
