------------------------------ MODULE FifoMutex ------------------------------
(***************************************************************************)
(* What a lock that serves its callers in order promises: one caller at a  *)
(* time is inside, and of those who wait the one who asked first is next.  *)
(* Callers are numbered in the order in which they ask.                    *)
(***************************************************************************)
EXTENDS Naturals

CONSTANTS Caller,   \* a set of natural numbers
          Nobody    \* not a caller

VARIABLES waiting,  \* the callers that have asked and not been let in
          inside    \* the caller that is inside, or Nobody

Init == waiting = {} /\ inside = Nobody

Ask(n) ==
  /\ \A m \in waiting : m < n
  /\ waiting' = waiting \cup {n}
  /\ UNCHANGED inside

Enter(n) ==
  /\ inside = Nobody
  /\ n \in waiting
  /\ \A m \in waiting : n <= m
  /\ inside' = n
  /\ waiting' = waiting \ {n}

Exit == inside # Nobody /\ inside' = Nobody /\ UNCHANGED waiting

Next ==
  \/ \E n \in Caller : Ask(n) \/ Enter(n)
  \/ Exit

Spec == Init /\ [][Next]_<<waiting, inside>>
==============================================================================
