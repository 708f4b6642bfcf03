---------------------------- MODULE PluginHandle ----------------------------
(***************************************************************************)
(* The state of one PluginWorkerHandle (plugin-worker-manager.ts): the     *)
(* variables its closure keeps about the plugin's child process, and what  *)
(* startInternal, stopInternal and the exit handler do to them.  Each      *)
(* operator is the synchronous part of one of these functions;             *)
(* PluginRuntime puts them into the handlers that call them.               *)
(*                                                                         *)
(*   status              WorkerStatus                                      *)
(*   child               childProcess, or NoProc                           *)
(*   intentionalStop     an exit is not a crash                            *)
(*   backoffTimer        a restart is scheduled                            *)
(*   consecutiveCrashes  crashes since the last successful initialize      *)
(***************************************************************************)
EXTENDS Naturals

CONSTANTS
  MaxProcs,    \* bound: child processes of the plugin alive at one time
  MaxCrashes   \* MAX_CONSECUTIVE_CRASHES

ASSUME PluginHandleAssumption ==
  /\ MaxProcs \in Nat
  /\ MaxCrashes \in Nat

Procs == 1 .. MaxProcs
NoProc == 0

WorkerStatuses == {"stopped", "starting", "running", "stopping", "crashed", "backoff"}

Handle == [status : WorkerStatuses, child : Procs \cup {NoProc},
           intentionalStop : BOOLEAN, backoffTimer : BOOLEAN,
           consecutiveCrashes : 0 .. MaxCrashes + 1]

NewHandle == [status |-> "stopped", child |-> NoProc, intentionalStop |-> FALSE,
              backoffTimer |-> FALSE, consecutiveCrashes |-> 0]

\* startInternal throws when a worker is running or starting; not when one is stopping.
MayStart(h) == h.status \notin {"running", "starting"}

\* startInternal up to the initialize call, which child p has been sent.
Started(h, p) ==
  [h EXCEPT !.status = "starting", !.child = p, !.intentionalStop = FALSE]

\* startInternal after initialize has answered ok.
Initialized(h) == [h EXCEPT !.status = "running", !.consecutiveCrashes = 0]

\* startInternal after initialize was rejected or timed out, and killProcess.
InitializeFailed(h) == [h EXCEPT !.status = "crashed"]
Killed(h) ==
  [h EXCEPT !.child = NoProc,
            !.intentionalStop = @ \/ h.child # NoProc,
            !.status = "crashed"]

\* stopInternal: nothing more to do, or a child to be shut down and waited for.
AlreadyStopped(h) == h.status \in {"stopped", "stopping"}
StopRequested(h) ==
  IF AlreadyStopped(h) THEN [h EXCEPT !.backoffTimer = FALSE]
  ELSE [h EXCEPT !.backoffTimer = FALSE, !.intentionalStop = TRUE,
                 !.status = IF h.child = NoProc THEN "stopped" ELSE "stopping"]
Stopped(h) == [h EXCEPT !.status = "stopped"]

(***************************************************************************)
(* handleProcessExit.  An exit nobody has asked for counts as a crash (the *)
(* count starts over when the last one is long ago) and schedules a        *)
(* restart, unless there were too many.                                    *)
(***************************************************************************)
Crashed(h, count) ==
  IF count <= MaxCrashes
  THEN [h EXCEPT !.child = NoProc, !.consecutiveCrashes = count,
                 !.status = "backoff", !.backoffTimer = TRUE]
  ELSE [h EXCEPT !.child = NoProc, !.consecutiveCrashes = count, !.status = "crashed"]

\* Mutant: the number of restarts has no limit.
ExitsUnlimited(h) ==
  IF h.intentionalStop THEN {[Stopped(h) EXCEPT !.child = NoProc]}
  ELSE {[h EXCEPT !.child = NoProc, !.consecutiveCrashes = @ + 1,
                  !.status = "backoff", !.backoffTimer = TRUE]}

Exits(h) ==
  IF h.intentionalStop THEN {[Stopped(h) EXCEPT !.child = NoProc]}
  ELSE {Crashed(h, 1)} \cup
       (IF h.consecutiveCrashes <= MaxCrashes THEN {Crashed(h, h.consecutiveCrashes + 1)}
        ELSE {Crashed(h, h.consecutiveCrashes)})

\* handle.call sends a request: the worker is up or coming up, and its stdin writable.
MayCall(h) == h.status \in {"running", "starting"} /\ h.child # NoProc
=============================================================================
