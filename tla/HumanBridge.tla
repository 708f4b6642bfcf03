----------------------------- MODULE HumanBridge -----------------------------
(***************************************************************************)
(* How an issue waits for a human: the interactions that agents create on  *)
(* it, the outbox that announces them, the bridges that carry them to a    *)
(* chat provider and bring the answers back (awaiting-human-bridge.ts),    *)
(* and the routes by which the board answers them in the UI.  The outbox   *)
(* worker runs alone; the reconciler (expiry, retries, polls) is started   *)
(* by a timer whether or not the last one is over, so several overlap.     *)
(* All of them await between any two statements; a crash stops them there. *)
(***************************************************************************)
EXTENDS Naturals, FiniteSets

CONSTANTS
  Interactions,  \* issue_thread_interactions rows of the issue
  Kinds,         \* bound: their kinds
  MaxReplies,    \* bound: posts of humans to the provider
  Signals,       \* bound: the kinds of their events and what they say
  Outbox,        \* the outbox worker
  Reconcilers,   \* bound: reconcilers at work at one time
  MaxBridges,    \* bound: awaiting_human_bridges rows
  MaxAttempts,   \* MAX_OUTBOX_ATTEMPTS
  NoInteraction,
  EventKinds,    \* what the environment does
  MaxEvents,     \* bound: how often it does each
  MaxTotal       \* bound: how often it does anything

ASSUME HumanBridgeAssumption ==
  /\ Kinds \subseteq {"request_confirmation", "ask_user_questions"}
  /\ Signals \subseteq [kind : {"reply", "approval_signal"}, verdict : {"approve", "reject", "none"}]
  /\ Outbox \notin Reconcilers
  /\ MaxReplies \in Nat /\ MaxBridges \in Nat /\ MaxAttempts \in Nat /\ MaxTotal \in Nat
  /\ NoInteraction \notin Interactions
  /\ EventKinds = {"undelivered", "unpolled", "old", "post", "ui", "close", "crash"}
  /\ MaxEvents \in [EventKinds -> Nat]

VARIABLES
  issue,        \* status of the issue
  kind,         \* kind of each interaction
  interaction,  \* status of each interaction
  asking,       \* where the call that creates each interaction is
  outbox,       \* awaiting_human_notification_outbox row of each interaction
  bridge,       \* each awaiting_human_bridges row
  openFailed,   \* interactions with a bridge_open_failed entry in the activity log
  posted,       \* what humans have posted, and on the message of which bridge
  recorded,     \* awaiting_human_bridge_inbound_events: the posts that are recorded
  comments,     \* comments made from each post
  settled,      \* how often the effects of each decision have been carried out
  worker,       \* the outbox worker and the reconcilers
  ui,           \* the UI's answer to each interaction
  events,       \* how often the environment has done each
  total         \* how often it has done anything

dataVars == <<issue, kind, interaction, bridge, posted, recorded, comments, settled>>
vars == <<dataVars, asking, outbox, openFailed, worker, ui, events, total>>

Bridges == 1 .. MaxBridges
NoBridge == 0
Replies == 1 .. MaxReplies
NoSignal == [kind |-> "none", verdict |-> "none"]
Workers == {Outbox} \cup Reconcilers

-----------------------------------------------------------------------------
(* Rows. *)

Decisions == {"accepted", "rejected", "answered"}
Open == {"pending_delivery", "waiting_for_human"}
Expirable == Open \cup {"failed"}

OpenFor(i) == {b \in Bridges : bridge[b].of = i /\ bridge[b].status \in Open}
UnusedBridges == {b \in Bridges : bridge[b].status = "none"}
NewBridges == {b \in UnusedBridges : \A c \in UnusedBridges : b <= c}

OutboxRows == [status : {"none", "pending", "processing", "sent", "failed"},
               attempts : 0 .. MaxAttempts]
BridgeRows == [of : Interactions \cup {NoInteraction},
               status : {"none", "closed"} \cup Expirable, delivered : BOOLEAN]
Posts == [on : Bridges \cup {NoBridge}, says : Signals \cup {NoSignal}]
WorkerStates ==
  [pc : {"idle", "lookup", "insert", "reread", "reinsert", "send", "delivered", "undelivered",
         "sent", "failed", "expire", "expired", "nudge", "retry", "poll", "polling", "unpolled",
         "events", "settle", "close"},
   i : Interactions \cup {NoInteraction}, b : Bridges \cup {NoBridge},
   rows : SUBSET Bridges, retries : SUBSET Interactions, posts : SUBSET Replies,
   rejects : BOOLEAN]
AnswerStates == [pc : {"idle", "select", "close"}, rows : SUBSET Bridges]

TypeOK ==
  /\ issue \in {"in_progress", "awaiting_human", "todo", "done"}
  /\ kind \in [Interactions -> Kinds \cup {"none"}]
  /\ interaction \in [Interactions -> {"none", "pending"} \cup Decisions]
  /\ asking \in [Interactions -> {"none", "park", "enqueue", "over"}]
  /\ outbox \in [Interactions -> OutboxRows]
  /\ bridge \in [Bridges -> BridgeRows]
  /\ openFailed \subseteq Interactions
  /\ posted \in [Replies -> Posts]
  /\ recorded \subseteq Replies
  /\ comments \in [Replies -> Nat]
  /\ settled \in [Interactions -> Nat]
  /\ worker \in [Workers -> WorkerStates]
  /\ ui \in [Interactions -> AnswerStates]
  /\ events \in [EventKinds -> Nat]
  /\ total \in 0 .. MaxTotal

IdleWorker == [pc |-> "idle", i |-> NoInteraction, b |-> NoBridge, rows |-> {}, retries |-> {},
               posts |-> {}, rejects |-> FALSE]

Init ==
  /\ issue = "in_progress"
  /\ kind = [i \in Interactions |-> "none"]
  /\ interaction = [i \in Interactions |-> "none"]
  /\ asking = [i \in Interactions |-> "none"]
  /\ outbox = [i \in Interactions |-> [status |-> "none", attempts |-> 0]]
  /\ bridge = [b \in Bridges |-> [of |-> NoInteraction, status |-> "none", delivered |-> FALSE]]
  /\ openFailed = {}
  /\ posted = [e \in Replies |-> [on |-> NoBridge, says |-> NoSignal]]
  /\ recorded = {}
  /\ comments = [e \in Replies |-> 0]
  /\ settled = [i \in Interactions |-> 0]
  /\ worker = [w \in Workers |-> IdleWorker]
  /\ ui = [i \in Interactions |-> [pc |-> "idle", rows |-> {}]]
  /\ events = [e \in EventKinds |-> 0]
  /\ total = 0

Event(e) ==
  /\ events[e] < MaxEvents[e]
  /\ total < MaxTotal
  /\ events' = [events EXCEPT ![e] = @ + 1]
  /\ total' = total + 1
NoEvent == UNCHANGED <<events, total>>

\* The UPDATEs of the service, by id only.
SetBridge(b, status) == bridge' = [bridge EXCEPT ![b].status = status]

\* acceptInteraction, rejectInteraction and answerQuestions: a compare-and-swap of the
\* interaction, and the issue is unparked unless it was accepted.
Decide(i, decision) ==
  /\ interaction' = [interaction EXCEPT ![i] = decision]
  /\ issue' = IF decision # "accepted" /\ issue = "awaiting_human" THEN "todo" ELSE issue

-----------------------------------------------------------------------------
(* An agent asks: create inserts the interaction, parks the issue if it is  *)
(* in progress, and hands it off to the outbox.                             *)

Ask(i) ==
  /\ asking[i] = "none"
  /\ issue \in {"in_progress", "awaiting_human"}
  /\ \E k \in Kinds : kind' = [kind EXCEPT ![i] = k]
  /\ interaction' = [interaction EXCEPT ![i] = "pending"]
  /\ asking' = [asking EXCEPT ![i] = "park"]
  /\ UNCHANGED <<issue, bridge, posted, recorded, comments, settled, outbox, openFailed, worker, ui>>
  /\ NoEvent

Park(i) ==
  /\ asking[i] = "park"
  /\ IF issue = "in_progress"
     THEN issue' = "awaiting_human" /\ asking' = [asking EXCEPT ![i] = "enqueue"]
     ELSE UNCHANGED issue /\ asking' = [asking EXCEPT ![i] = "over"]
  /\ UNCHANGED <<kind, interaction, bridge, posted, recorded, comments, settled, outbox, openFailed,
                 worker, ui>>
  /\ NoEvent

Enqueue(i) ==
  /\ asking[i] = "enqueue"
  /\ outbox' = [outbox EXCEPT ![i].status = "pending"]
  /\ asking' = [asking EXCEPT ![i] = "over"]
  /\ UNCHANGED <<dataVars, openFailed, worker, ui>>
  /\ NoEvent

-----------------------------------------------------------------------------
(* The workers. *)

At(w, pc) == worker[w].pc = pc
Become(w, rec) == worker' = [worker EXCEPT ![w] = rec]
Goto(w, pc) == worker' = [worker EXCEPT ![w].pc = pc]

\* A bridge has been opened or found, or an error was thrown: the outbox worker writes its
\* row, retryFailedBridgeOpenings goes on to the next interaction.
Over(w, pc) ==
  Become(w, IF w = Outbox THEN [IdleWorker EXCEPT !.pc = pc, !.i = worker[w].i]
            ELSE [IdleWorker EXCEPT !.pc = "retry", !.retries = worker[w].retries])
Opened(w) == Over(w, "sent")
Thrown(w) == Over(w, "failed")

\* Mutant: rows in processing are released only after a first attempt.
ReleaseRetried ==
  /\ At(Outbox, "idle")
  /\ \E i \in Interactions :
       /\ outbox[i].status = "processing" /\ outbox[i].attempts > 0
       /\ outbox' = [outbox EXCEPT ![i].status = "pending"]
  /\ UNCHANGED <<dataVars, asking, openFailed, worker, ui>>
  /\ NoEvent

\* processAwaitingHumanNotificationOutbox: rows a crash has left in processing are released ...
Release ==
  /\ At(Outbox, "idle")
  /\ \E i \in Interactions :
       /\ outbox[i].status = "processing"
       /\ outbox' = [outbox EXCEPT ![i].status = "pending"]
  /\ UNCHANGED <<dataVars, asking, openFailed, worker, ui>>
  /\ NoEvent

\* Mutant: the attempts are not looked at.
ClaimUnlimited ==
  /\ At(Outbox, "idle")
  /\ \E i \in Interactions :
       /\ outbox[i].status \in {"pending", "failed"}
       /\ outbox' = [outbox EXCEPT ![i].status = "processing"]
       /\ Become(Outbox, [IdleWorker EXCEPT !.pc = "lookup", !.i = i])
  /\ UNCHANGED <<dataVars, asking, openFailed, ui>>
  /\ NoEvent

\* ... and a row is claimed.
Claim ==
  /\ At(Outbox, "idle")
  /\ \E i \in Interactions :
       /\ outbox[i].status \in {"pending", "failed"}
       /\ outbox[i].attempts < MaxAttempts
       /\ outbox' = [outbox EXCEPT ![i].status = "processing"]
       /\ Become(Outbox, [IdleWorker EXCEPT !.pc = "lookup", !.i = i])
  /\ UNCHANGED <<dataVars, asking, openFailed, ui>>
  /\ NoEvent

\* openOrReuseForInteraction: the SELECT of an open bridge, and the INSERT.  The partial
\* unique index makes the INSERT do nothing when there is an open bridge by then; it is
\* selected again, and the call throws if it has been closed meanwhile.
Lookup(w) ==
  /\ At(w, "lookup")
  /\ IF OpenFor(worker[w].i) # {} THEN Opened(w) ELSE Goto(w, "insert")
  /\ UNCHANGED <<dataVars, asking, outbox, openFailed, ui>>
  /\ NoEvent

Inserted(i) == [of |-> i, status |-> "pending_delivery", delivered |-> FALSE]

\* Mutant: the unique index is missing.
InsertAnother(w) ==
  /\ At(w, "insert")
  /\ \E b \in NewBridges :
       /\ bridge' = [bridge EXCEPT ![b] = Inserted(worker[w].i)]
       /\ Become(w, [worker[w] EXCEPT !.pc = "send", !.b = b])
  /\ UNCHANGED <<issue, kind, interaction, posted, recorded, comments, settled, asking, outbox,
                 openFailed, ui>>
  /\ NoEvent

Insert(w) ==
  /\ At(w, "insert")
  /\ IF OpenFor(worker[w].i) # {} THEN Goto(w, "reread") /\ UNCHANGED bridge
     ELSE \E b \in NewBridges :
            /\ bridge' = [bridge EXCEPT ![b] = Inserted(worker[w].i)]
            /\ Become(w, [worker[w] EXCEPT !.pc = "send", !.b = b])
  /\ UNCHANGED <<issue, kind, interaction, posted, recorded, comments, settled, asking, outbox,
                 openFailed, ui>>
  /\ NoEvent

Reread(w) ==
  /\ At(w, "reread")
  /\ IF OpenFor(worker[w].i) # {} THEN Opened(w) ELSE Thrown(w)
  /\ UNCHANGED <<dataVars, asking, outbox, openFailed, ui>>
  /\ NoEvent

\* The transaction of createRetryBridgeRowAndRedeliver: a new row replaces a failed one.
Reinsert(w) ==
  /\ At(w, "reinsert")
  /\ IF OpenFor(worker[w].i) # {} THEN Opened(w) /\ UNCHANGED bridge
     ELSE \E b \in NewBridges :
            /\ bridge' = [bridge EXCEPT ![b] = Inserted(worker[w].i),
                                        ![worker[w].b].status = "closed"]
            /\ Become(w, [worker[w] EXCEPT !.pc = "send", !.b = b])
  /\ UNCHANGED <<issue, kind, interaction, posted, recorded, comments, settled, asking, outbox,
                 openFailed, ui>>
  /\ NoEvent

\* adapter.send.
Send(w) ==
  /\ At(w, "send")
  /\ \/ /\ bridge' = [bridge EXCEPT ![worker[w].b].delivered = TRUE]
        /\ Goto(w, "delivered")
        /\ NoEvent
     \/ /\ Goto(w, "undelivered")
        /\ UNCHANGED bridge
        /\ Event("undelivered")
  /\ UNCHANGED <<issue, kind, interaction, posted, recorded, comments, settled, asking, outbox,
                 openFailed, ui>>

\* The UPDATE after it.  It looks neither at the row nor at the interaction; it throws if
\* another bridge of the interaction is open.
Delivered(w) ==
  LET b == worker[w].b IN
  /\ At(w, "delivered")
  /\ IF OpenFor(worker[w].i) \ {b} = {}
     THEN SetBridge(b, "waiting_for_human") /\ Opened(w)
     ELSE Thrown(w) /\ UNCHANGED bridge
  /\ UNCHANGED <<issue, kind, interaction, posted, recorded, comments, settled, asking, outbox,
                 openFailed, ui>>
  /\ NoEvent

Undelivered(w) ==
  /\ At(w, "undelivered")
  /\ SetBridge(worker[w].b, "failed")
  /\ openFailed' = openFailed \cup {worker[w].i}
  /\ Thrown(w)
  /\ UNCHANGED <<issue, kind, interaction, posted, recorded, comments, settled, asking, outbox, ui>>
  /\ NoEvent

\* The outbox row is written.
Mark ==
  /\ worker[Outbox].pc \in {"sent", "failed"}
  /\ outbox' = [outbox EXCEPT ![worker[Outbox].i] = [status |-> worker[Outbox].pc,
                                                     attempts |-> @.attempts + 1]]
  /\ Become(Outbox, IdleWorker)
  /\ UNCHANGED <<dataVars, asking, openFailed, ui>>
  /\ NoEvent

-----------------------------------------------------------------------------
(* reconcileAwaitingHumanApprovals: expireWaitingBridges, then              *)
(* retryFailedBridgeOpenings, then pollActiveBridges.                       *)

\* The SELECT of the rows that are too old; they are the first ones.
Reconcile(w) ==
  /\ w \in Reconcilers
  /\ At(w, "idle")
  /\ \/ Become(w, [IdleWorker EXCEPT !.pc = "expire"]) /\ NoEvent
     \/ /\ \E last \in Bridges :
             Become(w, [IdleWorker EXCEPT !.pc = "expire",
                          !.rows = {b \in 1 .. last : bridge[b].status \in Expirable}])
        /\ Event("old")
  /\ UNCHANGED <<dataVars, asking, outbox, openFailed, ui>>

\* Mutant: the expiry does not look at the status of the interaction.
ExpireDecided(w) ==
  /\ At(w, "expire")
  /\ \E b \in worker[w].rows :
       LET i == bridge[b].of
           rejects == kind[i] = "request_confirmation"
       IN /\ \A c \in worker[w].rows : b <= c
          /\ IF rejects THEN Decide(i, "rejected") ELSE UNCHANGED <<issue, interaction>>
          /\ Become(w, [worker[w] EXCEPT !.pc = "expired", !.i = i, !.b = b, !.rows = @ \ {b},
                                         !.rejects = rejects])
  /\ UNCHANGED <<kind, bridge, posted, recorded, comments, settled, asking, outbox, openFailed, ui>>
  /\ NoEvent

\* rejectInteraction throws for questions, and for an interaction that is decided.
Expire(w) ==
  /\ At(w, "expire")
  /\ \E b \in worker[w].rows :
       LET i == bridge[b].of
           rejects == interaction[i] = "pending" /\ kind[i] = "request_confirmation"
       IN /\ \A c \in worker[w].rows : b <= c
          /\ IF rejects THEN Decide(i, "rejected") ELSE UNCHANGED <<issue, interaction>>
          /\ Become(w, [worker[w] EXCEPT !.pc = "expired", !.i = i, !.b = b, !.rows = @ \ {b},
                                         !.rejects = rejects])
  /\ UNCHANGED <<kind, bridge, posted, recorded, comments, settled, asking, outbox, openFailed, ui>>
  /\ NoEvent

ExpireClose(w) ==
  /\ At(w, "expired")
  /\ SetBridge(worker[w].b, "closed")
  /\ Goto(w, "nudge")
  /\ UNCHANGED <<issue, kind, interaction, posted, recorded, comments, settled, asking, outbox,
                 openFailed, ui>>
  /\ NoEvent

\* The agent is woken whether or not the interaction was rejected; if not, the row is
\* closed once more.
ExpireNudge(w) ==
  /\ At(w, "nudge")
  /\ IF worker[w].rejects
     THEN settled' = [settled EXCEPT ![worker[w].i] = @ + 1] /\ UNCHANGED bridge
     ELSE SetBridge(worker[w].b, "closed") /\ UNCHANGED settled
  /\ Become(w, [IdleWorker EXCEPT !.pc = "expire", !.rows = worker[w].rows])
  /\ UNCHANGED <<issue, kind, interaction, posted, recorded, comments, asking, outbox, openFailed, ui>>
  /\ NoEvent

\* The SELECT of interactions whose bridge could not be opened, and have none.
RetrySelect(w) ==
  /\ At(w, "expire")
  /\ worker[w].rows = {}
  /\ Become(w, [IdleWorker EXCEPT !.pc = "retry", !.retries = {i \in openFailed : OpenFor(i) = {}}])
  /\ UNCHANGED <<dataVars, asking, outbox, openFailed, ui>>
  /\ NoEvent

\* resolveOpenForPendingInteractionContext, and the SELECT of the latest failed row.
FailedOf(i) == {b \in Bridges : bridge[b].of = i /\ bridge[b].status = "failed"}

Retry(w) ==
  /\ At(w, "retry")
  /\ \E i \in worker[w].retries :
       LET rest == [IdleWorker EXCEPT !.pc = "retry", !.retries = worker[w].retries \ {i}]
       IN \/ /\ interaction[i] # "pending" \/ issue # "awaiting_human"
             /\ Become(w, rest)
          \/ /\ interaction[i] = "pending" /\ issue = "awaiting_human" /\ FailedOf(i) = {}
             /\ Become(w, [rest EXCEPT !.pc = "lookup", !.i = i])
          \/ /\ interaction[i] = "pending" /\ issue = "awaiting_human"
             /\ \E b \in FailedOf(i) :
                  /\ \A c \in FailedOf(i) : b >= c
                  /\ Become(w, [rest EXCEPT !.pc = "reinsert", !.i = i, !.b = b])
  /\ UNCHANGED <<dataVars, asking, outbox, openFailed, ui>>
  /\ NoEvent

\* The SELECT of pollActiveBridges.
PollSelect(w) ==
  /\ At(w, "retry")
  /\ worker[w].retries = {}
  /\ Become(w, [IdleWorker EXCEPT !.pc = "poll",
                  !.rows = {b \in Bridges : bridge[b].status = "waiting_for_human"}])
  /\ UNCHANGED <<dataVars, asking, outbox, openFailed, ui>>
  /\ NoEvent

NextRow(w) == [IdleWorker EXCEPT !.pc = "poll", !.rows = worker[w].rows]

\* pollBridge reads the row again, and the issue.
PollBridge(w) ==
  /\ At(w, "poll")
  /\ \E b \in worker[w].rows :
       LET rest == [worker[w] EXCEPT !.rows = @ \ {b}] IN
       \/ /\ bridge[b].status # "waiting_for_human"
          /\ Become(w, rest) /\ UNCHANGED bridge
       \/ /\ bridge[b].status = "waiting_for_human" /\ issue = "done"
          /\ Become(w, rest) /\ SetBridge(b, "closed")
       \/ /\ bridge[b].status = "waiting_for_human" /\ issue # "done"
          /\ Become(w, [rest EXCEPT !.pc = "polling", !.b = b, !.i = bridge[b].of])
          /\ UNCHANGED bridge
  /\ UNCHANGED <<issue, kind, interaction, posted, recorded, comments, settled, asking, outbox,
                 openFailed, ui>>
  /\ NoEvent

PollEnd(w) ==
  /\ At(w, "poll")
  /\ worker[w].rows = {}
  /\ Become(w, IdleWorker)
  /\ UNCHANGED <<dataVars, asking, outbox, openFailed, ui>>
  /\ NoEvent

\* adapter.poll: all that has been posted on the bridge's message, or a failure, which the
\* row is marked with, or an exception, after which the next row is polled.
Poll(w) ==
  /\ At(w, "polling")
  /\ \/ /\ Become(w, [worker[w] EXCEPT !.pc = "events",
                        !.posts = {e \in Replies : posted[e].on = worker[w].b}])
        /\ NoEvent
     \/ /\ Goto(w, "unpolled") \/ Become(w, NextRow(w))
        /\ Event("unpolled")
  /\ UNCHANGED <<dataVars, asking, outbox, openFailed, ui>>

Unpolled(w) ==
  /\ At(w, "unpolled")
  /\ SetBridge(worker[w].b, "failed")
  /\ Become(w, NextRow(w))
  /\ UNCHANGED <<issue, kind, interaction, posted, recorded, comments, settled, asking, outbox,
                 openFailed, ui>>
  /\ NoEvent

\* What a post decides about interaction i, if it is recorded: a transaction.
\* approval_signal asks for a text; without a pending confirmation it accepts, which throws.
Verdict(i, e) ==
  LET p == posted[e].says
      pending == interaction[i] = "pending"
      confirm == kind[i] = "request_confirmation"
  IN IF ~pending THEN IF p.kind = "reply" THEN "comment" ELSE "throws"
     ELSE IF ~confirm THEN IF p.kind = "reply" THEN "answered" ELSE "comment"
     ELSE CASE p.verdict = "approve" -> "accepted"
            [] p.verdict = "reject" -> "rejected"
            [] OTHER -> "comment"

Record(e) ==
  /\ recorded' = recorded \cup {e}
  /\ comments' = [comments EXCEPT ![e] = @ + 1]

\* Mutant: only replies are looked up, not signals.
IsRecordedReply(e) == e \in recorded /\ posted[e].says.kind = "reply"

\* A post that is recorded already is skipped, or, if it is a signal about an interaction
\* that is decided, closes the bridge.
IsRecorded(e) == e \in recorded
NextPost(w, e) == [worker[w] EXCEPT !.posts = @ \ {e}]

\* Mutant: a post that is recorded ends the poll.
DuplicateEnds(w, e) ==
  /\ Become(w, NextRow(w))
  /\ UNCHANGED <<issue, interaction, bridge, recorded, comments>>

Duplicate(w, e) ==
  /\ IF Verdict(worker[w].i, e) = "throws"
     THEN SetBridge(worker[w].b, "closed") /\ Become(w, NextRow(w))
     ELSE Become(w, NextPost(w, e)) /\ UNCHANGED bridge
  /\ UNCHANGED <<issue, interaction, recorded, comments>>

Refused(w) ==
  /\ Become(w, NextRow(w))
  /\ UNCHANGED <<issue, interaction, bridge, recorded, comments>>

Commented(w, e) ==
  /\ Record(e)
  /\ Become(w, NextPost(w, e))
  /\ UNCHANGED <<issue, interaction, bridge>>

Decided(w, e) ==
  /\ Record(e)
  /\ Decide(worker[w].i, Verdict(worker[w].i, e))
  /\ SetBridge(worker[w].b, "closed")
  /\ Become(w, [worker[w] EXCEPT !.pc = "settle", !.posts = {}])

\* One event.
Process(w) ==
  /\ At(w, "events")
  /\ \E e \in worker[w].posts :
       LET verdict == Verdict(worker[w].i, e) IN
       \/ IsRecorded(e) /\ Duplicate(w, e)
       \/ ~IsRecorded(e) /\ verdict = "throws" /\ Refused(w)
       \/ ~IsRecorded(e) /\ verdict = "comment" /\ Commented(w, e)
       \/ ~IsRecorded(e) /\ verdict \in Decisions /\ Decided(w, e)
  /\ UNCHANGED <<kind, posted, settled, asking, outbox, openFailed, ui>>
  /\ NoEvent

EventsEnd(w) ==
  /\ At(w, "events")
  /\ worker[w].posts = {}
  /\ Become(w, NextRow(w))
  /\ UNCHANGED <<dataVars, asking, outbox, openFailed, ui>>
  /\ NoEvent

\* The effects of a decision, after its commit: the agent is woken.
PollSettle(w) ==
  /\ At(w, "settle")
  /\ settled' = [settled EXCEPT ![worker[w].i] = @ + 1]
  /\ Goto(w, "close")
  /\ UNCHANGED <<issue, kind, interaction, bridge, posted, recorded, comments, asking, outbox,
                 openFailed, ui>>
  /\ NoEvent

\* closeBridge
PollClose(w) ==
  /\ At(w, "close")
  /\ SetBridge(worker[w].b, "closed")
  /\ Become(w, NextRow(w))
  /\ UNCHANGED <<issue, kind, interaction, posted, recorded, comments, settled, asking, outbox,
                 openFailed, ui>>
  /\ NoEvent

-----------------------------------------------------------------------------
(* The board, the humans, and a crash. *)

\* The routes accept, reject and respond: decide, close all open bridges of the issue, and
\* carry out the effects.
Answer(i) ==
  /\ interaction[i] = "pending"
  /\ \E decision \in IF kind[i] = "request_confirmation" THEN {"accepted", "rejected"}
                     ELSE {"answered"} : Decide(i, decision)
  /\ ui' = [ui EXCEPT ![i].pc = "select"]
  /\ UNCHANGED <<kind, bridge, posted, recorded, comments, settled, asking, outbox, openFailed,
                 worker>>
  /\ Event("ui")

\* Mutant: the handler returns if there is no bridge to close.
AnswerSelectSome(i) ==
  /\ ui[i].pc = "select"
  /\ LET rows == {b \in Bridges : bridge[b].status \in Open}
     IN ui' = [ui EXCEPT ![i] = [pc |-> IF rows = {} THEN "idle" ELSE "close", rows |-> rows]]
  /\ UNCHANGED <<dataVars, asking, outbox, openFailed, worker>>
  /\ NoEvent

AnswerSelect(i) ==
  /\ ui[i].pc = "select"
  /\ ui' = [ui EXCEPT ![i] = [pc |-> "close", rows |-> {b \in Bridges : bridge[b].status \in Open}]]
  /\ UNCHANGED <<dataVars, asking, outbox, openFailed, worker>>
  /\ NoEvent

AnswerClose(i) ==
  /\ ui[i].pc = "close"
  /\ \E b \in ui[i].rows :
       /\ SetBridge(b, "closed")
       /\ ui' = [ui EXCEPT ![i].rows = @ \ {b}]
  /\ UNCHANGED <<issue, kind, interaction, posted, recorded, comments, settled, asking, outbox,
                 openFailed, worker>>
  /\ NoEvent

AnswerSettle(i) ==
  /\ ui[i].pc = "close"
  /\ ui[i].rows = {}
  /\ settled' = [settled EXCEPT ![i] = @ + 1]
  /\ ui' = [ui EXCEPT ![i].pc = "idle"]
  /\ UNCHANGED <<issue, kind, interaction, bridge, posted, recorded, comments, asking, outbox,
                 openFailed, worker>>
  /\ NoEvent

\* A human posts on the message of a bridge, which is there whatever has become of the row.
Post ==
  /\ \E e \in Replies, b \in Bridges, signal \in Signals :
       /\ posted[e].on = NoBridge /\ \A f \in 1 .. e - 1 : posted[f].on # NoBridge
       /\ bridge[b].delivered
       /\ posted' = [posted EXCEPT ![e] = [on |-> b, says |-> signal]]
  /\ UNCHANGED <<issue, kind, interaction, bridge, recorded, comments, settled, asking, outbox,
                 openFailed, worker, ui>>
  /\ Event("post")

\* The board closes the issue.
CloseIssue ==
  /\ issue # "done"
  /\ issue' = "done"
  /\ UNCHANGED <<kind, interaction, bridge, posted, recorded, comments, settled, asking, outbox,
                 openFailed, worker, ui>>
  /\ Event("close")

Crash ==
  /\ asking' = [i \in Interactions |-> IF asking[i] = "none" THEN "none" ELSE "over"]
  /\ worker' = [w \in Workers |-> IdleWorker]
  /\ ui' = [i \in Interactions |-> [pc |-> "idle", rows |-> {}]]
  /\ UNCHANGED <<dataVars, outbox, openFailed>>
  /\ Event("crash")

DeliveryStep(w) ==
  \/ Lookup(w) \/ Insert(w) \/ Reread(w) \/ Reinsert(w)
  \/ Send(w) \/ Delivered(w) \/ Undelivered(w)

OutboxStep == Release \/ Claim \/ DeliveryStep(Outbox) \/ Mark

ReconcilerStep(w) ==
  \/ Reconcile(w)
  \/ Expire(w) \/ ExpireClose(w) \/ ExpireNudge(w)
  \/ RetrySelect(w) \/ Retry(w) \/ DeliveryStep(w)
  \/ PollSelect(w) \/ PollBridge(w) \/ Poll(w) \/ Unpolled(w)
  \/ Process(w) \/ EventsEnd(w) \/ PollSettle(w) \/ PollClose(w)
  \/ PollEnd(w)

AskStep(i) == Park(i) \/ Enqueue(i)
AnswerStep(i) == AnswerSelect(i) \/ AnswerClose(i) \/ AnswerSettle(i)

Next ==
  \/ \E i \in Interactions : Ask(i) \/ AskStep(i) \/ Answer(i) \/ AnswerStep(i)
  \/ OutboxStep
  \/ \E w \in Reconcilers : ReconcilerStep(w)
  \/ Post
  \/ CloseIssue
  \/ Crash

Spec == Init /\ [][Next]_vars

Fairness ==
  /\ WF_vars(OutboxStep)
  /\ \A w \in Reconcilers : WF_vars(ReconcilerStep(w))
FairSpec == Spec /\ Fairness

-----------------------------------------------------------------------------
(* Properties. *)

\* At most one bridge of an interaction is open at a time, whoever opens it: the outbox
\* worker, a retry, or both (the partial unique index, and the retry's transaction).
OneOpenBridge == \A i \in Interactions : Cardinality(OpenFor(i)) <= 1

\* A post is turned into a comment at most once, however many reconcilers have read it and
\* however often the poll returns it (the unique index on the recorded events).
PostOnce == \A e \in Replies : comments[e] <= 1

\* Who decides an interaction carries out the effects of the decision, on every path and
\* whatever the others do meanwhile: unless the server has stopped, some handler has it still
\* to do, or has done it.
Carried(i) ==
  \/ ui[i].pc # "idle"
  \/ \E w \in Workers : worker[w].i = i /\ (worker[w].pc = "settle" \/ worker[w].rejects)
DecisionSettles ==
  \A i \in Interactions :
    interaction[i] \in Decisions /\ settled[i] = 0 /\ events["crash"] = 0 => Carried(i)

\* UI, provider and expiry together decide an interaction once, and the agent is told once
\* and after the decision, also across a crash.
Decision == INSTANCE HumanDecision WITH status <- interaction
ImplementsDecision == Decision!Spec

\* A notification that is due is sent or has failed for good, although the server may stop
\* while it is being sent (the rows in processing are released).
OutboxSettles ==
  \A i \in Interactions :
    outbox[i].status \in {"pending", "processing"}
      ~> outbox[i].status = "sent" \/ outbox[i].attempts = MaxAttempts

\* What a human posts about a pending confirmation on the message of a bridge that waits is
\* heard: it is recorded, unless the bridge stops waiting or the confirmation is decided
\* first.  Other posts, heard or not, do not stop it.
Unheard(e) ==
  /\ posted[e].on # NoBridge /\ e \notin recorded
  /\ LET row == bridge[posted[e].on]
     IN /\ row.status = "waiting_for_human"
        /\ kind[row.of] = "request_confirmation" /\ interaction[row.of] = "pending"
PostHeard == \A e \in Replies : Unheard(e) ~> ~Unheard(e)

=============================================================================
