-------------------------- MODULE HumanBridge_proofs --------------------------
(***************************************************************************)
(* Theorems about HumanBridge, for every number of interactions, posts,    *)
(* reconcilers and bridges.                                                *)
(***************************************************************************)
EXTENDS HumanBridge, FiniteSetTheorems, TLAPS

-----------------------------------------------------------------------------
(* The inductive invariant. *)

\* The partial unique index.
OpenIsUnique == \A b, c \in Bridges :
  /\ bridge[b].status \in Open /\ bridge[c].status \in Open
  /\ bridge[b].of = bridge[c].of
  => b = c

\* A row that is in use belongs to an interaction that has been asked.
InUse == \A b \in Bridges : bridge[b].status # "none" => bridge[b].of \in Interactions

\* A comment is written together with the record of its post.
CommentIsRecorded == \A e \in Replies : comments[e] = IF e \in recorded THEN 1 ELSE 0

\* What a worker has in its hands: an interaction, rows that exist, and the row that it
\* delivers is one of that interaction.
HandsOf(w) ==
  /\ worker[w].pc \notin {"idle", "expire", "retry", "poll"} => worker[w].i \in Interactions
  /\ worker[w].rejects => worker[w].pc \in {"expired", "nudge"}
  /\ \A b \in worker[w].rows : bridge[b].status # "none"
  /\ worker[w].b # NoBridge => bridge[worker[w].b].status # "none"
  /\ worker[w].pc \in {"send", "delivered", "undelivered"} =>
       worker[w].b # NoBridge /\ bridge[worker[w].b].of = worker[w].i

Hands ==
  /\ \A w \in Workers : HandsOf(w)
  /\ \A i \in Interactions : \A b \in ui[i].rows : bridge[b].status # "none"

\* Those who still have the effects of a decision to carry out.
SettlesUi(i) == ui[i].pc # "idle"
Settles(w, i) == worker[w].i = i /\ (worker[w].pc = "settle" \/ worker[w].rejects)

OneSettles ==
  \A i \in Interactions :
    /\ interaction[i] \notin Decisions => settled[i] = 0
    /\ SettlesUi(i) => interaction[i] \in Decisions /\ settled[i] = 0
    /\ \A w \in Workers : Settles(w, i) =>
         /\ interaction[i] \in Decisions /\ settled[i] = 0 /\ ~SettlesUi(i)
         /\ \A v \in Workers : Settles(v, i) => v = w

\* An interaction that has not been asked is in no state yet.
Asked == \A i \in Interactions : asking[i] = "none" <=> interaction[i] = "none"

LEMMA Constants ==
  /\ MaxReplies \in Nat /\ MaxBridges \in Nat /\ MaxAttempts \in Nat /\ MaxTotal \in Nat
  /\ NoInteraction \notin Interactions /\ Outbox \notin Reconcilers
  /\ MaxEvents \in [EventKinds -> Nat]
  /\ NoBridge \notin Bridges
BY HumanBridgeAssumption DEF NoBridge, Bridges

\* What the workers leave alone.
LEMMA DeliveryFrame ==
  ASSUME NEW w, DeliveryStep(w)
  PROVE  UNCHANGED <<issue, kind, interaction, posted, recorded, comments, settled, asking, outbox,
                     ui>>
BY DEF DeliveryStep, Lookup, Insert, Reread, Reinsert, Send, Delivered, Undelivered, dataVars

LEMMA OutboxFrame ==
  ASSUME OutboxStep
  PROVE  UNCHANGED <<recorded, comments, asking, ui>>
BY DeliveryFrame DEF OutboxStep, Release, Claim, Mark, dataVars

LEMMA ReconcilerFrame ==
  ASSUME NEW w, ReconcilerStep(w)
  PROVE  /\ UNCHANGED <<asking, outbox, ui>>
         /\ UNCHANGED <<recorded, comments>> \/ Process(w)
<1>1. CASE Reconcile(w) \/ Expire(w) \/ ExpireClose(w) \/ ExpireNudge(w)
  BY <1>1 DEF Reconcile, Expire, ExpireClose, ExpireNudge, dataVars
<1>2. CASE RetrySelect(w) \/ Retry(w) \/ PollSelect(w) \/ PollBridge(w)
  BY <1>2 DEF RetrySelect, Retry, PollSelect, PollBridge, dataVars
<1>3. CASE Poll(w) \/ Unpolled(w) \/ Process(w) \/ EventsEnd(w)
  BY <1>3 DEF Poll, Unpolled, Process, EventsEnd, dataVars
<1>4. CASE PollSettle(w) \/ PollClose(w) \/ PollEnd(w)
  BY <1>4 DEF PollSettle, PollClose, PollEnd, dataVars
<1> QED BY <1>1, <1>2, <1>3, <1>4, DeliveryFrame DEF ReconcilerStep

LEMMA EventType ==
  ASSUME TypeOK, NEW e \in EventKinds, Event(e)
  PROVE  (events \in [EventKinds -> Nat] /\ total \in 0 .. MaxTotal)'
BY Constants DEF TypeOK, Event

LEMMA NoEventType ==
  ASSUME TypeOK, NoEvent
  PROVE  (events \in [EventKinds -> Nat] /\ total \in 0 .. MaxTotal)'
BY DEF TypeOK, NoEvent

LEMMA AskType ==
  ASSUME TypeOK, NEW i \in Interactions, Ask(i) \/ AskStep(i)
  PROVE  TypeOK'
<1>1. CASE Ask(i)
  BY <1>1, NoEventType DEF Ask, TypeOK
<1>2. CASE Park(i)
  BY <1>2, NoEventType DEF Park, TypeOK
<1>3. CASE Enqueue(i)
  BY <1>3, NoEventType DEF Enqueue, TypeOK, OutboxRows, dataVars
<1> QED BY <1>1, <1>2, <1>3 DEF AskStep

LEMMA BecomeType ==
  ASSUME TypeOK, NEW w \in Workers, NEW rec \in WorkerStates, Become(w, rec)
  PROVE  (worker \in [Workers -> WorkerStates])'
BY DEF TypeOK, Become

LEMMA SetBridgeType ==
  ASSUME TypeOK, NEW b, NEW status \in {"none", "closed"} \cup Expirable, SetBridge(b, status)
  PROVE  (bridge \in [Bridges -> BridgeRows])'
BY DEF TypeOK, SetBridge, BridgeRows

LEMMA IdleType == IdleWorker \in WorkerStates
BY DEF IdleWorker, WorkerStates

LEMMA OverType ==
  ASSUME TypeOK, NEW w \in Workers, Opened(w) \/ Thrown(w)
  PROVE  (worker \in [Workers -> WorkerStates])'
<1>1. worker[w] \in WorkerStates
  BY DEF TypeOK
<1> QED BY <1>1, BecomeType DEF Opened, Thrown, Over, IdleWorker, WorkerStates

\* A row is taken only while it has attempts left, and nobody else counts them.
AttemptsLeft ==
  worker[Outbox].pc # "idle" =>
    worker[Outbox].i \in Interactions /\ outbox[worker[Outbox].i].attempts < MaxAttempts

LEMMA OutboxType ==
  ASSUME TypeOK, AttemptsLeft, Release \/ Claim \/ Mark
  PROVE  TypeOK'
<1> Outbox \in Workers
  BY DEF Workers
<1>1. CASE Release
  BY <1>1, NoEventType DEF Release, TypeOK, OutboxRows, dataVars
<1>2. CASE Claim
  <2>1. PICK i \in Interactions :
          /\ outbox' = [outbox EXCEPT ![i].status = "processing"]
          /\ Become(Outbox, [IdleWorker EXCEPT !.pc = "lookup", !.i = i])
    BY <1>2 DEF Claim
  <2>2. [IdleWorker EXCEPT !.pc = "lookup", !.i = i] \in WorkerStates
    BY DEF IdleWorker, WorkerStates
  <2>3. (worker \in [Workers -> WorkerStates])'
    BY <2>1, <2>2, BecomeType
  <2>4. (outbox \in [Interactions -> OutboxRows])'
    BY <2>1 DEF TypeOK, OutboxRows
  <2> QED BY <1>2, <2>3, <2>4, NoEventType DEF Claim, TypeOK, dataVars
<1>3. CASE Mark
  <2>1. (worker \in [Workers -> WorkerStates])'
    BY <1>3, IdleType, BecomeType DEF Mark
  <2>2. (outbox \in [Interactions -> OutboxRows])'
    <3> DEFINE i == worker[Outbox].i
    <3>1. i \in Interactions /\ outbox[i].attempts < MaxAttempts /\ outbox[i] \in OutboxRows
      BY <1>3 DEF Mark, AttemptsLeft, TypeOK
    <3>2. outbox[i].attempts + 1 \in 0 .. MaxAttempts
      BY <3>1, Constants DEF OutboxRows
    <3>3. outbox' = [outbox EXCEPT ![i] = [status |-> worker[Outbox].pc,
                                           attempts |-> outbox[i].attempts + 1]]
      BY <1>3 DEF Mark
    <3>4. worker[Outbox].pc \in {"sent", "failed"}
      BY <1>3 DEF Mark
    <3> QED BY <3>1, <3>2, <3>3, <3>4 DEF TypeOK, OutboxRows
  <2> QED BY <1>3, <2>1, <2>2, NoEventType DEF Mark, TypeOK, dataVars
<1> QED BY <1>1, <1>2, <1>3

LEMMA DeliveryType ==
  ASSUME TypeOK, NEW w \in Workers, DeliveryStep(w), HandsOf(w)
  PROVE  TypeOK'
<1>0. worker[w] \in WorkerStates
  BY DEF TypeOK
<1>1. CASE Lookup(w)
  <2>1. (worker \in [Workers -> WorkerStates])'
    <3>1. [worker[w] EXCEPT !.pc = "insert"] \in WorkerStates
      BY <1>0 DEF WorkerStates
    <3>2. CASE Opened(w)
      BY <3>2, OverType
    <3>3. CASE Goto(w, "insert")
      BY <3>3, <3>1 DEF Goto, TypeOK
    <3> QED BY <1>1, <3>2, <3>3 DEF Lookup
  <2> QED BY <1>1, <2>1, NoEventType DEF Lookup, TypeOK, dataVars
<1>2. CASE Insert(w) \/ Reinsert(w)
  <2>1. CASE UNCHANGED bridge /\ Opened(w)
    BY <1>2, <2>1, OverType, NoEventType DEF Insert, Reinsert, TypeOK
  <2>2. ASSUME NEW b \in NewBridges, 
               \/ bridge' = [bridge EXCEPT ![b] = Inserted(worker[w].i)]
               \/ bridge' = [bridge EXCEPT ![b] = Inserted(worker[w].i),
                                           ![worker[w].b].status = "closed"],
               Become(w, [worker[w] EXCEPT !.pc = "send", !.b = b]),
               worker[w].i \in Interactions
        PROVE  TypeOK'
    <3>1. b \in Bridges
      BY DEF NewBridges, UnusedBridges
    <3>2. [worker[w] EXCEPT !.pc = "send", !.b = b] \in WorkerStates
      BY <3>1, <1>0 DEF WorkerStates
    <3>3. Inserted(worker[w].i) \in BridgeRows
      BY <2>2 DEF Inserted, BridgeRows, Expirable, Open
    <3>4. (bridge \in [Bridges -> BridgeRows])'
      <4>1. CASE bridge' = [bridge EXCEPT ![b] = Inserted(worker[w].i)]
        BY <4>1, <3>3 DEF TypeOK
      <4> DEFINE mid == [bridge EXCEPT ![b] = Inserted(worker[w].i)]
      <4>2. mid \in [Bridges -> BridgeRows]
        BY <3>3 DEF TypeOK
      <4>3. CASE bridge' = [mid EXCEPT ![worker[w].b].status = "closed"]
        <5> HIDE DEF mid
        <5> QED BY <4>2, <4>3 DEF BridgeRows
      <4> QED BY <2>2, <4>1, <4>3
    <3>5. (worker \in [Workers -> WorkerStates])'
      BY <2>2, <3>2, BecomeType
    <3> QED BY <1>2, <3>4, <3>5, NoEventType DEF Insert, Reinsert, TypeOK
  <2>3. CASE Insert(w) /\ UNCHANGED bridge /\ Goto(w, "reread")
    <3>1. [worker[w] EXCEPT !.pc = "reread"] \in WorkerStates
      BY <1>0 DEF WorkerStates
    <3>2. (worker \in [Workers -> WorkerStates])'
      BY <2>3, <3>1 DEF Goto, TypeOK
    <3> QED BY <2>3, <3>2, NoEventType DEF Insert, TypeOK
  <2> QED BY <1>2, <2>1, <2>2, <2>3 DEF Insert, Reinsert, At, HandsOf
<1>6. CASE Reread(w)
  BY <1>6, OverType, NoEventType DEF Reread, TypeOK, dataVars
<1>3. CASE Send(w)
  <2>1. (worker \in [Workers -> WorkerStates])'
    <3>1. /\ [worker[w] EXCEPT !.pc = "delivered"] \in WorkerStates
          /\ [worker[w] EXCEPT !.pc = "undelivered"] \in WorkerStates
      BY <1>0 DEF WorkerStates
    <3> QED BY <1>3, <3>1 DEF Send, Goto, TypeOK
  <2>2. (bridge \in [Bridges -> BridgeRows])'
    <3>1. CASE bridge' = [bridge EXCEPT ![worker[w].b].delivered = TRUE]
      BY <3>1 DEF TypeOK, BridgeRows
    <3> QED BY <1>3, <3>1 DEF Send, TypeOK
  <2>3. (events \in [EventKinds -> Nat] /\ total \in 0 .. MaxTotal)'
    BY <1>3, NoEventType, EventType, HumanBridgeAssumption DEF Send
  <2> QED BY <1>3, <2>1, <2>2, <2>3 DEF Send, TypeOK
<1>4. CASE Delivered(w)
  <2>1. (worker \in [Workers -> WorkerStates])'
    BY <1>4, OverType DEF Delivered
  <2>2. (bridge \in [Bridges -> BridgeRows])'
    BY <1>4, SetBridgeType DEF Delivered, Expirable, Open, TypeOK
  <2> QED BY <1>4, <2>1, <2>2, NoEventType DEF Delivered, TypeOK
<1>5. CASE Undelivered(w)
  <2>1. (worker \in [Workers -> WorkerStates])'
    BY <1>5, OverType DEF Undelivered
  <2>2. (bridge \in [Bridges -> BridgeRows])'
    BY <1>5, SetBridgeType DEF Undelivered, Expirable
  <2> QED BY <1>5, <2>1, <2>2, NoEventType DEF Undelivered, TypeOK, HandsOf, At
<1> QED BY <1>1, <1>2, <1>3, <1>4, <1>5, <1>6 DEF DeliveryStep

\* What the reconcilers set themselves to next.
LEMMA RecType ==
  ASSUME TypeOK, NEW w \in Workers
  PROVE  /\ worker[w] \in WorkerStates
         /\ NextRow(w) \in WorkerStates
         /\ \A pc \in {"nudge", "close", "unpolled"} : [worker[w] EXCEPT !.pc = pc] \in WorkerStates
<1>1. worker[w] \in WorkerStates
  BY DEF TypeOK
<1>2. NextRow(w) \in WorkerStates
  <2>1. worker[w].rows \in SUBSET Bridges
    BY <1>1 DEF WorkerStates
  <2> QED BY <2>1 DEF NextRow, IdleWorker, WorkerStates
<1>3. ASSUME NEW pc \in {"nudge", "close", "unpolled"}
      PROVE  [worker[w] EXCEPT !.pc = pc] \in WorkerStates
  BY <1>1 DEF WorkerStates
<1> QED BY <1>1, <1>2, <1>3

LEMMA DecideType ==
  ASSUME TypeOK, NEW i, NEW decision \in Decisions, Decide(i, decision)
  PROVE  (/\ issue \in {"in_progress", "awaiting_human", "todo", "done"}
          /\ interaction \in [Interactions -> {"none", "pending"} \cup Decisions])'
BY DEF TypeOK, Decide

LEMMA ExpireType ==
  ASSUME TypeOK, NEW w \in Reconcilers, HandsOf(w), InUse,
         Reconcile(w) \/ Expire(w) \/ ExpireClose(w) \/ ExpireNudge(w)
  PROVE  TypeOK'
<1>0. w \in Workers
  BY DEF Workers
<1>1. CASE Reconcile(w)
  <2>1. \A S \in SUBSET Bridges : [IdleWorker EXCEPT !.pc = "expire", !.rows = S] \in WorkerStates
    BY DEF IdleWorker, WorkerStates
  <2>2. [IdleWorker EXCEPT !.pc = "expire"] \in WorkerStates
    BY DEF IdleWorker, WorkerStates
  <2>3. \A last \in Bridges : {b \in 1 .. last : bridge[b].status \in Expirable} \subseteq Bridges
    BY HumanBridgeAssumption DEF Bridges
  <2>4. (worker \in [Workers -> WorkerStates])'
    BY <1>0, <1>1, <2>1, <2>2, <2>3, BecomeType DEF Reconcile
  <2>5. (events \in [EventKinds -> Nat] /\ total \in 0 .. MaxTotal)'
    BY <1>1, NoEventType, EventType, HumanBridgeAssumption DEF Reconcile
  <2> QED BY <1>1, <2>4, <2>5 DEF Reconcile, TypeOK, dataVars
<1>2. CASE Expire(w)
  <2>1. PICK b \in worker[w].rows :
          LET i == bridge[b].of
              rejects == interaction[i] = "pending" /\ kind[i] = "request_confirmation"
          IN /\ IF rejects THEN Decide(i, "rejected") ELSE UNCHANGED <<issue, interaction>>
             /\ Become(w, [worker[w] EXCEPT !.pc = "expired", !.i = i, !.b = b, !.rows = @ \ {b},
                                            !.rejects = rejects])
    BY <1>2 DEF Expire
  <2>2. b \in Bridges /\ bridge[b].of \in Interactions
    BY <1>0, RecType DEF HandsOf, InUse, WorkerStates
  <2>3. \A p \in BOOLEAN : [worker[w] EXCEPT !.pc = "expired", !.i = bridge[b].of, !.b = b,
                              !.rows = @ \ {b}, !.rejects = p] \in WorkerStates
    BY <1>0, <2>2, RecType DEF WorkerStates
  <2>4. (worker \in [Workers -> WorkerStates])'
    BY <1>0, <2>1, <2>3, BecomeType
  <2>5. (/\ issue \in {"in_progress", "awaiting_human", "todo", "done"}
         /\ interaction \in [Interactions -> {"none", "pending"} \cup Decisions])'
    BY <2>1, DecideType DEF TypeOK, Decisions
  <2> QED BY <1>2, <2>4, <2>5, NoEventType DEF Expire, TypeOK
<1>3. CASE ExpireClose(w)
  <2>1. (worker \in [Workers -> WorkerStates])'
    BY <1>0, <1>3, RecType DEF ExpireClose, Goto, TypeOK
  <2> QED BY <1>3, <2>1, SetBridgeType, NoEventType DEF ExpireClose, TypeOK
<1>4. CASE ExpireNudge(w)
  <2>1. [IdleWorker EXCEPT !.pc = "expire", !.rows = worker[w].rows] \in WorkerStates
    BY <1>0, RecType DEF IdleWorker, WorkerStates
  <2>2. (worker \in [Workers -> WorkerStates])'
    BY <1>0, <1>4, <2>1, BecomeType DEF ExpireNudge
  <2>3. (bridge \in [Bridges -> BridgeRows] /\ settled \in [Interactions -> Nat])'
    BY <1>4, SetBridgeType DEF ExpireNudge, TypeOK
  <2> QED BY <1>4, <2>2, <2>3, NoEventType DEF ExpireNudge, TypeOK
<1> QED BY <1>1, <1>2, <1>3, <1>4

LEMMA RetryType ==
  ASSUME TypeOK, NEW w \in Reconcilers, RetrySelect(w) \/ Retry(w) \/ PollSelect(w)
  PROVE  TypeOK'
<1>0. w \in Workers
  BY DEF Workers
<1>1. CASE RetrySelect(w)
  <2>1. [IdleWorker EXCEPT !.pc = "retry", !.retries = {i \in openFailed : OpenFor(i) = {}}]
          \in WorkerStates
    BY DEF IdleWorker, WorkerStates, TypeOK
  <2>2. (worker \in [Workers -> WorkerStates])'
    BY <1>0, <1>1, <2>1, BecomeType DEF RetrySelect
  <2> QED BY <1>1, <2>2, NoEventType DEF RetrySelect, TypeOK, dataVars
<1>2. CASE Retry(w)
  <2>1. PICK i \in worker[w].retries :
          LET rest == [IdleWorker EXCEPT !.pc = "retry", !.retries = worker[w].retries \ {i}]
          IN \/ Become(w, rest)
             \/ Become(w, [rest EXCEPT !.pc = "lookup", !.i = i])
             \/ \E b \in FailedOf(i) : Become(w, [rest EXCEPT !.pc = "reinsert", !.i = i, !.b = b])
    BY <1>2 DEF Retry
  <2>2. i \in Interactions /\ worker[w].retries \ {i} \in SUBSET Interactions
    BY <1>0, RecType DEF WorkerStates
  <2> DEFINE rest == [IdleWorker EXCEPT !.pc = "retry", !.retries = worker[w].retries \ {i}]
  <2>3. /\ rest \in WorkerStates
        /\ [rest EXCEPT !.pc = "lookup", !.i = i] \in WorkerStates
        /\ \A b \in Bridges : [rest EXCEPT !.pc = "reinsert", !.i = i, !.b = b] \in WorkerStates
    BY <2>2 DEF IdleWorker, WorkerStates
  <2>4. (worker \in [Workers -> WorkerStates])'
    BY <1>0, <2>1, <2>3, BecomeType DEF FailedOf
  <2> QED BY <1>2, <2>4, NoEventType DEF Retry, TypeOK, dataVars
<1>3. CASE PollSelect(w)
  <2>1. [IdleWorker EXCEPT !.pc = "poll",
           !.rows = {b \in Bridges : bridge[b].status = "waiting_for_human"}] \in WorkerStates
    BY DEF IdleWorker, WorkerStates
  <2>2. (worker \in [Workers -> WorkerStates])'
    BY <1>0, <1>3, <2>1, BecomeType DEF PollSelect
  <2> QED BY <1>3, <2>2, NoEventType DEF PollSelect, TypeOK, dataVars
<1> QED BY <1>1, <1>2, <1>3

LEMMA PollType ==
  ASSUME TypeOK, NEW w \in Reconcilers, HandsOf(w), InUse,
         PollBridge(w) \/ PollEnd(w) \/ Poll(w) \/ Unpolled(w)
  PROVE  TypeOK'
<1>0. w \in Workers
  BY DEF Workers
<1>1. CASE PollBridge(w)
  <2>1. PICK b \in worker[w].rows :
          LET rest == [worker[w] EXCEPT !.rows = @ \ {b}]
          IN \/ Become(w, rest) /\ (UNCHANGED bridge \/ SetBridge(b, "closed"))
             \/ Become(w, [rest EXCEPT !.pc = "polling", !.b = b, !.i = bridge[b].of])
                /\ UNCHANGED bridge
    BY <1>1 DEF PollBridge
  <2>2. b \in Bridges /\ bridge[b].of \in Interactions
    BY <1>0, RecType DEF HandsOf, InUse, WorkerStates
  <2> DEFINE rest == [worker[w] EXCEPT !.rows = @ \ {b}]
  <2>3. /\ rest \in WorkerStates
        /\ [rest EXCEPT !.pc = "polling", !.b = b, !.i = bridge[b].of] \in WorkerStates
    BY <1>0, <2>2, RecType DEF WorkerStates
  <2>4. (worker \in [Workers -> WorkerStates])'
    BY <1>0, <2>1, <2>3, BecomeType
  <2>5. (bridge \in [Bridges -> BridgeRows])'
    BY <2>1, SetBridgeType DEF TypeOK
  <2> QED BY <1>1, <2>4, <2>5, NoEventType DEF PollBridge, TypeOK
<1>2. CASE PollEnd(w)
  <2>1. (worker \in [Workers -> WorkerStates])'
    BY <1>0, <1>2, IdleType, BecomeType DEF PollEnd
  <2> QED BY <1>2, <2>1, NoEventType DEF PollEnd, TypeOK, dataVars
<1>3. CASE Poll(w)
  <2>1. [worker[w] EXCEPT !.pc = "events", !.posts = {e \in Replies : posted[e].on = worker[w].b}]
          \in WorkerStates
    BY <1>0, RecType DEF WorkerStates
  <2>2. (worker \in [Workers -> WorkerStates])'
    BY <1>0, <1>3, <2>1, RecType, BecomeType DEF Poll, Goto, Become, TypeOK
  <2>3. (events \in [EventKinds -> Nat] /\ total \in 0 .. MaxTotal)'
    BY <1>3, NoEventType, EventType, HumanBridgeAssumption DEF Poll
  <2> QED BY <1>3, <2>2, <2>3 DEF Poll, TypeOK, dataVars
<1>4. CASE Unpolled(w)
  <2>1. (worker \in [Workers -> WorkerStates])'
    BY <1>0, <1>4, RecType, BecomeType DEF Unpolled
  <2> QED BY <1>4, <2>1, SetBridgeType, NoEventType DEF Unpolled, TypeOK, Expirable
<1> QED BY <1>1, <1>2, <1>3, <1>4

LEMMA ProcessType ==
  ASSUME TypeOK, NEW w \in Reconcilers, Process(w)
  PROVE  TypeOK'
<1>0. w \in Workers
  BY DEF Workers
<1>1. PICK e \in worker[w].posts :
        \/ Duplicate(w, e)
        \/ Refused(w)
        \/ Commented(w, e)
        \/ Verdict(worker[w].i, e) \in Decisions /\ Decided(w, e)
  BY DEF Process
<1>2. e \in Replies /\ worker[w] \in WorkerStates /\ NextRow(w) \in WorkerStates
  BY <1>0, RecType DEF WorkerStates
<1>3. /\ NextPost(w, e) \in WorkerStates
      /\ [worker[w] EXCEPT !.pc = "settle", !.posts = {}] \in WorkerStates
  BY <1>2 DEF WorkerStates, NextPost
<1>4. (worker \in [Workers -> WorkerStates])'
  BY <1>0, <1>1, <1>2, <1>3, BecomeType DEF Duplicate, Refused, Commented, Decided
<1>5. (bridge \in [Bridges -> BridgeRows])'
  BY <1>1, SetBridgeType DEF Duplicate, Refused, Commented, Decided, TypeOK
<1>6. (recorded \subseteq Replies /\ comments \in [Replies -> Nat])'
  BY <1>1, <1>2 DEF Duplicate, Refused, Commented, Decided, Record, TypeOK
<1>7. (/\ issue \in {"in_progress", "awaiting_human", "todo", "done"}
       /\ interaction \in [Interactions -> {"none", "pending"} \cup Decisions])'
  BY <1>1, DecideType DEF Duplicate, Refused, Commented, Decided, TypeOK
<1> QED BY <1>4, <1>5, <1>6, <1>7, NoEventType DEF Process, TypeOK

LEMMA SettleType ==
  ASSUME TypeOK, NEW w \in Reconcilers, HandsOf(w), EventsEnd(w) \/ PollSettle(w) \/ PollClose(w)
  PROVE  TypeOK'
<1>0. w \in Workers
  BY DEF Workers
<1>1. CASE EventsEnd(w)
  <2>1. (worker \in [Workers -> WorkerStates])'
    BY <1>0, <1>1, RecType, BecomeType DEF EventsEnd
  <2> QED BY <1>1, <2>1, NoEventType DEF EventsEnd, TypeOK, dataVars
<1>2. CASE PollSettle(w)
  <2>1. (worker \in [Workers -> WorkerStates])'
    BY <1>0, <1>2, RecType DEF PollSettle, Goto, TypeOK
  <2>2. (settled \in [Interactions -> Nat])'
    BY <1>2 DEF PollSettle, TypeOK, HandsOf, At
  <2> QED BY <1>2, <2>1, <2>2, NoEventType DEF PollSettle, TypeOK
<1>3. CASE PollClose(w)
  <2>1. (worker \in [Workers -> WorkerStates])'
    BY <1>0, <1>3, RecType, BecomeType DEF PollClose
  <2> QED BY <1>3, <2>1, SetBridgeType, NoEventType DEF PollClose, TypeOK
<1> QED BY <1>1, <1>2, <1>3

LEMMA AnswerType ==
  ASSUME TypeOK, NEW i \in Interactions, Answer(i) \/ AnswerStep(i)
  PROVE  TypeOK'
<1>1. CASE Answer(i)
  <2>1. (/\ issue \in {"in_progress", "awaiting_human", "todo", "done"}
         /\ interaction \in [Interactions -> {"none", "pending"} \cup Decisions])'
    BY <1>1, DecideType DEF Answer, Decisions
  <2>2. (ui \in [Interactions -> AnswerStates])'
    BY <1>1 DEF Answer, TypeOK, AnswerStates
  <2> QED BY <1>1, <2>1, <2>2, EventType, HumanBridgeAssumption DEF Answer, TypeOK
<1>2. CASE AnswerSelect(i)
  <2>1. (ui \in [Interactions -> AnswerStates])'
    BY <1>2 DEF AnswerSelect, TypeOK, AnswerStates
  <2> QED BY <1>2, <2>1, NoEventType DEF AnswerSelect, TypeOK, dataVars
<1>3. CASE AnswerClose(i)
  <2>1. (ui \in [Interactions -> AnswerStates])'
    BY <1>3 DEF AnswerClose, TypeOK, AnswerStates
  <2> QED BY <1>3, <2>1, SetBridgeType, NoEventType DEF AnswerClose, TypeOK
<1>4. CASE AnswerSettle(i)
  <2>1. (ui \in [Interactions -> AnswerStates] /\ settled \in [Interactions -> Nat])'
    BY <1>4 DEF AnswerSettle, TypeOK, AnswerStates
  <2> QED BY <1>4, <2>1, NoEventType DEF AnswerSettle, TypeOK
<1> QED BY <1>1, <1>2, <1>3, <1>4 DEF AnswerStep

LEMMA EnvironmentType ==
  ASSUME TypeOK, Post \/ CloseIssue \/ Crash
  PROVE  TypeOK'
<1>1. CASE Post
  <2>1. (posted \in [Replies -> Posts])'
    BY <1>1 DEF Post, TypeOK, Posts
  <2> QED BY <1>1, <2>1, EventType, HumanBridgeAssumption DEF Post, TypeOK
<1>2. CASE CloseIssue
  BY <1>2, EventType, HumanBridgeAssumption DEF CloseIssue, TypeOK
<1>3. CASE Crash
  <2>1. (/\ asking \in [Interactions -> {"none", "park", "enqueue", "over"}]
         /\ worker \in [Workers -> WorkerStates]
         /\ ui \in [Interactions -> AnswerStates])'
    BY <1>3, IdleType DEF Crash, TypeOK, AnswerStates
  <2> QED BY <1>3, <2>1, EventType, HumanBridgeAssumption DEF Crash, TypeOK, dataVars
<1> QED BY <1>1, <1>2, <1>3

-----------------------------------------------------------------------------
(* What can happen to the rows of the bridges. *)

Existing(b) == b \in Bridges /\ bridge[b].status # "none"

NewRow(i) == \E b \in NewBridges : bridge' = [bridge EXCEPT ![b] = Inserted(i)]

Replaced(i, old) ==
  \E b \in NewBridges : bridge' = [bridge EXCEPT ![b] = Inserted(i), ![old].status = "closed"]

Moves ==
  \/ UNCHANGED bridge
  \/ \E b : (b = NoBridge \/ Existing(b)) /\ (SetBridge(b, "closed") \/ SetBridge(b, "failed"))
  \/ \E b : Existing(b) /\ bridge' = [bridge EXCEPT ![b].delivered = TRUE]
  \/ \E b : /\ Existing(b) /\ OpenFor(bridge[b].of) \ {b} = {}
            /\ SetBridge(b, "waiting_for_human")
  \/ \E i \in Interactions : OpenFor(i) = {} /\ NewRow(i)
  \/ \E i \in Interactions : OpenFor(i) = {} /\ (\E b : Replaced(i, b) /\ (b = NoBridge \/ Existing(b)))

LEMMA InHand ==
  ASSUME TypeOK, Hands, NEW w \in Workers
  PROVE  /\ worker[w] \in WorkerStates /\ HandsOf(w)
         /\ worker[w].b = NoBridge \/ Existing(worker[w].b)
         /\ \A b \in worker[w].rows : Existing(b)
BY DEF TypeOK, Hands, HandsOf, WorkerStates, Existing

LEMMA DeliveryMoves ==
  ASSUME TypeOK, Hands, NEW w \in Workers, DeliveryStep(w)
  PROVE  Moves
<1>1. CASE Lookup(w)
  BY <1>1 DEF Lookup, Moves, dataVars
<1>2. CASE Insert(w)
  BY <1>2, InHand DEF Insert, Moves, NewRow, HandsOf, At
<1>3. CASE Reinsert(w)
  BY <1>3, InHand DEF Reinsert, Moves, Replaced, HandsOf, At
<1>4. CASE Send(w)
  BY <1>4, InHand DEF Send, Moves, HandsOf, At
<1>5. CASE Delivered(w)
  BY <1>5, InHand DEF Delivered, Moves, HandsOf, At
<1>6. CASE Undelivered(w)
  BY <1>6, InHand DEF Undelivered, Moves, HandsOf, At
<1>7. CASE Reread(w)
  BY <1>7 DEF Reread, Moves, dataVars
<1> QED BY <1>1, <1>2, <1>3, <1>4, <1>5, <1>6, <1>7 DEF DeliveryStep

LEMMA ReconcilerMoves ==
  ASSUME TypeOK, Hands, NEW w \in Reconcilers, ReconcilerStep(w)
  PROVE  Moves
<1> w \in Workers
  BY DEF Workers
<1>1. CASE Reconcile(w) \/ RetrySelect(w) \/ Retry(w) \/ PollSelect(w) \/ PollEnd(w) \/ Poll(w)
            \/ EventsEnd(w)
  BY <1>1 DEF Reconcile, RetrySelect, Retry, PollSelect, PollEnd, Poll, EventsEnd, Moves, dataVars
<1>2. CASE Expire(w) \/ PollSettle(w)
  BY <1>2 DEF Expire, PollSettle, Moves
<1>3. CASE ExpireClose(w) \/ ExpireNudge(w)
  BY <1>3, InHand DEF ExpireClose, ExpireNudge, Moves
<1>4. CASE PollBridge(w)
  BY <1>4, InHand DEF PollBridge, Moves
<1>5. CASE Unpolled(w) \/ PollClose(w)
  BY <1>5, InHand DEF Unpolled, PollClose, Moves
<1>6. CASE Process(w)
  <2>1. UNCHANGED bridge \/ SetBridge(worker[w].b, "closed")
    BY <1>6 DEF Process, Duplicate, Refused, Commented, Decided
  <2> QED BY <2>1, InHand DEF Moves
<1>7. CASE DeliveryStep(w)
  BY <1>7, DeliveryMoves
<1> QED BY <1>1, <1>2, <1>3, <1>4, <1>5, <1>6, <1>7 DEF ReconcilerStep

LEMMA NextMoves ==
  ASSUME TypeOK, Hands, [Next]_vars
  PROVE  Moves
<1>1. ASSUME NEW i \in Interactions, Ask(i) \/ AskStep(i) PROVE Moves
  BY <1>1 DEF Ask, AskStep, Park, Enqueue, dataVars, Moves
<1>2. ASSUME NEW i \in Interactions, Answer(i) \/ AnswerStep(i) PROVE Moves
  <2>1. CASE AnswerClose(i)
    BY <2>1 DEF AnswerClose, Moves, Hands, Existing, TypeOK, AnswerStates
  <2> QED BY <1>2, <2>1 DEF Answer, AnswerStep, AnswerSelect, AnswerSettle, dataVars, Moves
<1>3. CASE OutboxStep
  <2>1. CASE DeliveryStep(Outbox)
    BY <2>1, DeliveryMoves DEF Workers
  <2> QED BY <1>3, <2>1 DEF OutboxStep, Release, Claim, Mark, dataVars, Moves
<1>4. ASSUME NEW w \in Reconcilers, ReconcilerStep(w) PROVE Moves
  BY <1>4, ReconcilerMoves
<1>5. CASE Post \/ CloseIssue \/ Crash
  BY <1>5 DEF Post, CloseIssue, Crash, dataVars, Moves
<1>6. CASE UNCHANGED vars
  BY <1>6 DEF vars, dataVars, Moves
<1> QED BY <1>1, <1>2, <1>3, <1>4, <1>5, <1>6 DEF Next

\* A row that exists stays, with the same interaction.
LEMMA RowsStay ==
  ASSUME TypeOK, Moves, NEW b, Existing(b)
  PROVE  Existing(b)' /\ bridge'[b].of = bridge[b].of
<1>1. b \in Bridges /\ bridge[b].status # "none" /\ b \notin NewBridges
  BY DEF Existing, NewBridges, UnusedBridges
<1>2. CASE UNCHANGED bridge
  BY <1>1, <1>2 DEF Existing
<1>3. ASSUME NEW x, NEW status \in {"closed", "failed", "waiting_for_human"}, SetBridge(x, status)
      PROVE  Existing(b)' /\ bridge'[b].of = bridge[b].of
  BY <1>1, <1>3 DEF Existing, SetBridge, TypeOK, BridgeRows
<1>4. ASSUME NEW x, bridge' = [bridge EXCEPT ![x].delivered = TRUE]
      PROVE  Existing(b)' /\ bridge'[b].of = bridge[b].of
  BY <1>1, <1>4 DEF Existing, TypeOK, BridgeRows
<1>5. ASSUME NEW i, NewRow(i)
      PROVE  Existing(b)' /\ bridge'[b].of = bridge[b].of
  BY <1>1, <1>5 DEF Existing, NewRow, TypeOK
<1>6. ASSUME NEW i, NEW old, Replaced(i, old)
      PROVE  Existing(b)' /\ bridge'[b].of = bridge[b].of
  BY <1>1, <1>6 DEF Existing, Replaced, TypeOK, BridgeRows
<1> QED BY <1>2, <1>3, <1>4, <1>5, <1>6 DEF Moves

LEMMA NextInUse ==
  ASSUME TypeOK, InUse, Moves
  PROVE  InUse'
<1> SUFFICES ASSUME NEW b \in Bridges, bridge'[b].status # "none"
             PROVE  bridge'[b].of \in Interactions
  BY DEF InUse
<1>1. CASE Existing(b)
  BY <1>1, RowsStay DEF Existing, InUse
<1>2. CASE ~Existing(b)
  <2>0. bridge[b].status = "none"
    BY <1>2 DEF Existing
  <2>1. CASE UNCHANGED bridge
    BY <2>0, <2>1
  <2>2. ASSUME NEW x, x = NoBridge \/ Existing(x), NEW status, SetBridge(x, status)
        PROVE  FALSE
    BY <1>2, <2>0, <2>2, Constants DEF SetBridge, TypeOK
  <2>3. ASSUME NEW x, Existing(x), bridge' = [bridge EXCEPT ![x].delivered = TRUE]
        PROVE  FALSE
    BY <1>2, <2>0, <2>3 DEF TypeOK
  <2>4. ASSUME NEW i \in Interactions, NewRow(i)
        PROVE  bridge'[b].of \in Interactions
    BY <2>0, <2>4 DEF NewRow, Inserted, TypeOK
  <2>5. ASSUME NEW i \in Interactions, NEW x, x = NoBridge \/ Existing(x), Replaced(i, x)
        PROVE  bridge'[b].of \in Interactions
    BY <1>2, <2>0, <2>5, Constants DEF Replaced, Inserted, TypeOK
  <2> QED BY <2>1, <2>2, <2>3, <2>4, <2>5 DEF Moves
<1> QED BY <1>1, <1>2

LEMMA NextOpenIsUnique ==
  ASSUME TypeOK, OpenIsUnique, Moves
  PROVE  OpenIsUnique'
<1> SUFFICES ASSUME NEW b \in Bridges, NEW c \in Bridges,
                    bridge'[b].status \in Open, bridge'[c].status \in Open,
                    bridge'[b].of = bridge'[c].of, b # c
             PROVE  FALSE
  BY DEF OpenIsUnique
<1>1. CASE UNCHANGED bridge
  BY <1>1 DEF OpenIsUnique
<1>2. ASSUME NEW x, NEW status \in {"closed", "failed"}, SetBridge(x, status)
      PROVE  FALSE
  BY <1>2 DEF SetBridge, OpenIsUnique, Open, TypeOK, BridgeRows
<1>3. ASSUME NEW x, bridge' = [bridge EXCEPT ![x].delivered = TRUE]
      PROVE  FALSE
  BY <1>3 DEF OpenIsUnique, TypeOK, BridgeRows
<1>4. ASSUME NEW x, Existing(x), OpenFor(bridge[x].of) \ {x} = {},
             SetBridge(x, "waiting_for_human")
      PROVE  FALSE
  <2>1. x \in Bridges /\ bridge'[x].of = bridge[x].of
    BY <1>4 DEF Existing, SetBridge, TypeOK, BridgeRows
  <2>2. \A d \in Bridges : d # x => bridge'[d] = bridge[d]
    BY <1>4 DEF SetBridge, TypeOK
  <2>3. \A d \in Bridges : d # x => ~(bridge[d].of = bridge[x].of /\ bridge[d].status \in Open)
    BY <1>4 DEF OpenFor
  <2> QED BY <2>1, <2>2, <2>3 DEF OpenIsUnique
<1>5. ASSUME NEW i \in Interactions, NEW x \in NewBridges, OpenFor(i) = {},
             bridge'[x].of = i, \A d \in Bridges \ {x} : bridge'[d].of = bridge[d].of
                                  /\ (bridge'[d].status \in Open => bridge[d].status \in Open)
      PROVE  FALSE
  BY <1>5 DEF OpenIsUnique, OpenFor, NewBridges, UnusedBridges
<1>6. ASSUME NEW i \in Interactions, OpenFor(i) = {}, NewRow(i)
      PROVE  FALSE
  <2>1. PICK x \in NewBridges : bridge' = [bridge EXCEPT ![x] = Inserted(i)]
    BY <1>6 DEF NewRow
  <2>2. x \in Bridges
    BY DEF NewBridges, UnusedBridges
  <2> QED BY <1>5, <1>6, <2>1, <2>2 DEF Inserted, TypeOK
<1>7. ASSUME NEW i \in Interactions, NEW old, OpenFor(i) = {}, Replaced(i, old),
             old = NoBridge \/ Existing(old)
      PROVE  FALSE
  <2>1. PICK x \in NewBridges :
          bridge' = [bridge EXCEPT ![x] = Inserted(i), ![old].status = "closed"]
    BY <1>7 DEF Replaced
  <2>2. x \in Bridges /\ old # x
    BY <1>7, Constants DEF NewBridges, UnusedBridges, Existing
  <2>3. bridge'[x].of = i
    BY <2>1, <2>2 DEF Inserted, TypeOK
  <2>4. \A d \in Bridges \ {x} : bridge'[d].of = bridge[d].of
           /\ (bridge'[d].status \in Open => bridge[d].status \in Open)
    BY <2>1, <2>2 DEF TypeOK, BridgeRows, Open
  <2> QED BY <1>5, <1>7, <2>3, <2>4
<1> QED BY <1>1, <1>2, <1>3, <1>4, <1>6, <1>7 DEF Moves

-----------------------------------------------------------------------------
(* What the workers have in their hands. *)

LEMMA KeepHands ==
  ASSUME TypeOK, Hands, Moves, NEW w \in Workers, worker'[w] = worker[w]
  PROVE  HandsOf(w)'
<1>1. \A b : Existing(b) => Existing(b)' /\ bridge'[b].of = bridge[b].of
  BY RowsStay
<1> QED BY <1>1, InHand DEF HandsOf, Existing, NoBridge

LEMMA IdleHands ==
  ASSUME NEW w \in Workers, worker'[w] = IdleWorker
  PROVE  HandsOf(w)'
BY DEF HandsOf, IdleWorker

LEMMA OverHands ==
  ASSUME TypeOK, Hands, NEW w \in Workers, Opened(w) \/ Thrown(w), worker[w].i \in Interactions
  PROVE  /\ HandsOf(w)'
         /\ w = Outbox => worker'[w].i = worker[w].i
         /\ \A v \in Workers \ {w} : worker'[v] = worker[v]
<1>1. worker \in [Workers -> WorkerStates]
  BY DEF TypeOK
<1>2. PICK pc \in {"sent", "failed"} : Over(w, pc)
  BY DEF Opened, Thrown
<1>3. /\ \A v \in Workers \ {w} : worker'[v] = worker[v]
      /\ worker'[w] = IF w = Outbox THEN [IdleWorker EXCEPT !.pc = pc, !.i = worker[w].i]
                      ELSE [IdleWorker EXCEPT !.pc = "retry", !.retries = worker[w].retries]
  BY <1>1, <1>2 DEF Over, Become
<1>4. /\ worker'[w].rows = {} /\ worker'[w].b = NoBridge /\ worker'[w].rejects = FALSE
      /\ worker'[w].pc \in {"sent", "failed", "retry"}
      /\ worker'[w].pc # "retry" => worker'[w].i = worker[w].i
      /\ w = Outbox => worker'[w].i = worker[w].i
  BY <1>3 DEF IdleWorker
<1> QED BY <1>3, <1>4 DEF HandsOf

LEMMA DeliveryHands ==
  ASSUME TypeOK, Hands, Moves, NEW w \in Workers, DeliveryStep(w)
  PROVE  /\ HandsOf(w)'
         /\ w = Outbox => worker'[w].i = worker[w].i
         /\ \A v \in Workers \ {w} : worker'[v] = worker[v]
<1>0. /\ worker[w] \in WorkerStates /\ HandsOf(w)
      /\ worker \in [Workers -> WorkerStates]
      /\ \A b : Existing(b) => Existing(b)' /\ bridge'[b].of = bridge[b].of
  BY InHand, RowsStay DEF TypeOK
<1>1. worker[w].i \in Interactions
  BY <1>0 DEF DeliveryStep, Lookup, Insert, Reread, Reinsert, Send, Delivered, Undelivered, HandsOf, At
<1>2. CASE Opened(w) \/ Thrown(w)
  BY <1>1, <1>2, OverHands
<1>3. ASSUME NEW pc \in {"insert", "reread"}, worker[w].pc \in {"lookup", "insert"},
             Goto(w, pc), bridge' = bridge
      PROVE  /\ HandsOf(w)'
             /\ w = Outbox => worker'[w].i = worker[w].i
             /\ \A v \in Workers \ {w} : worker'[v] = worker[v]
  <2>1. worker' = [worker EXCEPT ![w].pc = pc]
    BY <1>3 DEF Goto
  <2> QED BY <1>0, <1>1, <1>3, <2>1 DEF HandsOf, WorkerStates
<1>4. ASSUME NEW b \in NewBridges, 
             \/ bridge' = [bridge EXCEPT ![b] = Inserted(worker[w].i)]
             \/ bridge' = [bridge EXCEPT ![b] = Inserted(worker[w].i),
                                         ![worker[w].b].status = "closed"],
             worker[w].pc \in {"insert", "reinsert"},
             Become(w, [worker[w] EXCEPT !.pc = "send", !.b = b])
      PROVE  /\ HandsOf(w)'
             /\ w = Outbox => worker'[w].i = worker[w].i
             /\ \A v \in Workers \ {w} : worker'[v] = worker[v]
  <2>1. b \in Bridges /\ b # worker[w].b /\ b # NoBridge
    BY <1>0, Constants, InHand DEF NewBridges, UnusedBridges, Existing
  <2>2. bridge'[b].of = worker[w].i /\ bridge'[b].status # "none"
    <3>1. bridge'[b] = Inserted(worker[w].i)
      BY <1>4, <2>1 DEF TypeOK
    <3> QED BY <3>1 DEF Inserted
  <2>3. worker' = [worker EXCEPT ![w] = [worker[w] EXCEPT !.pc = "send", !.b = b]]
    BY <1>4 DEF Become
  <2>4. \A c \in worker[w].rows : bridge'[c].status # "none"
    BY <1>0, InHand DEF Existing
  <2>5. /\ worker'[w].b = b /\ worker'[w].i = worker[w].i /\ worker'[w].pc = "send"
        /\ worker'[w].rows = worker[w].rows /\ worker'[w].rejects = worker[w].rejects
    BY <1>0, <2>3 DEF WorkerStates
  <2>6. ~worker[w].rejects
    BY <1>0, <1>4 DEF HandsOf
  <2>7. \A v \in Workers \ {w} : worker'[v] = worker[v]
    BY <2>3, <1>0
  <2> QED BY <1>1, <2>1, <2>2, <2>4, <2>5, <2>6, <2>7 DEF HandsOf
<1>5. CASE Send(w)
  <2>1. PICK pc \in {"delivered", "undelivered"} : worker' = [worker EXCEPT ![w].pc = pc]
    BY <1>5 DEF Send, Goto
  <2>2. /\ worker'[w].b = worker[w].b /\ worker'[w].i = worker[w].i /\ worker'[w].pc = pc
        /\ worker'[w].rows = worker[w].rows /\ worker'[w].rejects = worker[w].rejects
    BY <1>0, <2>1 DEF WorkerStates
  <2>3. Existing(worker[w].b) /\ ~worker[w].rejects
    BY <1>0, <1>5, InHand DEF Send, At, HandsOf
  <2>4. bridge'[worker[w].b].of = worker[w].i /\ worker[w].b # NoBridge
    BY <1>0, <1>5, <2>3 DEF Send, At, HandsOf
  <2>5. \A c \in worker[w].rows : bridge'[c].status # "none"
    BY <1>0, InHand DEF Existing
  <2> QED BY <1>0, <1>1, <2>1, <2>2, <2>3, <2>4, <2>5 DEF HandsOf, Existing
<1> QED
  <2>1. CASE Lookup(w)
    BY <2>1, <1>2, <1>3 DEF Lookup, At, dataVars
  <2>4. CASE Reread(w)
    BY <2>4, <1>2 DEF Reread
  <2>2. CASE Insert(w) \/ Reinsert(w)
    BY <2>2, <1>2, <1>3, <1>4 DEF Insert, Reinsert, At
  <2>3. CASE Delivered(w) \/ Undelivered(w)
    BY <2>3, <1>2 DEF Delivered, Undelivered
  <2> QED BY <2>1, <2>2, <2>3, <2>4, <1>5 DEF DeliveryStep

\* What a reconciler is set to.
LEMMA SetHands ==
  ASSUME TypeOK, Hands, Moves, NEW w \in Workers, NEW rec \in WorkerStates, Become(w, rec),
         rec.pc \notin {"idle", "expire", "retry", "poll"} => rec.i \in Interactions,
         rec.pc \notin {"send", "delivered", "undelivered"},
         rec.rejects => rec.pc \in {"expired", "nudge"},
         \A b \in rec.rows : Existing(b), rec.b = NoBridge \/ Existing(rec.b)
  PROVE  /\ HandsOf(w)'
         /\ \A v \in Workers \ {w} : worker'[v] = worker[v]
<1>1. worker'[w] = rec /\ \A v \in Workers \ {w} : worker'[v] = worker[v]
  BY DEF Become, TypeOK
<1>2. \A b : Existing(b) => Existing(b)'
  BY RowsStay
<1> QED BY <1>1, <1>2 DEF HandsOf, Existing

LEMMA ReconcilerHands ==
  ASSUME TypeOK, Hands, InUse, Moves, NEW w \in Reconcilers, ReconcilerStep(w)
  PROVE  /\ HandsOf(w)'
         /\ \A v \in Workers \ {w} : worker'[v] = worker[v]
<1> DEFINE Goal == HandsOf(w)' /\ \A v \in Workers \ {w} : worker'[v] = worker[v]
<1>0. w \in Workers /\ w # Outbox
  BY HumanBridgeAssumption DEF Workers
<1>a. /\ worker[w] \in WorkerStates /\ HandsOf(w)
      /\ worker[w].b = NoBridge \/ Existing(worker[w].b)
      /\ \A b \in worker[w].rows : Existing(b)
  BY <1>0, InHand
<1>1. ASSUME NEW rows \in SUBSET Bridges, \A b \in rows : Existing(b), NEW pc \in {"expire", "poll"},
             Become(w, [IdleWorker EXCEPT !.pc = pc, !.rows = rows])
      PROVE  Goal
  <2> DEFINE rec == [IdleWorker EXCEPT !.pc = pc, !.rows = rows]
  <2>1. /\ rec \in WorkerStates /\ rec.pc = pc /\ rec.rows = rows /\ rec.b = NoBridge
        /\ rec.rejects = FALSE
    BY DEF IdleWorker, WorkerStates
  <2> HIDE DEF rec
  <2> QED BY <1>0, <1>1, <2>1, SetHands DEF rec, Goal
<1>2. CASE Reconcile(w)
  <2>1. \A last \in Bridges : LET rows == {b \in 1 .. last : bridge[b].status \in Expirable} IN
          rows \in SUBSET Bridges /\ \A b \in rows : Existing(b)
    BY HumanBridgeAssumption DEF Bridges, Existing, Expirable, Open
  <2>3. CASE Become(w, [IdleWorker EXCEPT !.pc = "expire"])
    <3> DEFINE rec == [IdleWorker EXCEPT !.pc = "expire"]
    <3>1. /\ rec \in WorkerStates /\ rec.pc = "expire" /\ rec.rows = {} /\ rec.b = NoBridge
          /\ rec.rejects = FALSE
      BY DEF IdleWorker, WorkerStates
    <3> HIDE DEF rec
    <3> QED BY <1>0, <2>3, <3>1, SetHands DEF rec
  <2>4. ASSUME NEW last \in Bridges,
               Become(w, [IdleWorker EXCEPT !.pc = "expire",
                            !.rows = {b \in 1 .. last : bridge[b].status \in Expirable}])
        PROVE  Goal
    BY <1>1, <2>1, <2>4
  <2> QED BY <1>2, <2>3, <2>4 DEF Reconcile
<1>3. CASE Expire(w)
  <2>1. PICK b \in worker[w].rows, p \in BOOLEAN :
          Become(w, [worker[w] EXCEPT !.pc = "expired", !.i = bridge[b].of, !.b = b,
                                      !.rows = @ \ {b}, !.rejects = p])
    BY <1>3 DEF Expire
  <2>2. b \in Bridges /\ Existing(b) /\ bridge[b].of \in Interactions
    BY <1>a DEF InUse, Existing
  <2> DEFINE rec == [worker[w] EXCEPT !.pc = "expired", !.i = bridge[b].of, !.b = b,
                                      !.rows = @ \ {b}, !.rejects = p]
  <2>3. /\ rec \in WorkerStates /\ rec.pc = "expired" /\ rec.rows = worker[w].rows \ {b}
        /\ rec.b = b /\ rec.i = bridge[b].of
    BY <1>a, <2>2 DEF WorkerStates
  <2> HIDE DEF rec
  <2> QED BY <1>0, <1>a, <2>1, <2>2, <2>3, SetHands DEF rec, Goal
<1>4. ASSUME NEW pc \in {"nudge", "close", "unpolled"},
             worker[w].i \in Interactions, worker[w].rejects => pc = "nudge",
             Goto(w, pc)
      PROVE  Goal
  <2> DEFINE rec == [worker[w] EXCEPT !.pc = pc]
  <2>1. /\ rec \in WorkerStates /\ rec.pc = pc /\ rec.rows = worker[w].rows
        /\ rec.b = worker[w].b /\ rec.i = worker[w].i /\ rec.rejects = worker[w].rejects
    BY <1>a DEF WorkerStates
  <2>2. Become(w, rec)
    BY <1>0, <1>4 DEF Goto, Become, TypeOK
  <2> HIDE DEF rec
  <2> QED BY <1>0, <1>a, <1>4, <2>1, <2>2, SetHands DEF Goal
<1>5. CASE ExpireClose(w) \/ PollSettle(w)
  BY <1>4, <1>5, <1>a DEF ExpireClose, PollSettle, HandsOf, At
<1>6. CASE ExpireNudge(w)
  BY <1>1, <1>6, <1>a DEF ExpireNudge, WorkerStates
<1>7. ASSUME Become(w, NextRow(w))
      PROVE  Goal
  BY <1>1, <1>7, <1>a DEF NextRow, WorkerStates
<1>8. CASE RetrySelect(w)
  <2> DEFINE rec == [IdleWorker EXCEPT !.pc = "retry", !.retries = {i \in openFailed : OpenFor(i) = {}}]
  <2>1. /\ rec \in WorkerStates /\ rec.pc = "retry" /\ rec.rows = {} /\ rec.b = NoBridge
        /\ rec.rejects = FALSE
    BY DEF IdleWorker, WorkerStates, TypeOK
  <2>2. Become(w, rec)
    BY <1>8 DEF RetrySelect
  <2> HIDE DEF rec
  <2> QED BY <1>0, <2>1, <2>2, SetHands DEF Goal
<1>9. CASE Retry(w)
  <2>1. PICK i \in worker[w].retries :
          LET rest == [IdleWorker EXCEPT !.pc = "retry", !.retries = worker[w].retries \ {i}]
          IN \/ Become(w, rest)
             \/ Become(w, [rest EXCEPT !.pc = "lookup", !.i = i])
             \/ \E b \in FailedOf(i) : Become(w, [rest EXCEPT !.pc = "reinsert", !.i = i, !.b = b])
    BY <1>9 DEF Retry
  <2> DEFINE rest == [IdleWorker EXCEPT !.pc = "retry", !.retries = worker[w].retries \ {i}]
  <2>2. i \in Interactions /\ worker[w].retries \ {i} \in SUBSET Interactions
    BY <1>a DEF WorkerStates
  <2>3. ASSUME NEW rec, rec = rest \/ rec = [rest EXCEPT !.pc = "lookup", !.i = i],
               Become(w, rec)
        PROVE  Goal
    <3>1. /\ rec \in WorkerStates /\ rec.rows = {} /\ rec.b = NoBridge /\ rec.rejects = FALSE
          /\ rec.pc = "retry" \/ (rec.pc = "lookup" /\ rec.i = i)
      BY <2>2, <2>3 DEF IdleWorker, WorkerStates
    <3> QED BY <1>0, <2>2, <2>3, <3>1, SetHands DEF Goal
  <2>4. ASSUME NEW b \in FailedOf(i), Become(w, [rest EXCEPT !.pc = "reinsert", !.i = i, !.b = b])
        PROVE  Goal
    <3> DEFINE rec == [rest EXCEPT !.pc = "reinsert", !.i = i, !.b = b]
    <3>1. Existing(b)
      BY DEF FailedOf, Existing
    <3>2. /\ rec \in WorkerStates /\ rec.rows = {} /\ rec.b = b /\ rec.rejects = FALSE
          /\ rec.pc = "reinsert" /\ rec.i = i
      BY <2>2, <3>1 DEF IdleWorker, WorkerStates, Existing
    <3> HIDE DEF rec
    <3> QED BY <1>0, <2>2, <2>4, <3>1, <3>2, SetHands DEF Goal, rec
  <2> QED BY <2>1, <2>3, <2>4
<1>10. CASE PollSelect(w)
  BY <1>1, <1>10 DEF PollSelect, Existing
<1>11. CASE PollBridge(w)
  <2>1. PICK b \in worker[w].rows :
          LET rest == [worker[w] EXCEPT !.rows = @ \ {b}]
          IN \/ Become(w, rest)
             \/ Become(w, [rest EXCEPT !.pc = "polling", !.b = b, !.i = bridge[b].of])
    BY <1>11 DEF PollBridge
  <2>2. b \in Bridges /\ Existing(b) /\ bridge[b].of \in Interactions
    BY <1>a DEF InUse, Existing
  <2>3. worker[w].pc = "poll" /\ ~worker[w].rejects
    BY <1>11, <1>a DEF PollBridge, At, HandsOf
  <2> DEFINE rest == [worker[w] EXCEPT !.rows = @ \ {b}]
  <2>4. CASE Become(w, rest)
    <3>1. /\ rest \in WorkerStates /\ rest.rows = worker[w].rows \ {b} /\ rest.b = worker[w].b
          /\ ~rest.rejects /\ rest.pc = "poll"
      BY <1>a, <2>3 DEF WorkerStates
    <3> HIDE DEF rest
    <3> QED BY <1>0, <1>a, <2>4, <3>1, SetHands DEF Goal
  <2>5. CASE Become(w, [rest EXCEPT !.pc = "polling", !.b = b, !.i = bridge[b].of])
    <3> DEFINE rec == [rest EXCEPT !.pc = "polling", !.b = b, !.i = bridge[b].of]
    <3>1. /\ rec \in WorkerStates /\ rec.rows = worker[w].rows \ {b} /\ rec.b = b
          /\ ~rec.rejects /\ rec.pc = "polling" /\ rec.i = bridge[b].of
      BY <1>a, <2>2, <2>3 DEF WorkerStates
    <3> HIDE DEF rec
    <3> QED BY <1>0, <1>a, <2>2, <2>5, <3>1, SetHands DEF Goal, rec
  <2> QED BY <2>1, <2>4, <2>5
<1>12. CASE PollEnd(w)
  BY <1>0, <1>12, IdleHands DEF PollEnd, Become, TypeOK, Goal
<1>13. ASSUME NEW pc \in {"events", "settle"}, NEW posts \in SUBSET Replies,
              worker[w].i \in Interactions, ~worker[w].rejects,
              Become(w, [worker[w] EXCEPT !.pc = pc, !.posts = posts])
       PROVE  Goal
  <2> DEFINE rec == [worker[w] EXCEPT !.pc = pc, !.posts = posts]
  <2>1. /\ rec \in WorkerStates /\ rec.pc = pc /\ rec.rows = worker[w].rows
        /\ rec.b = worker[w].b /\ rec.i = worker[w].i /\ rec.rejects = worker[w].rejects
    BY <1>a DEF WorkerStates
  <2> HIDE DEF rec
  <2> QED BY <1>0, <1>a, <1>13, <2>1, SetHands DEF Goal, rec
<1>14. CASE Poll(w)
  <2>1. worker[w].i \in Interactions /\ ~worker[w].rejects
    BY <1>14, <1>a DEF Poll, At, HandsOf
  <2>2. {e \in Replies : posted[e].on = worker[w].b} \in SUBSET Replies
    OBVIOUS
  <2> QED BY <1>4, <1>7, <1>13, <1>14, <2>1, <2>2 DEF Poll
<1>15. CASE Unpolled(w) \/ EventsEnd(w) \/ PollClose(w)
  BY <1>7, <1>15 DEF Unpolled, EventsEnd, PollClose
<1>16. CASE Process(w)
  <2>1. worker[w].i \in Interactions /\ ~worker[w].rejects /\ worker[w].pc = "events"
    BY <1>16, <1>a DEF Process, At, HandsOf
  <2>2. PICK e \in worker[w].posts :
          \/ Become(w, NextRow(w))
          \/ Become(w, NextPost(w, e))
          \/ Become(w, [worker[w] EXCEPT !.pc = "settle", !.posts = {}])
    BY <1>16 DEF Process, Duplicate, Refused, Commented, Decided
  <2>4. worker[w].posts \ {e} \in SUBSET Replies /\ {} \in SUBSET Replies
    BY <1>a DEF WorkerStates
  <2>5. CASE Become(w, NextPost(w, e))
    <3> DEFINE rec == NextPost(w, e)
    <3>1. /\ rec \in WorkerStates /\ rec.pc = "events" /\ rec.rows = worker[w].rows
          /\ rec.b = worker[w].b /\ rec.i = worker[w].i /\ ~rec.rejects
      BY <1>a, <2>1, <2>4 DEF NextPost, WorkerStates
    <3> HIDE DEF rec
    <3> QED BY <1>0, <1>a, <2>1, <2>5, <3>1, SetHands DEF rec, Goal
  <2>6. CASE Become(w, [worker[w] EXCEPT !.pc = "settle", !.posts = {}])
    BY <1>13, <2>1, <2>4, <2>6
  <2> QED BY <1>7, <2>2, <2>5, <2>6
<1>17. CASE DeliveryStep(w)
  BY <1>0, <1>17, DeliveryHands DEF Goal
<1> QED
  BY <1>2, <1>3, <1>5, <1>6, <1>8, <1>9, <1>10, <1>11, <1>12, <1>14, <1>15, <1>16, <1>17
     DEF ReconcilerStep, Goal

LEMMA NextHands ==
  ASSUME TypeOK, Hands, InUse, [Next]_vars
  PROVE  Hands'
<1>0. Moves
  BY NextMoves
<1>a. \A b : Existing(b) => Existing(b)'
  BY <1>0, RowsStay
<1>b. /\ worker \in [Workers -> WorkerStates] /\ ui \in [Interactions -> AnswerStates]
      /\ \A i \in Interactions : \A b \in ui[i].rows : Existing(b)
  BY DEF TypeOK, Hands, Existing, AnswerStates
<1>1. \A w \in Workers : HandsOf(w)'
  <2>1. CASE UNCHANGED worker
    BY <1>0, <2>1, KeepHands
  <2>2. ASSUME NEW w \in Workers, DeliveryStep(w)
        PROVE  \A v \in Workers : HandsOf(v)'
    BY <1>0, <2>2, DeliveryHands, KeepHands
  <2>3. ASSUME NEW w \in Reconcilers, ReconcilerStep(w)
        PROVE  \A v \in Workers : HandsOf(v)'
    BY <1>0, <2>3, ReconcilerHands, KeepHands
  <2>4. CASE Claim
    <3>1. PICK i \in Interactions : Become(Outbox, [IdleWorker EXCEPT !.pc = "lookup", !.i = i])
      BY <2>4 DEF Claim
    <3> DEFINE rec == [IdleWorker EXCEPT !.pc = "lookup", !.i = i]
    <3>2. /\ rec \in WorkerStates /\ rec.pc = "lookup" /\ rec.i = i /\ rec.rows = {}
          /\ rec.b = NoBridge /\ rec.rejects = FALSE
      BY DEF IdleWorker, WorkerStates
    <3>3. Outbox \in Workers /\ \A v \in Workers \ {Outbox} : worker'[v] = worker[v]
      BY <1>b, <3>1 DEF Become, Workers
    <3> HIDE DEF rec
    <3>4. HandsOf(Outbox)'
      BY <1>0, <3>1, <3>2, <3>3, SetHands DEF rec
    <3> QED BY <1>0, <3>3, <3>4, KeepHands
  <2>5. CASE Mark
    <3>1. Outbox \in Workers /\ \A v \in Workers \ {Outbox} : worker'[v] = worker[v]
      BY <1>b, <2>5 DEF Mark, Become, Workers
    <3>2. worker'[Outbox] = IdleWorker
      BY <1>b, <2>5, <3>1 DEF Mark, Become
    <3> QED BY <1>0, <3>1, <3>2, IdleHands, KeepHands
  <2>6. CASE Crash
    BY <2>6, IdleHands DEF Crash
  <2>7. UNCHANGED worker \/ Claim \/ Mark \/ Crash
          \/ (\E w \in Workers : DeliveryStep(w)) \/ (\E w \in Reconcilers : ReconcilerStep(w))
    BY DEF Next, vars, dataVars, Ask, AskStep, Park, Enqueue, Answer, AnswerStep, AnswerSelect,
           AnswerClose, AnswerSettle, OutboxStep, Release, Post, CloseIssue, Workers
  <2> QED BY <2>1, <2>2, <2>3, <2>4, <2>5, <2>6, <2>7
<1>2. \A i \in Interactions : \A b \in ui'[i].rows : Existing(b)'
  <2>1. CASE UNCHANGED ui
    BY <1>a, <1>b, <2>1
  <2>2. ASSUME NEW i \in Interactions, Answer(i) \/ AnswerStep(i)
        PROVE  \A j \in Interactions : \A b \in ui'[j].rows : Existing(b)'
    <3>1. \A b \in Bridges : bridge[b].status \in Open => Existing(b)
      BY DEF Existing, Open
    <3>2. CASE Answer(i)
      BY <1>a, <1>b, <3>2 DEF Answer, AnswerStates
    <3>3. CASE AnswerSelect(i)
      BY <1>a, <1>b, <3>1, <3>3 DEF AnswerSelect, AnswerStates
    <3>4. CASE AnswerClose(i)
      BY <1>a, <1>b, <3>4 DEF AnswerClose, AnswerStates
    <3>5. CASE AnswerSettle(i)
      BY <1>a, <1>b, <3>5 DEF AnswerSettle, AnswerStates
    <3> QED BY <2>2, <3>2, <3>3, <3>4, <3>5 DEF AnswerStep
  <2>3. CASE Crash
    BY <2>3 DEF Crash
  <2>4. UNCHANGED ui \/ Crash \/ \E i \in Interactions : Answer(i) \/ AnswerStep(i)
    BY OutboxFrame, ReconcilerFrame
       DEF Next, vars, Ask, AskStep, Park, Enqueue, Post, CloseIssue
  <2> QED BY <2>1, <2>2, <2>3, <2>4
<1> QED BY <1>1, <1>2 DEF Hands, Existing

-----------------------------------------------------------------------------
(* The outbox counts the attempts of the row it has taken. *)

LEMMA NextAttemptsLeft ==
  ASSUME TypeOK, Hands, InUse, AttemptsLeft, [Next]_vars
  PROVE  AttemptsLeft'
<1>0. Moves /\ Outbox \in Workers /\ worker \in [Workers -> WorkerStates]
  BY NextMoves DEF Workers, TypeOK
<1>1. CASE UNCHANGED <<worker, outbox>>
  BY <1>1 DEF AttemptsLeft
<1>2. ASSUME NEW i \in Interactions, AskStep(i)
      PROVE  AttemptsLeft'
  <2>1. worker' = worker /\ \A j \in Interactions : outbox'[j].attempts = outbox[j].attempts
    BY <1>2 DEF AskStep, Park, Enqueue, TypeOK, OutboxRows
  <2> QED BY <2>1 DEF AttemptsLeft
<1>3. CASE Release
  <2>1. worker' = worker /\ \A j \in Interactions : outbox'[j].attempts = outbox[j].attempts
    BY <1>3 DEF Release, TypeOK, OutboxRows
  <2> QED BY <2>1 DEF AttemptsLeft
<1>4. CASE Claim
  <2>1. PICK i \in Interactions :
          /\ outbox[i].attempts < MaxAttempts
          /\ outbox' = [outbox EXCEPT ![i].status = "processing"]
          /\ Become(Outbox, [IdleWorker EXCEPT !.pc = "lookup", !.i = i])
    BY <1>4 DEF Claim
  <2>2. worker'[Outbox].i = i
    BY <1>0, <2>1 DEF Become, IdleWorker
  <2>3. outbox'[i].attempts = outbox[i].attempts
    BY <2>1 DEF TypeOK, OutboxRows
  <2> QED BY <2>1, <2>2, <2>3 DEF AttemptsLeft
<1>5. CASE Mark \/ Crash
  <2>1. worker'[Outbox].pc = "idle"
    BY <1>0, <1>5 DEF Mark, Crash, Become, IdleWorker
  <2> QED BY <2>1 DEF AttemptsLeft
<1>6. CASE DeliveryStep(Outbox)
  <2>1. worker'[Outbox].i = worker[Outbox].i /\ worker[Outbox].pc # "idle" /\ outbox' = outbox
    BY <1>0, <1>6, DeliveryHands
       DEF DeliveryStep, Lookup, Insert, Reread, Reinsert, Send, Delivered, Undelivered, At
  <2> QED BY <2>1 DEF AttemptsLeft
<1>7. ASSUME NEW w \in Reconcilers, ReconcilerStep(w)
      PROVE  AttemptsLeft'
  <2>1. worker'[Outbox] = worker[Outbox]
    BY <1>0, <1>7, ReconcilerHands, HumanBridgeAssumption
  <2>2. outbox' = outbox
    BY <1>7, ReconcilerFrame
  <2> QED BY <2>1, <2>2 DEF AttemptsLeft
<1> QED
  BY <1>1, <1>2, <1>3, <1>4, <1>5, <1>6, <1>7
     DEF Next, vars, dataVars, Ask, Answer, AnswerStep, AnswerSelect, AnswerClose, AnswerSettle,
         OutboxStep, Post, CloseIssue

-----------------------------------------------------------------------------
(* Posts, decisions, and who carries out their effects. *)

LEMMA NextCommentIsRecorded ==
  ASSUME TypeOK, Hands, CommentIsRecorded, [Next]_vars
  PROVE  CommentIsRecorded'
<1>1. CASE UNCHANGED <<recorded, comments>>
  BY <1>1 DEF CommentIsRecorded
<1>2. ASSUME NEW w \in Reconcilers, Process(w)
      PROVE  CommentIsRecorded'
  <2>1. PICK e \in worker[w].posts :
          UNCHANGED <<recorded, comments>> \/ (e \notin recorded /\ Record(e))
    BY <1>2 DEF Process, IsRecorded, Duplicate, Refused, Commented, Decided
  <2>2. e \in Replies
    BY InHand DEF WorkerStates, Workers
  <2>3. CASE e \notin recorded /\ Record(e)
    BY <2>2, <2>3 DEF CommentIsRecorded, Record, TypeOK
  <2> QED BY <1>1, <2>1, <2>3
<1>3. UNCHANGED <<recorded, comments>> \/ \E w \in Reconcilers : Process(w)
  BY OutboxFrame, ReconcilerFrame
     DEF Next, vars, dataVars, Ask, AskStep, Park, Enqueue, Answer, AnswerStep, AnswerSelect,
         AnswerClose, AnswerSettle, Post, CloseIssue, Crash
<1> QED BY <1>1, <1>2, <1>3

\* Nobody new has a decision to carry out.
NoneNewUi == \A i \in Interactions : SettlesUi(i)' => SettlesUi(i)
NoneNew(w) == \A i \in Interactions : Settles(w, i)' => Settles(w, i)

\* The four kinds of steps: nothing is decided or carried out; an interaction is asked; somebody
\* decides one, and has the effects to carry out; who has them to carry out does it.
Calm ==
  UNCHANGED <<interaction, settled>> /\ NoneNewUi /\ \A w \in Workers : NoneNew(w)
Asks(i) ==
  /\ Ask(i) /\ interaction[i] = "none" /\ interaction' = [interaction EXCEPT ![i] = "pending"]
  /\ UNCHANGED settled /\ NoneNewUi /\ \A w \in Workers : NoneNew(w)
Decides(i) ==
  /\ interaction[i] = "pending"
  /\ \E decision \in Decisions : interaction' = [interaction EXCEPT ![i] = decision]
  /\ UNCHANGED settled
DecidesUi(i) ==
  /\ Decides(i) /\ \A w \in Workers : NoneNew(w)
  /\ \A j \in Interactions \ {i} : SettlesUi(j)' => SettlesUi(j)
  /\ SettlesUi(i)'
DecidesWorker(w, i) ==
  /\ Decides(i) /\ NoneNewUi /\ \A v \in Workers \ {w} : NoneNew(v)
  /\ \A j \in Interactions : Settles(w, j)' <=> j = i
Carries(i) ==
  /\ settled' = [settled EXCEPT ![i] = @ + 1]
  /\ UNCHANGED interaction /\ NoneNewUi /\ \A w \in Workers : NoneNew(w)
CarriesUi(i) == Carries(i) /\ SettlesUi(i) /\ ~SettlesUi(i)'
CarriesWorker(w, i) == Carries(i) /\ Settles(w, i) /\ ~Settles(w, i)'

Steps ==
  \/ Calm
  \/ \E i \in Interactions : Asks(i) \/ DecidesUi(i) \/ CarriesUi(i)
  \/ \E i \in Interactions, w \in Workers : DecidesWorker(w, i) \/ CarriesWorker(w, i)

\* A worker that is set to do something else than settle has nothing new to carry out.
LEMMA BecomeNoneNew ==
  ASSUME TypeOK, NEW w \in Workers, NEW rec, Become(w, rec),
         rec.pc # "settle", rec.rejects => worker[w].rejects /\ rec.i = worker[w].i
  PROVE  \A v \in Workers : NoneNew(v)
BY DEF Become, TypeOK, NoneNew, Settles

LEMMA RestNoneNew ==
  ASSUME TypeOK, NEW w \in Workers, Become(w, IdleWorker) \/ Become(w, NextRow(w))
  PROVE  \A v \in Workers : NoneNew(v)
<1>1. /\ IdleWorker.pc # "settle" /\ ~IdleWorker.rejects
      /\ NextRow(w).pc # "settle" /\ ~NextRow(w).rejects
  BY DEF IdleWorker, NextRow
<1> QED BY <1>1, BecomeNoneNew

LEMMA OverNoneNew ==
  ASSUME TypeOK, NEW w \in Workers, Opened(w) \/ Thrown(w)
  PROVE  \A v \in Workers : NoneNew(v)
<1>1. PICK pc \in {"sent", "failed"} : Over(w, pc)
  BY DEF Opened, Thrown
<1> DEFINE rec == IF w = Outbox THEN [IdleWorker EXCEPT !.pc = pc, !.i = worker[w].i]
                  ELSE [IdleWorker EXCEPT !.pc = "retry", !.retries = worker[w].retries]
<1>2. rec.pc # "settle" /\ rec.rejects = FALSE
  BY DEF IdleWorker
<1>3. Become(w, rec)
  BY <1>1 DEF Over
<1> HIDE DEF rec
<1> QED BY <1>2, <1>3, BecomeNoneNew

LEMMA GotoNoneNew ==
  ASSUME TypeOK, NEW w \in Workers, NEW pc, pc # "settle", Goto(w, pc)
  PROVE  \A v \in Workers : NoneNew(v)
BY DEF Goto, TypeOK, NoneNew, Settles, WorkerStates

LEMMA DeliveryNoneNew ==
  ASSUME TypeOK, Hands, NEW w \in Workers, DeliveryStep(w)
  PROVE  UNCHANGED <<interaction, settled, ui>> /\ \A v \in Workers : NoneNew(v)
<1>1. UNCHANGED <<interaction, settled, ui>>
  BY DEF DeliveryStep, Lookup, Insert, Reread, Reinsert, Send, Delivered, Undelivered, dataVars
<1>2. ASSUME NEW b, Become(w, [worker[w] EXCEPT !.pc = "send", !.b = b])
      PROVE  \A v \in Workers : NoneNew(v)
  <2> DEFINE rec == [worker[w] EXCEPT !.pc = "send", !.b = b]
  <2>1. rec.pc # "settle" /\ rec.rejects = worker[w].rejects /\ rec.i = worker[w].i
    BY DEF TypeOK, WorkerStates
  <2> HIDE DEF rec
  <2> QED BY <1>2, <2>1, BecomeNoneNew DEF rec
<1>3. CASE Opened(w) \/ Thrown(w)
  BY <1>1, <1>3, OverNoneNew
<1>4. CASE \/ Goto(w, "insert") \/ Goto(w, "reread")
           \/ Goto(w, "delivered") \/ Goto(w, "undelivered")
  BY <1>1, <1>4, GotoNoneNew
<1> QED
  BY <1>1, <1>2, <1>3, <1>4
     DEF DeliveryStep, Lookup, Insert, Reread, Reinsert, Send, Delivered, Undelivered

\* A worker that only turns to something else.
LEMMA TurnCalm ==
  ASSUME TypeOK, NEW w \in Workers, UNCHANGED <<interaction, settled, ui>>,
         NEW rec, Become(w, rec), rec.pc # "settle",
         rec.rejects => worker[w].rejects /\ rec.i = worker[w].i
  PROVE  Steps
BY BecomeNoneNew DEF Steps, Calm, NoneNewUi, SettlesUi

LEMMA ReconcilerSteps ==
  ASSUME TypeOK, Hands, InUse, NEW w \in Reconcilers, ReconcilerStep(w)
  PROVE  Steps
<1>0. w \in Workers /\ w # Outbox
  BY HumanBridgeAssumption DEF Workers
<1>a. worker[w] \in WorkerStates /\ HandsOf(w) /\ \A b \in worker[w].rows : Existing(b)
  BY <1>0, InHand
<1>b. ASSUME UNCHANGED <<interaction, settled, ui>>, \A v \in Workers : NoneNew(v)
      PROVE  Steps
  BY <1>b DEF Steps, Calm, NoneNewUi, SettlesUi
<1>1. ASSUME UNCHANGED <<interaction, settled, ui>>, NEW rec, Become(w, rec),
             rec.pc # "settle", rec.rejects = FALSE
      PROVE  Steps
  BY <1>0, <1>1, TurnCalm
<1>2. CASE Reconcile(w) \/ RetrySelect(w) \/ PollSelect(w)
  <2>1. UNCHANGED <<interaction, settled, ui>>
    BY <1>2 DEF Reconcile, RetrySelect, PollSelect, dataVars
  <2>2. PICK rec : Become(w, rec) /\
                     \/ rec = [IdleWorker EXCEPT !.pc = "expire"]
                     \/ \E rows : rec = [IdleWorker EXCEPT !.pc = "expire", !.rows = rows]
                     \/ \E retries : rec = [IdleWorker EXCEPT !.pc = "retry", !.retries = retries]
                     \/ \E rows : rec = [IdleWorker EXCEPT !.pc = "poll", !.rows = rows]
    BY <1>2, Zenon DEF Reconcile, RetrySelect, PollSelect
  <2>3. rec.pc # "settle" /\ rec.rejects = FALSE
    BY <2>2 DEF IdleWorker
  <2> QED BY <1>1, <2>1, <2>2, <2>3
<1>3. CASE Retry(w)
  <2>1. UNCHANGED <<interaction, settled, ui>>
    BY <1>3 DEF Retry, dataVars
  <2>2. PICK i \in worker[w].retries :
          LET rest == [IdleWorker EXCEPT !.pc = "retry", !.retries = worker[w].retries \ {i}]
          IN \/ Become(w, rest)
             \/ Become(w, [rest EXCEPT !.pc = "lookup", !.i = i])
             \/ \E b \in FailedOf(i) : Become(w, [rest EXCEPT !.pc = "reinsert", !.i = i, !.b = b])
    BY <1>3 DEF Retry
  <2> DEFINE rest == [IdleWorker EXCEPT !.pc = "retry", !.retries = worker[w].retries \ {i}]
  <2>3. PICK rec : Become(w, rec) /\
                     \/ rec = rest
                     \/ rec = [rest EXCEPT !.pc = "lookup", !.i = i]
                     \/ \E b : rec = [rest EXCEPT !.pc = "reinsert", !.i = i, !.b = b]
    BY <2>2, Zenon
  <2>4. rec.pc # "settle" /\ rec.rejects = FALSE
    BY <2>3 DEF IdleWorker
  <2> QED BY <1>1, <2>1, <2>3, <2>4
<1>4. CASE Expire(w)
  <2>1. PICK b \in worker[w].rows :
          LET i == bridge[b].of
              rejects == interaction[i] = "pending" /\ kind[i] = "request_confirmation"
          IN /\ IF rejects THEN Decide(i, "rejected") ELSE UNCHANGED <<issue, interaction>>
             /\ Become(w, [worker[w] EXCEPT !.pc = "expired", !.i = i, !.b = b, !.rows = @ \ {b},
                                            !.rejects = rejects])
    BY <1>4 DEF Expire
  <2> DEFINE i == bridge[b].of
             rejects == interaction[i] = "pending" /\ kind[i] = "request_confirmation"
             rec == [worker[w] EXCEPT !.pc = "expired", !.i = i, !.b = b, !.rows = @ \ {b},
                                      !.rejects = rejects]
  <2>2. rec.pc = "expired" /\ rec.i = i /\ rec.rejects = rejects
    BY <1>a DEF WorkerStates
  <2>3. Become(w, rec)
    BY <2>1
  <2>4. i \in Interactions
    BY <1>a DEF InUse, Existing
  <2>5. UNCHANGED <<settled, ui>>
    BY <1>4 DEF Expire
  <2>6. CASE ~rejects
    <3>1. interaction' = interaction
      BY <2>1, <2>6
    <3> HIDE DEF rec
    <3> QED BY <1>0, <2>2, <2>3, <2>5, <2>6, <3>1, TurnCalm
  <2>7. CASE rejects
    <3>1. Decides(i)
      BY <2>1, <2>5, <2>7 DEF Decide, Decides, Decisions
    <3> HIDE DEF rec, rejects, i
    <3>2. worker'[w] = rec /\ \A v \in Workers \ {w} : worker'[v] = worker[v]
      BY <1>0, <2>3 DEF Become, TypeOK
    <3>3. NoneNewUi /\ (\A v \in Workers \ {w} : NoneNew(v))
            /\ \A j \in Interactions : Settles(w, j)' <=> j = i
      BY <2>2, <2>5, <2>7, <3>2 DEF NoneNewUi, SettlesUi, NoneNew, Settles
    <3> QED BY <1>0, <2>4, <3>1, <3>3 DEF Steps, DecidesWorker
  <2> QED BY <2>6, <2>7
<1>5. CASE ExpireClose(w)
  BY <1>0, <1>5, <1>b, GotoNoneNew DEF ExpireClose
<1>6. CASE ExpireNudge(w)
  <2> DEFINE rec == [IdleWorker EXCEPT !.pc = "expire", !.rows = worker[w].rows]
             i == worker[w].i
  <2>1. rec.pc = "expire" /\ rec.rejects = FALSE
    BY DEF IdleWorker
  <2>2. Become(w, rec) /\ UNCHANGED <<interaction, ui>>
    BY <1>6 DEF ExpireNudge
  <2> HIDE DEF rec
  <2>3. CASE ~worker[w].rejects
    BY <1>0, <1>6, <2>1, <2>2, <2>3, TurnCalm DEF ExpireNudge
  <2>4. CASE worker[w].rejects
    <3>1. Carries(i)
      BY <1>0, <1>6, <2>1, <2>2, <2>4, BecomeNoneNew
         DEF ExpireNudge, Carries, NoneNewUi, SettlesUi
    <3>2. i \in Interactions /\ Settles(w, i)
      BY <1>6, <1>a, <2>4 DEF ExpireNudge, At, HandsOf, Settles
    <3>3. ~Settles(w, i)'
      BY <1>0, <2>1, <2>2 DEF Become, TypeOK, Settles
    <3>4. CarriesWorker(w, i)
      BY <3>1, <3>2, <3>3 DEF CarriesWorker
    <3> QED BY <1>0, <3>2, <3>4 DEF Steps
  <2> QED BY <2>3, <2>4
<1>7. CASE PollBridge(w)
  <2>1. PICK b \in worker[w].rows :
          LET rest == [worker[w] EXCEPT !.rows = @ \ {b}]
          IN \/ Become(w, rest)
             \/ Become(w, [rest EXCEPT !.pc = "polling", !.b = b, !.i = bridge[b].of])
    BY <1>7 DEF PollBridge
  <2> DEFINE rest == [worker[w] EXCEPT !.rows = @ \ {b}]
  <2>2. worker[w].pc = "poll" /\ ~worker[w].rejects
    BY <1>7, <1>a DEF PollBridge, At, HandsOf
  <2>3. PICK rec : Become(w, rec) /\ (\/ rec = rest
                                      \/ rec = [rest EXCEPT !.pc = "polling", !.b = b,
                                                            !.i = bridge[b].of])
    BY <2>1
  <2>4. rec.pc # "settle" /\ ~rec.rejects
    BY <1>a, <2>2, <2>3 DEF WorkerStates
  <2> QED BY <1>0, <1>7, <2>3, <2>4, TurnCalm DEF PollBridge
<1>8. CASE Poll(w)
  <2>1. worker[w].pc = "polling" /\ ~worker[w].rejects
    BY <1>8, <1>a DEF Poll, At, HandsOf
  <2>2. UNCHANGED <<interaction, settled, ui>>
    BY <1>8 DEF Poll, dataVars
  <2> DEFINE rec == [worker[w] EXCEPT !.pc = "events",
                                      !.posts = {e \in Replies : posted[e].on = worker[w].b}]
  <2>3. CASE Become(w, rec)
    <3>1. rec.pc = "events" /\ ~rec.rejects
      BY <1>a, <2>1 DEF WorkerStates
    <3> HIDE DEF rec
    <3> QED BY <1>0, <2>2, <2>3, <3>1, TurnCalm
  <2>4. CASE Goto(w, "unpolled")
    BY <1>0, <1>b, <2>2, <2>4, GotoNoneNew
  <2>5. CASE Become(w, NextRow(w))
    BY <1>0, <1>b, <2>2, <2>5, RestNoneNew
  <2> QED BY <1>8, <2>3, <2>4, <2>5 DEF Poll
<1>9. CASE Unpolled(w) \/ EventsEnd(w) \/ PollClose(w) \/ PollEnd(w)
  BY <1>0, <1>9, <1>b, RestNoneNew DEF Unpolled, EventsEnd, PollClose, PollEnd, dataVars
<1>10. CASE Process(w)
  <2>1. worker[w].i \in Interactions /\ ~worker[w].rejects /\ worker[w].pc = "events"
    BY <1>10, <1>a DEF Process, At, HandsOf
  <2>2. UNCHANGED <<settled, ui>>
    BY <1>10 DEF Process
  <2>3. PICK e \in worker[w].posts :
          \/ UNCHANGED interaction /\ Become(w, NextRow(w))
          \/ UNCHANGED interaction /\ Become(w, NextPost(w, e))
          \/ Verdict(worker[w].i, e) \in Decisions /\ Decided(w, e)
    BY <1>10 DEF Process, Duplicate, Refused, Commented
  <2>4. CASE UNCHANGED interaction /\ Become(w, NextRow(w))
    BY <1>0, <1>b, <2>2, <2>4, RestNoneNew
  <2>5. CASE UNCHANGED interaction /\ Become(w, NextPost(w, e))
    <3>1. NextPost(w, e).pc # "settle" /\ ~NextPost(w, e).rejects
      BY <1>a, <2>1 DEF NextPost, WorkerStates
    <3> QED BY <1>0, <2>2, <2>5, <3>1, TurnCalm
  <2>6. CASE Verdict(worker[w].i, e) \in Decisions /\ Decided(w, e)
    <3> DEFINE i == worker[w].i
               rec == [worker[w] EXCEPT !.pc = "settle", !.posts = {}]
    <3>1. interaction[i] = "pending"
      BY <2>6 DEF Verdict, Decisions
    <3>2. Decides(i)
      BY <2>2, <2>6, <3>1 DEF Decided, Decide, Decides
    <3>3. rec.i = i /\ rec.pc = "settle"
      BY <1>a DEF WorkerStates
    <3>4. worker'[w] = rec /\ \A v \in Workers \ {w} : worker'[v] = worker[v]
      BY <1>0, <2>6 DEF Decided, Become, TypeOK
    <3> HIDE DEF rec, i
    <3>5. NoneNewUi /\ (\A v \in Workers \ {w} : NoneNew(v))
            /\ \A j \in Interactions : Settles(w, j)' <=> j = i
      BY <2>2, <3>3, <3>4 DEF NoneNewUi, SettlesUi, NoneNew, Settles
    <3> QED BY <1>0, <2>1, <3>2, <3>5 DEF Steps, DecidesWorker, i
  <2> QED BY <2>3, <2>4, <2>5, <2>6
<1>11. CASE PollSettle(w)
  <2> DEFINE i == worker[w].i
  <2>1. /\ i \in Interactions /\ Settles(w, i)
        /\ ~worker[w].rejects
    BY <1>11, <1>a DEF PollSettle, At, HandsOf, Settles
  <2>2. Carries(i)
    BY <1>0, <1>11, GotoNoneNew DEF PollSettle, Carries, NoneNewUi, SettlesUi
  <2>3. ~Settles(w, i)'
    <3>1. worker'[w].pc = "close" /\ worker'[w].rejects = worker[w].rejects
      BY <1>0, <1>11 DEF PollSettle, Goto, TypeOK, WorkerStates
    <3> QED BY <2>1, <3>1 DEF Settles
  <2>4. CarriesWorker(w, i)
    BY <2>1, <2>2, <2>3 DEF CarriesWorker
  <2> QED BY <1>0, <2>1, <2>4 DEF Steps
<1>12. CASE DeliveryStep(w)
  BY <1>0, <1>12, <1>b, DeliveryNoneNew
<1> QED
  BY <1>2, <1>3, <1>4, <1>5, <1>6, <1>7, <1>8, <1>9, <1>10, <1>11, <1>12 DEF ReconcilerStep

LEMMA NextSteps ==
  ASSUME TypeOK, Hands, InUse, Asked, [Next]_vars
  PROVE  Steps
<1>a. ASSUME UNCHANGED <<interaction, settled, ui, worker>>
      PROVE  Steps
  BY <1>a DEF Steps, Calm, NoneNewUi, NoneNew, SettlesUi, Settles
<1>0. Outbox \in Workers
  BY DEF Workers
<1>1. ASSUME NEW i \in Interactions, Ask(i)
      PROVE  Steps
  <2>1. Asks(i)
    BY <1>1 DEF Ask, Asks, Asked, NoneNewUi, NoneNew, SettlesUi, Settles
  <2> QED BY <2>1 DEF Steps
<1>2. ASSUME NEW i \in Interactions, AskStep(i)
      PROVE  Steps
  BY <1>2, <1>a DEF AskStep, Park, Enqueue, dataVars
<1>3. ASSUME NEW i \in Interactions, Answer(i)
      PROVE  Steps
  <2>1. Decides(i)
    BY <1>3 DEF Answer, Decide, Decides, Decisions
  <2>2. \A w \in Workers : NoneNew(w)
    BY <1>3 DEF Answer, NoneNew, Settles
  <2>3. SettlesUi(i)' /\ \A j \in Interactions \ {i} : SettlesUi(j)' => SettlesUi(j)
    BY <1>3 DEF Answer, SettlesUi, TypeOK, AnswerStates
  <2>4. DecidesUi(i)
    BY <2>1, <2>2, <2>3 DEF DecidesUi
  <2> QED BY <2>4 DEF Steps
<1>4. ASSUME NEW i \in Interactions, AnswerSelect(i) \/ AnswerClose(i)
      PROVE  Steps
  <2>1. UNCHANGED <<interaction, settled, worker>>
    BY <1>4 DEF AnswerSelect, AnswerClose, dataVars
  <2>2. NoneNewUi
    BY <1>4 DEF AnswerSelect, AnswerClose, NoneNewUi, SettlesUi, TypeOK, AnswerStates
  <2> QED BY <2>1, <2>2 DEF Steps, Calm, NoneNew, Settles
<1>5. ASSUME NEW i \in Interactions, AnswerSettle(i)
      PROVE  Steps
  <2>1. NoneNewUi /\ SettlesUi(i) /\ ~SettlesUi(i)'
    BY <1>5 DEF AnswerSettle, NoneNewUi, SettlesUi, TypeOK, AnswerStates
  <2>2. CarriesUi(i)
    BY <1>5, <2>1 DEF AnswerSettle, CarriesUi, Carries, NoneNew, Settles
  <2> QED BY <2>2 DEF Steps
<1>6. CASE Release \/ Post \/ CloseIssue \/ UNCHANGED vars
  BY <1>6, <1>a DEF Release, Post, CloseIssue, vars, dataVars
<1>7. CASE Claim
  <2>1. PICK i \in Interactions : Become(Outbox, [IdleWorker EXCEPT !.pc = "lookup", !.i = i])
    BY <1>7 DEF Claim
  <2> DEFINE rec == [IdleWorker EXCEPT !.pc = "lookup", !.i = i]
  <2>2. rec.pc # "settle" /\ rec.rejects = FALSE
    BY DEF IdleWorker
  <2> HIDE DEF rec
  <2> QED BY <1>0, <1>7, <2>1, <2>2, TurnCalm DEF Claim, rec, dataVars
<1>8. CASE Mark
  <2>1. \A v \in Workers : NoneNew(v)
    BY <1>0, <1>8, RestNoneNew DEF Mark
  <2> QED BY <1>8, <2>1 DEF Mark, dataVars, Steps, Calm, NoneNewUi, SettlesUi
<1>9. CASE DeliveryStep(Outbox)
  BY <1>0, <1>9, DeliveryNoneNew DEF Steps, Calm, NoneNewUi, SettlesUi
<1>10. ASSUME NEW w \in Reconcilers, ReconcilerStep(w)
       PROVE  Steps
  BY <1>10, ReconcilerSteps
<1>11. CASE Crash
  <2>1. \A i \in Interactions : ~SettlesUi(i)'
    BY <1>11 DEF Crash, SettlesUi
  <2>2. \A w \in Workers, i \in Interactions : ~Settles(w, i)'
    BY <1>11 DEF Crash, Settles, IdleWorker
  <2> QED BY <1>11, <2>1, <2>2 DEF Crash, dataVars, Steps, Calm, NoneNewUi, NoneNew
<1> QED
  BY <1>1, <1>2, <1>3, <1>4, <1>5, <1>6, <1>7, <1>8, <1>9, <1>10, <1>11
     DEF Next, AnswerStep, OutboxStep

LEMMA NextAsked ==
  ASSUME TypeOK, Asked, Steps, [Next]_vars
  PROVE  Asked'
<1> SUFFICES ASSUME NEW i \in Interactions
             PROVE  asking'[i] = "none" <=> interaction'[i] = "none"
  BY DEF Asked
<1>1. CASE Ask(i)
  BY <1>1 DEF Ask, TypeOK
<1>2. CASE ~Ask(i)
  <2>1. asking'[i] = "none" <=> asking[i] = "none"
    <3>1. ASSUME NEW j \in Interactions, Ask(j) PROVE asking'[i] = asking[i]
      BY <1>2, <3>1 DEF Ask, TypeOK
    <3>2. ASSUME NEW j \in Interactions, AskStep(j)
          PROVE  asking'[i] = "none" <=> asking[i] = "none"
      BY <3>2 DEF AskStep, Park, Enqueue, TypeOK
    <3>3. CASE Crash
      BY <3>3 DEF Crash, TypeOK
    <3>4. UNCHANGED asking \/ Crash \/ \E j \in Interactions : Ask(j) \/ AskStep(j)
      BY OutboxFrame, ReconcilerFrame
         DEF Next, vars, Answer, AnswerStep, AnswerSelect, AnswerClose, AnswerSettle, Post, CloseIssue
    <3> QED BY <3>1, <3>2, <3>3, <3>4
  <2>2. interaction'[i] = "none" <=> interaction[i] = "none"
    <3>1. ASSUME NEW j \in Interactions, Asks(j) PROVE interaction'[i] = interaction[i]
      BY <1>2, <3>1 DEF Asks, TypeOK
    <3>2. ASSUME NEW j \in Interactions, Decides(j)
          PROVE  interaction'[i] = "none" <=> interaction[i] = "none"
      BY <3>2 DEF Decides, Decisions, TypeOK
    <3> QED BY <3>1, <3>2 DEF Steps, Calm, DecidesUi, DecidesWorker, CarriesUi, CarriesWorker,
                              Carries
  <2> QED BY <2>1, <2>2 DEF Asked
<1> QED BY <1>1, <1>2

LEMMA NextOneSettles ==
  ASSUME TypeOK, OneSettles, Steps
  PROVE  OneSettles'
<1>0. interaction \in [Interactions -> {"none", "pending"} \cup Decisions]
        /\ settled \in [Interactions -> Nat]
  BY DEF TypeOK
<1>1. CASE Calm
  BY <1>1 DEF Calm, OneSettles, NoneNewUi, NoneNew
<1>2. ASSUME NEW i \in Interactions, Asks(i)
      PROVE  OneSettles'
  <2>1. \A j \in Interactions \ {i} : interaction'[j] = interaction[j]
    BY <1>0, <1>2 DEF Asks
  <2>2. interaction[i] \notin Decisions
    BY <1>2 DEF Asks, Decisions
  <2> QED BY <1>2, <2>1, <2>2 DEF Asks, OneSettles, NoneNewUi, NoneNew
<1>3. ASSUME NEW i \in Interactions, Decides(i)
      PROVE  /\ interaction'[i] \in Decisions /\ interaction[i] \notin Decisions
             /\ \A j \in Interactions \ {i} : interaction'[j] = interaction[j]
             /\ settled' = settled
  BY <1>0, <1>3 DEF Decides, Decisions
<1>4. ASSUME NEW i \in Interactions, DecidesUi(i)
      PROVE  OneSettles'
  <2>1. Decides(i)
    BY <1>4 DEF DecidesUi
  <2> QED BY <1>3, <1>4, <2>1 DEF DecidesUi, OneSettles, NoneNew
<1>5. ASSUME NEW i \in Interactions, NEW w \in Workers, DecidesWorker(w, i)
      PROVE  OneSettles'
  <2>1. Decides(i)
    BY <1>5 DEF DecidesWorker
  <2> QED BY <1>3, <1>5, <2>1 DEF DecidesWorker, OneSettles, NoneNew, NoneNewUi
<1>6. ASSUME NEW i \in Interactions, Carries(i), interaction[i] \in Decisions, ~SettlesUi(i)',
             \A w \in Workers : ~Settles(w, i)'
      PROVE  OneSettles'
  <2>1. interaction' = interaction /\ \A j \in Interactions \ {i} : settled'[j] = settled[j]
    BY <1>0, <1>6 DEF Carries
  <2> QED BY <1>6, <2>1 DEF Carries, OneSettles, NoneNew, NoneNewUi
<1>7. ASSUME NEW i \in Interactions, CarriesUi(i)
      PROVE  OneSettles'
  <2>1. interaction[i] \in Decisions /\ \A w \in Workers : ~Settles(w, i)
    BY <1>7 DEF CarriesUi, OneSettles
  <2> QED BY <1>6, <1>7, <2>1 DEF CarriesUi, Carries, NoneNew
<1>8. ASSUME NEW i \in Interactions, NEW w \in Workers, CarriesWorker(w, i)
      PROVE  OneSettles'
  <2>1. /\ interaction[i] \in Decisions /\ ~SettlesUi(i)
        /\ \A v \in Workers : Settles(v, i) => v = w
    BY <1>8 DEF CarriesWorker, OneSettles
  <2> QED BY <1>6, <1>8, <2>1 DEF CarriesWorker, Carries, NoneNew, NoneNewUi
<1> QED BY <1>1, <1>2, <1>4, <1>5, <1>7, <1>8 DEF Steps

\* Unless the server stops, nobody who has a decision to carry out forgets it.
Forgets(i) ==
  \/ SettlesUi(i) /\ ~SettlesUi(i)'
  \/ \E w \in Workers : Settles(w, i) /\ ~Settles(w, i)'

LEMMA NoneForgets ==
  ASSUME TypeOK, Hands, InUse, [Next]_vars, ~Crash, NEW i \in Interactions, Forgets(i)
  PROVE  settled'[i] # 0
<1>0. Moves /\ Outbox \in Workers /\ Outbox \notin Reconcilers
  BY NextMoves, HumanBridgeAssumption DEF Workers
<1>1. CASE SettlesUi(i) /\ ~SettlesUi(i)'
  <2>1. ASSUME NEW j \in Interactions, Answer(j) \/ AnswerSelect(j) \/ AnswerClose(j)
        PROVE  FALSE
    <3>1. ASSUME Answer(j) PROVE FALSE
      BY <1>1, <3>1 DEF SettlesUi, Answer, TypeOK, AnswerStates
    <3>2. ASSUME AnswerSelect(j) PROVE FALSE
      BY <1>1, <3>2 DEF SettlesUi, AnswerSelect, TypeOK, AnswerStates
    <3>3. ASSUME AnswerClose(j) PROVE FALSE
      BY <1>1, <3>3 DEF SettlesUi, AnswerClose, TypeOK, AnswerStates
    <3> QED BY <2>1, <3>1, <3>2, <3>3
  <2>2. ASSUME NEW j \in Interactions, AnswerSettle(j)
        PROVE  settled'[i] # 0
    BY <1>1, <2>2 DEF SettlesUi, AnswerSettle, TypeOK, AnswerStates
  <2>3. ui' # ui
    BY <1>1 DEF SettlesUi
  <2>4. \E j \in Interactions : Answer(j) \/ AnswerStep(j)
    BY <2>3, OutboxFrame, ReconcilerFrame
       DEF Next, vars, Ask, AskStep, Park, Enqueue, Post, CloseIssue
  <2> QED BY <2>1, <2>2, <2>4 DEF AnswerStep
<1>2. ASSUME NEW w \in Workers, Settles(w, i), ~Settles(w, i)'
      PROVE  settled'[i] # 0
  <2>0. worker[w] \in WorkerStates /\ worker[w].pc \in {"settle", "expired", "nudge"} /\ worker[w].i = i
    BY <1>2, InHand DEF Settles, HandsOf
  <2>1. worker'[w] # worker[w]
    BY <1>2 DEF Settles
  <2>2. ~DeliveryStep(w)
    BY <2>0 DEF DeliveryStep, Lookup, Insert, Reread, Reinsert, Send, Delivered, Undelivered, At
  <2>3. ~OutboxStep
    <3>1. ASSUME Claim \/ Mark PROVE FALSE
      BY <1>0, <2>0, <2>1, <3>1 DEF Claim, Mark, Become, At, TypeOK
    <3>2. ASSUME DeliveryStep(Outbox) PROVE FALSE
      BY <1>0, <2>1, <2>2, <3>2, DeliveryHands
    <3> QED BY <2>1, <3>1, <3>2 DEF OutboxStep, Release
  <2>4. w \in Reconcilers /\ ReconcilerStep(w)
    <3>1. \A v \in Reconcilers : ReconcilerStep(v) => v = w
      BY <1>0, <2>1, ReconcilerHands DEF Workers
    <3>2. \E v \in Reconcilers : ReconcilerStep(v)
      BY <2>1, <2>3 DEF Next, vars, dataVars, Ask, AskStep, Park, Enqueue, Answer, AnswerStep,
             AnswerSelect, AnswerClose, AnswerSettle, Post, CloseIssue
    <3> QED BY <3>1, <3>2
  <2>5. ExpireClose(w) \/ ExpireNudge(w) \/ PollSettle(w)
    BY <2>0, <2>2, <2>4
       DEF ReconcilerStep, Reconcile, Expire, RetrySelect, Retry, PollSelect, PollBridge, Poll,
           Unpolled, Process, EventsEnd, PollClose, PollEnd, At
  <2>6. CASE ExpireClose(w)
    BY <1>2, <2>0, <2>6 DEF ExpireClose, Goto, At, Settles, TypeOK, WorkerStates
  <2>7. CASE ExpireNudge(w)
    BY <1>2, <2>0, <2>7 DEF ExpireNudge, At, Settles, TypeOK
  <2>8. CASE PollSettle(w)
    BY <2>0, <2>8 DEF PollSettle, TypeOK
  <2> QED BY <2>5, <2>6, <2>7, <2>8
<1> QED BY <1>1, <1>2 DEF Forgets

\* A stop is remembered.
LEMMA CrashCounts ==
  ASSUME TypeOK, [Next]_vars, events'["crash"] = 0
  PROVE  events["crash"] = 0 /\ ~Crash
<1>1. ASSUME NEW e \in EventKinds, Event(e)
      PROVE  events["crash"] = 0 /\ e # "crash"
  BY <1>1, HumanBridgeAssumption DEF Event, TypeOK
<1>2. ~Crash
  BY <1>1, HumanBridgeAssumption DEF Crash
<1>3. NoEvent \/ \E e \in EventKinds : Event(e)
  <2>1. ASSUME NEW i \in Interactions, Ask(i) \/ AskStep(i) \/ AnswerStep(i) PROVE NoEvent
    BY <2>1 DEF Ask, AskStep, Park, Enqueue, AnswerStep, AnswerSelect, AnswerClose, AnswerSettle
  <2>2. ASSUME NEW w, DeliveryStep(w) PROVE NoEvent \/ Event("undelivered")
    BY <2>2 DEF DeliveryStep, Lookup, Insert, Reread, Reinsert, Send, Delivered, Undelivered
  <2>3. CASE OutboxStep
    BY <2>2, <2>3, HumanBridgeAssumption DEF OutboxStep, Release, Claim, Mark
  <2>4. ASSUME NEW w \in Reconcilers, ReconcilerStep(w)
        PROVE  NoEvent \/ Event("undelivered") \/ Event("old") \/ Event("unpolled")
    <3>1. CASE Reconcile(w) \/ Expire(w) \/ ExpireClose(w) \/ ExpireNudge(w)
      BY <3>1 DEF Reconcile, Expire, ExpireClose, ExpireNudge
    <3>2. CASE RetrySelect(w) \/ Retry(w) \/ PollSelect(w) \/ PollBridge(w)
      BY <3>2 DEF RetrySelect, Retry, PollSelect, PollBridge
    <3>3. CASE Poll(w) \/ Unpolled(w) \/ Process(w) \/ EventsEnd(w)
      BY <3>3 DEF Poll, Unpolled, Process, EventsEnd
    <3>4. CASE PollSettle(w) \/ PollClose(w) \/ PollEnd(w)
      BY <3>4 DEF PollSettle, PollClose, PollEnd
    <3> QED BY <2>2, <2>4, <3>1, <3>2, <3>3, <3>4 DEF ReconcilerStep
  <2>5. CASE UNCHANGED vars \/ (\E i \in Interactions : Answer(i)) \/ Post \/ CloseIssue \/ Crash
    BY <2>5, HumanBridgeAssumption DEF vars, NoEvent, Answer, Post, CloseIssue, Crash
  <2> QED BY <2>1, <2>3, <2>4, <2>5, HumanBridgeAssumption DEF Next
<1> QED BY <1>1, <1>2, <1>3 DEF NoEvent

LEMMA NextDecisionSettles ==
  ASSUME TypeOK, Hands, InUse, Steps, DecisionSettles, [Next]_vars
  PROVE  DecisionSettles'
<1> SUFFICES ASSUME NEW i \in Interactions, interaction'[i] \in Decisions, settled'[i] = 0,
                    events'["crash"] = 0
             PROVE  SettlesUi(i)' \/ \E w \in Workers : Settles(w, i)'
  BY DEF DecisionSettles, Carried, SettlesUi, Settles
<1>1. events["crash"] = 0 /\ ~Forgets(i)
  BY CrashCounts, NoneForgets
<1>2. CASE interaction[i] \in Decisions /\ settled[i] = 0
  BY <1>1, <1>2 DEF DecisionSettles, Carried, Forgets, SettlesUi, Settles
<1>3. CASE ~(interaction[i] \in Decisions /\ settled[i] = 0)
  <2>1. CASE Calm \/ \E j \in Interactions : Carries(j)
    BY <1>3, <2>1 DEF Calm, Carries, TypeOK
  <2>2. ASSUME NEW j \in Interactions, Asks(j)
        PROVE  FALSE
    BY <1>3, <2>2 DEF Asks, TypeOK, Decisions
  <2>3. ASSUME NEW j \in Interactions, Decides(j)
        PROVE  i = j
    BY <1>3, <2>3 DEF Decides, TypeOK
  <2> QED BY <2>1, <2>2, <2>3 DEF Steps, DecidesUi, DecidesWorker, CarriesUi, CarriesWorker
<1> QED BY <1>2, <1>3

-----------------------------------------------------------------------------
(* The theorems. *)

Inv == TypeOK /\ OpenIsUnique /\ InUse /\ CommentIsRecorded /\ Hands /\ AttemptsLeft /\ Asked
         /\ OneSettles /\ DecisionSettles

LEMMA InitInv == Init => Inv
<1> SUFFICES ASSUME Init PROVE Inv
  OBVIOUS
<1>1. TypeOK
  BY IdleType, HumanBridgeAssumption
     DEF Init, TypeOK, OutboxRows, BridgeRows, Posts, AnswerStates
<1>2. OpenIsUnique /\ InUse /\ CommentIsRecorded
  BY DEF Init, OpenIsUnique, Open, InUse, CommentIsRecorded
<1>3. Hands /\ AttemptsLeft
  BY IdleHands DEF Init, Hands, HandsOf, AttemptsLeft, IdleWorker, Workers
<1>4. Asked /\ OneSettles
  BY DEF Init, Asked, OneSettles, Decisions, SettlesUi, Settles, IdleWorker
<1>5. DecisionSettles
  BY DEF Init, DecisionSettles, Decisions
<1> QED BY <1>1, <1>2, <1>3, <1>4, <1>5 DEF Inv

LEMMA NextType ==
  ASSUME TypeOK, Hands, InUse, AttemptsLeft, [Next]_vars
  PROVE  TypeOK'
<1>1. ASSUME NEW i \in Interactions, Ask(i) \/ AskStep(i) PROVE TypeOK'
  BY <1>1, AskType
<1>2. ASSUME NEW i \in Interactions, Answer(i) \/ AnswerStep(i) PROVE TypeOK'
  BY <1>2, AnswerType
<1>3. CASE OutboxStep
  BY <1>3, OutboxType, DeliveryType, InHand DEF OutboxStep, Workers
<1>4. ASSUME NEW w \in Reconcilers, ReconcilerStep(w) PROVE TypeOK'
  <2>1. w \in Workers /\ HandsOf(w)
    BY InHand DEF Workers
  <2> QED
    BY <1>4, <2>1, ExpireType, RetryType, DeliveryType, PollType, ProcessType, SettleType
       DEF ReconcilerStep
<1>5. CASE Post \/ CloseIssue \/ Crash
  BY <1>5, EnvironmentType
<1>6. CASE UNCHANGED vars
  BY <1>6 DEF TypeOK, vars, dataVars
<1> QED BY <1>1, <1>2, <1>3, <1>4, <1>5, <1>6 DEF Next

LEMMA NextInv == Inv /\ [Next]_vars => Inv'
<1> SUFFICES ASSUME Inv, [Next]_vars PROVE Inv'
  OBVIOUS
<1>1. Moves /\ Steps
  BY NextMoves, NextSteps DEF Inv
<1> QED
  BY <1>1, NextType, NextOpenIsUnique, NextInUse, NextCommentIsRecorded, NextHands,
     NextAttemptsLeft, NextAsked, NextOneSettles, NextDecisionSettles DEF Inv

\* Inv is an invariant of the specification.
LEMMA Invariance == Spec => []Inv
BY InitInv, NextInv, PTL DEF Spec

\* Every variable keeps its type: no notification is attempted more than MaxAttempts times,
\* and no worker works on a row or an interaction that does not exist.
THEOREM TypeCorrect == Spec => []TypeOK
BY Invariance, PTL DEF Inv

LEMMA UniqueIsOne == TypeOK /\ OpenIsUnique => OneOpenBridge
<1> SUFFICES ASSUME TypeOK, OpenIsUnique, NEW i \in Interactions
             PROVE  Cardinality(OpenFor(i)) <= 1
  BY DEF OneOpenBridge
<1>1. \A b, c \in OpenFor(i) : b = c
  BY DEF OpenIsUnique, OpenFor
<1>2. CASE OpenFor(i) = {}
  BY <1>2, FS_EmptySet
<1>3. ASSUME NEW b \in OpenFor(i)
      PROVE  Cardinality(OpenFor(i)) <= 1
  <2>1. OpenFor(i) = {b}
    BY <1>1, <1>3
  <2>2. Cardinality({b}) = 1
    BY FS_Singleton
  <2> QED BY <2>1, <2>2
<1> QED BY <1>2, <1>3

\* At most one bridge of an interaction is open, whatever the number of reconcilers that
\* open and retry bridges while the outbox worker does.
THEOREM OneBridge == Spec => []OneOpenBridge
BY Invariance, UniqueIsOne, PTL DEF Inv

LEMMA RecordedIsOnce == TypeOK /\ CommentIsRecorded => PostOnce
BY DEF TypeOK, CommentIsRecorded, PostOnce

\* A post becomes a comment at most once, whatever the number of reconcilers that read it.
THEOREM CommentedOnce == Spec => []PostOnce
BY Invariance, RecordedIsOnce, PTL DEF Inv

\* Unless the server stops, who decides an interaction still has its effects to carry out or
\* has carried them out, whoever it is and whatever the others do in between.
THEOREM DecisionsSettle == Spec => []DecisionSettles
BY Invariance, PTL DEF Inv

LEMMA InitDecision == Init => Decision!Init
BY DEF Init, Decision!Init

LEMMA StepDecision ==
  ASSUME TypeOK, OneSettles, Steps
  PROVE  [Decision!Next]_<<interaction, settled>>
<1>1. CASE Calm
  BY <1>1 DEF Calm
<1>2. ASSUME NEW i \in Interactions, Asks(i)
      PROVE  Decision!Next
  BY <1>2 DEF Asks, Decision!Next, Decision!Ask
<1>3. ASSUME NEW i \in Interactions, Decides(i)
      PROVE  Decision!Next
  BY <1>3 DEF Decides, Decision!Next, Decision!Decide
<1>4. ASSUME NEW i \in Interactions, Carries(i), interaction[i] \in Decisions, settled[i] = 0
      PROVE  Decision!Next
  <2>1. settled' = [settled EXCEPT ![i] = 1]
    BY <1>4 DEF Carries
  <2> QED BY <1>4, <2>1 DEF Carries, Decision!Next, Decision!Settle
<1>5. ASSUME NEW i \in Interactions, CarriesUi(i)
      PROVE  Decision!Next
  BY <1>4, <1>5 DEF CarriesUi, OneSettles
<1>6. ASSUME NEW i \in Interactions, NEW w \in Workers, CarriesWorker(w, i)
      PROVE  Decision!Next
  BY <1>4, <1>6 DEF CarriesWorker, OneSettles
<1> QED BY <1>1, <1>2, <1>3, <1>5, <1>6 DEF Steps, DecidesUi, DecidesWorker

\* The bridges implement HumanDecision: the UI, the provider's posts and expiry, however they
\* interleave and wherever the server stops, decide each interaction once, never change the
\* decision, and carry out its effects at most once and after it.
THEOREM Implements == Spec => ImplementsDecision
<1>1. Inv /\ [Next]_vars => [Decision!Next]_<<interaction, settled>>
  BY StepDecision, NextSteps DEF Inv
<1> QED BY <1>1, InitDecision, Invariance, PTL DEF Spec, ImplementsDecision, Decision!Spec
=============================================================================
