------------------------------ MODULE EventBus ------------------------------
(***************************************************************************)
(* The path of a domain event, from the outbox row a service stages inside *)
(* its own database transaction, through the outbox relay and the RabbitMQ *)
(* topic exchange, to the consumers of the service queues and the inbox    *)
(* that makes their handlers idempotent.                                   *)
(*                                                                         *)
(*   producers   the outbox rows written by the request handlers           *)
(*   relays      common/messagebus/outbox_relay.py, one poll at a time     *)
(*   broker      one durable queue per service, the messages in it not     *)
(*               persistent; a queue is a bag, because a requeue and a     *)
(*               relay retry both change the order of delivery             *)
(*   consumers   common/messagebus/consumer.py, one task per service, all  *)
(*               of them in the one process worker/consumer_runner.py runs *)
(*   inbox       common/events/inbox.py, one table that all services share *)
(*                                                                         *)
(* A database transaction is one atomic step at its commit; what it read   *)
(* earlier is a step of its own, and other transactions run in between.    *)
(***************************************************************************)
EXTENDS Naturals, FiniteSets

CONSTANTS
  Event,      \* outbox rows, each with the event id its row is keyed by
  Service,    \* the services that own a queue (the keys of SERVICE_QUEUES)
  Relay,      \* running outbox relay processes
  Bound,      \* Bound[e]: the services whose queue is bound to e's routing key
  Handled,    \* Handled[s]: the events s has a registered handler for
  Emits,      \* Emits[s][e]: the rows that handler stages in its transaction
  Born,       \* the events request handlers stage; the others are emitted
  BatchSize,  \* LIMIT of the relay's poll
  MaxFaults,  \* bound on the faults of one behaviour
  NoEvent     \* "no message in hand"

ASSUME BusAssumption ==
  /\ Bound \in [Event -> SUBSET Service]
  /\ Handled \in [Service -> SUBSET Event]
  /\ Emits \in [Service -> [Event -> SUBSET Event]]
  /\ Born \subseteq Event
  /\ \A s \in Service, e \in Event : Emits[s][e] \cap Born = {}
  /\ BatchSize \in Nat \ {0}
  /\ MaxFaults \in Nat
  /\ NoEvent \notin Event

VARIABLES
  row,       \* row[e]: the state of e's outbox row, as other sessions see it
  stamp,     \* stamp[e]: its created_at, taken when it is staged
  clock,     \* the next created_at
  batch,     \* batch[r]: the rows relay r holds FOR UPDATE
  todo,      \* todo[r]: those of them the loop has still to reach
  marked,    \* marked[r]: those its open transaction has set to 'published'
  queue,     \* queue[s][e]: copies of e waiting in s's queue
  phase,     \* phase[s]: where s's consumer task stands
  msg,       \* msg[s]: the message it has taken and not acknowledged
  stale,     \* services whose message in hand the broker has forgotten
  up,        \* is the consumer process running
  inbox,     \* the event ids in inbox_events
  applied,   \* applied[s][e]: committed transactions in which s's handler ran
  sends,     \* sends[e]: publishes of e that reached the exchange
  redo,      \* redo[e]: times the relay gave e up with its row still pending
  rejected,  \* deliveries <<s, e>> rejected without requeue or lost in a queue
  faults     \* faults so far

relayVars == <<batch, todo, marked>>
rowVars   == <<row, stamp, clock>>
taskVars  == <<phase, msg, stale, up>>
vars == <<row, stamp, clock, batch, todo, marked, queue, phase, msg, stale,
          up, inbox, applied, sends, redo, rejected, faults>>

RowState  == {"none", "open", "pending", "published", "rolledback"}
TaskPhase == {"idle", "handling", "acking"}

Fault == faults < MaxFaults /\ faults' = faults + 1

-----------------------------------------------------------------------------
(* Initial state: empty tables and queues, every process running. *)

Init ==
  /\ row = [e \in Event |-> "none"]
  /\ stamp = [e \in Event |-> 0]
  /\ clock = 1
  /\ batch = [r \in Relay |-> {}]
  /\ todo = [r \in Relay |-> {}]
  /\ marked = [r \in Relay |-> {}]
  /\ queue = [s \in Service |-> [e \in Event |-> 0]]
  /\ phase = [s \in Service |-> "idle"]
  /\ msg = [s \in Service |-> NoEvent]
  /\ stale = {}
  /\ up = TRUE
  /\ inbox = {}
  /\ applied = [s \in Service |-> [e \in Event |-> 0]]
  /\ sends = [e \in Event |-> 0]
  /\ redo = [e \in Event |-> 0]
  /\ rejected = {}
  /\ faults = 0

-----------------------------------------------------------------------------
(* Producers. *)

\* A request handler adds the row to its session: created_at is fixed here,
\* while the row itself stays invisible until the transaction commits.
Stage(e) ==
  /\ e \in Born
  /\ row[e] = "none"
  /\ row' = [row EXCEPT ![e] = "open"]
  /\ stamp' = [stamp EXCEPT ![e] = clock]
  /\ clock' = clock + 1
  /\ UNCHANGED <<relayVars, queue, taskVars, inbox, applied, sends, redo,
                 rejected, faults>>

EndStaged(e, outcome) ==
  /\ row[e] = "open"
  /\ row' = [row EXCEPT ![e] = outcome]
  /\ UNCHANGED <<stamp, clock, relayVars, queue, taskVars, inbox, applied,
                 sends, redo, rejected, faults>>

CommitStaged(e)   == EndStaged(e, "pending")
RollbackStaged(e) == EndStaged(e, "rolledback")

-----------------------------------------------------------------------------
(* The outbox relay. *)

Locked == UNION {batch[r] : r \in Relay}

\* Mutations of Claimable: without SKIP LOCKED, reading rows of open
\* transactions, and without retries.
ClaimableUnlocked  == {e \in Event : row[e] = "pending"}
ClaimableDirty     == {e \in Event : row[e] \in {"open", "pending"}} \ Locked
ClaimableOnce      == {e \in Event : row[e] = "pending" /\ redo[e] = 0} \ Locked

\* WHERE status = 'pending' ... FOR UPDATE SKIP LOCKED.
Claimable == {e \in Event : row[e] = "pending"} \ Locked

\* ORDER BY created_at LIMIT batch_size, over the rows in S.
IsOldest(B, S) ==
  /\ B \subseteq S
  /\ \A e \in B, f \in S \ B : stamp[e] <= stamp[f]
  /\ Cardinality(B) <= BatchSize
  /\ B # S => Cardinality(B) = BatchSize

\* One poll: claim a batch. An empty poll changes nothing.
Claim(r) ==
  /\ batch[r] = {}
  /\ \E B \in SUBSET Claimable :
       /\ B # {}
       /\ IsOldest(B, Claimable)
       /\ batch' = [batch EXCEPT ![r] = B]
       /\ todo' = [todo EXCEPT ![r] = B]
       /\ marked' = [marked EXCEPT ![r] = {}]
  /\ UNCHANGED <<rowVars, queue, taskVars, inbox, applied, sends, redo,
                 rejected, faults>>

\* The loop takes the rows of the batch in created_at order.
IsNext(r, e) == e \in todo[r] /\ \A f \in todo[r] : stamp[e] <= stamp[f]

\* The topic exchange copies the message to every queue bound to its key.
Route(e) ==
  queue' = [s \in Service |->
              IF s \in Bound[e] THEN [queue[s] EXCEPT ![e] = @ + 1]
                                ELSE queue[s]]

\* Publish one row and set its status inside the relay's open transaction.
Publish(r, e) ==
  /\ IsNext(r, e)
  /\ Route(e)
  /\ sends' = [sends EXCEPT ![e] = @ + 1]
  /\ todo' = [todo EXCEPT ![r] = @ \ {e}]
  /\ marked' = [marked EXCEPT ![r] = @ \cup {e}]
  /\ UNCHANGED <<rowVars, batch, taskVars, inbox, applied, redo, rejected,
                 faults>>

\* The publish raises: attempts and last_error are recorded, the row stays
\* pending and the loop goes on. The message may have reached the exchange
\* all the same, when only the broker's confirmation was lost.
PublishFails(r, e) ==
  /\ Fault
  /\ IsNext(r, e)
  /\ \/ Route(e) /\ sends' = [sends EXCEPT ![e] = @ + 1]
     \/ UNCHANGED <<queue, sends>>
  /\ todo' = [todo EXCEPT ![r] = @ \ {e}]
  /\ redo' = [redo EXCEPT ![e] = @ + 1]
  /\ UNCHANGED <<rowVars, batch, marked, taskVars, inbox, applied, rejected>>

\* Mutation of CommitBatch: every row of the batch is set to 'published'.
CommitWholeBatch(r) ==
  /\ batch[r] # {}
  /\ todo[r] = {}
  /\ row' = [e \in Event |-> IF e \in batch[r] THEN "published" ELSE row[e]]
  /\ batch' = [batch EXCEPT ![r] = {}]
  /\ marked' = [marked EXCEPT ![r] = {}]
  /\ UNCHANGED <<stamp, clock, todo, queue, taskVars, inbox, applied, sends,
                 redo, rejected, faults>>

\* The batch is through: one commit for all of its status updates.
CommitBatch(r) ==
  /\ batch[r] # {}
  /\ todo[r] = {}
  /\ row' = [e \in Event |-> IF e \in marked[r] THEN "published" ELSE row[e]]
  /\ batch' = [batch EXCEPT ![r] = {}]
  /\ marked' = [marked EXCEPT ![r] = {}]
  /\ UNCHANGED <<stamp, clock, todo, queue, taskVars, inbox, applied, sends,
                 redo, rejected, faults>>

\* The relay dies or its transaction fails: the rows it published already are
\* pending again, and its locks are gone. systemd restarts it.
AbortBatch(r) ==
  /\ Fault
  /\ batch[r] # {}
  /\ batch' = [batch EXCEPT ![r] = {}]
  /\ todo' = [todo EXCEPT ![r] = {}]
  /\ marked' = [marked EXCEPT ![r] = {}]
  /\ redo' = [e \in Event |-> IF e \in marked[r] THEN redo[e] + 1 ELSE redo[e]]
  /\ UNCHANGED <<rowVars, queue, taskVars, inbox, applied, sends, rejected>>

-----------------------------------------------------------------------------
(* The consumers. *)

\* Mutation of Deliver: handled events only.
DeliverHandled(s, e) ==
  /\ up
  /\ phase[s] = "idle"
  /\ queue[s][e] > 0
  /\ e \in Handled[s]
  /\ queue' = [queue EXCEPT ![s][e] = @ - 1]
  /\ msg' = [msg EXCEPT ![s] = e]
  /\ phase' = [phase EXCEPT ![s] = IF e \in inbox THEN "acking" ELSE "handling"]
  /\ UNCHANGED <<rowVars, relayVars, stale, up, inbox, applied, sends, redo,
                 rejected, faults>>

\* The next message is delivered and its transaction begins by looking the
\* event id up in the inbox: a known id is acknowledged without any effect.
Deliver(s, e) ==
  /\ up
  /\ phase[s] = "idle"
  /\ queue[s][e] > 0
  /\ queue' = [queue EXCEPT ![s][e] = @ - 1]
  /\ msg' = [msg EXCEPT ![s] = e]
  /\ phase' = [phase EXCEPT ![s] = IF e \in inbox THEN "acking" ELSE "handling"]
  /\ UNCHANGED <<rowVars, relayVars, stale, up, inbox, applied, sends, redo,
                 rejected, faults>>

\* The rows the handler staged become visible with its commit.
EmitRows(E) ==
  LET fresh == {f \in E : row[f] = "none"}
  IN  /\ row' = [f \in Event |-> IF f \in fresh THEN "pending" ELSE row[f]]
      /\ stamp' = [f \in Event |-> IF f \in fresh THEN clock ELSE stamp[f]]
      /\ clock' = IF fresh = {} THEN clock ELSE clock + 1

\* A mutation of CommitHandler: no primary key behind the inbox lookup.
CommitUnkeyed(s) ==
  LET e == msg[s]
      runs == e \in Handled[s]
  IN  /\ phase[s] = "handling"
      /\ inbox' = inbox \cup {e}
      /\ IF runs
           THEN /\ applied' = [applied EXCEPT ![s][e] = @ + 1]
                /\ EmitRows(Emits[s][e])
           ELSE UNCHANGED <<applied, rowVars>>
      /\ phase' = [phase EXCEPT ![s] = "acking"]
      /\ UNCHANGED <<relayVars, queue, msg, stale, up, sends, redo, rejected,
                     faults>>

\* The transaction commits the handler's writes together with the inbox row.
\* The inbox is keyed by the event id alone: with the row there already the
\* insert violates the primary key instead, see FailDelivery. A service with
\* no handler for the event records it in the inbox just the same.
CommitHandler(s) ==
  LET e == msg[s]
      runs == e \in Handled[s]
  IN  /\ phase[s] = "handling"
      /\ e \notin inbox
      /\ inbox' = inbox \cup {e}
      /\ IF runs
           THEN /\ applied' = [applied EXCEPT ![s][e] = @ + 1]
                /\ EmitRows(Emits[s][e])
           ELSE UNCHANGED <<applied, rowVars>>
      /\ phase' = [phase EXCEPT ![s] = "acking"]
      /\ UNCHANGED <<relayVars, queue, msg, stale, up, sends, redo, rejected,
                     faults>>

Busy == {s \in Service : phase[s] # "idle"}

\* The process ends. The broker puts the messages in hand back in their
\* queues, except those it has forgotten and those whose task could still
\* reject them (D).
StopConsumers(D) ==
  LET gone == D \cup stale
  IN  /\ up' = FALSE
      /\ phase' = [s \in Service |-> "idle"]
      /\ msg' = [s \in Service |-> NoEvent]
      /\ stale' = {}
      /\ queue' = [s \in Service |->
                     IF s \in Busy \ gone
                       THEN [queue[s] EXCEPT ![msg[s]] = @ + 1]
                       ELSE queue[s]]
      /\ rejected' = rejected \cup {<<s, msg[s]>> : s \in gone}

\* Acknowledging a message over a channel that is gone raises instead, and
\* the exception ends the process.
Ack(s) ==
  /\ phase[s] = "acking"
  /\ IF s \in stale
       THEN \E D \in SUBSET (Busy \ {s}) : StopConsumers(D)
       ELSE /\ phase' = [phase EXCEPT ![s] = "idle"]
            /\ msg' = [msg EXCEPT ![s] = NoEvent]
            /\ UNCHANGED <<queue, stale, up, rejected>>
  /\ UNCHANGED <<rowVars, relayVars, inbox, applied, sends, redo, faults>>

\* message.process() rejects the message of a failed transaction without
\* requeue and the exception ends the task; gather() then ends the process,
\* and each task it cancels rejects the message it has in hand or loses the
\* connection first.
Fail(s) ==
  \E D \in SUBSET Busy : s \in D /\ StopConsumers(D)

\* A transaction fails because the inbox row exists, or as a fault: the
\* handler raises or the database goes away.
FailDelivery(s) ==
  /\ phase[s] = "handling"
  /\ \/ msg[s] \in inbox /\ UNCHANGED faults
     \/ msg[s] \notin inbox /\ Fault
  /\ Fail(s)
  /\ UNCHANGED <<rowVars, relayVars, inbox, applied, sends, redo>>

\* The process is killed, or stopped for a deploy, between any two steps.
Kill ==
  /\ Fault
  /\ up
  /\ StopConsumers({})
  /\ UNCHANGED <<rowVars, relayVars, inbox, applied, sends, redo>>

\* Restart=always, RestartSec=5.
Restart ==
  /\ ~up
  /\ up' = TRUE
  /\ UNCHANGED <<rowVars, relayVars, queue, phase, msg, stale, inbox, applied,
                 sends, redo, rejected, faults>>

\* The broker restarts: its queues are durable, the messages in them are not.
\* A message in hand goes on being handled over a channel that is gone.
BrokerRestart ==
  /\ Fault
  /\ queue' = [s \in Service |-> [e \in Event |-> 0]]
  /\ stale' = Busy
  /\ rejected' = rejected \cup
                   {x \in Service \X Event : queue[x[1]][x[2]] > 0}
  /\ UNCHANGED <<rowVars, relayVars, phase, msg, up, inbox, applied, sends,
                 redo>>

-----------------------------------------------------------------------------
Producers == \E e \in Event : Stage(e) \/ CommitStaged(e) \/ RollbackStaged(e)

Relays ==
  \E r \in Relay :
    \/ Claim(r) \/ CommitBatch(r) \/ AbortBatch(r)
    \/ \E e \in Event : Publish(r, e) \/ PublishFails(r, e)

Consumers ==
  \E s \in Service :
    \/ CommitHandler(s) \/ Ack(s) \/ FailDelivery(s)
    \/ \E e \in Event : Deliver(s, e)

Next == Producers \/ Relays \/ Consumers \/ Kill \/ Restart \/ BrokerRestart

Spec == Init /\ [][Next]_vars

\* The relay and the consumer run for ever under systemd, the queue is served
\* first in first out, and a transaction either commits or fails.
Fairness ==
  /\ \A r \in Relay : /\ WF_vars(Claim(r))
                      /\ WF_vars(CommitBatch(r))
                      /\ WF_vars(\E e \in Event : Publish(r, e))
  /\ \A s \in Service : /\ \A e \in Event : SF_vars(Deliver(s, e))
                        /\ WF_vars(CommitHandler(s) \/ FailDelivery(s))
                        /\ WF_vars(Ack(s))
  /\ WF_vars(Restart)

FairSpec == Spec /\ Fairness

-----------------------------------------------------------------------------
(* Properties. *)

TypeOK ==
  /\ row \in [Event -> RowState]
  /\ stamp \in [Event -> Nat]
  /\ clock \in Nat
  /\ batch \in [Relay -> SUBSET Event]
  /\ todo \in [Relay -> SUBSET Event]
  /\ marked \in [Relay -> SUBSET Event]
  /\ queue \in [Service -> [Event -> Nat]]
  /\ phase \in [Service -> TaskPhase]
  /\ msg \in [Service -> Event \cup {NoEvent}]
  /\ stale \subseteq Service
  /\ up \in BOOLEAN
  /\ inbox \subseteq Event
  /\ applied \in [Service -> [Event -> Nat]]
  /\ sends \in [Event -> Nat]
  /\ redo \in [Event -> Nat]
  /\ rejected \subseteq Service \X Event
  /\ faults \in Nat

\* However often the relay republishes an event and the broker redelivers it,
\* at most one handler transaction commits for it, over all services together
\* (the inbox lookup of _handle_message and the primary key behind it).
AtMostOnce ==
  /\ \A s \in Service, e \in Event : applied[s][e] <= 1
  /\ \A s, t \in Service, e \in Event :
       applied[s][e] > 0 /\ applied[t][e] > 0 => s = t

\* A message exists, waiting or in hand, and a handler has run, only for an
\* event whose outbox row was committed: the relay never reads ahead of the
\* transaction that stages the row.
CommittedFirst ==
  \A e \in Event :
    (\E s \in Service : queue[s][e] > 0 \/ msg[s] = e \/ applied[s][e] > 0)
      => row[e] \in {"pending", "published"}

\* A row is never in the hands of two relays, so a second copy of a message
\* is always paid for by a failed publish or by an aborted poll (FOR UPDATE
\* SKIP LOCKED, and the status that leaves with the same commit).
DuplicatesArePaidFor ==
  \A e \in Event : sends[e] <= 1 + redo[e]

AtHand(s, e) == queue[s][e] > 0 \/ msg[s] = e

\* Once its row says published, no bound service loses an event silently: its
\* copy is waiting, or the event is in the inbox, or the delivery was rejected
\* or lost with the broker. In particular the relay does not commit 'published'
\* for a row it has not sent, and no task acknowledges before its commit.
PublishedIsAccountedFor ==
  \A e \in Event, s \in Service :
    row[e] = "published" /\ s \in Bound[e]
      => AtHand(s, e) \/ e \in inbox \/ <<s, e>> \in rejected

\* The bus implements EventDelivery: a row is announced when its transaction
\* has committed, settled when it says published, and an event is handled by a
\* service when a transaction of that service's handler has committed. The relay
\* never reads ahead of the transaction that stages the row, sends nothing after
\* the row says published, and sets no row to published that it has not sent.
Delivery == INSTANCE EventDelivery WITH
  announced <- {e \in Event : row[e] \in {"pending", "published"}},
  copies    <- sends,
  settled   <- {e \in Event : row[e] = "published"},
  handled   <- {x \in Service \X Event : applied[x[1]][x[2]] > 0}

ImplementsDelivery == Delivery!Spec

\* Every committed outbox row is published in the end, the rows handlers emit
\* included, whatever finite number of polls fail.
EventuallyPublished ==
  \A e \in Event : row[e] = "pending" ~> row[e] = "published"

\* Every published event is settled in the end: it reaches the inbox, unless
\* every delivery of it was rejected or lost.
EventuallySettled ==
  \A e \in Event :
    row[e] = "published" ~>
      e \in inbox \/ \A s \in Bound[e] : <<s, e>> \in rejected

\* A published row is final: it is never pending again and never sent again
\* (a duplicate can only come from a poll that did not commit).
PublishedIsFinal ==
  [][\A e \in Event :
       row[e] = "published" => row'[e] = "published" /\ sends'[e] = sends[e]]_vars

-----------------------------------------------------------------------------
(* What the repository says of the bus and the code does not do. *)

\* worker/handlers: each handler "is triggered by" its event, and its service's
\* queue is bound to the event's key. So when every copy of a published event
\* is gone and no fault has happened, every registered handler has run.
EveryHandlerRuns ==
  \A e \in Event :
    /\ row[e] = "published"
    /\ faults = 0
    /\ \A s \in Service : ~AtHand(s, e)
    => \A s \in Bound[e] : e \in Handled[s] => applied[s][e] = 1
=============================================================================
