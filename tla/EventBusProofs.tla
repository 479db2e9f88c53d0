--------------------------- MODULE EventBusProofs ---------------------------
(***************************************************************************)
(* Proofs about EventBus, for every set of events, services and relays,    *)
(* every topology and every number of faults. The inductive invariant IInv *)
(* adds to the properties what each process knows while it is half way:    *)
(* what a relay holds, what a task has in hand, what is in the inbox.      *)
(***************************************************************************)
EXTENDS EventBus, TLAPS

Visible == {"pending", "published"}

\* A task has a message in hand exactly while it is busy, and it acknowledges
\* only what is in the inbox.
TaskInv ==
  /\ \A s \in Service :
       /\ phase[s] # "idle" => msg[s] \in Event
       /\ phase[s] = "idle" => msg[s] = NoEvent
       /\ phase[s] = "acking" => msg[s] \in inbox
  /\ stale \subseteq Busy

\* The rows a relay holds are pending, held by no other relay, and split into
\* those still to do, those marked, and those whose publish failed.
RelayInv ==
  /\ \A r \in Relay :
       /\ todo[r] \subseteq batch[r]
       /\ marked[r] \subseteq batch[r]
       /\ todo[r] \cap marked[r] = {}
       /\ \A e \in batch[r] : row[e] = "pending"
  /\ \A r, q \in Relay : r # q => batch[r] \cap batch[q] = {}

Marked(e) == \E r \in Relay : e \in marked[r]

\* One send beyond the paid ones belongs to a row that is published, or will
\* be when the poll in progress commits.
SendInv ==
  \A e \in Event :
    /\ sends[e] <= 1 + redo[e]
    /\ row[e] # "published" /\ ~Marked(e) => sends[e] <= redo[e]

\* Only events a request handler stages have an open or rolled-back row.
BornInv == \A e \in Event : row[e] \in {"open", "rolledback"} => e \in Born

InboxInv ==
  \A s \in Service, e \in Event : applied[s][e] > 0 => e \in inbox

\* What shows that an event has left the outbox.
Evidence(s, e) == queue[s][e] > 0 \/ msg[s] = e \/ applied[s][e] > 0

\* A message stands for an event that was sent, a row is sent once it is
\* committed, and marked or published once it is sent.
SentInv ==
  \A e \in Event :
    /\ (\E s \in Service : Evidence(s, e)) => sends[e] > 0
    /\ sends[e] > 0 => row[e] \in Visible
    /\ Marked(e) \/ row[e] = "published" => sends[e] > 0

Accounted(s, e) == AtHand(s, e) \/ e \in inbox \/ <<s, e>> \in rejected

AccountInv ==
  \A e \in Event, s \in Service :
    /\ row[e] = "published" /\ s \in Bound[e] => Accounted(s, e)
    /\ Marked(e) /\ s \in Bound[e] => Accounted(s, e)

IInv ==
  /\ TypeOK
  /\ TaskInv
  /\ RelayInv
  /\ SendInv
  /\ BornInv
  /\ SentInv
  /\ InboxInv
  /\ AtMostOnce
  /\ AccountInv

-----------------------------------------------------------------------------
(* Type correctness. *)

\* Stopping the consumers keeps their variables, the queues and the record of
\* rejected deliveries well typed.
LEMMA StopTyped ==
  ASSUME TypeOK, TaskInv, NEW D \in SUBSET Busy, StopConsumers(D)
  PROVE  /\ queue' \in [Service -> [Event -> Nat]]
         /\ phase' \in [Service -> TaskPhase]
         /\ msg' \in [Service -> Event \cup {NoEvent}]
         /\ stale' \subseteq Service
         /\ up' \in BOOLEAN
         /\ rejected' \subseteq Service \X Event
<1>1. \A s \in Busy : msg[s] \in Event
  BY DEF TaskInv, Busy
<1>2. queue' \in [Service -> [Event -> Nat]]
  BY <1>1 DEF TypeOK, StopConsumers, Busy
<1>3. rejected' \subseteq Service \X Event
  <2>1. D \cup stale \subseteq Busy
    BY DEF TaskInv
  <2>2. Busy \subseteq Service
    BY DEF Busy
  <2>3. {<<s, msg[s]>> : s \in D \cup stale} \subseteq Service \X Event
    BY <1>1, <2>1, <2>2
  <2>4. QED
    BY <2>3 DEF TypeOK, StopConsumers
<1>4. QED
  BY <1>2, <1>3 DEF StopConsumers, TaskPhase

\* Emitting rows keeps the outbox well typed.
LEMMA EmitTyped ==
  ASSUME TypeOK, NEW E \in SUBSET Event, EmitRows(E)
  PROVE  /\ row' \in [Event -> RowState]
         /\ stamp' \in [Event -> Nat]
         /\ clock' \in Nat
BY DEF TypeOK, EmitRows, RowState

\* Routing a message keeps the queues well typed.
LEMMA RouteTyped ==
  ASSUME TypeOK, NEW e \in Event, Route(e)
  PROVE  queue' \in [Service -> [Event -> Nat]]
BY DEF TypeOK, Route

\* Counting one more handler run keeps the counters well typed.
LEMMA BumpTyped ==
  ASSUME NEW f \in [Service -> [Event -> Nat]],
         NEW s \in Service, NEW e \in Event
  PROVE  [f EXCEPT ![s][e] = @ + 1] \in [Service -> [Event -> Nat]]
OBVIOUS

\* ... and changes no other counter.
LEMMA BumpOther ==
  ASSUME NEW f \in [Service -> [Event -> Nat]],
         NEW s \in Service, NEW e \in Event,
         NEW t \in Service, NEW g \in Event, t # s \/ g # e
  PROVE  [f EXCEPT ![s][e] = @ + 1][t][g] = f[t][g]
OBVIOUS

\* The rows a handler stages are events.
LEMMA EmitsTyped ==
  ASSUME NEW s \in Service, NEW e \in Event
  PROVE  Emits[s][e] \in SUBSET Event
BY BusAssumption

\* Every step keeps every variable well typed.
LEMMA TypeStep == TypeOK /\ TaskInv /\ [Next]_vars => TypeOK'
<1> SUFFICES ASSUME TypeOK /\ TaskInv, [Next]_vars PROVE TypeOK'
  OBVIOUS
<1>1. ASSUME NEW e \in Event, Stage(e)
      PROVE  TypeOK'
  BY <1>1 DEF TypeOK, rowVars, relayVars, taskVars, Stage, RowState
<1>2. ASSUME NEW e \in Event, CommitStaged(e) \/ RollbackStaged(e)
      PROVE  TypeOK'
  BY <1>2 DEF TypeOK, rowVars, relayVars, taskVars, CommitStaged,
     RollbackStaged, EndStaged, RowState
<1>3. ASSUME NEW r \in Relay, Claim(r)
      PROVE  TypeOK'
  BY <1>3 DEF TypeOK, rowVars, relayVars, taskVars, Claim, Claimable
<1>4. ASSUME NEW r \in Relay, NEW e \in Event, Publish(r, e)
      PROVE  TypeOK'
  BY <1>4, RouteTyped DEF TypeOK, rowVars, relayVars, taskVars, Publish
<1>5. ASSUME NEW r \in Relay, NEW e \in Event, PublishFails(r, e)
      PROVE  TypeOK'
  <2>1. queue' \in [Service -> [Event -> Nat]]
    BY <1>5, RouteTyped DEF TypeOK, PublishFails
  <2>2. sends' \in [Event -> Nat]
    BY <1>5 DEF TypeOK, PublishFails
  <2>3. redo' \in [Event -> Nat]
    BY <1>5 DEF TypeOK, PublishFails
  <2>4. todo' \in [Relay -> SUBSET Event]
    BY <1>5 DEF TypeOK, PublishFails
  <2>5. faults' \in Nat
    BY <1>5 DEF TypeOK, PublishFails, Fault
  <2>6. QED
    BY <1>5, <2>1, <2>2, <2>3, <2>4, <2>5
    DEF TypeOK, rowVars, taskVars, PublishFails
<1>6. ASSUME NEW r \in Relay, CommitBatch(r)
      PROVE  TypeOK'
  BY <1>6 DEF TypeOK, rowVars, relayVars, taskVars, CommitBatch, RowState
<1>7. ASSUME NEW r \in Relay, AbortBatch(r)
      PROVE  TypeOK'
  BY <1>7 DEF TypeOK, rowVars, relayVars, taskVars, AbortBatch, Fault
<1>8. ASSUME NEW s \in Service, NEW e \in Event, Deliver(s, e)
      PROVE  TypeOK'
  BY <1>8 DEF TypeOK, rowVars, relayVars, taskVars, Deliver, TaskPhase
<1>9. ASSUME NEW s \in Service, CommitHandler(s)
      PROVE  TypeOK'
  <2>1. msg[s] \in Event
    BY <1>9 DEF TaskInv, CommitHandler
  <2>2. /\ row' \in [Event -> RowState]
        /\ stamp' \in [Event -> Nat]
        /\ clock' \in Nat
    BY <1>9, <2>1, EmitsTyped, EmitTyped DEF CommitHandler, TypeOK, rowVars
  <2>3. applied' \in [Service -> [Event -> Nat]]
    <3>1. \/ applied' = applied
          \/ applied' = [applied EXCEPT ![s][msg[s]] = @ + 1]
      BY <1>9 DEF CommitHandler
    <3>2. applied \in [Service -> [Event -> Nat]]
      BY DEF TypeOK
    <3>3. [applied EXCEPT ![s][msg[s]] = @ + 1]
            \in [Service -> [Event -> Nat]]
      BY <2>1, <3>2, BumpTyped
    <3>4. QED
      BY <3>1, <3>2, <3>3
  <2>4. inbox' \subseteq Event /\ phase' \in [Service -> TaskPhase]
    BY <1>9, <2>1 DEF CommitHandler, TypeOK, TaskPhase
  <2>5. QED
    BY <1>9, <2>2, <2>3, <2>4 DEF TypeOK, relayVars, CommitHandler
<1>10. ASSUME NEW s \in Service, Ack(s)
      PROVE  TypeOK'
  <2>1. CASE s \in stale
    <3>1. PICK D \in SUBSET (Busy \ {s}) : StopConsumers(D)
      BY <1>10, <2>1 DEF Ack
    <3>2. QED
      BY <1>10, <3>1, StopTyped DEF TypeOK, rowVars, relayVars, taskVars, Ack
  <2>2. CASE s \notin stale
    BY <1>10, <2>2 DEF TypeOK, rowVars, relayVars, taskVars, Ack, TaskPhase
  <2>3. QED
    BY <2>1, <2>2
<1>11. ASSUME NEW s \in Service, FailDelivery(s)
      PROVE  TypeOK'
  <2>1. PICK D \in SUBSET Busy : StopConsumers(D)
    BY <1>11 DEF FailDelivery, Fail
  <2>2. QED
    BY <1>11, <2>1, StopTyped DEF TypeOK, rowVars, relayVars, taskVars,
       FailDelivery, Fault
<1>12. CASE Kill
  BY <1>12, StopTyped DEF TypeOK, rowVars, relayVars, taskVars, Kill, Fault
<1>13. CASE Restart
  BY <1>13 DEF TypeOK, rowVars, relayVars, taskVars, Restart
<1>14. CASE BrokerRestart
  BY <1>14 DEF TypeOK, rowVars, relayVars, taskVars, BrokerRestart, Fault, Busy
<1>15. CASE UNCHANGED vars
  BY <1>15 DEF TypeOK, rowVars, relayVars, taskVars, vars
<1>16. QED
  BY <1>1, <1>2, <1>3, <1>4, <1>5, <1>6, <1>7, <1>8, <1>9, <1>10, <1>11, <1>12,
     <1>13, <1>14, <1>15
  DEF Next, Producers, Relays, Consumers

-----------------------------------------------------------------------------
(* Frames: what the two halves of the system leave alone. *)

\* Producers and relays leave the consumers' state alone.
LEMMA OutboxFrame ==
  Producers \/ Relays => UNCHANGED <<taskVars, inbox, applied, rejected>>
BY DEF Producers, Relays, Stage, CommitStaged, RollbackStaged, EndStaged, Claim,
       CommitBatch, AbortBatch, Publish, PublishFails, taskVars

\* Consumers and the broker leave the relays' state alone.
LEMMA ConsumerFrame ==
  Consumers \/ Kill \/ Restart \/ BrokerRestart
    => UNCHANGED <<relayVars, sends, redo>>
BY DEF Consumers, CommitHandler, Ack, FailDelivery, Deliver, Kill, Restart,
       BrokerRestart, relayVars

\* On the consumers' side only a handler's commit touches the outbox, and only
\* rows that did not exist.
LEMMA ConsumerRows ==
  ASSUME TypeOK, TaskInv, Consumers \/ Kill \/ Restart \/ BrokerRestart
  PROVE  \A e \in Event : \/ row'[e] = row[e]
                          \/ /\ row[e] = "none" /\ row'[e] = "pending"
                             /\ e \notin Born
<1>1. ASSUME NEW s \in Service, CommitHandler(s), NEW e \in Event
      PROVE  \/ row'[e] = row[e]
             \/ row[e] = "none" /\ row'[e] = "pending" /\ e \notin Born
  <2>1. msg[s] \in Event
    BY <1>1 DEF TaskInv, CommitHandler
  <2>2. Emits[s][msg[s]] \subseteq Event /\ Emits[s][msg[s]] \cap Born = {}
    BY <2>1, BusAssumption
  <2>3. CASE UNCHANGED rowVars
    BY <2>3 DEF rowVars
  <2>4. CASE EmitRows(Emits[s][msg[s]])
    BY <2>2, <2>4 DEF EmitRows
  <2>5. QED
    BY <1>1, <2>3, <2>4 DEF CommitHandler
<1>2. ASSUME NEW s \in Service,
             Ack(s) \/ FailDelivery(s) \/ \E e \in Event : Deliver(s, e)
      PROVE  UNCHANGED rowVars
  BY <1>2 DEF Ack, FailDelivery, Deliver
<1>3. Kill \/ Restart \/ BrokerRestart => UNCHANGED rowVars
  BY DEF Kill, Restart, BrokerRestart
<1>4. QED
  BY <1>1, <1>2, <1>3 DEF Consumers, rowVars

-----------------------------------------------------------------------------
(* The consumers' invariants. *)

\* Every step keeps each task consistent with the message it has in hand.
LEMMA TaskStep == TypeOK /\ TaskInv /\ [Next]_vars => TaskInv'
<1> SUFFICES ASSUME TypeOK, TaskInv, [Next]_vars PROVE TaskInv'
  OBVIOUS
<1>1. CASE UNCHANGED <<taskVars, inbox>>
  BY <1>1 DEF TaskInv, taskVars, Busy
<1>2. ASSUME NEW s \in Service, NEW e \in Event, Deliver(s, e)
      PROVE  TaskInv'
  BY <1>2, BusAssumption DEF TypeOK, TaskInv, Deliver, Busy
<1>3. ASSUME NEW s \in Service, CommitHandler(s)
      PROVE  TaskInv'
  BY <1>3 DEF TypeOK, TaskInv, CommitHandler, Busy
<1>4. ASSUME NEW D \in SUBSET Busy, StopConsumers(D), UNCHANGED inbox
      PROVE  TaskInv'
  BY <1>4 DEF TaskInv, StopConsumers
<1>5. ASSUME NEW s \in Service, Ack(s)
      PROVE  TaskInv'
  <2>1. CASE s \in stale
    <3>1. PICK D \in SUBSET (Busy \ {s}) : StopConsumers(D)
      BY <1>5, <2>1 DEF Ack
    <3>2. QED
      BY <1>4, <1>5, <3>1 DEF Ack
  <2>2. CASE s \notin stale
    <3>1. /\ phase' = [phase EXCEPT ![s] = "idle"]
          /\ msg' = [msg EXCEPT ![s] = NoEvent]
          /\ stale' = stale /\ inbox' = inbox
      BY <1>5, <2>2 DEF Ack
    <3>2. QED
      BY <2>2, <3>1 DEF TypeOK, TaskInv, Busy
  <2>3. QED
    BY <2>1, <2>2
<1>6. ASSUME NEW s \in Service, FailDelivery(s)
      PROVE  TaskInv'
  BY <1>4, <1>6 DEF FailDelivery, Fail
<1>7. CASE Kill
  BY <1>4, <1>7 DEF Kill
<1>8. CASE Restart
  BY <1>8 DEF TaskInv, Restart, Busy
<1>9. CASE BrokerRestart
  BY <1>9 DEF TaskInv, BrokerRestart, Busy
<1>10. QED
  BY <1>1, <1>2, <1>3, <1>5, <1>6, <1>7, <1>8, <1>9, OutboxFrame
  DEF Next, Consumers, vars, taskVars

\* A handler has run only for events in the inbox, and for none of them twice:
\* the commit that runs it finds the event in no inbox yet.
LEMMA InboxStep ==
  TypeOK /\ TaskInv /\ InboxInv /\ AtMostOnce /\ [Next]_vars
    => InboxInv' /\ AtMostOnce'
<1> SUFFICES ASSUME TypeOK, TaskInv, InboxInv, AtMostOnce, [Next]_vars
             PROVE  InboxInv' /\ AtMostOnce'
  OBVIOUS
<1>1. CASE UNCHANGED <<inbox, applied>>
  BY <1>1 DEF InboxInv, AtMostOnce
<1>2. ASSUME NEW s \in Service, CommitHandler(s)
      PROVE  InboxInv' /\ AtMostOnce'
  <2> DEFINE e == msg[s]
  <2>1. e \in Event /\ e \notin inbox /\ inbox' = inbox \cup {e}
    BY <1>2 DEF TaskInv, CommitHandler
  <2>2. \A t \in Service : applied[t][e] = 0
    BY <2>1 DEF InboxInv, TypeOK
  <2>3. CASE applied' = applied
    BY <2>1, <2>3 DEF InboxInv, AtMostOnce
  <2>4. CASE applied' = [applied EXCEPT ![s][e] = @ + 1]
    <3>1. \A t \in Service, f \in Event :
            applied'[t][f] = IF t = s /\ f = e THEN 1 ELSE applied[t][f]
      BY <2>1, <2>2, <2>4 DEF TypeOK
    <3>2. InboxInv'
      BY <2>1, <3>1 DEF InboxInv
    <3>3. AtMostOnce'
      BY <2>2, <3>1 DEF AtMostOnce
    <3>4. QED
      BY <3>2, <3>3
  <2>5. QED
    BY <1>2, <2>3, <2>4 DEF CommitHandler
<1>3. ASSUME NEW s \in Service,
             Ack(s) \/ FailDelivery(s) \/ \E e \in Event : Deliver(s, e)
      PROVE  UNCHANGED <<inbox, applied>>
  BY <1>3 DEF Ack, FailDelivery, Deliver
<1>4. Kill \/ Restart \/ BrokerRestart => UNCHANGED <<inbox, applied>>
  BY DEF Kill, Restart, BrokerRestart
<1>5. QED
  BY <1>1, <1>2, <1>3, <1>4, OutboxFrame DEF Next, Consumers, vars

-----------------------------------------------------------------------------
(* The relays' invariants. *)

\* Every step keeps the relays' claims apart and their rows pending.
LEMMA RelayStep == TypeOK /\ TaskInv /\ RelayInv /\ [Next]_vars => RelayInv'
<1> SUFFICES ASSUME TypeOK, TaskInv, RelayInv, [Next]_vars PROVE RelayInv'
  OBVIOUS
<1>1. ASSUME UNCHANGED relayVars,
             \A e \in Event : row[e] = "pending" => row'[e] = "pending"
      PROVE  RelayInv'
  BY <1>1 DEF TypeOK, RelayInv, relayVars
<1>2. ASSUME NEW e \in Event, Stage(e) \/ CommitStaged(e) \/ RollbackStaged(e)
      PROVE  RelayInv'
  BY <1>1, <1>2
  DEF TypeOK, Stage, CommitStaged, RollbackStaged, EndStaged, relayVars
<1>3. ASSUME NEW r \in Relay, Claim(r)
      PROVE  RelayInv'
  BY <1>3 DEF TypeOK, RelayInv, Claim, Claimable, Locked, rowVars
<1>4. ASSUME NEW r \in Relay, NEW e \in Event,
             Publish(r, e) \/ PublishFails(r, e)
      PROVE  RelayInv'
  <2>1. /\ e \in todo[r] /\ row' = row /\ batch' = batch
        /\ todo' = [todo EXCEPT ![r] = @ \ {e}]
        /\ \/ marked' = marked
           \/ marked' = [marked EXCEPT ![r] = @ \cup {e}]
    BY <1>4 DEF Publish, PublishFails, IsNext, rowVars
  <2>2. QED
    BY <2>1 DEF TypeOK, RelayInv
<1>5. ASSUME NEW r \in Relay, CommitBatch(r)
      PROVE  RelayInv'
  BY <1>5 DEF TypeOK, RelayInv, CommitBatch
<1>6. ASSUME NEW r \in Relay, AbortBatch(r)
      PROVE  RelayInv'
  BY <1>6 DEF TypeOK, RelayInv, AbortBatch, rowVars
<1>7. CASE Consumers \/ Kill \/ Restart \/ BrokerRestart
  BY <1>1, <1>7, ConsumerFrame, ConsumerRows
<1>8. CASE UNCHANGED vars
  BY <1>1, <1>8 DEF vars, relayVars
<1>9. QED
  BY <1>2, <1>3, <1>4, <1>5, <1>6, <1>7, <1>8 DEF Next, Producers, Relays

\* Every step keeps the account of sends: one for the row, the others paid.
LEMMA SendStep ==
  TypeOK /\ TaskInv /\ RelayInv /\ SendInv /\ [Next]_vars => SendInv'
<1> SUFFICES ASSUME TypeOK, TaskInv, RelayInv, SendInv, [Next]_vars,
                    NEW f \in Event
             PROVE  /\ sends'[f] <= 1 + redo'[f]
                    /\ row'[f] # "published" /\ ~Marked(f)'
                         => sends'[f] <= redo'[f]
  BY DEF SendInv
<1>0. /\ sends[f] \in Nat /\ redo[f] \in Nat
      /\ sends[f] <= 1 + redo[f]
      /\ row[f] # "published" /\ ~Marked(f) => sends[f] <= redo[f]
  BY DEF TypeOK, SendInv
<1>1. ASSUME UNCHANGED <<marked, sends, redo>>,
             row[f] = "published" => row'[f] = "published"
      PROVE  /\ sends'[f] <= 1 + redo'[f]
             /\ row'[f] # "published" /\ ~Marked(f)' => sends'[f] <= redo'[f]
  BY <1>0, <1>1 DEF Marked
<1>2. ASSUME NEW e \in Event, Stage(e) \/ CommitStaged(e) \/ RollbackStaged(e)
      PROVE  /\ sends'[f] <= 1 + redo'[f]
             /\ row'[f] # "published" /\ ~Marked(f)' => sends'[f] <= redo'[f]
  BY <1>1, <1>2
  DEF TypeOK, Stage, CommitStaged, RollbackStaged, EndStaged, relayVars
<1>3. ASSUME NEW r \in Relay, Claim(r)
      PROVE  /\ sends'[f] <= 1 + redo'[f]
             /\ row'[f] # "published" /\ ~Marked(f)' => sends'[f] <= redo'[f]
  <2>1. marked[r] = {} /\ marked' = [marked EXCEPT ![r] = {}]
    BY <1>3 DEF Claim, RelayInv
  <2>2. marked' = marked
    BY <2>1 DEF TypeOK
  <2>3. QED
    BY <1>1, <1>3, <2>2 DEF Claim, rowVars
<1>4. ASSUME NEW r \in Relay, NEW e \in Event, Publish(r, e)
      PROVE  /\ sends'[f] <= 1 + redo'[f]
             /\ row'[f] # "published" /\ ~Marked(f)' => sends'[f] <= redo'[f]
  <2>1. e \in todo[r] /\ e \in batch[r] /\ row[e] = "pending"
    BY <1>4 DEF Publish, IsNext, RelayInv
  <2>2. ~Marked(e)
    BY <2>1 DEF RelayInv, Marked
  <2>3. /\ sends' = [sends EXCEPT ![e] = @ + 1] /\ redo' = redo /\ row' = row
        /\ marked' = [marked EXCEPT ![r] = @ \cup {e}]
    BY <1>4 DEF Publish, rowVars
  <2>4. CASE f = e
    BY <1>0, <2>1, <2>2, <2>3, <2>4 DEF TypeOK, Marked
  <2>5. CASE f # e
    BY <1>0, <2>3, <2>5 DEF TypeOK, Marked
  <2>6. QED
    BY <2>4, <2>5
<1>5. ASSUME NEW r \in Relay, NEW e \in Event, PublishFails(r, e)
      PROVE  /\ sends'[f] <= 1 + redo'[f]
             /\ row'[f] # "published" /\ ~Marked(f)' => sends'[f] <= redo'[f]
  <2>1. e \in batch[r] /\ row[e] = "pending" /\ e \in todo[r]
    BY <1>5 DEF PublishFails, IsNext, RelayInv
  <2>2. ~Marked(e)
    BY <2>1 DEF RelayInv, Marked
  <2>3. /\ sends' = [sends EXCEPT ![e] = @ + 1] \/ sends' = sends
        /\ redo' = [redo EXCEPT ![e] = @ + 1]
        /\ row' = row /\ marked' = marked
    BY <1>5 DEF PublishFails, rowVars
  <2>4. QED
    BY <1>0, <2>1, <2>2, <2>3 DEF TypeOK, Marked
<1>6. ASSUME NEW r \in Relay, CommitBatch(r)
      PROVE  /\ sends'[f] <= 1 + redo'[f]
             /\ row'[f] # "published" /\ ~Marked(f)' => sends'[f] <= redo'[f]
  <2>1. /\ sends' = sends /\ redo' = redo
        /\ marked' = [marked EXCEPT ![r] = {}]
        /\ row'[f] = IF f \in marked[r] THEN "published" ELSE row[f]
    BY <1>6 DEF CommitBatch
  <2>2. QED
    BY <1>0, <2>1 DEF TypeOK, Marked
<1>7. ASSUME NEW r \in Relay, AbortBatch(r)
      PROVE  /\ sends'[f] <= 1 + redo'[f]
             /\ row'[f] # "published" /\ ~Marked(f)' => sends'[f] <= redo'[f]
  <2>1. /\ sends' = sends /\ row' = row
        /\ marked' = [marked EXCEPT ![r] = {}]
        /\ redo'[f] = IF f \in marked[r] THEN redo[f] + 1 ELSE redo[f]
    BY <1>7 DEF AbortBatch, rowVars
  <2>2. QED
    BY <1>0, <2>1 DEF TypeOK, Marked
<1>8. CASE Consumers \/ Kill \/ Restart \/ BrokerRestart
  BY <1>1, <1>8, ConsumerFrame, ConsumerRows DEF relayVars
<1>9. CASE UNCHANGED vars
  BY <1>1, <1>9 DEF vars
<1>10. QED
  BY <1>2, <1>3, <1>4, <1>5, <1>6, <1>7, <1>8, <1>9
  DEF Next, Producers, Relays

-----------------------------------------------------------------------------
(* Rows and the messages that stand for them. *)

\* How a row may change: its transaction ends, its poll commits, or it is
\* emitted. Published rows are final, and open rows belong to request handlers.
LEMMA RowStep ==
  ASSUME TypeOK, TaskInv, RelayInv, [Next]_vars, NEW f \in Event
  PROVE  \/ row'[f] = row[f]
         \/ row[f] = "none" /\ row'[f] = "open" /\ f \in Born
         \/ row[f] = "open" /\ row'[f] \in {"pending", "rolledback"}
         \/ row[f] = "none" /\ row'[f] = "pending" /\ f \notin Born
         \/ row[f] = "pending" /\ row'[f] = "published" /\ Marked(f)
<1>1. ASSUME NEW e \in Event, Stage(e)
      PROVE  \/ row'[f] = row[f]
             \/ row[f] = "none" /\ row'[f] = "open" /\ f \in Born
  <2>1. row[e] = "none" /\ e \in Born /\ row' = [row EXCEPT ![e] = "open"]
    BY <1>1 DEF Stage
  <2>2. row \in [Event -> RowState]
    BY DEF TypeOK
  <2>3. CASE f = e
    BY <2>1, <2>2, <2>3
  <2>4. CASE f # e
    BY <2>1, <2>2, <2>4
  <2>5. QED
    BY <2>3, <2>4
<1>2. ASSUME NEW e \in Event, CommitStaged(e) \/ RollbackStaged(e)
      PROVE  \/ row'[f] = row[f]
             \/ row[f] = "open" /\ row'[f] \in {"pending", "rolledback"}
  BY <1>2 DEF TypeOK, CommitStaged, RollbackStaged, EndStaged
<1>3. ASSUME NEW r \in Relay, CommitBatch(r)
      PROVE  \/ row'[f] = row[f]
             \/ row[f] = "pending" /\ row'[f] = "published" /\ Marked(f)
  BY <1>3 DEF CommitBatch, RelayInv, Marked
<1>4. ASSUME NEW r \in Relay,
             \/ Claim(r) \/ AbortBatch(r)
             \/ \E e \in Event : Publish(r, e) \/ PublishFails(r, e)
      PROVE  row' = row
  BY <1>4 DEF Claim, AbortBatch, Publish, PublishFails, rowVars
<1>5. CASE Consumers \/ Kill \/ Restart \/ BrokerRestart
  BY <1>5, ConsumerRows
<1>6. CASE UNCHANGED vars
  BY <1>6 DEF vars
<1>7. QED
  BY <1>1, <1>2, <1>3, <1>4, <1>5, <1>6 DEF Next, Producers, Relays

\* Every step keeps open and rolled-back rows to the request handlers.
LEMMA BornStep ==
  TypeOK /\ TaskInv /\ RelayInv /\ BornInv /\ [Next]_vars => BornInv'
BY RowStep DEF BornInv

\* Only a relay sends, and what it has to do.
LEMMA SendsGrow ==
  ASSUME TypeOK, [Next]_vars, NEW f \in Event
  PROVE  /\ sends[f] \in Nat
         /\ \/ sends'[f] = sends[f]
            \/ sends'[f] = sends[f] + 1 /\ \E r \in Relay : f \in todo[r]
<1>1. sends \in [Event -> Nat]
  BY DEF TypeOK
<1>2. ASSUME NEW r \in Relay, NEW e \in Event,
             Publish(r, e) \/ PublishFails(r, e)
      PROVE  sends'[f] = sends[f] \/ (sends'[f] = sends[f] + 1 /\ f \in todo[r])
  <2>1. e \in todo[r]
    BY <1>2 DEF Publish, PublishFails, IsNext
  <2>2. sends' = sends \/ sends' = [sends EXCEPT ![e] = @ + 1]
    BY <1>2 DEF Publish, PublishFails
  <2>3. QED
    BY <1>1, <2>1, <2>2
<1>3. ASSUME NEW r \in Relay, Claim(r) \/ CommitBatch(r) \/ AbortBatch(r)
      PROVE  sends' = sends
  BY <1>3 DEF Claim, CommitBatch, AbortBatch
<1>4. Producers => sends' = sends
  BY DEF Producers, Stage, CommitStaged, RollbackStaged, EndStaged
<1>5. Consumers \/ Kill \/ Restart \/ BrokerRestart => sends' = sends
  BY ConsumerFrame
<1>6. QED
  BY <1>1, <1>2, <1>3, <1>4, <1>5 DEF Next, Relays, vars

\* Fresh evidence of an event is a copy that a relay has just sent.
LEMMA EvidenceStep ==
  ASSUME TypeOK, TaskInv, [Next]_vars,
         NEW t \in Service, NEW f \in Event, Evidence(t, f)'
  PROVE  Evidence(t, f) \/ sends'[f] > sends[f]
<1>1. ASSUME UNCHANGED <<queue, msg, applied>>
      PROVE  Evidence(t, f)
  BY <1>1 DEF Evidence
<1>2. ASSUME NEW e \in Event, Stage(e) \/ CommitStaged(e) \/ RollbackStaged(e)
      PROVE  Evidence(t, f)
  BY <1>1, <1>2
  DEF Stage, CommitStaged, RollbackStaged, EndStaged, taskVars
<1>3. ASSUME NEW r \in Relay, Claim(r) \/ CommitBatch(r) \/ AbortBatch(r)
      PROVE  Evidence(t, f)
  BY <1>1, <1>3 DEF Claim, CommitBatch, AbortBatch, taskVars
<1>4. ASSUME NEW r \in Relay, NEW e \in Event,
             Publish(r, e) \/ PublishFails(r, e)
      PROVE  Evidence(t, f) \/ sends'[f] > sends[f]
  <2>1. msg' = msg /\ applied' = applied
    BY <1>4 DEF Publish, PublishFails, taskVars
  <2>2. queue' = queue \/ (Route(e) /\ sends' = [sends EXCEPT ![e] = @ + 1])
    BY <1>4 DEF Publish, PublishFails
  <2>3. queue'[t][f] = queue[t][f] \/ (f = e /\ sends' = [sends EXCEPT ![e] = @ + 1])
    BY <2>2 DEF Route, TypeOK
  <2>4. queue'[t][f] = queue[t][f] \/ sends'[f] > sends[f]
    BY <2>3 DEF TypeOK
  <2>5. QED
    BY <2>1, <2>4 DEF Evidence
<1>5. ASSUME NEW s \in Service, NEW e \in Event, Deliver(s, e)
      PROVE  Evidence(t, f)
  BY <1>5 DEF TypeOK, Evidence, Deliver
<1>6. ASSUME NEW s \in Service, CommitHandler(s)
      PROVE  Evidence(t, f)
  <2>1. queue' = queue /\ msg' = msg
    BY <1>6 DEF CommitHandler
  <2>2. \/ applied' = applied
        \/ applied' = [applied EXCEPT ![s][msg[s]] = @ + 1]
    BY <1>6 DEF CommitHandler
  <2>3. msg[s] \in Event
    BY <1>6 DEF TaskInv, CommitHandler
  <2>4. applied'[t][f] = applied[t][f] \/ msg[t] = f
    <3>1. CASE t = s /\ f = msg[s]
      BY <3>1
    <3>2. CASE t # s \/ f # msg[s]
      <4>1. applied \in [Service -> [Event -> Nat]]
        BY DEF TypeOK
      <4>2. [applied EXCEPT ![s][msg[s]] = @ + 1][t][f] = applied[t][f]
        BY <2>3, <3>2, <4>1, BumpOther
      <4>3. QED
        BY <2>2, <4>2
    <3>3. QED
      BY <3>1, <3>2
  <2>5. QED
    BY <2>1, <2>4 DEF Evidence
<1>7. ASSUME NEW D \in SUBSET Busy, StopConsumers(D), UNCHANGED applied
      PROVE  Evidence(t, f)
  <2>1. msg'[t] = NoEvent /\ NoEvent # f
    BY <1>7, BusAssumption DEF StopConsumers
  <2>2. queue'[t][f] = queue[t][f] \/ msg[t] = f
    BY <1>7 DEF TypeOK, StopConsumers
  <2>3. QED
    BY <1>7, <2>1, <2>2 DEF Evidence
<1>8. ASSUME NEW s \in Service, Ack(s)
      PROVE  Evidence(t, f)
  <2>1. CASE s \in stale
    <3>1. PICK D \in SUBSET (Busy \ {s}) : StopConsumers(D)
      BY <1>8, <2>1 DEF Ack
    <3>2. QED
      BY <1>7, <1>8, <3>1 DEF Ack
  <2>2. CASE s \notin stale
    <3>1. /\ queue' = queue /\ applied' = applied
          /\ msg' = [msg EXCEPT ![s] = NoEvent]
      BY <1>8, <2>2 DEF Ack
    <3>2. QED
      BY <3>1, BusAssumption DEF TypeOK, Evidence
  <2>3. QED
    BY <2>1, <2>2
<1>9. ASSUME NEW s \in Service, FailDelivery(s)
      PROVE  Evidence(t, f)
  BY <1>7, <1>9 DEF FailDelivery, Fail
<1>10. CASE Kill
  BY <1>7, <1>10 DEF Kill
<1>11. CASE Restart
  BY <1>1, <1>11 DEF Restart
<1>12. CASE BrokerRestart
  BY <1>12 DEF BrokerRestart, Evidence
<1>13. CASE UNCHANGED vars
  BY <1>1, <1>13 DEF vars
<1>14. QED
  BY <1>2, <1>3, <1>4, <1>5, <1>6, <1>8, <1>9, <1>10, <1>11, <1>12, <1>13
  DEF Next, Producers, Relays, Consumers

-----------------------------------------------------------------------------
(* No event is lost without a trace. *)

\* An event that is accounted for at a service stays so.
LEMMA AccountedStep ==
  ASSUME TypeOK, TaskInv, [Next]_vars,
         NEW t \in Service, NEW f \in Event, Accounted(t, f)
  PROVE  Accounted(t, f)'
<1>1. ASSUME UNCHANGED <<queue, msg, inbox, rejected>>
      PROVE  Accounted(t, f)'
  BY <1>1 DEF Accounted, AtHand
<1>2. ASSUME NEW e \in Event, Stage(e) \/ CommitStaged(e) \/ RollbackStaged(e)
      PROVE  Accounted(t, f)'
  BY <1>1, <1>2
  DEF Stage, CommitStaged, RollbackStaged, EndStaged, taskVars
<1>3. ASSUME NEW r \in Relay, Claim(r) \/ CommitBatch(r) \/ AbortBatch(r)
      PROVE  Accounted(t, f)'
  BY <1>1, <1>3 DEF Claim, CommitBatch, AbortBatch, taskVars
<1>4. ASSUME NEW r \in Relay, NEW e \in Event,
             Publish(r, e) \/ PublishFails(r, e)
      PROVE  Accounted(t, f)'
  <2>1. msg' = msg /\ inbox' = inbox /\ rejected' = rejected
    BY <1>4 DEF Publish, PublishFails, taskVars
  <2>2. queue' = queue \/ Route(e)
    BY <1>4 DEF Publish, PublishFails
  <2>3. queue'[t][f] >= queue[t][f]
    <3>1. queue[t] \in [Event -> Nat] /\ queue[t][f] \in Nat
      BY DEF TypeOK
    <3>2. CASE Route(e)
      <4>1. \/ queue'[t] = queue[t]
            \/ queue'[t] = [queue[t] EXCEPT ![e] = @ + 1]
        BY <3>2 DEF Route
      <4>2. QED
        BY <3>1, <4>1
    <3>3. QED
      BY <2>2, <3>1, <3>2
  <2>4. queue[t][f] \in Nat /\ queue'[t][f] \in Nat
    BY <2>2, RouteTyped DEF TypeOK
  <2>5. QED
    BY <2>1, <2>3, <2>4 DEF Accounted, AtHand
<1>5. ASSUME NEW s \in Service, NEW e \in Event, Deliver(s, e)
      PROVE  Accounted(t, f)'
  <2>1. /\ queue' = [queue EXCEPT ![s][e] = @ - 1]
        /\ msg' = [msg EXCEPT ![s] = e]
        /\ msg[s] = NoEvent
        /\ inbox' = inbox /\ rejected' = rejected
    BY <1>5 DEF Deliver, TaskInv
  <2>2. msg[t] = f => msg'[t] = f
    BY <2>1, BusAssumption DEF TypeOK
  <2>3. queue'[t][f] = queue[t][f] \/ msg'[t] = f
    BY <2>1 DEF TypeOK
  <2>4. QED
    BY <2>1, <2>2, <2>3 DEF Accounted, AtHand
<1>6. ASSUME NEW s \in Service, CommitHandler(s)
      PROVE  Accounted(t, f)'
  BY <1>6 DEF CommitHandler, Accounted, AtHand
<1>7. ASSUME NEW D \in SUBSET Busy, StopConsumers(D), UNCHANGED inbox
      PROVE  Accounted(t, f)'
  <2>1. queue'[t][f] >= queue[t][f]
    BY <1>7 DEF TypeOK, StopConsumers
  <2>2. ASSUME msg[t] = f
        PROVE  queue'[t][f] > 0 \/ <<t, f>> \in rejected'
    <3>1. t \in Busy
      BY <2>2, BusAssumption DEF TaskInv, Busy
    <3>2. CASE t \in D \cup stale
      BY <1>7, <2>2, <3>2 DEF StopConsumers
    <3>3. CASE t \notin D \cup stale
      <4>1. queue'[t] = [queue[t] EXCEPT ![f] = @ + 1]
        BY <1>7, <2>2, <3>1, <3>3 DEF StopConsumers
      <4>2. QED
        BY <4>1 DEF TypeOK
    <3>4. QED
      BY <3>2, <3>3
  <2>3. queue[t][f] \in Nat /\ queue'[t][f] \in Nat
    BY <1>7, StopTyped DEF TypeOK
  <2>4. rejected \subseteq rejected'
    BY <1>7 DEF StopConsumers
  <2>5. QED
    BY <1>7, <2>1, <2>2, <2>3, <2>4 DEF Accounted, AtHand
<1>8. ASSUME NEW s \in Service, Ack(s)
      PROVE  Accounted(t, f)'
  <2>1. CASE s \in stale
    <3>1. PICK D \in SUBSET (Busy \ {s}) : StopConsumers(D)
      BY <1>8, <2>1 DEF Ack
    <3>2. QED
      BY <1>7, <1>8, <3>1 DEF Ack
  <2>2. CASE s \notin stale
    <3>1. /\ queue' = queue /\ inbox' = inbox /\ rejected' = rejected
          /\ msg' = [msg EXCEPT ![s] = NoEvent]
          /\ msg[s] \in inbox
      BY <1>8, <2>2 DEF Ack, TaskInv
    <3>2. QED
      BY <3>1 DEF TypeOK, Accounted, AtHand
  <2>3. QED
    BY <2>1, <2>2
<1>9. ASSUME NEW s \in Service, FailDelivery(s)
      PROVE  Accounted(t, f)'
  BY <1>7, <1>9 DEF FailDelivery, Fail
<1>10. CASE Kill
  BY <1>7, <1>10 DEF Kill
<1>11. CASE Restart
  BY <1>1, <1>11 DEF Restart
<1>12. CASE BrokerRestart
  BY <1>12 DEF BrokerRestart, Accounted, AtHand
<1>13. CASE UNCHANGED vars
  BY <1>1, <1>13 DEF vars
<1>14. QED
  BY <1>2, <1>3, <1>4, <1>5, <1>6, <1>8, <1>9, <1>10, <1>11, <1>12, <1>13
  DEF Next, Producers, Relays, Consumers

\* A row that becomes marked has just been routed to every bound queue.
LEMMA MarkedStep ==
  ASSUME TypeOK, TaskInv, RelayInv, [Next]_vars,
         NEW f \in Event, Marked(f)'
  PROVE  \/ Marked(f)
         \/ /\ sends'[f] > sends[f]
            /\ \A t \in Service : t \in Bound[f] => Accounted(t, f)'
<1>1. ASSUME \A r \in Relay : marked'[r] \subseteq marked[r]
      PROVE  Marked(f)
  BY <1>1 DEF Marked
<1>2. CASE Producers
  BY <1>1, <1>2
  DEF Producers, Stage, CommitStaged, RollbackStaged, EndStaged, relayVars
<1>3. ASSUME NEW r \in Relay, \/ Claim(r) \/ CommitBatch(r) \/ AbortBatch(r)
                              \/ \E e \in Event : PublishFails(r, e)
      PROVE  Marked(f)
  BY <1>1, <1>3 DEF TypeOK, Claim, CommitBatch, AbortBatch, PublishFails
<1>4. ASSUME NEW r \in Relay, NEW e \in Event, Publish(r, e)
      PROVE  \/ Marked(f)
             \/ /\ sends'[f] > sends[f]
                /\ \A t \in Service : t \in Bound[f] => Accounted(t, f)'
  <2>1. CASE f = e
    <3>1. ASSUME NEW t \in Service, t \in Bound[f]
          PROVE  Accounted(t, f)'
      <4>1. queue'[t][f] = queue[t][f] + 1
        BY <1>4, <2>1, <3>1 DEF Publish, Route, TypeOK
      <4>2. queue[t][f] \in Nat
        BY DEF TypeOK
      <4>3. QED
        BY <4>1, <4>2 DEF Accounted, AtHand
    <3>2. sends'[f] > sends[f]
      BY <1>4, <2>1 DEF Publish, TypeOK
    <3>3. QED
      BY <3>1, <3>2
  <2>2. CASE f # e
    BY <1>4, <2>2 DEF Publish, Marked, TypeOK
  <2>3. QED
    BY <2>1, <2>2
<1>5. CASE Consumers \/ Kill \/ Restart \/ BrokerRestart
  BY <1>1, <1>5, ConsumerFrame DEF relayVars
<1>6. CASE UNCHANGED vars
  BY <1>1, <1>6 DEF vars
<1>7. QED
  BY <1>2, <1>3, <1>4, <1>5, <1>6 DEF Next, Relays

\* Every step keeps published and marked rows accounted for.
LEMMA AccountStep ==
  TypeOK /\ TaskInv /\ RelayInv /\ AccountInv /\ [Next]_vars => AccountInv'
<1> SUFFICES ASSUME TypeOK, TaskInv, RelayInv, AccountInv, [Next]_vars,
                    NEW t \in Service, NEW f \in Event, t \in Bound[f],
                    row'[f] = "published" \/ Marked(f)'
             PROVE  Accounted(t, f)'
  BY DEF AccountInv
<1>1. CASE row'[f] = "published"
  <2>1. row[f] = "published" \/ Marked(f)
    BY <1>1, RowStep
  <2>2. QED
    BY <2>1, AccountedStep DEF AccountInv
<1>2. CASE Marked(f)'
  BY <1>2, MarkedStep, AccountedStep DEF AccountInv
<1>3. QED
  BY <1>1, <1>2

\* Every step keeps messages, handler runs, marks and the status behind the
\* sends, and the sends behind committed rows.
LEMMA SentStep ==
  TypeOK /\ TaskInv /\ RelayInv /\ SentInv /\ [Next]_vars => SentInv'
<1> SUFFICES ASSUME TypeOK, TaskInv, RelayInv, SentInv, [Next]_vars, NEW f \in Event
             PROVE  /\ (\E t \in Service : Evidence(t, f)') => sends'[f] > 0
                    /\ sends'[f] > 0 => row'[f] \in Visible
                    /\ Marked(f)' \/ row'[f] = "published" => sends'[f] > 0
  BY DEF SentInv
<1>1. /\ sends[f] \in Nat
      /\ \/ sends'[f] = sends[f]
         \/ sends'[f] = sends[f] + 1 /\ \E r \in Relay : f \in todo[r]
  BY SendsGrow
<1>2. ASSUME sends[f] > 0 \/ sends'[f] > sends[f]
      PROVE  sends'[f] > 0
  BY <1>1, <1>2
<1>3. (\E t \in Service : Evidence(t, f)') => sends'[f] > 0
  BY <1>2, EvidenceStep DEF SentInv
<1>4. ASSUME sends'[f] > 0
      PROVE  row'[f] \in Visible
  <2>1. sends[f] > 0 \/ \E r \in Relay : f \in todo[r]
    BY <1>1, <1>4
  <2>2. row[f] \in Visible
    BY <2>1 DEF SentInv, RelayInv, Visible
  <2>3. QED
    BY <2>2, RowStep DEF Visible
<1>5. Marked(f)' => sends'[f] > 0
  BY <1>2, MarkedStep DEF SentInv
<1>6. row'[f] = "published" => sends'[f] > 0
  BY <1>2, RowStep DEF SentInv
<1>7. QED
  BY <1>3, <1>4, <1>5, <1>6

-----------------------------------------------------------------------------
(* The inductive invariant. *)

\* It holds initially: no row exists, no task is busy, nothing was sent.
LEMMA InitInv == Init => IInv
<1> SUFFICES ASSUME Init PROVE IInv
  OBVIOUS
<1>1. TypeOK
  BY BusAssumption DEF Init, TypeOK, RowState, TaskPhase
<1>2. TaskInv /\ InboxInv
  BY DEF Init, TaskInv, InboxInv, Busy
<1>3. RelayInv /\ SendInv /\ BornInv /\ AccountInv
  BY DEF Init, RelayInv, SendInv, BornInv, AccountInv, Marked
<1>4. SentInv /\ AtMostOnce
  BY BusAssumption DEF Init, SentInv, Evidence, Marked, AtMostOnce
<1>5. QED
  BY <1>1, <1>2, <1>3, <1>4 DEF IInv

\* Every step keeps it.
LEMMA NextInv == IInv /\ [Next]_vars => IInv'
BY TypeStep, TaskStep, RelayStep, SendStep, BornStep, SentStep, InboxStep,
   AccountStep
DEF IInv

\* The inductive invariant holds throughout every behaviour of the bus.
THEOREM InvariantHolds == Spec => []IInv
<1>1. Init => IInv
  BY InitInv
<1>2. IInv /\ [Next]_vars => IInv'
  BY NextInv
<1>3. QED
  BY <1>1, <1>2, PTL DEF Spec

-----------------------------------------------------------------------------
(* What the bus guarantees, whatever the topology and the faults. *)

\* Every variable of the bus keeps its type: rows, queues, tasks and counters.
THEOREM TypeCorrect == Spec => []TypeOK
<1>1. IInv => TypeOK
  BY DEF IInv
<1>2. QED
  BY <1>1, InvariantHolds, PTL

\* At most one handler transaction commits per event over all services, for
\* any number of relay retries, redeliveries and restarts (the inbox lookup of
\* _handle_message and the primary key of inbox_events).
THEOREM AtMostOnceHolds == Spec => []AtMostOnce
<1>1. IInv => AtMostOnce
  BY DEF IInv
<1>2. QED
  BY <1>1, InvariantHolds, PTL

\* No message and no handler run exists for an event whose outbox row has not
\* been committed (the relay selects committed 'pending' rows only).
THEOREM CommittedFirstHolds == Spec => []CommittedFirst
<1>1. IInv => CommittedFirst
  BY DEF IInv, SentInv, Evidence, Visible, CommittedFirst
<1>2. QED
  BY <1>1, InvariantHolds, PTL

\* With any number of relays, an event is sent once plus at most once for each
\* failed publish and each aborted poll (FOR UPDATE SKIP LOCKED in _poll).
THEOREM DuplicatesArePaidForHolds == Spec => []DuplicatesArePaidFor
<1>1. IInv => DuplicatesArePaidFor
  BY DEF IInv, SendInv, DuplicatesArePaidFor
<1>2. QED
  BY <1>1, InvariantHolds, PTL

\* A published event is never lost without a trace at a bound service: it is
\* waiting, in hand, in the inbox, or recorded as rejected or lost (publish
\* before status, commit before acknowledgement).
THEOREM PublishedIsAccountedForHolds == Spec => []PublishedIsAccountedFor
<1>1. IInv => PublishedIsAccountedFor
  BY DEF IInv, AccountInv, Accounted, PublishedIsAccountedFor
<1>2. QED
  BY <1>1, InvariantHolds, PTL

\* A published row is never sent again: relays send only rows they hold, and
\* the rows they hold are pending.
LEMMA FinalStep ==
  ASSUME IInv, [Next]_vars, NEW f \in Event, row[f] = "published"
  PROVE  row'[f] = "published" /\ sends'[f] = sends[f]
<1>1. row'[f] = "published"
  BY RowStep DEF IInv
<1>2. \A r \in Relay : f \notin todo[r]
  BY DEF IInv, RelayInv
<1>3. sends'[f] = sends[f]
  BY <1>2, SendsGrow DEF IInv
<1>4. QED
  BY <1>1, <1>3

\* The status 'published' is final, and no event is sent after it.
THEOREM PublishedIsFinalHolds == Spec => PublishedIsFinal
<1>1. IInv /\ [Next]_vars
        => [\A e \in Event :
              row[e] = "published"
                => row'[e] = "published" /\ sends'[e] = sends[e]]_vars
  BY FinalStep
<1>2. QED
  BY <1>1, InvariantHolds, PTL DEF Spec, PublishedIsFinal

-----------------------------------------------------------------------------
(* The bus implements EventDelivery. *)

\* A handler's commit is the abstract Handle, or a stutter for a service that
\* has no handler: the event was announced, no service had handled it, and the
\* emitted rows are announced by the same commit.
LEMMA HandlerRefines ==
  ASSUME IInv, NEW s \in Service, CommitHandler(s),
         NEW e \in Event, e = msg[s]
  PROVE  [Delivery!Next]_Delivery!vars
<1> DEFINE announced == {f \in Event : row[f] \in {"pending", "published"}}
           handled == {x \in Service \X Event : applied[x[1]][x[2]] > 0}
<1>1. e \notin inbox
  BY DEF CommitHandler
<1>2. CASE e \notin Handled[s]
  BY <1>2 DEF CommitHandler, Delivery!vars, rowVars
<1>3. CASE e \in Handled[s]
  <2>1. /\ applied' = [applied EXCEPT ![s][e] = @ + 1]
        /\ EmitRows(Emits[s][e]) /\ sends' = sends
    BY <1>3 DEF CommitHandler
  <2>2. e \in announced /\ sends[e] > 0
    <3>1. Evidence(s, e)
      BY DEF Evidence
    <3>2. QED
      BY <1>1, <3>1 DEF IInv, SentInv, Visible
  <2>3. \A t \in Service : applied[t][e] = 0
    BY <1>1 DEF IInv, InboxInv, TypeOK
  <2>4. \A t \in Service : <<t, e>> \notin handled
    BY <2>3
  <2>5. handled' = handled \cup {<<s, e>>}
    <3>1. applied \in [Service -> [Event -> Nat]]
      BY DEF IInv, TypeOK
    <3>2. applied'[s][e] = 1
      BY <1>1, <2>1, <2>3, <3>1
    <3>3. \A t \in Service, f \in Event :
            t # s \/ f # e => applied'[t][f] = applied[t][f]
      BY <1>1, <2>1, <3>1, BumpOther
    <3>4. \A x \in Service \X Event :
            x \in handled' <=> x \in handled \/ x = <<s, e>>
      BY <1>1, <3>2, <3>3
    <3>5. QED
      BY <1>1, <3>4
  <2>6. announced' = announced \cup Emits[s][e]
    <3>1. Emits[s][e] \subseteq Event /\ Emits[s][e] \cap Born = {}
      BY <1>1, BusAssumption
    <3>2. \A f \in Emits[s][e] : row[f] \in {"none", "pending", "published"}
      BY <3>1 DEF IInv, BornInv, TypeOK, RowState
    <3>3. \A f \in Event :
            row'[f] = IF f \in Emits[s][e] /\ row[f] = "none"
                        THEN "pending" ELSE row[f]
      BY <2>1, <3>1 DEF EmitRows
    <3>4. QED
      BY <3>1, <3>2, <3>3
  <2>7. {f \in Event : row'[f] = "published"} = {f \in Event : row[f] = "published"}
    <3>1. Emits[s][e] \subseteq Event
      BY <1>1, BusAssumption
    <3>2. \A f \in Event :
            row'[f] = IF f \in Emits[s][e] /\ row[f] = "none"
                        THEN "pending" ELSE row[f]
      BY <2>1, <3>1 DEF EmitRows
    <3>3. QED
      BY <3>2
  <2>8. Delivery!Handle(s, e)
    BY <1>3, <2>1, <2>2, <2>4, <2>5, <2>6, <2>7 DEF Delivery!Handle
  <2>9. QED
    BY <2>8 DEF Delivery!Next
<1>4. QED
  BY <1>2, <1>3

\* Every step of the bus announces an event, sends or handles one, settles a batch,
\* or stutters.
LEMMA StepRefines ==
  ASSUME IInv, [Next]_vars
  PROVE  [Delivery!Next]_Delivery!vars
<1> USE DEF Delivery!vars
<1>1. ASSUME UNCHANGED <<row, applied, sends>>
      PROVE  UNCHANGED Delivery!vars
  BY <1>1
<1>2. ASSUME NEW e \in Event, Stage(e) \/ RollbackStaged(e)
      PROVE  UNCHANGED Delivery!vars
  <2>1. /\ row[e] \in {"none", "open"} /\ applied' = applied /\ sends' = sends
        /\ \/ row' = [row EXCEPT ![e] = "open"]
           \/ row' = [row EXCEPT ![e] = "rolledback"]
    BY <1>2 DEF Stage, RollbackStaged, EndStaged
  <2>2. \A f \in Event : row'[f] = row[f]
                           \/ {row[f], row'[f]} \subseteq {"none", "open", "rolledback"}
    BY <2>1 DEF IInv, TypeOK
  <2>3. QED
    BY <2>1, <2>2
<1>3. ASSUME NEW e \in Event, CommitStaged(e)
      PROVE  Delivery!Next
  <2>1. /\ row[e] = "open" /\ row' = [row EXCEPT ![e] = "pending"]
        /\ applied' = applied /\ sends' = sends
    BY <1>3 DEF CommitStaged, EndStaged
  <2>2. e \in Born
    BY <2>1 DEF IInv, BornInv
  <2>3. \A f \in Event : row'[f] = IF f = e THEN "pending" ELSE row[f]
    BY <2>1 DEF IInv, TypeOK
  <2>4. Delivery!Announce(e)
    BY <2>1, <2>2, <2>3 DEF Delivery!Announce
  <2>5. QED
    BY <2>4 DEF Delivery!Next
<1>4. ASSUME NEW r \in Relay, CommitBatch(r)
      PROVE  Delivery!Next
  <2>1. PICK E \in SUBSET Event : E = marked[r]
    BY DEF IInv, TypeOK
  <2>2. \A f \in E : row[f] = "pending" /\ sends[f] > 0
    BY <2>1 DEF IInv, RelayInv, SentInv, Marked
  <2>3. \A f \in Event : row'[f] = IF f \in E THEN "published" ELSE row[f]
    BY <1>4, <2>1 DEF CommitBatch
  <2>4. applied' = applied /\ sends' = sends
    BY <1>4 DEF CommitBatch
  <2>5. Delivery!Settle(E)
    BY <2>2, <2>3, <2>4 DEF Delivery!Settle
  <2>6. QED
    BY <2>5 DEF Delivery!Next
<1>5. ASSUME NEW r \in Relay, Claim(r) \/ AbortBatch(r)
      PROVE  UNCHANGED <<row, applied, sends>>
  BY <1>5 DEF Claim, AbortBatch, rowVars
<1>6. ASSUME NEW r \in Relay, NEW e \in Event, Publish(r, e) \/ PublishFails(r, e)
       PROVE  [Delivery!Next]_Delivery!vars
  <2>1. row[e] = "pending"
    BY <1>6 DEF Publish, PublishFails, IsNext, IInv, RelayInv
  <2>2. UNCHANGED <<row, applied>>
    BY <1>6 DEF Publish, PublishFails, rowVars
  <2>3. CASE sends' = sends
    BY <1>1, <2>2, <2>3
  <2>4. CASE sends' = [sends EXCEPT ![e] = @ + 1]
    <3>1. Delivery!Send(e)
      BY <2>1, <2>2, <2>4 DEF Delivery!Send
    <3>2. QED
      BY <3>1 DEF Delivery!Next
  <2>5. QED
    BY <1>6, <2>3, <2>4 DEF Publish, PublishFails
<1>7. ASSUME NEW s \in Service,
             Ack(s) \/ FailDelivery(s) \/ \E e \in Event : Deliver(s, e)
      PROVE  UNCHANGED <<row, applied, sends>>
  BY <1>7 DEF Ack, FailDelivery, Deliver, rowVars
<1>8. Kill \/ Restart \/ BrokerRestart \/ UNCHANGED vars
        => UNCHANGED <<row, applied, sends>>
  BY DEF Kill, Restart, BrokerRestart, vars, rowVars
<1>9. ASSUME NEW s \in Service, CommitHandler(s)
      PROVE  [Delivery!Next]_Delivery!vars
  <2>1. msg[s] \in Event
    BY <1>9 DEF CommitHandler, IInv, TaskInv
  <2>2. QED
    BY <1>9, <2>1, HandlerRefines
<1>10. QED
  BY <1>1, <1>2, <1>3, <1>4, <1>5, <1>6, <1>7, <1>8, <1>9
  DEF Next, Producers, Relays, Consumers

\* Outbox, relays, queues, consumers and inbox together implement the abstract
\* delivery: each event is handled by at most one service, only after it was
\* announced, and what its handler stages is announced by the same commit.
THEOREM DeliveryImplemented == Spec => ImplementsDelivery
<1>1. Init => Delivery!Init
  BY DEF Init, Delivery!Init
<1>2. IInv /\ [Next]_vars => [Delivery!Next]_Delivery!vars
  BY StepRefines
<1>3. QED
  BY <1>1, <1>2, InvariantHolds, PTL DEF Spec, ImplementsDelivery, Delivery!Spec
=============================================================================
