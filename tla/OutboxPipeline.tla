--------------------------- MODULE OutboxPipeline ---------------------------
(***************************************************************************)
(* From an outbox row to the effect of its event: OutboxRelay              *)
(* (src/messaging/outbox-relay.ts) publishes committed rows to RabbitMQ,   *)
(* startOrderPlacedConsumer (order-placed.consumer.ts) handles the         *)
(* messages and EffectStore (effect-store.ts) applies each event once.     *)
(* Any number of relays and of consumer processes run concurrently; a      *)
(* consumer handles up to Prefetch messages at a time.                     *)
(***************************************************************************)
EXTENDS Integers, FiniteSets

CONSTANTS
  Events,     \* outbox rows and their events, numbered in claim order
  Poison,     \* the events whose payload says poison; they have no row
  Relays,     \* processes that call publishPending
  Consumers,  \* processes that run startOrderPlacedConsumer
  NoOne,      \* the owner of an unlocked row
  NoEvent,
  Limit,      \* LIMIT of the claim
  Prefetch,   \* unacknowledged messages per consumer
  MaxFaults   \* bound: faults and stops of a consumer in a behaviour

ASSUME PipelineAssumption ==
  /\ Events \subseteq Nat
  /\ Poison \subseteq Events
  /\ NoOne \notin Relays
  /\ NoEvent \notin Events
  /\ Limit \in Nat \ {0} /\ Prefetch \in Nat \ {0} /\ MaxFaults \in Nat

VARIABLES
  row,         \* outbox rows: state, attempts and row-lock owner
  relay,       \* each relay's publishPending call
  topology,    \* what assertTopology has declared so far
  queue,       \* copies of each event ready in shop.order.placed
  dlq,         \* copies of each event in the dead letter queue
  slot,        \* the deliveries each consumer is handling
  up,          \* the consumer processes that are running
  deliveries,  \* rows of order_placed_deliveries per event
  effects,     \* events in order_placed_effects
  inbox,       \* events in processed_messages
  acked,       \* events with acked_at set
  copies,      \* history: publishes of each event the broker took
  applies,     \* history: applyEffect calls of each event that gave true
  dropped,     \* history: events the broker took and routed nowhere
  faults       \* faults so far

relayVars == <<row, relay, copies, dropped>>
storeVars == <<deliveries, effects, inbox, acked, applies>>
vars == <<row, relay, topology, queue, dlq, slot, up, deliveries, effects,
          inbox, acked, copies, applies, dropped, faults>>

Slots == 1..Prefetch
FreeSlot == [event |-> NoEvent, stage |-> "free", held |-> FALSE]
IdleRelay == [pc |-> "idle", batch |-> {}, marked |-> {}, failed |-> NoEvent]

Init ==
  /\ row = [e \in Events |->
              [state |-> "absent", attempts |-> 0, owner |-> NoOne]]
  /\ relay = [w \in Relays |-> IdleRelay]
  /\ topology = "none"
  /\ queue = [e \in Events |-> 0]
  /\ dlq = [e \in Events |-> 0]
  /\ slot = [c \in Consumers |-> [i \in Slots |-> FreeSlot]]
  /\ up = [c \in Consumers |-> TRUE]
  /\ deliveries = [e \in Events |-> 0]
  /\ effects = {} /\ inbox = {} /\ acked = {}
  /\ copies = [e \in Events |-> 0]
  /\ applies = [e \in Events |-> 0]
  /\ dropped = {}
  /\ faults = 0

Fault == faults < MaxFaults /\ faults' = faults + 1

-----------------------------------------------------------------------------
(* A checkout commits: its outbox row becomes visible. *)
InsertRow(e) ==
  /\ e \notin Poison
  /\ row[e].state = "absent"
  /\ row' = [row EXCEPT ![e] = [@ EXCEPT !.state = "pending"]]
  /\ UNCHANGED <<relay, topology, queue, dlq, slot, up, storeVars, copies,
                 dropped, faults>>

(* assertTopology: the exchange comes first, the binding of the queue last. *)
AssertTopology ==
  /\ \/ topology = "none" /\ topology' = "exchange"
     \/ topology = "exchange" /\ topology' = "bound"
  /\ UNCHANGED <<relayVars, queue, dlq, slot, up, storeVars, faults>>

-----------------------------------------------------------------------------
(* Mutant: the claim without FOR UPDATE SKIP LOCKED *)
ClaimableUnlocked == {e \in Events : row[e].state = "pending"}

(* Rows SELECT ... FOR UPDATE SKIP LOCKED can return *)
Claimable == {e \in Events : row[e].state = "pending" /\ row[e].owner = NoOne}

(* ... ORDER BY created_at, id LIMIT *)
FirstRows(S) == {e \in S : Cardinality({f \in S : f < e}) < Limit}

Claim(w) ==
  LET batch == FirstRows(Claimable)
  IN  /\ relay[w].pc = "idle"
      /\ batch # {}
      /\ row' = [e \in Events |->
                   IF e \in batch
                   THEN [state |-> row[e].state, attempts |-> row[e].attempts,
                         owner |-> w]
                   ELSE row[e]]
      /\ relay' = [relay EXCEPT ![w] =
                     [IdleRelay EXCEPT !.pc = "publish", !.batch = batch]]
      /\ UNCHANGED <<topology, queue, dlq, slot, up, storeVars, copies,
                     dropped, faults>>

(* Nothing to claim: publishPending returns 0. *)
EmptyClaim(w) == relay[w].pc = "idle" /\ Claimable = {} /\ UNCHANGED vars

(* The row the loop of publishPending has come to *)
IsNext(w, e) ==
  e \in relay[w].batch /\ \A f \in relay[w].batch : e <= f

(***************************************************************************)
(* The exchange takes the message: a bound queue stores it, else it is     *)
(* gone.  Without the exchange the publish fails: PublishFails.            *)
(***************************************************************************)
BrokerTakes(e) ==
  /\ topology # "none"
  /\ copies' = [copies EXCEPT ![e] = @ + 1]
  /\ IF topology = "bound"
     THEN queue' = [queue EXCEPT ![e] = @ + 1] /\ UNCHANGED dropped
     ELSE dropped' = dropped \cup {e} /\ UNCHANGED queue

(* publishRaw: an event that no outbox row announces, sent once *)
PublishRaw(e) ==
  /\ e \in Poison
  /\ copies[e] = 0
  /\ BrokerTakes(e)
  /\ UNCHANGED <<row, relay, topology, dlq, slot, up, storeVars, faults>>

(* publishOrderPlaced: publish, then waitForConfirms *)
Publish(w) ==
  /\ relay[w].pc = "publish"
  /\ \E e \in relay[w].batch : IsNext(w, e) /\ BrokerTakes(e)
  /\ relay' = [relay EXCEPT ![w] = [@ EXCEPT !.pc = "mark"]]
  /\ UNCHANGED <<row, topology, dlq, slot, up, storeVars, faults>>

(* UPDATE outbox SET published_at, in the claim's transaction *)
Mark(w) ==
  /\ relay[w].pc = "mark"
  /\ \E e \in relay[w].batch :
       /\ IsNext(w, e)
       /\ relay' = [relay EXCEPT ![w] =
            [pc |-> IF relay[w].batch = {e} THEN "close" ELSE "publish",
             batch |-> relay[w].batch \ {e},
             marked |-> relay[w].marked \cup {e},
             failed |-> NoEvent]]
  /\ UNCHANGED <<row, topology, queue, dlq, slot, up, storeVars, copies,
                 dropped, faults>>

(* The rows of relay w after its transaction, with the rows in M published *)
RowsAfter(w, M) ==
  [e \in Events |->
     IF row[e].owner # w THEN row[e]
     ELSE IF e \in M
     THEN [state |-> "published", attempts |-> row[e].attempts + 1,
           owner |-> NoOne]
     ELSE [state |-> row[e].state, attempts |-> row[e].attempts,
           owner |-> NoOne]]

(* The channel is closed and the transaction commits. *)
CommitBatch(w) ==
  /\ relay[w].pc = "close"
  /\ row' = RowsAfter(w, relay[w].marked)
  /\ relay' = [relay EXCEPT ![w] = IdleRelay]
  /\ UNCHANGED <<topology, queue, dlq, slot, up, storeVars, copies, dropped,
                 faults>>

(* Mutant: the error of a publish is logged and its row marked. *)
SwallowPublishError(w) ==
  /\ relay[w].pc = "publish"
  /\ Fault
  /\ relay' = [relay EXCEPT ![w] = [@ EXCEPT !.pc = "mark"]]
  /\ UNCHANGED <<row, topology, queue, dlq, slot, up, storeVars, copies,
                 dropped>>

(***************************************************************************)
(* publishOrderPlaced throws: the broker refused the message, or took it   *)
(* and its confirm was lost.  The claim is rolled back and attempts is     *)
(* raised in a statement of its own, also when the session was lost and    *)
(* there is nothing left to roll back.                                     *)
(***************************************************************************)
PublishFails(w) ==
  /\ relay[w].pc \in {"publish", "orphan"}
  /\ Fault
  /\ \E e \in relay[w].batch :
       /\ IsNext(w, e)
       /\ BrokerTakes(e) \/ UNCHANGED <<queue, copies, dropped>>
       /\ relay' = [relay EXCEPT ![w] =
                      [IdleRelay EXCEPT !.pc = "bump", !.failed = e]]
  /\ row' = RowsAfter(w, {})
  /\ UNCHANGED <<topology, dlq, slot, up, storeVars>>

(* Mutant: attempts counts down as a retry budget. *)
SpendAttempt(w) ==
  /\ relay[w].pc = "bump"
  /\ row[relay[w].failed].owner = NoOne
  /\ row' = [row EXCEPT ![relay[w].failed] =
               [@ EXCEPT !.attempts = row[relay[w].failed].attempts - 1]]
  /\ relay' = [relay EXCEPT ![w] = IdleRelay]
  /\ UNCHANGED <<topology, queue, dlq, slot, up, storeVars, copies, dropped,
                 faults>>

(* UPDATE outbox SET attempts waits for a relay that has claimed the row. *)
BumpAttempts(w) ==
  /\ relay[w].pc = "bump"
  /\ row[relay[w].failed].owner = NoOne
  /\ row' = [row EXCEPT ![relay[w].failed] =
               [@ EXCEPT !.attempts = row[relay[w].failed].attempts + 1]]
  /\ relay' = [relay EXCEPT ![w] = IdleRelay]
  /\ UNCHANGED <<topology, queue, dlq, slot, up, storeVars, copies, dropped,
                 faults>>

(* The message the relay may have in flight when its process stops *)
InFlight(w) ==
  \/ /\ relay[w].pc \in {"publish", "orphan"}
     /\ \E e \in relay[w].batch : IsNext(w, e) /\ BrokerTakes(e)
  \/ UNCHANGED <<queue, copies, dropped>>

(* Mutant: the transaction is left open, its rows stay locked. *)
RelayKeepsLocks(w) ==
  /\ relay[w].pc # "idle"
  /\ Fault
  /\ InFlight(w)
  /\ relay' = [relay EXCEPT ![w] = IdleRelay]
  /\ UNCHANGED <<row, topology, dlq, slot, up, storeVars>>

(***************************************************************************)
(* The relay dies, or a query or the closing of the channel fails: the     *)
(* transaction is rolled back, what was published stays published.         *)
(***************************************************************************)
RelayFails(w) ==
  /\ relay[w].pc # "idle"
  /\ Fault
  /\ InFlight(w)
  /\ row' = RowsAfter(w, {})
  /\ relay' = [relay EXCEPT ![w] = IdleRelay]
  /\ UNCHANGED <<topology, dlq, slot, up, storeVars>>

(***************************************************************************)
(* The database session is lost while the relay waits for the broker: its  *)
(* row locks are gone, and it learns of it only from its next query.       *)
(***************************************************************************)
SessionLost(w) ==
  /\ relay[w].pc = "publish"
  /\ Fault
  /\ row' = RowsAfter(w, {})
  /\ relay' = [relay EXCEPT ![w] =
                 [IdleRelay EXCEPT !.pc = "orphan", !.batch = relay[w].batch]]
  /\ UNCHANGED <<topology, queue, dlq, slot, up, storeVars, copies, dropped>>

(* The publish goes through, the UPDATE after it fails. *)
PublishOrphan(w) ==
  /\ relay[w].pc = "orphan"
  /\ \E e \in relay[w].batch : IsNext(w, e) /\ BrokerTakes(e)
  /\ relay' = [relay EXCEPT ![w] = IdleRelay]
  /\ UNCHANGED <<row, topology, dlq, slot, up, storeVars, faults>>

-----------------------------------------------------------------------------
SetSlot(c, i, rec) == slot' = [slot EXCEPT ![c] = [@ EXCEPT ![i] = rec]]

(* The handler in slot i of c goes on to the given stage. *)
Advance(c, i, stage) ==
  SetSlot(c, i, [event |-> slot[c][i].event, stage |-> stage,
                 held |-> slot[c][i].held])

Deliver(c, i) ==
  /\ up[c] /\ topology = "bound"
  /\ slot[c][i].stage = "free"
  /\ \E e \in Events :
       /\ queue[e] > 0
       /\ queue' = [queue EXCEPT ![e] = @ - 1]
       /\ SetSlot(c, i, [event |-> e, stage |-> "received", held |-> TRUE])
  /\ UNCHANGED <<relayVars, topology, dlq, up, storeVars, faults>>

RecordDelivery(c, i) ==
  /\ slot[c][i].stage = "received"
  /\ deliveries' = [deliveries EXCEPT ![slot[c][i].event] = @ + 1]
  /\ Advance(c, i, "recorded")
  /\ UNCHANGED <<relayVars, topology, queue, dlq, up, effects, inbox, acked,
                 applies, faults>>

(* rejectPermanent: a poison message goes to the dead letter queue. *)
RejectPoison(c, i) ==
  /\ slot[c][i].stage = "recorded"
  /\ slot[c][i].held /\ slot[c][i].event \in Poison
  /\ dlq' = [dlq EXCEPT ![slot[c][i].event] = @ + 1]
  /\ SetSlot(c, i, FreeSlot)
  /\ UNCHANGED <<relayVars, topology, queue, up, storeVars, faults>>

(* Mutant: the effect is inserted without a conflict on event_id. *)
EffectEveryTime(e) ==
  /\ inbox' = inbox \cup {e}
  /\ effects' = effects \cup {e}
  /\ applies' = [applies EXCEPT ![e] = @ + 1]

(* The transaction of applyEffect: both INSERTs do nothing on a conflict. *)
EffectCommits(e) ==
  /\ inbox' = inbox \cup {e}
  /\ effects' = effects \cup {e}
  /\ applies' = [applies EXCEPT ![e] = IF e \in effects THEN @ ELSE @ + 1]

ApplyEffect(c, i) ==
  /\ slot[c][i].stage = "recorded"
  /\ slot[c][i].event \notin Poison
  /\ EffectCommits(slot[c][i].event)
  /\ Advance(c, i, "applied")
  /\ UNCHANGED <<relayVars, topology, queue, dlq, up, deliveries, acked,
                 faults>>

Ack(c, i) ==
  /\ slot[c][i].stage = "applied"
  /\ slot[c][i].held
  /\ SetSlot(c, i, [event |-> slot[c][i].event, stage |-> "acked",
                    held |-> FALSE])
  /\ UNCHANGED <<relayVars, topology, queue, dlq, up, storeVars, faults>>

MarkAcked(c, i) ==
  /\ slot[c][i].stage = "acked"
  /\ acked' = acked \cup {slot[c][i].event}
  /\ SetSlot(c, i, FreeSlot)
  /\ UNCHANGED <<relayVars, topology, queue, dlq, up, deliveries, effects,
                 inbox, applies, faults>>

(***************************************************************************)
(* An ack, nack or reject on a channel that stopConsumer has closed throws *)
(* out of the handler: the rejected promise ends the process.              *)
(***************************************************************************)
EndProcess(c) ==
  slot' = [slot EXCEPT ![c] = [i \in Slots |-> FreeSlot]]

AnswerOnClosed(c, i) ==
  /\ ~slot[c][i].held
  /\ \/ slot[c][i].stage = "applied"
     \/ slot[c][i].stage = "recorded" /\ slot[c][i].event \in Poison
  /\ EndProcess(c)
  /\ UNCHANGED <<relayVars, topology, queue, dlq, up, storeVars, faults>>

(***************************************************************************)
(* recordDelivery or applyEffect throws.  A transient error puts the       *)
(* message back (nack), another one dead-letters it (reject).  The         *)
(* transaction of applyEffect may have committed all the same.             *)
(***************************************************************************)
HandlerFails(c, i) ==
  LET e == slot[c][i].event
  IN  /\ \/ slot[c][i].stage = "received"
         \/ slot[c][i].stage = "recorded" /\ e \notin Poison
      /\ Fault
      /\ \/ slot[c][i].stage = "recorded" /\ EffectCommits(e)
         \/ UNCHANGED <<inbox, effects, applies>>
      /\ \/ /\ slot[c][i].held
            /\ \/ queue' = [queue EXCEPT ![e] = @ + 1] /\ UNCHANGED dlq
               \/ dlq' = [dlq EXCEPT ![e] = @ + 1] /\ UNCHANGED queue
            /\ SetSlot(c, i, FreeSlot)
         \/ ~slot[c][i].held /\ EndProcess(c) /\ UNCHANGED <<queue, dlq>>
      /\ UNCHANGED <<relayVars, topology, up, deliveries, acked>>

(* Slots of c with a message of e the broker waits to be answered *)
Unacked(c, e) == {i \in Slots : slot[c][i].event = e /\ slot[c][i].held}

(* The broker sees the channel of c gone and puts its messages back. *)
Requeue(c) ==
  queue' = [e \in Events |-> queue[e] + Cardinality(Unacked(c, e))]

(***************************************************************************)
(* The process dies at any point (SIGKILL before the ack too).  No listener *)
(* takes the 'error' of a channel or connection, so their loss ends it as  *)
(* well, and so does a failing markAcked: the nack or reject after the ack *)
(* names a message the broker no longer holds, which closes the channel.   *)
(***************************************************************************)
ConsumerDies(c) ==
  /\ up[c] \/ \E i \in Slots : slot[c][i] # FreeSlot
  /\ Fault
  /\ up' = [up EXCEPT ![c] = FALSE]
  /\ Requeue(c)
  /\ EndProcess(c)
  /\ UNCHANGED <<relayVars, topology, dlq, storeVars>>

(* stopConsumer closes the channel while handlers are still running. *)
StopConsumer(c) ==
  /\ up[c]
  /\ Fault
  /\ up' = [up EXCEPT ![c] = FALSE]
  /\ Requeue(c)
  /\ slot' = [slot EXCEPT ![c] =
       [i \in Slots |-> [event |-> slot[c][i].event,
                         stage |-> slot[c][i].stage, held |-> FALSE]]]
  /\ UNCHANGED <<relayVars, topology, dlq, storeVars>>

(* A new process consumes once the handlers of the old one have ended. *)
Restart(c) ==
  /\ ~up[c]
  /\ \A i \in Slots : slot[c][i] = FreeSlot
  /\ up' = [up EXCEPT ![c] = TRUE]
  /\ UNCHANGED <<relayVars, topology, queue, dlq, slot, storeVars, faults>>

-----------------------------------------------------------------------------
(* What is left of a publishPending call once it has claimed its rows *)
CallStep(w) ==
  Publish(w) \/ Mark(w) \/ CommitBatch(w) \/ BumpAttempts(w)
  \/ PublishOrphan(w)

RelayStep(w) == Claim(w) \/ CallStep(w)

RelayFault(w) == PublishFails(w) \/ RelayFails(w) \/ SessionLost(w)

HandlerStep(c, i) ==
  Deliver(c, i) \/ RecordDelivery(c, i) \/ RejectPoison(c, i)
  \/ ApplyEffect(c, i) \/ Ack(c, i) \/ MarkAcked(c, i)
  \/ AnswerOnClosed(c, i)

Next ==
  \/ \E e \in Events : InsertRow(e) \/ PublishRaw(e)
  \/ AssertTopology
  \/ \E w \in Relays : RelayStep(w) \/ RelayFault(w)
  \/ \E c \in Consumers, i \in Slots : HandlerStep(c, i) \/ HandlerFails(c, i)
  \/ \E c \in Consumers : ConsumerDies(c) \/ StopConsumer(c) \/ Restart(c)
  \/ \E w \in Relays : EmptyClaim(w)

Spec == Init /\ [][Next]_vars

(***************************************************************************)
(* A publishPending call that has started goes on, the broker delivers     *)
(* what it has to consumers that are up, and handlers go on.  Nothing in   *)
(* the repository calls publishPending again or restarts a consumer, so    *)
(* neither Claim nor Restart is fair.                                      *)
(***************************************************************************)
FairSpec ==
  /\ Spec
  /\ WF_vars(AssertTopology)
  /\ \A w \in Relays : WF_vars(CallStep(w))
  /\ \A c \in Consumers : WF_vars(\E i \in Slots : HandlerStep(c, i))

-----------------------------------------------------------------------------
RowType == [state: {"absent", "pending", "published"}, attempts: Nat,
            owner: Relays \cup {NoOne}]
RelayType == [pc: {"idle", "publish", "mark", "close", "bump", "orphan"},
              batch: SUBSET Events, marked: SUBSET Events,
              failed: Events \cup {NoEvent}]
SlotType == [event: Events, held: BOOLEAN,
             stage: {"received", "recorded", "applied", "acked"}]
            \cup {FreeSlot}

(* Every table, queue and process state has its type. *)
TypeOK ==
  /\ row \in [Events -> RowType]
  /\ relay \in [Relays -> RelayType]
  /\ topology \in {"none", "exchange", "bound"}
  /\ queue \in [Events -> Nat] /\ dlq \in [Events -> Nat]
  /\ slot \in [Consumers -> [Slots -> SlotType]]
  /\ up \in [Consumers -> BOOLEAN]
  /\ deliveries \in [Events -> Nat]
  /\ effects \subseteq Events /\ inbox \subseteq Events
  /\ acked \subseteq Events
  /\ copies \in [Events -> Nat] /\ applies \in [Events -> Nat]
  /\ dropped \subseteq Events
  /\ faults \in 0..MaxFaults

(* The message of e is with the broker or a handler, dead-lettered or done. *)
Kept(e) ==
  \/ queue[e] > 0 \/ dlq[e] > 0 \/ e \in effects
  \/ \E c \in Consumers, i \in Slots : slot[c][i].event = e /\ slot[c][i].held

(***************************************************************************)
(* At least once: an event whose row says it is published is ready in the  *)
(* queue, being handled, applied, or in the dead letter queue, unless the  *)
(* broker took it before the queue was bound.  Neither a relay nor a       *)
(* consumer may lose it by stopping at any point.                          *)
(***************************************************************************)
NoEventLost ==
  \A e \in Events :
    row[e].state = "published" => Kept(e) \/ e \in dropped

(***************************************************************************)
(* Exactly one effect: whatever is delivered twice, retried or redelivered *)
(* after a crash, applyEffect reports the event as new at most once, in    *)
(* step with the inbox, and only of a delivery that was recorded and is    *)
(* not poison.  acked_at is only set on an effect that exists.             *)
(***************************************************************************)
EffectOnce ==
  /\ \A e \in Events : applies[e] = IF e \in effects THEN 1 ELSE 0
  /\ inbox = effects
  /\ acked \subseteq effects
  /\ \A e \in effects : deliveries[e] > 0 /\ e \notin Poison

(***************************************************************************)
(* Two relays do not publish the same row: FOR UPDATE SKIP LOCKED leaves   *)
(* duplicates to faults, at most one more copy of an event per fault.      *)
(***************************************************************************)
DuplicatesNeedFaults == \A e \in Events : copies[e] <= 1 + faults

(* An event the broker was given has come to its end. *)
Settled(e) == e \in effects \/ dlq[e] > 0 \/ e \in dropped

(***************************************************************************)
(* Every publishPending call ends, also one that waits for a row another   *)
(* relay has claimed.  If some relay is called again and again, every      *)
(* committed outbox row is published in the end, whatever the other relays *)
(* do.  If some consumer stays up from some time on, every event the       *)
(* broker was given is applied or dead-lettered, unless it was taken       *)
(* before the queue was bound.                                             *)
(***************************************************************************)
EventuallyHandled ==
  /\ \A w \in Relays : relay[w].pc # "idle" ~> relay[w].pc = "idle"
  /\ \A w \in Relays : WF_vars(Claim(w)) =>
       \A e \in Events :
         row[e].state = "pending" ~> row[e].state = "published"
  /\ \A c \in Consumers : <>[]up[c] =>
       \A e \in Events : copies[e] > 0 ~> Settled(e)
=============================================================================
