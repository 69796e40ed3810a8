------------------------ MODULE OutboxPipelineProofs ------------------------
(***************************************************************************)
(* The delivery guarantees of OutboxPipeline, for every set of events,     *)
(* relays and consumers and every prefetch and batch limit.                *)
(***************************************************************************)
EXTENDS OutboxPipeline, FiniteSetTheorems, TLAPS

-----------------------------------------------------------------------------
(* Facts about the operators *)

(* FOR UPDATE SKIP LOCKED hands out rows; a transaction's end keeps types. *)
LEMMA RowsAfterType ==
  ASSUME TypeOK, NEW w \in Relays, NEW M
  PROVE  RowsAfter(w, M) \in [Events -> RowType]
BY DEF TypeOK, RowType, RowsAfter

(* What the broker puts back is counted in whole messages. *)
LEMMA UnackedCount ==
  ASSUME TypeOK, NEW c \in Consumers, NEW e \in Events
  PROVE  /\ Cardinality(Unacked(c, e)) \in Nat
         /\ Unacked(c, e) # {} => Cardinality(Unacked(c, e)) > 0
<1>1. IsFiniteSet(Slots)
  BY PipelineAssumption, FS_Interval DEF Slots
<1>2. IsFiniteSet(Unacked(c, e))
  BY <1>1, FS_Subset DEF Unacked
<1>3. QED
  BY <1>2, FS_CardinalityType, FS_EmptySet

(* Every consumer's slot is a record of its type. *)
LEMMA SlotTyped ==
  ASSUME TypeOK, NEW c \in Consumers, NEW i \in Slots
  PROVE  slot[c][i] \in SlotType
BY DEF TypeOK

(* Replacing one slot by a typed record keeps the slots typed. *)
LEMMA SetSlotType ==
  ASSUME TypeOK, NEW c \in Consumers, NEW i \in Slots,
         NEW rec \in SlotType, SetSlot(c, i, rec)
  PROVE  /\ slot' \in [Consumers -> [Slots -> SlotType]]
         /\ slot'[c][i] = rec
         /\ \A d \in Consumers, j \in Slots :
              d # c \/ j # i => slot'[d][j] = slot[d][j]
BY DEF TypeOK, SetSlot

(* A free slot is typed. *)
LEMMA FreeSlotType == FreeSlot \in SlotType
BY DEF SlotType

(* A slot that is not free holds an event. *)
LEMMA BusySlot ==
  ASSUME TypeOK, NEW c \in Consumers, NEW i \in Slots,
         slot[c][i].stage # "free"
  PROVE  /\ slot[c][i].event \in Events
         /\ slot[c][i].held \in BOOLEAN
BY SlotTyped DEF SlotType, FreeSlot

(* A relay between calls has its type. *)
LEMMA IdleRelayType == IdleRelay \in RelayType
BY DEF IdleRelay, RelayType

(* The end of a process frees all its slots and no others. *)
LEMMA EndProcessType ==
  ASSUME TypeOK, NEW c \in Consumers, EndProcess(c)
  PROVE  /\ slot' \in [Consumers -> [Slots -> SlotType]]
         /\ \A j \in Slots : slot'[c][j] = FreeSlot
         /\ \A d \in Consumers, j \in Slots :
              d # c => slot'[d][j] = slot[d][j]
BY FreeSlotType DEF TypeOK, EndProcess

(* The broker's intake only adds messages. *)
LEMMA BrokerTakesType ==
  ASSUME TypeOK, NEW e \in Events, BrokerTakes(e)
  PROVE  /\ queue' \in [Events -> Nat] /\ copies' \in [Events -> Nat]
         /\ dropped' \subseteq Events
         /\ dropped \subseteq dropped'
         /\ \A f \in Events : queue[f] > 0 => queue'[f] > 0
         /\ queue'[e] > 0 \/ e \in dropped'
BY DEF TypeOK, BrokerTakes

(* A requeue only adds messages, one for each that c had not answered. *)
LEMMA RequeueType ==
  ASSUME TypeOK, NEW c \in Consumers, Requeue(c)
  PROVE  /\ queue' \in [Events -> Nat]
         /\ \A e \in Events : queue[e] > 0 => queue'[e] > 0
         /\ \A i \in Slots :
              slot[c][i].held /\ slot[c][i].event \in Events
                => queue'[slot[c][i].event] > 0
<1>1. \A e \in Events : queue'[e] = queue[e] + Cardinality(Unacked(c, e))
  BY DEF Requeue
<1>2. \A e \in Events : queue[e] \in Nat
  BY DEF TypeOK
<1>3. queue' \in [Events -> Nat]
  BY <1>2, UnackedCount DEF Requeue
<1>4. \A e \in Events : queue[e] > 0 => queue'[e] > 0
  BY <1>1, <1>2, UnackedCount
<1>5. ASSUME NEW i \in Slots, slot[c][i].held, slot[c][i].event \in Events
      PROVE  queue'[slot[c][i].event] > 0
  <2>1. i \in Unacked(c, slot[c][i].event)
    BY <1>5 DEF Unacked
  <2>2. Cardinality(Unacked(c, slot[c][i].event)) > 0
    BY <2>1, <1>5, UnackedCount
  <2>3. QED
    BY <1>1, <1>2, <1>5, <2>2, UnackedCount
<1>6. QED
  BY <1>3, <1>4, <1>5

-----------------------------------------------------------------------------
(* Type correctness *)

(* The rows a claim takes are events. *)
LEMMA ClaimTyped ==
  ASSUME TypeOK, NEW w \in Relays, Claim(w)
  PROVE  TypeOK'
<1> DEFINE batch == FirstRows(Claimable)
<1>1. batch \subseteq Events
  BY DEF FirstRows, Claimable
<1>2. row' \in [Events -> RowType]
  BY DEF TypeOK, Claim, RowType
<1>3. relay' \in [Relays -> RelayType]
  <2>1. [IdleRelay EXCEPT !.pc = "publish", !.batch = batch] \in RelayType
    BY <1>1 DEF IdleRelay, RelayType
  <2>2. relay' = [relay EXCEPT ![w] =
                    [IdleRelay EXCEPT !.pc = "publish", !.batch = batch]]
    BY DEF Claim
  <2>3. QED
    BY <2>1, <2>2 DEF TypeOK
<1>4. QED
  BY <1>2, <1>3 DEF TypeOK, Claim, storeVars

(* Publishing, marking and the ends of a relay's transaction keep types. *)
LEMMA RelayTyped ==
  ASSUME TypeOK, NEW w \in Relays, RelayStep(w) \/ RelayFault(w)
  PROVE  TypeOK'
<1>0. relay[w] \in RelayType
  BY DEF TypeOK
<1> USE DEF storeVars
<1>1. CASE Claim(w)
  BY <1>1, ClaimTyped
<1>2. CASE Publish(w)
  <2>1. relay' \in [Relays -> RelayType]
    BY <1>2, <1>0 DEF TypeOK, Publish, RelayType
  <2>2. PICK e \in Events : BrokerTakes(e)
    BY <1>2, <1>0 DEF Publish, RelayType
  <2>3. QED
    BY <1>2, <2>1, <2>2, BrokerTakesType DEF TypeOK, Publish
<1>3. CASE Mark(w)
  <2>1. relay' \in [Relays -> RelayType]
    BY <1>3, <1>0 DEF TypeOK, Mark, RelayType
  <2>2. QED
    BY <1>3, <2>1 DEF TypeOK, Mark
<1>4. CASE CommitBatch(w)
  BY <1>4, RowsAfterType, IdleRelayType DEF TypeOK, CommitBatch
<1>5. CASE BumpAttempts(w)
  <2> DEFINE f == relay[w].failed
             new == [row[f] EXCEPT !.attempts = row[f].attempts + 1]
  <2>0. row' = [row EXCEPT ![f] = new]
    BY <1>5 DEF BumpAttempts
  <2>1. row' \in [Events -> RowType]
    <3>1. CASE f \in Events
      <4>1. row[f] \in RowType
        BY <3>1 DEF TypeOK
      <4>2. new \in RowType
        BY <4>1 DEF RowType
      <4> HIDE DEF new
      <4>3. QED
        BY <2>0, <4>2 DEF TypeOK
    <3>2. CASE f \notin Events
      <4> HIDE DEF new, f
      <4>1. QED
        BY <2>0, <3>2 DEF TypeOK
    <3>3. QED
      BY <3>1, <3>2
  <2>2. QED
    BY <1>5, <2>1, IdleRelayType DEF TypeOK, BumpAttempts
<1>6. CASE PublishOrphan(w)
  <2>1. PICK e \in Events : BrokerTakes(e)
    BY <1>6, <1>0 DEF PublishOrphan, RelayType
  <2>2. QED
    BY <1>6, <2>1, BrokerTakesType, IdleRelayType DEF TypeOK, PublishOrphan
<1>7. CASE PublishFails(w)
  <2>1. PICK e \in relay[w].batch :
          /\ BrokerTakes(e) \/ UNCHANGED <<queue, copies, dropped>>
          /\ relay' = [relay EXCEPT ![w] =
                         [IdleRelay EXCEPT !.pc = "bump", !.failed = e]]
    BY <1>7 DEF PublishFails
  <2>2. e \in Events
    BY <1>0 DEF RelayType
  <2>3. [IdleRelay EXCEPT !.pc = "bump", !.failed = e] \in RelayType
    BY <2>2 DEF IdleRelay, RelayType
  <2>4. relay' \in [Relays -> RelayType]
    BY <2>1, <2>3 DEF TypeOK
  <2>5. /\ queue' \in [Events -> Nat] /\ copies' \in [Events -> Nat]
        /\ dropped' \subseteq Events
    BY <2>1, <2>2, BrokerTakesType DEF TypeOK
  <2>6. QED
    BY <1>7, <2>4, <2>5, RowsAfterType, PipelineAssumption
    DEF TypeOK, PublishFails, Fault
<1>8. CASE RelayFails(w)
  <2>1. /\ queue' \in [Events -> Nat] /\ copies' \in [Events -> Nat]
        /\ dropped' \subseteq Events
    BY <1>8, <1>0, BrokerTakesType DEF TypeOK, RelayFails, InFlight, RelayType
  <2>2. QED
    BY <1>8, <2>1, RowsAfterType, IdleRelayType, PipelineAssumption
    DEF TypeOK, RelayFails, Fault
<1>9. CASE SessionLost(w)
  <2>1. [IdleRelay EXCEPT !.pc = "orphan", !.batch = relay[w].batch]
          \in RelayType
    BY <1>0 DEF IdleRelay, RelayType
  <2>2. relay' \in [Relays -> RelayType]
    BY <1>9, <2>1 DEF TypeOK, SessionLost
  <2>3. QED
    BY <1>9, <2>2, RowsAfterType, PipelineAssumption
    DEF TypeOK, SessionLost, Fault
<1>10. QED
  BY <1>1, <1>2, <1>3, <1>4, <1>5, <1>6, <1>7, <1>8, <1>9
  DEF RelayStep, CallStep, RelayFault

(* A handler's step keeps types. *)
LEMMA HandlerTyped ==
  ASSUME TypeOK, NEW c \in Consumers, NEW i \in Slots,
         HandlerStep(c, i) \/ HandlerFails(c, i)
  PROVE  TypeOK'
<1> DEFINE s == slot[c][i]
<1>0. s \in SlotType
  BY SlotTyped
<1>a. s.stage # "free" => s.event \in Events /\ s.held \in BOOLEAN
  BY BusySlot
<1> USE DEF relayVars, storeVars
<1> HIDE DEF s
<1>1. CASE Deliver(c, i)
  <2>1. PICK e \in Events :
          /\ queue[e] > 0
          /\ queue' = [queue EXCEPT ![e] = @ - 1]
          /\ SetSlot(c, i, [event |-> e, stage |-> "received", held |-> TRUE])
    BY <1>1 DEF Deliver
  <2>2. [event |-> e, stage |-> "received", held |-> TRUE] \in SlotType
    BY DEF SlotType
  <2>3. queue' \in [Events -> Nat]
    BY <2>1 DEF TypeOK
  <2>4. slot' \in [Consumers -> [Slots -> SlotType]]
    BY <2>1, <2>2, SetSlotType
  <2>5. QED
    BY <1>1, <2>3, <2>4 DEF TypeOK, Deliver
<1>2. CASE RecordDelivery(c, i)
  <2>1. slot' \in [Consumers -> [Slots -> SlotType]]
    <3>1. [event |-> s.event, stage |-> "recorded", held |-> s.held]
            \in SlotType
      BY <1>2, <1>a DEF SlotType, RecordDelivery, s
    <3>2. QED
      BY <1>2, <3>1, SetSlotType DEF RecordDelivery, Advance, s
  <2>2. deliveries' \in [Events -> Nat]
    BY <1>2, <1>a DEF TypeOK, RecordDelivery, s
  <2>3. QED
    BY <1>2, <2>1, <2>2 DEF TypeOK, RecordDelivery
<1>3. CASE RejectPoison(c, i)
  <2>1. slot' \in [Consumers -> [Slots -> SlotType]]
    BY <1>3, FreeSlotType, SetSlotType DEF RejectPoison
  <2>2. QED
    BY <1>3, <1>a, <2>1 DEF TypeOK, RejectPoison, s
<1>4. CASE ApplyEffect(c, i)
  <2>1. slot' \in [Consumers -> [Slots -> SlotType]]
    <3>1. [event |-> s.event, stage |-> "applied", held |-> s.held]
            \in SlotType
      BY <1>4, <1>a DEF SlotType, ApplyEffect, s
    <3>2. QED
      BY <1>4, <3>1, SetSlotType DEF ApplyEffect, Advance, s
  <2>2. /\ effects' \subseteq Events /\ inbox' \subseteq Events
        /\ applies' \in [Events -> Nat]
    BY <1>4, <1>a DEF TypeOK, ApplyEffect, EffectCommits, s
  <2>3. QED
    BY <1>4, <2>1, <2>2 DEF TypeOK, ApplyEffect
<1>5. CASE Ack(c, i)
  <2>1. [event |-> s.event, stage |-> "acked", held |-> FALSE] \in SlotType
    BY <1>5, <1>a DEF SlotType, Ack, s
  <2>2. slot' \in [Consumers -> [Slots -> SlotType]]
    BY <1>5, <2>1, SetSlotType DEF Ack, s
  <2>3. QED
    BY <1>5, <2>2 DEF TypeOK, Ack
<1>6. CASE MarkAcked(c, i)
  <2>1. slot' \in [Consumers -> [Slots -> SlotType]]
    BY <1>6, FreeSlotType, SetSlotType DEF MarkAcked
  <2>2. QED
    BY <1>6, <1>a, <2>1 DEF TypeOK, MarkAcked, s
<1>7. CASE AnswerOnClosed(c, i)
  BY <1>7, EndProcessType DEF TypeOK, AnswerOnClosed
<1>8. CASE HandlerFails(c, i)
  <2>1. slot' \in [Consumers -> [Slots -> SlotType]]
    BY <1>8, FreeSlotType, SetSlotType, EndProcessType DEF HandlerFails
  <2>2. /\ effects' \subseteq Events /\ inbox' \subseteq Events
        /\ applies' \in [Events -> Nat]
    BY <1>8, <1>a DEF TypeOK, HandlerFails, EffectCommits, s
  <2>3. queue' \in [Events -> Nat] /\ dlq' \in [Events -> Nat]
    BY <1>8, <1>a DEF TypeOK, HandlerFails, s
  <2>4. QED
    BY <1>8, <2>1, <2>2, <2>3, PipelineAssumption
    DEF TypeOK, HandlerFails, Fault
<1>9. QED
  BY <1>1, <1>2, <1>3, <1>4, <1>5, <1>6, <1>7, <1>8 DEF HandlerStep

(* The end, stop and restart of a consumer process keep types. *)
LEMMA ConsumerTyped ==
  ASSUME TypeOK, NEW c \in Consumers,
         ConsumerDies(c) \/ StopConsumer(c) \/ Restart(c)
  PROVE  TypeOK'
<1> USE DEF relayVars, storeVars
<1>1. CASE ConsumerDies(c)
  BY <1>1, RequeueType, EndProcessType, PipelineAssumption
  DEF TypeOK, ConsumerDies, Fault
<1>2. CASE StopConsumer(c)
  <2>1. ASSUME NEW i \in Slots
        PROVE  [event |-> slot[c][i].event, stage |-> slot[c][i].stage,
                held |-> FALSE] \in SlotType
    <3>1. CASE slot[c][i] = FreeSlot
      <4>1. [event |-> slot[c][i].event, stage |-> slot[c][i].stage,
             held |-> FALSE] = FreeSlot
        BY <3>1 DEF FreeSlot
      <4>2. QED
        BY <4>1, FreeSlotType
    <3>2. CASE slot[c][i] # FreeSlot
      BY <3>2, SlotTyped DEF SlotType
    <3>3. QED
      BY <3>1, <3>2
  <2>2. slot' \in [Consumers -> [Slots -> SlotType]]
    BY <1>2, <2>1 DEF TypeOK, StopConsumer
  <2>3. QED
    BY <1>2, <2>2, RequeueType, PipelineAssumption
    DEF TypeOK, StopConsumer, Fault
<1>3. CASE Restart(c)
  BY <1>3 DEF TypeOK, Restart
<1>4. QED
  BY <1>1, <1>2, <1>3

(* The initial state is well typed. *)
LEMMA InitTyped == Init => TypeOK
<1> SUFFICES ASSUME Init PROVE TypeOK
  OBVIOUS
<1>1. relay \in [Relays -> RelayType]
  BY IdleRelayType DEF Init
<1>2. slot \in [Consumers -> [Slots -> SlotType]]
  BY FreeSlotType DEF Init
<1>3. QED
  BY <1>1, <1>2, PipelineAssumption DEF Init, TypeOK, RowType

(* Every step of the pipeline keeps the types. *)
LEMMA NextTyped == TypeOK /\ [Next]_vars => TypeOK'
<1> SUFFICES ASSUME TypeOK, [Next]_vars PROVE TypeOK'
  OBVIOUS
<1>1. ASSUME NEW e \in Events, InsertRow(e) PROVE TypeOK'
  <2>1. row' \in [Events -> RowType]
    BY <1>1 DEF TypeOK, InsertRow, RowType
  <2>2. QED
    BY <1>1, <2>1 DEF TypeOK, InsertRow, storeVars
<1>2. ASSUME NEW e \in Events, PublishRaw(e) PROVE TypeOK'
  BY <1>2, BrokerTakesType DEF TypeOK, PublishRaw, storeVars
<1>3. CASE AssertTopology
  BY <1>3 DEF TypeOK, AssertTopology, relayVars, storeVars
<1>4. CASE UNCHANGED vars
  BY <1>4 DEF TypeOK, vars
<1>5. QED
  BY <1>1, <1>2, <1>3, <1>4, RelayTyped, HandlerTyped, ConsumerTyped
  DEF Next, EmptyClaim

(***************************************************************************)
(* Every table, queue and process of the delivery pipeline keeps its type; *)
(* in particular no queue counts below zero and a busy handler always      *)
(* holds an event.                                                         *)
(***************************************************************************)
THEOREM PipelineTypeCorrect == Spec => []TypeOK
BY InitTyped, NextTyped, PTL DEF Spec

-----------------------------------------------------------------------------
(* One effect per event *)

(***************************************************************************)
(* What a handler's stage says of the tables: it has recorded its delivery *)
(* before it applies the effect, and applied the effect before it acks.    *)
(***************************************************************************)
SlotsInv ==
  \A c \in Consumers, i \in Slots :
    /\ slot[c][i].stage \in {"applied", "acked"} => slot[c][i].event \in effects
    /\ slot[c][i].stage \in {"recorded", "applied", "acked"} =>
         deliveries[slot[c][i].event] > 0

EffectInv == TypeOK /\ SlotsInv /\ EffectOnce

(* Freeing slots says nothing new. *)
LEMMA SlotsFreed ==
  ASSUME SlotsInv, deliveries' = deliveries, effects \subseteq effects',
         \A c \in Consumers, i \in Slots :
           \/ slot'[c][i] = FreeSlot
           \/ /\ slot'[c][i].event = slot[c][i].event
              /\ slot'[c][i].stage = slot[c][i].stage
  PROVE  SlotsInv'
<1>1. FreeSlot.stage = "free"
  BY DEF FreeSlot
<1>2. QED
  BY <1>1 DEF SlotsInv

(* A committed applyEffect makes the event's count agree with its row. *)
LEMMA EffectCommitsOnce ==
  ASSUME TypeOK, EffectOnce, NEW e \in Events, EffectCommits(e),
         deliveries[e] > 0, e \notin Poison, UNCHANGED <<deliveries, acked>>
  PROVE  EffectOnce' /\ effects' = effects \cup {e}
<1>1. \A f \in Events : applies'[f] = IF f \in effects' THEN 1 ELSE 0
  <2>1. \A f \in Events : f # e => applies'[f] = applies[f]
    BY DEF EffectCommits, TypeOK
  <2>2. applies'[e] = IF e \in effects THEN applies[e] ELSE applies[e] + 1
    BY DEF EffectCommits, TypeOK
  <2>3. effects' = effects \cup {e}
    BY DEF EffectCommits
  <2>4. QED
    BY <2>1, <2>2, <2>3 DEF EffectOnce, TypeOK
<1>2. QED
  BY <1>1 DEF EffectOnce, EffectCommits

(* A handler's step, failing or not, applies no event twice. *)
LEMMA HandlerEffect ==
  ASSUME EffectInv, NEW c \in Consumers, NEW i \in Slots,
         HandlerStep(c, i) \/ HandlerFails(c, i)
  PROVE  SlotsInv' /\ EffectOnce'
<1> DEFINE e == slot[c][i].event
<1>0. TypeOK /\ SlotsInv /\ EffectOnce
  BY DEF EffectInv
<1>a. slot[c][i].stage # "free" => e \in Events
  BY <1>0, BusySlot
<1>b. FreeSlot \in SlotType /\ FreeSlot.stage = "free"
  BY FreeSlotType DEF FreeSlot
<1> USE DEF relayVars, storeVars
<1>1. CASE Deliver(c, i)
  <2>1. PICK f \in Events :
          SetSlot(c, i, [event |-> f, stage |-> "received", held |-> TRUE])
    BY <1>1 DEF Deliver
  <2>2. [event |-> f, stage |-> "received", held |-> TRUE] \in SlotType
    BY DEF SlotType
  <2>3. SlotsInv'
    BY <1>0, <1>1, <2>1, <2>2, SetSlotType DEF SlotsInv, Deliver
  <2>4. QED
    BY <1>0, <1>1, <2>3 DEF EffectOnce, Deliver
<1>2. CASE RecordDelivery(c, i)
  <2>1. e \in Events
    BY <1>2, <1>a DEF RecordDelivery
  <2>2. [event |-> e, stage |-> "recorded", held |-> slot[c][i].held]
          \in SlotType
    BY <1>0, <1>2, BusySlot DEF SlotType, RecordDelivery
  <2>3. /\ deliveries' = [deliveries EXCEPT ![e] = @ + 1]
        /\ SetSlot(c, i, [event |-> e, stage |-> "recorded",
                          held |-> slot[c][i].held])
        /\ UNCHANGED <<effects, inbox, acked, applies>>
    BY <1>2 DEF RecordDelivery, Advance
  <2> HIDE DEF e
  <2>4. \A f \in Events : deliveries'[f] >= deliveries[f]
    BY <1>0, <2>3 DEF TypeOK
  <2>5. deliveries'[e] > 0
    BY <1>0, <2>1, <2>3 DEF TypeOK
  <2>6. ASSUME NEW d \in Consumers, NEW j \in Slots
        PROVE  /\ slot'[d][j].stage \in {"applied", "acked"} =>
                    slot'[d][j].event \in effects'
               /\ slot'[d][j].stage \in {"recorded", "applied", "acked"} =>
                    deliveries'[slot'[d][j].event] > 0
    <3>1. CASE d = c /\ j = i
      BY <1>0, <2>2, <2>3, <2>5, <3>1, SetSlotType
    <3>2. CASE d # c \/ j # i
      <4>1. slot'[d][j] = slot[d][j]
        BY <1>0, <2>2, <2>3, <3>2, SetSlotType
      <4>2. slot[d][j].stage # "free" => slot[d][j].event \in Events
        BY <1>0, BusySlot
      <4>3. \A f \in Events : deliveries[f] \in Nat /\ deliveries'[f] \in Nat
        BY <1>0, <2>3 DEF TypeOK
      <4>4. QED
        BY <1>0, <2>3, <2>4, <4>1, <4>2, <4>3 DEF SlotsInv
    <3>3. QED
      BY <3>1, <3>2
  <2>7. SlotsInv'
    BY <2>6 DEF SlotsInv
  <2>8. EffectOnce'
    <3>1. \A f \in Events : deliveries[f] \in Nat /\ deliveries'[f] \in Nat
      BY <1>0, <2>3 DEF TypeOK
    <3>2. effects \subseteq Events
      BY <1>0 DEF TypeOK
    <3>3. QED
      BY <1>0, <2>3, <2>4, <3>1, <3>2 DEF EffectOnce
  <2>9. QED
    BY <2>7, <2>8
<1>3. CASE RejectPoison(c, i)
  <2>1. SlotsInv'
    BY <1>0, <1>3, <1>b, SetSlotType, SlotsFreed DEF RejectPoison
  <2>2. QED
    BY <1>0, <1>3, <2>1 DEF EffectOnce, RejectPoison
<1>4. CASE ApplyEffect(c, i)
  <2>1. e \in Events /\ e \notin Poison /\ deliveries[e] > 0
    BY <1>0, <1>4, <1>a DEF ApplyEffect, SlotsInv
  <2>2. EffectOnce' /\ effects' = effects \cup {e}
    BY <1>0, <1>4, <2>1, EffectCommitsOnce DEF ApplyEffect
  <2>3. [event |-> e, stage |-> "applied", held |-> slot[c][i].held]
          \in SlotType
    BY <1>0, <1>4, BusySlot DEF SlotType, ApplyEffect
  <2>4. SetSlot(c, i, [event |-> e, stage |-> "applied",
                       held |-> slot[c][i].held])
    BY <1>4 DEF ApplyEffect, Advance
  <2>5. deliveries' = deliveries
    BY <1>4 DEF ApplyEffect
  <2> HIDE DEF e
  <2>6. SlotsInv'
    BY <1>0, <2>1, <2>2, <2>3, <2>4, <2>5, SetSlotType DEF SlotsInv
  <2>7. QED
    BY <2>2, <2>6
<1>5. CASE Ack(c, i)
  <2>1. [event |-> e, stage |-> "acked", held |-> FALSE] \in SlotType
    BY <1>5, <1>a DEF SlotType, Ack
  <2>2. SlotsInv'
    BY <1>0, <1>5, <2>1, SetSlotType DEF SlotsInv, Ack
  <2>3. QED
    BY <1>0, <1>5, <2>2 DEF EffectOnce, Ack
<1>6. CASE MarkAcked(c, i)
  <2>1. SlotsInv'
    BY <1>0, <1>6, <1>b, SetSlotType, SlotsFreed DEF MarkAcked
  <2>2. acked' \subseteq effects
    BY <1>0, <1>6 DEF EffectOnce, MarkAcked, SlotsInv
  <2>3. QED
    BY <1>0, <1>6, <2>1, <2>2 DEF EffectOnce, MarkAcked
<1>7. CASE AnswerOnClosed(c, i)
  <2>1. SlotsInv'
    BY <1>0, <1>7, EndProcessType, SlotsFreed DEF AnswerOnClosed
  <2>2. QED
    BY <1>0, <1>7, <2>1 DEF EffectOnce, AnswerOnClosed
<1>8. CASE HandlerFails(c, i)
  <2>1. EffectOnce' /\ effects \subseteq effects'
    <3>1. CASE slot[c][i].stage = "recorded" /\ EffectCommits(e)
      <4>1. e \in Events /\ e \notin Poison /\ deliveries[e] > 0
        BY <1>0, <1>8, <1>a, <3>1 DEF HandlerFails, SlotsInv
      <4>2. QED
        BY <1>0, <1>8, <3>1, <4>1, EffectCommitsOnce DEF HandlerFails
    <3>2. CASE UNCHANGED <<inbox, effects, applies>>
      BY <1>0, <1>8, <3>2 DEF HandlerFails, EffectOnce
    <3>3. QED
      BY <1>8, <3>1, <3>2 DEF HandlerFails
  <2>2. SetSlot(c, i, FreeSlot) \/ EndProcess(c)
    BY <1>8 DEF HandlerFails
  <2>3. deliveries' = deliveries
    BY <1>8 DEF HandlerFails
  <2>4. \A d \in Consumers, j \in Slots :
          slot'[d][j] = FreeSlot \/ slot'[d][j] = slot[d][j]
    BY <1>0, <1>b, <2>2, SetSlotType, EndProcessType
  <2>5. QED
    BY <1>0, <2>1, <2>3, <2>4, SlotsFreed
<1>9. QED
  BY <1>1, <1>2, <1>3, <1>4, <1>5, <1>6, <1>7, <1>8 DEF HandlerStep

(* Every step preserves EffectInv. *)
LEMMA NextEffect == EffectInv /\ [Next]_vars => EffectInv'
<1> SUFFICES ASSUME EffectInv, [Next]_vars PROVE EffectInv'
  OBVIOUS
<1>0. TypeOK /\ SlotsInv /\ EffectOnce
  BY DEF EffectInv
<1>1. TypeOK'
  BY <1>0, NextTyped
<1>2. ASSUME UNCHANGED <<slot, storeVars>> PROVE SlotsInv' /\ EffectOnce'
  BY <1>0, <1>2 DEF SlotsInv, EffectOnce, storeVars
<1>3. ASSUME NEW w \in Relays, RelayStep(w) \/ RelayFault(w)
      PROVE  UNCHANGED <<slot, storeVars>>
  BY <1>3 DEF RelayStep, CallStep, RelayFault, Claim, Publish, Mark, CommitBatch,
    BumpAttempts, PublishOrphan, PublishFails, RelayFails, SessionLost
<1>4. ASSUME NEW c \in Consumers,
             ConsumerDies(c) \/ StopConsumer(c) \/ Restart(c)
      PROVE  SlotsInv' /\ EffectOnce'
  <2>1. UNCHANGED storeVars
    BY <1>4 DEF ConsumerDies, StopConsumer, Restart
  <2>2. \A d \in Consumers, j \in Slots :
          \/ slot'[d][j] = FreeSlot
          \/ /\ slot'[d][j].event = slot[d][j].event
             /\ slot'[d][j].stage = slot[d][j].stage
    <3>1. CASE ConsumerDies(c)
      BY <1>0, <3>1, EndProcessType DEF ConsumerDies
    <3>2. CASE StopConsumer(c)
      BY <1>0, <3>2 DEF StopConsumer, TypeOK
    <3>3. CASE Restart(c)
      BY <3>3 DEF Restart
    <3>4. QED
      BY <1>4, <3>1, <3>2, <3>3
  <2>3. QED
    BY <1>0, <2>1, <2>2, SlotsFreed DEF EffectOnce, storeVars
<1>5. ASSUME \/ \E e \in Events : InsertRow(e) \/ PublishRaw(e)
             \/ AssertTopology
             \/ \E w \in Relays : EmptyClaim(w)
             \/ UNCHANGED vars
      PROVE  UNCHANGED <<slot, storeVars>>
  BY <1>5
  DEF InsertRow, PublishRaw, AssertTopology, EmptyClaim, vars, storeVars
<1>6. SlotsInv' /\ EffectOnce'
  BY <1>2, <1>3, <1>4, <1>5, HandlerEffect DEF Next
<1>7. QED
  BY <1>1, <1>6 DEF EffectInv

(* EffectInv holds at the start. *)
LEMMA InitEffect == Init => EffectInv
<1> SUFFICES ASSUME Init PROVE EffectInv
  OBVIOUS
<1>1. SlotsInv
  BY DEF Init, SlotsInv, FreeSlot
<1>2. EffectOnce
  BY DEF Init, EffectOnce
<1>3. QED
  BY <1>1, <1>2, InitTyped DEF EffectInv

(***************************************************************************)
(* applyEffect reports each event as new at most once, in step with the    *)
(* inbox, however often its message is published, delivered and retried.   *)
(* The stages of the handlers (SlotsInv) make it inductive: an effect and  *)
(* an acked_at are only written by a handler that got that far.            *)
(***************************************************************************)
THEOREM EffectsHappenOnce == Spec => []EffectOnce
<1>1. EffectInv => EffectOnce
  BY DEF EffectInv
<1>2. QED
  BY <1>1, InitEffect, NextEffect, PTL DEF Spec

-----------------------------------------------------------------------------
(* No event is lost *)

(* The broker was given e and it is not lost since. *)
Safe(e) == Kept(e) \/ e \in dropped

(***************************************************************************)
(* The broker waits for answers of running consumers only, and a handler   *)
(* that can no longer answer belongs to a consumer that was stopped.  So a *)
(* handler that ends its process takes no unanswered message with it.      *)
(***************************************************************************)
ChannelInv ==
  \A c \in Consumers, i \in Slots :
    /\ slot[c][i].held => up[c]
    /\ slot[c][i].stage \in {"received", "recorded", "applied"}
         /\ ~slot[c][i].held => ~up[c]

(***************************************************************************)
(* What a relay has published in its open transaction is safe before the   *)
(* commit says so: the row it is about to mark and the rows it has marked. *)
(***************************************************************************)
RelaysInv ==
  \A w \in Relays :
    /\ relay[w].pc = "mark" =>
         \E e \in relay[w].batch : IsNext(w, e) /\ Safe(e)
    /\ \A e \in relay[w].marked : Safe(e)

LossInv == EffectInv /\ ChannelInv /\ RelaysInv /\ NoEventLost

(* The effects and the dead letter queue never shrink in a handler's step. *)
LEMMA HandlerKeeps ==
  ASSUME TypeOK, SlotsInv, ChannelInv, NEW c \in Consumers, NEW i \in Slots,
         HandlerStep(c, i) \/ HandlerFails(c, i),
         NEW e \in Events, Kept(e)
  PROVE  Kept(e)'
<1> DEFINE s == slot[c][i]
<1>a. s.stage # "free" => s.event \in Events /\ s.held \in BOOLEAN
  BY BusySlot
<1>b. FreeSlot \in SlotType /\ ~FreeSlot.held
  BY FreeSlotType DEF FreeSlot
<1>c. queue \in [Events -> Nat] /\ dlq \in [Events -> Nat]
  BY DEF TypeOK
<1> USE DEF relayVars, storeVars
<1>1. CASE Deliver(c, i)
  <2>1. PICK f \in Events :
          /\ queue[f] > 0
          /\ queue' = [queue EXCEPT ![f] = @ - 1]
          /\ SetSlot(c, i, [event |-> f, stage |-> "received", held |-> TRUE])
    BY <1>1 DEF Deliver
  <2>2. [event |-> f, stage |-> "received", held |-> TRUE] \in SlotType
    BY DEF SlotType
  <2>3. /\ slot'[c][i] = [event |-> f, stage |-> "received", held |-> TRUE]
        /\ \A d \in Consumers, j \in Slots :
             d # c \/ j # i => slot'[d][j] = slot[d][j]
    BY <2>1, <2>2, SetSlotType
  <2>4. UNCHANGED <<dlq, effects>>
    BY <1>1 DEF Deliver
  <2>5. ~s.held
    BY <1>1, SlotTyped DEF Deliver, SlotType, FreeSlot
  <2>6. CASE e = f
    BY <2>3, <2>6 DEF Kept
  <2>7. CASE e # f
    BY <1>c, <2>1, <2>3, <2>4, <2>5, <2>7 DEF Kept
  <2>8. QED
    BY <2>6, <2>7
<1>2. CASE RecordDelivery(c, i) \/ ApplyEffect(c, i)
  <2>1. PICK stage \in {"recorded", "applied"} : Advance(c, i, stage)
    BY <1>2 DEF RecordDelivery, ApplyEffect
  <2>2. s.event \in Events /\ s.held \in BOOLEAN
    BY <1>2, <1>a DEF RecordDelivery, ApplyEffect
  <2>3. [event |-> s.event, stage |-> stage, held |-> s.held] \in SlotType
    BY <2>2 DEF SlotType
  <2>4. /\ slot'[c][i] = [event |-> s.event, stage |-> stage, held |-> s.held]
        /\ \A d \in Consumers, j \in Slots :
             d # c \/ j # i => slot'[d][j] = slot[d][j]
    BY <2>1, <2>3, SetSlotType DEF Advance
  <2>5. \A d \in Consumers, j \in Slots :
          /\ slot'[d][j].event = slot[d][j].event
          /\ slot'[d][j].held = slot[d][j].held
    BY <2>4
  <2>6. UNCHANGED <<queue, dlq>> /\ effects \subseteq effects'
    BY <1>2 DEF RecordDelivery, ApplyEffect, EffectCommits
  <2>7. QED
    BY <2>5, <2>6 DEF Kept
<1>3. CASE RejectPoison(c, i)
  <2>1. \A d \in Consumers, j \in Slots :
          d # c \/ j # i => slot'[d][j] = slot[d][j]
    BY <1>3, <1>b, SetSlotType DEF RejectPoison
  <2>2. /\ dlq' = [dlq EXCEPT ![s.event] = @ + 1]
        /\ s.event \in Events
        /\ UNCHANGED <<queue, effects>>
    BY <1>3, <1>a DEF RejectPoison
  <2> HIDE DEF s
  <2>3. dlq'[s.event] > 0 /\ \A f \in Events : dlq[f] > 0 => dlq'[f] > 0
    BY <1>c, <2>2
  <2>4. QED
    BY <2>1, <2>2, <2>3 DEF Kept, s
<1>4. CASE Ack(c, i)
  <2>1. [event |-> s.event, stage |-> "acked", held |-> FALSE] \in SlotType
    BY <1>4, <1>a DEF SlotType, Ack
  <2>2. \A d \in Consumers, j \in Slots :
          d # c \/ j # i => slot'[d][j] = slot[d][j]
    BY <1>4, <2>1, SetSlotType DEF Ack
  <2>3. s.event \in effects /\ UNCHANGED <<queue, dlq, effects>>
    BY <1>4 DEF Ack, SlotsInv
  <2>4. QED
    BY <2>2, <2>3 DEF Kept
<1>5. CASE MarkAcked(c, i)
  <2>1. \A d \in Consumers, j \in Slots :
          d # c \/ j # i => slot'[d][j] = slot[d][j]
    BY <1>5, <1>b, SetSlotType DEF MarkAcked
  <2>2. s.event \in effects /\ UNCHANGED <<queue, dlq, effects>>
    BY <1>5 DEF MarkAcked, SlotsInv
  <2>3. QED
    BY <2>1, <2>2 DEF Kept
<1>6. CASE AnswerOnClosed(c, i)
  <2>1. \A j \in Slots : ~slot[c][j].held
    BY <1>6 DEF AnswerOnClosed, ChannelInv
  <2>2. \A d \in Consumers, j \in Slots : d # c => slot'[d][j] = slot[d][j]
    BY <1>6, EndProcessType DEF AnswerOnClosed
  <2>3. UNCHANGED <<queue, dlq, effects>>
    BY <1>6 DEF AnswerOnClosed
  <2>4. QED
    BY <2>1, <2>2, <2>3 DEF Kept
<1>7. CASE HandlerFails(c, i)
  <2>1. effects \subseteq effects'
    BY <1>7 DEF HandlerFails, EffectCommits
  <2>2. s.event \in Events /\ s.stage \in {"received", "recorded"}
    BY <1>7, <1>a DEF HandlerFails
  <2>3. CASE s.held /\ SetSlot(c, i, FreeSlot)
    <3>1. \A d \in Consumers, j \in Slots :
            d # c \/ j # i => slot'[d][j] = slot[d][j]
      BY <1>b, <2>3, SetSlotType
    <3>2. \/ queue' = [queue EXCEPT ![s.event] = @ + 1] /\ dlq' = dlq
          \/ dlq' = [dlq EXCEPT ![s.event] = @ + 1] /\ queue' = queue
      BY <1>7, <2>3 DEF HandlerFails
    <3> HIDE DEF s
    <3>3. queue'[s.event] > 0 \/ dlq'[s.event] > 0
      BY <1>c, <2>2, <3>2
    <3>4. \A f \in Events : /\ queue[f] > 0 => queue'[f] > 0
                            /\ dlq[f] > 0 => dlq'[f] > 0
      BY <1>c, <2>2, <3>2
    <3>5. QED
      BY <2>1, <3>1, <3>3, <3>4 DEF Kept, s
  <2>4. CASE ~s.held /\ EndProcess(c) /\ UNCHANGED <<queue, dlq>>
    <3>1. \A j \in Slots : ~slot[c][j].held
      BY <2>2, <2>4 DEF ChannelInv
    <3>2. \A d \in Consumers, j \in Slots : d # c => slot'[d][j] = slot[d][j]
      BY <2>4, EndProcessType
    <3>3. QED
      BY <2>1, <2>4, <3>1, <3>2 DEF Kept
  <2>5. QED
    BY <1>7, <2>3, <2>4 DEF HandlerFails
<1>8. QED
  BY <1>1, <1>2, <1>3, <1>4, <1>5, <1>6, <1>7 DEF HandlerStep

(* What is safe stays safe in every step. *)
LEMMA SafeStays ==
  ASSUME TypeOK, SlotsInv, ChannelInv, [Next]_vars, NEW e \in Events, Safe(e)
  PROVE  Safe(e)'
<1> USE DEF storeVars, relayVars
<1>1. ASSUME NEW f \in Events, BrokerTakes(f), UNCHANGED <<dlq, slot, effects>>
      PROVE  Safe(e)'
  BY <1>1, BrokerTakesType DEF Safe, Kept
<1>2. ASSUME UNCHANGED <<queue, dlq, slot, effects, dropped>>
      PROVE  Safe(e)'
  BY <1>2 DEF Safe, Kept
<1>3. ASSUME NEW w \in Relays, RelayStep(w) \/ RelayFault(w)
      PROVE  Safe(e)'
  <2>1. \A f \in relay[w].batch : f \in Events
    BY DEF TypeOK, RelayType
  <2>2. UNCHANGED <<dlq, slot, effects>>
    BY <1>3 DEF RelayStep, CallStep, RelayFault, Claim, Publish, Mark, CommitBatch,
      BumpAttempts, PublishOrphan, PublishFails, RelayFails, SessionLost
  <2>3. \/ \E f \in relay[w].batch : BrokerTakes(f)
        \/ UNCHANGED <<queue, dropped>>
    BY <1>3 DEF RelayStep, CallStep, RelayFault, Claim, Publish, Mark, CommitBatch,
      BumpAttempts, PublishOrphan, PublishFails, RelayFails, SessionLost,
      InFlight
  <2>4. QED
    BY <1>1, <1>2, <2>1, <2>2, <2>3
<1>4. ASSUME NEW c \in Consumers, NEW i \in Slots,
             HandlerStep(c, i) \/ HandlerFails(c, i)
      PROVE  Safe(e)'
  <2>1. UNCHANGED dropped
    BY <1>4 DEF HandlerStep, HandlerFails, Deliver, RecordDelivery,
      RejectPoison, ApplyEffect, Ack, MarkAcked, AnswerOnClosed
  <2>2. QED
    BY <1>4, <2>1, HandlerKeeps DEF Safe
<1>5. ASSUME NEW c \in Consumers, ConsumerDies(c) \/ StopConsumer(c)
      PROVE  Safe(e)'
  <2>1. Requeue(c) /\ UNCHANGED <<dlq, effects, dropped>>
    BY <1>5 DEF ConsumerDies, StopConsumer
  <2>2. \A d \in Consumers, j \in Slots : d # c => slot'[d][j] = slot[d][j]
    BY <1>5, EndProcessType DEF ConsumerDies, StopConsumer, TypeOK
  <2>3. QED
    BY <2>1, <2>2, RequeueType DEF Safe, Kept
<1>6. ASSUME NEW c \in Consumers, Restart(c) PROVE Safe(e)'
  BY <1>2, <1>6 DEF Restart
<1>7. ASSUME NEW f \in Events, InsertRow(f) \/ PublishRaw(f) PROVE Safe(e)'
  BY <1>1, <1>2, <1>7 DEF InsertRow, PublishRaw
<1>8. CASE AssertTopology \/ UNCHANGED vars
  BY <1>2, <1>8 DEF AssertTopology, vars
<1>9. QED
  BY <1>3, <1>4, <1>5, <1>6, <1>7, <1>8 DEF Next, EmptyClaim

(* Every step preserves ChannelInv. *)
LEMMA NextChannel ==
  ASSUME TypeOK, ChannelInv, [Next]_vars
  PROVE  ChannelInv'
<1> USE DEF storeVars, relayVars
<1>a. /\ FreeSlot \in SlotType /\ ~FreeSlot.held /\ FreeSlot.stage = "free"
  BY FreeSlotType DEF FreeSlot
<1>1. ASSUME UNCHANGED <<slot, up>> PROVE ChannelInv'
  BY <1>1 DEF ChannelInv
<1>2. ASSUME NEW w \in Relays, RelayStep(w) \/ RelayFault(w)
      PROVE  UNCHANGED <<slot, up>>
  BY <1>2 DEF RelayStep, CallStep, RelayFault, Claim, Publish, Mark, CommitBatch,
    BumpAttempts, PublishOrphan, PublishFails, RelayFails, SessionLost
<1>3. ASSUME NEW c \in Consumers, NEW i \in Slots, UNCHANGED up,
             \/ SetSlot(c, i, FreeSlot)
             \/ EndProcess(c)
             \/ \E rec \in SlotType :
                  /\ SetSlot(c, i, rec)
                  /\ rec.held => up[c]
                  /\ \/ rec.stage = "acked"
                     \/ ~rec.held => ~up[c]
      PROVE  ChannelInv'
  <2>1. CASE SetSlot(c, i, FreeSlot)
    BY <1>a, <1>3, <2>1, SetSlotType DEF ChannelInv
  <2>2. CASE EndProcess(c)
    BY <1>a, <1>3, <2>2, EndProcessType DEF ChannelInv
  <2>3. ASSUME NEW rec \in SlotType, SetSlot(c, i, rec), rec.held => up[c],
               rec.stage = "acked" \/ (~rec.held => ~up[c])
        PROVE  ChannelInv'
    BY <1>3, <2>3, SetSlotType DEF ChannelInv
  <2>4. QED
    BY <1>3, <2>1, <2>2, <2>3
<1>4. ASSUME NEW c \in Consumers, NEW i \in Slots,
             HandlerStep(c, i) \/ HandlerFails(c, i)
      PROVE  ChannelInv'
  <2>0. UNCHANGED up
    BY <1>4 DEF HandlerStep, HandlerFails, Deliver, RecordDelivery,
      RejectPoison, ApplyEffect, Ack, MarkAcked, AnswerOnClosed
  <2>1. CASE Deliver(c, i)
    <3>1. PICK f \in Events :
            SetSlot(c, i, [event |-> f, stage |-> "received", held |-> TRUE])
      BY <2>1 DEF Deliver
    <3>2. [event |-> f, stage |-> "received", held |-> TRUE] \in SlotType
      BY DEF SlotType
    <3>3. up[c]
      BY <2>1 DEF Deliver
    <3>4. QED
      BY <1>3, <2>0, <3>1, <3>2, <3>3
  <2>2. CASE RecordDelivery(c, i) \/ ApplyEffect(c, i)
    <3>1. PICK stage \in {"recorded", "applied"} : Advance(c, i, stage)
      BY <2>2 DEF RecordDelivery, ApplyEffect
    <3>2. slot[c][i].stage \in {"received", "recorded"}
      BY <2>2 DEF RecordDelivery, ApplyEffect
    <3>3. [event |-> slot[c][i].event, stage |-> stage,
           held |-> slot[c][i].held] \in SlotType
      BY <3>2, BusySlot DEF SlotType
    <3>4. /\ slot[c][i].held => up[c]
          /\ ~slot[c][i].held => ~up[c]
      BY <3>2 DEF ChannelInv
    <3>5. QED
      BY <1>3, <2>0, <3>1, <3>3, <3>4 DEF Advance
  <2>3. CASE Ack(c, i)
    <3>1. [event |-> slot[c][i].event, stage |-> "acked", held |-> FALSE]
            \in SlotType
      BY <2>3, BusySlot DEF SlotType, Ack
    <3>2. QED
      BY <1>3, <2>0, <2>3, <3>1 DEF Ack
  <2>4. CASE \/ RejectPoison(c, i) \/ MarkAcked(c, i)
             \/ AnswerOnClosed(c, i) \/ HandlerFails(c, i)
    BY <1>3, <2>0, <2>4
    DEF RejectPoison, MarkAcked, AnswerOnClosed, HandlerFails
  <2>5. QED
    BY <1>4, <2>1, <2>2, <2>3, <2>4 DEF HandlerStep
<1>5. ASSUME NEW c \in Consumers, ConsumerDies(c) PROVE ChannelInv'
  BY <1>a, <1>5, EndProcessType DEF ConsumerDies, ChannelInv, TypeOK
<1>6. ASSUME NEW c \in Consumers, StopConsumer(c) PROVE ChannelInv'
  <2>1. \A j \in Slots : ~slot'[c][j].held
    BY <1>6 DEF StopConsumer, TypeOK
  <2>2. \A d \in Consumers, j \in Slots : d # c => slot'[d][j] = slot[d][j]
    BY <1>6 DEF StopConsumer, TypeOK
  <2>3. ~up'[c] /\ \A d \in Consumers : d # c => up'[d] = up[d]
    BY <1>6 DEF StopConsumer, TypeOK
  <2>4. QED
    BY <2>1, <2>2, <2>3 DEF ChannelInv
<1>7. ASSUME NEW c \in Consumers, Restart(c) PROVE ChannelInv'
  BY <1>a, <1>7 DEF Restart, ChannelInv, TypeOK
<1>8. ASSUME \/ \E e \in Events : InsertRow(e) \/ PublishRaw(e)
             \/ AssertTopology
             \/ \E w \in Relays : EmptyClaim(w)
             \/ UNCHANGED vars
      PROVE  UNCHANGED <<slot, up>>
  BY <1>8
  DEF InsertRow, PublishRaw, AssertTopology, EmptyClaim, vars
<1>9. QED
  BY <1>1, <1>2, <1>4, <1>5, <1>6, <1>7, <1>8 DEF Next

(***************************************************************************)
(* A relay's marks are safe, and only its commit publishes rows.           *)
(***************************************************************************)
LEMMA RelayMarks ==
  ASSUME LossInv, NEW w \in Relays, RelayStep(w) \/ RelayFault(w),
         \A e \in Events : Safe(e) => Safe(e)'
  PROVE  RelaysInv' /\ NoEventLost'
<1>0. TypeOK /\ RelaysInv /\ NoEventLost
  BY DEF LossInv, EffectInv
<1>a. \A v \in Relays : relay[v] \in RelayType
  BY <1>0 DEF TypeOK
<1>b. \A v \in Relays : /\ relay[v].batch \subseteq Events
                        /\ relay[v].marked \subseteq Events
  BY <1>a DEF RelayType
(* The other relays keep what they had. *)
<1>c. ASSUME NEW v \in Relays, relay'[v] = relay[v]
      PROVE  /\ relay'[v].pc = "mark" =>
                  \E e \in relay'[v].batch : IsNext(v, e)' /\ Safe(e)'
             /\ \A e \in relay'[v].marked : Safe(e)'
  BY <1>0, <1>b, <1>c DEF RelaysInv, IsNext
<1>d. ASSUME NEW r, relay' = [relay EXCEPT ![w] = r], r.marked = {},
             r.pc # "mark"
      PROVE  RelaysInv'
  BY <1>0, <1>c, <1>d DEF RelaysInv, TypeOK
<1>e. ASSUME \A e \in Events : row'[e].state = "published" =>
               row[e].state = "published" \/ e \in relay[w].marked
      PROVE  NoEventLost'
  BY <1>0, <1>e DEF NoEventLost, Safe, RelaysInv
<1>f. ASSUME NEW M, row' = RowsAfter(w, M), M \subseteq relay[w].marked
      PROVE  NoEventLost'
  BY <1>0, <1>e, <1>f DEF RowsAfter, TypeOK
<1>g. ASSUME row' = row PROVE NoEventLost'
  BY <1>e, <1>g
<1>h. IdleRelay.marked = {} /\ IdleRelay.pc = "idle"
  BY DEF IdleRelay
<1>1. CASE Claim(w)
  <2>1. PICK b \in {FirstRows(Claimable)} :
          relay' = [relay EXCEPT ![w] =
                      [IdleRelay EXCEPT !.pc = "publish", !.batch = b]]
    BY <1>1 DEF Claim
  <2>2. RelaysInv'
    <3>1. /\ [IdleRelay EXCEPT !.pc = "publish", !.batch = b].marked = {}
          /\ [IdleRelay EXCEPT !.pc = "publish", !.batch = b].pc # "mark"
      BY DEF IdleRelay
    <3>2. QED
      BY <1>d, <2>1, <3>1
  <2>3. \A e \in Events : row'[e].state = row[e].state
    BY <1>1 DEF Claim
  <2>4. QED
    BY <1>e, <2>2, <2>3
<1>2. CASE Publish(w)
  <2>1. PICK e \in relay[w].batch : IsNext(w, e) /\ BrokerTakes(e)
    BY <1>2 DEF Publish
  <2>2. e \in Events
    BY <1>b
  <2>3. Safe(e)'
    BY <1>0, <2>1, <2>2, BrokerTakesType DEF Safe, Kept
  <2>4. /\ relay'[w].pc = "mark" /\ relay'[w].batch = relay[w].batch
        /\ relay'[w].marked = relay[w].marked
        /\ \A v \in Relays : v # w => relay'[v] = relay[v]
    BY <1>0, <1>2, <1>a DEF Publish, TypeOK, RelayType
  <2>5. IsNext(w, e)'
    BY <2>1, <2>4 DEF IsNext
  <2>6. RelaysInv'
    BY <1>0, <1>b, <1>c, <2>1, <2>3, <2>4, <2>5 DEF RelaysInv
  <2>7. QED
    BY <1>2, <1>g, <2>6 DEF Publish
<1>3. CASE Mark(w)
  <2>1. PICK e \in relay[w].batch :
          /\ IsNext(w, e)
          /\ relay' = [relay EXCEPT ![w] =
               [pc |-> IF relay[w].batch = {e} THEN "close" ELSE "publish",
                batch |-> relay[w].batch \ {e},
                marked |-> relay[w].marked \cup {e},
                failed |-> NoEvent]]
    BY <1>3 DEF Mark
  <2>2. PICK f \in relay[w].batch : IsNext(w, f) /\ Safe(f)
    BY <1>0, <1>3 DEF Mark, RelaysInv
  <2>3. e = f
    <3>1. e \in Nat /\ f \in Nat
      BY <1>b, PipelineAssumption
    <3>2. e <= f /\ f <= e
      BY <2>1, <2>2 DEF IsNext
    <3>3. QED
      BY <3>1, <3>2
  <2>4. /\ relay'[w].pc # "mark"
        /\ relay'[w].marked = relay[w].marked \cup {e}
        /\ \A v \in Relays : v # w => relay'[v] = relay[v]
    BY <1>0, <2>1 DEF TypeOK
  <2>5. RelaysInv'
    BY <1>0, <1>b, <1>c, <2>2, <2>3, <2>4 DEF RelaysInv
  <2>6. QED
    BY <1>3, <1>g, <2>5 DEF Mark
<1>4. CASE CommitBatch(w)
  BY <1>4, <1>d, <1>f, <1>h DEF CommitBatch
<1>5. CASE BumpAttempts(w)
  <2>1. \A e \in Events : row'[e].state = row[e].state
    BY <1>0, <1>5 DEF BumpAttempts, TypeOK, RowType
  <2>2. QED
    BY <1>5, <1>d, <1>e, <1>h, <2>1 DEF BumpAttempts
<1>6. CASE PublishOrphan(w)
  BY <1>6, <1>d, <1>g, <1>h DEF PublishOrphan
<1>7. CASE PublishFails(w)
  <2>1. PICK e \in relay[w].batch :
          relay' = [relay EXCEPT ![w] =
                      [IdleRelay EXCEPT !.pc = "bump", !.failed = e]]
    BY <1>7 DEF PublishFails
  <2>2. /\ [IdleRelay EXCEPT !.pc = "bump", !.failed = e].marked = {}
        /\ [IdleRelay EXCEPT !.pc = "bump", !.failed = e].pc # "mark"
    BY DEF IdleRelay
  <2>3. row' = RowsAfter(w, {})
    BY <1>7 DEF PublishFails
  <2>4. QED
    BY <1>d, <1>f, <2>1, <2>2, <2>3
<1>8. CASE RelayFails(w)
  BY <1>8, <1>d, <1>f, <1>h DEF RelayFails
<1>9. CASE SessionLost(w)
  <2>1. /\ [IdleRelay EXCEPT !.pc = "orphan",
                             !.batch = relay[w].batch].marked = {}
        /\ [IdleRelay EXCEPT !.pc = "orphan",
                             !.batch = relay[w].batch].pc # "mark"
    BY DEF IdleRelay
  <2>2. QED
    BY <1>9, <1>d, <1>f, <2>1 DEF SessionLost
<1>10. QED
  BY <1>1, <1>2, <1>3, <1>4, <1>5, <1>6, <1>7, <1>8, <1>9
  DEF RelayStep, CallStep, RelayFault

(* Every step preserves LossInv. *)
LEMMA NextLoss == LossInv /\ [Next]_vars => LossInv'
<1> SUFFICES ASSUME LossInv, [Next]_vars PROVE LossInv'
  OBVIOUS
<1>0. TypeOK /\ SlotsInv /\ ChannelInv /\ RelaysInv /\ NoEventLost
  BY DEF LossInv, EffectInv
<1>1. EffectInv' /\ ChannelInv'
  BY <1>0, NextEffect, NextChannel DEF LossInv
<1>2. \A e \in Events : Safe(e) => Safe(e)'
  BY <1>0, SafeStays
<1>3. ASSUME UNCHANGED relay,
             \A e \in Events :
               row'[e].state = "published" => row[e].state = "published"
      PROVE  RelaysInv' /\ NoEventLost'
  <2>1. \A v \in Relays : /\ relay[v].batch \subseteq Events
                          /\ relay[v].marked \subseteq Events
    BY <1>0 DEF TypeOK, RelayType
  <2>2. RelaysInv'
    BY <1>0, <1>2, <1>3, <2>1 DEF RelaysInv, IsNext
  <2>3. NoEventLost'
    BY <1>0, <1>2, <1>3 DEF NoEventLost, Safe
  <2>4. QED
    BY <2>2, <2>3
<1>4. ASSUME NEW e \in Events, InsertRow(e)
      PROVE  \A f \in Events :
               row'[f].state = "published" => row[f].state = "published"
  BY <1>0, <1>4 DEF InsertRow, TypeOK, RowType
<1>5. ASSUME NEW c \in Consumers, NEW i \in Slots,
             HandlerStep(c, i) \/ HandlerFails(c, i)
      PROVE  UNCHANGED <<row, relay>>
  BY <1>5 DEF HandlerStep, HandlerFails, Deliver, RecordDelivery,
    RejectPoison, ApplyEffect, Ack, MarkAcked, AnswerOnClosed, relayVars
<1>6. ASSUME \/ \E e \in Events : PublishRaw(e)
             \/ AssertTopology
             \/ \E c \in Consumers :
                  ConsumerDies(c) \/ StopConsumer(c) \/ Restart(c)
             \/ \E w \in Relays : EmptyClaim(w)
             \/ UNCHANGED vars
      PROVE  UNCHANGED <<row, relay>>
  BY <1>6 DEF PublishRaw, AssertTopology, ConsumerDies, StopConsumer,
    Restart, EmptyClaim, vars, relayVars
<1>7. RelaysInv' /\ NoEventLost'
  <2>1. CASE \E w \in Relays : RelayStep(w) \/ RelayFault(w)
    BY <1>2, <2>1, RelayMarks
  <2>2. CASE \E e \in Events : InsertRow(e)
    BY <1>3, <1>4, <2>2 DEF InsertRow
  <2>3. CASE UNCHANGED <<row, relay>>
    BY <1>3, <2>3
  <2>4. QED
    BY <1>5, <1>6, <2>1, <2>2, <2>3 DEF Next
<1>8. QED
  BY <1>1, <1>7 DEF LossInv

(* LossInv holds at the start. *)
LEMMA InitLoss == Init => LossInv
<1> SUFFICES ASSUME Init PROVE LossInv
  OBVIOUS
<1>1. ChannelInv
  BY DEF Init, ChannelInv, FreeSlot
<1>2. RelaysInv
  BY DEF Init, RelaysInv, IdleRelay
<1>3. NoEventLost
  BY DEF Init, NoEventLost
<1>4. QED
  BY <1>1, <1>2, <1>3, InitEffect DEF LossInv

(***************************************************************************)
(* An event whose outbox row is published is never lost: it is ready, in a *)
(* running handler, applied or dead-lettered, or was taken unbound.  The   *)
(* argument is that whatever the broker once had stays safe (SafeStays),   *)
(* that a relay marks a row only after the broker had it (RelaysInv), and  *)
(* that a process never ends with an unanswered message the broker would   *)
(* not put back (ChannelInv).                                              *)
(***************************************************************************)
THEOREM EventsAreNotLost == Spec => []NoEventLost
<1>1. LossInv => NoEventLost
  BY DEF LossInv
<1>2. QED
  BY <1>1, InitLoss, NextLoss, PTL DEF Spec

-----------------------------------------------------------------------------
(* Duplicates need faults *)

Working == {"publish", "mark", "close"}

(***************************************************************************)
(* A relay at work holds the row locks of exactly its batch and of what it *)
(* has marked, and only of pending rows; no other relay holds any.         *)
(***************************************************************************)
LockInv ==
  /\ \A e \in Poison : row[e].state = "absent"
  /\ \A w \in Relays, e \in Events :
       /\ e \in relay[w].batch => e \notin Poison /\ e \notin relay[w].marked
       /\ relay[w].pc = "close" => e \notin relay[w].batch
       /\ e \in relay[w].marked => relay[w].pc \in Working
       /\ row[e].owner = w <=>
            relay[w].pc \in Working /\ e \in relay[w].batch \cup relay[w].marked
       /\ row[e].owner = w => row[e].state = "pending"

(* A copy of e that no fault has to pay for: the one its row records, or   *)
(* will record when the open transaction commits                           *)
SentBy(w, e) ==
  e \in relay[w].marked \/ (relay[w].pc = "mark" /\ IsNext(w, e))

Sent(e) == row[e].state = "published" \/ \E w \in Relays : SentBy(w, e)

(* The relays that lost their session and may still publish e *)
Orphans(e) == {w \in Relays : relay[w].pc = "orphan" /\ e \in relay[w].batch}

(* Every other copy, made or still to come from an orphan, is paid for. *)
CopiesInv ==
  \A e \in Events :
    /\ IsFiniteSet(Orphans(e))
    /\ IF e \in Poison THEN copies[e] <= 1
       ELSE copies[e] + Cardinality(Orphans(e))
              <= faults + (IF Sent(e) THEN 1 ELSE 0)

CopyInv == TypeOK /\ LockInv /\ CopiesInv

(* A relay's rows after its transaction *)
LEMMA RowsAfterFacts ==
  ASSUME TypeOK, NEW w \in Relays, NEW M, NEW e \in Events
  PROVE  /\ RowsAfter(w, M)[e].owner =
              IF row[e].owner = w THEN NoOne ELSE row[e].owner
         /\ RowsAfter(w, M)[e].state =
              IF row[e].owner = w /\ e \in M THEN "published" ELSE row[e].state
BY DEF RowsAfter

(* Only the owner of a row has sent it, and a pending row has one owner. *)
LEMMA OwnerSends ==
  ASSUME LockInv, NEW w \in Relays, NEW e \in Events, SentBy(w, e)
  PROVE  row[e].owner = w /\ row[e].state = "pending"
         /\ relay[w].pc \in Working
BY DEF LockInv, SentBy, IsNext, Working

(* The row a relay is about to publish was not sent before. *)
LEMMA NextIsNotSent ==
  ASSUME LockInv, NEW w \in Relays, relay[w].pc = "publish",
         NEW e \in Events, e \in relay[w].batch
  PROVE  ~Sent(e)
<1>1. row[e].owner = w /\ row[e].state = "pending" /\ e \notin relay[w].marked
  BY DEF LockInv, Working
<1>2. ~SentBy(w, e)
  BY <1>1 DEF SentBy
<1>3. \A v \in Relays : SentBy(v, e) => v = w
  BY <1>1, OwnerSends
<1>4. QED  BY <1>1, <1>2, <1>3 DEF Sent

(* A relay whose transaction is over holds nothing. *)
LEMMA ReleaseLocks ==
  ASSUME TypeOK, LockInv, NEW w \in Relays, NEW M, NEW rec,
         row' = RowsAfter(w, M), relay' = [relay EXCEPT ![w] = rec],
         rec.pc \notin Working, rec.marked = {}, rec.batch \subseteq relay[w].batch
  PROVE  LockInv'
<1>1. /\ relay'[w] = rec
      /\ \A v \in Relays : v # w => relay'[v] = relay[v]
  BY DEF TypeOK
<1>2. \A e \in Events :
        /\ row'[e].owner = IF row[e].owner = w THEN NoOne ELSE row[e].owner
        /\ row[e].owner # w => row'[e].state = row[e].state
  BY RowsAfterFacts
<1>3. NoOne \notin Relays /\ Poison \subseteq Events
  BY PipelineAssumption
<1>4. \A e \in Poison : row'[e].state = "absent"
  BY <1>2, <1>3 DEF LockInv
<1>5. ASSUME NEW v \in Relays, NEW e \in Events
      PROVE  /\ e \in relay'[v].batch => e \notin Poison /\ e \notin relay'[v].marked
             /\ relay'[v].pc = "close" => e \notin relay'[v].batch
             /\ e \in relay'[v].marked => relay'[v].pc \in Working
             /\ row'[e].owner = v <=>
                  relay'[v].pc \in Working
                  /\ e \in relay'[v].batch \cup relay'[v].marked
             /\ row'[e].owner = v => row'[e].state = "pending"
  <2>1. CASE v = w
    BY <1>1, <1>2, <1>3, <2>1 DEF LockInv, Working
  <2>2. CASE v # w
    BY <1>1, <1>2, <1>3, <2>2 DEF LockInv
  <2>3. QED  BY <2>1, <2>2
<1>6. QED  BY <1>4, <1>5 DEF LockInv

(* FOR UPDATE SKIP LOCKED: every step of a relay keeps the locks apart. *)
LEMMA RelayLocks ==
  ASSUME TypeOK, LockInv, NEW w \in Relays, RelayStep(w) \/ RelayFault(w)
  PROVE  LockInv'
<1>0. /\ relay[w] \in RelayType /\ NoOne \notin Relays /\ Poison \subseteq Events
      /\ IdleRelay.pc = "idle" /\ IdleRelay.batch = {} /\ IdleRelay.marked = {}
  BY PipelineAssumption DEF TypeOK, IdleRelay
<1> DEFINE b == relay[w].batch
<1>1. CASE Claim(w)
  <2> DEFINE B == FirstRows(Claimable)
             rec == [IdleRelay EXCEPT !.pc = "publish", !.batch = B]
  <2>1. relay[w].pc = "idle" /\ relay' = [relay EXCEPT ![w] = rec]
    BY <1>1 DEF Claim
  <2>2. rec.pc = "publish" /\ rec.batch = B /\ rec.marked = {}
    BY DEF IdleRelay
  <2>3. \A e \in B : /\ e \in Events /\ row[e].state = "pending"
                     /\ row[e].owner = NoOne
    BY DEF FirstRows, Claimable
  <2>4. \A e \in Events : /\ row'[e].state = row[e].state
                          /\ row'[e].owner = IF e \in B THEN w ELSE row[e].owner
    BY <1>1 DEF Claim
  <2> HIDE DEF B, rec
  <2>5. /\ relay'[w] = rec
        /\ \A v \in Relays : v # w => relay'[v] = relay[v]
    BY <2>1 DEF TypeOK
  <2>6. \A e \in Poison : row'[e].state = "absent" /\ e \notin B
    BY <1>0, <2>3, <2>4 DEF LockInv
  <2>7. ASSUME NEW v \in Relays, NEW e \in Events
        PROVE  /\ e \in relay'[v].batch => e \notin Poison /\ e \notin relay'[v].marked
               /\ relay'[v].pc = "close" => e \notin relay'[v].batch
               /\ e \in relay'[v].marked => relay'[v].pc \in Working
               /\ row'[e].owner = v <=>
                    relay'[v].pc \in Working
                    /\ e \in relay'[v].batch \cup relay'[v].marked
               /\ row'[e].owner = v => row'[e].state = "pending"
    <3>1. CASE v = w
      BY <2>1, <2>2, <2>3, <2>4, <2>5, <2>6, <3>1 DEF LockInv, Working
    <3>2. CASE v # w
      BY <1>0, <2>3, <2>4, <2>5, <3>2 DEF LockInv
    <3>3. QED  BY <3>1, <3>2
  <2>8. QED  BY <2>6, <2>7 DEF LockInv
<1>2. CASE Publish(w)
  <2>1. /\ row' = row /\ relay[w].pc = "publish" /\ \E e \in b : IsNext(w, e)
        /\ relay' = [relay EXCEPT ![w] = [@ EXCEPT !.pc = "mark"]]
    BY <1>2 DEF Publish
  <2>2. /\ relay'[w].pc = "mark" /\ relay'[w].batch = b
        /\ relay'[w].marked = relay[w].marked
        /\ \A v \in Relays : v # w => relay'[v] = relay[v]
    BY <1>0, <2>1 DEF TypeOK, RelayType
  <2>3. QED  BY <2>1, <2>2 DEF LockInv, Working
<1>3. CASE Mark(w)
  <2>1. PICK f \in b :
          relay' = [relay EXCEPT ![w] =
            [pc |-> IF b = {f} THEN "close" ELSE "publish", batch |-> b \ {f},
             marked |-> relay[w].marked \cup {f}, failed |-> NoEvent]]
    BY <1>3 DEF Mark
  <2>2. row' = row /\ relay[w].pc = "mark"
    BY <1>3 DEF Mark
  <2>3. /\ relay'[w].pc = IF b = {f} THEN "close" ELSE "publish"
        /\ relay'[w].batch = b \ {f}
        /\ relay'[w].marked = relay[w].marked \cup {f}
        /\ \A v \in Relays : v # w => relay'[v] = relay[v]
    BY <2>1 DEF TypeOK
  <2>4. QED  BY <2>2, <2>3 DEF LockInv, Working
<1>4. CASE CommitBatch(w)
  <2>1. row' = RowsAfter(w, relay[w].marked)
        /\ relay' = [relay EXCEPT ![w] = IdleRelay]
    BY <1>4 DEF CommitBatch
  <2>2. QED  BY <1>0, <2>1, ReleaseLocks DEF Working
<1>5. CASE BumpAttempts(w)
  <2>1. /\ relay[w].pc = "bump" /\ relay' = [relay EXCEPT ![w] = IdleRelay]
        /\ row' = [row EXCEPT ![relay[w].failed] =
             [@ EXCEPT !.attempts = row[relay[w].failed].attempts + 1]]
    BY <1>5 DEF BumpAttempts
  <2>2. \A e \in Events : row'[e].state = row[e].state /\ row'[e].owner = row[e].owner
    BY <2>1 DEF TypeOK, RowType
  <2>3. /\ relay'[w] = IdleRelay
        /\ \A v \in Relays : v # w => relay'[v] = relay[v]
    BY <2>1 DEF TypeOK
  <2>4. QED  BY <1>0, <2>1, <2>2, <2>3 DEF LockInv, Working
<1>6. CASE PublishOrphan(w)
  <2>1. /\ relay[w].pc = "orphan" /\ relay' = [relay EXCEPT ![w] = IdleRelay]
        /\ row' = row
    BY <1>6 DEF PublishOrphan
  <2>2. /\ relay'[w] = IdleRelay
        /\ \A v \in Relays : v # w => relay'[v] = relay[v]
    BY <2>1 DEF TypeOK
  <2>3. QED  BY <1>0, <2>1, <2>2 DEF LockInv, Working
<1>7. CASE PublishFails(w)
  <2>1. PICK f \in b : relay' = [relay EXCEPT ![w] =
                          [IdleRelay EXCEPT !.pc = "bump", !.failed = f]]
    BY <1>7 DEF PublishFails
  <2> DEFINE rec == [IdleRelay EXCEPT !.pc = "bump", !.failed = f]
  <2>2. rec.pc = "bump" /\ rec.batch = {} /\ rec.marked = {}
    BY DEF IdleRelay
  <2>3. row' = RowsAfter(w, {}) /\ relay' = [relay EXCEPT ![w] = rec]
    BY <1>7, <2>1 DEF PublishFails
  <2> HIDE DEF rec
  <2>4. QED  BY <2>2, <2>3, ReleaseLocks DEF Working
<1>8. CASE RelayFails(w)
  <2>1. row' = RowsAfter(w, {}) /\ relay' = [relay EXCEPT ![w] = IdleRelay]
    BY <1>8 DEF RelayFails
  <2>2. QED  BY <1>0, <2>1, ReleaseLocks DEF Working
<1>9. CASE SessionLost(w)
  <2> DEFINE rec == [IdleRelay EXCEPT !.pc = "orphan", !.batch = b]
  <2>1. rec.pc = "orphan" /\ rec.batch = b /\ rec.marked = {}
    BY DEF IdleRelay
  <2>2. row' = RowsAfter(w, {}) /\ relay' = [relay EXCEPT ![w] = rec]
    BY <1>9 DEF SessionLost
  <2> HIDE DEF rec
  <2>3. QED  BY <2>1, <2>2, ReleaseLocks DEF Working
<1>10. QED
  BY <1>1, <1>2, <1>3, <1>4, <1>5, <1>6, <1>7, <1>8, <1>9
  DEF RelayStep, CallStep, RelayFault

(* The orphans of e, when only relay w moves *)
LEMMA OrphanCount ==
  ASSUME TypeOK, CopiesInv, NEW w \in Relays, NEW rec,
         relay' = [relay EXCEPT ![w] = rec], NEW e \in Events
  PROVE  LET O == Orphans(e)
             n == Cardinality(O)
             m == Cardinality(Orphans(e)')
         IN  /\ IsFiniteSet(Orphans(e)') /\ n \in Nat /\ m \in Nat
             /\ ~(rec.pc = "orphan" /\ e \in rec.batch) => m <= n
             /\ ~(rec.pc = "orphan" /\ e \in rec.batch) /\ w \in O => m = n - 1
             /\ m <= n + 1
<1> DEFINE O == Orphans(e)
           Q == Orphans(e)'
<1>1. IsFiniteSet(O)
  BY DEF CopiesInv
<1>2. relay'[w] = rec /\ \A v \in Relays : v # w => relay'[v] = relay[v]
  BY DEF TypeOK
<1>3. CASE rec.pc = "orphan" /\ e \in rec.batch
  <2>1. Q = O \cup {w}
    BY <1>2, <1>3 DEF Orphans
  <2> HIDE DEF O, Q
  <2>2. /\ IsFiniteSet(Q)
        /\ Cardinality(Q) = IF w \in O THEN Cardinality(O) ELSE Cardinality(O) + 1
    BY <1>1, <2>1, FS_AddElement
  <2>3. Cardinality(O) \in Nat /\ Cardinality(Q) \in Nat
    BY <1>1, <2>2, FS_CardinalityType
  <2>4. QED
    BY <1>3, <2>2, <2>3 DEF O, Q
<1>4. CASE ~(rec.pc = "orphan" /\ e \in rec.batch)
  <2>1. Q = O \ {w}
    BY <1>2, <1>4 DEF Orphans
  <2> HIDE DEF O, Q
  <2>2. /\ IsFiniteSet(Q)
        /\ Cardinality(Q) = IF w \in O THEN Cardinality(O) - 1 ELSE Cardinality(O)
    BY <1>1, <2>1, FS_RemoveElement
  <2>3. Cardinality(O) \in Nat /\ Cardinality(Q) \in Nat
    BY <1>1, <2>2, FS_CardinalityType
  <2>4. QED
    BY <1>4, <2>2, <2>3 DEF O, Q
<1>5. QED  BY <1>3, <1>4

(* Another relay has sent what it had sent. *)
LEMMA OthersSent ==
  ASSUME TypeOK, NEW w \in Relays, NEW rec, relay' = [relay EXCEPT ![w] = rec],
         NEW v \in Relays, v # w, NEW e
  PROVE  SentBy(v, e)' <=> SentBy(v, e)
<1>1. relay'[v] = relay[v]
  BY DEF TypeOK
<1>2. QED  BY <1>1 DEF SentBy, IsNext

(* What relay w did costs no more than it pays for. *)
Paid(w) ==
  \A e \in Events \ Poison :
    \* nothing new, and what was sent stays sent
    \/ copies'[e] = copies[e] /\ faults' = faults /\ (Sent(e) => Sent(e)')
    \* the copy its row will record
    \/ copies'[e] = copies[e] + 1 /\ faults' = faults /\ ~Sent(e) /\ Sent(e)'
    \* the copy of an orphan
    \/ copies'[e] = copies[e] + 1 /\ faults' = faults /\ (Sent(e) => Sent(e)')
       /\ w \in Orphans(e)
    \* a fault
    \/ copies'[e] = copies[e] /\ faults' = faults + 1
    \/ copies'[e] = copies[e] + 1 /\ faults' = faults + 1
       /\ (~Sent(e) \/ w \in Orphans(e))

(* A new orphan is paid for by the fault that made it. *)
LEMMA PaidCopies ==
  ASSUME TypeOK, CopiesInv, NEW w \in Relays, NEW rec,
         relay' = [relay EXCEPT ![w] = rec], Paid(w),
         \A e \in Poison : copies'[e] = copies[e],
         rec.pc = "orphan" => /\ faults' = faults + 1 /\ copies' = copies
                              /\ \A e \in rec.batch : ~Sent(e)
  PROVE  CopiesInv'
<1> SUFFICES ASSUME NEW e \in Events
             PROVE  /\ IsFiniteSet(Orphans(e)')
                    /\ IF e \in Poison THEN copies'[e] <= 1
                       ELSE copies'[e] + Cardinality(Orphans(e)')
                              <= faults' + (IF Sent(e)' THEN 1 ELSE 0)
  BY DEF CopiesInv
<1> DEFINE n == Cardinality(Orphans(e))
           m == Cardinality(Orphans(e)')
<1>1. /\ IsFiniteSet(Orphans(e)') /\ n \in Nat /\ m \in Nat
      /\ ~(rec.pc = "orphan" /\ e \in rec.batch) => m <= n
      /\ ~(rec.pc = "orphan" /\ e \in rec.batch) /\ w \in Orphans(e) => m = n - 1
      /\ m <= n + 1
  BY OrphanCount
<1>2. CASE e \in Poison
  BY <1>1, <1>2 DEF CopiesInv
<1>3. CASE e \notin Poison
  <2>1. copies[e] \in Nat /\ faults \in Nat
    BY PipelineAssumption DEF TypeOK
  <2>2. copies[e] + n <= faults + (IF Sent(e) THEN 1 ELSE 0)
    BY <1>3 DEF CopiesInv
  <2> HIDE DEF n, m
  <2>3. CASE rec.pc = "orphan" /\ e \in rec.batch
    <3>1. copies[e] + n <= faults
      BY <1>1, <2>1, <2>2, <2>3
    <3>2. copies'[e] + m <= faults'
      BY <1>1, <2>1, <2>3, <3>1
    <3>3. QED  BY <1>1, <1>3, <2>1, <2>3, <3>2 DEF m
  <2>4. CASE ~(rec.pc = "orphan" /\ e \in rec.batch)
    <3>1. copies'[e] + m <= faults' + (IF Sent(e)' THEN 1 ELSE 0)
      <4>1. m <= n /\ (w \in Orphans(e) => m = n - 1)
        BY <1>1, <2>4
      <4>2. CASE copies'[e] = copies[e] /\ faults' = faults /\ (Sent(e) => Sent(e)')
        BY <1>1, <2>1, <2>2, <4>1, <4>2
      <4>3. CASE copies'[e] = copies[e] + 1 /\ faults' = faults /\ ~Sent(e) /\ Sent(e)'
        BY <1>1, <2>1, <2>2, <4>1, <4>3
      <4>4. CASE copies'[e] = copies[e] + 1 /\ faults' = faults
                 /\ (Sent(e) => Sent(e)') /\ w \in Orphans(e)
        BY <1>1, <2>1, <2>2, <4>1, <4>4
      <4>5. CASE copies'[e] = copies[e] /\ faults' = faults + 1
        BY <1>1, <2>1, <2>2, <4>1, <4>5
      <4>6. CASE copies'[e] = copies[e] + 1 /\ faults' = faults + 1
                 /\ (~Sent(e) \/ w \in Orphans(e))
        BY <1>1, <2>1, <2>2, <4>1, <4>6
      <4>7. QED  BY <1>3, <4>2, <4>3, <4>4, <4>5, <4>6 DEF Paid
    <3>2. QED  BY <1>1, <1>3, <3>1 DEF m
  <2>5. QED  BY <2>3, <2>4
<1>4. QED  BY <1>2, <1>3

(* What the broker takes is one copy. *)
LEMMA TakesOne ==
  ASSUME TypeOK, NEW f \in Events, BrokerTakes(f)
  PROVE  /\ copies'[f] = copies[f] + 1
         /\ \A e \in Events : e # f => copies'[e] = copies[e]
BY DEF TypeOK, BrokerTakes

(* Every step of a relay is paid for. *)
LEMMA RelayCopies ==
  ASSUME CopyInv, NEW w \in Relays, RelayStep(w) \/ RelayFault(w)
  PROVE  CopiesInv'
<1>0. /\ TypeOK /\ LockInv /\ CopiesInv /\ relay[w] \in RelayType
      /\ Poison \subseteq Events
      /\ IdleRelay.pc = "idle" /\ IdleRelay.batch = {} /\ IdleRelay.marked = {}
  BY PipelineAssumption DEF CopyInv, TypeOK, IdleRelay
<1> DEFINE b == relay[w].batch
<1>a. b \subseteq Events /\ b \cap Poison = {}
      /\ relay[w].marked \subseteq Events
  BY <1>0 DEF LockInv, RelayType
<1>b. \A e \in Events, v \in Relays :
        SentBy(v, e) => row[e].owner = v /\ row[e].state = "pending"
                        /\ relay[v].pc \in Working
  BY <1>0, OwnerSends
(* Sent stays, when only w moves *)
<1>c. ASSUME NEW rec, relay' = [relay EXCEPT ![w] = rec], NEW e \in Events, Sent(e),
             row[e].state = "published" => row'[e].state = "published",
             SentBy(w, e) => Sent(e)'
      PROVE  Sent(e)'
  <2>1. CASE row[e].state = "published"
    BY <1>c, <2>1 DEF Sent
  <2>2. CASE SentBy(w, e)
    BY <1>c, <2>2
  <2>3. ASSUME NEW v \in Relays, v # w, SentBy(v, e) PROVE Sent(e)'
    <3>1. SentBy(v, e)'
      BY <1>0, <1>c, <2>3, OthersSent
    <3>2. QED  BY <3>1 DEF Sent
  <2>4. QED  BY <1>c, <2>1, <2>2, <2>3 DEF Sent
<1>1. CASE Claim(w)
  <2> DEFINE B == FirstRows(Claimable)
             rec == [IdleRelay EXCEPT !.pc = "publish", !.batch = B]
  <2>1. /\ relay[w].pc = "idle" /\ relay' = [relay EXCEPT ![w] = rec]
        /\ UNCHANGED <<copies, faults>>
    BY <1>1 DEF Claim
  <2>2. rec.pc = "publish"
    BY DEF IdleRelay
  <2>3. \A e \in Events : row'[e].state = row[e].state
    BY <1>1 DEF Claim
  <2> HIDE DEF rec
  <2>4. \A e \in Events : ~SentBy(w, e)
    BY <1>b, <2>1 DEF Working
  <2>5. Paid(w)
    BY <1>c, <2>1, <2>3, <2>4 DEF Paid
  <2>6. QED  BY <1>0, <2>1, <2>2, <2>5, PaidCopies
<1>2. CASE Publish(w)
  <2>1. PICK f \in b : IsNext(w, f) /\ BrokerTakes(f)
    BY <1>2 DEF Publish
  <2>2. PICK rec : rec = [relay[w] EXCEPT !.pc = "mark"]
    OBVIOUS
  <2>3. /\ relay[w].pc = "publish" /\ relay' = [relay EXCEPT ![w] = rec]
        /\ UNCHANGED <<row, faults>>
    BY <1>2, <2>2 DEF Publish
  <2>4. rec.pc = "mark" /\ rec.batch = b /\ rec.marked = relay[w].marked
    BY <1>0, <2>2 DEF RelayType
  <2>5. relay'[w] = rec
    BY <1>0, <2>3 DEF TypeOK
  <2>6. ~Sent(f) /\ f \in Events \ Poison
    BY <1>0, <1>a, <2>3, NextIsNotSent
  <2>7. Sent(f)'
    BY <2>1, <2>4, <2>5 DEF Sent, SentBy, IsNext
  <2>8. /\ copies'[f] = copies[f] + 1
        /\ \A e \in Events : e # f => copies'[e] = copies[e]
    BY <1>0, <2>1, <2>6, TakesOne
  <2>9. ASSUME NEW e \in Events, SentBy(w, e) PROVE Sent(e)'
    <3>1. e \in relay'[w].marked
      BY <2>3, <2>4, <2>5, <2>9 DEF SentBy
    <3>2. SentBy(w, e)'
      BY <3>1 DEF SentBy
    <3>3. QED  BY <3>2 DEF Sent
  <2>10. Paid(w)
    BY <1>c, <2>3, <2>6, <2>7, <2>8, <2>9 DEF Paid
  <2>11. QED  BY <1>0, <2>3, <2>4, <2>6, <2>8, <2>10, PaidCopies
<1>3. CASE Mark(w)
  <2>1. PICK f, rec :
          /\ f \in b /\ IsNext(w, f) /\ relay' = [relay EXCEPT ![w] = rec]
          /\ rec = [pc |-> IF b = {f} THEN "close" ELSE "publish",
                    batch |-> b \ {f}, marked |-> relay[w].marked \cup {f},
                    failed |-> NoEvent]
    BY <1>3 DEF Mark
  <2>2. relay[w].pc = "mark" /\ UNCHANGED <<row, copies, faults>>
    BY <1>3 DEF Mark
  <2>3. relay'[w].marked = relay[w].marked \cup {f} /\ rec.pc # "orphan"
    BY <1>0, <2>1 DEF TypeOK
  <2>4. ASSUME NEW e \in Events, IsNext(w, e) PROVE e = f
    <3>1. e <= f /\ f <= e
      BY <2>1, <2>4 DEF IsNext
    <3>2. e \in Nat /\ f \in Nat
      BY <1>a, <2>1, PipelineAssumption
    <3>3. QED  BY <3>1, <3>2
  <2>5. ASSUME NEW e \in Events, SentBy(w, e) PROVE Sent(e)'
    <3>1. e \in relay'[w].marked
      BY <2>3, <2>4, <2>5 DEF SentBy
    <3>2. SentBy(w, e)'
      BY <3>1 DEF SentBy
    <3>3. QED  BY <3>2 DEF Sent
  <2>6. Paid(w)
    BY <1>c, <2>1, <2>2, <2>5 DEF Paid
  <2>7. QED  BY <1>0, <2>1, <2>2, <2>3, <2>6, PaidCopies
<1>4. CASE CommitBatch(w)
  <2>1. /\ relay[w].pc = "close" /\ relay' = [relay EXCEPT ![w] = IdleRelay]
        /\ UNCHANGED <<copies, faults>> /\ row' = RowsAfter(w, relay[w].marked)
    BY <1>4 DEF CommitBatch
  <2>2. \A e \in Events : SentBy(w, e) => row'[e].state = "published"
    <3>1. \A e \in Events : SentBy(w, e) => e \in relay[w].marked /\ row[e].owner = w
      BY <1>b, <2>1 DEF SentBy
    <3>2. QED  BY <1>0, <2>1, <3>1, RowsAfterFacts
  <2>3. \A e \in Events :
          row[e].state = "published" => row'[e].state = "published"
    BY <1>0, <2>1, RowsAfterFacts
  <2>4. \A e \in Events : SentBy(w, e) => Sent(e)'
    BY <2>2 DEF Sent
  <2>5. Paid(w)
    BY <1>c, <2>1, <2>3, <2>4 DEF Paid
  <2>6. QED  BY <1>0, <2>1, <2>5, PaidCopies
<1>5. CASE BumpAttempts(w)
  <2>1. /\ relay[w].pc = "bump" /\ relay' = [relay EXCEPT ![w] = IdleRelay]
        /\ row' = [row EXCEPT ![relay[w].failed] =
             [@ EXCEPT !.attempts = row[relay[w].failed].attempts + 1]]
        /\ UNCHANGED <<copies, faults>>
    BY <1>5 DEF BumpAttempts
  <2>2. \A e \in Events : row'[e].state = row[e].state
    BY <1>0, <2>1 DEF TypeOK, RowType
  <2>3. \A e \in Events : ~SentBy(w, e)
    BY <1>b, <2>1 DEF Working
  <2>4. Paid(w)
    BY <1>c, <2>1, <2>2, <2>3 DEF Paid
  <2>5. QED  BY <1>0, <2>1, <2>4, PaidCopies
<1>6. CASE PublishOrphan(w)
  <2>1. PICK f \in b : BrokerTakes(f)
    BY <1>6 DEF PublishOrphan
  <2>2. /\ relay[w].pc = "orphan" /\ relay' = [relay EXCEPT ![w] = IdleRelay]
        /\ UNCHANGED <<row, faults>>
    BY <1>6 DEF PublishOrphan
  <2>3. \A e \in Events : ~SentBy(w, e)
    BY <1>b, <2>2 DEF Working
  <2>4. /\ copies'[f] = copies[f] + 1 /\ f \in Events \ Poison
        /\ \A e \in Events : e # f => copies'[e] = copies[e]
    BY <1>0, <1>a, <2>1, TakesOne
  <2>5. w \in Orphans(f)
    BY <2>2 DEF Orphans
  <2>6. Paid(w)
    BY <1>c, <2>2, <2>3, <2>4, <2>5 DEF Paid
  <2>7. QED  BY <1>0, <2>2, <2>4, <2>6, PaidCopies
<1>7. CASE PublishFails(w)
  <2>1. PICK f, rec :
          /\ f \in b
          /\ BrokerTakes(f) \/ UNCHANGED copies
          /\ relay' = [relay EXCEPT ![w] = rec]
          /\ rec = [IdleRelay EXCEPT !.pc = "bump", !.failed = f]
    BY <1>7 DEF PublishFails
  <2>2. /\ relay[w].pc \in {"publish", "orphan"} /\ faults' = faults + 1
        /\ rec.pc = "bump"
    BY <1>7, <2>1 DEF PublishFails, Fault, IdleRelay
  <2>3. f \in Events \ Poison /\ (~Sent(f) \/ w \in Orphans(f))
    BY <1>0, <1>a, <2>1, <2>2, NextIsNotSent DEF Orphans
  <2>4. /\ copies'[f] \in {copies[f], copies[f] + 1}
        /\ \A e \in Events : e # f => copies'[e] = copies[e]
    BY <1>0, <2>1, <2>3, TakesOne
  <2>5. Paid(w)
    BY <2>2, <2>3, <2>4 DEF Paid
  <2>6. QED  BY <1>0, <2>1, <2>2, <2>3, <2>4, <2>5, PaidCopies
<1>8. CASE RelayFails(w)
  <2>1. relay' = [relay EXCEPT ![w] = IdleRelay] /\ faults' = faults + 1
    BY <1>8 DEF RelayFails, Fault
  <2>2. CASE UNCHANGED copies
    <3>1. Paid(w)
      BY <2>1, <2>2 DEF Paid
    <3>2. QED  BY <1>0, <2>1, <2>2, <3>1, PaidCopies
  <2>3. ASSUME relay[w].pc \in {"publish", "orphan"}, NEW f \in b, BrokerTakes(f)
        PROVE  CopiesInv'
    <3>1. f \in Events \ Poison /\ (~Sent(f) \/ w \in Orphans(f))
      BY <1>0, <1>a, <2>3, NextIsNotSent DEF Orphans
    <3>2. /\ copies'[f] = copies[f] + 1
          /\ \A e \in Events : e # f => copies'[e] = copies[e]
      BY <1>0, <2>3, <3>1, TakesOne
    <3>3. Paid(w)
      BY <2>1, <3>1, <3>2 DEF Paid
    <3>4. QED  BY <1>0, <2>1, <3>1, <3>2, <3>3, PaidCopies
  <2>4. QED  BY <1>8, <2>2, <2>3 DEF RelayFails, InFlight
<1>9. CASE SessionLost(w)
  <2>1. PICK rec : rec = [IdleRelay EXCEPT !.pc = "orphan", !.batch = b]
    OBVIOUS
  <2>2. /\ relay[w].pc = "publish" /\ relay' = [relay EXCEPT ![w] = rec]
        /\ faults' = faults + 1 /\ copies' = copies
    BY <1>9, <2>1 DEF SessionLost, Fault
  <2>3. rec.batch = b
    BY <2>1 DEF IdleRelay
  <2>4. \A e \in rec.batch : ~Sent(e)
    BY <1>0, <1>a, <2>2, <2>3, NextIsNotSent
  <2>5. Paid(w)
    BY <2>2 DEF Paid
  <2>6. QED  BY <1>0, <2>2, <2>4, <2>5, PaidCopies
<1>10. QED
  BY <1>1, <1>2, <1>3, <1>4, <1>5, <1>6, <1>7, <1>8, <1>9
  DEF RelayStep, CallStep, RelayFault

(* The rest of the system makes no copies, but for those without a row. *)
LEMMA NextCopy == CopyInv /\ [Next]_vars => CopyInv'
<1> SUFFICES ASSUME CopyInv, [Next]_vars PROVE CopyInv'
  OBVIOUS
<1>1. TypeOK /\ LockInv /\ CopiesInv /\ TypeOK'
  BY NextTyped DEF CopyInv
<1>2. copies \in [Events -> Nat] /\ faults \in Nat /\ faults' \in Nat
      /\ \A e \in Events : IsFiniteSet(Orphans(e)) /\ Cardinality(Orphans(e)) \in Nat
  BY <1>1, PipelineAssumption, FS_CardinalityType DEF TypeOK, CopiesInv
<1>3. ASSUME NEW w \in Relays, RelayStep(w) \/ RelayFault(w) PROVE CopyInv'
  BY <1>1, <1>3, RelayLocks, RelayCopies DEF CopyInv
<1>4. ASSUME NEW f \in Events, InsertRow(f) PROVE CopyInv'
  <2>1. /\ f \notin Poison /\ row[f].state = "absent"
        /\ row' = [row EXCEPT ![f] = [@ EXCEPT !.state = "pending"]]
        /\ UNCHANGED <<relay, copies, faults>>
    BY <1>4 DEF InsertRow
  <2>2. /\ row'[f].state = "pending" /\ row'[f].owner = row[f].owner
        /\ \A e \in Events : e # f => row'[e] = row[e]
    BY <1>1, <2>1 DEF TypeOK, RowType
  <2>3. LockInv'
    <3>1. Poison \subseteq Events
      BY PipelineAssumption
    <3>2. QED  BY <1>1, <2>1, <2>2, <3>1 DEF LockInv
  <2>4. \A e \in Events : (Sent(e)' <=> Sent(e)) /\ Orphans(e)' = Orphans(e)
    BY <2>1, <2>2 DEF Sent, SentBy, IsNext, Orphans
  <2>5. CopiesInv'
    BY <1>1, <2>1, <2>4 DEF CopiesInv
  <2>6. QED  BY <1>1, <2>3, <2>5 DEF CopyInv
<1>5. ASSUME NEW f \in Events, PublishRaw(f) PROVE CopyInv'
  <2>1. f \in Poison /\ copies[f] = 0 /\ UNCHANGED <<row, relay, faults>>
    BY <1>5 DEF PublishRaw
  <2>2. /\ copies'[f] = copies[f] + 1
        /\ \A e \in Events : e # f => copies'[e] = copies[e]
    BY <1>1, <1>5, TakesOne DEF PublishRaw
  <2>3. LockInv'
    BY <1>1, <2>1 DEF LockInv
  <2>4. \A e \in Events : (Sent(e)' <=> Sent(e)) /\ Orphans(e)' = Orphans(e)
    BY <2>1 DEF Sent, SentBy, IsNext, Orphans
  <2>5. CopiesInv'
    BY <1>1, <2>1, <2>2, <2>4 DEF CopiesInv
  <2>6. QED  BY <1>1, <2>3, <2>5 DEF CopyInv
<1>6. ASSUME UNCHANGED <<row, relay, copies>>, faults' \in {faults, faults + 1}
      PROVE  CopyInv'
  <2>1. LockInv'
    BY <1>1, <1>6 DEF LockInv
  <2>2. \A e \in Events : (Sent(e)' <=> Sent(e)) /\ Orphans(e)' = Orphans(e)
    BY <1>6 DEF Sent, SentBy, IsNext, Orphans
  <2>3. ASSUME NEW e \in Events
        PROVE  /\ IsFiniteSet(Orphans(e)')
               /\ IF e \in Poison THEN copies'[e] <= 1
                  ELSE copies'[e] + Cardinality(Orphans(e)')
                         <= faults' + (IF Sent(e)' THEN 1 ELSE 0)
    <3>1. PICK k \in Nat : k = Cardinality(Orphans(e))
      BY <1>2
    <3>2. /\ e \in Poison => copies[e] <= 1
          /\ e \notin Poison => copies[e] + k <= faults + (IF Sent(e) THEN 1 ELSE 0)
      BY <1>1, <3>1 DEF CopiesInv
    <3>3. copies[e] \in Nat
      BY <1>2
    <3>4. e \notin Poison => copies[e] + k <= faults' + (IF Sent(e) THEN 1 ELSE 0)
      BY <1>2, <1>6, <3>2, <3>3
    <3>5. QED  BY <1>2, <1>6, <2>2, <3>1, <3>2, <3>4
  <2>4. CopiesInv'
    BY <2>3 DEF CopiesInv
  <2>5. QED  BY <1>1, <2>1, <2>4 DEF CopyInv
<1>7. ASSUME NEW c \in Consumers, NEW i \in Slots,
             HandlerStep(c, i) \/ HandlerFails(c, i)
      PROVE  UNCHANGED <<row, relay, copies>> /\ faults' \in {faults, faults + 1}
  BY <1>7 DEF HandlerStep, HandlerFails, Deliver, RecordDelivery, RejectPoison,
    ApplyEffect, Ack, MarkAcked, AnswerOnClosed, Fault, relayVars
<1>8. ASSUME NEW c \in Consumers, ConsumerDies(c) \/ StopConsumer(c) \/ Restart(c)
      PROVE  UNCHANGED <<row, relay, copies>> /\ faults' \in {faults, faults + 1}
  BY <1>8 DEF ConsumerDies, StopConsumer, Restart, Fault, relayVars
<1>9. ASSUME AssertTopology \/ (\E w \in Relays : EmptyClaim(w)) \/ UNCHANGED vars
      PROVE  UNCHANGED <<row, relay, copies>> /\ faults' \in {faults, faults + 1}
  BY <1>9 DEF AssertTopology, EmptyClaim, vars, relayVars
<1>10. QED
  BY <1>3, <1>4, <1>5, <1>6, <1>7, <1>8, <1>9 DEF Next

(* CopyInv holds at the start. *)
LEMMA InitCopy == Init => CopyInv
<1> SUFFICES ASSUME Init PROVE CopyInv
  OBVIOUS
<1>1. /\ row = [e \in Events |->
                  [state |-> "absent", attempts |-> 0, owner |-> NoOne]]
      /\ relay = [w \in Relays |-> IdleRelay]
      /\ copies = [e \in Events |-> 0] /\ faults = 0
  BY DEF Init
<1>2. LockInv
  BY <1>1, PipelineAssumption DEF LockInv, IdleRelay, Working
<1>3. \A e \in Events : Orphans(e) = {}
  BY <1>1 DEF Orphans, IdleRelay
<1>4. CopiesInv
  BY <1>1, <1>3, FS_EmptySet DEF CopiesInv
<1>5. QED  BY <1>2, <1>4, InitTyped DEF CopyInv

(***************************************************************************)
(* However many relays run, the broker is given an event at most once more *)
(* than there were faults.  The row locks (LockInv) make it inductive: the *)
(* copy a row records is its owner's, a lost copy or a lost session is     *)
(* paid for by its fault, and an orphan only spends what it was paid.      *)
(***************************************************************************)
THEOREM DuplicatesAreBounded == Spec => []DuplicatesNeedFaults
<1>1. ASSUME CopyInv PROVE DuplicatesNeedFaults
  <2> SUFFICES ASSUME NEW e \in Events PROVE copies[e] <= 1 + faults
    BY DEF DuplicatesNeedFaults
  <2>1. copies[e] \in Nat /\ faults \in Nat
    BY <1>1, PipelineAssumption DEF CopyInv, TypeOK
  <2>2. PICK k \in Nat : k = Cardinality(Orphans(e))
    BY <1>1, FS_CardinalityType DEF CopyInv, CopiesInv
  <2>3. copies[e] <= 1 \/ copies[e] + k <= faults + (IF Sent(e) THEN 1 ELSE 0)
    BY <1>1, <2>2 DEF CopyInv, CopiesInv
  <2>4. QED  BY <2>1, <2>2, <2>3
<1>2. QED
  BY <1>1, InitCopy, NextCopy, PTL DEF Spec
=============================================================================
