----------------------------- MODULE OrderEvents -----------------------------
(***************************************************************************)
(* Order status updates and the two ways to watch them: updateStatus of    *)
(* OrdersService (src/orders/orders.service.ts), the in-process bus        *)
(* OrderEventsService (order-events.service.ts), the SSE stream            *)
(* (order-events.controller.ts) and the socket.io gateway                  *)
(* (orders.gateway.ts).  One API process; a restart loses its memory and   *)
(* its connections, the orders table stays.                                *)
(***************************************************************************)
EXTENDS Integers, Sequences

CONSTANTS
  Orders, Users,
  Updates,       \* calls of PATCH /orders/:id/status
  Clients,       \* EventSource clients of GET /orders/:id/events
  Sockets,       \* socket.io clients
  CanRead,       \* pairs <<user, order>> that loadAuthorizedOrder accepts
  Patches,       \* the arguments each update may have
  Watch,         \* the user, the order and what the first Last-Event-ID of
                 \* each client may be
  SocketUser,    \* the user of each socket
  Allowed,       \* ALLOWED_STATUSES
  Created,       \* the status an order starts with
  BufferLimit,   \* BUFFER_LIMIT
  NoOne,         \* the owner of an unlocked row, the order of an idle socket
  Absent, Other, \* Last-Event-ID missing, or not a number
  MaxFaults      \* bound: failed queries, lost connections and restarts

ASSUME EventsAssumption ==
  /\ CanRead \subseteq Users \X Orders
  /\ Watch \in [Clients -> [user: Users, order: Orders,
                           first: SUBSET {Absent, Other}]]
  /\ SocketUser \in [Sockets -> Users]
  /\ NoOne \notin Updates \cup Orders
  /\ Created \in Allowed
  /\ Absent \notin Nat /\ Other \notin Nat /\ Absent # Other
  /\ BufferLimit \in Nat \ {0} /\ MaxFaults \in Nat

VARIABLES
  status,   \* orders.status
  lock,     \* the update whose transaction owns the row of the order
  upd,      \* where each update is, and its arguments
  stream,   \* nextId and buffer of each order, in the memory of the process
  sse,      \* each client's request: where it is, frames on their way
  cursor,   \* the Last-Event-ID a client sends when it connects
  sock,     \* each socket: where its join is, its rooms
  seen,     \* history: the frames a client received, with the process life
  heard,    \* history: the orders a socket was sent events of
  epoch,    \* history: restarts so far
  raced,    \* history: orders whose last commit met an unpublished one, or
            \* whose call failed at COMMIT
  faults

vars == <<status, lock, upd, stream, sse, cursor, sock, seen, heard, epoch,
          raced, faults>>
rowVars == <<status, lock, raced>>
watchVars == <<sse, cursor, sock, seen, heard>>

NewStream == [nextId |-> 1, buffer |-> <<>>]
Away == [pc |-> "away", wire |-> <<>>]
Unjoined == [pc |-> "idle", order |-> NoOne, rooms |-> {}]

Init ==
  /\ status = [o \in Orders |-> Created]
  /\ lock = [o \in Orders |-> NoOne]
  /\ upd = [u \in Updates |-> [pc |-> "idle", in |-> NoOne]]
  /\ stream = [o \in Orders |-> NewStream]
  /\ sse = [c \in Clients |-> Away]
  /\ cursor \in {f \in [Clients -> {Absent, Other}] :
                   \A c \in Clients : f[c] \in Watch[c].first}
  /\ sock = [s \in Sockets |-> Unjoined]
  /\ seen = [c \in Clients |-> <<>>]
  /\ heard = [s \in Sockets |-> {}]
  /\ epoch = 0
  /\ raced = {}
  /\ faults = 0

Fault == faults < MaxFaults /\ faults' = faults + 1

(* loadAuthorizedOrder returns: the order exists and the caller owns it. *)
Authorized(user, o) == <<user, o>> \in CanRead

-----------------------------------------------------------------------------
(* Mutant: the buffer is never cut. *)
BufferAll(buffer, e) == Append(buffer, e)

(* push, and splice when there are more than BUFFER_LIMIT *)
Buffered(buffer, e) ==
  LET longer == Append(buffer, e)
  IN  IF Len(longer) > BufferLimit THEN Tail(longer) ELSE longer

(* Mutant: changes$ without its filter *)
EveryChange(c, e) == sse[c].pc = "open"

(* changes$: the stream of client c is subscribed to the order of e. *)
Subscribed(c, e) == sse[c].pc = "open" /\ Watch[c].order = e.order

(* publish: number the event, buffer it, hand it to all subscribers. *)
Publish(o, s) ==
  LET e == [id |-> stream[o].nextId, order |-> o, status |-> s]
  IN  /\ stream' = [stream EXCEPT ![o] =
           [nextId |-> stream[o].nextId + 1,
            buffer |-> Buffered(stream[o].buffer, e)]]
      /\ sse' = [c \in Clients |->
           IF Subscribed(c, e)
           THEN [pc |-> "open", wire |-> Append(sse[c].wire, e)] ELSE sse[c]]
      /\ heard' = [w \in Sockets |->
           IF o \in sock[w].rooms THEN heard[w] \cup {o} ELSE heard[w]]

-----------------------------------------------------------------------------
GoTo(u, pc) == upd' = [upd EXCEPT ![u] = [@ EXCEPT !.pc = pc]]

(* updateStatus is called: an unknown status is refused at once. *)
UpdateStatus(u) ==
  /\ upd[u].pc = "idle"
  /\ \E in \in Patches[u] :
       upd' = [upd EXCEPT ![u] =
         [pc |-> IF in.status \in Allowed THEN "load" ELSE "done", in |-> in]]
  /\ UNCHANGED <<rowVars, stream, watchVars, epoch, faults>>

(* Mutant: the event is published before the transaction commits. *)
PublishFirst(u) ==
  /\ upd[u].pc = "load"
  /\ Authorized(upd[u].in.user, upd[u].in.order)
  /\ Publish(upd[u].in.order, upd[u].in.status)
  /\ GoTo(u, "update")
  /\ UNCHANGED <<rowVars, cursor, sock, seen, epoch, faults>>

LoadOrder(u) ==
  /\ upd[u].pc = "load"
  /\ GoTo(u, IF Authorized(upd[u].in.user, upd[u].in.order)
             THEN "update" ELSE "done")
  /\ UNCHANGED <<rowVars, stream, watchVars, epoch, faults>>

(* UPDATE orders SET status: the row lock is taken, or waited for. *)
UpdateRow(u) ==
  /\ upd[u].pc = "update"
  /\ lock[upd[u].in.order] = NoOne
  /\ lock' = [lock EXCEPT ![upd[u].in.order] = u]
  /\ GoTo(u, "commit")
  /\ UNCHANGED <<status, raced, stream, watchVars, epoch, faults>>

(* Updates of o that have committed and not yet published *)
Unpublished(o) ==
  {u \in Updates : upd[u].pc = "publish" /\ upd[u].in.order = o}

(* The rows after the transactions of the updates in S commit *)
StatusAfter(S) ==
  [o \in Orders |->
     IF lock[o] \in S THEN upd[lock[o]].in.status ELSE status[o]]

CommitStatus(u) ==
  LET o == upd[u].in.order
  IN  /\ upd[u].pc = "commit"
      /\ status' = StatusAfter({u})
      /\ lock' = [lock EXCEPT ![o] = NoOne]
      /\ raced' = IF Unpublished(o) = {} THEN raced \ {o}
                  ELSE raced \cup {o}
      /\ GoTo(u, "publish")
      /\ UNCHANGED <<stream, watchVars, epoch, faults>>

PublishStatus(u) ==
  /\ upd[u].pc = "publish"
  /\ Publish(upd[u].in.order, upd[u].in.status)
  /\ GoTo(u, "done")
  /\ UNCHANGED <<rowVars, cursor, sock, seen, epoch, faults>>

(***************************************************************************)
(* A query of updateStatus fails: the call throws and publishes nothing.   *)
(* A failing COMMIT may have committed.                                    *)
(***************************************************************************)
UpdateFails(u) ==
  LET o == upd[u].in.order
  IN  /\ upd[u].pc \in {"load", "update", "commit"}
      /\ Fault
      /\ lock' = [q \in Orders |-> IF lock[q] = u THEN NoOne ELSE lock[q]]
      /\ \/ UNCHANGED <<status, raced>>
         \/ /\ upd[u].pc = "commit"
            /\ status' = StatusAfter({u})
            /\ raced' = raced \cup {o}
      /\ GoTo(u, "done")
      /\ UNCHANGED <<stream, watchVars, epoch>>

-----------------------------------------------------------------------------
(* parseLastEventId: Other means no replay. *)
ParseLastEventId(header) == IF header = Absent THEN 0 ELSE header

(* filter: the events of the buffer whose id is larger than last *)
EventsAfter(buffer, last) ==
  LET kept[n \in 0..Len(buffer)] ==
        IF n = 0 THEN <<>>
        ELSE IF buffer[n].id > last THEN Append(kept[n - 1], buffer[n])
        ELSE kept[n - 1]
  IN  kept[Len(buffer)]

(* Mutant: the replay starts one event too late. *)
ReplayPast(o, last) == EventsAfter(stream[o].buffer, last + 1)

ReplayAfter(o, last) == EventsAfter(stream[o].buffer, last)

(* GET /orders/:id/events arrives; assertCanRead is awaited. *)
Connect(c) ==
  /\ sse[c].pc = "away"
  /\ sse' = [sse EXCEPT ![c] = [pc |-> "checking", wire |-> <<>>]]
  /\ UNCHANGED <<rowVars, upd, stream, cursor, sock, seen, heard, epoch,
                 faults>>

(* Mutant: only new events are sent, Last-Event-ID is not looked at. *)
OpenLive(c) ==
  /\ sse[c].pc = "checking"
  /\ sse' = [sse EXCEPT ![c] = [pc |-> "open", wire |-> <<>>]]
  /\ UNCHANGED <<rowVars, upd, stream, cursor, sock, seen, heard, epoch,
                 faults>>

(* The rest of streamEvents in one go: the replay, then the subscription. *)
StreamEvents(c) ==
  /\ sse[c].pc = "checking"
  /\ sse' = [sse EXCEPT ![c] =
       IF ~Authorized(Watch[c].user, Watch[c].order)
       THEN [pc |-> "refused", wire |-> <<>>]
       ELSE [pc |-> "open",
             wire |-> IF cursor[c] = Other THEN <<>>
                      ELSE ReplayAfter(Watch[c].order,
                                       ParseLastEventId(cursor[c]))]]
  /\ UNCHANGED <<rowVars, upd, stream, cursor, sock, seen, heard, epoch,
                 faults>>

(* The client reads a frame and keeps its id. *)
Receive(c) ==
  /\ sse[c].wire # <<>>
  /\ sse' = [sse EXCEPT ![c] = [pc |-> "open", wire |-> Tail(sse[c].wire)]]
  /\ seen' = [seen EXCEPT ![c] =
                Append(@, [life |-> epoch, event |-> Head(sse[c].wire)])]
  /\ cursor' = [cursor EXCEPT ![c] = Head(sse[c].wire).id]
  /\ UNCHANGED <<rowVars, upd, stream, sock, heard, epoch, faults>>

(***************************************************************************)
(* The connection is lost with the frames on it.  A request that was still *)
(* checked goes on and subscribes to a closed response nobody reads.       *)
(***************************************************************************)
Disconnect(c) ==
  /\ sse[c].pc \in {"checking", "open"}
  /\ Fault
  /\ sse' = [sse EXCEPT ![c] = Away]
  /\ UNCHANGED <<rowVars, upd, stream, cursor, sock, seen, heard, epoch>>

(***************************************************************************)
(* A query of assertCanRead fails: the answer is 500, and an EventSource   *)
(* does not connect again after an answer that is not 200.                 *)
(***************************************************************************)
CheckFails(c) ==
  /\ sse[c].pc = "checking"
  /\ Fault
  /\ sse' = [sse EXCEPT ![c] = [pc |-> "refused", wire |-> <<>>]]
  /\ UNCHANGED <<rowVars, upd, stream, cursor, sock, seen, heard, epoch>>

-----------------------------------------------------------------------------
(* The join message: assertCanRead is awaited, then the room is joined. *)
Join(s) ==
  /\ sock[s].pc = "idle"
  /\ \E o \in Orders :
       sock' = [sock EXCEPT ![s] =
                  [pc |-> "checking", order |-> o, rooms |-> sock[s].rooms]]
  /\ UNCHANGED <<rowVars, upd, stream, sse, cursor, seen, heard, epoch, faults>>

JoinRoom(s) ==
  LET o == sock[s].order
  IN  /\ sock[s].pc = "checking"
      /\ sock' = [sock EXCEPT ![s] =
           [pc |-> "idle", order |-> NoOne,
            rooms |-> IF Authorized(SocketUser[s], o)
                      THEN sock[s].rooms \cup {o} ELSE sock[s].rooms]]
      /\ UNCHANGED <<rowVars, upd, stream, sse, cursor, seen, heard, epoch,
                     faults>>

(* A socket that is lost leaves its rooms; it has to join again. *)
SocketLost(s) ==
  /\ sock[s] # Unjoined
  /\ Fault
  /\ sock' = [sock EXCEPT ![s] = Unjoined]
  /\ UNCHANGED <<rowVars, upd, stream, sse, cursor, seen, heard, epoch>>

(***************************************************************************)
(* The process dies and a new one starts: buffers, ids, connections and    *)
(* running calls are gone.  The transactions at COMMIT may have committed. *)
(***************************************************************************)
Active(u) == upd[u].pc \in {"load", "update", "commit", "publish"}

Restart ==
  /\ Fault
  /\ \E S \in SUBSET {u \in Updates : upd[u].pc = "commit"} :
       status' = StatusAfter(S)
  /\ lock' = [o \in Orders |-> NoOne]
  /\ upd' = [u \in Updates |->
       IF Active(u) THEN [pc |-> "done", in |-> upd[u].in] ELSE upd[u]]
  /\ stream' = [o \in Orders |-> NewStream]
  /\ sse' = [c \in Clients |->
       IF sse[c].pc = "refused" THEN sse[c] ELSE Away]
  /\ sock' = [s \in Sockets |-> Unjoined]
  /\ epoch' = epoch + 1
  /\ raced' = {}
  /\ UNCHANGED <<cursor, seen, heard>>

-----------------------------------------------------------------------------
UpdateStep(u) ==
  LoadOrder(u) \/ UpdateRow(u) \/ CommitStatus(u) \/ PublishStatus(u)

ClientStep(c) == Connect(c) \/ StreamEvents(c) \/ Receive(c)

ClientFault(c) == Disconnect(c) \/ CheckFails(c)

(* Every update is over and every stream read: the server may rest. *)
AllQuiet ==
  /\ \A u \in Updates : upd[u].pc = "done"
  /\ \A c \in Clients : sse[c].pc \in {"open", "refused"} /\ sse[c].wire = <<>>
  /\ UNCHANGED vars

Next ==
  \/ \E u \in Updates : UpdateStatus(u) \/ UpdateStep(u) \/ UpdateFails(u)
  \/ \E c \in Clients : ClientStep(c) \/ ClientFault(c)
  \/ \E s \in Sockets : Join(s) \/ JoinRoom(s) \/ SocketLost(s)
  \/ Restart
  \/ AllQuiet

Spec == Init /\ [][Next]_vars

(***************************************************************************)
(* The event loop and the database go on with calls that started, frames   *)
(* arrive, and an EventSource whose connection is lost connects again.     *)
(***************************************************************************)
FairSpec ==
  /\ Spec
  /\ \A u \in Updates : WF_vars(UpdateStep(u))
  /\ \A c \in Clients : WF_vars(ClientStep(c))

-----------------------------------------------------------------------------
EventType == [id: Nat \ {0}, order: Orders, status: Allowed]
UpdateType == [pc: {"idle"}, in: {NoOne}]
              \cup [pc: {"load", "update", "commit", "publish", "done"},
                    in: UNION {Patches[u] : u \in Updates}]

(* Every table, buffer and connection has its type, and no replay buffer   *)
(* is longer than BUFFER_LIMIT.                                            *)
TypeOK ==
  /\ status \in [Orders -> Allowed]
  /\ lock \in [Orders -> Updates \cup {NoOne}]
  /\ upd \in [Updates -> UpdateType]
  /\ stream \in [Orders -> [nextId: Nat \ {0}, buffer: Seq(EventType)]]
  /\ \A o \in Orders : Len(stream[o].buffer) <= BufferLimit
  /\ sse \in [Clients -> [pc: {"away", "checking", "open", "refused"},
                          wire: Seq(EventType)]]
  /\ cursor \in [Clients -> Nat \cup {Absent, Other}]
  /\ sock \in [Sockets -> [pc: {"idle", "checking"},
                           order: Orders \cup {NoOne}, rooms: SUBSET Orders]]
  /\ seen \in [Clients -> Seq([life: Nat, event: EventType])]
  /\ heard \in [Sockets -> SUBSET Orders]
  /\ epoch \in 0..MaxFaults /\ raced \subseteq Orders
  /\ faults \in 0..MaxFaults

(* The event with that id was published in this life and is not buffered. *)
Evicted(o, id) ==
  /\ id < stream[o].nextId
  /\ \A n \in DOMAIN stream[o].buffer : stream[o].buffer[n].id # id

(***************************************************************************)
(* What a client reads, over all its connections: within one life of the   *)
(* process no event comes twice or out of order, and an event is skipped   *)
(* only if the buffer had already dropped the one before the next it gets. *)
(* After a restart nothing is skipped beyond the client's old cursor.      *)
(* There must be no gap and no overlap between replayAfter and changes$.   *)
(***************************************************************************)
NoGapNoRepeat ==
  \A c \in Clients : \A n \in 1..(Len(seen[c]) - 1) :
    LET a == seen[c][n]
        b == seen[c][n + 1]
    IN  /\ a.life = b.life => a.event.id < b.event.id
        /\ b.life = epoch /\ b.event.id > a.event.id + 1
             => Evicted(Watch[c].order, b.event.id - 1)

(***************************************************************************)
(* The bus agrees with the table: when nothing of an order is committed    *)
(* and unpublished, the newest event shows the status of the row, unless   *)
(* the last commit came between the commit and the publish of another      *)
(* update, or its call failed at COMMIT.                                   *)
(***************************************************************************)
BusFollowsTable ==
  \A o \in Orders \ raced :
    Unpublished(o) = {} /\ stream[o].buffer # <<>>
      => stream[o].buffer[Len(stream[o].buffer)].status = status[o]

(***************************************************************************)
(* Room and stream isolation: a client or a socket is only ever sent       *)
(* events of orders its user may read, a client those of its order.        *)
(***************************************************************************)
OnlyReadersSee ==
  /\ \A c \in Clients : \A n \in DOMAIN sse[c].wire :
       /\ sse[c].wire[n].order = Watch[c].order
       /\ Authorized(Watch[c].user, Watch[c].order)
  /\ \A s \in Sockets : \A o \in heard[s] : Authorized(SocketUser[s], o)

(* The id of the last frame client c has read *)
LastRead(c) == IF seen[c] = <<>> THEN 0 ELSE seen[c][Len(seen[c])].event.id

(***************************************************************************)
(* A client that asked for the events from the start, or from its last id, *)
(* reads the newest event in the end, however often its connection was     *)
(* lost, if the process was not restarted and no check of the client       *)
(* failed: a 500 ends an EventSource.                                      *)
(***************************************************************************)
CaughtUp ==
  \A c \in Clients : Authorized(Watch[c].user, Watch[c].order) =>
    <>[](\/ epoch > 0 \/ cursor[c] = Other \/ sse[c].pc = "refused"
         \/ LastRead(c) = stream[Watch[c].order].nextId - 1)
=============================================================================
