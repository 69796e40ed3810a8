-------------------------- MODULE OrderEventsProofs --------------------------
(***************************************************************************)
(* Proofs of the safety properties of OrderEvents, for any number of       *)
(* orders, updates, clients and sockets, any BUFFER_LIMIT and any number   *)
(* of lost connections and restarts.                                       *)
(***************************************************************************)
EXTENDS OrderEvents, SumTheorems

-----------------------------------------------------------------------------
(* The events of the first n of a buffer that come after the k-th *)
Suffix(b, k, n) == [m \in 1..(IF n > k THEN n - k ELSE 0) |-> b[k + m]]

(* A suffix of a buffer is a sequence of its events. *)
LEMMA SuffixType ==
  ASSUME NEW T, NEW b \in Seq(T), NEW k \in Nat, NEW n \in 0..Len(b)
  PROVE  /\ Suffix(b, k, n) \in Seq(T)
         /\ Len(Suffix(b, k, n)) = IF n > k THEN n - k ELSE 0
<1> DEFINE M == IF n > k THEN n - k ELSE 0
<1>1. M \in Nat /\ \A m \in 1..M : b[k + m] \in T
  OBVIOUS
<1> HIDE DEF M
<1>2. [m \in 1..M |-> b[k + m]] \in Seq(T)
      /\ Len([m \in 1..M |-> b[k + m]]) = M
  BY <1>1
<1>3. Suffix(b, k, n) = [m \in 1..M |-> b[k + m]]
  BY DEF Suffix, M
<1>4. QED  BY <1>2, <1>3 DEF M

(* One more event makes the suffix one longer, once n is beyond k. *)
LEMMA SuffixStep ==
  ASSUME NEW T, NEW b \in Seq(T), NEW k \in Nat, NEW n \in 1..Len(b)
  PROVE  Suffix(b, k, n) = IF n > k THEN Append(Suffix(b, k, n - 1), b[n])
                           ELSE Suffix(b, k, n - 1)
<1>1. CASE n > k
  <2> DEFINE s == Suffix(b, k, n - 1)
  <2>1. s \in Seq(T) /\ Len(s) = n - 1 - k
    <3>1. n - 1 \in 0..Len(b)
      OBVIOUS
    <3>2. /\ s \in Seq(T)
          /\ Len(s) = IF n - 1 > k THEN n - 1 - k ELSE 0
      BY <3>1, SuffixType
    <3> HIDE DEF s
    <3>3. QED  BY <1>1, <3>2
  <2>2. DOMAIN s = 1..(n - 1 - k) /\ \A m \in 1..(n - 1 - k) : s[m] = b[k + m]
    BY <1>1 DEF Suffix
  <2> HIDE DEF s
  <2>3. /\ DOMAIN Append(s, b[n]) = 1..(n - k)
        /\ \A m \in 1..(n - 1 - k) : Append(s, b[n])[m] = b[k + m]
        /\ Append(s, b[n])[n - k] = b[n]
    BY <1>1, <2>1, <2>2
  <2>4. ASSUME NEW m \in 1..(n - k) PROVE Append(s, b[n])[m] = b[k + m]
    <3>1. CASE m = n - k
      <4>1. k + m = n
        BY <1>1, <3>1
      <4>2. QED  BY <2>3, <3>1, <4>1
    <3>2. CASE m # n - k
      BY <1>1, <2>3, <3>2
    <3>3. QED  BY <3>1, <3>2
  <2>5. Append(s, b[n]) = [m \in 1..(n - k) |-> b[k + m]]
    BY <1>1, <2>1, <2>3, <2>4
  <2>6. QED  BY <1>1, <2>5 DEF Suffix, s
<1>2. CASE ~(n > k)
  BY <1>2 DEF Suffix
<1>3. QED  BY <1>1, <1>2

(* replayAfter of a buffer whose ids only become larger is its end. *)
LEMMA EventsAfterIsSuffix ==
  ASSUME NEW T, NEW b \in Seq(T), NEW last, NEW k \in Nat,
         \A n \in 1..Len(b) : b[n].id > last <=> n > k
  PROVE  EventsAfter(b, last) = Suffix(b, k, Len(b))
<1> DEFINE N == Len(b)
           body(f, n) == IF n = 0 THEN <<>>
                         ELSE IF b[n].id > last THEN Append(f[n - 1], b[n])
                         ELSE f[n - 1]
           kept == CHOOSE f : f = [n \in 0..N |-> body(f, n)]
           g == [n \in 0..N |-> Suffix(b, k, n)]
<1>1. N \in Nat
  OBVIOUS
<1>2. EventsAfter(b, last) = kept[N]
  BY DEF EventsAfter
<1>3. Suffix(b, k, 0) = <<>>
  BY SuffixType
<1>4. \A n \in 0..N : g[n] = body(g, n)
  <2>1. g[0] = <<>>
    BY <1>1, <1>3
  <2>2. ASSUME NEW n \in 1..N
        PROVE  g[n] = IF n > k THEN Append(g[n - 1], b[n]) ELSE g[n - 1]
    <3>1. g[n] = Suffix(b, k, n) /\ g[n - 1] = Suffix(b, k, n - 1)
      BY <1>1
    <3>2. Suffix(b, k, n) = IF n > k THEN Append(Suffix(b, k, n - 1), b[n])
                            ELSE Suffix(b, k, n - 1)
      BY SuffixStep
    <3> HIDE DEF g
    <3>3. QED  BY <3>1, <3>2
  <2> HIDE DEF g
  <2>3. QED  BY <1>1, <2>1, <2>2
<1>5. g = [n \in 0..N |-> body(g, n)]
  BY <1>4
<1> HIDE DEF g
<1>6. kept = [n \in 0..N |-> body(kept, n)]
  BY <1>5
<1> HIDE DEF kept
<1>7. \A n \in 0..N : kept[n] = body(kept, n)
  BY <1>6
<1> DEFINE bad == {n \in 0..N : kept[n] # g[n]}
<1>8. ASSUME bad # {} PROVE FALSE
  <2>1. bad \subseteq Nat
    BY <1>1
  <2> HIDE DEF bad
  <2>2. PICK n \in bad : \A m \in bad : n <= m
    BY <1>8, <2>1, LeastNatural
  <2>3. n \in 0..N /\ kept[n] # g[n]
    BY <2>2 DEF bad
  <2>4. n # 0
    BY <1>1, <1>4, <1>7, <2>3
  <2>5. n - 1 \in 0..N /\ n - 1 \notin bad
    BY <1>1, <2>2, <2>3, <2>4
  <2>6. kept[n - 1] = g[n - 1]
    BY <2>5 DEF bad
  <2>7. QED  BY <1>4, <1>7, <2>3, <2>4, <2>6
<1>9. kept[N] = g[N]
  BY <1>1, <1>8
<1>10. QED  BY <1>1, <1>2, <1>9 DEF g

-----------------------------------------------------------------------------
(***************************************************************************)
(* Where an update is says what is known of it: past the first check its   *)
(* status is allowed, past loadAuthorizedOrder its order exists, and it    *)
(* owns the row of its order exactly while it is before COMMIT.            *)
(***************************************************************************)
UpdatesOK ==
  /\ \A u \in Updates :
       /\ upd[u].pc \in {"load", "update", "commit", "publish"} =>
            upd[u].in.status \in Allowed
       /\ upd[u].pc \in {"update", "commit", "publish"} =>
            upd[u].in.order \in Orders
       /\ upd[u].pc = "commit" => lock[upd[u].in.order] = u
  /\ \A o \in Orders : lock[o] # NoOne =>
       upd[lock[o]].pc = "commit" /\ upd[lock[o]].in.order = o

(* The buffer of an order holds its newest events, numbered in a row. *)
StreamsOK ==
  \A o \in Orders :
    /\ Len(stream[o].buffer) < stream[o].nextId
    /\ \A n \in 1..Len(stream[o].buffer) :
         /\ stream[o].buffer[n].id =
              stream[o].nextId - 1 - Len(stream[o].buffer) + n
         /\ stream[o].buffer[n].order = o

(* The id of the first event client c has not read: what is on the wire of *)
(* an open stream ends with the newest event.                              *)
FirstUnread(c) == stream[Watch[c].order].nextId - Len(sse[c].wire)

WiresOK ==
  \A c \in Clients :
    /\ sse[c].pc # "open" => sse[c].wire = <<>>
    /\ sse[c].pc = "open" =>
         /\ Authorized(Watch[c].user, Watch[c].order)
         /\ Len(sse[c].wire) < stream[Watch[c].order].nextId
         /\ \A n \in 1..Len(sse[c].wire) :
              /\ sse[c].wire[n].id = FirstUnread(c) - 1 + n
              /\ sse[c].wire[n].order = Watch[c].order

LastSeen(c) == seen[c][Len(seen[c])]

(* The cursor is the last frame's id, and an open stream goes on with the  *)
(* event after it, or with the oldest the buffer still had.                *)
SeenOK ==
  \A c \in Clients :
    /\ \A n \in 1..Len(seen[c]) : seen[c][n].life <= epoch
    /\ seen[c] # <<>> =>
         /\ cursor[c] = LastSeen(c).event.id
         /\ LastSeen(c).life = epoch =>
              LastSeen(c).event.id < stream[Watch[c].order].nextId
         /\ sse[c].pc = "open" =>
              /\ LastSeen(c).life = epoch =>
                   LastSeen(c).event.id < FirstUnread(c)
              /\ FirstUnread(c) > LastSeen(c).event.id + 1 =>
                   Evicted(Watch[c].order, FirstUnread(c) - 1)

(* A socket is in rooms its user may read. *)
RoomsOK ==
  \A s \in Sockets :
    /\ \A o \in sock[s].rooms \cup heard[s] : Authorized(SocketUser[s], o)
    /\ sock[s].pc = "checking" => sock[s].order \in Orders

(* Unless two commits met, at most one update of an order is committed and *)
(* not published, and the row has its status.                              *)
BusOK ==
  \A o \in Orders \ raced : \A u \in Unpublished(o) :
    Unpublished(o) = {u} /\ status[o] = upd[u].in.status

TypeInv == TypeOK /\ UpdatesOK /\ StreamsOK /\ epoch <= faults
WatchInv == TypeInv /\ WiresOK /\ RoomsOK
ReadInv == WatchInv /\ SeenOK /\ NoGapNoRepeat
BusInv == TypeInv /\ BusOK /\ BusFollowsTable

-----------------------------------------------------------------------------
(* TypeInv holds at the start. *)
LEMMA InitTypes == Init => TypeInv
<1> SUFFICES ASSUME Init PROVE TypeInv
  OBVIOUS
<1> USE EventsAssumption DEF Init
<1>1. /\ NewStream \in [nextId: Nat \ {0}, buffer: Seq(EventType)]
      /\ Len(NewStream.buffer) = 0 /\ NewStream.nextId = 1
  BY DEF NewStream
<1>2. stream \in [Orders -> [nextId: Nat \ {0}, buffer: Seq(EventType)]]
      /\ \A o \in Orders : Len(stream[o].buffer) <= BufferLimit
  BY <1>1
<1>3. sse \in [Clients -> [pc: {"away", "checking", "open", "refused"},
                           wire: Seq(EventType)]]
  BY DEF Away
<1>4. upd \in [Updates -> UpdateType]
  BY DEF UpdateType
<1>5. sock \in [Sockets -> [pc: {"idle", "checking"},
                            order: Orders \cup {NoOne}, rooms: SUBSET Orders]]
  BY DEF Unjoined
<1>6. seen \in [Clients -> Seq([life: Nat, event: EventType])]
  OBVIOUS
<1>7. TypeOK
  BY <1>2, <1>3, <1>4, <1>5, <1>6 DEF TypeOK
<1>8. UpdatesOK /\ StreamsOK /\ epoch <= faults
  BY <1>1 DEF UpdatesOK, StreamsOK
<1>9. QED  BY <1>7, <1>8 DEF TypeInv

(* push and splice: the newest events, one more or as many as before. *)
LEMMA BufferedFacts ==
  ASSUME NEW b \in Seq(EventType), Len(b) <= BufferLimit, NEW e \in EventType
  PROVE  LET d == Buffered(b, e)
         IN  /\ d \in Seq(EventType)
             /\ Len(d) <= BufferLimit /\ Len(d) \in 1..(Len(b) + 1)
             /\ d[Len(d)] = e
             /\ \A n \in 1..(Len(d) - 1) : d[n] = b[n + Len(b) + 1 - Len(d)]
<1> DEFINE longer == Append(b, e)
<1>1. /\ longer \in Seq(EventType) /\ Len(longer) = Len(b) + 1
      /\ longer[Len(b) + 1] = e /\ \A n \in 1..Len(b) : longer[n] = b[n]
  OBVIOUS
<1> HIDE DEF longer
<1>2. CASE Len(longer) > BufferLimit
  <2>1. Buffered(b, e) = Tail(longer)
    BY <1>2 DEF Buffered, longer
  <2>2. /\ Tail(longer) \in Seq(EventType) /\ Len(Tail(longer)) = Len(b)
        /\ \A n \in 1..Len(b) : Tail(longer)[n] = longer[n + 1]
    BY <1>1
  <2>3. Len(b) >= 1
    BY <1>1, <1>2, EventsAssumption
  <2>4. QED  BY <1>1, <2>1, <2>2, <2>3
<1>3. CASE ~(Len(longer) > BufferLimit)
  <2>1. Buffered(b, e) = longer
    BY <1>3 DEF Buffered, longer
  <2>2. QED  BY <1>1, <1>3, <2>1, EventsAssumption
<1>4. QED  BY <1>2, <1>3

(* What publish does to the streams, and that it keeps their numbering. *)
LEMMA PublishStreams ==
  ASSUME TypeInv, NEW o \in Orders, NEW s \in Allowed, Publish(o, s)
  PROVE  /\ stream' \in [Orders -> [nextId: Nat \ {0}, buffer: Seq(EventType)]]
         /\ \A q \in Orders : Len(stream'[q].buffer) <= BufferLimit
         /\ StreamsOK'
         /\ stream'[o].nextId = stream[o].nextId + 1
         /\ stream'[o].buffer # <<>>
         /\ stream'[o].buffer[Len(stream'[o].buffer)].status = s
         /\ \A q \in Orders \ {o} : stream'[q] = stream[q]
         /\ \A q \in Orders, id \in Int : Evicted(q, id) => Evicted(q, id)'
<1> DEFINE e == [id |-> stream[o].nextId, order |-> o, status |-> s]
           b == stream[o].buffer
           d == Buffered(b, e)
           N == stream[o].nextId
<1>1. /\ stream \in [Orders -> [nextId: Nat \ {0}, buffer: Seq(EventType)]]
      /\ b \in Seq(EventType) /\ Len(b) <= BufferLimit /\ N \in Nat \ {0}
      /\ Len(b) < N
      /\ \A n \in 1..Len(b) : b[n].id = N - 1 - Len(b) + n /\ b[n].order = o
  BY DEF TypeInv, TypeOK, StreamsOK
<1>2. e \in EventType
  BY <1>1 DEF EventType
<1>3. stream' = [stream EXCEPT ![o] = [nextId |-> N + 1, buffer |-> d]]
  BY DEF Publish
<1>4. /\ stream'[o].nextId = N + 1 /\ stream'[o].buffer = d
      /\ \A q \in Orders \ {o} : stream'[q] = stream[q]
  BY <1>1, <1>3
<1>5. e.id = N /\ e.order = o /\ e.status = s
  OBVIOUS
<1> HIDE DEF e, N, b
<1>6. /\ d \in Seq(EventType) /\ Len(d) <= BufferLimit
      /\ Len(d) \in 1..(Len(b) + 1) /\ d[Len(d)] = e
      /\ \A n \in 1..(Len(d) - 1) : d[n] = b[n + Len(b) + 1 - Len(d)]
  BY <1>1, <1>2, BufferedFacts
<1> HIDE DEF d
<1>7. stream' \in [Orders -> [nextId: Nat \ {0}, buffer: Seq(EventType)]]
  BY <1>1, <1>3, <1>6
<1>8. \A q \in Orders : Len(stream'[q].buffer) <= BufferLimit
  BY <1>4, <1>6 DEF TypeInv, TypeOK
<1>9. \A n \in 1..Len(d) : d[n].id = N - Len(d) + n /\ d[n].order = o
  <2> SUFFICES ASSUME NEW n \in 1..Len(d)
               PROVE  d[n].id = N - Len(d) + n /\ d[n].order = o
    OBVIOUS
  <2>1. CASE n = Len(d)
    BY <1>1, <1>5, <1>6, <2>1
  <2>2. CASE n # Len(d)
    <3>1. /\ n \in 1..(Len(d) - 1)
          /\ n + Len(b) + 1 - Len(d) \in 1..Len(b)
      BY <1>1, <1>6, <2>2
    <3>2. PICK m \in 1..Len(b) : m = n + Len(b) + 1 - Len(d) /\ d[n] = b[m]
      BY <1>6, <3>1
    <3>3. b[m].id = N - 1 - Len(b) + m /\ b[m].order = o
      BY <1>1
    <3>4. Len(b) \in Nat /\ Len(d) \in Nat /\ N \in Nat
      BY <1>1, <1>6
    <3>5. N - 1 - Len(b) + m = N - Len(d) + n
      BY <3>2, <3>4
    <3>6. QED  BY <3>2, <3>3, <3>5
  <2>3. QED  BY <2>1, <2>2
<1>10. StreamsOK'
  <2>1. ASSUME NEW q \in Orders
        PROVE  /\ Len(stream'[q].buffer) < stream'[q].nextId
               /\ \A n \in 1..Len(stream'[q].buffer) :
                    /\ stream'[q].buffer[n].id =
                         stream'[q].nextId - 1 - Len(stream'[q].buffer) + n
                    /\ stream'[q].buffer[n].order = q
    <3>1. CASE q = o
      <4>1. Len(d) < N + 1
        BY <1>1, <1>6
      <4>2. N \in Nat /\ Len(d) \in Nat
        BY <1>1, <1>6
      <4>3. \A n \in 1..Len(d) : d[n].id = N + 1 - 1 - Len(d) + n
        BY <1>9, <4>2
      <4>4. \A n \in 1..Len(d) : d[n].order = o
        BY <1>9
      <4>5. stream'[q].buffer = d /\ stream'[q].nextId = N + 1
        BY <1>4, <3>1
      <4>6. QED  BY <3>1, <4>1, <4>2, <4>3, <4>4, <4>5
    <3>2. CASE q # o
      BY <1>4, <3>2 DEF TypeInv, StreamsOK
    <3>3. QED  BY <3>1, <3>2
  <2>2. QED  BY <2>1 DEF StreamsOK
<1>11. ASSUME NEW q \in Orders, NEW id \in Int, Evicted(q, id)
       PROVE  Evicted(q, id)'
  <2>1. CASE q = o
    <3>1. /\ id < N
          /\ \A n \in 1..Len(b) : b[n].id # id
      BY <1>1, <1>11, <2>1 DEF Evicted, b, N
    <3>2. \A n \in 1..Len(d) : d[n].id # id
      <4> SUFFICES ASSUME NEW n \in 1..Len(d) PROVE d[n].id # id
        OBVIOUS
      <4>1. CASE n = Len(d)
        BY <1>1, <1>5, <1>6, <3>1, <4>1
      <4>2. CASE n # Len(d)
        <5>1. /\ n \in 1..(Len(d) - 1)
              /\ n + Len(b) + 1 - Len(d) \in 1..Len(b)
          BY <1>1, <1>6, <4>2
        <5>2. QED  BY <1>6, <3>1, <5>1
      <4>3. QED  BY <4>1, <4>2
    <3>3. DOMAIN d = 1..Len(d)
      BY <1>6
    <3>4. QED  BY <1>1, <1>4, <2>1, <3>1, <3>2, <3>3 DEF Evicted
  <2>2. CASE q # o
    BY <1>4, <1>11, <2>2 DEF Evicted
  <2>3. QED  BY <2>1, <2>2
<1>12. stream'[o].buffer # <<>>
       /\ stream'[o].buffer[Len(stream'[o].buffer)].status = s
  BY <1>4, <1>5, <1>6
<1>13. QED  BY <1>4, <1>7, <1>8, <1>10, <1>11, <1>12 DEF N

(* What a client that connects with Last-Event-ID last is sent first: the  *)
(* newest events, from the one after last or from the oldest in the buffer. *)
LEMMA ReplayFacts ==
  ASSUME TypeInv, NEW o \in Orders, NEW last \in Nat
  PROVE  LET w == ReplayAfter(o, last)
             N == stream[o].nextId
         IN  /\ w \in Seq(EventType) /\ Len(w) < N
             /\ \A n \in 1..Len(w) : /\ w[n].id = N - Len(w) - 1 + n
                                     /\ w[n].order = o
             /\ last < N => last < N - Len(w)
             /\ N - Len(w) > last + 1 => Evicted(o, N - Len(w) - 1)
<1> DEFINE b == stream[o].buffer
           N == stream[o].nextId
           L == Len(b)
           base == N - 1 - L
           k == IF last > base THEN last - base ELSE 0
           w == Suffix(b, k, L)
           M == IF L > k THEN L - k ELSE 0
<1>1. /\ b \in Seq(EventType) /\ N \in Nat /\ L \in Nat /\ L < N
      /\ \A n \in 1..L : b[n].id = base + n /\ b[n].order = o
      /\ DOMAIN b = 1..L
  <2>1. stream[o] \in [nextId: Nat \ {0}, buffer: Seq(EventType)]
    BY DEF TypeInv, TypeOK
  <2>2. b \in Seq(EventType) /\ N \in Nat
    BY <2>1
  <2>3. L < N /\ \A n \in 1..L : b[n].id = base + n /\ b[n].order = o
    BY DEF TypeInv, StreamsOK
  <2>4. L \in Nat /\ DOMAIN b = 1..L
    <3> HIDE DEF b
    <3>1. QED  BY <2>2
  <2>5. QED  BY <2>2, <2>3, <2>4
<1>2. stream[o].buffer = b /\ stream[o].nextId = N
  OBVIOUS
<1> HIDE DEF b, N
<1>3. base \in Nat /\ k \in Nat /\ M \in Nat /\ M <= L
  BY <1>1
<1>4. \A n \in 1..L : b[n].id > last <=> n > k
  BY <1>1
<1> HIDE DEF k
<1>5. ReplayAfter(o, last) = w
  BY <1>1, <1>2, <1>3, <1>4, EventsAfterIsSuffix DEF ReplayAfter
<1>6. w \in Seq(EventType) /\ Len(w) = M
  <2>1. L \in 0..Len(b)
    BY <1>1
  <2>2. QED  BY <1>1, <1>3, <2>1, SuffixType
<1>7. \A n \in 1..M : w[n] = b[k + n] /\ k + n \in 1..L /\ M = L - k
  <2>1. w = [n \in 1..M |-> b[k + n]]
    BY DEF Suffix
  <2>2. M # 0 => M = L - k
    OBVIOUS
  <2> HIDE DEF w, M, L
  <2>3. QED  BY <1>1, <1>3, <2>1, <2>2
<1>8. ASSUME NEW n \in 1..M
      PROVE  w[n].id = N - M - 1 + n /\ w[n].order = o
  <2>1. w[n] = b[k + n] /\ k + n \in 1..L /\ M = L - k
    BY <1>7
  <2>2. b[k + n].id = base + (k + n) /\ b[k + n].order = o
    BY <1>1, <2>1
  <2>3. base + (k + n) = N - M - 1 + n
    <3> HIDE DEF M, L
    <3>1. QED  BY <1>1, <1>3, <2>1
  <2>4. QED  BY <2>1, <2>2, <2>3
<1>9. last < N => last < N - M
  BY <1>1, <1>3 DEF k
<1>10. ASSUME N - M > last + 1 PROVE Evicted(o, N - M - 1)
  <2>1. N - M - 1 <= base
    BY <1>1, <1>3, <1>10 DEF k
  <2>2. \A n \in 1..L : b[n].id # N - M - 1
    BY <1>1, <1>3, <2>1
  <2>3. N - M - 1 < N
    BY <1>1, <1>3
  <2>4. QED  BY <1>1, <1>2, <2>2, <2>3 DEF Evicted
<1> HIDE DEF M
<1>11. QED
  BY <1>1, <1>2, <1>3, <1>5, <1>6, <1>8, <1>9, <1>10

(* publish hands the event to the open streams of its order. *)
LEMMA PublishWires ==
  ASSUME TypeInv, NEW o \in Orders, NEW s \in Allowed, Publish(o, s)
  PROVE  LET e == [id |-> stream[o].nextId, order |-> o, status |-> s]
         IN  /\ e \in EventType
             /\ sse' \in [Clients -> [pc: {"away", "checking", "open", "refused"},
                                      wire: Seq(EventType)]]
             /\ \A c \in Clients :
                  /\ sse'[c].pc = sse[c].pc
                  /\ sse'[c].wire = IF sse[c].pc = "open" /\ Watch[c].order = o
                                    THEN Append(sse[c].wire, e)
                                    ELSE sse[c].wire
             /\ heard' \in [Sockets -> SUBSET Orders]
             /\ \A w \in Sockets : \A q \in heard'[w] :
                  q \in heard[w] \/ q \in sock[w].rooms
<1> DEFINE e == [id |-> stream[o].nextId, order |-> o, status |-> s]
<1>1. e \in EventType /\ e.order = o
  BY DEF EventType, TypeInv, TypeOK
<1>2. sse' = [c \in Clients |->
               IF sse[c].pc = "open" /\ Watch[c].order = o
               THEN [pc |-> "open", wire |-> Append(sse[c].wire, e)]
               ELSE sse[c]]
  BY DEF Publish, Subscribed
<1>3. heard' = [w \in Sockets |->
                 IF o \in sock[w].rooms THEN heard[w] \cup {o} ELSE heard[w]]
  BY DEF Publish
<1> HIDE DEF e
<1>4. \A c \in Clients : sse[c].wire \in Seq(EventType)
                         /\ Append(sse[c].wire, e) \in Seq(EventType)
  BY <1>1 DEF TypeInv, TypeOK
<1>5. sse' \in [Clients -> [pc: {"away", "checking", "open", "refused"},
                            wire: Seq(EventType)]]
  BY <1>2, <1>4 DEF TypeInv, TypeOK
<1>6. \A c \in Clients :
        /\ sse'[c].pc = sse[c].pc
        /\ sse'[c].wire = IF sse[c].pc = "open" /\ Watch[c].order = o
                          THEN Append(sse[c].wire, e) ELSE sse[c].wire
  BY <1>2
<1>7. heard' \in [Sockets -> SUBSET Orders]
  BY <1>3 DEF TypeInv, TypeOK
<1>8. QED  BY <1>1, <1>3, <1>5, <1>6, <1>7 DEF e

-----------------------------------------------------------------------------
(* The steps of one update leave the other updates alone. *)
LEMMA GoToKeeps ==
  ASSUME TypeOK, NEW u \in Updates, NEW p, GoTo(u, p)
  PROVE  /\ upd'[u].pc = p /\ upd'[u].in = upd[u].in
         /\ \A v \in Updates \ {u} : upd'[v] = upd[v]
         /\ upd[u].pc # "idle" /\ p \in {"update", "commit", "publish", "done"}
              => upd' \in [Updates -> UpdateType]
<1>1. upd[u] \in UpdateType
  BY DEF TypeOK
<1>2. upd[u] = [pc |-> upd[u].pc, in |-> upd[u].in]
  BY <1>1 DEF UpdateType
<1>3. upd' = [upd EXCEPT ![u] = [pc |-> p, in |-> upd[u].in]]
  <2>1. \A a, b : [[pc |-> a, in |-> b] EXCEPT !.pc = p] = [pc |-> p, in |-> b]
    OBVIOUS
  <2>2. [upd[u] EXCEPT !.pc = p] = [pc |-> p, in |-> upd[u].in]
    BY <1>2, <2>1, Zenon
  <2>3. upd' = [upd EXCEPT ![u] = [upd[u] EXCEPT !.pc = p]]
    BY DEF GoTo
  <2>4. QED  BY <2>2, <2>3, Zenon
<1>4. upd[u].pc # "idle" => upd[u].in \in UNION {Patches[v] : v \in Updates}
  BY <1>1 DEF UpdateType
<1>5. upd[u].pc # "idle" /\ p \in {"update", "commit", "publish", "done"}
        => [pc |-> p, in |-> upd[u].in] \in UpdateType
  BY <1>4 DEF UpdateType
<1>6. QED  BY <1>3, <1>5 DEF TypeOK

(* An update that takes or gives up only its own row keeps UpdatesOK. *)
LEMMA UpdatesKept ==
  ASSUME TypeOK, UpdatesOK, NEW u \in Updates,
         \A v \in Updates \ {u} : upd'[v] = upd[v],
         upd'[u].pc \in {"load", "update", "commit", "publish"} =>
           upd'[u].in.status \in Allowed,
         upd'[u].pc \in {"update", "commit", "publish"} =>
           upd'[u].in.order \in Orders,
         upd'[u].pc = "commit" => lock'[upd'[u].in.order] = u,
         \A o \in Orders : lock'[o] = u =>
           upd'[u].pc = "commit" /\ upd'[u].in.order = o,
         \A o \in Orders : \/ lock'[o] = lock[o]
                           \/ lock[o] = NoOne /\ lock'[o] = u
                           \/ lock[o] = u /\ lock'[o] = NoOne
  PROVE  UpdatesOK'
<1> USE EventsAssumption
<1>1. ASSUME NEW v \in Updates \ {u}
      PROVE  /\ upd'[v].pc \in {"load", "update", "commit", "publish"} =>
                  upd'[v].in.status \in Allowed
             /\ upd'[v].pc \in {"update", "commit", "publish"} =>
                  upd'[v].in.order \in Orders
             /\ upd'[v].pc = "commit" => lock'[upd'[v].in.order] = v
  BY <1>1 DEF UpdatesOK
<1>2. ASSUME NEW o \in Orders, lock'[o] # NoOne
      PROVE  upd'[lock'[o]].pc = "commit" /\ upd'[lock'[o]].in.order = o
  <2>1. CASE lock'[o] = u
    BY <2>1
  <2>2. CASE lock'[o] # u
    <3>1. lock'[o] = lock[o]
      BY <1>2, <2>2
    <3>2. lock[o] \in Updates \ {u}
      BY <1>2, <2>2, <3>1 DEF TypeOK
    <3>3. QED  BY <1>2, <3>1, <3>2 DEF UpdatesOK
  <2>3. QED  BY <2>1, <2>2
<1>3. QED  BY <1>1, <1>2 DEF UpdatesOK

(* Every step of an update preserves TypeInv. *)
LEMMA UpdateTypes ==
  ASSUME TypeInv, NEW u \in Updates,
         UpdateStatus(u) \/ UpdateStep(u) \/ UpdateFails(u)
  PROVE  TypeInv'
<1> USE EventsAssumption DEF rowVars, watchVars
<1>1. TypeOK /\ UpdatesOK /\ StreamsOK /\ epoch <= faults
  BY DEF TypeInv
<1>2. CASE UpdateStatus(u)
  <2>1. /\ UNCHANGED <<status, lock, raced, stream, sse, cursor, sock, seen,
                       heard, epoch, faults>>
        /\ upd[u].pc = "idle"
    BY <1>2 DEF UpdateStatus
  <2>2. PICK in \in Patches[u] : upd' = [upd EXCEPT ![u] =
          [pc |-> IF in.status \in Allowed THEN "load" ELSE "done", in |-> in]]
    BY <1>2 DEF UpdateStatus
  <2>3. upd' \in [Updates -> UpdateType]
    <3>1. in \in UNION {Patches[v] : v \in Updates}
      OBVIOUS
    <3>2. [pc |-> IF in.status \in Allowed THEN "load" ELSE "done",
           in |-> in] \in UpdateType
      BY <3>1 DEF UpdateType
    <3>3. QED  BY <1>1, <2>2, <3>2 DEF TypeOK
  <2>4. TypeOK'
    BY <1>1, <2>1, <2>3 DEF TypeOK
  <2>5. UpdatesOK'
    BY <1>1, <2>1, <2>2 DEF UpdatesOK, TypeOK
  <2>6. StreamsOK'
    BY <1>1, <2>1 DEF StreamsOK
  <2>7. QED  BY <1>1, <2>1, <2>4, <2>5, <2>6 DEF TypeInv
<1>3. CASE LoadOrder(u)
  <2>1. /\ UNCHANGED <<status, lock, raced, stream, sse, cursor, sock, seen,
                       heard, epoch, faults>>
        /\ upd[u].pc = "load"
    BY <1>3 DEF LoadOrder
  <2>2. PICK p \in {"update", "done"} :
          /\ GoTo(u, p)
          /\ p = "update" => upd[u].in.order \in Orders
    BY <1>3 DEF LoadOrder, Authorized
  <2>3. /\ upd'[u].pc = p /\ upd'[u].in = upd[u].in
        /\ \A v \in Updates \ {u} : upd'[v] = upd[v]
        /\ upd' \in [Updates -> UpdateType]
    BY <1>1, <2>1, <2>2, GoToKeeps
  <2>4. TypeOK'
    BY <1>1, <2>1, <2>3 DEF TypeOK
  <2>5. UpdatesOK'
    <3>1. /\ upd[u].in.status \in Allowed
          /\ \A o \in Orders : lock[o] # u
      BY <1>1, <2>1 DEF UpdatesOK
    <3>2. QED  BY <1>1, <2>1, <2>2, <2>3, <3>1, UpdatesKept
  <2>6. StreamsOK'
    BY <1>1, <2>1 DEF StreamsOK
  <2>7. QED  BY <1>1, <2>1, <2>4, <2>5, <2>6 DEF TypeInv
<1>4. CASE UpdateRow(u)
  <2>1. /\ UNCHANGED <<status, raced, stream, sse, cursor, sock, seen,
                       heard, epoch, faults>>
        /\ upd[u].pc = "update" /\ lock[upd[u].in.order] = NoOne
        /\ lock' = [lock EXCEPT ![upd[u].in.order] = u]
        /\ GoTo(u, "commit") /\ upd[u].in.order \in Orders
    BY <1>1, <1>4 DEF UpdateRow, UpdatesOK
  <2>2. /\ upd'[u].pc = "commit" /\ upd'[u].in = upd[u].in
        /\ \A v \in Updates \ {u} : upd'[v] = upd[v]
        /\ upd' \in [Updates -> UpdateType]
    BY <1>1, <2>1, GoToKeeps
  <2>3. lock' \in [Orders -> Updates \cup {NoOne}]
    BY <1>1, <2>1 DEF TypeOK
  <2>4. TypeOK'
    BY <1>1, <2>1, <2>2, <2>3 DEF TypeOK
  <2>5. UpdatesOK'
    <3>1. /\ upd[u].in.status \in Allowed
          /\ \A o \in Orders :
               lock[o] = u => upd[u].pc = "commit" /\ upd[u].in.order = o
      BY <1>1, <2>1 DEF UpdatesOK
    <3>2. \A o \in Orders : lock'[o] = u =>
            upd'[u].pc = "commit" /\ upd'[u].in.order = o
      BY <1>1, <2>1, <2>2, <3>1 DEF TypeOK
    <3>3. \A o \in Orders : \/ lock'[o] = lock[o]
                            \/ lock[o] = NoOne /\ lock'[o] = u
                            \/ lock[o] = u /\ lock'[o] = NoOne
      BY <1>1, <2>1, <3>1 DEF TypeOK, UpdatesOK
    <3>4. upd'[u].pc = "commit" => lock'[upd'[u].in.order] = u
      BY <1>1, <2>1, <2>2 DEF TypeOK
    <3>5. QED  BY <1>1, <2>1, <2>2, <3>1, <3>2, <3>3, <3>4, UpdatesKept
  <2>6. StreamsOK'
    BY <1>1, <2>1 DEF StreamsOK
  <2>7. QED  BY <1>1, <2>1, <2>4, <2>5, <2>6 DEF TypeInv
<1>5. CASE CommitStatus(u)
  <2>1. /\ UNCHANGED <<stream, sse, cursor, sock, seen, heard, epoch, faults>>
        /\ upd[u].pc = "commit" /\ upd[u].in.order \in Orders
        /\ lock' = [lock EXCEPT ![upd[u].in.order] = NoOne]
        /\ status' = StatusAfter({u}) /\ GoTo(u, "publish")
        /\ raced' \subseteq raced \cup {upd[u].in.order}
    BY <1>1, <1>5 DEF CommitStatus, UpdatesOK
  <2>2. /\ upd'[u].pc = "publish" /\ upd'[u].in = upd[u].in
        /\ \A v \in Updates \ {u} : upd'[v] = upd[v]
        /\ upd' \in [Updates -> UpdateType]
    BY <1>1, <2>1, GoToKeeps
  <2>3. /\ lock' \in [Orders -> Updates \cup {NoOne}]
        /\ raced' \subseteq Orders
    BY <1>1, <2>1 DEF TypeOK
  <2>4. status' \in [Orders -> Allowed]
    BY <1>1, <2>1 DEF TypeOK, StatusAfter, UpdatesOK
  <2>5. TypeOK'
    BY <1>1, <2>1, <2>2, <2>3, <2>4 DEF TypeOK
  <2>6. UpdatesOK'
    <3>1. /\ upd[u].in.status \in Allowed
          /\ \A o \in Orders :
               lock[o] = u => upd[u].pc = "commit" /\ upd[u].in.order = o
      BY <1>1, <2>1 DEF UpdatesOK
    <3>2. \A o \in Orders : lock'[o] = u =>
            upd'[u].pc = "commit" /\ upd'[u].in.order = o
      BY <1>1, <2>1, <2>2, <3>1 DEF TypeOK
    <3>3. \A o \in Orders : \/ lock'[o] = lock[o]
                            \/ lock[o] = NoOne /\ lock'[o] = u
                            \/ lock[o] = u /\ lock'[o] = NoOne
      BY <1>1, <2>1, <3>1 DEF TypeOK, UpdatesOK
    <3>4. upd'[u].pc = "commit" => lock'[upd'[u].in.order] = u
      BY <1>1, <2>1, <2>2 DEF TypeOK
    <3>5. QED  BY <1>1, <2>1, <2>2, <3>1, <3>2, <3>3, <3>4, UpdatesKept
  <2>7. StreamsOK'
    BY <1>1, <2>1 DEF StreamsOK
  <2>8. QED  BY <1>1, <2>1, <2>5, <2>6, <2>7 DEF TypeInv
<1>6. CASE PublishStatus(u)
  <2>1. /\ UNCHANGED <<status, lock, raced, cursor, sock, seen, epoch, faults>>
        /\ upd[u].pc = "publish" /\ GoTo(u, "done")
        /\ Publish(upd[u].in.order, upd[u].in.status)
        /\ upd[u].in.order \in Orders /\ upd[u].in.status \in Allowed
    BY <1>1, <1>6 DEF PublishStatus, UpdatesOK
  <2>2. /\ upd'[u].pc = "done" /\ upd'[u].in = upd[u].in
        /\ \A v \in Updates \ {u} : upd'[v] = upd[v]
        /\ upd' \in [Updates -> UpdateType]
    BY <1>1, <2>1, GoToKeeps
  <2>3. /\ stream' \in [Orders -> [nextId: Nat \ {0}, buffer: Seq(EventType)]]
        /\ \A q \in Orders : Len(stream'[q].buffer) <= BufferLimit
        /\ StreamsOK'
    BY <2>1, PublishStreams
  <2>4. /\ sse' \in [Clients -> [pc: {"away", "checking", "open", "refused"},
                                 wire: Seq(EventType)]]
        /\ heard' \in [Sockets -> SUBSET Orders]
    BY <2>1, PublishWires
  <2>5. TypeOK'
    BY <1>1, <2>1, <2>2, <2>3, <2>4 DEF TypeOK
  <2>6. UpdatesOK'
    <3>1. /\ upd[u].in.status \in Allowed
          /\ \A o \in Orders :
               lock[o] = u => upd[u].pc = "commit" /\ upd[u].in.order = o
      BY <1>1, <2>1 DEF UpdatesOK
    <3>2. \A o \in Orders : lock'[o] = u =>
            upd'[u].pc = "commit" /\ upd'[u].in.order = o
      BY <1>1, <2>1, <2>2, <3>1 DEF TypeOK
    <3>3. \A o \in Orders : \/ lock'[o] = lock[o]
                            \/ lock[o] = NoOne /\ lock'[o] = u
                            \/ lock[o] = u /\ lock'[o] = NoOne
      BY <1>1, <2>1, <3>1 DEF TypeOK, UpdatesOK
    <3>4. upd'[u].pc = "commit" => lock'[upd'[u].in.order] = u
      BY <1>1, <2>1, <2>2 DEF TypeOK
    <3>5. QED  BY <1>1, <2>1, <2>2, <3>1, <3>2, <3>3, <3>4, UpdatesKept
  <2>7. QED  BY <1>1, <2>1, <2>3, <2>5, <2>6 DEF TypeInv
<1>7. CASE UpdateFails(u)
  <2>1. /\ UNCHANGED <<stream, sse, cursor, sock, seen, heard, epoch>>
        /\ upd[u].pc \in {"load", "update", "commit"} /\ GoTo(u, "done")
        /\ lock' = [q \in Orders |-> IF lock[q] = u THEN NoOne ELSE lock[q]]
        /\ faults' \in 0..MaxFaults /\ epoch' <= faults'
    BY <1>1, <1>7 DEF UpdateFails, Fault, TypeOK
  <2>2. /\ upd'[u].pc = "done" /\ upd'[u].in = upd[u].in
        /\ \A v \in Updates \ {u} : upd'[v] = upd[v]
        /\ upd' \in [Updates -> UpdateType]
    BY <1>1, <2>1, GoToKeeps
  <2>3. lock' \in [Orders -> Updates \cup {NoOne}]
    BY <1>1, <2>1 DEF TypeOK
  <2>4. status' \in [Orders -> Allowed] /\ raced' \subseteq Orders
    <3>1. CASE UNCHANGED <<status, raced>>
      BY <1>1, <3>1 DEF TypeOK
    <3>2. CASE /\ upd[u].pc = "commit" /\ status' = StatusAfter({u})
               /\ raced' = raced \cup {upd[u].in.order}
      BY <1>1, <3>2 DEF TypeOK, StatusAfter, UpdatesOK
    <3>3. QED  BY <1>7, <3>1, <3>2 DEF UpdateFails
  <2>5. TypeOK'
    BY <1>1, <2>1, <2>2, <2>3, <2>4 DEF TypeOK
  <2>6. UpdatesOK'
    <3>1. /\ upd[u].in.status \in Allowed
          /\ \A o \in Orders :
               lock[o] = u => upd[u].pc = "commit" /\ upd[u].in.order = o
      BY <1>1, <2>1 DEF UpdatesOK
    <3>2. \A o \in Orders : lock'[o] = u =>
            upd'[u].pc = "commit" /\ upd'[u].in.order = o
      BY <1>1, <2>1, <2>2, <3>1 DEF TypeOK
    <3>3. \A o \in Orders : \/ lock'[o] = lock[o]
                            \/ lock[o] = NoOne /\ lock'[o] = u
                            \/ lock[o] = u /\ lock'[o] = NoOne
      BY <1>1, <2>1, <3>1 DEF TypeOK, UpdatesOK
    <3>4. upd'[u].pc = "commit" => lock'[upd'[u].in.order] = u
      BY <1>1, <2>1, <2>2 DEF TypeOK
    <3>5. QED  BY <1>1, <2>1, <2>2, <3>1, <3>2, <3>3, <3>4, UpdatesKept
  <2>7. StreamsOK'
    BY <1>1, <2>1 DEF StreamsOK
  <2>8. QED  BY <1>1, <2>1, <2>5, <2>6, <2>7 DEF TypeInv
<1>8. QED
  BY <1>2, <1>3, <1>4, <1>5, <1>6, <1>7 DEF UpdateStep

(* Every step of a client or a socket preserves TypeInv. *)
LEMMA WatcherTypes ==
  ASSUME TypeInv,
         \/ \E c \in Clients : ClientStep(c) \/ ClientFault(c)
         \/ \E s \in Sockets : Join(s) \/ JoinRoom(s) \/ SocketLost(s)
  PROVE  TypeInv'
<1> USE EventsAssumption DEF rowVars
<1> DEFINE SseType == [pc: {"away", "checking", "open", "refused"},
                       wire: Seq(EventType)]
<1>1. TypeOK /\ UpdatesOK /\ StreamsOK /\ epoch <= faults
  BY DEF TypeInv
<1>2. SUFFICES ASSUME UNCHANGED <<status, lock, raced, upd, stream, heard, epoch>>,
                      sse' \in [Clients -> SseType],
                      cursor' \in [Clients -> Nat \cup {Absent, Other}],
                      seen' \in [Clients -> Seq([life: Nat, event: EventType])],
                      sock' \in [Sockets -> [pc: {"idle", "checking"},
                                             order: Orders \cup {NoOne},
                                             rooms: SUBSET Orders]],
                      faults' \in 0..MaxFaults, epoch' <= faults'
               PROVE  TypeInv'
  <2>1. ASSUME NEW c \in Clients, Connect(c)
        PROVE  /\ UNCHANGED <<status, lock, raced, upd, stream, heard, epoch,
                              cursor, seen, sock, faults>>
               /\ sse' \in [Clients -> SseType]
    <3>1. [pc |-> "checking", wire |-> <<>>] \in SseType
      OBVIOUS
    <3> HIDE DEF SseType
    <3>2. sse \in [Clients -> SseType]
      BY <1>1 DEF TypeOK, SseType
    <3>3. QED  BY <2>1, <3>1, <3>2 DEF Connect
  <2>2. ASSUME NEW c \in Clients, StreamEvents(c)
        PROVE  /\ UNCHANGED <<status, lock, raced, upd, stream, heard, epoch,
                              cursor, seen, sock, faults>>
               /\ sse' \in [Clients -> SseType]
    <3>1. Watch[c].order \in Orders
      OBVIOUS
    <3>2. cursor[c] # Other => /\ ParseLastEventId(cursor[c]) \in Nat
                               /\ ReplayAfter(Watch[c].order,
                                    ParseLastEventId(cursor[c]))
                                  \in Seq(EventType)
      <4>1. cursor[c] \in Nat \cup {Absent, Other}
        BY <1>1 DEF TypeOK
      <4>2. cursor[c] # Other => ParseLastEventId(cursor[c]) \in Nat
        BY <4>1 DEF ParseLastEventId
      <4>3. QED  BY <3>1, <4>2, ReplayFacts
    <3>3. PICK x : x \in SseType /\ sse' = [sse EXCEPT ![c] = x]
      <4>1. ASSUME NEW w \in Seq(EventType)
            PROVE  /\ [pc |-> "open", wire |-> w] \in SseType
                   /\ [pc |-> "refused", wire |-> w] \in SseType
        OBVIOUS
      <4>2. <<>> \in Seq(EventType)
        OBVIOUS
      <4> HIDE DEF SseType
      <4>3. QED  BY <2>2, <3>2, <4>1, <4>2 DEF StreamEvents
    <3> HIDE DEF SseType
    <3>4. sse \in [Clients -> SseType]
      BY <1>1 DEF TypeOK, SseType
    <3>5. QED  BY <2>2, <3>3, <3>4 DEF StreamEvents
  <2>3. ASSUME NEW c \in Clients, Receive(c)
        PROVE  /\ UNCHANGED <<status, lock, raced, upd, stream, heard, epoch,
                              sock, faults>>
               /\ sse' \in [Clients -> SseType]
               /\ cursor' \in [Clients -> Nat \cup {Absent, Other}]
               /\ seen' \in [Clients -> Seq([life: Nat, event: EventType])]
    <3>1. /\ sse[c].wire \in Seq(EventType) /\ sse[c].wire # <<>>
          /\ seen[c] \in Seq([life: Nat, event: EventType]) /\ epoch \in Nat
      <4>1. sse[c].wire # <<>>
        BY <2>3 DEF Receive
      <4>2. sse[c].wire \in Seq(EventType)
        BY <1>1 DEF TypeOK
      <4>3. seen[c] \in Seq([life: Nat, event: EventType])
        BY <1>1 DEF TypeOK
      <4>4. epoch \in Nat
        BY <1>1 DEF TypeOK
      <4>5. QED  BY <4>1, <4>2, <4>3, <4>4
    <3>2. /\ Head(sse[c].wire) \in EventType
          /\ Tail(sse[c].wire) \in Seq(EventType)
      BY <3>1
    <3>3. Head(sse[c].wire).id \in Nat
      BY <3>2 DEF EventType
    <3>4. [life |-> epoch, event |-> Head(sse[c].wire)]
            \in [life: Nat, event: EventType]
      BY <3>1, <3>2
    <3>5. Append(seen[c], [life |-> epoch, event |-> Head(sse[c].wire)])
            \in Seq([life: Nat, event: EventType])
      BY <3>1, <3>4
    <3>6. [pc |-> "open", wire |-> Tail(sse[c].wire)] \in SseType
      BY <3>2
    <3> HIDE DEF SseType
    <3>7. sse \in [Clients -> SseType]
      BY <1>1 DEF TypeOK, SseType
    <3>8. sse' \in [Clients -> SseType]
      BY <2>3, <3>6, <3>7 DEF Receive
    <3>9. cursor' \in [Clients -> Nat \cup {Absent, Other}]
      BY <1>1, <2>3, <3>3 DEF Receive, TypeOK
    <3>10. seen' \in [Clients -> Seq([life: Nat, event: EventType])]
      BY <1>1, <2>3, <3>5 DEF Receive, TypeOK
    <3>11. QED  BY <2>3, <3>8, <3>9, <3>10 DEF Receive
  <2>4. ASSUME NEW c \in Clients, ClientFault(c)
        PROVE  /\ UNCHANGED <<status, lock, raced, upd, stream, heard, epoch,
                              cursor, seen, sock>>
               /\ sse' \in [Clients -> SseType]
               /\ faults' \in 0..MaxFaults /\ epoch' <= faults'
    <3>1. Away \in SseType /\ [pc |-> "refused", wire |-> <<>>] \in SseType
      BY DEF Away
    <3> HIDE DEF SseType
    <3>2. sse \in [Clients -> SseType]
      BY <1>1 DEF TypeOK, SseType
    <3>3. PICK x \in SseType : sse' = [sse EXCEPT ![c] = x]
      BY <2>4, <3>1 DEF ClientFault, Disconnect, CheckFails
    <3>4. sse' \in [Clients -> SseType]
      BY <3>2, <3>3
    <3>5. /\ UNCHANGED <<status, lock, raced, upd, stream, heard, epoch,
                         cursor, seen, sock>>
          /\ Fault
      BY <2>4 DEF ClientFault, Disconnect, CheckFails, rowVars
    <3>6. QED  BY <1>1, <3>4, <3>5 DEF Fault, TypeOK
  <2>5. ASSUME NEW s \in Sockets, Join(s) \/ JoinRoom(s) \/ SocketLost(s)
        PROVE  /\ UNCHANGED <<status, lock, raced, upd, stream, heard, epoch,
                              cursor, seen, sse>>
               /\ sock' \in [Sockets -> [pc: {"idle", "checking"},
                                         order: Orders \cup {NoOne},
                                         rooms: SUBSET Orders]]
               /\ faults' \in 0..MaxFaults /\ epoch' <= faults'
    <3>1. CASE Join(s)
      BY <1>1, <3>1 DEF Join, TypeOK
    <3>2. CASE JoinRoom(s)
      <4>1. Authorized(SocketUser[s], sock[s].order) => sock[s].order \in Orders
        BY DEF Authorized
      <4>2. QED  BY <1>1, <3>2, <4>1 DEF JoinRoom, TypeOK
    <3>3. CASE SocketLost(s)
      BY <1>1, <3>3 DEF SocketLost, Fault, Unjoined, TypeOK
    <3>4. QED  BY <2>5, <3>1, <3>2, <3>3
  <2> HIDE DEF SseType
  <2>6. QED  BY <1>1, <2>1, <2>2, <2>3, <2>4, <2>5 DEF ClientStep, TypeOK, SseType
<1>3. TypeOK'
  BY <1>1, <1>2 DEF TypeOK
<1>4. UpdatesOK' /\ StreamsOK'
  BY <1>1, <1>2 DEF UpdatesOK, StreamsOK
<1>5. QED  BY <1>2, <1>3, <1>4 DEF TypeInv

(* A restart preserves TypeInv. *)
LEMMA RestartTypes ==
  ASSUME TypeInv, Restart PROVE TypeInv'
<1> USE EventsAssumption
<1>1. TypeOK /\ UpdatesOK /\ StreamsOK /\ epoch <= faults
  BY DEF TypeInv
<1>2. /\ NewStream \in [nextId: Nat \ {0}, buffer: Seq(EventType)]
      /\ Len(NewStream.buffer) = 0 /\ NewStream.nextId = 1
  BY DEF NewStream
<1>3. /\ stream' \in [Orders -> [nextId: Nat \ {0}, buffer: Seq(EventType)]]
      /\ \A o \in Orders : stream'[o] = NewStream
  BY <1>2 DEF Restart
<1>4. sse' \in [Clients -> [pc: {"away", "checking", "open", "refused"},
                            wire: Seq(EventType)]]
  <2>1. Away \in [pc: {"away", "checking", "open", "refused"},
                  wire: Seq(EventType)]
    BY DEF Away
  <2>2. QED  BY <1>1, <2>1 DEF Restart, TypeOK
<1>5. sock' \in [Sockets -> [pc: {"idle", "checking"},
                             order: Orders \cup {NoOne}, rooms: SUBSET Orders]]
  BY DEF Restart, Unjoined
<1>6. upd' \in [Updates -> UpdateType]
      /\ \A u \in Updates : upd'[u].pc \in {"idle", "done"}
  <2>1. ASSUME NEW u \in Updates
        PROVE  upd'[u] \in UpdateType /\ upd'[u].pc \in {"idle", "done"}
    <3>1. upd[u] \in UpdateType
      BY <1>1 DEF TypeOK
    <3>2. CASE Active(u)
      BY <3>1, <3>2 DEF Restart, Active, UpdateType
    <3>3. CASE ~Active(u)
      BY <3>1, <3>3 DEF Restart, Active, UpdateType
    <3>4. QED  BY <3>2, <3>3
  <2>2. upd' = [u \in Updates |-> upd'[u]]
    BY DEF Restart
  <2>3. QED  BY <2>1, <2>2
<1>7. status' \in [Orders -> Allowed]
  <2>1. PICK S \in SUBSET {u \in Updates : upd[u].pc = "commit"} :
          status' = StatusAfter(S)
    BY DEF Restart
  <2>2. \A o \in Orders : lock[o] \in S => upd[lock[o]].in.status \in Allowed
    BY <1>1 DEF UpdatesOK
  <2>3. QED  BY <1>1, <2>1, <2>2 DEF StatusAfter, TypeOK
<1>8. lock' = [o \in Orders |-> NoOne]
  BY DEF Restart
<1>9. faults' \in 0..MaxFaults /\ epoch' \in 0..MaxFaults /\ epoch' <= faults'
  BY <1>1 DEF Restart, Fault, TypeOK
<1>10. TypeOK'
  <2>1. UNCHANGED <<cursor, seen, heard>> /\ raced' = {}
    BY DEF Restart
  <2>2. \A o \in Orders : Len(stream'[o].buffer) <= BufferLimit
    BY <1>2, <1>3
  <2>3. QED
    BY <1>1, <1>3, <1>4, <1>5, <1>6, <1>7, <1>8, <1>9, <2>1, <2>2 DEF TypeOK
<1>11. UpdatesOK'
  BY <1>6, <1>8 DEF UpdatesOK
<1>12. StreamsOK'
  BY <1>2, <1>3 DEF StreamsOK
<1>13. QED  BY <1>9, <1>10, <1>11, <1>12 DEF TypeInv

(* Every step preserves TypeInv. *)
LEMMA StepTypes == TypeInv /\ [Next]_vars => TypeInv'
<1> SUFFICES ASSUME TypeInv, [Next]_vars PROVE TypeInv'
  OBVIOUS
<1>1. CASE UNCHANGED vars
  <2>1. TypeOK'
    BY <1>1 DEF vars, TypeInv, TypeOK
  <2>2. UpdatesOK' /\ StreamsOK' /\ epoch' <= faults'
    BY <1>1 DEF vars, TypeInv, UpdatesOK, StreamsOK
  <2>3. QED  BY <2>1, <2>2 DEF TypeInv
<1>2. QED
  BY <1>1, UpdateTypes, WatcherTypes, RestartTypes DEF Next, AllQuiet

(* TypeInv holds in every reachable state. *)
LEMMA TypesAlways == Spec => []TypeInv
BY InitTypes, StepTypes, PTL DEF Spec

(***************************************************************************)
(* Every row, buffer, connection and history of the order events has its   *)
(* type, and no replay buffer outgrows BUFFER_LIMIT.                       *)
(***************************************************************************)
THEOREM EventsTypeCorrect == Spec => []TypeOK
<1>1. TypeInv => TypeOK
  BY DEF TypeInv
<1>2. QED  BY <1>1, TypesAlways, PTL

-----------------------------------------------------------------------------
(* The parts of the state that the watchers' invariants are about are in   *)
(* the hands of publish, of a client's steps and of a restart.             *)
LEMMA OtherStepsKeepWatchers ==
  ASSUME TypeInv, NEW u \in Updates,
         UpdateStatus(u) \/ LoadOrder(u) \/ UpdateRow(u) \/ CommitStatus(u)
           \/ UpdateFails(u)
  PROVE  UNCHANGED <<stream, sse, cursor, sock, seen, heard, epoch>>
BY DEF UpdateStatus, LoadOrder, UpdateRow, CommitStatus, UpdateFails, watchVars

(* The wires after a publish: open streams of the order get the event at   *)
(* their end, so the first unread event stays where it was.                *)
LEMMA PublishKeepsWires ==
  ASSUME TypeInv, WiresOK, NEW o \in Orders, NEW s \in Allowed, Publish(o, s)
  PROVE  /\ WiresOK'
         /\ \A c \in Clients : sse[c].pc = "open" =>
              FirstUnread(c)' = FirstUnread(c)
<1> USE EventsAssumption
<1> DEFINE e == [id |-> stream[o].nextId, order |-> o, status |-> s]
<1>1. /\ stream'[o].nextId = stream[o].nextId + 1
      /\ \A q \in Orders \ {o} : stream'[q] = stream[q]
  BY PublishStreams
<1>2. /\ e \in EventType
      /\ \A c \in Clients :
           /\ sse'[c].pc = sse[c].pc
           /\ sse'[c].wire = IF sse[c].pc = "open" /\ Watch[c].order = o
                             THEN Append(sse[c].wire, e) ELSE sse[c].wire
  BY PublishWires
<1>3. e.id = stream[o].nextId /\ e.order = o
  OBVIOUS
<1> HIDE DEF e
<1>4. ASSUME NEW c \in Clients
      PROVE  /\ sse[c].pc = "open" => FirstUnread(c)' = FirstUnread(c)
             /\ sse'[c].pc # "open" => sse'[c].wire = <<>>
             /\ sse'[c].pc = "open" =>
                  /\ Authorized(Watch[c].user, Watch[c].order)
                  /\ Len(sse'[c].wire) < stream'[Watch[c].order].nextId
                  /\ \A n \in 1..Len(sse'[c].wire) :
                       /\ sse'[c].wire[n].id = FirstUnread(c)' - 1 + n
                       /\ sse'[c].wire[n].order = Watch[c].order
  <2> DEFINE w == sse[c].wire
             q == Watch[c].order
             N == stream[q].nextId
  <2>1. w \in Seq(EventType) /\ q \in Orders /\ N \in Nat /\ Len(w) \in Nat
    BY DEF TypeInv, TypeOK
  <2>2. FirstUnread(c) = N - Len(w)
    BY DEF FirstUnread
  <2>3. FirstUnread(c)' = stream'[q].nextId - Len(sse'[c].wire)
    BY DEF FirstUnread
  <2>4. CASE sse[c].pc # "open"
    BY <1>2, <2>4 DEF WiresOK
  <2>5. CASE sse[c].pc = "open" /\ q # o
    <3>1. sse'[c].wire = w /\ stream'[q] = stream[q] /\ sse'[c].pc = "open"
      BY <1>1, <1>2, <2>1, <2>5
    <3>2. QED
      BY <2>1, <2>2, <2>3, <2>5, <3>1 DEF WiresOK
  <2>6. CASE sse[c].pc = "open" /\ q = o
    <3>1. sse'[c].wire = Append(w, e) /\ sse'[c].pc = "open"
          /\ stream'[q].nextId = N + 1
      BY <1>1, <1>2, <2>6
    <3>2. /\ Authorized(Watch[c].user, q) /\ Len(w) < N
          /\ \A n \in 1..Len(w) : w[n].id = N - Len(w) - 1 + n /\ w[n].order = q
      BY <2>2, <2>6 DEF WiresOK
    <3>3. e.id = N /\ e.order = q
      BY <1>3, <2>6
    <3> HIDE DEF w, q, N
    <3>4. /\ Len(Append(w, e)) = Len(w) + 1
          /\ \A n \in 1..Len(w) : Append(w, e)[n] = w[n]
          /\ Append(w, e)[Len(w) + 1] = e
      BY <1>2, <2>1
    <3>5. \A n \in 1..(Len(w) + 1) : /\ Append(w, e)[n].id = N - Len(w) - 1 + n
                                     /\ Append(w, e)[n].order = q
      BY SMTT(30), <2>1, <3>2, <3>3, <3>4
    <3>6. FirstUnread(c)' = N - Len(w)
      BY <2>1, <2>3, <3>1, <3>4
    <3>7. /\ FirstUnread(c)' = FirstUnread(c)
          /\ Len(sse'[c].wire) = Len(w) + 1 /\ Len(w) + 1 < stream'[q].nextId
      BY <2>1, <2>2, <3>1, <3>2, <3>4, <3>6
    <3>8. \A n \in 1..(Len(w) + 1) : /\ sse'[c].wire[n].id = N - Len(w) - 1 + n
                                     /\ sse'[c].wire[n].order = q
      BY <3>1, <3>5
    <3>9. QED  BY <3>1, <3>2, <3>6, <3>7, <3>8 DEF q
  <2>7. QED  BY <2>4, <2>5, <2>6
<1>5. WiresOK'
  BY <1>4 DEF WiresOK
<1>6. QED  BY <1>4, <1>5

(* A client's own steps keep the wires: a replay ends with the newest      *)
(* event, and reading a frame moves the first unread event on by one.      *)
LEMMA ClientKeepsWires ==
  ASSUME TypeInv, WiresOK, NEW c \in Clients, ClientStep(c) \/ ClientFault(c)
  PROVE  /\ WiresOK' /\ UNCHANGED <<stream, sock, heard, epoch>>
         /\ \A d \in Clients \ {c} : sse'[d] = sse[d]
<1> USE EventsAssumption
<1>1. sse \in [Clients -> [pc: {"away", "checking", "open", "refused"},
                           wire: Seq(EventType)]]
  BY DEF TypeInv, TypeOK
<1>2. UNCHANGED <<stream, sock, heard, epoch>>
  BY DEF ClientStep, Connect, StreamEvents, Receive, ClientFault, Disconnect,
    CheckFails
<1>3. PICK x : sse' = [sse EXCEPT ![c] = x]
  BY DEF ClientStep, Connect, StreamEvents, Receive, ClientFault, Disconnect,
    CheckFails
<1>4. \A d \in Clients \ {c} : sse'[d] = sse[d]
  BY <1>1, <1>3
<1> DEFINE q == Watch[c].order
           N == stream[q].nextId
<1>5. q \in Orders /\ N \in Nat
  BY DEF TypeInv, TypeOK
<1>6. /\ sse'[c].pc # "open" => sse'[c].wire = <<>>
      /\ sse'[c].pc = "open" =>
           /\ Authorized(Watch[c].user, q)
           /\ Len(sse'[c].wire) < N
           /\ \A n \in 1..Len(sse'[c].wire) :
                /\ sse'[c].wire[n].id = N - Len(sse'[c].wire) - 1 + n
                /\ sse'[c].wire[n].order = q
  <2>1. CASE Connect(c)
    BY <1>1, <2>1 DEF Connect
  <2>2. CASE ClientFault(c)
    BY <1>1, <2>2 DEF ClientFault, Disconnect, CheckFails, Away
  <2>3. CASE StreamEvents(c)
    <3> DEFINE w == ReplayAfter(q, ParseLastEventId(cursor[c]))
    <3>1. CASE ~Authorized(Watch[c].user, q)
      BY <1>1, <2>3, <3>1 DEF StreamEvents
    <3>2. CASE Authorized(Watch[c].user, q) /\ cursor[c] = Other
      <4>1. sse'[c] = [pc |-> "open", wire |-> <<>>]
        BY <1>1, <2>3, <3>2 DEF StreamEvents
      <4>2. N > 0
        BY <1>5 DEF TypeInv, TypeOK
      <4>3. QED  BY <3>2, <4>1, <4>2
    <3>3. CASE Authorized(Watch[c].user, q) /\ cursor[c] # Other
      <4>1. sse'[c] = [pc |-> "open", wire |-> w]
        BY <1>1, <2>3, <3>3 DEF StreamEvents
      <4>2. ParseLastEventId(cursor[c]) \in Nat
        <5>1. cursor[c] \in Nat \cup {Absent, Other}
          BY DEF TypeInv, TypeOK
        <5>2. QED  BY <3>3, <5>1 DEF ParseLastEventId
      <4>3. /\ Len(w) < N
            /\ \A n \in 1..Len(w) : w[n].id = N - Len(w) - 1 + n /\ w[n].order = q
        BY <1>5, <4>2, ReplayFacts
      <4> HIDE DEF w
      <4>4. QED  BY <3>3, <4>1, <4>3
    <3>4. QED  BY <3>1, <3>2, <3>3
  <2>4. CASE Receive(c)
    <3> DEFINE w == sse[c].wire
    <3>1. w \in Seq(EventType) /\ w # <<>>
      BY <1>1, <2>4 DEF Receive
    <3>2. sse'[c] = [pc |-> "open", wire |-> Tail(w)]
      BY <1>1, <2>4 DEF Receive
    <3>3. /\ Authorized(Watch[c].user, q) /\ Len(w) < N
          /\ \A n \in 1..Len(w) : w[n].id = N - Len(w) - 1 + n /\ w[n].order = q
      BY <3>1 DEF WiresOK, FirstUnread
    <3> HIDE DEF w, q, N
    <3>4. /\ Len(w) \in Nat /\ Len(Tail(w)) = Len(w) - 1
          /\ \A n \in 1..(Len(w) - 1) : Tail(w)[n] = w[n + 1]
      BY <3>1
    <3>5. ASSUME NEW n \in 1..(Len(w) - 1)
          PROVE  Tail(w)[n].id = N - (Len(w) - 1) - 1 + n
                 /\ Tail(w)[n].order = q
      <4>1. n + 1 \in 1..Len(w)
        BY <3>4
      <4>2. w[n + 1].id = N - Len(w) - 1 + (n + 1) /\ w[n + 1].order = q
        BY <3>3, <4>1
      <4>3. N - Len(w) - 1 + (n + 1) = N - (Len(w) - 1) - 1 + n
        BY <1>5, <3>4
      <4>4. QED  BY <3>4, <4>2, <4>3
    <3>6. sse'[c].pc = "open" /\ sse'[c].wire = Tail(w)
      BY <3>2
    <3>7. /\ Len(sse'[c].wire) = Len(w) - 1 /\ Len(w) - 1 < N
          /\ \A n \in 1..(Len(w) - 1) :
               /\ sse'[c].wire[n].id = N - (Len(w) - 1) - 1 + n
               /\ sse'[c].wire[n].order = q
      BY <1>5, <3>3, <3>4, <3>5, <3>6
    <3>8. QED  BY <3>3, <3>6, <3>7
  <2>5. QED  BY <2>1, <2>2, <2>3, <2>4 DEF ClientStep
<1>7. ASSUME NEW d \in Clients
      PROVE  /\ sse'[d].pc # "open" => sse'[d].wire = <<>>
             /\ sse'[d].pc = "open" =>
                  /\ Authorized(Watch[d].user, Watch[d].order)
                  /\ Len(sse'[d].wire) < stream'[Watch[d].order].nextId
                  /\ \A n \in 1..Len(sse'[d].wire) :
                       /\ sse'[d].wire[n].id = FirstUnread(d)' - 1 + n
                       /\ sse'[d].wire[n].order = Watch[d].order
  <2>1. CASE d = c
    <3>1. FirstUnread(c)' = N - Len(sse'[c].wire)
      BY <1>2 DEF FirstUnread
    <3>2. QED  BY <1>2, <1>6, <2>1, <3>1
  <2>2. CASE d # c
    BY <1>2, <1>4, <2>2 DEF WiresOK, FirstUnread
  <2>3. QED  BY <2>1, <2>2
<1>8. WiresOK'
  BY <1>7 DEF WiresOK
<1>9. QED  BY <1>2, <1>4, <1>8

-----------------------------------------------------------------------------
(* A step of the bus or of the watchers, as one of four kinds: nothing     *)
(* they see, a publish, a step of one client or of one socket, a restart.  *)
LEMMA KindsOfSteps ==
  ASSUME TypeInv, [Next]_vars
  PROVE  \/ UNCHANGED <<stream, sse, cursor, sock, seen, heard, epoch>>
         \/ \E u \in Updates : PublishStatus(u)
         \/ \E c \in Clients : ClientStep(c) \/ ClientFault(c)
         \/ \E s \in Sockets : Join(s) \/ JoinRoom(s) \/ SocketLost(s)
         \/ Restart
<1>1. CASE UNCHANGED vars
  BY <1>1 DEF vars
<1>2. QED
  BY <1>1, OtherStepsKeepWatchers DEF Next, UpdateStep, AllQuiet

(* A publish is of an order that exists, with a status that is allowed. *)
LEMMA PublishArguments ==
  ASSUME TypeInv, NEW u \in Updates, PublishStatus(u)
  PROVE  /\ upd[u].in.order \in Orders /\ upd[u].in.status \in Allowed
         /\ Publish(upd[u].in.order, upd[u].in.status)
         /\ UNCHANGED <<status, lock, raced, cursor, sock, seen, epoch>>
BY DEF PublishStatus, TypeInv, UpdatesOK, rowVars

(* WatchInv holds at the start. *)
LEMMA WatchInit == Init => WatchInv
<1> SUFFICES ASSUME Init PROVE WatchInv
  OBVIOUS
<1>1. WiresOK
  BY DEF Init, WiresOK, Away
<1>2. RoomsOK
  BY DEF Init, RoomsOK, Unjoined
<1>3. QED  BY <1>1, <1>2, InitTypes DEF WatchInv

(* Every step preserves WatchInv. *)
LEMMA WatchStep == WatchInv /\ [Next]_vars => WatchInv'
<1> SUFFICES ASSUME WatchInv, [Next]_vars PROVE WatchInv'
  OBVIOUS
<1>1. TypeInv /\ TypeInv' /\ WiresOK /\ RoomsOK
  BY StepTypes DEF WatchInv
<1>2. CASE UNCHANGED <<stream, sse, cursor, sock, seen, heard, epoch>>
  BY <1>1, <1>2 DEF WatchInv, WiresOK, RoomsOK, FirstUnread
<1>3. ASSUME NEW u \in Updates, PublishStatus(u) PROVE WatchInv'
  <2>1. /\ upd[u].in.order \in Orders /\ upd[u].in.status \in Allowed
        /\ Publish(upd[u].in.order, upd[u].in.status) /\ UNCHANGED sock
    BY <1>1, <1>3, PublishArguments
  <2>2. WiresOK'
    BY <1>1, <2>1, PublishKeepsWires
  <2>3. \A w \in Sockets : \A q \in heard'[w] :
          q \in heard[w] \/ q \in sock[w].rooms
    BY <1>1, <2>1, PublishWires
  <2>4. RoomsOK'
    BY <1>1, <2>1, <2>3 DEF RoomsOK
  <2>5. QED  BY <1>1, <2>2, <2>4 DEF WatchInv
<1>4. ASSUME NEW c \in Clients, ClientStep(c) \/ ClientFault(c) PROVE WatchInv'
  <2>1. WiresOK' /\ UNCHANGED <<sock, heard>>
    BY <1>1, <1>4, ClientKeepsWires
  <2>2. QED  BY <1>1, <2>1 DEF WatchInv, RoomsOK
<1>5. ASSUME NEW s \in Sockets, Join(s) \/ JoinRoom(s) \/ SocketLost(s)
      PROVE  WatchInv'
  <2>1. UNCHANGED <<stream, sse, heard>>
    BY <1>5 DEF Join, JoinRoom, SocketLost
  <2>2. WiresOK'
    BY <1>1, <2>1 DEF WiresOK, FirstUnread
  <2>3. DOMAIN sock = Sockets
    BY <1>1 DEF TypeInv, TypeOK
  <2>4. RoomsOK'
    <3>1. CASE Join(s)
      BY <1>1, <2>1, <2>3, <3>1 DEF RoomsOK, Join
    <3>2. CASE JoinRoom(s)
      BY <1>1, <2>1, <2>3, <3>2 DEF RoomsOK, JoinRoom
    <3>3. CASE SocketLost(s)
      BY <1>1, <2>1, <2>3, <3>3 DEF RoomsOK, SocketLost, Unjoined
    <3>4. QED  BY <1>5, <3>1, <3>2, <3>3
  <2>5. QED  BY <1>1, <2>2, <2>4 DEF WatchInv
<1>6. CASE Restart
  <2>1. \A c \in Clients : sse'[c].pc # "open" /\ sse'[c].wire = <<>>
    <3>1. \A c \in Clients :
            sse'[c] = IF sse[c].pc = "refused" THEN sse[c] ELSE Away
      BY <1>6 DEF Restart
    <3>2. QED  BY <1>1, <3>1 DEF Away, WiresOK
  <2>2. /\ \A s \in Sockets : sock'[s] = Unjoined
        /\ UNCHANGED heard
    BY <1>6 DEF Restart
  <2>3. RoomsOK'
    BY <1>1, <2>2 DEF RoomsOK, Unjoined
  <2>4. QED  BY <1>1, <2>1, <2>3 DEF WatchInv, WiresOK
<1>7. QED  BY <1>1, <1>2, <1>3, <1>4, <1>5, <1>6, KindsOfSteps

(* WatchInv holds in every reachable state. *)
LEMMA WatchAlways == Spec => []WatchInv
BY WatchInit, WatchStep, PTL DEF Spec

(***************************************************************************)
(* No event of an order is ever sent to a stream or a socket whose user    *)
(* may not read the order, although both check it before the room or the   *)
(* stream is open and never again.                                         *)
(***************************************************************************)
THEOREM OnlyReadersAreSent == Spec => []OnlyReadersSee
<1>1. WatchInv => OnlyReadersSee
  <2> SUFFICES ASSUME WatchInv PROVE OnlyReadersSee
    OBVIOUS
  <2>1. ASSUME NEW c \in Clients, NEW n \in DOMAIN sse[c].wire
        PROVE  /\ sse[c].wire[n].order = Watch[c].order
               /\ Authorized(Watch[c].user, Watch[c].order)
    <3>1. sse[c].wire \in Seq(EventType)
      BY DEF WatchInv, TypeInv, TypeOK
    <3>2. DOMAIN sse[c].wire = 1..Len(sse[c].wire) /\ sse[c].wire # <<>>
      BY <2>1, <3>1
    <3>3. sse[c].pc = "open"
      BY <3>2 DEF WatchInv, WiresOK
    <3>4. QED  BY <2>1, <3>2, <3>3 DEF WatchInv, WiresOK
  <2>2. \A s \in Sockets : \A o \in heard[s] : Authorized(SocketUser[s], o)
    BY DEF WatchInv, RoomsOK
  <2>3. QED  BY <2>1, <2>2 DEF OnlyReadersSee
<1>2. QED  BY <1>1, WatchAlways, PTL

-----------------------------------------------------------------------------
(* ReadInv holds at the start. *)
LEMMA ReadInit == Init => ReadInv
<1> SUFFICES ASSUME Init PROVE ReadInv
  OBVIOUS
<1>1. \A c \in Clients : seen[c] = <<>>
  BY DEF Init
<1>2. SeenOK /\ NoGapNoRepeat
  BY <1>1 DEF SeenOK, NoGapNoRepeat
<1>3. QED  BY <1>2, WatchInit DEF ReadInv

(* The ids of the frames a client has read are numbers. *)
LEMMA SeenTypes ==
  ASSUME TypeOK, NEW c \in Clients
  PROVE  /\ seen[c] \in Seq([life: Nat, event: EventType])
         /\ Len(seen[c]) \in Nat /\ DOMAIN seen[c] = 1..Len(seen[c])
         /\ \A n \in 1..Len(seen[c]) : /\ seen[c][n].event.id \in Nat
                                        /\ seen[c][n].life \in Nat
         /\ seen[c] # <<>> => Len(seen[c]) \in 1..Len(seen[c])
<1>1. seen[c] \in Seq([life: Nat, event: EventType])
  BY DEF TypeOK
<1>2. ASSUME NEW n \in 1..Len(seen[c])
      PROVE  seen[c][n].event.id \in Nat /\ seen[c][n].life \in Nat
  <2>1. seen[c][n] \in [life: Nat, event: EventType]
    <3> DEFINE T == [life: Nat, event: EventType]
               s == seen[c]
    <3>1. s \in Seq(T)
      BY <1>1
    <3> HIDE DEF T, s
    <3>2. \A m \in 1..Len(s) : s[m] \in T
      BY <3>1
    <3>3. QED  BY <3>2 DEF T, s
  <2>2. seen[c][n].event \in EventType /\ seen[c][n].life \in Nat
    BY <2>1
  <2>3. QED  BY <2>2 DEF EventType
<1>3. QED  BY <1>1, <1>2

(* What was read stays right while events are published and streams stay   *)
(* as they are, or are closed.                                             *)
LEMMA NothingRead ==
  ASSUME ReadInv, TypeInv', UNCHANGED <<cursor, seen, epoch>>,
         \A o \in Orders : stream'[o].nextId >= stream[o].nextId,
         \A o \in Orders, id \in Int : Evicted(o, id) => Evicted(o, id)',
         \A c \in Clients : sse'[c].pc = "open" =>
           sse[c].pc = "open" /\ FirstUnread(c)' = FirstUnread(c)
  PROVE  SeenOK' /\ NoGapNoRepeat'
<1> USE EventsAssumption
<1>1. /\ TypeOK /\ TypeOK' /\ SeenOK /\ NoGapNoRepeat
  BY DEF ReadInv, WatchInv, TypeInv
<1>2. \A c \in Clients : /\ Watch[c].order \in Orders
                         /\ stream[Watch[c].order].nextId \in Int
                         /\ stream'[Watch[c].order].nextId \in Int
                         /\ sse[c].wire \in Seq(EventType)
                         /\ FirstUnread(c) \in Int
  <2> SUFFICES ASSUME NEW c \in Clients
               PROVE  /\ Watch[c].order \in Orders
                      /\ stream[Watch[c].order].nextId \in Int
                      /\ stream'[Watch[c].order].nextId \in Int
                      /\ sse[c].wire \in Seq(EventType)
                      /\ FirstUnread(c) \in Int
    OBVIOUS
  <2>1. /\ Watch[c].order \in Orders
        /\ stream[Watch[c].order].nextId \in Int
        /\ stream'[Watch[c].order].nextId \in Int
        /\ sse[c].wire \in Seq(EventType)
    BY <1>1 DEF TypeOK
  <2>2. Len(sse[c].wire) \in Int
    BY <2>1
  <2>3. QED  BY <2>1, <2>2 DEF FirstUnread
<1>3. \A c \in Clients : \A n \in 1..Len(seen[c]) : seen[c][n].event.id \in Int
  BY <1>1, SeenTypes
<1>4. SeenOK'
  <2> SUFFICES ASSUME NEW c \in Clients
               PROVE  (/\ \A n \in 1..Len(seen[c]) : seen[c][n].life <= epoch
                       /\ seen[c] # <<>> =>
                            /\ cursor[c] = LastSeen(c).event.id
                            /\ LastSeen(c).life = epoch =>
                                 LastSeen(c).event.id
                                   < stream[Watch[c].order].nextId
                            /\ sse[c].pc = "open" =>
                                 /\ LastSeen(c).life = epoch =>
                                      LastSeen(c).event.id < FirstUnread(c)
                                 /\ FirstUnread(c) > LastSeen(c).event.id + 1 =>
                                      Evicted(Watch[c].order,
                                              FirstUnread(c) - 1))'
    BY DEF SeenOK
  <2>1. \A n \in 1..Len(seen'[c]) : seen'[c][n].life <= epoch'
    BY <1>1 DEF SeenOK
  <2>2. LastSeen(c)' = LastSeen(c)
    BY DEF LastSeen
  <2>3. ASSUME seen'[c] # <<>>
        PROVE  /\ cursor'[c] = LastSeen(c).event.id
               /\ LastSeen(c).life = epoch =>
                    LastSeen(c).event.id < stream'[Watch[c].order].nextId
    <3>1. LastSeen(c).event.id \in Int
      <4>1. seen[c] \in Seq([life: Nat, event: EventType]) /\ seen[c] # <<>>
        BY <1>1, <2>3 DEF TypeOK
      <4>2. Len(seen[c]) \in 1..Len(seen[c])
        BY <4>1
      <4>3. QED  BY <1>3, <4>2 DEF LastSeen
    <3>2. stream'[Watch[c].order].nextId >= stream[Watch[c].order].nextId
      BY <1>2
    <3>3. QED  BY <1>1, <1>2, <2>3, <3>1, <3>2 DEF SeenOK
  <2>4. ASSUME seen'[c] # <<>>, sse'[c].pc = "open"
        PROVE  /\ LastSeen(c).life = epoch => LastSeen(c).event.id < FirstUnread(c)'
               /\ FirstUnread(c)' > LastSeen(c).event.id + 1 =>
                    Evicted(Watch[c].order, FirstUnread(c) - 1)'
    <3>1. sse[c].pc = "open" /\ FirstUnread(c)' = FirstUnread(c)
      BY <2>4
    <3>2. /\ LastSeen(c).life = epoch => LastSeen(c).event.id < FirstUnread(c)
          /\ FirstUnread(c) > LastSeen(c).event.id + 1 =>
               Evicted(Watch[c].order, FirstUnread(c) - 1)
      BY <1>1, <2>4, <3>1 DEF SeenOK
    <3>3. PICK id \in Int : id = FirstUnread(c) - 1 /\ id = FirstUnread(c)' - 1
      BY <1>2, <3>1
    <3>4. Watch[c].order \in Orders
      BY <1>2
    <3>5. FirstUnread(c)' > LastSeen(c).event.id + 1 =>
            Evicted(Watch[c].order, id)'
      <4>1. FirstUnread(c)' > LastSeen(c).event.id + 1 =>
              Evicted(Watch[c].order, id)
        BY <3>1, <3>2, <3>3
      <4>2. QED  BY <3>3, <3>4, <4>1
    <3>6. QED  BY <3>1, <3>2, <3>3, <3>5 DEF Evicted
  <2>5. QED  BY <2>1, <2>2, <2>3, <2>4
<1>5. NoGapNoRepeat'
  <2> SUFFICES ASSUME NEW c \in Clients, NEW n \in 1..(Len(seen[c]) - 1)
               PROVE  /\ seen[c][n].life = seen[c][n + 1].life =>
                           seen[c][n].event.id < seen[c][n + 1].event.id
                      /\ /\ seen[c][n + 1].life = epoch
                         /\ seen[c][n + 1].event.id > seen[c][n].event.id + 1
                         => /\ seen[c][n + 1].event.id - 1
                                 < stream'[Watch[c].order].nextId
                            /\ \A m \in DOMAIN stream'[Watch[c].order].buffer :
                                 stream'[Watch[c].order].buffer[m].id
                                   # seen[c][n + 1].event.id - 1
    BY DEF NoGapNoRepeat, Evicted
  <2> DEFINE a == seen[c][n]
             b == seen[c][n + 1]
  <2>1. /\ a.life = b.life => a.event.id < b.event.id
        /\ b.life = epoch /\ b.event.id > a.event.id + 1
             => Evicted(Watch[c].order, b.event.id - 1)
    BY <1>1 DEF NoGapNoRepeat
  <2>2. b.event.id - 1 \in Int
    <3>1. Len(seen[c]) \in Nat
      BY <1>1 DEF TypeOK
    <3>2. n + 1 \in 1..Len(seen[c])
      BY <3>1
    <3>3. QED  BY <1>3, <3>2
  <2>3. ASSUME Evicted(Watch[c].order, b.event.id - 1)
        PROVE  /\ b.event.id - 1 < stream'[Watch[c].order].nextId
               /\ \A m \in DOMAIN stream'[Watch[c].order].buffer :
                    stream'[Watch[c].order].buffer[m].id # b.event.id - 1
    <3> DEFINE id == b.event.id - 1
    <3>1. id \in Int /\ Evicted(Watch[c].order, id) /\ Watch[c].order \in Orders
      BY <1>2, <2>2, <2>3
    <3> HIDE DEF id
    <3>2. /\ id < stream'[Watch[c].order].nextId
          /\ \A m \in DOMAIN stream'[Watch[c].order].buffer :
               stream'[Watch[c].order].buffer[m].id # id
      BY <3>1 DEF Evicted
    <3>3. QED  BY <3>2 DEF id
  <2> HIDE DEF a, b
  <2>4. QED  BY <2>1, <2>3 DEF a, b
<1>6. QED  BY <1>4, <1>5

(* A stream that opens goes on after the cursor. *)
LEMMA OpenKeepsRead ==
  ASSUME ReadInv, TypeInv', NEW c \in Clients, StreamEvents(c)
  PROVE  SeenOK' /\ NoGapNoRepeat'
<1> USE EventsAssumption
<1>1. /\ TypeInv /\ TypeOK /\ SeenOK /\ NoGapNoRepeat
  BY DEF ReadInv, WatchInv, TypeInv
<1>2. UNCHANGED <<stream, cursor, seen, epoch>>
  BY DEF StreamEvents
<1>3. \A d \in Clients \ {c} : sse'[d] = sse[d]
  BY <1>1 DEF StreamEvents, TypeOK
<1>4. NoGapNoRepeat'
  BY <1>1, <1>2 DEF NoGapNoRepeat, Evicted
<1> DEFINE q == Watch[c].order
           N == stream[q].nextId
<1>5. ASSUME seen[c] # <<>>, sse'[c].pc = "open"
      PROVE  /\ LastSeen(c).life = epoch => LastSeen(c).event.id < FirstUnread(c)'
             /\ FirstUnread(c)' > LastSeen(c).event.id + 1 =>
                  (Evicted(q, FirstUnread(c) - 1))'
  <2>1. /\ cursor[c] = LastSeen(c).event.id
        /\ LastSeen(c).life = epoch => LastSeen(c).event.id < N
    BY <1>1, <1>5 DEF SeenOK
  <2>2. cursor[c] \in Nat
    <3>1. seen[c][Len(seen[c])].event.id \in Nat
      BY <1>1, <1>5, SeenTypes
    <3>2. QED  BY <2>1, <3>1 DEF LastSeen
  <2> DEFINE w == ReplayAfter(q, cursor[c])
  <2>3. sse'[c].wire = w
    <3>1. cursor[c] # Other /\ ParseLastEventId(cursor[c]) = cursor[c]
      BY <2>2 DEF ParseLastEventId
    <3>2. c \in DOMAIN sse
      BY <1>1 DEF TypeOK
    <3>3. QED  BY <1>5, <3>1, <3>2 DEF StreamEvents
  <2>4. /\ cursor[c] < N => cursor[c] < N - Len(w)
        /\ N - Len(w) > cursor[c] + 1 => Evicted(q, N - Len(w) - 1)
    BY <1>1, <2>2, ReplayFacts
  <2>5. FirstUnread(c)' = N - Len(w)
    BY <1>2, <2>3 DEF FirstUnread
  <2> HIDE DEF w, N
  <2>6. FirstUnread(c)' > LastSeen(c).event.id + 1 =>
          (Evicted(q, FirstUnread(c) - 1))'
    <3>1. Evicted(q, N - Len(w) - 1) => (Evicted(q, FirstUnread(c) - 1))'
      BY <1>2, <2>5 DEF Evicted
    <3>2. QED  BY <2>1, <2>4, <2>5, <3>1
  <2>7. QED  BY <2>1, <2>4, <2>5, <2>6
<1>6. SeenOK'
  <2> SUFFICES ASSUME NEW d \in Clients
               PROVE  (/\ \A n \in 1..Len(seen[d]) : seen[d][n].life <= epoch
                       /\ seen[d] # <<>> =>
                            /\ cursor[d] = LastSeen(d).event.id
                            /\ LastSeen(d).life = epoch =>
                                 LastSeen(d).event.id
                                   < stream[Watch[d].order].nextId
                            /\ sse[d].pc = "open" =>
                                 /\ LastSeen(d).life = epoch =>
                                      LastSeen(d).event.id < FirstUnread(d)
                                 /\ FirstUnread(d) > LastSeen(d).event.id + 1 =>
                                      Evicted(Watch[d].order,
                                              FirstUnread(d) - 1))'
    BY DEF SeenOK
  <2>1. LastSeen(d)' = LastSeen(d)
    BY <1>2 DEF LastSeen
  <2>2. /\ \A n \in 1..Len(seen'[d]) : seen'[d][n].life <= epoch'
        /\ seen'[d] # <<>> =>
             /\ cursor'[d] = LastSeen(d).event.id
             /\ LastSeen(d).life = epoch =>
                  LastSeen(d).event.id < stream'[Watch[d].order].nextId
    BY <1>1, <1>2 DEF SeenOK
  <2>3. CASE d = c
    BY <1>2, <1>5, <2>1, <2>2, <2>3
  <2>4. CASE d # c
    <3>1. sse'[d] = sse[d]
      BY <1>3, <2>4
    <3>2. QED  BY <1>1, <1>2, <2>1, <2>2, <3>1 DEF SeenOK, FirstUnread, Evicted
  <2>5. QED  BY <2>3, <2>4
<1>7. QED  BY <1>4, <1>6

(* Reading a frame: it is the one after the last, or the one in between    *)
(* was dropped from the buffer.                                            *)
LEMMA ReceiveKeepsRead ==
  ASSUME ReadInv, TypeInv', NEW c \in Clients, Receive(c)
  PROVE  SeenOK' /\ NoGapNoRepeat'
<1> USE EventsAssumption
<1>1. /\ TypeInv /\ TypeOK /\ SeenOK /\ NoGapNoRepeat /\ WiresOK
  BY DEF ReadInv, WatchInv, TypeInv
<1> DEFINE w == sse[c].wire
           q == Watch[c].order
           N == stream[q].nextId
           f == Head(w)
           s == seen[c]
           L == Len(s)
           frame == [life |-> epoch, event |-> f]
<1>2. /\ w \in Seq(EventType) /\ w # <<>> /\ UNCHANGED <<stream, epoch>>
      /\ seen' = [seen EXCEPT ![c] = Append(s, frame)]
      /\ cursor' = [cursor EXCEPT ![c] = f.id]
      /\ sse' = [sse EXCEPT ![c] = [pc |-> "open", wire |-> Tail(w)]]
  <2>1. sse[c].wire # <<>>
    BY DEF Receive
  <2>2. sse[c].wire \in Seq(EventType)
    BY <1>1 DEF TypeOK
  <2>3. QED  BY <2>1, <2>2 DEF Receive
<1>3. /\ q \in Orders /\ N \in Nat /\ epoch \in Nat
  BY <1>1 DEF TypeOK
<1>4. /\ s \in Seq([life: Nat, event: EventType]) /\ L \in Nat
      /\ \A n \in 1..L : s[n].event.id \in Nat /\ s[n].life \in Nat
      /\ s # <<>> => L \in 1..L
  BY <1>1, SeenTypes
<1>5. /\ f \in EventType /\ f.id \in Nat /\ f = w[1]
      /\ Len(w) \in Nat \ {0} /\ Len(Tail(w)) = Len(w) - 1
  <2>1. f \in EventType /\ f = w[1] /\ Len(w) \in Nat \ {0}
        /\ Len(Tail(w)) = Len(w) - 1
    BY <1>2
  <2>2. QED  BY <2>1 DEF EventType
<1>6. /\ sse[c].pc = "open" /\ Len(w) < N /\ w[1].id = N - Len(w)
      /\ FirstUnread(c) = N - Len(w)
  <2>1. FirstUnread(c) = N - Len(w)
    BY DEF FirstUnread
  <2>2. sse[c].pc = "open" /\ Len(w) < N /\ w[1].id = FirstUnread(c) - 1 + 1
    BY <1>1, <1>2, <1>5 DEF WiresOK
  <2>3. QED  BY <1>3, <1>5, <2>1, <2>2
<1>7. /\ seen'[c] = Append(s, frame) /\ cursor'[c] = f.id
      /\ sse'[c] = [pc |-> "open", wire |-> Tail(w)]
      /\ \A d \in Clients \ {c} : /\ seen'[d] = seen[d] /\ sse'[d] = sse[d]
                                  /\ cursor'[d] = cursor[d]
  BY <1>1, <1>2 DEF TypeOK
<1>8. frame \in [life: Nat, event: EventType]
      /\ frame.life = epoch /\ frame.event = f
  BY <1>3, <1>5
<1> HIDE DEF frame, f, w, N, s, L
<1>9. /\ Len(seen'[c]) = L + 1 /\ seen'[c][L + 1] = frame
      /\ \A n \in 1..L : seen'[c][n] = s[n]
  BY <1>4, <1>7, <1>8 DEF L
<1>10. /\ LastSeen(c)' = frame
       /\ FirstUnread(c)' = f.id + 1
  <2>1. LastSeen(c)' = frame
    BY <1>9 DEF LastSeen
  <2>2. sse'[c].wire = Tail(w) /\ stream' = stream
    BY <1>2, <1>7
  <2>3. FirstUnread(c)' = N - Len(Tail(w))
    BY <2>2 DEF FirstUnread, N
  <2>4. QED  BY <1>3, <1>5, <1>6, <2>1, <2>3
<1>11. s # <<>> => /\ s[L].life = epoch => s[L].event.id < f.id
                   /\ f.id > s[L].event.id + 1 => Evicted(q, f.id - 1)
  <2>1. LastSeen(c) = s[L]
    BY DEF LastSeen, s, L
  <2>2. f.id = FirstUnread(c)
    BY <1>5, <1>6
  <2>3. QED  BY <1>1, <1>6, <2>1, <2>2 DEF SeenOK, s
<1>12. SeenOK'
  <2> SUFFICES ASSUME NEW d \in Clients
               PROVE  (/\ \A n \in 1..Len(seen[d]) : seen[d][n].life <= epoch
                       /\ seen[d] # <<>> =>
                            /\ cursor[d] = LastSeen(d).event.id
                            /\ LastSeen(d).life = epoch =>
                                 LastSeen(d).event.id
                                   < stream[Watch[d].order].nextId
                            /\ sse[d].pc = "open" =>
                                 /\ LastSeen(d).life = epoch =>
                                      LastSeen(d).event.id < FirstUnread(d)
                                 /\ FirstUnread(d) > LastSeen(d).event.id + 1 =>
                                      Evicted(Watch[d].order,
                                              FirstUnread(d) - 1))'
    BY DEF SeenOK
  <2>1. CASE d = c
    <3>1. ASSUME NEW n \in 1..(L + 1) PROVE seen'[c][n].life <= epoch
      <4>1. CASE n = L + 1
        BY <1>3, <1>8, <1>9, <4>1
      <4>2. CASE n # L + 1
        <5>1. n \in 1..L
          BY <1>4, <4>2
        <5>2. s[n].life <= epoch
          BY <1>1, <5>1 DEF SeenOK, s, L
        <5>3. QED  BY <1>9, <5>1, <5>2
      <4>3. QED  BY <4>1, <4>2
    <3>2. cursor'[c] = LastSeen(c)'.event.id
      BY <1>7, <1>8, <1>10
    <3>3. LastSeen(c)'.event.id < stream'[q].nextId
      <4>1. stream'[q].nextId = N
        BY <1>2 DEF N
      <4>2. f.id < N
        BY <1>3, <1>5, <1>6
      <4>3. QED  BY <1>8, <1>10, <4>1, <4>2
    <3>4. /\ LastSeen(c)'.event.id < FirstUnread(c)'
          /\ ~(FirstUnread(c)' > LastSeen(c)'.event.id + 1)
      BY <1>5, <1>8, <1>10
    <3>5. QED  BY <1>2, <1>9, <2>1, <3>1, <3>2, <3>3, <3>4
  <2>2. CASE d # c
    <3>1. /\ seen'[d] = seen[d] /\ sse'[d] = sse[d] /\ cursor'[d] = cursor[d]
      BY <1>7, <2>2
    <3>2. /\ LastSeen(d)' = LastSeen(d) /\ FirstUnread(d)' = FirstUnread(d)
      BY <1>2, <3>1 DEF LastSeen, FirstUnread
    <3>3. QED  BY <1>1, <1>2, <3>1, <3>2 DEF SeenOK, Evicted
  <2>3. QED  BY <2>1, <2>2
<1>13. NoGapNoRepeat'
  <2> SUFFICES ASSUME NEW d \in Clients, NEW n \in 1..(Len(seen'[d]) - 1)
               PROVE  /\ seen'[d][n].life = seen'[d][n + 1].life =>
                           seen'[d][n].event.id < seen'[d][n + 1].event.id
                      /\ /\ seen'[d][n + 1].life = epoch
                         /\ seen'[d][n + 1].event.id > seen'[d][n].event.id + 1
                         => Evicted(Watch[d].order, seen'[d][n + 1].event.id - 1)
    BY <1>2 DEF NoGapNoRepeat, Evicted
  <2>1. CASE d = c /\ n = L
    <3>1. s # <<>> /\ n \in 1..L
      BY <1>4, <1>9, <2>1 DEF L
    <3>2. seen'[d][n] = s[L] /\ seen'[d][n + 1] = frame
      BY <1>9, <2>1, <3>1
    <3>3. QED  BY <1>8, <1>11, <2>1, <3>1, <3>2
  <2>2. CASE d = c /\ n # L
    <3>1. n \in 1..(L - 1) /\ n \in 1..L /\ n + 1 \in 1..L
      BY <1>4, <1>9, <2>2
    <3>2. seen'[d][n] = seen[c][n] /\ seen'[d][n + 1] = seen[c][n + 1]
      BY <1>9, <2>2, <3>1 DEF s
    <3>3. QED  BY <1>1, <2>2, <3>1, <3>2 DEF NoGapNoRepeat, L, s
  <2>3. CASE d # c
    BY <1>1, <1>7, <2>3 DEF NoGapNoRepeat
  <2>4. QED  BY <2>1, <2>2, <2>3
<1>14. QED  BY <1>12, <1>13

(* Every step preserves ReadInv. *)
LEMMA ReadStep == ReadInv /\ [Next]_vars => ReadInv'
<1> SUFFICES ASSUME ReadInv, [Next]_vars PROVE ReadInv'
  OBVIOUS
<1>1. /\ WatchInv /\ WatchInv' /\ TypeInv /\ TypeInv' /\ TypeOK /\ WiresOK
      /\ SeenOK /\ NoGapNoRepeat
  BY WatchStep DEF ReadInv, WatchInv, TypeInv
<1>2. SUFFICES SeenOK' /\ NoGapNoRepeat'
  BY <1>1 DEF ReadInv
<1>3. \A o \in Orders : stream[o].nextId \in Nat
  BY <1>1 DEF TypeOK
<1>4. CASE UNCHANGED <<stream, sse, cursor, sock, seen, heard, epoch>>
  <2>1. \A o \in Orders, id \in Int : Evicted(o, id) => Evicted(o, id)'
    BY <1>4 DEF Evicted
  <2>2. \A c \in Clients : FirstUnread(c)' = FirstUnread(c)
    BY <1>4 DEF FirstUnread
  <2>3. QED  BY <1>1, <1>3, <1>4, <2>1, <2>2, NothingRead
<1>5. ASSUME NEW u \in Updates, PublishStatus(u)
      PROVE  SeenOK' /\ NoGapNoRepeat'
  <2> DEFINE o == upd[u].in.order
             s == upd[u].in.status
  <2>1. /\ o \in Orders /\ s \in Allowed /\ Publish(o, s)
        /\ UNCHANGED <<cursor, seen, epoch>>
    BY <1>1, <1>5, PublishArguments
  <2> HIDE DEF o, s
  <2>2. /\ stream'[o].nextId = stream[o].nextId + 1
        /\ \A q \in Orders \ {o} : stream'[q] = stream[q]
        /\ \A q \in Orders, id \in Int : Evicted(q, id) => Evicted(q, id)'
    BY <1>1, <2>1, PublishStreams
  <2>3. \A q \in Orders : stream'[q].nextId >= stream[q].nextId
    BY <1>3, <2>1, <2>2
  <2>4. \A c \in Clients : sse'[c].pc = sse[c].pc
    BY <1>1, <2>1, PublishWires
  <2>5. \A c \in Clients : sse[c].pc = "open" => FirstUnread(c)' = FirstUnread(c)
    BY <1>1, <2>1, PublishKeepsWires
  <2>6. QED  BY <1>1, <2>1, <2>2, <2>3, <2>4, <2>5, NothingRead
<1>6. ASSUME NEW c \in Clients, Connect(c) \/ ClientFault(c)
      PROVE  SeenOK' /\ NoGapNoRepeat'
  <2>1. UNCHANGED <<stream, cursor, seen, epoch>>
    BY <1>6 DEF Connect, ClientFault, Disconnect, CheckFails
  <2>2. \A o \in Orders, id \in Int : Evicted(o, id) => Evicted(o, id)'
    BY <2>1 DEF Evicted
  <2>3. /\ sse'[c].pc # "open"
        /\ \A d \in Clients \ {c} : sse'[d] = sse[d]
    BY <1>1, <1>6 DEF Connect, ClientFault, Disconnect, CheckFails, Away, TypeOK
  <2>4. \A d \in Clients : sse'[d].pc = "open" =>
          sse[d].pc = "open" /\ FirstUnread(d)' = FirstUnread(d)
    BY <2>1, <2>3 DEF FirstUnread
  <2>5. QED  BY <1>1, <1>3, <2>1, <2>2, <2>4, NothingRead
<1>7. ASSUME NEW s \in Sockets, Join(s) \/ JoinRoom(s) \/ SocketLost(s)
      PROVE  SeenOK' /\ NoGapNoRepeat'
  <2>1. UNCHANGED <<stream, sse, cursor, seen, epoch>>
    BY <1>7 DEF Join, JoinRoom, SocketLost
  <2>2. \A o \in Orders, id \in Int : Evicted(o, id) => Evicted(o, id)'
    BY <2>1 DEF Evicted
  <2>3. \A c \in Clients : FirstUnread(c)' = FirstUnread(c)
    BY <2>1 DEF FirstUnread
  <2>4. QED  BY <1>1, <1>3, <2>1, <2>2, <2>3, NothingRead
<1>8. CASE Restart
  <2>1. UNCHANGED <<cursor, seen>> /\ epoch' = epoch + 1 /\ epoch \in Nat
    BY <1>1, <1>8 DEF Restart, TypeOK
  <2>2. \A c \in Clients : sse'[c].pc # "open"
    BY <1>8 DEF Restart, Away
  <2>3. ASSUME NEW c \in Clients, NEW n \in 1..Len(seen[c])
        PROVE  seen[c][n].life < epoch' /\ seen[c][n].life \in Nat
    BY <1>1, <2>1, SeenTypes DEF SeenOK
  <2>4. SeenOK'
    <3> SUFFICES ASSUME NEW c \in Clients
                 PROVE  (/\ \A n \in 1..Len(seen[c]) : seen[c][n].life <= epoch
                         /\ seen[c] # <<>> =>
                              /\ cursor[c] = LastSeen(c).event.id
                              /\ LastSeen(c).life = epoch =>
                                   LastSeen(c).event.id
                                     < stream[Watch[c].order].nextId
                              /\ sse[c].pc # "open")'
      BY DEF SeenOK
    <3>1. LastSeen(c)' = LastSeen(c)
      BY <2>1 DEF LastSeen
    <3>2. seen[c] # <<>> => LastSeen(c).life # epoch'
      <4>1. seen[c] # <<>> => Len(seen[c]) \in 1..Len(seen[c])
        BY <1>1, SeenTypes
      <4>2. QED  BY <2>1, <2>3, <4>1 DEF LastSeen
    <3>3. \A n \in 1..Len(seen[c]) : seen[c][n].life <= epoch'
      BY <2>1, <2>3
    <3>4. QED  BY <1>1, <2>1, <2>2, <3>1, <3>2, <3>3 DEF SeenOK
  <2>5. NoGapNoRepeat'
    <3> SUFFICES ASSUME NEW c \in Clients, NEW n \in 1..(Len(seen[c]) - 1)
                 PROVE  /\ seen[c][n].life = seen[c][n + 1].life =>
                             seen[c][n].event.id < seen[c][n + 1].event.id
                        /\ seen[c][n + 1].life # epoch'
      BY <2>1 DEF NoGapNoRepeat
    <3>1. n + 1 \in 1..Len(seen[c])
      BY <1>1, SeenTypes
    <3>2. QED  BY SMTT(30), <1>1, <2>1, <2>3, <3>1 DEF NoGapNoRepeat
  <2>6. QED  BY <2>4, <2>5
<1>9. QED
  BY <1>1, <1>4, <1>5, <1>6, <1>7, <1>8, KindsOfSteps, OpenKeepsRead,
     ReceiveKeepsRead DEF ClientStep

(* ReadInv holds in every reachable state. *)
LEMMA ReadAlways == Spec => []ReadInv
BY ReadInit, ReadStep, PTL DEF Spec

(***************************************************************************)
(* Replay and live events leave no gap and no overlap: over any number of  *)
(* reconnections a client reads every event once, in order, except those   *)
(* the bounded buffer had dropped before the client came back.             *)
(***************************************************************************)
THEOREM StreamsHaveNoGaps == Spec => []NoGapNoRepeat
<1>1. ReadInv => NoGapNoRepeat
  BY DEF ReadInv
<1>2. QED  BY <1>1, ReadAlways, PTL

-----------------------------------------------------------------------------
(* BusInv holds at the start. *)
LEMMA BusInit == Init => BusInv
<1> SUFFICES ASSUME Init PROVE BusInv
  OBVIOUS
<1>1. BusOK
  BY DEF Init, BusOK, Unpublished
<1>2. BusFollowsTable
  BY DEF Init, BusFollowsTable, NewStream
<1>3. QED  BY <1>1, <1>2, InitTypes DEF BusInv

(* Every step preserves BusInv. *)
LEMMA BusStep == BusInv /\ [Next]_vars => BusInv'
<1> SUFFICES ASSUME BusInv, [Next]_vars PROVE BusInv'
  OBVIOUS
<1>1. /\ TypeInv /\ TypeInv' /\ TypeOK /\ UpdatesOK /\ BusOK /\ BusFollowsTable
  BY StepTypes DEF BusInv, TypeInv
<1>2. SUFFICES BusOK' /\ BusFollowsTable'
  BY <1>1 DEF BusInv
(* A step that commits and publishes nothing *)
<1>3. ASSUME UNCHANGED <<status, stream>>, raced \subseteq raced',
             \A u \in Updates : /\ upd'[u].pc = "publish" <=> upd[u].pc = "publish"
                                /\ upd[u].pc = "publish" => upd'[u] = upd[u]
      PROVE  BusOK' /\ BusFollowsTable'
  <2>1. \A o \in Orders : Unpublished(o)' = Unpublished(o)
    BY <1>3 DEF Unpublished
  <2>2. \A o \in Orders : \A u \in Unpublished(o) : upd'[u] = upd[u]
    BY <1>3 DEF Unpublished
  <2>3. BusOK'
    BY <1>1, <1>3, <2>1, <2>2 DEF BusOK
  <2>4. BusFollowsTable'
    BY <1>1, <1>3, <2>1 DEF BusFollowsTable
  <2>5. QED  BY <2>3, <2>4
<1>4. ASSUME NEW u \in Updates, UpdateStatus(u) \/ LoadOrder(u) \/ UpdateRow(u)
      PROVE  BusOK' /\ BusFollowsTable'
  <2>1. UNCHANGED <<status, stream, raced>>
    BY <1>4 DEF UpdateStatus, LoadOrder, UpdateRow, rowVars
  <2>2. /\ \A v \in Updates \ {u} : upd'[v] = upd[v]
        /\ upd[u].pc # "publish" /\ upd'[u].pc # "publish"
    <3>1. CASE UpdateStatus(u)
      BY <1>1, <3>1 DEF UpdateStatus, TypeOK
    <3>2. CASE LoadOrder(u)
      <4>1. PICK p \in {"update", "done"} : GoTo(u, p)
        BY <3>2 DEF LoadOrder
      <4>2. QED  BY <1>1, <3>2, <4>1, GoToKeeps DEF LoadOrder
    <3>3. CASE UpdateRow(u)
      BY <1>1, <3>3, GoToKeeps DEF UpdateRow
    <3>4. QED  BY <1>4, <3>1, <3>2, <3>3
  <2>3. QED  BY <1>3, <2>1, <2>2
<1>5. ASSUME NEW u \in Updates, CommitStatus(u)
      PROVE  BusOK' /\ BusFollowsTable'
  <2>0. PICK o \in Orders : o = upd[u].in.order
    BY <1>1, <1>5 DEF CommitStatus, UpdatesOK
  <2>1. /\ upd[u].pc = "commit" /\ lock[o] = u
        /\ \A q \in Orders \ {o} : lock[q] # u
        /\ status' = StatusAfter({u}) /\ UNCHANGED stream
        /\ raced' = IF Unpublished(o) = {} THEN raced \ {o} ELSE raced \cup {o}
    BY <1>1, <1>5, <2>0, EventsAssumption DEF CommitStatus, UpdatesOK
  <2>2. /\ upd'[u].pc = "publish" /\ upd'[u].in = upd[u].in
        /\ \A v \in Updates \ {u} : upd'[v] = upd[v]
    BY <1>1, <1>5, GoToKeeps DEF CommitStatus
  <2>3. /\ status'[o] = upd[u].in.status
        /\ \A q \in Orders \ {o} : status'[q] = status[q]
    BY <2>1 DEF StatusAfter
  <2>4. /\ Unpublished(o)' = Unpublished(o) \cup {u}
        /\ \A q \in Orders \ {o} : Unpublished(q)' = Unpublished(q)
    BY <2>0, <2>1, <2>2 DEF Unpublished
  <2>5. \A q \in Orders \ {o} : \A v \in Unpublished(q) : upd'[v] = upd[v]
    BY <2>1, <2>2 DEF Unpublished
  <2>6. BusOK'
    <3> SUFFICES ASSUME NEW q \in Orders \ raced', NEW v \in Unpublished(q)'
                 PROVE  Unpublished(q)' = {v} /\ status'[q] = upd'[v].in.status
      BY DEF BusOK
    <3>1. CASE q = o
      BY <2>1, <2>2, <2>3, <2>4, <3>1
    <3>2. CASE q # o
      <4>1. q \in Orders \ raced /\ v \in Unpublished(q)
        BY <2>1, <2>4, <3>2
      <4>2. Unpublished(q) = {v} /\ status[q] = upd[v].in.status
        BY <1>1, <4>1 DEF BusOK
      <4>3. QED  BY <2>3, <2>4, <2>5, <3>2, <4>1, <4>2
    <3>3. QED  BY <3>1, <3>2
  <2>7. BusFollowsTable'
    <3> SUFFICES ASSUME NEW q \in Orders \ raced', Unpublished(q)' = {},
                        stream'[q].buffer # <<>>
                 PROVE  stream'[q].buffer[Len(stream'[q].buffer)].status
                          = status'[q]
      BY DEF BusFollowsTable
    <3>1. q # o
      BY <2>4
    <3>2. QED  BY <1>1, <2>1, <2>3, <2>4, <3>1 DEF BusFollowsTable
  <2>8. QED  BY <2>6, <2>7
<1>6. ASSUME NEW u \in Updates, PublishStatus(u)
      PROVE  BusOK' /\ BusFollowsTable'
  <2> DEFINE o == upd[u].in.order
             s == upd[u].in.status
  <2>1. /\ o \in Orders /\ s \in Allowed /\ Publish(o, s)
        /\ UNCHANGED <<status, raced>>
    BY <1>1, <1>6, PublishArguments
  <2>2. /\ upd'[u].pc = "done" /\ upd[u].pc = "publish"
        /\ \A v \in Updates \ {u} : upd'[v] = upd[v]
    BY <1>1, <1>6, GoToKeeps DEF PublishStatus
  <2>3. /\ u \in Unpublished(o)
        /\ \A q \in Orders : Unpublished(q)' = Unpublished(q) \ {u}
        /\ \A q \in Orders \ {o} : u \notin Unpublished(q)
    BY <2>2 DEF Unpublished
  <2>4. o \notin raced => status[o] = s
    BY <1>1, <2>1, <2>3 DEF BusOK
  <2> HIDE DEF o, s
  <2>5. /\ stream'[o].buffer[Len(stream'[o].buffer)].status = s
        /\ \A q \in Orders \ {o} : stream'[q] = stream[q]
    BY <1>1, <2>1, PublishStreams
  <2>6. \A q \in Orders : Unpublished(q) \subseteq Updates
    BY DEF Unpublished
  <2>7. BusOK'
    <3> SUFFICES ASSUME NEW q \in Orders \ raced, NEW v \in Unpublished(q)'
                 PROVE  Unpublished(q)' = {v} /\ status[q] = upd'[v].in.status
      BY <2>1 DEF BusOK
    <3>1. v \in Unpublished(q) /\ v # u
      BY <2>3
    <3>2. Unpublished(q) = {v} /\ status[q] = upd[v].in.status
      BY <1>1, <3>1 DEF BusOK
    <3>3. QED  BY <2>2, <2>3, <2>6, <3>1, <3>2
  <2>8. BusFollowsTable'
    <3> SUFFICES ASSUME NEW q \in Orders \ raced, Unpublished(q)' = {},
                        stream'[q].buffer # <<>>
                 PROVE  stream'[q].buffer[Len(stream'[q].buffer)].status
                          = status[q]
      BY <2>1 DEF BusFollowsTable
    <3>1. CASE q = o
      BY <2>4, <2>5, <3>1
    <3>2. CASE q # o
      <4>1. Unpublished(q) = {} /\ stream'[q] = stream[q]
        BY <2>3, <2>5, <3>2
      <4>2. QED  BY <1>1, <4>1 DEF BusFollowsTable
    <3>3. QED  BY <3>1, <3>2
  <2>9. QED  BY <2>7, <2>8
<1>7. ASSUME NEW u \in Updates, UpdateFails(u)
      PROVE  BusOK' /\ BusFollowsTable'
  <2>1. /\ upd[u].pc \in {"load", "update", "commit"} /\ UNCHANGED stream
        /\ raced \subseteq raced'
    BY <1>7 DEF UpdateFails
  <2>2. /\ upd'[u].pc = "done"
        /\ \A v \in Updates \ {u} : upd'[v] = upd[v]
    BY <1>1, <1>7, GoToKeeps DEF UpdateFails
  <2>3. CASE UNCHANGED status
    BY <1>3, <2>1, <2>2, <2>3
  <2>4. CASE ~UNCHANGED status
    <3>0. upd[u].pc = "commit"
      BY <1>7, <2>4 DEF UpdateFails
    <3>1. PICK o \in Orders :
            o = upd[u].in.order /\ status' = StatusAfter({u})
            /\ raced' = raced \cup {o}
      BY <1>1, <1>7, <2>4 DEF UpdateFails, UpdatesOK
    <3>2. \A q \in Orders \ {o} : status'[q] = status[q]
      <4>1. \A q \in Orders \ {o} : lock[q] # u
        BY <1>1, <3>1, EventsAssumption DEF UpdatesOK
      <4>2. QED  BY <3>1, <4>1 DEF StatusAfter
    <3>3. /\ \A q \in Orders : Unpublished(q)' = Unpublished(q)
          /\ \A q \in Orders : \A v \in Unpublished(q) : upd'[v] = upd[v]
      BY <2>1, <2>2 DEF Unpublished
    <3>4. BusOK'
      <4> SUFFICES ASSUME NEW q \in Orders \ raced', NEW v \in Unpublished(q)'
                   PROVE  Unpublished(q)' = {v} /\ status'[q] = upd'[v].in.status
        BY DEF BusOK
      <4>1. q \in Orders \ raced /\ v \in Unpublished(q) /\ q # o
        BY <3>1, <3>3
      <4>2. Unpublished(q) = {v} /\ status[q] = upd[v].in.status
        BY <1>1, <4>1 DEF BusOK
      <4>3. QED  BY <3>2, <3>3, <4>1, <4>2
    <3>5. BusFollowsTable'
      BY <1>1, <2>1, <3>1, <3>2, <3>3 DEF BusFollowsTable
    <3>6. QED  BY <3>4, <3>5
  <2>5. QED  BY <2>3, <2>4
<1>8. CASE Restart
  <2>1. \A o \in Orders : Unpublished(o)' = {}
    BY <1>8 DEF Restart, Active, Unpublished
  <2>2. \A o \in Orders : stream'[o].buffer = <<>>
    BY <1>8 DEF Restart, NewStream
  <2>3. QED  BY <2>1, <2>2 DEF BusOK, BusFollowsTable
<1>9. CASE UNCHANGED <<status, stream, raced, upd>>
  BY <1>3, <1>9
<1>10. ASSUME \/ \E c \in Clients : ClientStep(c) \/ ClientFault(c)
              \/ \E s \in Sockets : Join(s) \/ JoinRoom(s) \/ SocketLost(s)
       PROVE  UNCHANGED <<status, stream, raced, upd>>
  BY <1>10 DEF ClientStep, Connect, StreamEvents, Receive, ClientFault,
               Disconnect, CheckFails, Join, JoinRoom, SocketLost, rowVars
<1>11. QED
  BY <1>4, <1>5, <1>6, <1>7, <1>8, <1>9, <1>10 DEF Next, UpdateStep, AllQuiet,
     vars

(* BusInv holds in every reachable state. *)
LEMMA BusAlways == Spec => []BusInv
BY BusInit, BusStep, PTL DEF Spec

(***************************************************************************)
(* The newest event on the bus shows the status of the row, unless the     *)
(* last commit met an update that had committed and not published, or the  *)
(* call that committed failed and never published.                         *)
(***************************************************************************)
THEOREM BusAgreesWithTable == Spec => []BusFollowsTable
<1>1. BusInv => BusFollowsTable
  BY DEF BusInv
<1>2. QED  BY <1>1, BusAlways, PTL
=============================================================================
