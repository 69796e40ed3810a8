---------------------------- MODULE OrdersProofs ----------------------------
(***************************************************************************)
(* Proofs of the safety properties of Orders, for any number of calls,     *)
(* accounts, headers, keys and listings, and any number of restarts.       *)
(***************************************************************************)
EXTENDS Orders, SumTheorems, SequenceTheorems

Places == {"idle", "product", "buyer", "checkout", "loaded", "done", "lost"}
Fields == {"at", "post", "seller", "title", "found", "order"}

ListingType == [id : Nat, title : Titles, quantity : Nat,
                status : {"active", "archived"}, seller : STRING]

OrderType == [id : Calls, buyer : {p.user : p \in Posts},
              seller : STRING \cup {None}, items : {Items[p.body] : p \in Posts},
              status : {"paid"}]

(* Every id of a listing was given out before the next one, and only once. *)
StoreOK ==
  /\ listings \in Seq(ListingType)
  /\ orders \in Seq(OrderType)
  /\ events \in Nat
  /\ \A i \in DOMAIN listings :
       /\ listings[i].id <= Len(Seeded) + events
       /\ \A j \in DOMAIN listings : listings[i].id = listings[j].id => i = j

(* A call that was made has its post, and an answer exactly when it is over. *)
CallsOK ==
  /\ DOMAIN call = Calls /\ DOMAIN reply = Calls
  /\ \A r \in Calls :
       /\ DOMAIN call[r] = Fields
       /\ call[r].at \in Places
       /\ call[r].seller \in STRING \cup {None}
       /\ call[r].at # "idle" => call[r].post \in Posts
       /\ reply[r].code \in {0, 201, 403, 404, 409, 422, 500}
       /\ reply[r].code # 0 <=> call[r].at = "done"
       /\ IF reply[r].code = 201 THEN reply[r].order.id \in Calls
          ELSE reply[r].order = None

TypeInv == StoreOK /\ CallsOK

(* The database: whoever placed an order owns its key alone, a fresh       *)
(* outcome is an order that was placed, and a replay names the owner of    *)
(* the key it was called with, placed with the same hash.                  *)
KeysOK ==
  /\ DOMAIN called = Calls /\ DOMAIN outcome = Calls
  /\ placed \subseteq Calls
  /\ \A r \in placed : called[r] \in CheckoutInputs
                       /\ \E t \in taken : t.by = r
  /\ \A t \in taken : /\ t.by \in placed
                      /\ t.user = called[t.by].user
                      /\ t.key = called[t.by].key
                      /\ t.hash = called[t.by].hash
  /\ \A t, u \in taken : t.user = u.user /\ t.key = u.key => t.by = u.by
  /\ \A r \in Calls :
       /\ DOMAIN outcome[r] = {"kind", "by"}
       /\ called[r] = NoInput \/ called[r] \in CheckoutInputs
       /\ outcome[r].kind # "none" => called[r] \in CheckoutInputs
       /\ outcome[r].kind = "fresh" => r \in placed
       /\ outcome[r].kind = "replay" => \A o \in outcome[r].by :
            /\ o \in placed
            /\ called[o].user = called[r].user
            /\ called[o].key = called[r].key
            /\ called[o].hash = called[r].hash

(* With the orders P placed by the inputs C: o is in the database, charged *)
(* to the account the header names, under this key and hash.               *)
OwnsIn(P, C, o, header, key, hash) ==
  /\ o \in P
  /\ C[o].key = key /\ C[o].hash = hash
  /\ \E a \in resolveUser(header, "buyer") : a.id = C[o].user

(* ... or it is so for a post that is cached under the string k *)
BackedIn(P, C, o, k, hash) ==
  \E q \in Posts : CacheKey(q) = k /\ OwnsIn(P, C, o, q.user, q.key, hash)

(* A checkout in flight was called with what its post says. *)
Faithful(r, p, C) ==
  /\ C[r] \in CheckoutInputs
  /\ C[r].key = p.key /\ C[r].hash = hashBody(p.body)
  /\ \E a \in resolveUser(p.user, "buyer") : a.id = C[r].user

(* Whatever create holds is owned by its caller, whatever it caches or     *)
(* answers by a caller with the same cache key.                            *)
AnswersOK ==
  /\ \A r \in Calls :
       LET p == call[r].post
       IN  /\ call[r].at = "checkout" => Faithful(r, p, called)
           /\ call[r].at = "loaded" =>
                OwnsIn(placed, called, call[r].order.id, p.user, p.key,
                       hashBody(p.body))
           /\ reply[r].code = 201 =>
                BackedIn(placed, called, reply[r].order.id, CacheKey(p),
                         hashBody(p.body))
  /\ \A e \in idempotencyStore :
       BackedIn(placed, called, e.body.id, e.cacheKey, e.bodyHash)

(* An order is listed once, by the call that placed it when it was over. *)
ListedOK ==
  \A i \in DOMAIN orders :
    /\ orders[i].id \in placed
    /\ \E a \in resolveUser(orders[i].buyer, "buyer") :
         a.id = called[orders[i].id].user
    /\ call[orders[i].id].at = "done"
    /\ \A j \in DOMAIN orders : orders[i].id = orders[j].id => i = j

OrdersInv == TypeInv /\ KeysOK /\ AnswersOK /\ ListedOK

(* What a list request cuts into pages: a map of the store, and the        *)
(* positions the request selects                                           *)
BaseOf(ls, os, feed) == IF feed.kind = "listings" THEN ls ELSE os

PosOf(ls, os, feed) ==
  IF feed.kind = "listings" THEN {i \in DOMAIN ls : ls[i].status = "active"}
  ELSE IF feed.role = "buyer" THEN {i \in DOMAIN os : os[i].buyer = feed.user}
  ELSE {i \in DOMAIN os : os[i].seller = feed.user}

(* What a client knows, or need not be told *)
Told(w) == ToSet(w.seen) \cup w.arrived

(* A walk w over the positions P of a map b: until it is over, everything  *)
(* selected up to its cursor was told, and, if it never strayed, nothing   *)
(* after its cursor was seen.  The cursor itself may have left the list,   *)
(* and come back.                                                          *)
WalkOK(w, b, P) ==
  /\ w.open /\ w.cursor = None => w.seen = <<>>
  /\ w.open /\ w.cursor # None =>
       /\ w.cursor \in ToSet(w.seen)
       /\ \A k \in DOMAIN b : b[k].id = w.cursor =>
            \A j \in P : j <= k => b[j].id \in Told(w)
  /\ ~w.open => \A j \in P : b[j].id \in Told(w)
  /\ ~w.strayed => IsInjective(w.seen)
  /\ ~w.strayed /\ w.open => \A k, j \in DOMAIN b :
       b[k].id = w.cursor /\ b[j].id \in ToSet(w.seen) => j <= k

WalkType == [feed : Feeds \cup {None}, cursor : Nat \cup Calls \cup {None},
             seen : Seq(Nat \cup Calls), open : BOOLEAN,
             arrived : SUBSET (Nat \cup Calls), strayed : BOOLEAN]

(* An id that was seen is never given out again, and the listings of a new *)
(* process are where they were.                                            *)
SeenOK ==
  /\ walk \in WalkType
  /\ walk.feed = None => walk.seen = <<>> /\ ~walk.open
  /\ walk.feed # None => Authorised(walk.feed)
  /\ \A x \in ToSet(walk.seen) :
       IF walk.feed.kind = "listings" THEN x \in Nat /\ x <= Len(Seeded) + events
       ELSE x \in Calls /\ call[x].at = "done"
  /\ \A i \in DOMAIN Seeded :
       i \in DOMAIN listings /\ listings[i].id = Seeded[i].id

WalkInv ==
  /\ OrdersInv /\ SeenOK
  /\ walk.feed # None =>
       WalkOK(walk, BaseOf(listings, orders, walk.feed),
              PosOf(listings, orders, walk.feed))

-----------------------------------------------------------------------------
(* What every input of a checkout holds *)
LEMMA InputFacts ==
  ASSUME NEW in \in CheckoutInputs
  PROVE  /\ in # NoInput /\ in.key # NoKey /\ in.hash # NoHash
<1>1. PICK p \in Posts : \E u \in Users, ps \in [DOMAIN Items[p.body] -> Products] :
        in = [user |-> u, key |-> p.key, hash |-> hashBody(p.body),
              items |-> [i \in DOMAIN ps |->
                          [productId |-> ps[i],
                           quantity |-> Items[p.body][i].quantity]],
              failAfterOutbox |-> FALSE]
  BY DEF CheckoutInputs
<1>2. in.key = p.key /\ in.hash = hashBody(p.body)
  BY <1>1
<1>3. QED
  BY <1>2, OrdersAssumptions, InputsAssumption

(* What a body orders of a listing is an integer. *)
LEMMA OrderedType ==
  ASSUME NEW p \in Posts, NEW id
  PROVE  Ordered(Items[p.body], id) \in Int
<1> DEFINE items == Items[p.body]
           f == [i \in DOMAIN items |-> items[i].quantity]
           S == {i \in DOMAIN items : items[i].listing_id = id}
<1>1. items \in Seq([listing_id : Nat, quantity : Nat])
  BY OrdersAssumptions
<1>2. DOMAIN items = 1..Len(items) /\ Len(items) \in Nat
  BY <1>1
<1>3. IsFiniteSet(S)
  <2>1. IsFiniteSet(1..Len(items))
    BY <1>2, FS_Interval
  <2>2. S \subseteq 1..Len(items)
    BY <1>2
  <2> HIDE DEF S, items
  <2>3. QED  BY <2>1, <2>2, FS_Subset
<1>4. \A i \in S : f[i] \in Int
  <2>1. \A i \in DOMAIN items : items[i] \in [listing_id : Nat, quantity : Nat]
    <3> DEFINE R == [listing_id : Nat, quantity : Nat]
    <3>1. items \in Seq(R)
      BY <1>1
    <3> HIDE DEF items, R
    <3>2. \A i \in 1..Len(items) : items[i] \in R
      BY <3>1
    <3>3. QED  BY <1>2, <3>2 DEF R
  <2>2. \A i \in DOMAIN items : items[i].quantity \in Int
    BY <2>1
  <2>3. QED  BY <2>2
<1>5. SumFunctionOnSet(f, S) \in Int
  <2> HIDE DEF f, S
  <2> QED  BY <1>3, <1>4, SumType
<1>6. QED
  BY <1>5 DEF Ordered

(* The account a header names is one. *)
LEMMA OneAccount ==
  ASSUME NEW h, NEW a \in resolveUser(h, "buyer"), NEW b \in resolveUser(h, "buyer")
  PROVE  a = b
<1>1. a \in Accounts /\ b \in Accounts
  BY DEF resolveUser
<1>2. CASE h \in DOMAIN Alias
  BY <1>1, <1>2, OrdersAssumptions DEF resolveUser
<1>3. CASE h \notin DOMAIN Alias
  BY <1>1, <1>3, OrdersAssumptions DEF resolveUser
<1>4. QED  BY <1>2, <1>3

-----------------------------------------------------------------------------
(* The invariant holds in the first state. *)
LEMMA InitInv == Init => OrdersInv
<1> SUFFICES ASSUME Init PROVE OrdersInv
  OBVIOUS
<1>1. StoreOK
  <2>1. Seeded \in Seq(ListingType)
    BY CatalogAssumptions DEF ListingType
  <2>2. \A i \in DOMAIN Seeded : Seeded[i].id \in Nat /\ Len(Seeded) \in Nat
    <3>1. \A i \in DOMAIN Seeded : Seeded[i] \in ListingType
      BY <2>1
    <3>2. Len(Seeded) \in Nat
      BY <2>1
    <3>3. QED  BY <3>1, <3>2 DEF ListingType
  <2>3. QED
    BY <2>1, <2>2, CatalogAssumptions DEF Init, CatalogInit, StoreOK
<1>2. CallsOK
  BY DEF Init, CallsOK, Idle, NoReply, Fields, Places
<1>3. KeysOK
  <2>1. /\ called = [r \in Calls |-> NoInput] /\ placed = {} /\ taken = {}
        /\ outcome = [r \in Calls |-> [kind |-> "none", by |-> {}]]
    BY DEF Init, Txn!Init, Txn!Pending
  <2>2. /\ DOMAIN called = Calls /\ DOMAIN outcome = Calls
        /\ \A r \in Calls : /\ called[r] = NoInput
                            /\ outcome[r].kind = "none"
                            /\ DOMAIN outcome[r] = {"kind", "by"}
    BY <2>1
  <2>3. QED
    BY <2>1, <2>2 DEF KeysOK
<1>4. AnswersOK
  BY DEF Init, CatalogInit, AnswersOK, Idle, NoReply
<1>5. ListedOK
  BY DEF Init, CatalogInit, ListedOK
<1>6. QED
  BY <1>1, <1>2, <1>3, <1>4, <1>5 DEF OrdersInv, TypeInv

-----------------------------------------------------------------------------
(* The database forgets no order and no input of a checkout. *)
Kept ==
  /\ placed \subseteq placed'
  /\ \A o \in Calls : called[o] # NoInput => called'[o] = called[o]

(* The outcome of a checkout that was placed, replayed or refused *)
LEMMA OutcomeKeeps ==
  ASSUME KeysOK, NEW r \in Calls, called[r] # NoInput, NEW kind, NEW by,
         outcome' = [outcome EXCEPT ![r] = [kind |-> kind, by |-> by]],
         called' = called, placed \subseteq placed',
         kind = "fresh" => r \in placed',
         kind = "replay" => \A o \in by :
            /\ o \in placed'
            /\ called[o].user = called[r].user
            /\ called[o].key = called[r].key
            /\ called[o].hash = called[r].hash
  PROVE  \A q \in Calls :
       /\ DOMAIN outcome'[q] = {"kind", "by"}
       /\ outcome'[q].kind # "none" => called'[q] \in CheckoutInputs
       /\ outcome'[q].kind = "fresh" => q \in placed'
       /\ outcome'[q].kind = "replay" => \A o \in outcome'[q].by :
            /\ o \in placed'
            /\ called'[o].user = called'[q].user
            /\ called'[o].key = called'[q].key
            /\ called'[o].hash = called'[q].hash
<1> SUFFICES ASSUME NEW q \in Calls
             PROVE
       /\ DOMAIN outcome'[q] = {"kind", "by"}
       /\ outcome'[q].kind # "none" => called'[q] \in CheckoutInputs
       /\ outcome'[q].kind = "fresh" => q \in placed'
       /\ outcome'[q].kind = "replay" => \A o \in outcome'[q].by :
            /\ o \in placed'
            /\ called'[o].user = called'[q].user
            /\ called'[o].key = called'[q].key
            /\ called'[o].hash = called'[q].hash
  OBVIOUS
<1>1. CASE q = r
  <2>1. outcome'[q] = [kind |-> kind, by |-> by]
    BY <1>1 DEF KeysOK
  <2>2. /\ DOMAIN outcome'[q] = {"kind", "by"}
        /\ outcome'[q].kind = kind /\ outcome'[q].by = by
    BY <2>1
  <2>3. QED
    BY <1>1, <2>2 DEF KeysOK
<1>2. CASE q # r
  <2>1. outcome'[q] = outcome[q]
    BY <1>2 DEF KeysOK
  <2>2. QED
    BY <2>1 DEF KeysOK
<1>3. QED  BY <1>1, <1>2

(* A checkout is called. *)
LEMMA StartKeeps ==
  ASSUME KeysOK, NEW r \in Calls, Txn!Start(r)
  PROVE  KeysOK' /\ Kept /\ called'[r] \in CheckoutInputs
<1>1. PICK in \in CheckoutInputs :
        /\ called[r] = NoInput
        /\ called' = [called EXCEPT ![r] = in]
        /\ outcome' = outcome \/ outcome' = [outcome EXCEPT ![r].kind = "Invalid"]
        /\ placed' = placed /\ taken' = taken
  BY DEF Txn!Start
<1>2. in # NoInput
  BY InputFacts
<1>3. /\ DOMAIN called' = Calls /\ called'[r] = in
      /\ \A o \in Calls : o # r => called'[o] = called[o]
  BY <1>1 DEF KeysOK
<1>4. r \notin placed /\ outcome[r].kind = "none"
  BY <1>1, InputsAssumption DEF KeysOK
<1>5. /\ DOMAIN outcome' = Calls
      /\ \A q \in Calls : q # r => outcome'[q] = outcome[q]
      /\ DOMAIN outcome'[r] = {"kind", "by"}
      /\ outcome'[r].kind \in {"none", "Invalid"}
  BY <1>1, <1>4 DEF KeysOK
<1>6. Kept
  BY <1>1, <1>3 DEF Kept
<1>7. KeysOK'
  <2>1. \A o \in placed : o \in Calls /\ o # r /\ called'[o] = called[o]
    BY <1>3, <1>4 DEF KeysOK
  <2>2. \A q \in Calls :
       /\ DOMAIN outcome'[q] = {"kind", "by"}
       /\ called'[q] = NoInput \/ called'[q] \in CheckoutInputs
       /\ outcome'[q].kind # "none" => called'[q] \in CheckoutInputs
       /\ outcome'[q].kind = "fresh" => q \in placed'
       /\ outcome'[q].kind = "replay" => \A o \in outcome'[q].by :
            /\ o \in placed'
            /\ called'[o].user = called'[q].user
            /\ called'[o].key = called'[q].key
            /\ called'[o].hash = called'[q].hash
    <3> TAKE q \in Calls
    <3>1. CASE q = r
      BY <3>1, <1>3, <1>5
    <3>2. CASE q # r
      BY <3>2, <1>1, <1>3, <1>5, <2>1 DEF KeysOK
    <3>3. QED  BY <3>1, <3>2
  <2>3. QED
    BY <1>1, <1>3, <1>5, <2>1, <2>2 DEF KeysOK
<1>8. QED  BY <1>3, <1>6, <1>7

(* A checkout takes effect. *)
LEMMA PlaceKeeps ==
  ASSUME KeysOK, NEW r \in Calls, Txn!Place(r)
  PROVE  KeysOK' /\ Kept
<1>1. called[r] # NoInput /\ called[r] \in CheckoutInputs
  BY DEF Txn!Place, Txn!Running, KeysOK
<1>2. called[r].key # NoKey /\ called[r].hash # NoHash
  BY <1>1, InputFacts
<1> DEFINE new == [user |-> called[r].user, key |-> called[r].key,
                   hash |-> called[r].hash, by |-> r]
<1>3. /\ placed' = placed \cup {r} /\ called' = called
      /\ taken' = taken \cup {new}
      /\ \A t \in taken : ~(t.user = called[r].user /\ t.key = called[r].key)
  BY <1>2 DEF Txn!Place, Txn!Owners
<1>4. PICK kind \in {"fresh", "Error"} :
        outcome' = [outcome EXCEPT ![r] =
             [kind |-> kind, by |-> IF kind = "fresh" THEN {r} ELSE {}]]
  BY DEF Txn!Place
<1>5. DOMAIN outcome' = Calls
  BY <1>4 DEF KeysOK
<1>6. \A q \in Calls :
       /\ DOMAIN outcome'[q] = {"kind", "by"}
       /\ outcome'[q].kind # "none" => called'[q] \in CheckoutInputs
       /\ outcome'[q].kind = "fresh" => q \in placed'
       /\ outcome'[q].kind = "replay" => \A o \in outcome'[q].by :
            /\ o \in placed'
            /\ called'[o].user = called'[q].user
            /\ called'[o].key = called'[q].key
            /\ called'[o].hash = called'[q].hash
  <2>1. placed \subseteq placed' /\ r \in placed'
    BY <1>3
  <2>2. PICK by : outcome' = [outcome EXCEPT ![r] = [kind |-> kind, by |-> by]]
    BY <1>4
  <2>3. kind # "replay"
    OBVIOUS
  <2>4. QED  BY <1>1, <1>3, <2>1, <2>2, <2>3, OutcomeKeeps
<1>7. new.user = called[r].user /\ new.key = called[r].key
      /\ new.hash = called[r].hash /\ new.by = r
  OBVIOUS
<1> HIDE DEF new
<1>8. \A t \in taken' : /\ t.by \in placed'
                      /\ t.user = called[t.by].user
                      /\ t.key = called[t.by].key
                      /\ t.hash = called[t.by].hash
  BY <1>3, <1>7 DEF KeysOK
<1>9. \A t, u \in taken' : t.user = u.user /\ t.key = u.key => t.by = u.by
  <2>1. \A t \in taken : ~(t.user = new.user /\ t.key = new.key)
    BY <1>3, <1>7
  <2>2. QED  BY <1>3, <2>1 DEF KeysOK
<1>10. \A q \in placed' : called[q] \in CheckoutInputs
                          /\ \E t \in taken' : t.by = q
  BY <1>1, <1>3, <1>7 DEF KeysOK
<1>11. QED
  BY <1>3, <1>5, <1>6, <1>8, <1>9, <1>10 DEF KeysOK, Kept

(* A checkout is refused, or replays the order that owns its key. *)
LEMMA RefuseKeeps ==
  ASSUME KeysOK, NEW r \in Calls, Txn!Refuse(r)
  PROVE  KeysOK' /\ Kept
<1>1. called[r] # NoInput /\ called[r] \in CheckoutInputs
  BY DEF Txn!Refuse, Txn!Running, KeysOK
<1>2. called[r].hash # NoHash
  BY <1>1, InputFacts
<1>3. placed' = placed /\ taken' = taken /\ called' = called
  BY DEF Txn!Refuse
<1>4. PICK o \in Txn!Refusals(called[r]) : outcome' = [outcome EXCEPT ![r] = o]
  BY DEF Txn!Refuse
<1>5. PICK kind, by :
        /\ o = [kind |-> kind, by |-> by]
        /\ kind \in {"Error", "OutOfStock", "InsufficientFunds", "replay",
                     "OutboxWriteAborted", "IdempotencyKeyConflict"}
        /\ kind = "replay" => \E t \in Txn!Owners(called[r]) :
             by = {t.by} /\ t.hash = called[r].hash
  <2> DEFINE owner(t) == IF called[r].hash \in {NoHash, t.hash}
                         THEN [kind |-> "replay", by |-> {t.by}]
                         ELSE [kind |-> "IdempotencyKeyConflict", by |-> {}]
  <2>1. \/ \E kind \in {"Error", "OutOfStock", "InsufficientFunds",
                        "OutboxWriteAborted"} : o = [kind |-> kind, by |-> {}]
        \/ \E t \in Txn!Owners(called[r]) : o = owner(t)
    BY DEF Txn!Refusals
  <2>2. CASE \E kind \in {"Error", "OutOfStock", "InsufficientFunds",
                        "OutboxWriteAborted"} : o = [kind |-> kind, by |-> {}]
    BY <2>2
  <2>3. ASSUME NEW t \in Txn!Owners(called[r]), o = owner(t)
        PROVE  \E kind, by :
          /\ o = [kind |-> kind, by |-> by]
          /\ kind \in {"Error", "OutOfStock", "InsufficientFunds", "replay",
                       "OutboxWriteAborted", "IdempotencyKeyConflict"}
          /\ kind = "replay" => \E u \in Txn!Owners(called[r]) :
               by = {u.by} /\ u.hash = called[r].hash
    <3>1. CASE called[r].hash = t.hash
      <4>1. o = [kind |-> "replay", by |-> {t.by}]
        BY <2>3, <3>1
      <4>2. \E u \in Txn!Owners(called[r]) :
               {t.by} = {u.by} /\ u.hash = called[r].hash
        BY <3>1
      <4> WITNESS "replay", {t.by}
      <4>3. QED  BY <4>1, <4>2
    <3>2. CASE called[r].hash # t.hash
      <4>1. o = [kind |-> "IdempotencyKeyConflict", by |-> {}]
        BY <1>2, <2>3, <3>2
      <4> WITNESS "IdempotencyKeyConflict", {}
      <4>2. QED  BY <4>1
    <3>3. QED  BY <3>1, <3>2
  <2>4. QED  BY <2>1, <2>2, <2>3
<1>6. kind = "replay" => \A i \in by :
            /\ i \in placed'
            /\ called[i].user = called[r].user
            /\ called[i].key = called[r].key
            /\ called[i].hash = called[r].hash
  BY <1>3, <1>5 DEF Txn!Owners, KeysOK
<1>7. \A q \in Calls :
       /\ DOMAIN outcome'[q] = {"kind", "by"}
       /\ outcome'[q].kind # "none" => called'[q] \in CheckoutInputs
       /\ outcome'[q].kind = "fresh" => q \in placed'
       /\ outcome'[q].kind = "replay" => \A i \in outcome'[q].by :
            /\ i \in placed'
            /\ called'[i].user = called'[q].user
            /\ called'[i].key = called'[q].key
            /\ called'[i].hash = called'[q].hash
  <2>1. kind # "fresh"
    BY <1>5
  <2>2. QED  BY <1>1, <1>3, <1>4, <1>5, <1>6, <2>1, OutcomeKeeps
<1>8. DOMAIN outcome' = Calls
  BY <1>4 DEF KeysOK
<1>9. QED
  BY <1>3, <1>7, <1>8 DEF KeysOK, Kept

-----------------------------------------------------------------------------
(* A call on its way, and what is left of one that was answered *)
Going(d, p) ==
  /\ DOMAIN d = Fields /\ d.post = p
  /\ d.at \in {"product", "buyer", "checkout", "loaded"}
  /\ d.seller \in STRING \cup {None}

Done(p) == [at |-> "done", post |-> p, seller |-> None, title |-> None,
            found |-> <<>>, order |-> None]

(* What an owner owns it keeps. *)
LEMMA OwnsKept ==
  ASSUME KeysOK, Kept, NEW o, NEW h, NEW k, NEW b,
         OwnsIn(placed, called, o, h, k, b)
  PROVE  OwnsIn(placed', called', o, h, k, b)
<1>1. o \in placed /\ o \in Calls /\ called[o] # NoInput
  BY InputsAssumption DEF OwnsIn, KeysOK
<1>2. called'[o] = called[o] /\ o \in placed'
  BY <1>1 DEF Kept
<1>3. QED  BY <1>2 DEF OwnsIn

LEMMA BackedKept ==
  ASSUME KeysOK, Kept, NEW o, NEW k, NEW b, BackedIn(placed, called, o, k, b)
  PROVE  BackedIn(placed', called', o, k, b)
BY OwnsKept DEF BackedIn

(* An answer ends a call. *)
LEMMA AnswerEffect ==
  ASSUME CallsOK, NEW r \in Calls, NEW c, NEW code, NEW order, NEW replay,
         Answer(r, c, code, order, replay)
  PROVE  /\ DOMAIN call' = Calls /\ DOMAIN reply' = Calls
         /\ \A q \in Calls : q # r => call'[q] = call[q] /\ reply'[q] = reply[q]
         /\ call'[r] = Done(c.post)
         /\ reply'[r].code = code /\ reply'[r].order = order
<1>1. [Idle EXCEPT !.at = "done", !.post = c.post] = Done(c.post)
  <2> DEFINE d == [Idle EXCEPT !.at = "done", !.post = c.post]
  <2>1. DOMAIN d = Fields /\ DOMAIN Done(c.post) = Fields
    BY DEF Idle, Done, Fields
  <2>2. \A f \in Fields : d[f] = Done(c.post)[f]
    <3>1. /\ d.at = "done" /\ d.post = c.post /\ d.seller = None
          /\ d.title = None /\ d.order = None
      BY DEF Idle
    <3>2. d.found = <<>>
      BY DEF Idle
    <3> HIDE DEF d
    <3>3. QED  BY <3>1, <3>2 DEF Done, Fields
  <2>3. d = [f \in Fields |-> d[f]]
    BY DEF Idle, Fields
  <2>4. Done(c.post) = [f \in Fields |-> Done(c.post)[f]]
    BY DEF Done, Fields
  <2> HIDE DEF d
  <2>5. QED  BY <2>2, <2>3, <2>4 DEF d
<1>2. QED  BY <1>1 DEF Answer, CallsOK

(* An answered call is well typed. *)
LEMMA AnswerCalls ==
  ASSUME CallsOK, NEW r \in Calls, NEW c, NEW code, NEW order, NEW replay,
         Answer(r, c, code, order, replay), c.post \in Posts,
         code \in {201, 403, 404, 409, 422, 500},
         IF code = 201 THEN order.id \in Calls ELSE order = None
  PROVE  CallsOK'
<1>1. /\ DOMAIN Done(c.post) = Fields /\ Done(c.post).at = "done"
      /\ Done(c.post).seller = None /\ Done(c.post).post = c.post
  BY DEF Done, Fields
<1>2. QED  BY <1>1, AnswerEffect DEF CallsOK, Places

(* So is one that was refused. *)
LEMMA RefuseEffect ==
  ASSUME CallsOK, NEW r \in Calls, NEW c, NEW code, c.post \in Posts,
         code \in {403, 404, 409, 422, 500}, Refuse(r, c, code)
  PROVE  /\ CallsOK'
         /\ \A q \in Calls : q # r => call'[q] = call[q] /\ reply'[q] = reply[q]
         /\ call'[r] = Done(c.post) /\ reply'[r].code = code
<1>1. PICK no : no = FALSE
  OBVIOUS
<1>2. Answer(r, c, code, None, no)
  BY <1>1 DEF Refuse
<1>3. code # 201 /\ code \in {201, 403, 404, 409, 422, 500}
  OBVIOUS
<1>4. CallsOK'
  BY <1>2, <1>3, AnswerCalls
<1>5. QED  BY <1>2, <1>4, AnswerEffect

(* A call that goes on is well typed. *)
LEMMA StepEffect ==
  ASSUME CallsOK, NEW r \in Calls, NEW d, Step(r, d)
  PROVE  /\ DOMAIN call' = Calls /\ reply' = reply
         /\ \A q \in Calls : q # r => call'[q] = call[q]
         /\ call'[r] = d
BY DEF Step, CallsOK

LEMMA StepCalls ==
  ASSUME CallsOK, NEW r \in Calls, NEW d, Step(r, d),
         call[r].at # "done", d.post \in Posts, Going(d, d.post)
  PROVE  CallsOK'
BY StepEffect DEF CallsOK, Going, Places

(* Whatever is answered, held or cached anew must be owned. *)
LEMMA AnswersKept ==
  ASSUME KeysOK, AnswersOK, Kept, NEW r \in Calls,
         \A q \in Calls : q # r => call'[q] = call[q] /\ reply'[q] = reply[q],
         call'[r].at = "checkout" => Faithful(r, call'[r].post, called'),
         call'[r].at = "loaded" =>
           OwnsIn(placed', called', call'[r].order.id, call'[r].post.user,
                  call'[r].post.key, hashBody(call'[r].post.body)),
         reply'[r].code = 201 =>
           BackedIn(placed', called', reply'[r].order.id,
                    CacheKey(call'[r].post), hashBody(call'[r].post.body)),
         \A e \in idempotencyStore' :
           \/ e \in idempotencyStore
           \/ BackedIn(placed', called', e.body.id, e.cacheKey, e.bodyHash)
  PROVE  AnswersOK'
<1>1. \A e \in idempotencyStore' :
           BackedIn(placed', called', e.body.id, e.cacheKey, e.bodyHash)
  BY BackedKept DEF AnswersOK
<1>2. ASSUME NEW q \in Calls, q # r
      PROVE
       /\ call'[q].at = "checkout" => Faithful(q, call'[q].post, called')
       /\ call'[q].at = "loaded" =>
            OwnsIn(placed', called', call'[q].order.id, call'[q].post.user,
                   call'[q].post.key, hashBody(call'[q].post.body))
       /\ reply'[q].code = 201 =>
            BackedIn(placed', called', reply'[q].order.id,
                     CacheKey(call'[q].post), hashBody(call'[q].post.body))
  <2>1. call'[q] = call[q] /\ reply'[q] = reply[q]
    BY <1>2
  <2>2. call[q].at = "checkout" => Faithful(q, call[q].post, called')
    <3>1. SUFFICES ASSUME call[q].at = "checkout"
                   PROVE  Faithful(q, call[q].post, called')
      OBVIOUS
    <3>2. Faithful(q, call[q].post, called)
      BY <3>1 DEF AnswersOK
    <3>3. called'[q] = called[q]
      BY <3>2, InputsAssumption DEF Faithful, Kept
    <3>4. QED  BY <3>2, <3>3 DEF Faithful
  <2>3. call[q].at = "loaded" =>
            OwnsIn(placed', called', call[q].order.id, call[q].post.user,
                   call[q].post.key, hashBody(call[q].post.body))
    BY OwnsKept DEF AnswersOK
  <2>4. reply[q].code = 201 =>
            BackedIn(placed', called', reply[q].order.id,
                     CacheKey(call[q].post), hashBody(call[q].post.body))
    BY BackedKept DEF AnswersOK
  <2>5. QED  BY <2>1, <2>2, <2>3, <2>4
<1>3. QED  BY <1>1, <1>2 DEF AnswersOK

(* The listed orders stay what they are while calls that are over stay over. *)
LEMMA ListedKept ==
  ASSUME StoreOK, KeysOK, ListedOK, Kept, orders' = orders,
         \A q \in Calls : call[q].at = "done" => call'[q].at = "done"
  PROVE  ListedOK'
<1>1. \A i \in DOMAIN orders :
        /\ orders[i].id \in Calls /\ orders[i].id \in placed'
        /\ called'[orders[i].id] = called[orders[i].id]
  BY InputsAssumption DEF ListedOK, KeysOK, Kept
<1>2. QED  BY <1>1 DEF ListedOK

-----------------------------------------------------------------------------
(* What every listing holds *)
LEMMA ListingFields ==
  ASSUME StoreOK, NEW i \in DOMAIN listings
  PROVE  /\ listings[i] \in ListingType
         /\ listings[i].id \in Nat /\ listings[i].quantity \in Nat
         /\ listings[i].seller \in STRING
<1>1. listings[i] \in ListingType
  BY DEF StoreOK
<1>2. QED  BY <1>1 DEF ListingType

(* Time passes in the store. *)
LEMMA StoreLater ==
  ASSUME StoreOK, listings' = listings, orders' = orders,
         events' \in {events, events + 1}
  PROVE  StoreOK'
<1>1. \A i \in DOMAIN listings : listings[i].id \in Nat
  BY ListingFields
<1>2. Len(Seeded) \in Nat
  BY CatalogAssumptions
<1>3. QED  BY <1>1, <1>2 DEF StoreOK

(* The loop over the items moves a call on or refuses it. *)
LEMMA NextItemEffect ==
  ASSUME StoreOK, NEW r \in Calls, NEW c, DOMAIN c = Fields,
         c.seller \in STRING \cup {None}, NextItem(r, c)
  PROVE  \/ \E d : /\ Step(r, d) /\ Going(d, c.post)
                   /\ d.at \in {"product", "buyer"}
         \/ \E code \in {404, 422} : Refuse(r, c, code)
<1> DEFINE id == Items[c.post.body][Len(c.found) + 1].listing_id
           sold == {l \in Listing(id) : l.status = "active"}
           goes(l) == Step(r, [c EXCEPT !.at = "product", !.seller = l.seller,
                                        !.title = l.title])
<1>1. \/ Step(r, [c EXCEPT !.at = "buyer"])
      \/ Refuse(r, c, 404)
      \/ \E l \in sold : goes(l) \/ Refuse(r, c, 422)
  <2>1. \/ Step(r, [c EXCEPT !.at = "buyer"])
        \/ Refuse(r, c, 404)
        \/ \E l \in sold : IF c.seller \in {None, l.seller}
                           THEN goes(l) ELSE Refuse(r, c, 422)
    BY DEF NextItem
  <2> HIDE DEF sold, goes
  <2>2. QED  BY <2>1
<1>2. \A l \in sold : l.seller \in STRING
  <2>1. \A l \in sold : \E i \in DOMAIN listings : l = listings[i]
    BY DEF Listing, ToSet
  <2> HIDE DEF sold
  <2>2. QED  BY <2>1, ListingFields
<1>3. CASE Step(r, [c EXCEPT !.at = "buyer"])
  <2> DEFINE d == [c EXCEPT !.at = "buyer"]
  <2>1. Going(d, c.post) /\ d.at = "buyer"
    BY DEF Going, Fields
  <2> HIDE DEF d
  <2>2. QED  BY <1>3, <2>1 DEF d
<1>4. ASSUME NEW l \in sold, goes(l)
      PROVE  \E d : /\ Step(r, d) /\ Going(d, c.post)
                    /\ d.at \in {"product", "buyer"}
  <2> DEFINE d == [c EXCEPT !.at = "product", !.seller = l.seller,
                            !.title = l.title]
  <2>1. Going(d, c.post) /\ d.at = "product"
    BY <1>2 DEF Going, Fields
  <2> HIDE DEF d
  <2>2. QED  BY <1>4, <2>1 DEF d
<1> HIDE DEF sold, goes
<1>5. QED  BY <1>1, <1>3, <1>4

(* A call that goes on before its checkout, or is refused, keeps the rest. *)
LEMMA MovedKeeps ==
  ASSUME OrdersInv, KeysOK', Kept, NEW r \in Calls, call[r].at # "done",
         NEW p \in Posts, orders' = orders, idempotencyStore' = idempotencyStore,
         \/ \E d : /\ Step(r, d) /\ Going(d, p)
                   /\ d.at \in {"product", "buyer"}
         \/ \E c : \E code \in {403, 404, 409, 422, 500} :
              c.post = p /\ Refuse(r, c, code)
  PROVE  CallsOK' /\ AnswersOK' /\ ListedOK'
<1>0. StoreOK /\ CallsOK /\ KeysOK /\ AnswersOK /\ ListedOK
  BY DEF OrdersInv, TypeInv
<1>1. /\ CallsOK'
      /\ \A q \in Calls : q # r => call'[q] = call[q] /\ reply'[q] = reply[q]
      /\ call'[r].at \in {"product", "buyer", "done"}
      /\ reply'[r].code # 201
  <2>1. ASSUME NEW d, Step(r, d), Going(d, p), d.at \in {"product", "buyer"}
        PROVE  CallsOK' /\ call'[r] = d /\ reply'[r].code # 201
               /\ \A q \in Calls : q # r =>
                    call'[q] = call[q] /\ reply'[q] = reply[q]
    <3>1. CallsOK'
      BY <1>0, <2>1, StepCalls DEF Going
    <3>2. reply[r].code # 201
      BY <1>0 DEF CallsOK
    <3>3. QED  BY <1>0, <2>1, <3>1, <3>2, StepEffect
  <2>2. ASSUME NEW c, NEW code \in {403, 404, 409, 422, 500}, c.post = p,
               Refuse(r, c, code)
        PROVE  CallsOK' /\ call'[r] = Done(p) /\ reply'[r].code # 201
               /\ \A q \in Calls : q # r =>
                    call'[q] = call[q] /\ reply'[q] = reply[q]
    <3>1. code # 201
      OBVIOUS
    <3>2. QED  BY <1>0, <2>2, <3>1, RefuseEffect
  <2>3. Done(p).at = "done"
    BY DEF Done
  <2>4. CASE \E d : /\ Step(r, d) /\ Going(d, p)
                    /\ d.at \in {"product", "buyer"}
    BY <2>1, <2>4
  <2>5. CASE \E c : \E code \in {403, 404, 409, 422, 500} :
               c.post = p /\ Refuse(r, c, code)
    BY <2>2, <2>3, <2>5
  <2>6. QED  BY <2>4, <2>5
<1>2. AnswersOK'
  BY <1>0, <1>1, AnswersKept
<1>3. \A q \in Calls : call[q].at = "done" => call'[q].at = "done"
  BY <1>1
<1>4. QED  BY <1>0, <1>1, <1>2, <1>3, ListedKept

-----------------------------------------------------------------------------
(* A step that leaves the database alone keeps what it holds. *)
LEMMA TxnSame ==
  ASSUME KeysOK, UNCHANGED txnVars
  PROVE  KeysOK' /\ Kept
BY DEF KeysOK, Kept, txnVars

(* create, up to its first await *)
LEMMA CreateKeeps ==
  ASSUME OrdersInv, NEW r \in Calls, Create(r)
  PROVE  OrdersInv'
<1>0. StoreOK /\ CallsOK /\ KeysOK /\ AnswersOK /\ ListedOK
  BY DEF OrdersInv, TypeInv
<1>1. KeysOK' /\ Kept
  BY <1>0, TxnSame DEF Create
<1>2. StoreOK'
  <2>1. listings' = listings /\ orders' = orders /\ events' = events + 1
    BY DEF Create, Count
  <2>2. QED  BY <1>0, <2>1, StoreLater
<1>3. call[r].at # "done" /\ orders' = orders
      /\ idempotencyStore' = idempotencyStore
  BY DEF Create
<1>4. PICK p \in Posts :
        LET c == [call[r] EXCEPT !.post = p]
        IN  \/ Refuse(r, c, 403)
            \/ Refuse(r, c, 422)
            \/ \E e \in Cached(p) :
                 e.bodyHash = hashBody(p.body) /\ Answer(r, c, 201, e.body, TRUE)
            \/ NextItem(r, c)
  BY DEF Create
<1> DEFINE c == [call[r] EXCEPT !.post = p]
<1>5. DOMAIN c = Fields /\ c.post = p /\ c.seller \in STRING \cup {None}
  BY <1>0 DEF CallsOK, Fields
<1> HIDE DEF c
<1>6. CASE Refuse(r, c, 403) \/ Refuse(r, c, 422) \/ NextItem(r, c)
  <2>1. \/ \E d : /\ Step(r, d) /\ Going(d, p)
                  /\ d.at \in {"product", "buyer"}
        \/ \E b : \E code \in {403, 404, 409, 422, 500} :
              b.post = p /\ Refuse(r, b, code)
    <3>1. CASE NextItem(r, c)
      BY <1>0, <1>5, <3>1, NextItemEffect
    <3>2. CASE Refuse(r, c, 403) \/ Refuse(r, c, 422)
      BY <1>5, <3>2
    <3>3. QED  BY <1>6, <3>1, <3>2
  <2>2. CallsOK' /\ AnswersOK' /\ ListedOK'
    BY <1>1, <1>3, <2>1, MovedKeeps
  <2>3. QED  BY <1>1, <1>2, <2>2 DEF OrdersInv, TypeInv
<1>7. ASSUME NEW e \in Cached(p), e.bodyHash = hashBody(p.body),
             Answer(r, c, 201, e.body, TRUE)
      PROVE  CallsOK' /\ AnswersOK' /\ ListedOK'
  <2>1. PICK yes : yes = TRUE /\ Answer(r, c, 201, e.body, yes)
    BY <1>7
  <2>2. BackedIn(placed, called, e.body.id, CacheKey(p), hashBody(p.body))
    <3>1. e \in idempotencyStore /\ e.cacheKey = CacheKey(p)
      BY DEF Cached
    <3>2. BackedIn(placed, called, e.body.id, e.cacheKey, e.bodyHash)
      BY <1>0, <3>1 DEF AnswersOK
    <3>3. QED  BY <1>7, <3>1, <3>2
  <2>3. e.body.id \in Calls
    BY <1>0, <2>2 DEF BackedIn, OwnsIn, KeysOK
  <2>4. CallsOK'
    BY <1>0, <1>5, <2>1, <2>3, AnswerCalls
  <2>5. /\ \A q \in Calls : q # r => call'[q] = call[q] /\ reply'[q] = reply[q]
        /\ call'[r] = Done(p) /\ reply'[r].order = e.body
    <3>1. /\ \A q \in Calls : q # r =>
               call'[q] = call[q] /\ reply'[q] = reply[q]
          /\ call'[r] = Done(c.post) /\ reply'[r].order = e.body
      <4>1. CallsOK /\ Answer(r, c, 201, e.body, yes)
        BY <1>0, <2>1
      <4>2. QED  BY ONLY <4>1, r \in Calls, AnswerEffect
    <3>2. QED  BY <1>5, <3>1
  <2>6. call'[r].at = "done" /\ call'[r].post = p
    BY <2>5 DEF Done
  <2>7. BackedIn(placed', called', e.body.id, CacheKey(p), hashBody(p.body))
    BY <1>0, <1>1, <2>2, BackedKept
  <2>8. AnswersOK'
    BY <1>0, <1>1, <1>3, <2>5, <2>6, <2>7, AnswersKept
  <2>9. ListedOK'
    BY <1>0, <1>1, <1>3, <2>5, <2>6, ListedKept
  <2>10. QED  BY <2>4, <2>8, <2>9
<1>8. QED
  BY <1>1, <1>2, <1>4, <1>6, <1>7 DEF OrdersInv, TypeInv, c

(* The product query *)
LEMMA FindProductKeeps ==
  ASSUME OrdersInv, NEW r \in Calls, FindProduct(r)
  PROVE  OrdersInv'
<1>0. StoreOK /\ CallsOK /\ KeysOK /\ AnswersOK /\ ListedOK
  BY DEF OrdersInv, TypeInv
<1>1. KeysOK' /\ Kept
  BY <1>0, TxnSame DEF FindProduct
<1>2. StoreOK' /\ orders' = orders /\ idempotencyStore' = idempotencyStore
  BY <1>0 DEF FindProduct, catalogVars, StoreOK
<1> DEFINE p == call[r].post
<1>3. call[r].at = "product" /\ p \in Posts
  BY <1>0 DEF FindProduct, CallsOK
<1> DEFINE found(x) == NextItem(r, [call[r] EXCEPT !.found = Append(@, x)])
<1>4. Refuse(r, call[r], 404) \/ \E x : found(x)
  BY DEF FindProduct
<1>5. ASSUME NEW x, found(x)
      PROVE  \/ \E d : /\ Step(r, d) /\ Going(d, p)
                       /\ d.at \in {"product", "buyer"}
             \/ \E b : \E code \in {403, 404, 409, 422, 500} :
                  b.post = p /\ Refuse(r, b, code)
  <2> DEFINE c == [call[r] EXCEPT !.found = Append(@, x)]
  <2>1. DOMAIN c = Fields /\ c.post = p /\ c.seller \in STRING \cup {None}
    BY <1>0 DEF CallsOK, Fields
  <2>2. NextItem(r, c)
    BY <1>5
  <2> HIDE DEF c
  <2>3. QED  BY <1>0, <2>1, <2>2, NextItemEffect
<1>6. CallsOK' /\ AnswersOK' /\ ListedOK'
  <2>1. call[r].at # "done"
    BY <1>3
  <2>2. \/ \E d : /\ Step(r, d) /\ Going(d, p)
                  /\ d.at \in {"product", "buyer"}
        \/ \E b : \E code \in {403, 404, 409, 422, 500} :
              b.post = p /\ Refuse(r, b, code)
    <3> HIDE DEF found
    <3>1. CASE Refuse(r, call[r], 404)
      <4>1. call[r].post = p
        OBVIOUS
      <4>2. QED  BY <3>1, <4>1
    <3>2. CASE \E x : found(x)
      BY <1>5, <3>2
    <3>3. QED  BY <1>4, <3>1, <3>2
  <2> HIDE DEF p
  <2>3. QED  BY <1>1, <1>2, <1>3, <2>1, <2>2, MovedKeeps
<1>7. QED  BY <1>1, <1>2, <1>6 DEF OrdersInv, TypeInv

(* The buyer is resolved and the checkout called. *)
LEMMA ResolveBuyerKeeps ==
  ASSUME OrdersInv, NEW r \in Calls, ResolveBuyer(r)
  PROVE  OrdersInv'
<1>0. StoreOK /\ CallsOK /\ KeysOK /\ AnswersOK /\ ListedOK
  BY DEF OrdersInv, TypeInv
<1>1. StoreOK' /\ orders' = orders /\ idempotencyStore' = idempotencyStore
  BY <1>0 DEF ResolveBuyer, catalogVars, StoreOK
<1> DEFINE p == call[r].post
<1>2. call[r].at = "buyer" /\ p \in Posts
  BY <1>0 DEF ResolveBuyer, CallsOK
<1>3. CASE Refuse(r, call[r], 403) /\ UNCHANGED txnVars
  <2>1. KeysOK' /\ Kept
    BY <1>0, <1>3, TxnSame
  <2>2. call[r].at # "done" /\ \E b : \E code \in {403, 404, 409, 422, 500} :
              b.post = p /\ Refuse(r, b, code)
    BY <1>2, <1>3
  <2> HIDE DEF p
  <2>3. CallsOK' /\ AnswersOK' /\ ListedOK'
    BY <1>1, <1>2, <2>1, <2>2, MovedKeeps
  <2>4. QED  BY <1>1, <2>1, <2>3 DEF OrdersInv, TypeInv
<1>4. ASSUME NEW b \in resolveUser(p.user, "buyer"), Txn!Start(r),
             Step(r, [call[r] EXCEPT !.at = "checkout"]),
             called'[r].user = b.id, called'[r].key = p.key,
             called'[r].hash = hashBody(p.body)
      PROVE  OrdersInv'
  <2>1. KeysOK' /\ Kept /\ called'[r] \in CheckoutInputs
    BY <1>0, <1>4, StartKeeps
  <2> DEFINE d == [call[r] EXCEPT !.at = "checkout"]
  <2>2. Step(r, d) /\ Going(d, p) /\ d.at = "checkout" /\ d.post = p
    BY <1>0, <1>4 DEF Going, CallsOK, Fields
  <2> HIDE DEF d
  <2>3. Faithful(r, p, called')
    BY <1>4, <2>1 DEF Faithful
  <2> HIDE DEF p
  <2>4. CallsOK'
    BY <1>0, <1>2, <2>2, StepCalls
  <2>5. /\ reply' = reply /\ call'[r] = d
        /\ \A q \in Calls : q # r => call'[q] = call[q]
    BY <1>0, <2>2, StepEffect
  <2>6. reply[r].code # 201
    BY <1>0, <1>2 DEF CallsOK
  <2>7. AnswersOK'
    BY <1>0, <1>1, <2>1, <2>2, <2>3, <2>5, <2>6, AnswersKept
  <2>8. ListedOK'
    BY <1>0, <1>1, <1>2, <2>1, <2>2, <2>5, ListedKept
  <2>9. QED  BY <1>1, <2>1, <2>4, <2>7, <2>8 DEF OrdersInv, TypeInv
<1>5. \/ Refuse(r, call[r], 403) /\ UNCHANGED txnVars
      \/ \E b \in resolveUser(p.user, "buyer") :
           /\ Txn!Start(r)
           /\ Step(r, [call[r] EXCEPT !.at = "checkout"])
           /\ called'[r].user = b.id /\ called'[r].key = p.key
           /\ called'[r].hash = hashBody(p.body)
  <2> DEFINE items == Items[p.body]
             input(b) == [user |-> b.id, key |-> p.key,
               hash |-> hashBody(p.body),
               items |-> [i \in DOMAIN items |->
                 [productId |-> call[r].found[i], quantity |-> items[i].quantity]],
               failAfterOutbox |-> FALSE]
             goes == Step(r, [call[r] EXCEPT !.at = "checkout"])
  <2>1. \/ Refuse(r, call[r], 403) /\ UNCHANGED txnVars
        \/ \E b \in resolveUser(p.user, "buyer") :
             goes /\ Txn!Start(r) /\ called'[r] = input(b)
    BY DEF ResolveBuyer
  <2>2. \A b : /\ input(b).user = b.id /\ input(b).key = p.key
              /\ input(b).hash = hashBody(p.body)
    OBVIOUS
  <2> HIDE DEF input, goes, p
  <2>3. \/ Refuse(r, call[r], 403) /\ UNCHANGED txnVars
        \/ \E b \in resolveUser(p.user, "buyer") :
             /\ Txn!Start(r) /\ goes
             /\ called'[r].user = b.id /\ called'[r].key = p.key
             /\ called'[r].hash = hashBody(p.body)
    BY <2>1, <2>2
  <2>4. QED  BY <2>3 DEF goes
<1> HIDE DEF p
<1>6. QED  BY <1>3, <1>4, <1>5

(* The checkout in the database *)
LEMMA CheckoutKeeps ==
  ASSUME OrdersInv, NEW r \in Calls, Checkout(r)
  PROVE  OrdersInv'
<1>0. StoreOK /\ CallsOK /\ KeysOK /\ AnswersOK /\ ListedOK
  BY DEF OrdersInv, TypeInv
<1>1. KeysOK' /\ Kept
  BY <1>0, PlaceKeeps, RefuseKeeps DEF Checkout
<1>2. /\ UNCHANGED <<listings, orders, idempotencyStore, events, call, reply>>
  BY DEF Checkout, catalogVars
<1>3. StoreOK' /\ CallsOK'
  BY <1>0, <1>2 DEF StoreOK, CallsOK
<1>4. AnswersOK'
  <2>1. call'[r].at = "checkout" => Faithful(r, call'[r].post, called')
    <3>1. SUFFICES ASSUME call[r].at = "checkout"
                   PROVE  Faithful(r, call[r].post, called')
      BY <1>2
    <3>2. Faithful(r, call[r].post, called)
      BY <1>0, <3>1 DEF AnswersOK
    <3>3. called'[r] = called[r]
      BY <1>1, <3>2, InputsAssumption DEF Faithful, Kept
    <3>4. QED  BY <3>2, <3>3 DEF Faithful
  <2>2. call[r].at = "loaded" =>
            OwnsIn(placed', called', call[r].order.id, call[r].post.user,
                   call[r].post.key, hashBody(call[r].post.body))
    BY <1>0, <1>1, OwnsKept DEF AnswersOK
  <2>3. reply[r].code = 201 =>
            BackedIn(placed', called', reply[r].order.id,
                     CacheKey(call[r].post), hashBody(call[r].post.body))
    BY <1>0, <1>1, BackedKept DEF AnswersOK
  <2>4. QED  BY <1>0, <1>1, <1>2, <2>1, <2>2, <2>3, AnswersKept
<1>5. ListedOK'
  BY <1>0, <1>1, <1>2, ListedKept
<1>6. QED  BY <1>1, <1>3, <1>4, <1>5 DEF OrdersInv, TypeInv

(* The checkout threw, or a query failed. *)
LEMMA RefusedKeeps ==
  ASSUME OrdersInv, NEW r \in Calls, AnswerRefused(r) \/ QueryFails(r)
  PROVE  OrdersInv'
<1>0. StoreOK /\ CallsOK /\ KeysOK /\ AnswersOK /\ ListedOK
  BY DEF OrdersInv, TypeInv
<1>1. UNCHANGED <<catalogVars, txnVars>>
  BY DEF AnswerRefused, QueryFails
<1>2. KeysOK' /\ Kept
  BY <1>0, <1>1, TxnSame
<1>3. StoreOK' /\ orders' = orders /\ idempotencyStore' = idempotencyStore
  BY <1>0, <1>1 DEF catalogVars, StoreOK
<1>4. call[r].at \in {"product", "buyer", "loaded", "checkout"}
  BY DEF AnswerRefused, QueryFails
<1>5. call[r].post \in Posts /\ call[r].at # "done"
  BY <1>0, <1>4 DEF CallsOK
<1>6. \E code \in {403, 404, 409, 422, 500} : Refuse(r, call[r], code)
  <2>1. \A k : Problem(k) \in {409, 422, 500}
    BY DEF Problem
  <2>2. QED  BY <2>1 DEF AnswerRefused, QueryFails
<1>7. CallsOK' /\ AnswersOK' /\ ListedOK'
  BY <1>2, <1>3, <1>5, <1>6, MovedKeeps
<1>8. QED  BY <1>2, <1>3, <1>7 DEF OrdersInv, TypeInv

(* The order of a replay is read. *)
LEMMA LoadReplayKeeps ==
  ASSUME OrdersInv, NEW r \in Calls, LoadReplay(r)
  PROVE  OrdersInv'
<1>0. StoreOK /\ CallsOK /\ KeysOK /\ AnswersOK /\ ListedOK
  BY DEF OrdersInv, TypeInv
<1>1. UNCHANGED <<catalogVars, txnVars>>
  BY DEF LoadReplay
<1>2. KeysOK' /\ Kept /\ placed' = placed /\ called' = called
  BY <1>0, <1>1, TxnSame DEF txnVars
<1>3. StoreOK' /\ orders' = orders /\ idempotencyStore' = idempotencyStore
  BY <1>0, <1>1 DEF catalogVars, StoreOK
<1>4. call[r].at = "checkout" /\ outcome[r].kind = "replay"
  BY DEF LoadReplay
<1> DEFINE p == call[r].post
<1>5. p \in Posts /\ reply[r].code # 201 /\ Faithful(r, p, called)
  BY <1>0, <1>4 DEF CallsOK, AnswersOK
<1>6. PICK o \in outcome[r].by :
        \E rows : Step(r, [call[r] EXCEPT !.at = "loaded",
                                          !.order = toApiOrder(o, rows)])
  BY DEF LoadReplay
<1>7. OwnsIn(placed, called, o, p.user, p.key, hashBody(p.body))
  <2>1. /\ o \in placed /\ called[o].user = called[r].user
        /\ called[o].key = called[r].key /\ called[o].hash = called[r].hash
    BY <1>0, <1>4 DEF KeysOK
  <2>2. QED  BY <1>5, <2>1 DEF OwnsIn, Faithful
<1> PICK rows : Step(r, [call[r] EXCEPT !.at = "loaded",
                                       !.order = toApiOrder(o, rows)])
  BY <1>6
<1>8. toApiOrder(o, rows).id = o
  BY DEF toApiOrder
<1> DEFINE d == [call[r] EXCEPT !.at = "loaded", !.order = toApiOrder(o, rows)]
<1>9. /\ Going(d, p) /\ d.at = "loaded" /\ d.post = p
      /\ d.order = toApiOrder(o, rows)
  BY <1>0 DEF Going, CallsOK, Fields
<1>10. Step(r, d)
  OBVIOUS
<1> HIDE DEF d, p
<1>11. CallsOK'
  BY <1>0, <1>4, <1>5, <1>9, <1>10, StepCalls
<1>12. /\ reply' = reply /\ call'[r] = d
       /\ \A q \in Calls : q # r => call'[q] = call[q]
  BY <1>0, <1>10, StepEffect
<1>13. AnswersOK'
  BY <1>0, <1>2, <1>3, <1>5, <1>7, <1>8, <1>9, <1>12, AnswersKept
<1>14. ListedOK'
  BY <1>0, <1>2, <1>3, <1>4, <1>12, ListedKept
<1>15. QED  BY <1>2, <1>3, <1>11, <1>13, <1>14 DEF OrdersInv, TypeInv

(* What the cache holds after an order is remembered *)
LEMMA Remembered ==
  ASSUME NEW p \in Posts, NEW order, Remember(p, order),
         OwnsIn(placed', called', order.id, p.user, p.key, hashBody(p.body))
  PROVE  \A e \in idempotencyStore' :
           \/ e \in idempotencyStore
           \/ BackedIn(placed', called', e.body.id, e.cacheKey, e.bodyHash)
<1> DEFINE new == [cacheKey |-> CacheKey(p), bodyHash |-> hashBody(p.body),
                   body |-> order]
<1>1. idempotencyStore' \subseteq idempotencyStore \cup {new}
  BY DEF Remember
<1>2. /\ new.body = order /\ new.bodyHash = hashBody(p.body)
      /\ new.cacheKey = CacheKey(p)
  OBVIOUS
<1> HIDE DEF new
<1>3. QED  BY <1>1, <1>2 DEF BackedIn

(* An order its caller owns is answered and remembered. *)
LEMMA AnsweredKeeps ==
  ASSUME OrdersInv, UNCHANGED txnVars, NEW r \in Calls, call[r].at # "done",
         call[r].post \in Posts, NEW order, NEW replay,
         Answer(r, call[r], 201, order, replay),
         OwnsIn(placed, called, order.id, call[r].post.user, call[r].post.key,
                hashBody(call[r].post.body)),
         Remember(call[r].post, order)
  PROVE  /\ CallsOK' /\ KeysOK' /\ Kept /\ AnswersOK'
         /\ call'[r].at = "done"
         /\ \A q \in Calls : call[q].at = "done" => call'[q].at = "done"
<1>0. StoreOK /\ CallsOK /\ KeysOK /\ AnswersOK /\ ListedOK
  BY DEF OrdersInv, TypeInv
<1>1. KeysOK' /\ Kept
  BY <1>0, TxnSame
<1>2. /\ \A q \in Calls : q # r => call'[q] = call[q] /\ reply'[q] = reply[q]
      /\ call'[r] = Done(call[r].post) /\ reply'[r].order = order
  BY <1>0, AnswerEffect
<1>3. call'[r].at = "done" /\ call'[r].post = call[r].post
  BY <1>2 DEF Done
<1>4. order.id \in Calls
  BY <1>0 DEF OwnsIn, KeysOK
<1>5. CallsOK'
  BY <1>0, <1>4, AnswerCalls
<1> DEFINE p == call[r].post
<1>6. OwnsIn(placed', called', order.id, p.user, p.key, hashBody(p.body))
  BY <1>0, <1>1, OwnsKept
<1>7. \A e \in idempotencyStore' :
           \/ e \in idempotencyStore
           \/ BackedIn(placed', called', e.body.id, e.cacheKey, e.bodyHash)
  BY <1>6, Remembered
<1>8. AnswersOK'
  <2>1. BackedIn(placed', called', order.id, CacheKey(p), hashBody(p.body))
    BY <1>6 DEF BackedIn
  <2>2. QED  BY <1>0, <1>1, <1>2, <1>3, <1>7, <2>1, AnswersKept
<1>9. QED  BY <1>1, <1>2, <1>3, <1>5, <1>8

(* The replay is answered. *)
LEMMA AnswerReplayKeeps ==
  ASSUME OrdersInv, NEW r \in Calls, AnswerReplay(r)
  PROVE  OrdersInv'
<1>0. StoreOK /\ CallsOK /\ KeysOK /\ AnswersOK /\ ListedOK
  BY DEF OrdersInv, TypeInv
<1>1. /\ UNCHANGED txnVars /\ orders' = orders /\ listings' = listings
      /\ events' = events /\ call[r].at = "loaded"
  BY DEF AnswerReplay
<1>2. StoreOK'
  BY <1>0, <1>1 DEF StoreOK
<1>3. call[r].post \in Posts /\ call[r].at # "done"
  BY <1>0, <1>1 DEF CallsOK
<1>4. KeysOK' /\ Kept
  BY <1>0, <1>1, TxnSame
<1> DEFINE c == call[r]
<1>5. CASE Refuse(r, c, 403) /\ idempotencyStore' = idempotencyStore
  <2>1. CallsOK' /\ AnswersOK' /\ ListedOK'
    BY <1>1, <1>3, <1>4, <1>5, MovedKeeps
  <2>2. QED  BY <1>2, <1>4, <2>1 DEF OrdersInv, TypeInv
<1>6. CASE Remember(c.post, c.order) /\ Answer(r, c, 201, c.order, TRUE)
  <2>1. PICK yes : yes = TRUE /\ Answer(r, c, 201, c.order, yes)
    BY <1>6
  <2>2. OwnsIn(placed, called, c.order.id, c.post.user, c.post.key,
               hashBody(c.post.body))
    BY <1>0, <1>1 DEF AnswersOK
  <2>3. /\ CallsOK' /\ AnswersOK'
        /\ \A q \in Calls : call[q].at = "done" => call'[q].at = "done"
    BY <1>1, <1>3, <1>6, <2>1, <2>2, AnsweredKeeps
  <2>4. ListedOK'
    BY <1>0, <1>1, <1>4, <2>3, ListedKept
  <2>5. QED  BY <1>2, <1>4, <2>3, <2>4 DEF OrdersInv, TypeInv
<1>7. QED  BY <1>5, <1>6 DEF AnswerReplay

(* The quantities an order takes off the listings *)
LEMMA TakeKeeps ==
  ASSUME StoreOK, NEW p \in Posts, TakeFromListings(Items[p.body])
  PROVE  /\ listings' \in Seq(ListingType) /\ DOMAIN listings' = DOMAIN listings
         /\ \A i \in DOMAIN listings : /\ listings'[i].id = listings[i].id
                                      /\ listings'[i].status = listings[i].status
<1> DEFINE left(i) == listings[i].quantity - Ordered(Items[p.body], listings[i].id)
           taken1(i) == [listings[i] EXCEPT !.quantity =
                           IF left(i) < 0 THEN 0 ELSE left(i)]
<1>1. listings' = [i \in DOMAIN listings |-> taken1(i)]
  BY DEF TakeFromListings
<1>2. ASSUME NEW i \in DOMAIN listings
      PROVE  /\ taken1(i) \in ListingType /\ taken1(i).id = listings[i].id
             /\ taken1(i).status = listings[i].status
  <2>1. left(i) \in Int
    <3>1. Ordered(Items[p.body], listings[i].id) \in Int
      BY OrderedType
    <3>2. QED  BY <3>1, ListingFields
  <2> HIDE DEF left
  <2>2. listings[i] \in ListingType
    BY ListingFields
  <2>3. (IF left(i) < 0 THEN 0 ELSE left(i)) \in Nat
    BY <2>1
  <2>4. QED  BY <2>2, <2>3 DEF ListingType
<1> HIDE DEF taken1
<1>3. DOMAIN listings = 1..Len(listings) /\ Len(listings) \in Nat
  BY DEF StoreOK
<1>4. QED  BY <1>1, <1>2, <1>3

(* A fresh order is listed, remembered and answered. *)
LEMMA AnswerFreshKeeps ==
  ASSUME OrdersInv, NEW r \in Calls, AnswerFresh(r)
  PROVE  OrdersInv'
<1>0. StoreOK /\ CallsOK /\ KeysOK /\ AnswersOK /\ ListedOK
  BY DEF OrdersInv, TypeInv
<1> DEFINE p == call[r].post
           order == [id |-> r, buyer |-> p.user, seller |-> call[r].seller,
                     items |-> Items[p.body], status |-> "paid"]
<1>1. /\ UNCHANGED txnVars /\ events' = events
      /\ call[r].at = "checkout" /\ outcome[r].kind = "fresh"
      /\ TakeFromListings(Items[p.body]) /\ orders' = Append(orders, order)
      /\ Remember(p, order)
  BY DEF AnswerFresh
<1>2. PICK no : no = FALSE /\ Answer(r, call[r], 201, order, no)
  BY DEF AnswerFresh
<1>3. p \in Posts
  BY <1>0, <1>1 DEF CallsOK
<1>4. /\ order.id = r /\ order.buyer = p.user /\ order \in OrderType
  <2>1. call[r].seller \in STRING \cup {None}
    BY <1>0 DEF CallsOK
  <2>2. QED  BY <1>3, <2>1 DEF OrderType
<1> HIDE DEF order
<1>5. Faithful(r, p, called) /\ r \in placed
  BY <1>0, <1>1 DEF AnswersOK, KeysOK
<1>6. OwnsIn(placed, called, order.id, p.user, p.key, hashBody(p.body))
  BY <1>4, <1>5 DEF OwnsIn, Faithful
<1>7. /\ CallsOK' /\ KeysOK' /\ Kept /\ AnswersOK' /\ call'[r].at = "done"
      /\ \A q \in Calls : call[q].at = "done" => call'[q].at = "done"
  <2>1. call[r].at # "done"
    BY <1>1
  <2>2. QED  BY <1>1, <1>2, <1>3, <1>6, <2>1, AnsweredKeeps
<1>8. orders' \in Seq(OrderType)
  <2>1. orders \in Seq(OrderType)
    BY <1>0 DEF StoreOK
  <2>2. QED  BY <1>1, <1>4, <2>1
<1>9. StoreOK'
  BY <1>0, <1>1, <1>3, <1>8, TakeKeeps DEF StoreOK
<1>10. ListedOK'
  <2>1. orders \in Seq(OrderType)
    BY <1>0 DEF StoreOK
  <2> DEFINE n == Len(orders)
  <2>2. /\ n \in Nat /\ DOMAIN orders = 1..n /\ DOMAIN orders' = 1..(n + 1)
        /\ orders'[n + 1] = order /\ \A i \in 1..n : orders'[i] = orders[i]
    BY <1>1, <1>4, <2>1
  <2>3. \A i \in 1..n : orders[i].id # r
    BY <1>0, <1>1, <2>2 DEF ListedOK
  <2>4. \A i, j \in DOMAIN orders' : orders'[i].id = orders'[j].id => i = j
    BY <1>0, <1>4, <2>2, <2>3 DEF ListedOK
  <2>5. ASSUME NEW i \in DOMAIN orders'
        PROVE  /\ orders'[i].id \in placed'
               /\ \E a \in resolveUser(orders'[i].buyer, "buyer") :
                    a.id = called'[orders'[i].id].user
               /\ call'[orders'[i].id].at = "done"
    <3>1. placed' = placed /\ called' = called
      BY <1>1 DEF txnVars
    <3>2. CASE i = n + 1
      BY <1>4, <1>5, <1>7, <2>2, <3>1, <3>2 DEF Faithful
    <3>3. CASE i \in 1..n
      <4>1. /\ orders[i].id \in placed
            /\ \E a \in resolveUser(orders[i].buyer, "buyer") :
                 a.id = called[orders[i].id].user
            /\ call[orders[i].id].at = "done"
        BY <1>0, <2>2, <3>3 DEF ListedOK
      <4>2. orders[i].id \in Calls
        BY <1>0, <4>1 DEF KeysOK
      <4>3. QED  BY <1>7, <2>2, <3>1, <3>3, <4>1, <4>2
    <3>4. QED  BY <2>2, <3>2, <3>3
  <2>6. QED  BY <2>4, <2>5 DEF ListedOK
<1>11. QED  BY <1>7, <1>9, <1>10 DEF OrdersInv, TypeInv

(* A status changes. *)
LEMMA UpdateStatusKeeps ==
  ASSUME OrdersInv, UpdateStatus
  PROVE  OrdersInv'
<1>0. StoreOK /\ CallsOK /\ KeysOK /\ AnswersOK /\ ListedOK
  BY DEF OrdersInv, TypeInv
<1>1. /\ UNCHANGED <<listings, orders, idempotencyStore, txnVars, call, reply>>
      /\ events' = events + 1
  BY DEF UpdateStatus, Count
<1>2. StoreOK'
  BY <1>0, <1>1, StoreLater
<1>3. CallsOK' /\ KeysOK' /\ AnswersOK' /\ ListedOK'
  BY <1>0, <1>1 DEF CallsOK, KeysOK, AnswersOK, ListedOK, txnVars
<1>4. QED  BY <1>2, <1>3 DEF OrdersInv, TypeInv

(* The process dies: memory is lost, and the calls in flight with it. *)
LEMMA RestartKeeps ==
  ASSUME OrdersInv, Restart
  PROVE  OrdersInv'
<1>0. StoreOK /\ CallsOK /\ KeysOK /\ AnswersOK /\ ListedOK
  BY DEF OrdersInv, TypeInv
<1> DEFINE lost(r) == [Idle EXCEPT !.at = "lost", !.post = call[r].post]
<1>1. /\ listings' = Seeded /\ orders' = <<>> /\ idempotencyStore' = {}
      /\ events' = events + 1 /\ UNCHANGED <<txnVars, reply>>
  BY DEF Restart, EmptyStore, Count
<1>2. call' = [r \in Calls |-> IF call[r].at \in {"idle", "done"} THEN call[r]
                               ELSE lost(r)]
  BY DEF Restart
<1>3. \A r \in Calls : /\ DOMAIN lost(r) = Fields /\ lost(r).at = "lost"
                       /\ lost(r).post = call[r].post /\ lost(r).seller = None
  BY DEF Idle, Fields
<1> HIDE DEF lost
<1>4. StoreOK'
  <2>1. Seeded \in Seq(ListingType)
    BY CatalogAssumptions DEF ListingType
  <2>2. \A i \in DOMAIN Seeded : Seeded[i].id \in Nat
    <3>1. \A i \in DOMAIN Seeded : Seeded[i] \in ListingType
      BY <2>1
    <3>2. QED  BY <3>1 DEF ListingType
  <2>3. Len(Seeded) \in Nat
    BY <2>1
  <2>4. QED  BY <1>0, <1>1, <2>1, <2>2, <2>3, CatalogAssumptions DEF StoreOK
<1>5. KeysOK'
  BY <1>0, <1>1, TxnSame
<1>6. \A r \in Calls :
        \/ call'[r] = call[r] /\ call[r].at \in {"idle", "done"}
        \/ call'[r] = lost(r) /\ call[r].at \notin {"idle", "done"}
  BY <1>2
<1>7. CallsOK'
  <2>1. DOMAIN call' = Calls /\ DOMAIN reply' = Calls
    BY <1>0, <1>1, <1>2 DEF CallsOK
  <2>2. ASSUME NEW r \in Calls
        PROVE  /\ DOMAIN call'[r] = Fields
               /\ call'[r].at \in Places
               /\ call'[r].seller \in STRING \cup {None}
               /\ call'[r].at # "idle" => call'[r].post \in Posts
               /\ reply'[r] = reply[r]
               /\ call'[r].at = "done" <=> call[r].at = "done"
    BY <1>0, <1>1, <1>3, <1>6 DEF CallsOK, Places
  <2>3. QED  BY <1>0, <2>1, <2>2 DEF CallsOK
<1>8. AnswersOK'
  <2>1. placed' = placed /\ called' = called /\ reply' = reply
    BY <1>1 DEF txnVars
  <2>2. \A r \in Calls : /\ call'[r].at \notin {"checkout", "loaded"}
                         /\ call'[r].post = call[r].post
    BY <1>3, <1>6
  <2>3. QED  BY <1>0, <1>1, <2>1, <2>2 DEF AnswersOK
<1>9. ListedOK'
  BY <1>1 DEF ListedOK
<1>10. QED  BY <1>4, <1>5, <1>7, <1>8, <1>9 DEF OrdersInv, TypeInv

(* A new listing is the last of its map, under an id that was never used. *)
LEMMA CreateEffect ==
  ASSUME StoreOK, CreateListing
  PROVE  /\ listings' \in Seq(ListingType)
         /\ DOMAIN listings' = 1..(Len(listings) + 1)
         /\ listings'[Len(listings) + 1].id = NewId
         /\ \A i \in 1..Len(listings) : listings'[i] = listings[i]
         /\ NewId = Len(Seeded) + events' /\ NewId \in Nat
         /\ events' = events + 1 /\ events \in Nat
<1>1. PICK body \in NewListings :
        listings' = Append(listings,
          [id |-> NewId, title |-> body.title, quantity |-> body.quantity,
           status |-> "active", seller |-> body.user])
  BY DEF CreateListing
<1> DEFINE new == [id |-> NewId, title |-> body.title,
                   quantity |-> body.quantity, status |-> "active",
                   seller |-> body.user]
<1>2. events' = events + 1 /\ events \in Nat
  BY DEF CreateListing, Count, StoreOK
<1>3. Len(Seeded) \in Nat /\ listings \in Seq(ListingType)
  BY CatalogAssumptions DEF StoreOK
<1>4. NewId = Len(Seeded) + events' /\ NewId \in Nat
  BY <1>2, <1>3 DEF NewId
<1>5. new \in ListingType /\ new.id = NewId
  BY <1>4, CatalogAssumptions DEF ListingType
<1> HIDE DEF new
<1>6. listings' = Append(listings, new)
  BY <1>1 DEF new
<1>7. QED  BY <1>2, <1>3, <1>4, <1>5, <1>6

(* An updated listing keeps its id and its place in the map. *)
LEMMA UpdateEffect ==
  ASSUME StoreOK, UpdateListing
  PROVE  /\ listings' \in Seq(ListingType) /\ DOMAIN listings' = DOMAIN listings
         /\ \A i \in DOMAIN listings : listings'[i].id = listings[i].id
         /\ events' = events + 1 /\ events \in Nat
         /\ \E k \in DOMAIN listings :
              /\ Arrive(IF listings[k].status = "active" THEN {}
                        ELSE {listings[k].id})
              /\ \A i \in DOMAIN listings \ {k} : listings'[i] = listings[i]
<1>1. PICK patch \in Patches, k \in DOMAIN listings :
        /\ listings[k].id = patch.id
        /\ listings' = [listings EXCEPT ![k] = Assign(@, patch.change)]
        /\ Arrive(IF listings[k].status = "active" THEN {} ELSE {patch.id})
  BY DEF UpdateListing
<1> DEFINE l == listings[k]
           m == Assign(l, patch.change)
<1>2. events' = events + 1 /\ events \in Nat
  BY DEF UpdateListing, Count, StoreOK
<1>3. l \in ListingType
  BY ListingFields
<1>4. m \in ListingType /\ m.id = l.id
  <2> DEFINE F == {"id", "title", "quantity", "status", "seller"}
             ch == patch.change
  <2>1. m = [x \in (DOMAIN l) \cup (DOMAIN ch) |->
               IF x \in DOMAIN ch THEN ch[x] ELSE l[x]]
    BY DEF Assign
  <2>2. DOMAIN l = F /\ DOMAIN ch \subseteq F /\ "id" \notin DOMAIN ch
        /\ "seller" \notin DOMAIN ch
    BY <1>3, CatalogAssumptions DEF ListingType
  <2>3. /\ l.id \in Nat /\ l.title \in Titles /\ l.quantity \in Nat
        /\ l.status \in {"active", "archived"} /\ l.seller \in STRING
    BY <1>3 DEF ListingType
  <2>4. /\ "title" \in DOMAIN ch => ch.title \in Titles
        /\ "quantity" \in DOMAIN ch => ch.quantity \in Nat
        /\ "status" \in DOMAIN ch => ch.status \in {"active", "archived"}
    BY CatalogAssumptions
  <2>5. m = [x \in F |-> IF x \in DOMAIN ch THEN ch[x] ELSE l[x]]
    <3>1. (DOMAIN l) \cup (DOMAIN ch) = F
      BY <2>2
    <3> HIDE DEF m, l, ch, F
    <3>2. QED  BY <2>1, <3>1
  <2> HIDE DEF m, l, ch
  <2>6. /\ DOMAIN m = F /\ m.id = l.id /\ m.seller = l.seller
        /\ m.title \in Titles /\ m.quantity \in Nat
        /\ m.status \in {"active", "archived"}
    BY <2>2, <2>3, <2>4, <2>5
  <2>7. m = [id |-> m.id, title |-> m.title, quantity |-> m.quantity,
             status |-> m.status, seller |-> m.seller]
    BY <2>5
  <2>8. QED  BY <2>3, <2>6, <2>7 DEF ListingType
<1> HIDE DEF m
<1>5. listings \in Seq(ListingType) /\ Len(listings) \in Nat
      /\ DOMAIN listings = 1..Len(listings)
  BY DEF StoreOK
<1>6. listings' = [listings EXCEPT ![k] = m]
  BY <1>1 DEF m
<1>7. /\ listings' \in Seq(ListingType) /\ DOMAIN listings' = DOMAIN listings
      /\ \A i \in DOMAIN listings : listings'[i].id = listings[i].id
      /\ \A i \in DOMAIN listings \ {k} : listings'[i] = listings[i]
  BY <1>4, <1>5, <1>6
<1>8. QED  BY <1>1, <1>2, <1>7

(* Listings are created and updated, pages are read. *)
LEMMA CatalogueKeeps ==
  ASSUME OrdersInv, Catalogue
  PROVE  OrdersInv'
<1>0. StoreOK /\ CallsOK /\ KeysOK /\ AnswersOK /\ ListedOK
  BY DEF OrdersInv, TypeInv
<1>1. UNCHANGED <<txnVars, call, reply, orders, idempotencyStore>>
  BY DEF Catalogue, CatalogNext, StartWalk, NextPage, CreateListing, UpdateListing
<1>2. CallsOK' /\ KeysOK' /\ AnswersOK' /\ ListedOK'
  BY <1>0, <1>1 DEF CallsOK, KeysOK, AnswersOK, ListedOK, txnVars
<1>3. Len(Seeded) \in Nat /\ listings \in Seq(ListingType)
      /\ Len(listings) \in Nat /\ DOMAIN listings = 1..Len(listings)
  BY <1>0, CatalogAssumptions DEF StoreOK
<1>4. ASSUME StartWalk \/ NextPage PROVE StoreOK'
  <2>1. listings' = listings /\ events' \in {events, events + 1}
    BY <1>4 DEF StartWalk, NextPage, Count
  <2>2. QED  BY <1>0, <1>1, <2>1, StoreLater
<1>5. ASSUME CreateListing PROVE StoreOK'
  <2> DEFINE n == Len(listings)
  <2>1. /\ listings' \in Seq(ListingType) /\ DOMAIN listings' = 1..(n + 1)
        /\ listings'[n + 1].id = NewId
        /\ \A i \in 1..n : listings'[i] = listings[i]
        /\ NewId = Len(Seeded) + events' /\ NewId \in Nat
        /\ events' = events + 1 /\ events \in Nat
    BY <1>0, <1>5, CreateEffect
  <2>2. \A i \in 1..n : /\ listings[i].id \in Nat
                        /\ listings[i].id <= Len(Seeded) + events
    BY <1>0, <1>3, ListingFields DEF StoreOK
  <2>3. \A i \in 1..n : listings[i].id # NewId
    BY <1>3, <2>1, <2>2
  <2>4. \A i \in 1..(n + 1) : listings'[i].id <= Len(Seeded) + events'
    BY <1>3, <2>1, <2>2
  <2>5. \A i, j \in 1..(n + 1) : listings'[i].id = listings'[j].id => i = j
    BY SMTT(30), <1>0, <1>3, <2>1, <2>3 DEF StoreOK
  <2>6. QED  BY <1>0, <1>1, <2>1, <2>4, <2>5 DEF StoreOK
<1>6. ASSUME UpdateListing PROVE StoreOK'
  <2>1. /\ listings' \in Seq(ListingType) /\ DOMAIN listings' = DOMAIN listings
        /\ \A i \in DOMAIN listings : listings'[i].id = listings[i].id
        /\ events' = events + 1 /\ events \in Nat
    BY <1>0, <1>6, UpdateEffect
  <2>2. \A i \in DOMAIN listings : listings'[i].id <= Len(Seeded) + events'
    <3>1. ASSUME NEW i \in DOMAIN listings
          PROVE  listings[i].id <= Len(Seeded) + events'
      <4>1. listings[i].id \in Nat /\ listings[i].id <= Len(Seeded) + events
        BY <1>0, ListingFields DEF StoreOK
      <4>2. QED  BY <1>3, <2>1, <4>1
    <3>2. QED  BY <2>1, <3>1
  <2>3. QED  BY <1>0, <1>1, <2>1, <2>2 DEF StoreOK
<1>7. QED
  BY <1>2, <1>4, <1>5, <1>6 DEF Catalogue, CatalogNext, OrdersInv, TypeInv

-----------------------------------------------------------------------------
(* Every step keeps the invariant. *)
LEMMA StepInv == OrdersInv /\ [Next]_vars => OrdersInv'
<1> SUFFICES ASSUME OrdersInv, [Next]_vars PROVE OrdersInv'
  OBVIOUS
<1>1. ASSUME NEW r \in Calls,
             \/ Create(r) \/ FindProduct(r) \/ ResolveBuyer(r) \/ Checkout(r)
             \/ AnswerFresh(r) \/ AnswerRefused(r) \/ LoadReplay(r)
             \/ AnswerReplay(r) \/ QueryFails(r)
      PROVE  OrdersInv'
  BY <1>1, CreateKeeps, FindProductKeeps, ResolveBuyerKeeps, CheckoutKeeps,
     AnswerFreshKeeps, RefusedKeeps, LoadReplayKeeps, AnswerReplayKeeps
<1>2. CASE UpdateStatus
  BY <1>2, UpdateStatusKeeps
<1>3. CASE Restart
  BY <1>3, RestartKeeps
<1>4. CASE Catalogue
  BY <1>4, CatalogueKeeps
<1>5. CASE UNCHANGED vars
  <2>1. UNCHANGED <<listings, orders, idempotencyStore, events, txnVars, call,
                    reply>>
    BY <1>5 DEF vars, catalogVars
  <2>2. QED
    BY <2>1 DEF OrdersInv, TypeInv, StoreOK, CallsOK, KeysOK, AnswersOK,
                ListedOK, txnVars
<1>6. QED  BY <1>1, <1>2, <1>3, <1>4, <1>5 DEF Next

(* So it always holds. *)
LEMMA InvHolds == Spec => []OrdersInv
BY InitInv, StepInv, PTL DEF Spec

(***************************************************************************)
(* In every behaviour of any number of concurrent POST /v1/orders, listing *)
(* changes and restarts, listings keep distinct ids and quantities that    *)
(* are never negative, and exactly the calls that are over have an answer. *)
(***************************************************************************)
THEOREM OrdersTypeCorrect == Spec => []TypeOK
<1>1. ASSUME OrdersInv PROVE TypeOK
  <2>1. StoreOK /\ CallsOK
    BY <1>1 DEF OrdersInv, TypeInv
  <2>2. \A i \in DOMAIN listings : listings[i].quantity \in Nat
    BY <2>1, ListingFields
  <2>3. QED  BY <2>1, <2>2 DEF TypeOK, StoreOK, CallsOK, Places
<1>2. QED  BY <1>1, InvHolds, PTL

(***************************************************************************)
(* Whatever header, interleaving or restart filled it, the in-memory cache *)
(* of idempotency keys agrees with the key rows of the database.           *)
(***************************************************************************)
THEOREM CacheIsBackedByKeys == Spec => []CacheAgreesWithKeys
<1>1. ASSUME OrdersInv PROVE CacheAgreesWithKeys
  <2>1. KeysOK /\ AnswersOK
    BY <1>1 DEF OrdersInv
  <2> SUFFICES ASSUME NEW e \in idempotencyStore
               PROVE  \E t \in taken, p \in Posts :
                        \E a \in resolveUser(p.user, "buyer") :
                          /\ CacheKey(p) = e.cacheKey
                          /\ t.user = a.id /\ t.key = p.key
                          /\ t.by = e.body.id /\ t.hash = e.bodyHash
    BY DEF CacheAgreesWithKeys
  <2>2. PICK p \in Posts :
          /\ CacheKey(p) = e.cacheKey
          /\ OwnsIn(placed, called, e.body.id, p.user, p.key, e.bodyHash)
    BY <2>1 DEF AnswersOK, BackedIn
  <2>3. PICK t \in taken : t.by = e.body.id
    BY <2>1, <2>2 DEF OwnsIn, KeysOK
  <2>4. PICK a \in resolveUser(p.user, "buyer") :
          a.id = called[e.body.id].user
    BY <2>2 DEF OwnsIn
  <2>5. /\ t.user = a.id /\ t.key = p.key /\ t.hash = e.bodyHash
    BY <2>1, <2>2, <2>3, <2>4 DEF OwnsIn, KeysOK
  <2>6. QED  BY <2>2, <2>3, <2>4, <2>5
<1>2. QED  BY <1>1, InvHolds, PTL

(* What a caller whose header names an account is answered is its own: no  *)
(* other such caller has the same cache key.                               *)
LEMMA NamedOwns ==
  ASSUME NEW p \in Posts, resolveUser(p.user, "buyer") # {}, NEW o, NEW b,
         BackedIn(placed, called, o, CacheKey(p), b)
  PROVE  OwnsIn(placed, called, o, p.user, p.key, b)
<1>1. PICK q \in Posts : /\ CacheKey(q) = CacheKey(p)
                         /\ OwnsIn(placed, called, o, q.user, q.key, b)
  BY DEF BackedIn
<1>2. resolveUser(q.user, "buyer") # {}
  BY <1>1 DEF OwnsIn
<1>3. q.user = p.user /\ q.key = p.key
  BY <1>1, <1>2, AccountsApart DEF CacheKey
<1>4. QED  BY <1>1, <1>3

(* An order, its account and its key determine each other. *)
LEMMA OneOwner ==
  ASSUME KeysOK, NEW o, NEW q, NEW g, NEW h, NEW k, NEW b, NEW d,
         resolveUser(g, "buyer") = resolveUser(h, "buyer"),
         OwnsIn(placed, called, o, g, k, b), OwnsIn(placed, called, q, h, k, d)
  PROVE  o = q /\ b = d
<1>1. called[o].user = called[q].user
  BY OneAccount DEF OwnsIn
<1>2. PICK t \in taken : t.by = o
  BY DEF OwnsIn, KeysOK
<1>3. PICK u \in taken : u.by = q
  BY DEF OwnsIn, KeysOK
<1>4. t.user = u.user /\ t.key = u.key
  BY <1>1, <1>2, <1>3 DEF OwnsIn, KeysOK
<1>5. o = q
  BY <1>2, <1>3, <1>4 DEF KeysOK
<1>6. QED  BY <1>5 DEF OwnsIn

(***************************************************************************)
(* One account and one key have one order at the API, through whichever    *)
(* header that names the account, a cache hit, a replay or a restart, and  *)
(* one body.                                                               *)
(***************************************************************************)
THEOREM OneOrderPerAccountKey == Spec => []SameKeySameOrder
<1>1. ASSUME OrdersInv PROVE SameKeySameOrder
  <2>1. KeysOK /\ AnswersOK /\ CallsOK
    BY <1>1 DEF OrdersInv, TypeInv
  <2> SUFFICES ASSUME NEW r \in Calls, NEW s \in Calls,
                      reply[r].code = 201, reply[s].code = 201,
                      call[r].post.key = call[s].post.key,
                      resolveUser(call[r].post.user, "buyer")
                        = resolveUser(call[s].post.user, "buyer"),
                      resolveUser(call[r].post.user, "buyer") # {}
               PROVE  /\ reply[r].order.id = reply[s].order.id
                      /\ call[r].post.body = call[s].post.body
    BY DEF SameKeySameOrder
  <2> DEFINE p == call[r].post
             q == call[s].post
  <2>0. p \in Posts /\ q \in Posts
    BY <2>1 DEF CallsOK
  <2>2. OwnsIn(placed, called, reply[r].order.id, p.user, p.key,
               hashBody(p.body))
    <3>1. BackedIn(placed, called, reply[r].order.id, CacheKey(p),
                   hashBody(p.body))
      BY <2>1 DEF AnswersOK
    <3>2. QED  BY <2>0, <3>1, NamedOwns
  <2>3. OwnsIn(placed, called, reply[s].order.id, q.user, p.key,
               hashBody(q.body))
    <3>1. BackedIn(placed, called, reply[s].order.id, CacheKey(q),
                   hashBody(q.body))
      BY <2>1 DEF AnswersOK
    <3>2. OwnsIn(placed, called, reply[s].order.id, q.user, q.key,
                 hashBody(q.body))
      BY <2>0, <3>1, NamedOwns
    <3>3. QED  BY <3>2
  <2>4. reply[r].order.id = reply[s].order.id /\ hashBody(p.body) = hashBody(q.body)
    BY <2>1, <2>2, <2>3, OneOwner
  <2>5. p.body = q.body
    BY <2>4 DEF hashBody
  <2>6. QED  BY <2>4, <2>5
<1>2. QED  BY <1>1, InvHolds, PTL

(***************************************************************************)
(* No answer and no page of list holds an order that is not in the         *)
(* database, a caller whose header names an account is answered with what  *)
(* that account paid for, and a page holds an order for its buyer only,    *)
(* and once.                                                               *)
(***************************************************************************)
THEOREM OnlyBuyersSeeOrders == Spec => []PaidByCaller
<1>1. ASSUME OrdersInv PROVE PaidByCaller
  <2>1. CallsOK /\ KeysOK /\ AnswersOK /\ ListedOK
    BY <1>1 DEF OrdersInv, TypeInv
  <2>2. ASSUME NEW r \in Calls, reply[r].code = 201
        PROVE  /\ reply[r].order.id \in placed
               /\ resolveUser(call[r].post.user, "buyer") # {} =>
                    \E a \in resolveUser(call[r].post.user, "buyer") :
                      a.id = called[reply[r].order.id].user
    <3>1. call[r].post \in Posts
      BY <2>1, <2>2 DEF CallsOK
    <3>2. BackedIn(placed, called, reply[r].order.id, CacheKey(call[r].post),
                   hashBody(call[r].post.body))
      BY <2>1, <2>2 DEF AnswersOK
    <3>3. reply[r].order.id \in placed
      BY <3>2 DEF BackedIn, OwnsIn
    <3>4. QED  BY <3>1, <3>2, <3>3, NamedOwns DEF OwnsIn
  <2>3. QED  BY <2>1, <2>2 DEF PaidByCaller, ListedOK
<1>2. QED  BY <1>1, InvHolds, PTL

-----------------------------------------------------------------------------
(* How many of the positions P are at most i, and the k-th of them *)
Rank(P, i) == Cardinality({j \in P : j <= i})
Nth(P, k) == CHOOSE i \in P : Rank(P, i) = k

(* Ranks count positions in their order, and leave out no number. *)
LEMMA RankFacts ==
  ASSUME NEW P, P \subseteq Nat, IsFiniteSet(P)
  PROVE  /\ Cardinality(P) \in Nat
         /\ \A i \in P : Rank(P, i) \in 1..Cardinality(P)
         /\ \A i, j \in P : i < j => Rank(P, i) < Rank(P, j)
         /\ \A k \in 1..Cardinality(P) : \E i \in P : Rank(P, i) = k
<1> DEFINE N == Cardinality(P)
           U(i) == {j \in P : j <= i}
<1>1. N \in Nat
  BY FS_CardinalityType
<1>2. \A i \in P : U(i) \subseteq P /\ IsFiniteSet(U(i)) /\ Cardinality(U(i)) \in Nat
  <2> TAKE i \in P
  <2>1. U(i) \subseteq P
    OBVIOUS
  <2> HIDE DEF U
  <2>2. QED  BY <2>1, FS_Subset, FS_CardinalityType
<1>3. ASSUME NEW i \in P PROVE Cardinality(U(i)) \in 1..N
  <2>1. i \in U(i) /\ U(i) # {}
    OBVIOUS
  <2> HIDE DEF U
  <2>2. Cardinality(U(i)) <= N
    BY <1>2, FS_Subset
  <2>3. Cardinality(U(i)) # 0
    BY <1>2, <2>1, FS_EmptySet
  <2>4. QED  BY <1>1, <1>2, <2>2, <2>3
<1>4. ASSUME NEW i \in P, NEW j \in P, i < j
      PROVE  Cardinality(U(i)) < Cardinality(U(j))
  <2>0. i \in Int /\ j \in Int /\ \A x \in P : x \in Int
    OBVIOUS
  <2>1. U(i) \subseteq U(j) /\ j \in U(j) /\ j \notin U(i)
    <3>1. ASSUME NEW x \in P, x <= i PROVE x <= j
      BY <1>4, <2>0, <3>1
    <3>2. j <= j /\ ~(j <= i)
      BY <1>4, <2>0
    <3>3. QED  BY <3>1, <3>2
  <2> HIDE DEF U
  <2>2. Cardinality(U(i)) <= Cardinality(U(j))
        /\ Cardinality(U(i)) # Cardinality(U(j))
    BY <1>2, <2>1, FS_Subset
  <2>3. QED  BY <1>2, <2>2
<1> DEFINE f == [i \in P |-> Cardinality(U(i))]
<1> HIDE DEF U
<1>5. f \in [P -> 1..N]
  BY <1>3
<1>6. \A i, j \in P : f[i] = f[j] => i = j
  <2> SUFFICES ASSUME NEW i \in P, NEW j \in P, i # j PROVE f[i] # f[j]
    OBVIOUS
  <2>1. i \in Nat /\ j \in Nat /\ f[i] \in Nat /\ f[j] \in Nat
    BY <1>2
  <2>2. CASE i < j
    BY <1>4, <2>1, <2>2
  <2>3. CASE j < i
    BY <1>4, <2>1, <2>3
  <2>4. QED  BY <2>1, <2>2, <2>3
<1>7. f \in Injection(P, 1..N)
  <2> HIDE DEF f
  <2> QED  BY <1>5, <1>6 DEF Injection, IsInjective
<1>8. IsFiniteSet(1..N) /\ Cardinality(1..N) = N
  BY <1>1, FS_Interval
<1>9. f \in Surjection(P, 1..N)
  <2> HIDE DEF f
  <2> QED  BY <1>7, <1>8, FS_Injection
<1>10. \A k \in 1..N : \E i \in P : Cardinality(U(i)) = k
  BY <1>9 DEF Surjection
<1>11. QED
  BY <1>1, <1>3, <1>4, <1>10 DEF Rank, U

(* The k-th position is the one of rank k. *)
LEMMA NthFacts ==
  ASSUME NEW P, P \subseteq Nat, IsFiniteSet(P)
  PROVE  /\ \A k \in 1..Cardinality(P) :
              Nth(P, k) \in P /\ Rank(P, Nth(P, k)) = k
         /\ \A i \in P : Nth(P, Rank(P, i)) = i
         /\ \A k, l \in 1..Cardinality(P) : k <= l <=> Nth(P, k) <= Nth(P, l)
<1>1. \A k \in 1..Cardinality(P) : Nth(P, k) \in P /\ Rank(P, Nth(P, k)) = k
  BY RankFacts DEF Nth
<1>2. \A i, j \in P : Rank(P, i) = Rank(P, j) => i = j
  <2> SUFFICES ASSUME NEW i \in P, NEW j \in P, i # j
               PROVE  Rank(P, i) # Rank(P, j)
    OBVIOUS
  <2>1. i \in Nat /\ j \in Nat
    OBVIOUS
  <2>2. /\ Rank(P, i) \in 1..Cardinality(P) /\ Rank(P, j) \in 1..Cardinality(P)
        /\ i < j => Rank(P, i) < Rank(P, j)
        /\ j < i => Rank(P, j) < Rank(P, i)
    BY RankFacts
  <2>3. QED  BY <2>1, <2>2
<1>3. \A i \in P : Nth(P, Rank(P, i)) = i
  BY <1>1, <1>2, RankFacts
<1>4. ASSUME NEW k \in 1..Cardinality(P), NEW l \in 1..Cardinality(P)
      PROVE  k <= l <=> Nth(P, k) <= Nth(P, l)
  <2> DEFINE i == Nth(P, k)
             j == Nth(P, l)
  <2>1. i \in P /\ j \in P /\ Rank(P, i) = k /\ Rank(P, j) = l
    BY <1>1
  <2> HIDE DEF i, j
  <2>2. /\ i \in Nat /\ j \in Nat /\ k \in Int /\ l \in Int
        /\ i < j => k < l
        /\ j < i => l < k
    <3>1. /\ i < j => Rank(P, i) < Rank(P, j)
          /\ j < i => Rank(P, j) < Rank(P, i)
      BY <2>1, RankFacts
    <3>2. i \in Nat /\ j \in Nat
      BY <2>1
    <3>3. QED  BY <2>1, <3>1, <3>2
  <2>3. i = j <=> k = l
    BY <2>1, <1>2
  <2>4. k <= l <=> i <= j
    BY <2>2, <2>3
  <2>5. QED  BY <2>4 DEF i, j
<1>5. QED  BY <1>1, <1>3, <1>4

(* A list holds the selected elements of its map in their order. *)
LEMMA FilterFacts ==
  ASSUME NEW T, NEW b \in Seq(T), NEW P \in SUBSET (DOMAIN b)
  PROVE  /\ P \subseteq Nat /\ IsFiniteSet(P) /\ Cardinality(P) \in Nat
         /\ Filter(b, P) \in Seq(T)
         /\ Len(Filter(b, P)) = Cardinality(P)
         /\ \A k \in 1..Cardinality(P) : Filter(b, P)[k] = b[Nth(P, k)]
<1>1. DOMAIN b = 1..Len(b) /\ Len(b) \in Nat
  OBVIOUS
<1>2. P \subseteq Nat /\ IsFiniteSet(P)
  <2>1. IsFiniteSet(1..Len(b))
    BY <1>1, FS_Interval
  <2>2. QED  BY <1>1, <2>1, FS_Subset
<1>3. Cardinality(P) \in Nat
  BY <1>2, FS_CardinalityType
<1> DEFINE N == Cardinality(P)
           e(k) == b[Nth(P, k)]
<1>4. Filter(b, P) = [k \in 1..N |-> e(k)]
  BY DEF Filter, Nth, Rank
<1>5. \A k \in 1..N : e(k) \in T
  BY <1>1, <1>2, NthFacts
<1> HIDE DEF N, e
<1>6. /\ Filter(b, P) \in Seq(T) /\ Len(Filter(b, P)) = N
      /\ \A k \in 1..N : Filter(b, P)[k] = e(k)
  BY <1>3, <1>4, <1>5 DEF N
<1>7. QED  BY <1>2, <1>3, <1>6 DEF N, e

(* The page of the list (b, P) after the cursor holds the selected elements *)
(* of ranks start + 1 to stop: those after the cursor, or from the first   *)
(* on if the cursor is not there.                                          *)
Cut(b, P, cursor, page, start, stop) ==
  /\ start <= stop
  /\ \/ start = 0 /\ \A i \in P : b[i].id # cursor
     \/ start > 0 /\ b[Nth(P, start)].id = cursor
  /\ DOMAIN page.items = 1..(stop - start)
  /\ \A m \in 1..(stop - start) : page.items[m] = b[Nth(P, start + m)]
  /\ \/ stop = Cardinality(P) /\ page.next_cursor = None
     \/ /\ stop > start /\ page.next_cursor = b[Nth(P, stop)].id
        /\ page.next_cursor # None

(* Every page is cut like that. *)
LEMMA PageFacts ==
  ASSUME NEW T, NEW b \in Seq(T), NEW P \in SUBSET (DOMAIN b),
         \A i \in DOMAIN b : b[i].id # None,
         NEW limit \in Nat \ {0}, NEW cursor, NEW page,
         page = paginate(Filter(b, P), limit, cursor)
  PROVE  \E start \in 0..Cardinality(P), stop \in 0..Cardinality(P) :
           Cut(b, P, cursor, page, start, stop)
<1> DEFINE L == Filter(b, P)
           N == Cardinality(P)
           start == PageStart(L, cursor)
           stop == IF start + limit < Len(L) THEN start + limit ELSE Len(L)
           slice == SubSeq(L, start + 1, stop)
<1>1. /\ P \subseteq Nat /\ IsFiniteSet(P) /\ N \in Nat
      /\ L \in Seq(T) /\ Len(L) = N /\ DOMAIN L = 1..N
      /\ \A k \in 1..N : L[k] = b[Nth(P, k)]
  BY FilterFacts
<1>2. \A k \in 1..N : Nth(P, k) \in P
  BY <1>1, NthFacts
<1>3. \A i \in P : \E k \in 1..N : i = Nth(P, k)
  <2> TAKE i \in P
  <2>1. Rank(P, i) \in 1..N /\ Nth(P, Rank(P, i)) = i
    BY <1>1, RankFacts, NthFacts
  <2>2. QED  BY <2>1
<1> HIDE DEF L, N
<1>4. /\ start \in 0..N
      /\ \/ start = 0 /\ \A i \in P : b[i].id # cursor
         \/ start > 0 /\ b[Nth(P, start)].id = cursor
  <2>1. CASE \E i \in DOMAIN L : L[i].id = cursor
    <3>1. start \in DOMAIN L /\ L[start].id = cursor
      BY <2>1 DEF PageStart
    <3> HIDE DEF start
    <3>2. QED  BY <1>1, <3>1
  <2>2. CASE ~ \E i \in DOMAIN L : L[i].id = cursor
    <3>1. start = 0
      BY <2>2 DEF PageStart
    <3> HIDE DEF start
    <3>2. \A k \in 1..N : b[Nth(P, k)].id # cursor
      BY <1>1, <2>2
    <3>3. QED  BY <1>1, <1>3, <3>1, <3>2
  <2>3. QED  BY <2>1, <2>2
<1>5. page = [items |-> slice,
              next_cursor |-> IF HasMore(L, start, limit) /\ slice # <<>>
                              THEN Last(slice).id ELSE None]
  BY DEF paginate, L
<1>6. page.items = slice
      /\ page.next_cursor = IF HasMore(L, start, limit) /\ slice # <<>>
                            THEN Last(slice).id ELSE None
  <2> HIDE DEF slice, start
  <2> QED  BY <1>5
<1> HIDE DEF start
<1>7. stop \in 0..N /\ start <= stop
  BY <1>1, <1>4
<1>8. /\ slice \in Seq(T) /\ Len(slice) = stop - start
      /\ \A m \in 1..(stop - start) : slice[m] = b[Nth(P, start + m)]
  <2> HIDE DEF stop
  <2>1. start \in Int /\ stop \in Int /\ start + 1 \in Int
    BY <1>1, <1>4, <1>7
  <2>2. \A i \in (start + 1)..stop : i \in 1..N
    BY <1>1, <1>4, <1>7
  <2>3. \A i \in (start + 1)..stop : L[i] \in T
    BY <1>1, <2>2
  <2>4. /\ slice \in Seq(T)
        /\ Len(slice) = IF start + 1 <= stop THEN stop - (start + 1) + 1 ELSE 0
        /\ \A i \in 1..(stop - (start + 1) + 1) :
             slice[i] = L[(start + 1) + i - 1]
    BY <2>1, <2>3, SubSeqProperties
  <2> HIDE DEF slice
  <2>5. Len(slice) = stop - start
    BY <1>7, <2>1, <2>4
  <2>6. ASSUME NEW m \in 1..(stop - start)
        PROVE  slice[m] = b[Nth(P, start + m)]
    <3>1. /\ m \in 1..(stop - (start + 1) + 1)
          /\ (start + 1) + m - 1 = start + m /\ start + m \in 1..N
      BY <1>1, <1>4, <1>7, <2>1
    <3>2. slice[m] = L[start + m]
      BY <2>4, <3>1
    <3>3. QED  BY <1>1, <3>1, <3>2
  <2>7. QED  BY <2>4, <2>5, <2>6
<1>9. \/ stop = N /\ page.next_cursor = None
      \/ /\ stop > start /\ page.next_cursor = b[Nth(P, stop)].id
         /\ page.next_cursor # None
  <2>1. CASE start + limit < Len(L)
    <3>1. stop = start + limit /\ stop > start /\ stop \in 1..N /\ stop - start \in 1..(stop - start)
          /\ start + (stop - start) = stop
      BY <1>1, <1>4, <2>1
    <3> HIDE DEF stop, slice
    <3>2. slice # <<>> /\ Last(slice) = b[Nth(P, stop)]
      <4>1. slice[stop - start] = b[Nth(P, stop)]
        BY <1>8, <3>1
      <4>2. Len(slice) # 0
        BY <1>4, <1>7, <1>8, <3>1
      <4>3. QED  BY <1>8, <4>1, <4>2 DEF Last
    <3>3. HasMore(L, start, limit)
      BY <2>1 DEF HasMore
    <3>4. page.next_cursor = b[Nth(P, stop)].id
      BY <1>6, <3>2, <3>3
    <3>5. Nth(P, stop) \in DOMAIN b
      BY <1>2, <3>1
    <3>6. QED  BY <3>1, <3>4, <3>5
  <2>2. CASE ~(start + limit < Len(L))
    <3>1. stop = N
      BY <1>1, <2>2
    <3> HIDE DEF stop, slice
    <3>2. QED  BY <1>6, <2>2, <3>1 DEF HasMore
  <2>3. QED  BY <2>1, <2>2
<1> HIDE DEF stop, slice
<1>10. QED
  <2>1. /\ DOMAIN page.items = 1..(stop - start)
        /\ \A m \in 1..(stop - start) : page.items[m] = b[Nth(P, start + m)]
    BY <1>6, <1>8
  <2>2. Cut(b, P, cursor, page, start, stop)
    BY <1>4, <1>7, <1>9, <2>1 DEF Cut, N
  <2>3. QED  BY <1>4, <1>7, <2>2 DEF N

(* Ranks and positions are ordered alike. *)
LEMMA RankOrder ==
  ASSUME NEW P, P \subseteq Nat, IsFiniteSet(P), NEW i \in P, NEW j \in P
  PROVE  Rank(P, i) <= Rank(P, j) <=> i <= j
<1>1. /\ Rank(P, i) \in 1..Cardinality(P) /\ Rank(P, j) \in 1..Cardinality(P)
      /\ i < j => Rank(P, i) < Rank(P, j)
      /\ j < i => Rank(P, j) < Rank(P, i)
  BY RankFacts
<1>2. i \in Nat /\ j \in Nat
  OBVIOUS
<1>3. QED  BY <1>1, <1>2

(* What two sequences hold together *)
LEMMA ConcatFacts ==
  ASSUME NEW S, NEW s \in Seq(S), NEW t \in Seq(S)
  PROVE  /\ s \o t \in Seq(S)
         /\ ToSet(s \o t) = ToSet(s) \cup ToSet(t)
         /\ IsInjective(s) /\ IsInjective(t) /\ ToSet(s) \cap ToSet(t) = {}
              => IsInjective(s \o t)
<1> DEFINE m == Len(s)
           n == Len(t)
           u == s \o t
<1>1. /\ u \in Seq(S) /\ Len(u) = m + n /\ m \in Nat /\ n \in Nat
      /\ \A i \in 1..(m + n) : u[i] = IF i <= m THEN s[i] ELSE t[i - m]
      /\ DOMAIN u = 1..(m + n) /\ DOMAIN s = 1..m /\ DOMAIN t = 1..n
  OBVIOUS
<1> HIDE DEF m, n, u
<1>2. \A i \in 1..(m + n) : IF i <= m THEN i \in 1..m ELSE i - m \in 1..n
  BY <1>1
<1>3. ToSet(u) \subseteq ToSet(s) \cup ToSet(t)
  BY <1>1, <1>2 DEF ToSet
<1>4. ToSet(s) \subseteq ToSet(u)
  BY <1>1 DEF ToSet
<1>5. ToSet(t) \subseteq ToSet(u)
  <2> SUFFICES ASSUME NEW k \in 1..n PROVE t[k] \in ToSet(u)
    BY <1>1 DEF ToSet
  <2>1. k + m \in 1..(m + n) /\ ~(k + m <= m) /\ (k + m) - m = k
    BY <1>1
  <2>2. u[k + m] = t[k]
    BY <1>1, <2>1
  <2>3. QED  BY <1>1, <2>1, <2>2 DEF ToSet
<1>6. ASSUME IsInjective(s), IsInjective(t), ToSet(s) \cap ToSet(t) = {},
             NEW i \in 1..(m + n), NEW j \in 1..(m + n), u[i] = u[j]
      PROVE  i = j
  <2>1. CASE i <= m /\ j <= m
    BY <1>1, <1>2, <1>6, <2>1 DEF IsInjective
  <2>2. CASE ~(i <= m) /\ ~(j <= m)
    <3>1. t[i - m] = t[j - m] /\ i - m \in 1..n /\ j - m \in 1..n
      BY <1>1, <1>2, <1>6, <2>2
    <3>2. i - m = j - m
      BY <1>1, <1>6, <3>1 DEF IsInjective
    <3>3. QED  BY <1>1, <3>2
  <2>3. CASE i <= m /\ ~(j <= m)
    <3>1. u[i] \in ToSet(s) /\ u[j] \in ToSet(t)
      BY <1>1, <1>2, <2>3 DEF ToSet
    <3>2. QED  BY <1>6, <3>1
  <2>4. CASE ~(i <= m) /\ j <= m
    <3>1. u[j] \in ToSet(s) /\ u[i] \in ToSet(t)
      BY <1>1, <1>2, <2>4 DEF ToSet
    <3>2. QED  BY <1>6, <3>1
  <2>5. QED  BY <2>1, <2>2, <2>3, <2>4
<1>7. IsInjective(s) /\ IsInjective(t) /\ ToSet(s) \cap ToSet(t) = {}
        => IsInjective(u)
  BY <1>1, <1>6 DEF IsInjective
<1>8. QED  BY <1>1, <1>3, <1>4, <1>5, <1>7 DEF u

(* A page in a walk: w asks, v has been answered. *)
LEMMA PageWalks ==
  ASSUME NEW T, NEW b \in Seq(T), NEW P \in SUBSET (DOMAIN b),
         \A i, j \in DOMAIN b : b[i].id = b[j].id => i = j,
         \A i \in DOMAIN b : b[i].id # None /\ b[i].id \in Nat \cup Calls,
         NEW w, w.open, w.seen \in Seq(Nat \cup Calls), WalkOK(w, b, P),
         NEW limit \in Nat \ {0}, NEW page,
         page = paginate(Filter(b, P), limit, w.cursor), NEW v,
         v.seen = w.seen \o [i \in DOMAIN page.items |-> page.items[i].id],
         v.cursor = page.next_cursor, v.open <=> page.next_cursor # None,
         v.strayed <=> \/ w.strayed
                       \/ w.cursor # None /\ w.cursor \notin Ids(Filter(b, P)),
         v.arrived = w.arrived
  PROVE  /\ v.seen \in Seq(Nat \cup Calls)
         /\ v.cursor \in Nat \cup Calls \cup {None}
         /\ ToSet(v.seen) \subseteq ToSet(w.seen) \cup {b[i].id : i \in P}
         /\ WalkOK(v, b, P)
<1> DEFINE N == Cardinality(P)
<1>1. /\ P \subseteq Nat /\ IsFiniteSet(P) /\ N \in Nat
      /\ Len(Filter(b, P)) = N /\ DOMAIN Filter(b, P) = 1..N
      /\ \A k \in 1..N : Filter(b, P)[k] = b[Nth(P, k)]
  BY FilterFacts
<1>2. PICK start \in 0..N, stop \in 0..N :
        Cut(b, P, w.cursor, page, start, stop)
  BY PageFacts
<1> DEFINE ids == [i \in DOMAIN page.items |-> page.items[i].id]
<1>3. /\ \A k \in 1..N : Nth(P, k) \in P /\ Rank(P, Nth(P, k)) = k
      /\ \A i \in P : Rank(P, i) \in 1..N /\ Nth(P, Rank(P, i)) = i
  BY <1>1, RankFacts, NthFacts
<1> HIDE DEF N
<1>4. /\ DOMAIN page.items = 1..(stop - start) /\ stop - start \in Nat
      /\ \A m \in 1..(stop - start) : start + m \in 1..N
  BY <1>1, <1>2 DEF Cut
<1>5. /\ DOMAIN ids = 1..(stop - start)
      /\ \A m \in 1..(stop - start) : ids[m] = b[Nth(P, start + m)].id
  BY <1>2, <1>4 DEF Cut
<1>6. ids \in Seq(Nat \cup Calls)
  <2>1. \A m \in 1..(stop - start) : page.items[m].id \in Nat \cup Calls
    BY <1>2, <1>3, <1>4 DEF Cut
  <2>2. ids \in [1..(stop - start) -> Nat \cup Calls]
    BY <1>4, <2>1
  <2> HIDE DEF ids
  <2>3. QED  BY <1>4, <2>2
<1>7. v.seen = w.seen \o ids
  OBVIOUS
<1> HIDE DEF ids
<1>8. ASSUME NEW j \in P, start < Rank(P, j), Rank(P, j) <= stop
      PROVE  b[j].id \in ToSet(ids)
  <2>1. PICK m \in 1..(stop - start) : start + m = Rank(P, j)
    <3>1. PICK k \in Int : k = Rank(P, j)
      BY <1>1, <1>3
    <3>2. start < k /\ k <= stop /\ start \in Int /\ stop \in Int
      BY <1>1, <1>8, <3>1
    <3>3. k - start \in 1..(stop - start) /\ start + (k - start) = k
      BY <3>2
    <3>4. QED  BY <3>1, <3>3
  <2>2. ids[m] = b[j].id
    BY <1>3, <1>5, <2>1
  <2>3. QED  BY <1>5, <2>1, <2>2 DEF ToSet
<1>9. ASSUME NEW x \in ToSet(ids)
      PROVE  \E j \in P : x = b[j].id /\ start < Rank(P, j) /\ Rank(P, j) <= stop
  <2>1. PICK m \in 1..(stop - start) : x = ids[m]
    BY <1>5 DEF ToSet
  <2>2. /\ Nth(P, start + m) \in P /\ Rank(P, Nth(P, start + m)) = start + m
        /\ x = b[Nth(P, start + m)].id
    BY <1>3, <1>4, <1>5, <2>1
  <2>3. start < start + m /\ start + m <= stop
    BY <1>1, <1>2 DEF Cut
  <2>4. QED  BY <2>2, <2>3
<1>10. /\ v.seen \in Seq(Nat \cup Calls)
       /\ ToSet(v.seen) = ToSet(w.seen) \cup ToSet(ids)
       /\ IsInjective(w.seen) /\ IsInjective(ids) /\ ToSet(w.seen) \cap ToSet(ids) = {}
            => IsInjective(v.seen)
  <2> DEFINE u == w.seen \o ids
  <2>1. /\ u \in Seq(Nat \cup Calls)
        /\ ToSet(u) = ToSet(w.seen) \cup ToSet(ids)
        /\ IsInjective(w.seen) /\ IsInjective(ids)
           /\ ToSet(w.seen) \cap ToSet(ids) = {} => IsInjective(u)
    BY <1>6, ConcatFacts
  <2>2. v.seen = u
    BY <1>7
  <2> HIDE DEF u
  <2>3. QED  BY <2>1, <2>2
<1>11. ToSet(v.seen) \subseteq ToSet(w.seen) \cup {b[i].id : i \in P}
  BY <1>9, <1>10
<1>12. v.cursor \in Nat \cup Calls \cup {None}
  <2>1. CASE stop = N /\ page.next_cursor = None
    BY <2>1
  <2>2. CASE stop > start /\ page.next_cursor = b[Nth(P, stop)].id
    <3>1. Nth(P, stop) \in P
      BY <1>1, <1>2, <1>3, <2>2 DEF Cut
    <3>2. QED  BY <2>2, <3>1
  <2>3. QED  BY <1>2, <2>1, <2>2 DEF Cut
<1>13. start > 0 => Nth(P, start) \in P /\ Rank(P, Nth(P, start)) = start
                    /\ w.cursor # None /\ b[Nth(P, start)].id = w.cursor
  BY SMTT(30), <1>1, <1>2, <1>3 DEF Cut
<1>14. ASSUME NEW j \in P, Rank(P, j) <= start PROVE b[j].id \in Told(w)
  <2>1. start > 0
    BY <1>1, <1>3, <1>14
  <2>2. j <= Nth(P, start)
    <3>1. Nth(P, start) \in P /\ Rank(P, Nth(P, start)) = start
      BY <1>13, <2>1
    <3>2. QED  BY <1>1, <1>14, <3>1, RankOrder
  <2>3. QED  BY <1>13, <2>1, <2>2 DEF WalkOK
<1>15. ASSUME NEW j \in P, Rank(P, j) <= stop PROVE b[j].id \in Told(v)
  <2>1. CASE Rank(P, j) <= start
    BY <1>10, <1>14, <2>1 DEF Told
  <2>2. CASE start < Rank(P, j)
    BY <1>8, <1>10, <1>15, <2>2 DEF Told
  <2>3. start \in Int /\ Rank(P, j) \in Int
    BY <1>1, <1>3
  <2>4. QED  BY <2>1, <2>2, <2>3
<1>16. ASSUME ~v.strayed, NEW j \in DOMAIN b, b[j].id \in ToSet(w.seen)
       PROVE  start > 0 /\ j <= Nth(P, start)
  <2>1. w.seen # <<>>
    BY <1>16 DEF ToSet
  <2>2. w.cursor # None /\ w.cursor \in Ids(Filter(b, P)) /\ ~w.strayed
    BY <1>16, <2>1 DEF WalkOK
  <2>3. PICK k \in 1..N : b[Nth(P, k)].id = w.cursor
    BY SMTT(30), <1>1, <2>2 DEF Ids
  <2>4. start > 0
    BY <1>2, <1>3, <2>3 DEF Cut
  <2>5. QED  BY <1>13, <1>16, <2>2, <2>4 DEF WalkOK
<1>17. ~v.strayed => IsInjective(v.seen)
  <2> SUFFICES ASSUME ~v.strayed PROVE IsInjective(v.seen)
    OBVIOUS
  <2>1. IsInjective(w.seen)
    BY DEF WalkOK
  <2>2. IsInjective(ids)
    <3> SUFFICES ASSUME NEW m \in 1..(stop - start), NEW n \in 1..(stop - start),
                        ids[m] = ids[n]
                 PROVE  m = n
      BY <1>5 DEF IsInjective
    <3>1. Nth(P, start + m) = Nth(P, start + n)
      <4>1. /\ Nth(P, start + m) \in DOMAIN b /\ Nth(P, start + n) \in DOMAIN b
        BY <1>3, <1>4
      <4>2. b[Nth(P, start + m)].id = b[Nth(P, start + n)].id
        BY <1>5
      <4>3. QED  BY <4>1, <4>2
    <3>2. start + m = start + n
      <4>1. Rank(P, Nth(P, start + m)) = start + m
        BY <1>3, <1>4
      <4>2. Rank(P, Nth(P, start + n)) = start + n
        BY <1>3, <1>4
      <4>3. QED  BY <3>1, <4>1, <4>2
    <3>3. QED  BY <1>1, <3>2
  <2>3. ToSet(w.seen) \cap ToSet(ids) = {}
    <3> SUFFICES ASSUME NEW x \in ToSet(w.seen), x \in ToSet(ids) PROVE FALSE
      OBVIOUS
    <3>1. PICK j \in P : x = b[j].id /\ start < Rank(P, j)
      BY <1>9
    <3>2. start > 0 /\ j <= Nth(P, start)
      BY <1>16, <3>1
    <3>3. Rank(P, j) <= start
      <4>1. Nth(P, start) \in P /\ Rank(P, Nth(P, start)) = start
        BY <1>13, <3>2
      <4>2. QED  BY <1>1, <3>2, <4>1, RankOrder
    <3>4. QED  BY <1>1, <1>3, <3>1, <3>3
  <2>4. QED  BY <1>10, <2>1, <2>2, <2>3
<1>18. CASE stop = N /\ page.next_cursor = None
  <2>1. \A j \in P : b[j].id \in Told(v)
    BY <1>1, <1>3, <1>15, <1>18
  <2>2. ~v.open
    BY <1>18
  <2>3. QED  BY <1>10, <1>11, <1>12, <1>17, <2>1, <2>2 DEF WalkOK
<1>19. CASE /\ stop > start /\ page.next_cursor = b[Nth(P, stop)].id
            /\ page.next_cursor # None
  <2> DEFINE n == Nth(P, stop)
  <2>1. n \in P /\ Rank(P, n) = stop /\ n \in DOMAIN b
    BY <1>1, <1>2, <1>3, <1>19 DEF Cut
  <2>2. v.open /\ v.cursor # None /\ v.cursor = b[n].id
    BY <1>19
  <2> HIDE DEF n
  <2>3. \A k \in DOMAIN b : b[k].id = v.cursor => k = n
    BY <2>1, <2>2
  <2>4. v.cursor \in ToSet(v.seen)
    BY <1>1, <1>8, <1>10, <1>19, <2>1, <2>2
  <2>5. \A j \in P : j <= n => b[j].id \in Told(v)
    <3> SUFFICES ASSUME NEW j \in P, j <= n PROVE b[j].id \in Told(v)
      OBVIOUS
    <3>1. Rank(P, j) <= stop
      BY <1>1, <2>1, RankOrder
    <3>2. QED  BY <1>15, <3>1
  <2>6. ASSUME ~v.strayed, NEW j \in DOMAIN b, b[j].id \in ToSet(v.seen)
        PROVE  j <= n
    <3>1. CASE b[j].id \in ToSet(ids)
      <4>1. PICK i \in P : b[j].id = b[i].id /\ Rank(P, i) <= stop
        BY <1>9, <3>1
      <4>2. i = j
        BY <4>1
      <4>3. QED  BY <1>1, <2>1, <4>1, <4>2, RankOrder
    <3>2. CASE b[j].id \in ToSet(w.seen)
      <4>1. start > 0 /\ j <= Nth(P, start)
        BY <1>16, <2>6, <3>2
      <4>2. Nth(P, start) <= n
        <5>1. Nth(P, start) \in P /\ Rank(P, Nth(P, start)) <= stop
          BY <1>2, <1>13, <4>1 DEF Cut
        <5>2. QED  BY <1>1, <2>1, <5>1, RankOrder
      <4>3. j \in Nat /\ Nth(P, start) \in Nat /\ n \in Nat
        BY <1>1, <1>13, <2>1, <4>1
      <4>4. QED  BY <4>1, <4>2, <4>3
    <3>3. QED  BY <1>10, <2>6, <3>1, <3>2
  <2>7. WalkOK(v, b, P)
    BY <1>17, <2>2, <2>3, <2>4, <2>5, <2>6 DEF WalkOK
  <2>8. QED  BY <1>10, <1>11, <1>12, <2>7
<1>20. QED  BY <1>2, <1>18, <1>19 DEF Cut, N

(* The map changes under a walk: what is newly selected arrives, and no id *)
(* the client has seen is given to another position.                       *)
LEMMA MapWalks ==
  ASSUME NEW w, NEW v, NEW b, NEW P, NEW c, NEW Q, WalkOK(w, b, P),
         v.seen = w.seen, v.cursor = w.cursor, v.open <=> w.open,
         v.strayed <=> w.strayed, w.arrived \subseteq v.arrived,
         \A j \in Q : \/ j \in P /\ c[j].id = b[j].id
                      \/ c[j].id \in v.arrived,
         \A k \in DOMAIN c : \/ k \in DOMAIN b /\ c[k].id = b[k].id
                             \/ c[k].id \notin ToSet(w.seen)
  PROVE  WalkOK(v, c, Q)
<1>1. Told(w) \subseteq Told(v)
  BY DEF Told
<1>2. \A j \in Q : \/ j \in P /\ c[j].id = b[j].id
                   \/ c[j].id \in Told(v)
  BY DEF Told
<1>3. v.open /\ v.cursor # None => \A k \in DOMAIN c : c[k].id = v.cursor =>
            \A j \in Q : j <= k => c[j].id \in Told(v)
  BY <1>1, <1>2 DEF WalkOK
<1>4. ~v.open => \A j \in Q : c[j].id \in Told(v)
  BY <1>1, <1>2 DEF WalkOK
<1>5. ASSUME ~v.strayed, v.open, NEW k \in DOMAIN c, NEW j \in DOMAIN c,
             c[k].id = v.cursor, c[j].id \in ToSet(v.seen)
      PROVE  j <= k
  <2>1. v.cursor # None
    BY <1>5 DEF WalkOK, ToSet
  <2>2. v.cursor \in ToSet(w.seen)
    BY <1>5, <2>1 DEF WalkOK
  <2>3. QED  BY <1>5, <2>2 DEF WalkOK
<1>6. QED  BY <1>3, <1>4, <1>5 DEF WalkOK

(* A call that is over stays over. *)
LEMMA DoneStays ==
  ASSUME CallsOK, [Next]_vars
  PROVE  \A q \in Calls : call[q].at = "done" => call'[q].at = "done"
<1>1. ASSUME NEW r \in Calls, call[r].at # "done",
             \/ call' = call
             \/ \E c : call' = [call EXCEPT ![r] = c]
      PROVE  \A q \in Calls : call[q].at = "done" => call'[q].at = "done"
  BY <1>1 DEF CallsOK
<1>2. ASSUME NEW r \in Calls, NEW c, NextItem(r, c)
      PROVE  \E d : call' = [call EXCEPT ![r] = d]
  BY <1>2 DEF NextItem, Step, Refuse, Answer
<1>3. ASSUME NEW r \in Calls, Create(r)
      PROVE  \E c : call' = [call EXCEPT ![r] = c]
  BY <1>2, <1>3 DEF Create, Refuse, Answer
<1>4. ASSUME NEW r \in Calls, FindProduct(r)
      PROVE  \E c : call' = [call EXCEPT ![r] = c]
  BY <1>2, <1>4 DEF FindProduct, Refuse, Answer
<1>5. ASSUME NEW r \in Calls,
             \/ ResolveBuyer(r) \/ AnswerFresh(r) \/ AnswerRefused(r)
             \/ LoadReplay(r) \/ AnswerReplay(r) \/ QueryFails(r)
      PROVE  \E c : call' = [call EXCEPT ![r] = c]
  BY <1>5 DEF ResolveBuyer, AnswerFresh, AnswerRefused, LoadReplay, AnswerReplay,
              QueryFails, Step, Refuse, Answer
<1>6. ASSUME NEW r \in Calls,
             \/ Create(r) \/ FindProduct(r) \/ ResolveBuyer(r)
             \/ AnswerFresh(r) \/ AnswerRefused(r) \/ LoadReplay(r)
             \/ AnswerReplay(r) \/ QueryFails(r)
      PROVE  call[r].at # "done"
  BY <1>6 DEF Create, FindProduct, ResolveBuyer, AnswerFresh, AnswerRefused,
              LoadReplay, AnswerReplay, QueryFails
<1>7. ASSUME NEW r \in Calls, Checkout(r) PROVE call' = call
  BY <1>7 DEF Checkout
<1>8. ASSUME Restart
      PROVE  \A q \in Calls : call[q].at = "done" => call'[q].at = "done"
  <2>1. \A q \in Calls : call[q].at = "done" => call'[q] = call[q]
    BY <1>8 DEF Restart
  <2>2. QED  BY <2>1
<1>9. ASSUME UpdateStatus \/ Catalogue \/ UNCHANGED vars PROVE call' = call
  BY <1>9 DEF UpdateStatus, Catalogue, vars
<1>10. QED
  BY <1>1, <1>3, <1>4, <1>5, <1>6, <1>7, <1>8, <1>9 DEF Next

(* What a walk reads: a map whose elements have distinct ids. *)
LEMMA BaseFacts ==
  ASSUME StoreOK, ListedOK, NEW feed, Authorised(feed)
  PROVE  LET b == BaseOf(listings, orders, feed)
             P == PosOf(listings, orders, feed)
         IN  /\ b \in Seq(ListingType \cup OrderType)
             /\ P \in SUBSET (DOMAIN b)
             /\ \A i, j \in DOMAIN b : b[i].id = b[j].id => i = j
             /\ \A i \in DOMAIN b : b[i].id # None /\ b[i].id \in Nat \cup Calls
             /\ list(feed) = Filter(b, P)
<1> DEFINE b == BaseOf(listings, orders, feed)
           P == PosOf(listings, orders, feed)
<1>1. None \notin Nat \cup Calls
  BY CatalogAssumptions, OrdersAssumptions
<1>2. CASE feed.kind = "listings"
  <2>1. b = listings /\ P = {i \in DOMAIN listings : listings[i].status = "active"}
    BY <1>2 DEF BaseOf, PosOf
  <2>2. list(feed) = Filter(b, P)
    BY <1>2, <2>1 DEF list
  <2> HIDE DEF b, P
  <2>3. P \in SUBSET (DOMAIN b) /\ \A i, j \in DOMAIN b : b[i].id = b[j].id => i = j
    BY <2>1 DEF StoreOK
  <2>4. \A i \in DOMAIN b : b[i].id # None /\ b[i].id \in Nat \cup Calls
    BY <1>1, <2>1, ListingFields
  <2>5. b \in Seq(ListingType \cup OrderType)
    <3>1. listings \in Seq(ListingType)
      BY DEF StoreOK
    <3> DEFINE T == ListingType
               U == OrderType
    <3> HIDE DEF T, U
    <3>2. b \in Seq(T)
      BY <2>1, <3>1 DEF T
    <3>3. b \in Seq(T \cup U)
      BY <3>2
    <3>4. QED  BY <3>3 DEF T, U
  <2>6. QED  BY <2>2, <2>3, <2>4, <2>5 DEF b, P
<1>3. CASE feed.kind # "listings"
  <2>1. b = orders /\ P \subseteq DOMAIN orders
    BY <1>3 DEF BaseOf, PosOf
  <2>2. list(feed) = Filter(b, P)
    <3>1. CASE feed.role = "buyer"
      BY <1>3, <2>1, <3>1 DEF list, PosOf
    <3>2. CASE feed.role = "seller"
      BY <1>3, <2>1, <3>2 DEF list, PosOf
    <3>3. QED  BY <1>3, <3>1, <3>2 DEF Authorised
  <2> HIDE DEF b, P
  <2>3. P \in SUBSET (DOMAIN b) /\ \A i, j \in DOMAIN b : b[i].id = b[j].id => i = j
    BY <2>1 DEF ListedOK
  <2>4. \A i \in DOMAIN b : b[i].id # None /\ b[i].id \in Nat \cup Calls
    <3> SUFFICES ASSUME NEW i \in DOMAIN orders PROVE orders[i].id \in Calls
      BY <1>1, <2>1
    <3>1. orders[i] \in OrderType
      BY DEF StoreOK
    <3>2. QED  BY <3>1 DEF OrderType
  <2>5. b \in Seq(ListingType \cup OrderType)
    <3>1. orders \in Seq(OrderType)
      BY DEF StoreOK
    <3> DEFINE T == ListingType
               U == OrderType
    <3> HIDE DEF T, U
    <3>2. b \in Seq(U)
      BY <2>1, <3>1 DEF U
    <3>3. b \in Seq(T \cup U)
      BY <3>2
    <3>4. QED  BY <3>3 DEF T, U
  <2>6. QED  BY <2>2, <2>3, <2>4, <2>5 DEF b, P
<1>4. QED  BY <1>2, <1>3

(* What seen ids are stays so, while calls that are over stay over. *)
LEMMA SeenLater ==
  ASSUME StoreOK, SeenOK, events' \in {events, events + 1},
         \A q \in Calls : call[q].at = "done" => call'[q].at = "done",
         NEW x \in ToSet(walk.seen)
  PROVE  IF walk.feed.kind = "listings" THEN x \in Nat /\ x <= Len(Seeded) + events'
         ELSE x \in Calls /\ call'[x].at = "done"
<1>1. Len(Seeded) \in Nat /\ events \in Nat
  BY CatalogAssumptions DEF StoreOK
<1>2. QED  BY <1>1 DEF SeenOK

(* Ids arrive, and the map has changed as MapWalks allows. *)
LEMMA ArriveWalks ==
  ASSUME WalkInv, OrdersInv', events' \in {events, events + 1},
         \A q \in Calls : call[q].at = "done" => call'[q].at = "done",
         NEW A \in SUBSET (Nat \cup Calls), Arrive(A),
         \A i \in DOMAIN Seeded :
           i \in DOMAIN listings' /\ listings'[i].id = Seeded[i].id,
         ASSUME NEW feed, Authorised(feed), feed = walk.feed
         PROVE  LET b == BaseOf(listings, orders, feed)
                    P == PosOf(listings, orders, feed)
                    c == BaseOf(listings', orders', feed)
                    Q == PosOf(listings', orders', feed)
                IN  /\ \A j \in Q : \/ j \in P /\ c[j].id = b[j].id
                                    \/ c[j].id \in A
                    /\ \A k \in DOMAIN c :
                         \/ k \in DOMAIN b /\ c[k].id = b[k].id
                         \/ c[k].id \notin ToSet(walk.seen)
  PROVE  WalkInv'
<1>0. StoreOK /\ ListedOK /\ SeenOK
  BY DEF WalkInv, OrdersInv, TypeInv
<1>1. /\ walk \in WalkType
      /\ walk' = [walk EXCEPT !.arrived = IF walk.feed = None THEN @ ELSE @ \cup A]
  BY <1>0 DEF Arrive, SeenOK
<1>2. /\ walk'.feed = walk.feed /\ walk'.seen = walk.seen
      /\ walk'.cursor = walk.cursor /\ walk'.open = walk.open
      /\ walk'.strayed = walk.strayed /\ walk.arrived \subseteq walk'.arrived
      /\ walk.feed # None => A \subseteq walk'.arrived
      /\ walk' \in WalkType
  BY <1>1 DEF WalkType
<1>3. SeenOK'
  <2>1. \A x \in ToSet(walk.seen) :
          IF walk.feed.kind = "listings"
          THEN x \in Nat /\ x <= Len(Seeded) + events'
          ELSE x \in Calls /\ call'[x].at = "done"
    BY <1>0, SeenLater
  <2>2. QED  BY <1>0, <1>2, <2>1 DEF SeenOK
<1>4. ASSUME walk'.feed # None
      PROVE  WalkOK(walk', BaseOf(listings', orders', walk'.feed),
                    PosOf(listings', orders', walk'.feed))
  <2> DEFINE feed == walk.feed
             b == BaseOf(listings, orders, feed)
             P == PosOf(listings, orders, feed)
             c == BaseOf(listings', orders', feed)
             Q == PosOf(listings', orders', feed)
  <2>1. feed # None /\ Authorised(feed)
    BY <1>0, <1>2, <1>4 DEF SeenOK
  <2>2. /\ \A j \in Q : \/ j \in P /\ c[j].id = b[j].id
                        \/ c[j].id \in walk'.arrived
        /\ \A k \in DOMAIN c :
             \/ k \in DOMAIN b /\ c[k].id = b[k].id
             \/ c[k].id \notin ToSet(walk.seen)
    BY <1>2, <2>1
  <2>3. WalkOK(walk, b, P)
    BY <2>1 DEF WalkInv
  <2> HIDE DEF b, P, c, Q
  <2>4. WalkOK(walk', c, Q)
    BY <1>2, <2>2, <2>3, MapWalks
  <2>5. QED  BY <1>2, <2>4 DEF c, Q
<1>5. QED  BY <1>3, <1>4 DEF WalkInv


-----------------------------------------------------------------------------
(* Nobody has asked for a page yet. *)
LEMMA InitWalk == Init => WalkInv
<1> SUFFICES ASSUME Init PROVE WalkInv
  OBVIOUS
<1>1. walk = NoWalk /\ listings = Seeded
  BY DEF Init, CatalogInit
<1>2. /\ walk \in WalkType /\ walk.feed = None /\ walk.seen = <<>>
      /\ walk.open = FALSE
  BY <1>1 DEF NoWalk, WalkType
<1>3. SeenOK
  BY <1>1, <1>2 DEF SeenOK, ToSet
<1>4. QED  BY <1>2, <1>3, InitInv DEF WalkInv

(* A step that touches neither the maps nor the walk *)
LEMMA QuietWalks ==
  ASSUME WalkInv, OrdersInv', listings' = listings, orders' = orders,
         walk' = walk, events' \in {events, events + 1},
         \A q \in Calls : call[q].at = "done" => call'[q].at = "done"
  PROVE  WalkInv'
<1>1. StoreOK /\ SeenOK
  BY DEF WalkInv, OrdersInv, TypeInv
<1>2. \A x \in ToSet(walk.seen) :
        IF walk.feed.kind = "listings"
        THEN x \in Nat /\ x <= Len(Seeded) + events'
        ELSE x \in Calls /\ call'[x].at = "done"
  BY <1>1, SeenLater
<1>3. SeenOK'
  BY <1>1, <1>2 DEF SeenOK
<1>4. QED  BY <1>3 DEF WalkInv

(* A client asks for its first page. *)
LEMMA StartWalks ==
  ASSUME WalkInv, OrdersInv', StartWalk
  PROVE  WalkInv'
<1>1. PICK feed \in Feeds :
        Authorised(feed) /\ walk' = [NoWalk EXCEPT !.feed = feed, !.open = TRUE]
  BY DEF StartWalk
<1>2. listings' = listings /\ orders' = orders
  BY DEF StartWalk
<1>3. /\ walk' \in WalkType /\ walk'.feed = feed /\ walk'.seen = <<>>
      /\ walk'.cursor = None /\ walk'.open = TRUE /\ feed # None
  <2>1. feed # None
    BY CatalogAssumptions
  <2>2. walk' = [feed |-> feed, cursor |-> None, seen |-> <<>>, open |-> TRUE,
                 arrived |-> {}, strayed |-> FALSE]
    BY <1>1 DEF NoWalk
  <2>3. QED  BY <2>1, <2>2 DEF WalkType
<1>4. SeenOK'
  BY <1>1, <1>2, <1>3 DEF WalkInv, SeenOK, ToSet
<1>5. WalkOK(walk', BaseOf(listings', orders', walk'.feed),
             PosOf(listings', orders', walk'.feed))
  BY <1>3 DEF WalkOK, ToSet, IsInjective
<1>6. QED  BY <1>4, <1>5 DEF WalkInv

(* A client asks for the next page. *)
LEMMA PageKeeps ==
  ASSUME WalkInv, OrdersInv', NextPage, call' = call
  PROVE  WalkInv'
<1>0. StoreOK /\ ListedOK /\ SeenOK /\ walk \in WalkType
  BY DEF WalkInv, OrdersInv, TypeInv, SeenOK
<1> DEFINE feed == walk.feed
           b == BaseOf(listings, orders, feed)
           P == PosOf(listings, orders, feed)
<1>1. /\ walk.open /\ listings' = listings /\ orders' = orders
      /\ events' \in {events, events + 1}
  BY DEF NextPage, Count
<1> DEFINE answered(page) ==
             walk' = [walk EXCEPT
               !.seen = @ \o [i \in DOMAIN page.items |-> page.items[i].id],
               !.cursor = page.next_cursor,
               !.open = page.next_cursor # None,
               !.strayed = @ \/ (walk.cursor # None
                                 /\ walk.cursor \notin Ids(list(feed)))]
<1>a. PICK limit \in Limits : answered(paginate(list(feed), limit, walk.cursor))
  BY DEF NextPage
<1>2. PICK page : /\ page = paginate(list(feed), limit, walk.cursor)
                  /\ answered(page)
  <2> HIDE DEF answered
  <2>1. QED  BY <1>a
<1>3. limit \in Nat \ {0}
  BY CatalogAssumptions
<1>4. feed # None /\ Authorised(feed) /\ WalkOK(walk, b, P)
  BY <1>0, <1>1 DEF SeenOK, WalkInv
<1>5. /\ b \in Seq(ListingType \cup OrderType)
      /\ P \in SUBSET (DOMAIN b)
      /\ \A i, j \in DOMAIN b : b[i].id = b[j].id => i = j
      /\ \A i \in DOMAIN b : b[i].id # None /\ b[i].id \in Nat \cup Calls
      /\ list(feed) = Filter(b, P)
  BY <1>0, <1>4, BaseFacts
<1>6. /\ walk.seen \in Seq(Nat \cup Calls) /\ walk.strayed \in BOOLEAN
      /\ walk.arrived \in SUBSET (Nat \cup Calls) /\ feed \in Feeds \cup {None}
      /\ DOMAIN walk = {"feed", "cursor", "seen", "open", "arrived", "strayed"}
  BY <1>0 DEF WalkType
<1>7. /\ DOMAIN walk' = DOMAIN walk /\ walk'.feed = feed
      /\ walk'.seen = walk.seen \o [i \in DOMAIN page.items |-> page.items[i].id]
      /\ walk'.cursor = page.next_cursor
      /\ walk'.open = (page.next_cursor # None)
      /\ walk'.strayed = (walk.strayed \/ (walk.cursor # None
                             /\ walk.cursor \notin Ids(list(feed))))
      /\ walk'.arrived = walk.arrived
  BY <1>2, <1>6
<1> HIDE DEF feed, b, P
<1>8. /\ walk'.seen \in Seq(Nat \cup Calls)
      /\ walk'.cursor \in Nat \cup Calls \cup {None}
      /\ ToSet(walk'.seen) \subseteq ToSet(walk.seen) \cup {b[i].id : i \in P}
      /\ WalkOK(walk', b, P)
  <2>1. PICK T : T = ListingType \cup OrderType
    OBVIOUS
  <2>2. /\ walk'.open <=> page.next_cursor # None
        /\ walk'.strayed <=> \/ walk.strayed
                             \/ walk.cursor # None
                                /\ walk.cursor \notin Ids(Filter(b, P))
    BY <1>5, <1>7
  <2>3. page = paginate(Filter(b, P), limit, walk.cursor) /\ b \in Seq(T)
    BY <1>2, <1>5, <2>1
  <2>4. PICK w, v : w = walk /\ v = walk'
    OBVIOUS
  <2>5. /\ v.seen \in Seq(Nat \cup Calls)
        /\ v.cursor \in Nat \cup Calls \cup {None}
        /\ ToSet(v.seen) \subseteq ToSet(w.seen) \cup {b[i].id : i \in P}
        /\ WalkOK(v, b, P)
    <3>1. /\ w.open /\ w.seen \in Seq(Nat \cup Calls) /\ WalkOK(w, b, P)
          /\ page = paginate(Filter(b, P), limit, w.cursor)
          /\ v.seen = w.seen \o [i \in DOMAIN page.items |-> page.items[i].id]
          /\ v.cursor = page.next_cursor /\ v.arrived = w.arrived
          /\ v.open <=> page.next_cursor # None
          /\ v.strayed <=> \/ w.strayed
                           \/ w.cursor # None /\ w.cursor \notin Ids(Filter(b, P))
      BY <1>1, <1>4, <1>6, <1>7, <2>2, <2>3, <2>4
    <3>2. QED  BY <1>3, <1>5, <2>3, <3>1, PageWalks
  <2>6. QED  BY <2>4, <2>5
<1>9. walk' \in WalkType
  <2>1. walk'.open \in BOOLEAN /\ walk'.strayed \in BOOLEAN
    BY <1>7
  <2>2. walk' = [feed |-> walk'.feed, cursor |-> walk'.cursor,
                 seen |-> walk'.seen, open |-> walk'.open,
                 arrived |-> walk'.arrived, strayed |-> walk'.strayed]
    BY <1>2, <1>6, <1>7
  <2>3. QED  BY <1>6, <1>7, <1>8, <2>1, <2>2 DEF WalkType
<1>10. ASSUME NEW x \in ToSet(walk'.seen)
       PROVE  IF feed.kind = "listings"
              THEN x \in Nat /\ x <= Len(Seeded) + events'
              ELSE x \in Calls /\ call'[x].at = "done"
  <2>1. CASE x \in ToSet(walk.seen)
    BY <1>0, <1>1, <2>1, SeenLater DEF feed
  <2>2. CASE x \in {b[i].id : i \in P}
    <3>1. PICK i \in DOMAIN b : x = b[i].id
      BY <1>5, <2>2
    <3>2. CASE feed.kind = "listings"
      <4>1. x = listings[i].id /\ i \in DOMAIN listings
        BY <3>1, <3>2 DEF b, BaseOf
      <4>2. x \in Nat /\ x <= Len(Seeded) + events
        BY <1>0, <4>1, ListingFields DEF StoreOK
      <4>3. Len(Seeded) \in Nat /\ events \in Nat
        BY <1>0, CatalogAssumptions DEF StoreOK
      <4>4. QED  BY <1>1, <3>2, <4>2, <4>3
    <3>3. CASE feed.kind # "listings"
      <4>1. x = orders[i].id /\ i \in DOMAIN orders
        BY <3>1, <3>3 DEF b, BaseOf
      <4>2. orders[i] \in OrderType
        BY <1>0, <4>1 DEF StoreOK
      <4>3. x \in Calls
        BY <4>1, <4>2 DEF OrderType
      <4>4. QED  BY <1>0, <3>3, <4>1, <4>3 DEF ListedOK
    <3>4. QED  BY <3>2, <3>3
  <2>3. QED  BY <1>8, <2>1, <2>2
<1>11. SeenOK'
  <2>1. walk'.feed = feed /\ feed # None
    BY <1>4, <1>7
  <2>2. QED  BY <1>0, <1>1, <1>4, <1>9, <1>10, <2>1 DEF SeenOK
<1>12. QED
  BY <1>1, <1>7, <1>8, <1>11 DEF WalkInv, b, P

(* The same, told of the two maps *)
LEMMA MapsWalk ==
  ASSUME WalkInv, OrdersInv', events' \in {events, events + 1},
         \A q \in Calls : call[q].at = "done" => call'[q].at = "done",
         NEW A \in SUBSET (Nat \cup Calls), Arrive(A),
         \A i \in DOMAIN Seeded :
           i \in DOMAIN listings' /\ listings'[i].id = Seeded[i].id,
         \A i \in DOMAIN listings' :
           \/ /\ i \in DOMAIN listings /\ listings'[i].id = listings[i].id
              /\ \/ listings'[i].status = "active" => listings[i].status = "active"
                 \/ listings'[i].id \in A
           \/ /\ walk.feed.kind = "listings" =>
                   listings'[i].id \notin ToSet(walk.seen)
              /\ listings'[i].id \in A,
         \A i \in DOMAIN orders' :
           \/ i \in DOMAIN orders /\ orders'[i] = orders[i]
           \/ /\ walk.feed.kind # "listings" =>
                   orders'[i].id \notin ToSet(walk.seen)
              /\ orders'[i].id \in A
  PROVE  WalkInv'
<1>1. ASSUME NEW feed, Authorised(feed), feed = walk.feed
      PROVE  LET b == BaseOf(listings, orders, feed)
                 P == PosOf(listings, orders, feed)
                 c == BaseOf(listings', orders', feed)
                 Q == PosOf(listings', orders', feed)
             IN  /\ \A j \in Q : \/ j \in P /\ c[j].id = b[j].id
                                 \/ c[j].id \in A
                 /\ \A k \in DOMAIN c :
                      \/ k \in DOMAIN b /\ c[k].id = b[k].id
                      \/ c[k].id \notin ToSet(walk.seen)
  <2>1. CASE feed.kind = "listings"
    BY <1>1, <2>1 DEF BaseOf, PosOf
  <2>2. CASE feed.kind # "listings"
    BY <1>1, <2>2 DEF BaseOf, PosOf
  <2>3. QED  BY <2>1, <2>2
<1>2. QED  BY <1>1, ArriveWalks

(* A listing is created. *)
LEMMA CreateWalks ==
  ASSUME WalkInv, OrdersInv', CreateListing, call' = call
  PROVE  WalkInv'
<1>0. StoreOK /\ SeenOK
  BY DEF WalkInv, OrdersInv, TypeInv
<1> DEFINE n == Len(listings)
<1>1. /\ DOMAIN listings' = 1..(n + 1) /\ listings'[n + 1].id = NewId
      /\ \A i \in 1..n : listings'[i] = listings[i]
      /\ NewId = Len(Seeded) + events' /\ NewId \in Nat
      /\ events' = events + 1 /\ events \in Nat
  BY <1>0, CreateEffect
<1>2. Len(Seeded) \in Nat /\ n \in Nat /\ DOMAIN listings = 1..n
  BY <1>0, CatalogAssumptions DEF StoreOK
<1>3. Arrive({NewId}) /\ orders' = orders
  BY DEF CreateListing
<1>4. walk.feed.kind = "listings" => NewId \notin ToSet(walk.seen)
  BY <1>0, <1>1, <1>2 DEF SeenOK
<1> HIDE DEF n
<1>5. \A i \in DOMAIN Seeded :
        i \in DOMAIN listings' /\ listings'[i].id = Seeded[i].id
  BY <1>0, <1>1, <1>2 DEF SeenOK
<1>6. \A i \in DOMAIN listings' :
        \/ i \in DOMAIN listings /\ listings'[i] = listings[i]
        \/ i = n + 1
  BY <1>1, <1>2
<1>7. PICK A : A = {NewId}
  OBVIOUS
<1>8. A \in SUBSET (Nat \cup Calls) /\ Arrive(A) /\ NewId \in A
  BY <1>1, <1>3, <1>7
<1>9. QED  BY <1>1, <1>3, <1>4, <1>5, <1>6, <1>8, MapsWalk

(* A listing is updated: one that was archived may come back. *)
LEMMA UpdateWalks ==
  ASSUME WalkInv, OrdersInv', UpdateListing, call' = call
  PROVE  WalkInv'
<1>0. StoreOK /\ SeenOK
  BY DEF WalkInv, OrdersInv, TypeInv
<1>1. /\ DOMAIN listings' = DOMAIN listings
      /\ \A i \in DOMAIN listings : listings'[i].id = listings[i].id
      /\ events' = events + 1
  BY <1>0, UpdateEffect
<1>2. PICK k \in DOMAIN listings :
        /\ Arrive(IF listings[k].status = "active" THEN {} ELSE {listings[k].id})
        /\ \A i \in DOMAIN listings \ {k} : listings'[i] = listings[i]
  BY <1>0, UpdateEffect
<1>3. PICK A : A = IF listings[k].status = "active" THEN {} ELSE {listings[k].id}
  OBVIOUS
<1>4. A \in SUBSET (Nat \cup Calls) /\ Arrive(A)
  <2>1. listings[k].id \in Nat
    BY <1>0, ListingFields
  <2>2. QED  BY <1>2, <1>3, <2>1
<1>5. \A i \in DOMAIN listings :
        \/ listings'[i].status = "active" => listings[i].status = "active"
        \/ listings'[i].id \in A
  BY <1>1, <1>2, <1>3
<1>6. \A i \in DOMAIN Seeded :
        i \in DOMAIN listings' /\ listings'[i].id = Seeded[i].id
  BY <1>0, <1>1 DEF SeenOK
<1>7. orders' = orders
  BY DEF UpdateListing
<1>8. QED  BY <1>1, <1>4, <1>5, <1>6, <1>7, MapsWalk

(* An order is placed. *)
LEMMA FreshWalks ==
  ASSUME WalkInv, OrdersInv', NEW r \in Calls, AnswerFresh(r),
         \A q \in Calls : call[q].at = "done" => call'[q].at = "done"
  PROVE  WalkInv'
<1>0. StoreOK /\ CallsOK /\ SeenOK
  BY DEF WalkInv, OrdersInv, TypeInv
<1> DEFINE p == call[r].post
           order == [id |-> r, buyer |-> p.user, seller |-> call[r].seller,
                     items |-> Items[p.body], status |-> "paid"]
<1>1. /\ call[r].at = "checkout" /\ events' = events /\ Arrive({r})
      /\ TakeFromListings(Items[p.body]) /\ orders' = Append(orders, order)
  BY DEF AnswerFresh
<1>2. p \in Posts
  BY <1>0, <1>1 DEF CallsOK
<1>3. /\ DOMAIN listings' = DOMAIN listings
      /\ \A i \in DOMAIN listings : /\ listings'[i].id = listings[i].id
                                    /\ listings'[i].status = listings[i].status
  BY <1>0, <1>1, <1>2, TakeKeeps
<1>4. order.id = r
  OBVIOUS
<1> HIDE DEF order, p
<1>5. \A i \in DOMAIN orders' :
        \/ i \in DOMAIN orders /\ orders'[i] = orders[i]
        \/ orders'[i].id = r
  <2>1. orders \in Seq(OrderType)
    BY <1>0 DEF StoreOK
  <2>2. QED  BY <1>1, <1>4, <2>1
<1>6. walk.feed.kind # "listings" => r \notin ToSet(walk.seen)
  BY <1>0, <1>1 DEF SeenOK
<1>7. \A i \in DOMAIN Seeded :
        i \in DOMAIN listings' /\ listings'[i].id = Seeded[i].id
  BY <1>0, <1>3 DEF SeenOK
<1>8. PICK A : A = {r}
  OBVIOUS
<1>9. A \in SUBSET (Nat \cup Calls) /\ Arrive(A) /\ r \in A
  BY <1>1, <1>8
<1>10. QED  BY <1>1, <1>3, <1>5, <1>6, <1>7, <1>9, MapsWalk

(* The process restarts: its listings are the seeded ones again. *)
LEMMA RestartWalks ==
  ASSUME WalkInv, OrdersInv', Restart,
         \A q \in Calls : call[q].at = "done" => call'[q].at = "done"
  PROVE  WalkInv'
<1>0. StoreOK /\ SeenOK
  BY DEF WalkInv, OrdersInv, TypeInv
<1>1. /\ listings' = Seeded /\ orders' = <<>> /\ events' = events + 1
      /\ Arrive(OnSale(Seeded) \ OnSale(listings))
  BY DEF Restart, EmptyStore, Count
<1>2. \A i \in DOMAIN Seeded : /\ i \in DOMAIN listings
                               /\ listings[i].id = Seeded[i].id
                               /\ Seeded[i].id \in Nat
  BY <1>0, ListingFields DEF SeenOK
<1>3. PICK A : A = OnSale(Seeded) \ OnSale(listings)
  OBVIOUS
<1>4. A \in SUBSET (Nat \cup Calls) /\ Arrive(A)
  BY <1>1, <1>2, <1>3 DEF OnSale
<1>5. DOMAIN orders' = {}
  BY <1>1
<1>6. ASSUME NEW i \in DOMAIN Seeded, Seeded[i].status = "active"
      PROVE  listings[i].status = "active" \/ Seeded[i].id \in A
  <2>1. Seeded[i].id \in OnSale(Seeded)
    BY <1>6 DEF OnSale
  <2>2. ASSUME Seeded[i].id \in OnSale(listings)
        PROVE  listings[i].status = "active"
    <3>1. PICK j \in DOMAIN listings :
            listings[j].status = "active" /\ listings[j].id = Seeded[i].id
      BY <2>2 DEF OnSale
    <3>2. j = i
      BY <1>0, <1>2, <3>1 DEF StoreOK
    <3>3. QED  BY <3>1, <3>2
  <2>3. QED  BY <1>3, <2>1, <2>2
<1>7. QED  BY <1>1, <1>2, <1>4, <1>5, <1>6, MapsWalk

(* Every step keeps the invariant of the walk. *)
LEMMA StepWalk == WalkInv /\ [Next]_vars => WalkInv'
<1> SUFFICES ASSUME WalkInv, [Next]_vars PROVE WalkInv'
  OBVIOUS
<1>1. OrdersInv'
  BY StepInv DEF WalkInv
<1>2. \A q \in Calls : call[q].at = "done" => call'[q].at = "done"
  BY DoneStays DEF WalkInv, OrdersInv, TypeInv
<1>3. ASSUME NEW r \in Calls,
             \/ Create(r) \/ FindProduct(r) \/ ResolveBuyer(r) \/ Checkout(r)
             \/ AnswerRefused(r) \/ LoadReplay(r) \/ AnswerReplay(r)
             \/ QueryFails(r)
      PROVE  UNCHANGED <<listings, orders, walk>> /\ events' \in {events, events + 1}
  BY <1>3 DEF Create, FindProduct, ResolveBuyer, Checkout, AnswerRefused,
              LoadReplay, AnswerReplay, QueryFails, Count, catalogVars
<1>4. ASSUME UpdateStatus \/ UNCHANGED vars
      PROVE  UNCHANGED <<listings, orders, walk>> /\ events' \in {events, events + 1}
  BY <1>4 DEF UpdateStatus, Count, vars, catalogVars
<1>5. ASSUME UNCHANGED <<listings, orders, walk>>, events' \in {events, events + 1}
      PROVE  WalkInv'
  BY <1>1, <1>2, <1>5, QuietWalks
<1>6. ASSUME NEW r \in Calls, AnswerFresh(r) PROVE WalkInv'
  BY <1>1, <1>2, <1>6, FreshWalks
<1>7. CASE Restart
  BY <1>1, <1>2, <1>7, RestartWalks
<1>8. CASE Catalogue
  <2>1. call' = call /\ CatalogNext
    BY <1>8 DEF Catalogue
  <2>2. QED
    BY <1>1, <2>1, StartWalks, PageKeeps, CreateWalks, UpdateWalks DEF CatalogNext
<1>9. QED  BY <1>3, <1>4, <1>5, <1>6, <1>7, <1>8 DEF Next

LEMMA WalkHolds == Spec => []WalkInv
BY InitWalk, StepWalk, PTL DEF Spec

(***************************************************************************)
(* Whatever is created, archived, reactivated, ordered or lost in restarts *)
(* between two pages, and whatever page sizes it asks for, a client that   *)
(* follows next_cursor to the end has been shown everything that was in    *)
(* its list all along.                                                     *)
(***************************************************************************)
THEOREM WalksAreComplete == Spec => []WalkMissesNothing
<1>1. ASSUME WalkInv PROVE WalkMissesNothing
  <2> SUFFICES ASSUME walk.feed # None, ~walk.open
               PROVE  Ids(list(walk.feed)) \ walk.arrived \subseteq ToSet(walk.seen)
    BY DEF WalkMissesNothing
  <2> DEFINE feed == walk.feed
             b == BaseOf(listings, orders, feed)
             P == PosOf(listings, orders, feed)
             N == Cardinality(P)
  <2>1. StoreOK /\ ListedOK /\ Authorised(feed)
    BY <1>1 DEF WalkInv, OrdersInv, TypeInv, SeenOK
  <2>2. b \in Seq(ListingType \cup OrderType) /\ P \in SUBSET (DOMAIN b)
        /\ list(feed) = Filter(b, P)
    BY <2>1, BaseFacts
  <2>3. \A j \in P : b[j].id \in Told(walk)
    BY <1>1 DEF WalkInv, WalkOK
  <2> HIDE DEF b, P
  <2>4. /\ P \subseteq Nat /\ IsFiniteSet(P) /\ N \in Nat
        /\ DOMAIN Filter(b, P) = 1..N
        /\ \A k \in 1..N : Filter(b, P)[k] = b[Nth(P, k)]
    <3>1. PICK T : T = ListingType \cup OrderType
      OBVIOUS
    <3>2. b \in Seq(T)
      BY <2>2, <3>1
    <3>3. QED  BY <2>2, <3>2, FilterFacts
  <2>5. \A k \in 1..N : Nth(P, k) \in P
    BY <2>4, NthFacts
  <2> HIDE DEF N
  <2>6. Ids(list(feed)) \subseteq Told(walk)
    BY <2>2, <2>3, <2>4, <2>5 DEF Ids
  <2>7. QED  BY <2>6 DEF Told
<1>2. QED  BY <1>1, WalkHolds, PTL

(***************************************************************************)
(* A client whose cursor was still in the list whenever it asked for a     *)
(* page is shown nothing twice: an item is repeated only after paginate    *)
(* has started again from the first item.                                  *)
(***************************************************************************)
THEOREM WalksDoNotRepeat == Spec => []WalkRepeatsNothing
<1>1. ASSUME WalkInv PROVE WalkRepeatsNothing
  <2>1. CASE walk.feed = None
    BY <1>1, <2>1 DEF WalkInv, SeenOK, WalkRepeatsNothing, IsInjective
  <2>2. CASE walk.feed # None
    BY <1>1, <2>2 DEF WalkInv, WalkOK, WalkRepeatsNothing
  <2>3. QED  BY <2>1, <2>2
<1>2. QED  BY <1>1, WalkHolds, PTL
=============================================================================
