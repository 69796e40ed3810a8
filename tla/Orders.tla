------------------------------- MODULE Orders -------------------------------
(***************************************************************************)
(* OrdersService.create and list over the in-memory store of Catalog and   *)
(* the checkout of CheckoutAtomic: concurrent POST /v1/orders, each split  *)
(* at its awaits, while listings change and the process restarts.  Memory  *)
(* does not survive a restart, the database does.  A caller is what the    *)
(* x-user-id header says; several headers may name one account.            *)
(* The rating jobs a fresh order enqueues are in ProductCards.             *)
(***************************************************************************)
EXTENDS Catalog

CONSTANTS
  Calls,        \* calls of OrdersService.create; a call names its order
  Posts,        \* POST /v1/orders: [user, role, key, body]
  Items,        \* the items of a body: sequence of [listing_id, quantity]
  Accounts,     \* rows of users: [id, email, role]
  Alias,        \* USER_ALIASES: header -> email
  Numeral,      \* header of digits only -> the id it denotes ("07" is 7)
  Products,     \* rows of products
  Matches,      \* title -> the products whose name is ILIKE the title
  SameName,     \* title -> the products whose name equals it up to case
  ProductSeller,\* product -> email of its seller
  Active, Price, InitialStock, InitialBalance,
  Statuses,     \* statuses PATCH /orders/:id/status may set
  NoKey, NoHash, EmptyHash, NoInput, NoPost

(* A post passed the validation of the OpenAPI document: it has a key and  *)
(* items.  An email holds an @, so it is not a number.                     *)
ASSUME OrdersAssumptions ==
  /\ NoPost \notin Posts /\ None \notin Calls
  /\ \A p \in Posts :
       /\ p.key # NoKey
       /\ Items[p.body] \in Seq([listing_id : Nat, quantity : Nat])
       /\ Items[p.body] # <<>>
  /\ \A a, b \in Accounts :
       /\ a.id = b.id \/ a.email = b.email => a = b
       /\ a.email \notin DOMAIN Numeral

VARIABLES
  stock, balance, called, placed, taken, outcome,  \* see CheckoutAtomic
  status,    \* status column of the order row a call placed
  call,      \* [at, post, seller, title, found, order]: where each call is
  reply      \* [code, order, replay]: what its client was answered

txnVars == <<stock, balance, called, placed, taken, outcome>>
vars == <<catalogVars, txnVars, status, call, reply>>

(* mutant of hashBody: hashes a body that was not parsed *)
HashNothing(body) == <<"sha256", {}>>

(* JSON.stringify keeps the client's spelling, and SHA-256 keeps distinct  *)
(* texts apart: a body here is a JSON text.                                *)
hashBody(body) == <<"sha256", body>>

Users == {a.id : a \in Accounts}

(* Every checkout a post could lead to *)
CheckoutInputs ==
  UNION {{[user |-> u, key |-> p.key, hash |-> hashBody(p.body),
           items |-> [i \in DOMAIN ps |->
                       [productId |-> ps[i],
                        quantity |-> Items[p.body][i].quantity]],
           failAfterOutbox |-> FALSE] :
             ps \in [DOMAIN Items[p.body] -> Products], u \in Users}
         : p \in Posts}

ASSUME InputsAssumption ==
  /\ NoInput \notin CheckoutInputs
  /\ \A p \in Posts : hashBody(p.body) # NoHash

Txn == INSTANCE CheckoutAtomic WITH Requests <- Calls, Inputs <- CheckoutInputs

Idle == [at |-> "idle", post |-> NoPost, seller |-> None, title |-> None,
         found |-> <<>>, order |-> None]

NoReply == [code |-> 0, order |-> None, replay |-> FALSE]

Init ==
  /\ CatalogInit
  /\ Txn!Init
  /\ status = [r \in Calls |-> None]
  /\ call = [r \in Calls |-> Idle]
  /\ reply = [r \in Calls |-> NoReply]

-----------------------------------------------------------------------------
(* The account a header names: by alias, else by email or by numeric id *)
resolveUser(header, role) ==
  {a \in Accounts :
     /\ a.role = role
     /\ IF header \in DOMAIN Alias THEN a.email = Alias[header]
        ELSE \/ a.email = header
             \/ header \in DOMAIN Numeral /\ Numeral[header] = a.id}

publicUserId(email) ==
  IF \E h \in DOMAIN Alias : Alias[h] = email
  THEN CHOOSE h \in DOMAIN Alias : Alias[h] = email
  ELSE email

(* The template literal `${a}:${b}` *)
Join(a, b) == a \o ":" \o b

(* Neither USER_ALIASES, nor an email the seed writes, nor a number holds  *)
(* the separator, so the headers that name an account are told apart.      *)
(* Of a header that names none nothing is known: joined with its key it    *)
(* may read as another header with another key.                            *)
ASSUME AccountsApart ==
  \A p, q \in Posts :
    /\ Join(p.user, p.key) = Join(q.user, q.key)
    /\ resolveUser(p.user, "buyer") # {} /\ resolveUser(q.user, "buyer") # {}
    => p.user = q.user /\ p.key = q.key

(* mutant of CacheKey: the key without its user *)
KeyAlone(p) == p.key

(* The cache is keyed by the header and the key as they were sent. *)
CacheKey(p) == Join(p.user, p.key)

Cached(p) == {e \in idempotencyStore : e.cacheKey = CacheKey(p)}

Remember(p, order) ==
  idempotencyStore' = (idempotencyStore \ Cached(p)) \cup
    {[cacheKey |-> CacheKey(p), bodyHash |-> hashBody(p.body), body |-> order]}

Step(r, c) ==
  /\ call' = [call EXCEPT ![r] = c]
  /\ UNCHANGED reply

Answer(r, c, code, order, replay) ==
  /\ call' = [call EXCEPT ![r] = [Idle EXCEPT !.at = "done", !.post = c.post]]
  /\ reply' = [reply EXCEPT ![r] =
                 [code |-> code, order |-> order, replay |-> replay]]

Refuse(r, c, code) == Answer(r, c, code, None, FALSE)

(* The loop over body.items up to its next await: the listing must be on   *)
(* sale now and belong to the seller of the items before it.               *)
NextItem(r, c) ==
  LET items == Items[c.post.body]
      n == Len(c.found) + 1
      sold == {l \in Listing(items[n].listing_id) : l.status = "active"}
  IN  \/ /\ n > Len(items)
         /\ Step(r, [c EXCEPT !.at = "buyer"])
      \/ /\ n <= Len(items) /\ sold = {}
         /\ Refuse(r, c, 404)
      \/ /\ n <= Len(items)
         /\ \E l \in sold :
              IF c.seller \in {None, l.seller}
              THEN Step(r, [c EXCEPT !.at = "product", !.seller = l.seller,
                                     !.title = l.title])
              ELSE Refuse(r, c, 422)

(* create, up to its first await *)
Create(r) ==
  /\ call[r].at = "idle"
  /\ Count
  /\ \E p \in Posts :
       LET c == [call[r] EXCEPT !.post = p]
       IN  \/ /\ p.role # "buyer"
              /\ Refuse(r, c, 403)
           \/ /\ p.role = "buyer"
              /\ \E e \in Cached(p) :
                   IF e.bodyHash # hashBody(p.body) THEN Refuse(r, c, 422)
                   ELSE Answer(r, c, 201, e.body, TRUE)
           \/ /\ p.role = "buyer" /\ Cached(p) = {}
              /\ NextItem(r, c)
  /\ UNCHANGED <<listings, orders, idempotencyStore, walk, txnVars, status>>

(* The awaited product query: any active product whose name matches *)
FindProduct(r) ==
  LET c == call[r]
      products == Matches[c.title] \cap Active
  IN  /\ c.at = "product"
      /\ \/ /\ products = {}
            /\ Refuse(r, c, 404)
         \/ \E p \in products :
              NextItem(r, [c EXCEPT !.found = Append(@, p)])
      /\ UNCHANGED <<catalogVars, txnVars, status>>

(* The awaited resolveBuyer, then the call of checkout *)
ResolveBuyer(r) ==
  LET c == call[r]
      buyers == resolveUser(c.post.user, "buyer")
      items == Items[c.post.body]
  IN  /\ c.at = "buyer"
      /\ \/ /\ buyers = {}
            /\ Refuse(r, c, 403)
            /\ UNCHANGED txnVars
         \/ \E b \in buyers :
              /\ Step(r, [c EXCEPT !.at = "checkout"])
              /\ Txn!Start(r)
              /\ called'[r] = [user |-> b.id, key |-> c.post.key,
                   hash |-> hashBody(c.post.body),
                   items |-> [i \in DOMAIN items |->
                     [productId |-> c.found[i], quantity |-> items[i].quantity]],
                   failAfterOutbox |-> FALSE]
      /\ UNCHANGED <<catalogVars, status>>

(* The checkout itself, in the database *)
Checkout(r) ==
  /\ Txn!Place(r) \/ Txn!Refuse(r)
  /\ status' = IF r \in placed' \ placed THEN [status EXCEPT ![r] = "paid"]
               ELSE status
  /\ UNCHANGED <<catalogVars, call, reply>>

-----------------------------------------------------------------------------
Ordered(items, id) ==
  SumFunctionOnSet([i \in DOMAIN items |-> items[i].quantity],
                   {i \in DOMAIN items : items[i].listing_id = id})

(* mutant of TakeFromListings: without Math.max *)
TakeUnclamped(items) ==
  listings' = [i \in DOMAIN listings |->
    [listings[i] EXCEPT !.quantity = @ - Ordered(items, listings[i].id)]]

(* listing.quantity = Math.max(0, listing.quantity - item.quantity) *)
TakeFromListings(items) ==
  listings' = [i \in DOMAIN listings |->
    LET left == listings[i].quantity - Ordered(items, listings[i].id)
    IN  [listings[i] EXCEPT !.quantity = IF left < 0 THEN 0 ELSE left]]

(* create, once checkout answered with a fresh order *)
AnswerFresh(r) ==
  LET c == call[r]
      items == Items[c.post.body]
      order == [id |-> r, buyer |-> c.post.user, seller |-> c.seller,
                items |-> items, status |-> "paid"]
  IN  /\ c.at = "checkout" /\ outcome[r].kind = "fresh"
      /\ TakeFromListings(items)
      /\ orders' = Append(orders, order)
      /\ Remember(c.post, order)
      /\ Arrive({r})
      /\ Answer(r, c, 201, order, FALSE)
      /\ UNCHANGED <<events, txnVars, status>>

(* create, once checkout threw *)
Problem(kind) ==
  CASE kind = "IdempotencyKeyConflict" -> 422
    [] kind \in {"OutOfStock", "InsufficientFunds"} -> 409
    [] OTHER -> 500

(* mutant of AnswerRefused: an error is cached as if the order were there *)
CacheOnError(r) ==
  /\ call[r].at = "checkout"
  /\ outcome[r].kind \notin {"none", "fresh", "replay"}
  /\ Remember(call[r].post, [id |-> r])
  /\ Refuse(r, call[r], Problem(outcome[r].kind))
  /\ UNCHANGED <<listings, orders, events, walk, txnVars, status>>

AnswerRefused(r) ==
  /\ call[r].at = "checkout"
  /\ outcome[r].kind \notin {"none", "fresh", "replay"}
  /\ Refuse(r, call[r], Problem(outcome[r].kind))
  /\ UNCHANGED <<catalogVars, txnVars, status>>

(* listingIdForProduct: the first listing titled as the product, else its name *)
listingIdForProduct(p) ==
  LET named == SelectSeq(listings, LAMBDA l : p \in SameName[l.title])
  IN  IF named = <<>> THEN p ELSE Head(named).id

(* toApiOrder: the row as the API shows it.  Its buyer and seller are the  *)
(* public names of accounts, its listings are found again by title.        *)
(* The rows are sorted by an id that is a bigint read as a string ("10" is *)
(* before "9"), so they come in any order.                                 *)
toApiOrder(o, rows) ==
  LET buyer == CHOOSE a \in Accounts : a.id = called[o].user
  IN  [id |-> o, buyer |-> publicUserId(buyer.email),
       seller |-> publicUserId(ProductSeller[rows[1].productId]),
       items |-> [i \in DOMAIN rows |->
                   [listing_id |-> listingIdForProduct(rows[i].productId),
                    quantity |-> rows[i].quantity]],
       status |-> IF status[o] \in {"paid", "cancelled"} THEN status[o]
                  ELSE "created"]

(* loadAuthorizedOrder of a replay: the query, with the order built from it *)
LoadReplay(r) ==
  LET c == call[r]
  IN  /\ c.at = "checkout" /\ outcome[r].kind = "replay"
      /\ \E o \in outcome[r].by :
           \E f \in Permutations(DOMAIN called[o].items) :
             Step(r, [c EXCEPT !.at = "loaded", !.order =
               toApiOrder(o, [i \in DOMAIN f |-> called[o].items[f[i]]])])
      /\ UNCHANGED <<catalogVars, txnVars, status>>

CallerCanRead(p, o) ==
  \E a \in resolveUser(p.user, "buyer") : a.id = called[o].user

(* ... and, after callerCanRead's own query, the cache and the answer *)
AnswerReplay(r) ==
  LET c == call[r]
  IN  /\ c.at = "loaded"
      /\ IF CallerCanRead(c.post, c.order.id)
         THEN /\ Remember(c.post, c.order)
              /\ Answer(r, c, 201, c.order, TRUE)
         ELSE /\ Refuse(r, c, 403)
              /\ UNCHANGED idempotencyStore
      /\ UNCHANGED <<listings, orders, events, walk, txnVars, status>>

(* A query of create that is not checkout's fails: 500, nothing is undone. *)
QueryFails(r) ==
  /\ \/ call[r].at \in {"product", "buyer", "loaded"}
     \/ call[r].at = "checkout" /\ outcome[r].kind = "replay"
  /\ Refuse(r, call[r], 500)
  /\ UNCHANGED <<catalogVars, txnVars, status>>

(* updateStatus, told in full by OrderEvents: here only the row changes. *)
UpdateStatus ==
  /\ Count
  /\ \E o \in placed, s \in Statuses :
       /\ status[o] # s
       /\ status' = [status EXCEPT ![o] = s]
  /\ UNCHANGED <<listings, orders, idempotencyStore, walk, txnVars, call, reply>>

(* The process dies and another starts: calls in flight are never answered,*)
(* what they sent to the database goes on.                                 *)
Restart ==
  /\ Count
  /\ EmptyStore
  /\ Arrive(OnSale(Seeded) \ OnSale(listings))
  /\ call' = [r \in Calls |->
                IF call[r].at \in {"idle", "done"} THEN call[r]
                ELSE [Idle EXCEPT !.at = "lost", !.post = call[r].post]]
  /\ UNCHANGED <<txnVars, status, reply>>

Catalogue ==
  /\ CatalogNext
  /\ UNCHANGED <<txnVars, status, call, reply>>

Next ==
  \/ \E r \in Calls :
       \/ Create(r) \/ FindProduct(r) \/ ResolveBuyer(r) \/ Checkout(r)
       \/ AnswerFresh(r) \/ AnswerRefused(r) \/ LoadReplay(r) \/ AnswerReplay(r)
       \/ QueryFails(r)
  \/ UpdateStatus
  \/ Restart
  \/ Catalogue

Spec == Init /\ [][Next]_vars

-----------------------------------------------------------------------------
TypeOK ==
  /\ \A i \in DOMAIN listings :
       /\ listings[i].quantity \in Nat
       /\ \A j \in DOMAIN listings : listings[i].id = listings[j].id => i = j
  /\ \A r \in Calls :
       /\ call[r].at \in {"idle", "product", "buyer", "checkout", "loaded",
                          "done", "lost"}
       /\ reply[r].code \in {0, 201, 403, 404, 409, 422, 500}
       /\ reply[r].code # 0 <=> call[r].at = "done"
       /\ IF reply[r].code = 201 THEN reply[r].order.id \in Calls
          ELSE reply[r].order = None

(* The in-memory idempotency cache never contradicts the key rows: whatever*)
(* header, interleaving or restart filled it, a cached answer is the order *)
(* that owns the key in the database, for an account and a key that are    *)
(* cached under this string, and the body that order was placed with.      *)
CacheAgreesWithKeys ==
  \A e \in idempotencyStore :
    \E t \in taken, p \in Posts : \E a \in resolveUser(p.user, "buyer") :
      /\ CacheKey(p) = e.cacheKey
      /\ t.user = a.id /\ t.key = p.key
      /\ t.by = e.body.id /\ t.hash = e.bodyHash

(* One account and one key have one order at the API: any two calls whose  *)
(* headers name the account and that were answered 201 name the same order *)
(* and were sent the same body, through different headers, a cache hit or  *)
(* a replay, and before or after a restart.                                *)
SameKeySameOrder ==
  \A r, s \in Calls :
    /\ reply[r].code = 201 /\ reply[s].code = 201
    /\ call[r].post.key = call[s].post.key
    /\ resolveUser(call[r].post.user, "buyer")
         = resolveUser(call[s].post.user, "buyer")
    /\ resolveUser(call[r].post.user, "buyer") # {}
    => /\ reply[r].order.id = reply[s].order.id
       /\ call[r].post.body = call[s].post.body

(* An order that is shown, by an answer of create or by list, is in the    *)
(* database.  A caller whose header names an account was charged for it,   *)
(* and list shows an order to its buyer only, and once.  A header that     *)
(* names no account can be answered 201 too, from the cache, which create  *)
(* reads before it resolves the buyer: if its string and key join to the   *)
(* cache key of a buyer, the order is that buyer's.                        *)
PaidByCaller ==
  LET Paid(header, o) ==
        \E a \in resolveUser(header, "buyer") : a.id = called[o.id].user
  IN  /\ \A r \in Calls : reply[r].code = 201 =>
           /\ reply[r].order.id \in placed
           /\ resolveUser(call[r].post.user, "buyer") # {}
                => Paid(call[r].post.user, reply[r].order)
      /\ \A i \in DOMAIN orders :
           /\ orders[i].id \in placed /\ Paid(orders[i].buyer, orders[i])
           /\ \A j \in DOMAIN orders : orders[i].id = orders[j].id => i = j
=============================================================================
