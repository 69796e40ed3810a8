------------------------------- MODULE Catalog -------------------------------
(***************************************************************************)
(* The in-memory store of an API process (StoreService: listings, orders   *)
(* and the idempotency cache), the listing operations of                   *)
(* ListingsController, and the pages both list endpoints cut from it.      *)
(* Node runs every handler of this module without an await, so each is one *)
(* step; a request refused with 403 or 404 changes nothing and is no step. *)
(* A JavaScript Map keeps insertion order: the maps whose order a page     *)
(* shows are sequences.  Prices play no part here: an order is priced by   *)
(* the catalogue product, never by the listing.                            *)
(***************************************************************************)
EXTENDS Integers, Sequences, FiniteSets, SequencesExt

CONSTANTS
  Titles,       \* titles a listing may carry
  Seeded,       \* the listings StoreService starts with
  NewListings,  \* POST /v1/listings: [user, role, title, quantity]
  Patches,      \* PATCH /v1/listings/:id: [id, user, role, change]
  Feeds,        \* list requests: [kind, user, role]
  Limits,       \* page sizes asked for
  None,         \* no cursor, no listing, no account
  MaxEvents     \* bound on the requests (orders, listing changes, pages,
                \* status updates) and restarts of a behaviour together

ASSUME CatalogAssumptions ==
  /\ Seeded \in Seq([id : Nat, title : Titles, quantity : Nat,
                     status : {"active", "archived"}, seller : STRING])
  /\ \A i, j \in DOMAIN Seeded : Seeded[i].id = Seeded[j].id => i = j
  /\ \A i \in DOMAIN Seeded : Seeded[i].id <= Len(Seeded)
  /\ \A l \in NewListings :
       l.user \in STRING /\ l.title \in Titles /\ l.quantity \in Nat
  /\ \A p \in Patches :
       /\ DOMAIN p.change \subseteq {"title", "quantity", "status"}
       /\ "title" \in DOMAIN p.change => p.change.title \in Titles
       /\ "quantity" \in DOMAIN p.change => p.change.quantity \in Nat
       /\ "status" \in DOMAIN p.change =>
            p.change.status \in {"active", "archived"}
  /\ Limits \subseteq Nat \ {0}
  /\ None \notin Nat \cup Feeds
  /\ MaxEvents \in Nat

VARIABLES
  listings,          \* store.listings
  orders,            \* store.orders: [id, buyer, seller, items, status]
  idempotencyStore,  \* store.idempotencyStore: {[cacheKey, bodyHash, body]}
  events,            \* how many of the events MaxEvents bounds have happened
  walk               \* one client following next_cursor, see StartWalk

catalogVars == <<listings, orders, idempotencyStore, events, walk>>

NoWalk == [feed |-> None, cursor |-> None, seen |-> <<>>, open |-> FALSE,
           arrived |-> {}, strayed |-> FALSE]

(* The constructor of StoreService.  A process that restarts runs it again. *)
EmptyStore ==
  /\ listings' = Seeded
  /\ orders' = <<>>
  /\ idempotencyStore' = {}

CatalogInit ==
  /\ listings = Seeded
  /\ orders = <<>>
  /\ idempotencyStore = {}
  /\ events = 0
  /\ walk = NoWalk

Count == events < MaxEvents /\ events' = events + 1

-----------------------------------------------------------------------------
(* store.listings.get(id), as a set of at most one listing *)
Listing(id) == {l \in ToSet(listings) : l.id = id}

(* Array.filter: the elements of s at the positions in pos, in their order *)
Filter(s, pos) ==
  [k \in 1..Cardinality(pos) |->
     s[CHOOSE i \in pos : Cardinality({j \in pos : j <= i}) = k]]

(* What a list request selects before it is cut into pages: the active     *)
(* listings, or the orders whose recorded party is the header as it was    *)
(* sent.  Any other role is refused with 403.                              *)
list(feed) ==
  CASE feed.kind = "listings" ->
         Filter(listings, {i \in DOMAIN listings : listings[i].status = "active"})
    [] feed.kind # "listings" /\ feed.role = "buyer" ->
         Filter(orders, {i \in DOMAIN orders : orders[i].buyer = feed.user})
    [] feed.kind # "listings" /\ feed.role = "seller" ->
         Filter(orders, {i \in DOMAIN orders : orders[i].seller = feed.user})

Authorised(feed) == feed.kind = "listings" \/ feed.role \in {"buyer", "seller"}

Ids(items) == {items[i].id : i \in DOMAIN items}

OnSale(ls) == {ls[i].id : i \in {j \in DOMAIN ls : ls[j].status = "active"}}

(* mutant of PageStart: the page starts with the item the cursor names *)
PageStartAt(items, cursor) ==
  IF \E i \in DOMAIN items : items[i].id = cursor
  THEN (CHOOSE i \in DOMAIN items : items[i].id = cursor) - 1
  ELSE 0

(* A cursor that is not among the items counts as none. *)
PageStart(items, cursor) ==
  IF \E i \in DOMAIN items : items[i].id = cursor
  THEN CHOOSE i \in DOMAIN items : items[i].id = cursor
  ELSE 0

(* mutant of HasMore: one item short *)
HasMoreShort(items, start, limit) == start + limit < Len(items) - 1

HasMore(items, start, limit) == start + limit < Len(items)

paginate(items, limit, cursor) ==
  LET start == PageStart(items, cursor)
      stop == IF start + limit < Len(items) THEN start + limit ELSE Len(items)
      slice == SubSeq(items, start + 1, stop)
  IN  [items |-> slice,
       next_cursor |-> IF HasMore(items, start, limit) /\ slice # <<>>
                       THEN Last(slice).id ELSE None]

-----------------------------------------------------------------------------
(* The client.  "arrived" holds what entered its list since the walk began *)
(* and "strayed" whether a page was asked for with a cursor the list no    *)
(* longer held; the program knows neither.                                 *)
Arrive(ids) ==
  walk' = [walk EXCEPT !.arrived = IF walk.feed = None THEN @ ELSE @ \cup ids]

StartWalk ==
  /\ walk.feed = None
  /\ \E feed \in Feeds :
       /\ Authorised(feed)
       /\ walk' = [NoWalk EXCEPT !.feed = feed, !.open = TRUE]
  /\ UNCHANGED <<listings, orders, idempotencyStore, events>>

NextPage ==
  /\ walk.open
  /\ Count
  /\ \E limit \in Limits :
       LET items == list(walk.feed)
           page == paginate(items, limit, walk.cursor)
       IN  walk' = [walk EXCEPT
             !.seen = @ \o [i \in DOMAIN page.items |-> page.items[i].id],
             !.cursor = page.next_cursor,
             !.open = page.next_cursor # None,
             !.strayed = @ \/ (walk.cursor # None
                               /\ walk.cursor \notin Ids(items))]
  /\ UNCHANGED <<listings, orders, idempotencyStore>>

-----------------------------------------------------------------------------
(* ListingsController.create: the id is a random UUID, so never used before. *)
NewId == Len(Seeded) + events + 1

CreateListing ==
  /\ Count
  /\ \E body \in NewListings :
       /\ body.role = "seller"
       /\ listings' = Append(listings,
            [id |-> NewId, title |-> body.title, quantity |-> body.quantity,
             status |-> "active", seller |-> body.user])
  /\ Arrive({NewId})
  /\ UNCHANGED <<orders, idempotencyStore>>

(* Object.assign(listing, body): only the fields the body holds change. *)
Assign(l, body) ==
  [f \in DOMAIN l \cup DOMAIN body |-> IF f \in DOMAIN body THEN body[f] ELSE l[f]]

MayUpdate(l, patch) == patch.role = "seller" /\ l.seller = patch.user

(* ListingsController.update *)
UpdateListing ==
  /\ Count
  /\ \E patch \in Patches, i \in DOMAIN listings :
       /\ listings[i].id = patch.id
       /\ MayUpdate(listings[i], patch)
       /\ listings' = [listings EXCEPT ![i] = Assign(@, patch.change)]
       /\ Arrive(IF listings[i].status = "active" THEN {} ELSE {patch.id})
  /\ UNCHANGED <<orders, idempotencyStore>>

CatalogNext == StartWalk \/ NextPage \/ CreateListing \/ UpdateListing

-----------------------------------------------------------------------------
(* A client that follows next_cursor to the end has been shown everything  *)
(* that was in its list from its first page to its last, whatever was      *)
(* created, archived, reactivated, ordered or lost in a restart between    *)
(* two pages.                                                              *)
WalkMissesNothing ==
  walk.feed # None /\ ~walk.open
    => Ids(list(walk.feed)) \ walk.arrived \subseteq ToSet(walk.seen)

(* Nothing is shown twice in a walk whose cursor was always still in the   *)
(* list: paginate starts again from the first item only when it cannot     *)
(* find the cursor.                                                        *)
WalkRepeatsNothing == ~walk.strayed => IsInjective(walk.seen)
=============================================================================
