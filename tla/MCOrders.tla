------------------------------ MODULE MCOrders ------------------------------
(* One account under two headers, another account under two (one of them a *)
(* number written with a leading zero), a header that names nobody and     *)
(* with its key joins to the cache key of another, three seeded listings.  *)
EXTENDS Orders
CONSTANTS r1, r2, r3

Lamp == 1
Mug == 2

MCSeeded ==
  <<[id |-> 1, title |-> "lamp", quantity |-> 1, status |-> "active",
     seller |-> "seller-1"],
    [id |-> 2, title |-> "mug", quantity |-> 3, status |-> "active",
     seller |-> "seller-1"],
    [id |-> 3, title |-> "chair", quantity |-> 1, status |-> "archived",
     seller |-> "seller-2"]>>

MCNewListings ==
  {[user |-> "seller-2", role |-> "seller", title |-> "lamp", quantity |-> 1],
   [user |-> "buyer-1", role |-> "buyer", title |-> "mug", quantity |-> 1]}

Patch(id, user, change) ==
  [id |-> id, user |-> user, role |-> "seller", change |-> change]

MCPatches ==
  {Patch(1, "seller-1", [status |-> "archived"]),
   Patch(1, "seller-2", [status |-> "archived"]),
   Patch(2, "seller-1", [title |-> "chair"]),
   Patch(3, "seller-2", [status |-> "active", quantity |-> 2])}

MCFeeds ==
  {[kind |-> "listings", role |-> "buyer", user |-> "buyer-1"],
   [kind |-> "orders", role |-> "buyer", user |-> "buyer-1"],
   [kind |-> "orders", role |-> "guest", user |-> "buyer-1"]}

MCItems ==
  [lamps |-> <<[listing_id |-> 1, quantity |-> 2]>>,
   both |-> <<[listing_id |-> 2, quantity |-> 1],
              [listing_id |-> 1, quantity |-> 1]>>,
   mixed |-> <<[listing_id |-> 2, quantity |-> 1],
               [listing_id |-> 3, quantity |-> 1]>>]

Order(user, role, key, body) ==
  [user |-> user, role |-> role, key |-> key, body |-> body]

MCPosts ==
  {Order("buyer-1", "buyer", "x:y", "lamps"),
   Order("buyer-1", "buyer", "x:y", "both"),
   Order("ann@shop", "buyer", "x:y", "lamps"),
   Order("buyer-2", "buyer", "x:y", "lamps"),
   Order("02", "buyer", "x:y", "mixed"),
   Order("buyer-1:x", "buyer", "y", "both"),
   Order("buyer-1", "seller", "x:y", "both")}

MCAccounts ==
  {[id |-> "1", email |-> "ann@shop", role |-> "buyer"],
   [id |-> "2", email |-> "bob@shop", role |-> "buyer"],
   [id |-> "3", email |-> "sam@shop", role |-> "seller"]}

MCAlias == "buyer-1" :> "ann@shop" @@ "buyer-2" :> "bob@shop"
             @@ "seller-1" :> "sam@shop"

MCNumeral == "1" :> "1" @@ "2" :> "2" @@ "02" :> "2"

MCMatches == [lamp |-> {Lamp}, mug |-> {Mug}, chair |-> {}]
MCProductSeller == <<"sam@shop", "sam@shop">>
MCPrice == <<2, 1>>
MCStock == <<3, 1>>
MCBalance == "1" :> 4 @@ "2" :> 4 @@ "3" :> 0
Symm == Permutations(Calls)
=============================================================================
