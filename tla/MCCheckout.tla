----------------------------- MODULE MCCheckout -----------------------------
(* Small instances of Checkout for TLC. *)
EXTENDS CheckoutRefinement, TLC

CONSTANTS r1, r2, r3, ann, bob, k1, k2, h1, h2

Item(p, q) == [productId |-> p, quantity |-> q]
In(u, is, k, h) == [user |-> u, items |-> is, key |-> k, hash |-> h,
                    failAfterOutbox |-> FALSE]

Requests3 == {r1, r2, r3}
Requests2 == {r1, r2}
Symm == Permutations(Requests3)
MCProducts == {1, 2, 3}
MCActive == {1, 2}
MCUsers == {ann, bob}
MCPrice == 1 :> 2 @@ 2 :> 3 @@ 3 :> 1
MCStock == 1 :> 2 @@ 2 :> 3 @@ 3 :> 1
MCBalance == ann :> 10 @@ bob :> 5

(* Orders for the same rows in opposite request orders. *)
LockInputs ==
  {In(ann, <<Item(1, 1), Item(2, 1)>>, NoKey, NoHash),
   In(bob, <<Item(2, 1), Item(1, 1)>>, NoKey, NoHash),
   In(bob, <<Item(1, 1)>>, k1, h1),
   In(ann, <<Item(1, 2)>>, NoKey, NoHash)}

(* One key: the same intent, another intent, and no hash. *)
KeyInputs ==
  {In(ann, <<Item(1, 1)>>, k1, h1),
   In(ann, <<Item(1, 1)>>, k1, NoHash),
   In(ann, <<Item(1, 2)>>, k1, h2),
   In(bob, <<Item(1, 1)>>, k1, h1),
   [In(ann, <<Item(1, 1)>>, k1, h1) EXCEPT !.failAfterOutbox = TRUE]}

(* Calls the service refuses: no items, quantity 0, an inactive product,   *)
(* a repeated product, too little money, a total and a quantity beyond     *)
(* PgIntMax.                                                               *)
EdgeInputs ==
  {In(ann, <<>>, NoKey, NoHash),
   In(ann, <<Item(1, 0)>>, NoKey, NoHash),
   In(ann, <<Item(3, 1)>>, k1, h1),
   In(ann, <<Item(1, 1), Item(1, 1)>>, NoKey, NoHash),
   In(bob, <<Item(2, 2)>>, NoKey, NoHash),
   In(bob, <<Item(2, 3)>>, NoKey, NoHash),
   In(bob, <<Item(1, 1), Item(2, 9)>>, NoKey, NoHash),
   In(ann, <<Item(2, 1), Item(1, 1)>>, k2, h1)}

AllInputs == LockInputs \cup KeyInputs \cup EdgeInputs

LiveInputs ==
  {In(ann, <<Item(1, 1), Item(2, 1)>>, k1, h1),
   In(bob, <<Item(2, 1), Item(1, 1)>>, NoKey, NoHash),
   In(ann, <<Item(1, 2)>>, k1, h2)}

(* One caller that repeats one request with one key. *)
TwinInputs == {In(ann, <<Item(2, 1), Item(1, 2)>>, k1, h1)}
=============================================================================
