------------------------- MODULE CheckoutRefinement -------------------------
(***************************************************************************)
(* Checkout implements CheckoutAtomic: the committed rows are the abstract *)
(* state, so an order is placed at COMMIT and a refusal is decided by the  *)
(* statement that finds its reason.                                        *)
(***************************************************************************)
EXTENDS Checkout

(* The calls whose committed order has id i *)
MadeBy(i) == {o.by : o \in {x \in orders : x.id = i}}

Atomic == INSTANCE CheckoutAtomic WITH
  stock   <- [p \in Products |-> prod[p].val],
  balance <- [u \in Users |-> acct[u].val],
  called  <- call,
  placed  <- {o.by : o \in orders},
  taken   <- {[user |-> k.user, key |-> k.key, hash |-> k.hash,
               by |-> CHOOSE r \in MadeBy(k.orderId) : TRUE] : k \in keys},
  outcome <- [r \in Requests |->
                [kind |-> answer[r].kind,
                 by |-> IF answer[r].kind \in {"fresh", "replay"}
                        THEN MadeBy(answer[r].orderId) ELSE {}]]

(***************************************************************************)
(* Every behaviour of the statements, row locks, retries and faults is one *)
(* in which each call took effect at a single instant: an OutOfStock or    *)
(* InsufficientFunds refusal had its reason at that instant, an order was  *)
(* placed only while all its stock, the money and the key were free        *)
(* together, and a replay names the owner of the key.                      *)
(***************************************************************************)
ActsAtOneInstant == Atomic!Spec
=============================================================================
