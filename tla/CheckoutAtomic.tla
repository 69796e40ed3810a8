--------------------------- MODULE CheckoutAtomic ---------------------------
(***************************************************************************)
(* What CheckoutService.checkout promises its callers: every call takes    *)
(* effect, or is refused, at one instant.  There are no transactions, row  *)
(* locks, attempts or statements here.                                     *)
(***************************************************************************)
EXTENDS Integers, Sequences, FiniteSetsExt

CONSTANTS Requests, Products, Users, NoKey, NoHash, EmptyHash, Inputs,
          NoInput, Active, Price, InitialStock, InitialBalance

VARIABLES
  stock,    \* what is left of each product
  balance,  \* what each user can spend
  called,   \* the input of each call made so far
  placed,   \* the calls that placed an order
  taken,    \* [user, key, hash, by]: the calls that own their key
  outcome   \* [kind, by]: how each call ended, and whose order it names

vars == <<stock, balance, called, placed, taken, outcome>>

Pending == [kind |-> "none", by |-> {}]

Init ==
  /\ stock = InitialStock
  /\ balance = InitialBalance
  /\ called = [r \in Requests |-> NoInput]
  /\ placed = {}
  /\ taken = {}
  /\ outcome = [r \in Requests |-> Pending]

-----------------------------------------------------------------------------
(* How much of product p an order takes, and what it costs *)
Demand(items, p) ==
  SumFunctionOnSet([i \in DOMAIN items |-> items[i].quantity],
                   {i \in DOMAIN items : items[i].productId = p})

Cost(items) ==
  SumFunction([i \in DOMAIN items |->
                 Price[items[i].productId] * items[i].quantity])

Valid(in) ==
  in.items # <<>> /\ \A i \in DOMAIN in.items : in.items[i].quantity >= 1

InStock(in) ==
  \A p \in Products :
    /\ Demand(in.items, p) <= stock[p]
    /\ Demand(in.items, p) > 0 => p \in Active

Affordable(in) == Cost(in.items) <= balance[in.user]

Owners(in) == {t \in taken : t.user = in.user /\ t.key = in.key}

Running(r) == called[r] # NoInput /\ outcome[r] = Pending

-----------------------------------------------------------------------------
Start(r) ==
  /\ called[r] = NoInput
  /\ \E in \in Inputs :
       /\ called' = [called EXCEPT ![r] = in]
       /\ outcome' = IF Valid(in) THEN outcome
                     ELSE [outcome EXCEPT ![r].kind = "Invalid"]
  /\ UNCHANGED <<stock, balance, placed, taken>>

(* The caller of a placed order learns of it, or of an unknown error. *)
Place(r) ==
  LET in == called[r]
  IN  /\ Running(r)
      /\ InStock(in) /\ Affordable(in)
      /\ ~in.failAfterOutbox
      /\ in.key # NoKey => Owners(in) = {}
      /\ stock' = [p \in Products |-> stock[p] - Demand(in.items, p)]
      /\ balance' = [balance EXCEPT ![in.user] = @ - Cost(in.items)]
      /\ placed' = placed \cup {r}
      /\ taken' = IF in.key = NoKey THEN taken
                  ELSE taken \cup {[user |-> in.user, key |-> in.key,
                                    hash |-> IF in.hash = NoHash
                                             THEN EmptyHash ELSE in.hash,
                                    by |-> r]}
      /\ \E kind \in {"fresh", "Error"} :
           outcome' = [outcome EXCEPT ![r] =
             [kind |-> kind, by |-> IF kind = "fresh" THEN {r} ELSE {}]]
      /\ UNCHANGED called

(* The refusals there is a reason for at this instant; an error needs none. *)
Refusals(in) ==
  {[kind |-> "Error", by |-> {}]}
  \cup (IF InStock(in) THEN {} ELSE {[kind |-> "OutOfStock", by |-> {}]})
  \cup (IF Affordable(in) THEN {}
        ELSE {[kind |-> "InsufficientFunds", by |-> {}]})
  \cup (IF in.failAfterOutbox
        THEN {[kind |-> "OutboxWriteAborted", by |-> {}]} ELSE {})
  \cup {IF in.hash \in {NoHash, t.hash}
        THEN [kind |-> "replay", by |-> {t.by}]
        ELSE [kind |-> "IdempotencyKeyConflict", by |-> {}] : t \in Owners(in)}

Refuse(r) ==
  /\ Running(r)
  /\ \E o \in Refusals(called[r]) : outcome' = [outcome EXCEPT ![r] = o]
  /\ UNCHANGED <<stock, balance, called, placed, taken>>

Next == \E r \in Requests : Start(r) \/ Place(r) \/ Refuse(r)

Spec == Init /\ [][Next]_vars
=============================================================================
