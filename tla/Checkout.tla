------------------------------ MODULE Checkout ------------------------------
(***************************************************************************)
(* CheckoutService.checkout (src/checkout/checkout.service.ts) run by any  *)
(* number of concurrent calls against one PostgreSQL database at READ      *)
(* COMMITTED.  One action is one SQL statement that can meet another       *)
(* transaction; the statements of a transaction that only add rows nobody  *)
(* else can see before COMMIT (orders, order_items, jobs, outbox) are one  *)
(* action.                                                                 *)
(***************************************************************************)
EXTENDS Integers, Sequences, FiniteSets, FiniteSetsExt

CONSTANTS
  Requests,        \* calls of checkout()
  Products,        \* product ids, numbered in the order of their strings
  Users,           \* user ids
  Keys, NoKey,     \* idempotency keys; NoKey: the call gives none
  Hashes, NoHash,  \* request hashes; NoHash: requestHash is undefined
  EmptyHash,       \* the '' stored for an undefined hash
  NoOne,           \* the owner of an unlocked row
  Inputs,          \* the inputs a call may have
  Active,          \* the products with is_active = true
  Price,           \* price_cents of each product
  InitialStock,    \* stock of each product before the first call
  InitialBalance,  \* balance_cents of each user before the first call
  PgIntMax,        \* largest value of PostgreSQL's integer type
  MaxAttempts,     \* maxAttempts of withRetry
  MaxFaults        \* bound: number of database faults in a behaviour

Items == [productId: Products, quantity: Int]

InputType == [user: Users, items: Seq(Items), key: Keys \cup {NoKey},
              hash: Hashes \cup {NoHash}, failAfterOutbox: BOOLEAN]

ASSUME NamesAssumption ==
  /\ Products \subseteq Nat
  /\ NoOne \notin Requests
  /\ NoKey \notin Keys
  /\ NoHash \notin Hashes \cup {EmptyHash}

ASSUME DataAssumption ==
  /\ Inputs \subseteq InputType
  /\ Active \subseteq Products
  /\ Price \in [Products -> Nat \ {0}]
  /\ InitialStock \in [Products -> Nat]
  /\ InitialBalance \in [Users -> Nat]

ASSUME BoundsAssumption ==
  PgIntMax \in Nat /\ MaxAttempts \in Nat \ {0} /\ MaxFaults \in Nat

VARIABLES
  prod,         \* rows of products: committed stock, draft, row-lock owner
  acct,         \* rows of users: committed balance, draft, row-lock owner
  orders,       \* committed rows of orders with their order_items
  jobs,         \* order ids in the committed rows of jobs
  outbox,       \* committed rows of outbox
  keys,         \* committed rows of idempotency_keys
  nextOrderId,  \* the identity sequence of orders (never rolled back)
  pc,           \* where each call is
  call,         \* the input of each call
  tx,           \* the local state of each call's transaction
  answer,       \* what each call returned or threw
  faults        \* database faults so far

db == <<prod, acct, orders, jobs, outbox, keys, nextOrderId>>
vars == <<prod, acct, orders, jobs, outbox, keys, nextOrderId,
          pc, call, tx, answer, faults>>

-----------------------------------------------------------------------------
(***************************************************************************)
(* A row of products or users under READ COMMITTED: val is the committed   *)
(* version, draft the version of the transaction that owns the row lock.   *)
(***************************************************************************)
Row(v) == [val |-> v, draft |-> v, owner |-> NoOne]

Visible(row, r) == IF row.owner = r THEN row.draft ELSE row.val
Lockable(row, r) == row.owner \in {NoOne, r}
Write(row, r, v) == [row EXCEPT !.draft = v, !.owner = r]
CommitRow(row, r) == IF row.owner = r THEN Row(row.draft) ELSE row
RollbackRow(row, r) == IF row.owner = r THEN Row(row.val) ELSE row

NoInput == [user |-> NoOne, items |-> <<>>, key |-> NoKey, hash |-> NoHash,
            failAfterOutbox |-> FALSE]
NewTx(n) == [attempt |-> n, priced |-> <<>>, total |-> 0, orderId |-> 0]
NoTx == NewTx(0)
Answer(kind) == [kind |-> kind, orderId |-> 0, total |-> 0, unitPrices |-> <<>>]
NoAnswer == Answer("none")

Init ==
  /\ prod = [p \in Products |-> Row(InitialStock[p])]
  /\ acct = [u \in Users |-> Row(InitialBalance[u])]
  /\ orders = {} /\ jobs = {} /\ outbox = {} /\ keys = {}
  /\ nextOrderId = 1
  /\ pc = [r \in Requests |-> "idle"]
  /\ call = [r \in Requests |-> NoInput]
  /\ tx = [r \in Requests |-> NoTx]
  /\ answer = [r \in Requests |-> NoAnswer]
  /\ faults = 0

-----------------------------------------------------------------------------
(* The places of a call inside its transaction *)
TxStates == {"stock", "debit", "insert", "key", "commit"}

(* The call is over: the transaction's local state is gone. *)
Finish(r, a) ==
  /\ pc' = [pc EXCEPT ![r] = "done"]
  /\ answer' = [answer EXCEPT ![r] = a]
  /\ tx' = [tx EXCEPT ![r] = NoTx]

(* ROLLBACK: the drafts of r are dropped and its row locks released. *)
Rollback(r) ==
  /\ prod' = [p \in Products |-> RollbackRow(prod[p], r)]
  /\ acct' = [u \in Users |-> RollbackRow(acct[u], r)]

(* An error that withRetry rethrows: the call ends with it. *)
Throw(r, kind) == Rollback(r) /\ Finish(r, Answer(kind))

(* withRetry starts attempt n of the transaction. *)
Begin(r, n) ==
  /\ pc' = [pc EXCEPT ![r] = "stock"]
  /\ tx' = [tx EXCEPT ![r] = NewTx(n)]

(* Wrong: the rows are locked in the order of the request. *)
RequestOrder(items, i, j) == i < j

(* The comparator of itemsInLockOrder: productId, then position. *)
ItemBefore(items, i, j) ==
  \/ items[i].productId < items[j].productId
  \/ items[i].productId = items[j].productId /\ i < j

(* Positions of the items whose UPDATE products has not run yet. *)
Pending(r) ==
  DOMAIN call[r].items
    \ {tx[r].priced[n].index : n \in DOMAIN tx[r].priced}

(* i is the next position of lockedItems. *)
NextItem(r, i) ==
  /\ i \in Pending(r)
  /\ \A j \in Pending(r) \ {i} : ItemBefore(call[r].items, i, j)

(* Wrong: a key is replayed whatever the request was. *)
AnyIntent(stored, incoming) == TRUE

(* assertSameIntent does not throw *)
SameIntent(stored, incoming) == incoming = NoHash \/ incoming = stored

StoredHash(in) == IF in.hash = NoHash THEN EmptyHash ELSE in.hash

(* The rows findCommitted joins: the intent key and its order. *)
Found(in) ==
  {ko \in keys \X orders : /\ ko[1].user = in.user
                           /\ ko[1].key = in.key
                           /\ ko[2].id = ko[1].orderId}

(* What findCommitted and assertSameIntent make of a committed key. *)
ReplayAnswer(k, o, in) ==
  IF SameIntent(k.hash, in.hash)
  THEN [kind |-> "replay", orderId |-> o.id, total |-> o.total,
        unitPrices |-> [n \in DOMAIN o.lines |-> o.lines[n].unitPrice]]
  ELSE Answer("IdempotencyKeyConflict")

(* order_items_uniq: the same product on two lines of one order *)
RepeatsProduct(lines) ==
  \E m, n \in DOMAIN lines : m # n /\ lines[m].productId = lines[n].productId

-----------------------------------------------------------------------------
(***************************************************************************)
(* checkout() is called: the argument checks, then findCommitted when the  *)
(* call has a key, else the transaction.                                   *)
(***************************************************************************)
Call(r) ==
  /\ pc[r] = "idle"
  /\ \E in \in Inputs :
       /\ call' = [call EXCEPT ![r] = in]
       /\ \/ /\ \/ in.items = <<>>
                \/ \E i \in DOMAIN in.items : in.items[i].quantity < 1
             /\ Finish(r, Answer("Invalid"))
          \/ /\ in.items # <<>>
             /\ \A i \in DOMAIN in.items : in.items[i].quantity >= 1
             /\ IF in.key = NoKey
                THEN Begin(r, 1)
                ELSE pc' = [pc EXCEPT ![r] = "find"] /\ UNCHANGED tx
             /\ UNCHANGED answer
  /\ UNCHANGED <<db, faults>>

(* The first findCommitted: a committed key answers, else the transaction. *)
FindCommitted(r) ==
  /\ pc[r] = "find"
  /\ \/ /\ Found(call[r]) = {}
        /\ Begin(r, 1)
        /\ UNCHANGED answer
     \/ \E ko \in Found(call[r]) :
          Finish(r, ReplayAnswer(ko[1], ko[2], call[r]))
  /\ UNCHANGED <<db, call, faults>>

(***************************************************************************)
(* The findCommitted after IdempotencyReplayError; without a row the       *)
(* error itself is rethrown.                                               *)
(***************************************************************************)
FindAgain(r) ==
  /\ pc[r] = "refind"
  /\ \E a \in IF Found(call[r]) = {} THEN {Answer("Error")}
             ELSE {ReplayAnswer(ko[1], ko[2], call[r]) : ko \in Found(call[r])} :
       Finish(r, a)
  /\ UNCHANGED <<db, call, faults>>

(* Wrong: UPDATE products without is_active in its WHERE. *)
SellsInactive(r, item) == Visible(prod[item.productId], r) >= item.quantity

(***************************************************************************)
(* UPDATE products ... WHERE id AND is_active AND stock >= quantity.  The  *)
(* row is filtered by the version the statement sees; a row that passes    *)
(* and is locked by another transaction makes the statement wait, and the  *)
(* condition is evaluated again on the version that transaction leaves.    *)
(***************************************************************************)
RowSells(r, item) ==
  /\ item.productId \in Active
  /\ Visible(prod[item.productId], r) >= item.quantity

(* pricedItems.push and totalCents += of one line *)
WithLine(t, line) ==
  [attempt |-> t.attempt, priced |-> Append(t.priced, line),
   total |-> t.total + line.unitPrice * line.quantity, orderId |-> t.orderId]

(* Wrong: UPDATE products on another connection than the transaction's. *)
UpdateOutsideTx(r) ==
  /\ pc[r] = "stock"
  /\ \E i \in Pending(r) :
       LET item == call[r].items[i]
           p    == item.productId
           line == [index |-> i, productId |-> p, quantity |-> item.quantity,
                    unitPrice |-> Price[p]]
       IN  /\ NextItem(r, i)
           /\ RowSells(r, item)
           /\ prod' = [prod EXCEPT ![p] = Row(@.val - item.quantity)]
           /\ tx' = [tx EXCEPT ![r] = WithLine(@, line)]
           /\ pc' = [pc EXCEPT ![r] =
                       IF Pending(r) = {i} THEN "debit" ELSE "stock"]
  /\ UNCHANGED <<acct, orders, jobs, outbox, keys, nextOrderId, call, answer,
                 faults>>

UpdateProduct(r) ==
  /\ pc[r] = "stock"
  /\ \E i \in Pending(r) :
       LET item == call[r].items[i]
           p    == item.productId
           line == [index |-> i, productId |-> p, quantity |-> item.quantity,
                    unitPrice |-> Price[p]]
       IN  /\ NextItem(r, i)
           /\ item.quantity <= PgIntMax
           /\ RowSells(r, item)
           /\ Lockable(prod[p], r)
           /\ prod' = [prod EXCEPT ![p] =
                         Write(@, r, Visible(@, r) - item.quantity)]
           /\ tx' = [tx EXCEPT ![r] = WithLine(@, line)]
           /\ pc' = [pc EXCEPT ![r] =
                       IF Pending(r) = {i} THEN "debit" ELSE "stock"]
  /\ UNCHANGED <<acct, orders, jobs, outbox, keys, nextOrderId, call, answer,
                 faults>>

(***************************************************************************)
(* UPDATE products returns no row: OutOfStockError; a quantity that is not *)
(* a PostgreSQL integer is an error of the statement (22003).              *)
(***************************************************************************)
OutOfStock(r) ==
  /\ pc[r] = "stock"
  /\ \E i \in Pending(r) :
       /\ NextItem(r, i)
       /\ \/ call[r].items[i].quantity > PgIntMax /\ Throw(r, "Error")
          \/ /\ call[r].items[i].quantity <= PgIntMax
             /\ ~RowSells(r, call[r].items[i])
             /\ Throw(r, "OutOfStock")
  /\ UNCHANGED <<orders, jobs, outbox, keys, nextOrderId, call, faults>>

(* Wrong: UPDATE users without the balance in its WHERE. *)
DebitUnchecked(r) ==
  LET u == call[r].user
  IN  /\ pc[r] = "debit"
      /\ Lockable(acct[u], r)
      /\ acct' = [acct EXCEPT ![u] = Write(@, r, Visible(@, r) - tx[r].total)]
      /\ pc' = [pc EXCEPT ![r] = "insert"]
      /\ UNCHANGED <<prod, orders, jobs, outbox, keys, nextOrderId, call, tx,
                     answer, faults>>

(* UPDATE users ... WHERE id AND balance_cents >= total *)
DebitBalance(r) ==
  LET u == call[r].user
      t == tx[r].total
  IN  /\ pc[r] = "debit"
      /\ t <= PgIntMax
      /\ Visible(acct[u], r) >= t
      /\ Lockable(acct[u], r)
      /\ acct' = [acct EXCEPT ![u] = Write(@, r, Visible(@, r) - t)]
      /\ pc' = [pc EXCEPT ![r] = "insert"]
      /\ UNCHANGED <<prod, orders, jobs, outbox, keys, nextOrderId, call, tx,
                     answer, faults>>

(***************************************************************************)
(* UPDATE users returns no row: InsufficientFundsError; a total that is    *)
(* not a PostgreSQL integer is an error of the statement (22003).          *)
(***************************************************************************)
DebitRefused(r) ==
  /\ pc[r] = "debit"
  /\ \/ tx[r].total > PgIntMax /\ Throw(r, "Error")
     \/ /\ tx[r].total <= PgIntMax
        /\ Visible(acct[call[r].user], r) < tx[r].total
        /\ Throw(r, "InsufficientFunds")
  /\ UNCHANGED <<orders, jobs, outbox, keys, nextOrderId, call, faults>>

(* The id that INSERT orders returned *)
WithOrder(t, id) ==
  [attempt |-> t.attempt, priced |-> t.priced, total |-> t.total,
   orderId |-> id]

(* Wrong: the event is written on another connection, at once. *)
DualWrite(r) ==
  /\ pc[r] = "insert"
  /\ nextOrderId' = nextOrderId + 1
  /\ outbox' = outbox \cup {[orderId |-> nextOrderId, user |-> call[r].user,
                             total |-> tx[r].total]}
  /\ tx' = [tx EXCEPT ![r] = WithOrder(@, nextOrderId)]
  /\ pc' = [pc EXCEPT ![r] = IF call[r].key = NoKey THEN "commit" ELSE "key"]
  /\ UNCHANGED <<prod, acct, orders, jobs, keys, call, answer, faults>>

(***************************************************************************)
(* INSERT orders, order_items, jobs and outbox: rows only this transaction *)
(* sees until COMMIT.  The order id is taken from the sequence.  A second  *)
(* line with the same product breaks order_items_uniq.                     *)
(***************************************************************************)
InsertOrderRows(r) ==
  /\ pc[r] = "insert"
  /\ nextOrderId' = nextOrderId + 1
  /\ \/ RepeatsProduct(tx[r].priced) /\ Throw(r, "Error")
     \/ /\ ~RepeatsProduct(tx[r].priced)
        /\ call[r].failAfterOutbox
        /\ Throw(r, "OutboxWriteAborted")
     \/ /\ ~RepeatsProduct(tx[r].priced)
        /\ ~call[r].failAfterOutbox
        /\ tx' = [tx EXCEPT ![r] = WithOrder(@, nextOrderId)]
        /\ pc' = [pc EXCEPT ![r] =
                    IF call[r].key = NoKey THEN "commit" ELSE "key"]
        /\ UNCHANGED <<prod, acct, answer>>
  /\ UNCHANGED <<orders, jobs, outbox, keys, call, faults>>

(* q has inserted, and not yet committed, the key r is about to insert. *)
SameKeyInFlight(q, r) ==
  /\ pc[q] = "commit"
  /\ call[q].user = call[r].user
  /\ call[q].key = call[r].key

(* Wrong: the number of inserted key rows is not looked at. *)
InsertKeyUnchecked(r) ==
  /\ pc[r] = "key"
  /\ \A q \in Requests \ {r} : ~SameKeyInFlight(q, r)
  /\ pc' = [pc EXCEPT ![r] = "commit"]
  /\ UNCHANGED <<prod, acct, orders, jobs, outbox, keys, nextOrderId, call, tx,
                 answer, faults>>

(***************************************************************************)
(* INSERT idempotency_keys ... ON CONFLICT DO NOTHING.  The insert waits   *)
(* for a transaction that holds the same primary key uncommitted.          *)
(***************************************************************************)
InsertKey(r) ==
  /\ pc[r] = "key"
  /\ \A q \in Requests \ {r} : ~SameKeyInFlight(q, r)
  /\ \/ /\ \E k \in keys : k.user = call[r].user /\ k.key = call[r].key
        /\ Rollback(r)
        /\ pc' = [pc EXCEPT ![r] = "refind"]
        /\ tx' = [tx EXCEPT ![r] = NoTx]
     \/ /\ \A k \in keys : k.user # call[r].user \/ k.key # call[r].key
        /\ pc' = [pc EXCEPT ![r] = "commit"]
        /\ UNCHANGED <<prod, acct, tx>>
  /\ UNCHANGED <<orders, jobs, outbox, keys, nextOrderId, call, answer,
                 faults>>

(* The rows of r's transaction become visible, all at once. *)
CommitRows(r) ==
  LET in == call[r]
      t  == tx[r]
  IN  /\ prod' = [p \in Products |-> CommitRow(prod[p], r)]
      /\ acct' = [u \in Users |-> CommitRow(acct[u], r)]
      /\ orders' = orders \cup
           {[id |-> t.orderId, user |-> in.user, total |-> t.total,
             lines |-> t.priced, by |-> r]}
      /\ jobs' = jobs \cup {t.orderId}
      /\ outbox' = outbox \cup
           {[orderId |-> t.orderId, user |-> in.user, total |-> t.total]}
      /\ keys' = IF in.key = NoKey THEN keys
                 ELSE keys \cup {[user |-> in.user, key |-> in.key,
                                  orderId |-> t.orderId,
                                  hash |-> StoredHash(in)]}
      /\ UNCHANGED nextOrderId

(* What insertCheckout returns. *)
FreshAnswer(r) ==
  [kind |-> "fresh", orderId |-> tx[r].orderId, total |-> tx[r].total,
   unitPrices |-> [i \in DOMAIN call[r].items |->
                     Price[call[r].items[i].productId]]]

Commit(r) ==
  /\ pc[r] = "commit"
  /\ CommitRows(r)
  /\ Finish(r, FreshAnswer(r))
  /\ UNCHANGED <<call, faults>>

-----------------------------------------------------------------------------
(***************************************************************************)
(* Faults of the database connection, at most MaxFaults of them.           *)
(***************************************************************************)
Fault == faults < MaxFaults /\ faults' = faults + 1

(* 40001 or 40P01: withRetry runs the callback again, MaxAttempts times. *)
RetryableFault(r) ==
  /\ pc[r] \in TxStates
  /\ Fault
  /\ \/ /\ tx[r].attempt < MaxAttempts
        /\ Rollback(r)
        /\ Begin(r, tx[r].attempt + 1)
        /\ UNCHANGED answer
     \/ tx[r].attempt >= MaxAttempts /\ Throw(r, "Error")
  /\ UNCHANGED <<orders, jobs, outbox, keys, nextOrderId, call>>

(* Wrong: the error is rethrown and the connection is left in transaction. *)
LeakTransaction(r) ==
  /\ pc[r] \in TxStates \cup {"find", "refind"}
  /\ Fault
  /\ Finish(r, Answer("Error"))
  /\ UNCHANGED <<db, call>>

(* Any other error of a statement is rethrown. *)
FatalFault(r) ==
  /\ pc[r] \in TxStates \cup {"find", "refind"}
  /\ Fault
  /\ Throw(r, "Error")
  /\ UNCHANGED <<orders, jobs, outbox, keys, nextOrderId, call>>

(* Wrong: withRetry also retries a lost connection. *)
RetryLostCommit(r) ==
  /\ pc[r] = "commit"
  /\ tx[r].attempt < MaxAttempts
  /\ Fault
  /\ CommitRows(r)
  /\ Begin(r, tx[r].attempt + 1)
  /\ UNCHANGED <<call, answer>>

(* COMMIT succeeds and the connection is lost before its answer. *)
CommitAckLost(r) ==
  /\ pc[r] = "commit"
  /\ Fault
  /\ CommitRows(r)
  /\ Finish(r, Answer("Error"))
  /\ UNCHANGED call

-----------------------------------------------------------------------------
(* The steps of a call that the program takes by itself *)
Step(r) ==
  \/ FindCommitted(r) \/ FindAgain(r)
  \/ UpdateProduct(r) \/ OutOfStock(r)
  \/ DebitBalance(r) \/ DebitRefused(r)
  \/ InsertOrderRows(r) \/ InsertKey(r) \/ Commit(r)

FaultStep(r) == RetryableFault(r) \/ FatalFault(r) \/ CommitAckLost(r)

(* Every call is over: the only way the system may stop. *)
AllDone == (\A r \in Requests : pc[r] = "done") /\ UNCHANGED vars

Next ==
  \/ \E r \in Requests : Call(r) \/ Step(r) \/ FaultStep(r)
  \/ AllDone

Spec == Init /\ [][Next]_vars

(***************************************************************************)
(* The Node event loop and the database run every statement that can run.  *)
(* Clients need not call, and faults need not happen.                      *)
(***************************************************************************)
FairSpec == Spec /\ \A r \in Requests : WF_vars(Step(r))
-----------------------------------------------------------------------------
(* The type of the state *)
RowType == [val: Nat, draft: Nat, owner: Requests \cup {NoOne}]
LineType == [index: Nat, productId: Products, quantity: Nat, unitPrice: Nat]
TxType == [attempt: 0..MaxAttempts, priced: Seq(LineType), total: Nat,
           orderId: Nat]
OrderType == [id: Nat, user: Users, total: Nat, lines: Seq(LineType),
              by: Requests]
EventType == [orderId: Nat, user: Users, total: Nat]
KeyType == [user: Users, key: Keys, orderId: Nat,
            hash: Hashes \cup {EmptyHash}]
AnswerKinds == {"none", "fresh", "replay", "Invalid", "OutOfStock",
                "InsufficientFunds", "IdempotencyKeyConflict",
                "OutboxWriteAborted", "Error"}
AnswerType == [kind: AnswerKinds, orderId: Nat, total: Nat,
               unitPrices: Seq(Nat)]

(***************************************************************************)
(* Every row, transaction and answer has its type; in particular no stock  *)
(* and no balance, committed or in a transaction, is ever negative, so the *)
(* products_stock_chk and users_balance_chk constraints never fire.        *)
(***************************************************************************)
TypeOK ==
  /\ prod \in [Products -> RowType]
  /\ acct \in [Users -> RowType]
  /\ orders \subseteq OrderType
  /\ jobs \subseteq Nat
  /\ outbox \subseteq EventType
  /\ keys \subseteq KeyType
  /\ nextOrderId \in Nat \ {0}
  /\ pc \in [Requests -> TxStates \cup {"idle", "find", "refind", "done"}]
  /\ call \in [Requests -> Inputs \cup {NoInput}]
  /\ tx \in [Requests -> TxType]
  /\ answer \in [Requests -> AnswerType]
  /\ faults \in 0..MaxFaults

(* Quantity of product p on the lines of an order, and its price in full *)
LineQuantity(lines, p) ==
  SumFunctionOnSet([n \in DOMAIN lines |-> lines[n].quantity],
                   {n \in DOMAIN lines : lines[n].productId = p})
LineTotal(lines) ==
  SumFunction([n \in DOMAIN lines |-> lines[n].unitPrice * lines[n].quantity])

(* What a set of orders has sold of a product, and what a user paid for it *)
Sold(os, p) == SumFunction([o \in os |-> LineQuantity(o.lines, p)])
Paid(os, u) == SumFunction([o \in {x \in os : x.user = u} |-> o.total])

(***************************************************************************)
(* What was sold is what was there: committed stock plus the quantities of *)
(* all committed orders is the initial stock of every product, committed   *)
(* balance plus the totals of the user's orders is the user's initial      *)
(* balance, and a total is the price of the order's lines.  Concurrent     *)
(* UPDATEs, rollbacks, retries and lost commit answers must not lose or    *)
(* repeat a decrement (insertCheckout).                                    *)
(***************************************************************************)
Conserved ==
  /\ \A p \in Products : prod[p].val + Sold(orders, p) = InitialStock[p]
  /\ \A u \in Users : acct[u].val + Paid(orders, u) = InitialBalance[u]
  /\ \A o \in orders : o.total = LineTotal(o.lines)

(***************************************************************************)
(* An idempotency key buys at most once: two committed orders that come    *)
(* from calls of the same user with the same key are the same order, and   *)
(* that order is the one the key row names.                                *)
(***************************************************************************)
OneOrderPerKey ==
  \A o \in orders : call[o.by].key # NoKey =>
    /\ \E k \in keys : /\ k.user = o.user /\ k.key = call[o.by].key
                       /\ k.orderId = o.id
    /\ \A o2 \in orders :
         o2.user = o.user /\ call[o2.by].key = call[o.by].key => o2 = o

(***************************************************************************)
(* withRetry never buys twice: a call leaves at most one order, and a call *)
(* that returned an order as new left exactly the one it returned.         *)
(***************************************************************************)
OneOrderPerCall ==
  /\ \A o1, o2 \in orders : o1.by = o2.by => o1 = o2
  /\ \A r \in Requests : answer[r].kind = "fresh" =>
       \E o \in orders : /\ o.by = r /\ o.id = answer[r].orderId
                        /\ o.total = answer[r].total

(***************************************************************************)
(* The transactional outbox: the orders, the jobs and the order.placed     *)
(* events that are visible always belong together, one event and one job   *)
(* per order, whatever fails between their INSERTs and COMMIT.             *)
(***************************************************************************)
OutboxMatchesOrders ==
  /\ outbox = {[orderId |-> o.id, user |-> o.user, total |-> o.total] :
                 o \in orders}
  /\ jobs = {o.id : o \in orders}
  /\ \A o1, o2 \in orders : o1.id = o2.id => o1 = o2

(***************************************************************************)
(* A replayed answer names the order its key was first used for, made by   *)
(* a call of the same user with the same key, and with the same request    *)
(* hash when the call gives one (assertSameIntent).                        *)
(***************************************************************************)
ReplayNamesFirstOrder ==
  \A r \in Requests : answer[r].kind = "replay" =>
    \E o \in orders :
      /\ o.id = answer[r].orderId /\ o.total = answer[r].total
      /\ o.by # r
      /\ call[o.by].user = call[r].user /\ call[o.by].key = call[r].key
      /\ call[r].hash # NoHash => call[r].hash = StoredHash(call[o.by])

(* The statement of call r waits for the transaction of call q. *)
WaitsFor(r, q) ==
  \/ /\ pc[r] = "stock"
     /\ \E i \in Pending(r) :
          /\ NextItem(r, i)
          /\ call[r].items[i].quantity <= PgIntMax
          /\ RowSells(r, call[r].items[i])
          /\ prod[call[r].items[i].productId].owner = q
  \/ /\ pc[r] = "debit"
     /\ tx[r].total <= PgIntMax
     /\ Visible(acct[call[r].user], r) >= tx[r].total
     /\ acct[call[r].user].owner = q
  \/ pc[r] = "key" /\ SameKeyInFlight(q, r)

(***************************************************************************)
(* No deadlock between checkouts (40P01): in every finite set of calls     *)
(* there is one that waits for no other of the set.  itemsInLockOrder is   *)
(* there for this.                                                         *)
(***************************************************************************)
NoWaitCycle ==
  \A S \in SUBSET Requests : IsFiniteSet(S) /\ S # {} =>
    \E r \in S : \A q \in S \ {r} : ~WaitsFor(r, q)

(***************************************************************************)
(* The lock discipline behind NoWaitCycle: a call whose next statement is  *)
(* an UPDATE of product p owns no user row and only product rows up to p,  *)
(* and no call ever owns the user row of another call's user.              *)
(***************************************************************************)
LocksInOrder ==
  \A r \in Requests :
    /\ \A u \in Users : acct[u].owner = r =>
         pc[r] \in {"insert", "key", "commit"} /\ u = call[r].user
    /\ \A p \in Products : prod[p].owner = r => pc[r] \in TxStates
    /\ pc[r] = "stock" =>
         \A p \in Products, i \in Pending(r) :
           prod[p].owner = r => p <= call[r].items[i].productId

(***************************************************************************)
(* Every call that started ends, with an answer or an error: no statement  *)
(* waits for ever and no retry goes on for ever.                           *)
(***************************************************************************)
CallsEnd == \A r \in Requests : pc[r] # "idle" ~> pc[r] = "done"

-----------------------------------------------------------------------------
(***************************************************************************)
(* openapi.yaml promises that the same key with the same body gives the    *)
(* same answer: no two finished calls with equal inputs where one got an   *)
(* order and the other was refused for stock or money.  checkout() does    *)
(* not keep this when the calls overlap: the second call's UPDATE products *)
(* waits for the first and then no longer finds the stock.                 *)
(***************************************************************************)
SameKeySameAnswer ==
  \A r, q \in Requests :
    /\ call[r] = call[q] /\ call[r].key # NoKey
    /\ answer[r].kind \in {"fresh", "replay"}
    => answer[q].kind \notin {"OutOfStock", "InsufficientFunds"}

(***************************************************************************)
(* The comment of itemsInLockOrder says that unitPrices stay aligned with  *)
(* the request's items.  A replay reads them in the order of the           *)
(* order_items rows, which is the lock order.                              *)
(***************************************************************************)
UnitPricesAligned ==
  \A r \in Requests : answer[r].kind \in {"fresh", "replay"} =>
    answer[r].unitPrices = [i \in DOMAIN call[r].items |->
                              Price[call[r].items[i].productId]]
=============================================================================
