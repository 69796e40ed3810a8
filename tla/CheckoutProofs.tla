--------------------------- MODULE CheckoutProofs ---------------------------
(***************************************************************************)
(* Proofs about Checkout for any number of calls, products, users and      *)
(* keys, any inputs, any number of attempts and of faults: types, then the *)
(* lock order, the outbox written with the order, one order per call and   *)
(* per idempotency key, replays that name the first order, no deadlock,    *)
(* the conservation of stock and money, and that all of it implements      *)
(* CheckoutAtomic.                                                         *)
(***************************************************************************)
EXTENDS CheckoutRefinement, SumTheorems, SequenceTheorems

-----------------------------------------------------------------------------
(* A call that is under way has a valid input. *)
CallsOK ==
  \A r \in Requests :
    /\ pc[r] # "idle" => call[r] \in Inputs
    /\ pc[r] \notin {"idle", "done"} =>
         \A i \in DOMAIN call[r].items : call[r].items[i].quantity >= 1
    /\ pc[r] \in {"find", "refind", "key"} => call[r].key # NoKey

TypeInv == TypeOK /\ CallsOK

-----------------------------------------------------------------------------
(* The versions of a row stay rows with naturals in them. *)
LEMMA RowsStayRows ==
  ASSUME NEW row \in RowType, NEW r \in Requests, NEW v \in Nat
  PROVE  /\ Row(v) \in RowType
         /\ Visible(row, r) \in Nat
         /\ Write(row, r, v) \in RowType
         /\ CommitRow(row, r) \in RowType
         /\ RollbackRow(row, r) \in RowType
BY DEF RowType, Row, Visible, Write, CommitRow, RollbackRow

(* ROLLBACK leaves rows. *)
LEMMA RollbackTypes ==
  ASSUME TypeOK, NEW r \in Requests, Rollback(r)
  PROVE  prod' \in [Products -> RowType] /\ acct' \in [Users -> RowType]
BY RowsStayRows DEF TypeOK, Rollback

(* An error is an answer. *)
LEMMA AnswerTypes ==
  ASSUME NEW kind \in AnswerKinds
  PROVE  Answer(kind) \in AnswerType
<1>1. <<>> \in Seq(Nat)
  OBVIOUS
<1>2. QED  BY <1>1 DEF Answer, AnswerType

(* A fresh transaction is a transaction. *)
LEMMA NewTxTypes ==
  ASSUME NEW n \in 0..MaxAttempts
  PROVE  NewTx(n) \in TxType
<1>1. <<>> \in Seq(LineType)
  OBVIOUS
<1>2. QED  BY <1>1 DEF NewTx, TxType

(* No transaction has its type. *)
LEMMA NoTxType == NoTx \in TxType
BY NewTxTypes, BoundsAssumption DEF NoTx

(* The prices read back from order_items are naturals. *)
LEMMA LinePricesTypes ==
  ASSUME NEW lines \in Seq(LineType)
  PROVE  [n \in DOMAIN lines |-> lines[n].unitPrice] \in Seq(Nat)
<1>0. \A n \in 1..Len(lines) : lines[n] \in LineType
  BY ElementOfSeq
<1>1. \A n \in 1..Len(lines) : lines[n].unitPrice \in Nat
  BY <1>0 DEF LineType
<1>2. DOMAIN lines = 1..Len(lines) /\ Len(lines) \in Nat
  OBVIOUS
<1>3. [n \in 1..Len(lines) |-> lines[n].unitPrice] \in Seq(Nat)
  BY <1>1, <1>2
<1>4. QED  BY <1>2, <1>3

(* Throwing ends the call with well-typed state. *)
LEMMA ThrowTypes ==
  ASSUME TypeOK, NEW r \in Requests, NEW kind \in AnswerKinds, Throw(r, kind)
  PROVE  /\ prod' \in [Products -> RowType] /\ acct' \in [Users -> RowType]
         /\ pc' = [pc EXCEPT ![r] = "done"]
         /\ tx' \in [Requests -> TxType]
         /\ answer' \in [Requests -> AnswerType]
BY RollbackTypes, AnswerTypes, NoTxType DEF Throw, Finish, TypeOK

(* The initial state is well typed. *)
LEMMA InitTypes == Init => TypeInv
<1>1. SUFFICES ASSUME Init PROVE TypeInv
  OBVIOUS
<1>2. prod \in [Products -> RowType] /\ acct \in [Users -> RowType]
  BY <1>1, DataAssumption DEF Init, Row, RowType
<1>3. NoTx \in TxType /\ NoAnswer \in AnswerType
  BY NoTxType, AnswerTypes DEF NoAnswer, AnswerKinds
<1>4. TypeOK
  BY <1>1, <1>2, <1>3, BoundsAssumption DEF Init, TypeOK
<1>5. CallsOK
  BY <1>1 DEF Init, CallsOK
<1>6. QED  BY <1>4, <1>5 DEF TypeInv

-----------------------------------------------------------------------------
(* The input of a call that is under way *)
LEMMA CallTypes ==
  ASSUME TypeInv, NEW r \in Requests, pc[r] # "idle"
  PROVE  /\ call[r] \in InputType
         /\ call[r].user \in Users
         /\ call[r].items \in Seq(Items)
         /\ call[r].key \in Keys \cup {NoKey}
         /\ StoredHash(call[r]) \in Hashes \cup {EmptyHash}
<1>1. call[r] \in InputType
  BY DataAssumption DEF TypeInv, CallsOK
<1>2. QED  BY <1>1 DEF InputType, StoredHash

(* The item at a position of the call's items *)
LEMMA ItemTypes ==
  ASSUME TypeInv, NEW r \in Requests, pc[r] \notin {"idle", "done"},
         NEW i \in DOMAIN call[r].items
  PROVE  /\ i \in Nat
         /\ call[r].items[i].productId \in Products
         /\ call[r].items[i].quantity \in Nat
         /\ call[r].items[i].quantity >= 1
<1>1. call[r].items \in Seq(Items) /\ pc[r] # "idle"
  BY CallTypes
<1>2. i \in 1..Len(call[r].items)
  BY <1>1
<1>3. call[r].items[i] \in Items
  BY <1>1, <1>2, ElementOfSeq
<1>4. call[r].items[i].quantity >= 1
  BY DEF TypeInv, CallsOK
<1>5. QED  BY <1>2, <1>3, <1>4 DEF Items

(* The answer findCommitted gives *)
LEMMA ReplayTypes ==
  ASSUME TypeInv, NEW r \in Requests, NEW ko \in Found(call[r])
  PROVE  ReplayAnswer(ko[1], ko[2], call[r]) \in AnswerType
<1>1. ko[2] \in OrderType
  BY DEF Found, TypeInv, TypeOK
<1>2. [n \in DOMAIN ko[2].lines |-> ko[2].lines[n].unitPrice] \in Seq(Nat)
  BY <1>1, LinePricesTypes DEF OrderType
<1>3. Answer("IdempotencyKeyConflict") \in AnswerType
  BY AnswerTypes DEF AnswerKinds
<1>4. QED
  BY <1>1, <1>2, <1>3 DEF ReplayAnswer, AnswerType, AnswerKinds, OrderType

(* What insertCheckout returns *)
LEMMA FreshTypes ==
  ASSUME TypeInv, NEW r \in Requests, pc[r] = "commit"
  PROVE  FreshAnswer(r) \in AnswerType
<1>1. call[r].items \in Seq(Items)
  BY CallTypes
<1>3. DOMAIN call[r].items = 1..Len(call[r].items)
      /\ Len(call[r].items) \in Nat
  BY <1>1
<1>a. \A i \in 1..Len(call[r].items) :
        call[r].items[i].productId \in Products
  BY <1>3, ItemTypes
<1>2. \A i \in 1..Len(call[r].items) :
        Price[call[r].items[i].productId] \in Nat
  BY <1>a, DataAssumption
<1>4. [i \in 1..Len(call[r].items) |-> Price[call[r].items[i].productId]]
        \in Seq(Nat)
  BY <1>2, <1>3
<1>5. tx[r].orderId \in Nat /\ tx[r].total \in Nat
  BY DEF TypeInv, TypeOK, TxType
<1>6. QED  BY <1>3, <1>4, <1>5 DEF FreshAnswer, AnswerType, AnswerKinds

(* COMMIT leaves well-typed tables. *)
LEMMA CommitTypes ==
  ASSUME TypeInv, NEW r \in Requests, pc[r] = "commit", CommitRows(r)
  PROVE  /\ prod' \in [Products -> RowType] /\ acct' \in [Users -> RowType]
         /\ orders' \subseteq OrderType /\ jobs' \subseteq Nat
         /\ outbox' \subseteq EventType /\ keys' \subseteq KeyType
         /\ nextOrderId' \in Nat \ {0}
<1>1. /\ call[r].user \in Users /\ call[r].key \in Keys \cup {NoKey}
      /\ StoredHash(call[r]) \in Hashes \cup {EmptyHash}
  BY CallTypes
<1>2. tx[r] \in TxType
  BY DEF TypeInv, TypeOK
<1>3. prod' \in [Products -> RowType] /\ acct' \in [Users -> RowType]
  BY RowsStayRows DEF CommitRows, TypeInv, TypeOK
<1>a. /\ tx[r].orderId \in Nat /\ tx[r].total \in Nat
      /\ tx[r].priced \in Seq(LineType)
  BY <1>2 DEF TxType
<1>b. orders' \subseteq OrderType
  <2>1. [id |-> tx[r].orderId, user |-> call[r].user, total |-> tx[r].total,
         lines |-> tx[r].priced, by |-> r] \in OrderType
    BY <1>1, <1>a DEF OrderType
  <2>2. QED  BY <2>1 DEF CommitRows, TypeInv, TypeOK
<1>4. jobs' \subseteq Nat /\ outbox' \subseteq EventType
  <2>1. [orderId |-> tx[r].orderId, user |-> call[r].user,
         total |-> tx[r].total] \in EventType
    BY <1>1, <1>a DEF EventType
  <2>2. QED  BY <1>a, <2>1 DEF CommitRows, TypeInv, TypeOK
<1>5. keys' \subseteq KeyType
  BY <1>1, <1>2 DEF CommitRows, TypeInv, TypeOK, TxType, KeyType
<1>6. QED  BY <1>3, <1>b, <1>4, <1>5 DEF CommitRows, TypeInv, TypeOK

-----------------------------------------------------------------------------
(* A running call that moves on keeps its valid input. *)
LEMMA CallsKept ==
  ASSUME TypeInv, NEW r \in Requests, pc[r] \notin {"idle", "done"}, NEW x,
         pc' = [pc EXCEPT ![r] = x], call' = call,
         x \in {"find", "refind", "key"} => call[r].key # NoKey
  PROVE  CallsOK'
BY DEF TypeInv, TypeOK, CallsOK

(* The validation of a call keeps the types. *)
LEMMA CallStepTypes ==
  ASSUME TypeInv, NEW r \in Requests, Call(r) PROVE TypeInv'
<1>1. PICK in \in Inputs :
        /\ call' = [call EXCEPT ![r] = in]
        /\ \/ Finish(r, Answer("Invalid"))
           \/ /\ \A i \in DOMAIN in.items : in.items[i].quantity >= 1
              /\ IF in.key = NoKey
                 THEN Begin(r, 1)
                 ELSE pc' = [pc EXCEPT ![r] = "find"] /\ UNCHANGED tx
              /\ UNCHANGED answer
  BY DEF Call
<1>2. /\ call' \in [Requests -> Inputs \cup {NoInput}]
      /\ call'[r] = in /\ \A q \in Requests \ {r} : call'[q] = call[q]
  BY <1>1 DEF TypeInv, TypeOK
<1>3. UNCHANGED <<prod, acct, orders, jobs, outbox, keys, nextOrderId, faults>>
  BY DEF Call, db
<1>4. CASE Finish(r, Answer("Invalid"))
  <2>1. Answer("Invalid") \in AnswerType /\ NoTx \in TxType
    BY AnswerTypes, NoTxType DEF AnswerKinds
  <2>2. TypeOK'
    BY <1>2, <1>3, <1>4, <2>1 DEF TypeInv, TypeOK, Finish
  <2>3. CallsOK'
    BY <1>2, <1>4 DEF TypeInv, TypeOK, CallsOK, Finish
  <2>4. QED  BY <2>2, <2>3 DEF TypeInv
<1>5. CASE /\ \A i \in DOMAIN in.items : in.items[i].quantity >= 1
           /\ in.key = NoKey /\ Begin(r, 1) /\ UNCHANGED answer
  <2>1. NewTx(1) \in TxType
    BY NewTxTypes, BoundsAssumption
  <2>2. TypeOK'
    BY <1>2, <1>3, <1>5, <2>1 DEF TypeInv, TypeOK, Begin, TxStates
  <2>3. CallsOK'
    BY <1>2, <1>5 DEF TypeInv, TypeOK, CallsOK, Begin
  <2>4. QED  BY <2>2, <2>3 DEF TypeInv
<1>6. CASE /\ \A i \in DOMAIN in.items : in.items[i].quantity >= 1
           /\ in.key # NoKey
           /\ pc' = [pc EXCEPT ![r] = "find"] /\ UNCHANGED <<tx, answer>>
  <2>1. TypeOK'
    BY <1>2, <1>3, <1>6 DEF TypeInv, TypeOK
  <2>2. CallsOK'
    BY <1>2, <1>6 DEF TypeInv, TypeOK, CallsOK
  <2>3. QED  BY <2>1, <2>2 DEF TypeInv
<1>7. QED  BY <1>1, <1>4, <1>5, <1>6

(* Looking up a committed key keeps the types. *)
LEMMA FindStepTypes ==
  ASSUME TypeInv, NEW r \in Requests, FindCommitted(r) \/ FindAgain(r)
  PROVE  TypeInv'
<1>1. /\ pc[r] \in {"find", "refind"}
      /\ UNCHANGED <<prod, acct, orders, jobs, outbox, keys, nextOrderId,
                     call, faults>>
  BY DEF FindCommitted, FindAgain, db
<1>2. CASE Begin(r, 1) /\ UNCHANGED answer
  <2>1. NewTx(1) \in TxType
    BY NewTxTypes, BoundsAssumption
  <2>2. TypeOK'
    BY <1>1, <1>2, <2>1 DEF TypeInv, TypeOK, Begin, TxStates
  <2>3. CallsOK'
    BY <1>1, <1>2, CallsKept DEF Begin
  <2>4. QED  BY <2>2, <2>3 DEF TypeInv
<1>3. CASE \E a \in AnswerType : Finish(r, a)
  <2>1. TypeOK'
    BY <1>1, <1>3, NoTxType DEF TypeInv, TypeOK, Finish
  <2>2. CallsOK'
    BY <1>1, <1>3, CallsKept DEF Finish
  <2>3. QED  BY <2>1, <2>2 DEF TypeInv
<1>4. Answer("Error") \in AnswerType
  BY AnswerTypes DEF AnswerKinds
<1>5. QED
  BY <1>2, <1>3, <1>4, ReplayTypes DEF FindCommitted, FindAgain

(* A call that is refused rolls back to typed rows. *)
LEMMA ThrowStepTypes ==
  ASSUME TypeInv, NEW r \in Requests, pc[r] \notin {"idle", "done"},
         NEW kind \in AnswerKinds, Throw(r, kind),
         nextOrderId' \in Nat \ {0}, faults' \in 0..MaxFaults,
         UNCHANGED <<orders, jobs, outbox, keys, call>>
  PROVE  TypeInv'
<1>1. TypeOK'
  BY ThrowTypes DEF TypeInv, TypeOK
<1>2. CallsOK'
  BY CallsKept DEF Throw, Finish
<1>3. QED  BY <1>1, <1>2 DEF TypeInv

(* Reserving stock leaves no product below zero. *)
LEMMA UpdateProductTypes ==
  ASSUME TypeInv, NEW r \in Requests, UpdateProduct(r) PROVE TypeInv'
<1> DEFINE item(i) == call[r].items[i]
           line(i) == [index |-> i, productId |-> item(i).productId,
                       quantity |-> item(i).quantity,
                       unitPrice |-> Price[item(i).productId]]
<1>1. PICK i \in Pending(r) :
        /\ NextItem(r, i) /\ RowSells(r, item(i))
        /\ prod' = [prod EXCEPT ![item(i).productId] =
                      Write(@, r, Visible(@, r) - item(i).quantity)]
        /\ tx' = [tx EXCEPT ![r] = WithLine(@, line(i))]
        /\ pc' = [pc EXCEPT ![r] =
                    IF Pending(r) = {i} THEN "debit" ELSE "stock"]
  BY DEF UpdateProduct
<1>2. /\ pc[r] = "stock"
      /\ UNCHANGED <<acct, orders, jobs, outbox, keys, nextOrderId, call,
                     answer, faults>>
  BY DEF UpdateProduct
<1>3. /\ i \in Nat /\ item(i).productId \in Products
      /\ item(i).quantity \in Nat
  BY <1>2, ItemTypes DEF Pending
<1>4. Price[item(i).productId] \in Nat
  BY <1>3, DataAssumption
<1>5. prod' \in [Products -> RowType]
  <2>1. prod[item(i).productId] \in RowType
    BY <1>3 DEF TypeInv, TypeOK
  <2>2. Visible(prod[item(i).productId], r) - item(i).quantity \in Nat
    BY <1>1, <1>3, <2>1, RowsStayRows DEF RowSells
  <2>3. Write(prod[item(i).productId], r,
              Visible(prod[item(i).productId], r) - item(i).quantity)
          \in RowType
    BY <2>1, <2>2, RowsStayRows
  <2>4. QED  BY <1>1, <2>3 DEF TypeInv, TypeOK
<1>6. tx' \in [Requests -> TxType]
  <2>1. line(i) \in LineType
    BY <1>3, <1>4 DEF LineType
  <2>2. tx[r] \in TxType
    BY DEF TypeInv, TypeOK
  <2>3. WithLine(tx[r], line(i)) \in TxType
    <3> HIDE DEF line
    <3>1. Append(tx[r].priced, line(i)) \in Seq(LineType)
      BY <2>1, <2>2, AppendProperties DEF TxType
    <3>2. line(i).unitPrice * line(i).quantity \in Nat
      BY <2>1 DEF LineType
    <3>3. tx[r].total + line(i).unitPrice * line(i).quantity \in Nat
      BY <2>2, <3>2 DEF TxType
    <3>4. QED  BY <2>2, <3>1, <3>3 DEF TxType, WithLine
  <2>4. QED  BY <1>1, <2>3 DEF TypeInv, TypeOK
<1>7. TypeOK'
  BY <1>1, <1>2, <1>5, <1>6 DEF TypeInv, TypeOK, TxStates
<1>8. CallsOK'
  BY <1>1, <1>2, CallsKept
<1>9. QED  BY <1>7, <1>8 DEF TypeInv

(* A debit leaves no balance below zero. *)
LEMMA DebitTypes ==
  ASSUME TypeInv, NEW r \in Requests, DebitBalance(r) PROVE TypeInv'
<1>1. pc[r] = "debit" /\ call[r].user \in Users
  BY CallTypes DEF DebitBalance
<1>2. acct[call[r].user] \in RowType /\ tx[r].total \in Nat
  BY <1>1 DEF TypeInv, TypeOK, TxType
<1>3. Visible(acct[call[r].user], r) - tx[r].total \in Nat
  BY <1>2, RowsStayRows DEF DebitBalance
<1>4. acct' \in [Users -> RowType]
  <2>1. Write(acct[call[r].user], r,
              Visible(acct[call[r].user], r) - tx[r].total) \in RowType
    BY <1>2, <1>3, RowsStayRows
  <2>2. QED  BY <2>1 DEF DebitBalance, TypeInv, TypeOK
<1>5. TypeOK'
  BY <1>4 DEF DebitBalance, TypeInv, TypeOK, TxStates
<1>6. CallsOK'
  BY <1>1, CallsKept DEF DebitBalance
<1>7. QED  BY <1>5, <1>6 DEF TypeInv

(* The rows of an order are well typed. *)
LEMMA InsertOrderTypes ==
  ASSUME TypeInv, NEW r \in Requests, InsertOrderRows(r) PROVE TypeInv'
<1>1. /\ pc[r] = "insert" /\ nextOrderId' = nextOrderId + 1
      /\ UNCHANGED <<orders, jobs, outbox, keys, call, faults>>
  BY DEF InsertOrderRows
<1>2. nextOrderId' \in Nat \ {0} /\ faults' \in 0..MaxFaults
  BY <1>1 DEF TypeInv, TypeOK
<1>3. CASE Throw(r, "Error") \/ Throw(r, "OutboxWriteAborted")
  BY <1>1, <1>2, <1>3, ThrowStepTypes DEF AnswerKinds
<1>4. CASE /\ tx' = [tx EXCEPT ![r] = WithOrder(@, nextOrderId)]
           /\ pc' = [pc EXCEPT ![r] =
                       IF call[r].key = NoKey THEN "commit" ELSE "key"]
           /\ UNCHANGED <<prod, acct, answer>>
  <2>1. WithOrder(tx[r], nextOrderId) \in TxType
    BY DEF TypeInv, TypeOK, TxType, WithOrder
  <2>2. TypeOK'
    BY <1>1, <1>2, <1>4, <2>1 DEF TypeInv, TypeOK, TxStates
  <2>3. CallsOK'
    BY <1>1, <1>4, CallsKept
  <2>4. QED  BY <2>2, <2>3 DEF TypeInv
<1>5. QED  BY <1>3, <1>4 DEF InsertOrderRows

(* Inserting a key keeps the types. *)
LEMMA InsertKeyTypes ==
  ASSUME TypeInv, NEW r \in Requests, InsertKey(r) PROVE TypeInv'
<1>1. /\ pc[r] = "key" /\ call[r].key # NoKey
      /\ UNCHANGED <<orders, jobs, outbox, keys, nextOrderId, call, answer,
                     faults>>
  BY DEF InsertKey, TypeInv, CallsOK
<1>2. CASE /\ Rollback(r) /\ pc' = [pc EXCEPT ![r] = "refind"]
           /\ tx' = [tx EXCEPT ![r] = NoTx]
  <2>1. TypeOK'
    BY <1>1, <1>2, RollbackTypes, NoTxType DEF TypeInv, TypeOK
  <2>2. CallsOK'
    BY <1>1, <1>2, CallsKept
  <2>3. QED  BY <2>1, <2>2 DEF TypeInv
<1>3. CASE pc' = [pc EXCEPT ![r] = "commit"] /\ UNCHANGED <<prod, acct, tx>>
  <2>1. TypeOK'
    BY <1>1, <1>3 DEF TypeInv, TypeOK, TxStates
  <2>2. CallsOK'
    BY <1>1, <1>3, CallsKept
  <2>3. QED  BY <2>1, <2>2 DEF TypeInv
<1>4. QED  BY <1>2, <1>3 DEF InsertKey

(* A commit makes typed rows visible. *)
LEMMA CommitStepTypes ==
  ASSUME TypeInv, NEW r \in Requests, Commit(r) \/ CommitAckLost(r)
  PROVE  TypeInv'
<1>1. /\ pc[r] = "commit" /\ CommitRows(r) /\ UNCHANGED call
      /\ \E a \in AnswerType : Finish(r, a)
  BY AnswerTypes, FreshTypes DEF Commit, CommitAckLost, AnswerKinds
<1>2. faults' \in 0..MaxFaults
  BY BoundsAssumption DEF Commit, CommitAckLost, Fault, TypeInv, TypeOK
<1>3. TypeOK'
  BY <1>1, <1>2, CommitTypes, NoTxType DEF TypeInv, TypeOK, Finish
<1>4. CallsOK'
  BY <1>1, CallsKept DEF Finish
<1>5. QED  BY <1>3, <1>4 DEF TypeInv

(* A fault keeps the types. *)
LEMMA FaultTypes ==
  ASSUME TypeInv, NEW r \in Requests, RetryableFault(r) \/ FatalFault(r)
  PROVE  TypeInv'
<1>1. /\ pc[r] \notin {"idle", "done"} /\ Fault
      /\ UNCHANGED <<orders, jobs, outbox, keys, nextOrderId, call>>
  BY DEF RetryableFault, FatalFault, TxStates
<1>2. faults' \in 0..MaxFaults /\ nextOrderId' \in Nat \ {0}
  BY <1>1, BoundsAssumption DEF Fault, TypeInv, TypeOK
<1>3. CASE Throw(r, "Error")
  BY <1>1, <1>2, <1>3, ThrowStepTypes DEF AnswerKinds
<1>4. CASE /\ tx[r].attempt < MaxAttempts /\ Rollback(r)
           /\ Begin(r, tx[r].attempt + 1) /\ UNCHANGED answer
  <2>1. NewTx(tx[r].attempt + 1) \in TxType
    <3>1. tx[r].attempt \in 0..MaxAttempts
      BY DEF TypeInv, TypeOK, TxType
    <3>2. tx[r].attempt + 1 \in 0..MaxAttempts
      BY <1>4, <3>1, BoundsAssumption
    <3>3. QED  BY <3>2, NewTxTypes
  <2>2. TypeOK'
    BY <1>1, <1>2, <1>4, <2>1, RollbackTypes
    DEF TypeInv, TypeOK, Begin, TxStates
  <2>3. CallsOK'
    BY <1>1, <1>4, CallsKept DEF Begin
  <2>4. QED  BY <2>2, <2>3 DEF TypeInv
<1>5. QED  BY <1>3, <1>4 DEF RetryableFault, FatalFault

(* Every step keeps the types and the validity of running calls. *)
LEMMA StepTypes == TypeInv /\ [Next]_vars => TypeInv'
<1> SUFFICES ASSUME TypeInv, [Next]_vars PROVE TypeInv'
  OBVIOUS
<1>1. ASSUME NEW r \in Requests, OutOfStock(r) PROVE TypeInv'
  <2>1. nextOrderId' \in Nat \ {0} /\ faults' \in 0..MaxFaults
    BY <1>1 DEF OutOfStock, TypeInv, TypeOK
  <2>2. QED  BY <1>1, <2>1, ThrowStepTypes DEF OutOfStock, AnswerKinds
<1>2. ASSUME NEW r \in Requests, DebitRefused(r) PROVE TypeInv'
  <2>1. nextOrderId' \in Nat \ {0} /\ faults' \in 0..MaxFaults
    BY <1>2 DEF DebitRefused, TypeInv, TypeOK
  <2>2. QED  BY <1>2, <2>1, ThrowStepTypes DEF DebitRefused, AnswerKinds
<1>3. CASE UNCHANGED vars
  BY <1>3 DEF vars, TypeInv, TypeOK, CallsOK
<1>4. QED
  BY <1>1, <1>2, <1>3, CallStepTypes, FindStepTypes, UpdateProductTypes,
     DebitTypes, InsertOrderTypes, InsertKeyTypes, CommitStepTypes, FaultTypes
  DEF Next, Step, FaultStep, AllDone

(***************************************************************************)
(* In every behaviour of any number of concurrent checkouts the state is   *)
(* well typed: no stock and no balance is ever negative, committed or in a *)
(* transaction.                                                            *)
(***************************************************************************)
THEOREM TypeCorrect == Spec => []TypeOK
<1>1. Spec => []TypeInv
  BY InitTypes, StepTypes, PTL DEF Spec
<1>2. TypeInv => TypeOK
  BY DEF TypeInv
<1>3. QED  BY <1>1, <1>2, PTL

-----------------------------------------------------------------------------

(* The lines a transaction has priced are items of its call, and every     *)
(* item it has still to lock comes after them in the lock order.           *)
LinesOK ==
  \A r \in Requests : pc[r] \in TxStates =>
    \A n \in DOMAIN tx[r].priced :
      /\ tx[r].priced[n].index \in DOMAIN call[r].items
      /\ tx[r].priced[n].productId
           = call[r].items[tx[r].priced[n].index].productId
      /\ \A i \in Pending(r) :
           ItemBefore(call[r].items, tx[r].priced[n].index, i)

(* A transaction owns the rows of the lines it has priced, and its user.   *)
LocksOK ==
  \A r \in Requests :
    /\ \A p \in Products : prod[p].owner = r =>
         /\ pc[r] \in TxStates
         /\ \E n \in DOMAIN tx[r].priced : tx[r].priced[n].productId = p
    /\ \A u \in Users : acct[u].owner = r =>
         pc[r] \in {"insert", "key", "commit"} /\ u = call[r].user

(* The calls that hold an order id not yet committed *)
Holding(r) == pc[r] \in {"key", "commit"}

(* Order ids are never shared, by committed orders or by transactions, and *)
(* only a call that is over has left an order or an answer.                *)
IdsOK ==
  /\ \A o \in orders : /\ o.id < nextOrderId
                       /\ pc[o.by] = "done"
                       /\ o.user = call[o.by].user
  /\ \A r \in Requests : Holding(r) =>
       /\ tx[r].orderId < nextOrderId
       /\ \A o \in orders : o.id # tx[r].orderId
       /\ \A q \in Requests \ {r} :
            Holding(q) => tx[q].orderId # tx[r].orderId
  /\ \A r \in Requests : pc[r] # "done" => answer[r].kind = "none"

(* A key has one row, the row names the order of the call that inserted    *)
(* it, and a transaction about to commit a key is alone with it.           *)
KeysOK ==
  /\ \A k, l \in keys : k.user = l.user /\ k.key = l.key => k = l
  /\ \A k \in keys : \E o \in orders :
       /\ o.id = k.orderId /\ o.user = k.user
       /\ call[o.by].key = k.key /\ StoredHash(call[o.by]) = k.hash
  /\ \A o \in orders : call[o.by].key # NoKey => \E k \in keys :
       k.user = o.user /\ k.key = call[o.by].key /\ k.orderId = o.id
  /\ \A r \in Requests : pc[r] = "commit" /\ call[r].key # NoKey =>
       /\ \A k \in keys : k.user # call[r].user \/ k.key # call[r].key
       /\ \A q \in Requests \ {r} : ~SameKeyInFlight(q, r)

LocksInv == TypeInv /\ LinesOK /\ LocksOK
OrdersInv == TypeInv /\ IdsOK /\ OneOrderPerCall /\ OutboxMatchesOrders
KeysInv == OrdersInv /\ KeysOK /\ ReplayNamesFirstOrder

-----------------------------------------------------------------------------
(* Steps of call r touch nothing of another call. *)
OthersKept(r) ==
  \A q \in Requests \ {r} : /\ pc'[q] = pc[q] /\ call'[q] = call[q]
                            /\ tx'[q] = tx[q] /\ answer'[q] = answer[q]

(* A step of one call leaves the other calls alone. *)
LEMMA StepsKeepOthers ==
  ASSUME TypeOK, NEW r \in Requests, Call(r) \/ Step(r) \/ FaultStep(r)
  PROVE  OthersKept(r)
<1> USE DEF OthersKept, TypeOK, Finish, Begin, Throw
<1>1. CASE Call(r)
  BY <1>1 DEF Call
<1>2. CASE FindCommitted(r) \/ FindAgain(r)
  BY <1>2 DEF FindCommitted, FindAgain
<1>3. CASE UpdateProduct(r) \/ OutOfStock(r)
  BY <1>3 DEF UpdateProduct, OutOfStock
<1>4. CASE DebitBalance(r) \/ DebitRefused(r)
  BY <1>4 DEF DebitBalance, DebitRefused
<1>5. CASE InsertOrderRows(r) \/ InsertKey(r)
  BY <1>5 DEF InsertOrderRows, InsertKey
<1>6. CASE Commit(r) \/ CommitAckLost(r)
  BY <1>6 DEF Commit, CommitAckLost
<1>7. CASE RetryableFault(r) \/ FatalFault(r)
  BY <1>7 DEF RetryableFault, FatalFault
<1>8. QED
  BY <1>1, <1>2, <1>3, <1>4, <1>5, <1>6, <1>7 DEF Step, FaultStep

-----------------------------------------------------------------------------
(* r owns no row after the step, and no row changed hands. *)
Releases(r) ==
  /\ \A p \in Products : /\ prod'[p].owner # r
                         /\ prod'[p].owner \in {prod[p].owner, NoOne}
  /\ \A u \in Users : /\ acct'[u].owner # r
                      /\ acct'[u].owner \in {acct[u].owner, NoOne}

(* A rollback gives up every row lock of the call. *)
LEMMA RollbackReleases ==
  ASSUME NEW r \in Requests, Rollback(r) PROVE Releases(r)
BY NamesAssumption DEF Rollback, Releases, RollbackRow, Row

(* A commit gives up every row lock of the call. *)
LEMMA CommitReleases ==
  ASSUME NEW r \in Requests, CommitRows(r) PROVE Releases(r)
BY NamesAssumption DEF CommitRows, Releases, CommitRow, Row

(* Outside its transaction a call locks no row. *)
LEMMA IdleOwnsNothing ==
  ASSUME LocksInv, NEW r \in Requests, pc[r] \notin TxStates,
         UNCHANGED <<prod, acct>>
  PROVE  Releases(r)
BY DEF LocksInv, LocksOK, Releases, TxStates

(* A step that leaves r without rows and without lines keeps the order. *)
LEMMA ReleaseKeepsLocks ==
  ASSUME LocksInv, NEW r \in Requests, OthersKept(r), Releases(r),
         pc'[r] \in TxStates => tx'[r].priced = <<>>
  PROVE  LinesOK' /\ LocksOK'
<1>1. LinesOK'
  BY DEF LocksInv, LinesOK, OthersKept, Pending
<1>2. LocksOK'
  <2>1. ASSUME NEW q \in Requests, NEW p \in Products, prod'[p].owner = q
        PROVE  /\ pc'[q] \in TxStates
               /\ \E n \in DOMAIN tx'[q].priced :
                    tx'[q].priced[n].productId = p
    BY <2>1, NamesAssumption DEF LocksInv, LocksOK, OthersKept, Releases
  <2>2. ASSUME NEW q \in Requests, NEW u \in Users, acct'[u].owner = q
        PROVE  pc'[q] \in {"insert", "key", "commit"} /\ u = call'[q].user
    BY <2>2, NamesAssumption DEF LocksInv, LocksOK, OthersKept, Releases
  <2>3. QED  BY <2>1, <2>2 DEF LocksOK
<1>3. QED  BY <1>1, <1>2

(* A step that changes no product row and no line keeps the order. *)
LEMMA QuietKeepsLocks ==
  ASSUME LocksInv, NEW r \in Requests, OthersKept(r), UNCHANGED <<prod, call>>,
         tx'[r].priced = tx[r].priced,
         pc[r] \in TxStates, pc'[r] \in {"insert", "key", "commit"},
         \A u \in Users : acct'[u].owner # acct[u].owner =>
                           acct'[u].owner = r /\ u = call[r].user
  PROVE  LinesOK' /\ LocksOK'
<1>1. LinesOK'
  BY DEF LocksInv, LinesOK, OthersKept, Pending
<1>2. LocksOK'
  BY DEF LocksInv, LocksOK, OthersKept, TxStates
<1>3. QED  BY <1>1, <1>2

(* A product row is locked after those of smaller id. *)
LEMMA UpdateProductLocks ==
  ASSUME LocksInv, NEW r \in Requests, UpdateProduct(r), OthersKept(r)
  PROVE  LinesOK' /\ LocksOK'
<1> DEFINE item(i) == call[r].items[i]
           line(i) == [index |-> i, productId |-> item(i).productId,
                       quantity |-> item(i).quantity,
                       unitPrice |-> Price[item(i).productId]]
<1>1. PICK i \in Pending(r) :
        /\ NextItem(r, i)
        /\ Lockable(prod[item(i).productId], r)
        /\ prod' = [prod EXCEPT ![item(i).productId] =
                      Write(@, r, Visible(@, r) - item(i).quantity)]
        /\ tx' = [tx EXCEPT ![r] = WithLine(@, line(i))]
        /\ pc' = [pc EXCEPT ![r] =
                    IF Pending(r) = {i} THEN "debit" ELSE "stock"]
  BY DEF UpdateProduct
<1>2. /\ pc[r] = "stock" /\ UNCHANGED <<acct, call>>
      /\ pc'[r] \in {"stock", "debit"}
  BY <1>1 DEF UpdateProduct, LocksInv, TypeInv, TypeOK
<1>3. i \in DOMAIN call[r].items /\ item(i).productId \in Products
  BY <1>2, ItemTypes DEF Pending, LocksInv
<1>4. /\ tx[r].priced \in Seq(LineType)
      /\ tx'[r].priced = Append(tx[r].priced, line(i))
  BY <1>1 DEF LocksInv, TypeInv, TypeOK, TxType, WithLine
<1>5. /\ DOMAIN tx[r].priced = 1..Len(tx[r].priced)
      /\ Len(tx[r].priced) \in Nat
      /\ DOMAIN tx'[r].priced = 1..(Len(tx[r].priced) + 1)
      /\ \A n \in 1..Len(tx[r].priced) : tx'[r].priced[n] = tx[r].priced[n]
      /\ tx'[r].priced[Len(tx[r].priced) + 1] = line(i)
  BY <1>4
<1>6. \A j \in Pending(r)' : j \in Pending(r) /\ j # i
  <2> SUFFICES ASSUME NEW j \in Pending(r)' PROVE j \in Pending(r) /\ j # i
    OBVIOUS
  <2>1. /\ j \in DOMAIN call[r].items
        /\ \A n \in DOMAIN tx'[r].priced : tx'[r].priced[n].index # j
    BY <1>2 DEF Pending
  <2>2. \A n \in DOMAIN tx[r].priced : tx[r].priced[n].index # j
    BY <1>5, <2>1
  <2>3. tx'[r].priced[Len(tx[r].priced) + 1].index # j
    BY <1>5, <2>1
  <2>4. line(i).index = i
    OBVIOUS
  <2>5. QED  BY <1>5, <2>1, <2>2, <2>3, <2>4 DEF Pending
<1>7. LinesOK'
  <2>1. ASSUME NEW q \in Requests \ {r}, pc'[q] \in TxStates,
               NEW n \in DOMAIN tx'[q].priced
        PROVE  /\ tx'[q].priced[n].index \in DOMAIN call'[q].items
               /\ tx'[q].priced[n].productId
                    = call'[q].items[tx'[q].priced[n].index].productId
               /\ \A j \in Pending(q)' :
                    ItemBefore(call'[q].items, tx'[q].priced[n].index, j)
    BY <2>1 DEF LocksInv, LinesOK, OthersKept, Pending
  <2>2. ASSUME NEW n \in DOMAIN tx'[r].priced
        PROVE  /\ tx'[r].priced[n].index \in DOMAIN call'[r].items
               /\ tx'[r].priced[n].productId
                    = call'[r].items[tx'[r].priced[n].index].productId
               /\ \A j \in Pending(r)' :
                    ItemBefore(call'[r].items, tx'[r].priced[n].index, j)
    <3>1. CASE n \in 1..Len(tx[r].priced)
      <4>1. tx'[r].priced[n] = tx[r].priced[n] /\ n \in DOMAIN tx[r].priced
        BY <1>5, <3>1
      <4>2. QED
        BY <1>2, <1>6, <4>1 DEF LocksInv, LinesOK, TxStates
    <3>2. CASE n = Len(tx[r].priced) + 1
      <4>1. tx'[r].priced[n].index = i
            /\ tx'[r].priced[n].productId = item(i).productId
        BY <1>5, <3>2
      <4>2. QED
        BY <1>1, <1>2, <1>3, <1>6, <4>1 DEF NextItem
    <3>3. QED  BY <1>5, <2>2, <3>1, <3>2
  <2>3. QED  BY <2>1, <2>2 DEF LinesOK
<1>8. LocksOK'
  <2>1. ASSUME NEW q \in Requests, NEW p \in Products, prod'[p].owner = q
        PROVE  /\ pc'[q] \in TxStates
               /\ \E n \in DOMAIN tx'[q].priced :
                    tx'[q].priced[n].productId = p
    <3>1. CASE p = item(i).productId
      <4>1. prod'[p].owner = r
        BY <1>1, <1>3, <3>1 DEF Write, LocksInv, TypeInv, TypeOK, RowType
      <4>2. tx'[r].priced[Len(tx[r].priced) + 1].productId = p
            /\ Len(tx[r].priced) + 1 \in DOMAIN tx'[r].priced
        BY <1>5, <3>1
      <4>3. QED  BY <1>2, <2>1, <4>1, <4>2 DEF TxStates
    <3>2. CASE p # item(i).productId
      <4>1. prod[p].owner = q
        BY <1>1, <2>1, <3>2 DEF LocksInv, TypeInv, TypeOK
      <4>2. /\ pc[q] \in TxStates
            /\ \E n \in DOMAIN tx[q].priced : tx[q].priced[n].productId = p
        BY <4>1 DEF LocksInv, LocksOK
      <4>3. CASE q = r
        BY <1>2, <1>5, <4>2, <4>3 DEF TxStates
      <4>4. CASE q # r
        BY <4>2, <4>4 DEF OthersKept
      <4>5. QED  BY <4>3, <4>4
    <3>3. QED  BY <3>1, <3>2
  <2>2. ASSUME NEW q \in Requests, NEW u \in Users, acct'[u].owner = q
        PROVE  pc'[q] \in {"insert", "key", "commit"} /\ u = call'[q].user
    BY <1>2, <2>2 DEF LocksInv, LocksOK, OthersKept
  <2>3. QED  BY <2>1, <2>2 DEF LocksOK
<1>9. QED  BY <1>7, <1>8

(* LocksInv holds at the start. *)
LEMMA LocksInit == Init => LocksInv
<1> SUFFICES ASSUME Init PROVE LocksInv
  OBVIOUS
<1>1. TypeInv
  BY InitTypes
<1>2. LinesOK
  BY DEF Init, LinesOK, TxStates
<1>3. LocksOK
  BY NamesAssumption DEF Init, LocksOK, Row
<1>4. QED  BY <1>1, <1>2, <1>3 DEF LocksInv

(* Every step preserves LocksInv. *)
LEMMA LocksStep == LocksInv /\ [Next]_vars => LocksInv'
<1> SUFFICES ASSUME LocksInv, [Next]_vars PROVE LocksInv'
  OBVIOUS
<1>1. TypeInv' /\ TypeOK
  BY StepTypes DEF LocksInv, TypeInv
<1>2. ASSUME NEW r \in Requests, Call(r) \/ Step(r) \/ FaultStep(r)
      PROVE  LinesOK' /\ LocksOK'
  <2>1. OthersKept(r)
    BY <1>1, <1>2, StepsKeepOthers
  <2>2. pc' \in [Requests -> TxStates \cup {"idle", "find", "refind", "done"}]
        /\ DOMAIN pc = Requests /\ DOMAIN tx = Requests
    BY <1>1 DEF TypeInv, TypeOK
  <2> USE DEF TxStates
  <2>3. CASE Call(r)
    <3>1. pc[r] \notin TxStates /\ UNCHANGED <<prod, acct>>
      BY <2>3 DEF Call, db
    <3>2. pc'[r] \in TxStates => tx'[r].priced = <<>>
      BY <2>2, <2>3 DEF Call, Finish, Begin, NewTx
    <3>3. QED  BY <2>1, <3>1, <3>2, IdleOwnsNothing, ReleaseKeepsLocks
  <2>4. CASE FindCommitted(r) \/ FindAgain(r)
    <3>1. pc[r] \notin TxStates /\ UNCHANGED <<prod, acct>>
      BY <2>4 DEF FindCommitted, FindAgain, db
    <3>2. pc'[r] \in TxStates => tx'[r].priced = <<>>
      BY <2>2, <2>4 DEF FindCommitted, FindAgain, Finish, Begin, NewTx
    <3>3. QED  BY <2>1, <3>1, <3>2, IdleOwnsNothing, ReleaseKeepsLocks
  <2>5. CASE UpdateProduct(r)
    BY <2>1, <2>5, UpdateProductLocks
  <2>6. CASE \E kind : Throw(r, kind)
    <3>1. Releases(r)
      BY <2>6, RollbackReleases DEF Throw
    <3>2. pc'[r] = "done"
      BY <2>2, <2>6 DEF Throw, Finish
    <3>3. QED  BY <2>1, <3>1, <3>2, ReleaseKeepsLocks
  <2>7. CASE DebitBalance(r)
    <3>1. \A u \in Users : acct'[u].owner # acct[u].owner =>
                            acct'[u].owner = r /\ u = call[r].user
      <4>1. PICK v : acct' = [acct EXCEPT ![call[r].user] =
                                Write(acct[call[r].user], r, v)]
        BY <2>7 DEF DebitBalance
      <4>2. acct \in [Users -> RowType] /\ call[r].user \in Users
        BY <1>1, <2>7, CallTypes DEF TypeOK, LocksInv, DebitBalance
      <4>3. Write(acct[call[r].user], r, v).owner = r
        BY <4>2 DEF Write, RowType
      <4>4. QED  BY <4>1, <4>2, <4>3
    <3>2. /\ pc[r] \in TxStates /\ pc'[r] = "insert" /\ UNCHANGED <<prod, call>>
          /\ tx'[r].priced = tx[r].priced
      BY <2>2, <2>7 DEF DebitBalance
    <3>3. QED  BY <2>1, <3>1, <3>2, QuietKeepsLocks
  <2>8. CASE InsertOrderRows(r) /\ UNCHANGED <<prod, acct, answer>>
             /\ tx' = [tx EXCEPT ![r] = WithOrder(@, nextOrderId)]
             /\ pc' = [pc EXCEPT ![r] =
                         IF call[r].key = NoKey THEN "commit" ELSE "key"]
    <3>1. /\ pc[r] \in TxStates /\ pc'[r] \in {"key", "commit"}
          /\ UNCHANGED <<prod, call>> /\ tx'[r].priced = tx[r].priced
      BY <2>2, <2>8 DEF InsertOrderRows, WithOrder
    <3>2. QED  BY <2>1, <2>8, <3>1, QuietKeepsLocks
  <2>9. CASE InsertKey(r)
    <3>1. CASE /\ Rollback(r) /\ pc' = [pc EXCEPT ![r] = "refind"]
      <4>1. Releases(r) /\ pc'[r] = "refind"
        BY <2>2, <3>1, RollbackReleases
      <4>2. QED  BY <2>1, <4>1, ReleaseKeepsLocks
    <3>2. CASE pc' = [pc EXCEPT ![r] = "commit"] /\ UNCHANGED <<prod, acct, tx>>
      <4>1. pc[r] \in TxStates /\ pc'[r] = "commit" /\ UNCHANGED call
        BY <2>2, <2>9, <3>2 DEF InsertKey
      <4>2. QED  BY <2>1, <3>2, <4>1, QuietKeepsLocks
    <3>3. QED  BY <2>9, <3>1, <3>2 DEF InsertKey
  <2>10. CASE Commit(r) \/ CommitAckLost(r)
    <3>1. Releases(r)
      BY <2>10, CommitReleases DEF Commit, CommitAckLost
    <3>2. pc'[r] = "done"
      BY <2>2, <2>10 DEF Commit, CommitAckLost, Finish
    <3>3. QED  BY <2>1, <3>1, <3>2, ReleaseKeepsLocks
  <2>11. CASE Rollback(r) /\ \E n : Begin(r, n)
    <3>1. Releases(r) /\ tx'[r].priced = <<>>
      BY <2>2, <2>11, RollbackReleases DEF Begin, NewTx
    <3>2. QED  BY <2>1, <3>1, ReleaseKeepsLocks
  <2>12. QED
    BY <1>2, <2>3, <2>4, <2>5, <2>6, <2>7, <2>8, <2>9, <2>10, <2>11
    DEF Step, FaultStep, OutOfStock, DebitRefused, InsertOrderRows,
        RetryableFault, FatalFault
<1>3. CASE UNCHANGED vars
  BY <1>3 DEF vars, LocksInv, TypeInv, TypeOK, CallsOK, LinesOK, LocksOK,
              Pending
<1>4. QED
  BY <1>1, <1>2, <1>3 DEF Next, AllDone, LocksInv

(* LocksInv holds in every reachable state. *)
LEMMA LocksAlways == Spec => []LocksInv
BY LocksInit, LocksStep, PTL DEF Spec

(* The rows a call owns come before those it has still to lock. *)
LEMMA LocksOrdered == LocksInv => LocksInOrder
<1> SUFFICES ASSUME LocksInv, NEW r \in Requests, pc[r] = "stock",
                    NEW p \in Products, NEW i \in Pending(r),
                    prod[p].owner = r
             PROVE  p <= call[r].items[i].productId
  BY DEF LocksInv, LocksOK, LocksInOrder
<1>1. PICK n \in DOMAIN tx[r].priced : tx[r].priced[n].productId = p
  BY DEF LocksInv, LocksOK
<1>2. /\ p = call[r].items[tx[r].priced[n].index].productId
      /\ ItemBefore(call[r].items, tx[r].priced[n].index, i)
  BY <1>1 DEF LocksInv, LinesOK, TxStates
<1>3. call[r].items[i].productId \in Nat /\ p \in Nat
  BY ItemTypes, NamesAssumption DEF LocksInv, Pending
<1>4. \/ p < call[r].items[i].productId
      \/ p = call[r].items[i].productId
  BY <1>2 DEF ItemBefore
<1>5. QED  BY <1>3, <1>4

(***************************************************************************)
(* Whatever the inputs, a call that waits for a product row owns only      *)
(* product rows that come before it and no user row: itemsInLockOrder      *)
(* gives all checkouts one global lock order.                              *)
(***************************************************************************)
THEOREM LocksAreOrdered == Spec => []LocksInOrder
BY LocksAlways, LocksOrdered, PTL

(* Call r waits for the row of product p, which another call of S owns. *)
WaitsForProduct(r, p, S) ==
  /\ pc[r] = "stock"
  /\ \E i \in Pending(r) : call[r].items[i].productId = p
  /\ \E q \in S \ {r} : prod[p].owner = q

(***************************************************************************)
(* A finite set of calls in which each waits for another would wait for    *)
(* product rows only: a call that owns a user row or a key waits for no    *)
(* call that waits.  The call that waits for the greatest product then     *)
(* waits for an owner that waits for a greater one.                        *)
(***************************************************************************)
LEMMA OrderMeansNoCycle == LocksInv => NoWaitCycle
<1> SUFFICES ASSUME LocksInv, NEW S \in SUBSET Requests, IsFiniteSet(S),
                    S # {}, \A r \in S : \E q \in S \ {r} : WaitsFor(r, q)
             PROVE  FALSE
  BY DEF NoWaitCycle
<1>1. \A r \in S : pc[r] \in {"stock", "debit", "key"}
  BY DEF WaitsFor
<1>2. \A r \in S : pc[r] # "key"
  BY <1>1 DEF WaitsFor, SameKeyInFlight
<1>3. \A r \in S : pc[r] # "debit"
  <2> SUFFICES ASSUME NEW r \in S, pc[r] = "debit" PROVE FALSE
    OBVIOUS
  <2>1. PICK q \in S : acct[call[r].user].owner = q
    BY DEF WaitsFor
  <2>2. call[r].user \in Users
    BY CallTypes DEF LocksInv
  <2>3. pc[q] \in {"insert", "key", "commit"}
    BY <2>1, <2>2 DEF LocksInv, LocksOK
  <2>4. QED  BY <1>1, <1>2, <2>3
<1>4. ASSUME NEW r \in S PROVE \E p \in Products : WaitsForProduct(r, p, S)
  <2>1. pc[r] = "stock"
    BY <1>1, <1>2, <1>3
  <2>2. PICK q \in S \ {r}, i \in Pending(r) :
          prod[call[r].items[i].productId].owner = q
    BY <2>1 DEF WaitsFor
  <2>3. call[r].items[i].productId \in Products
    BY <2>1, ItemTypes DEF LocksInv, Pending
  <2>4. QED  BY <2>1, <2>2, <2>3 DEF WaitsForProduct
<1> DEFINE f == [r \in S |-> CHOOSE p \in Products : WaitsForProduct(r, p, S)]
           T == {f[r] : r \in S}
<1>5. \A r \in S : f[r] \in Products /\ WaitsForProduct(r, f[r], S)
  BY <1>4
<1>6. T \subseteq Nat /\ T # {}
  BY <1>5, NamesAssumption
<1>7. IsFiniteSet(T)
  <2>1. f \in Surjection(S, T)
    BY DEF Surjection
  <2> HIDE DEF f, T
  <2>2. QED  BY <2>1, FS_Surjection
<1>8. PICK p \in T : \A y \in T : y <= p
  <2> HIDE DEF f, T
  <2>1. QED  BY <1>6, <1>7, GreatestNatural
<1>9. PICK r \in S : p = f[r]
  OBVIOUS
<1> HIDE DEF f, T
<1>10. PICK q \in S \ {r} : prod[p].owner = q
  BY <1>5, <1>9 DEF WaitsForProduct
<1>11. f[q] <= p
  BY <1>8, <1>10 DEF T
<1>12. /\ f[q] \in Products /\ pc[q] = "stock" /\ prod[f[q]].owner # q
       /\ \E i \in Pending(q) : call[q].items[i].productId = f[q]
  BY <1>5, <1>10 DEF WaitsForProduct
<1>13. p \in Products /\ p <= f[q]
  BY <1>5, <1>9, <1>10, <1>12, LocksOrdered DEF LocksInOrder
<1>14. p = f[q]
  BY <1>11, <1>12, <1>13, NamesAssumption
<1>15. QED  BY <1>10, <1>12, <1>14

(***************************************************************************)
(* Checkouts do not deadlock on each other, whatever products they buy in  *)
(* whatever order: PostgreSQL has no 40P01 to answer them with.            *)
(***************************************************************************)
THEOREM CheckoutsDoNotDeadlock == Spec => []NoWaitCycle
BY LocksAlways, OrderMeansNoCycle, PTL

-----------------------------------------------------------------------------
(* A step of r that commits nothing, and holds at most the id it held or a *)
(* new one of the sequence *)
NoNewOrder(r) ==
  /\ UNCHANGED <<orders, jobs, outbox>>
  /\ nextOrderId' \in Nat /\ nextOrderId' >= nextOrderId
  /\ Holding(r)' =>
       \/ Holding(r) /\ tx'[r].orderId = tx[r].orderId
       \/ tx'[r].orderId = nextOrderId /\ nextOrderId' = nextOrderId + 1
  /\ answer'[r].kind # "fresh"
  /\ pc'[r] # "done" => answer'[r].kind = "none"

(* A step that shows no order leaves order ids fresh. *)
LEMMA NoNewOrderKeepsIds ==
  ASSUME OrdersInv, NEW r \in Requests, OthersKept(r), NoNewOrder(r),
         pc[r] # "done"
  PROVE  IdsOK' /\ OneOrderPerCall' /\ OutboxMatchesOrders'
<1>1. /\ nextOrderId \in Nat /\ orders \subseteq OrderType
      /\ \A q \in Requests : tx[q].orderId \in Nat
  BY DEF OrdersInv, TypeInv, TypeOK, TxType
<1>2. \A o \in orders : /\ o.id \in Nat /\ o.by \in Requests \ {r}
                        /\ o.id < nextOrderId
  BY <1>1 DEF OrdersInv, IdsOK, OrderType
<1>3. IdsOK'
  <2>1. \A o \in orders' : /\ o.id < nextOrderId' /\ pc'[o.by] = "done"
                           /\ o.user = call'[o.by].user
    BY <1>1, <1>2 DEF OrdersInv, IdsOK, OthersKept, NoNewOrder
  <2>2. ASSUME NEW q \in Requests, Holding(q)'
        PROVE  /\ tx'[q].orderId < nextOrderId'
               /\ \A o \in orders' : o.id # tx'[q].orderId
    <3>1. CASE q # r
      BY <1>1, <2>2, <3>1 DEF OrdersInv, IdsOK, OthersKept, NoNewOrder, Holding
    <3>2. CASE q = r
      BY <1>1, <1>2, <2>2, <3>2 DEF OrdersInv, IdsOK, NoNewOrder
    <3>3. QED  BY <3>1, <3>2
  <2>3. ASSUME NEW q \in Requests, NEW q2 \in Requests \ {q},
               Holding(q)', Holding(q2)'
        PROVE  tx'[q2].orderId # tx'[q].orderId
    <3>1. CASE q # r /\ q2 # r
      BY <2>3, <3>1 DEF OrdersInv, IdsOK, OthersKept, Holding
    <3>2. CASE q = r
      BY <1>1, <2>3, <3>2
      DEF OrdersInv, IdsOK, OthersKept, NoNewOrder, Holding
    <3>3. CASE q2 = r
      BY <1>1, <2>3, <3>3
      DEF OrdersInv, IdsOK, OthersKept, NoNewOrder, Holding
    <3>4. QED  BY <3>1, <3>2, <3>3
  <2>4. \A q \in Requests : pc'[q] # "done" => answer'[q].kind = "none"
    BY DEF OrdersInv, IdsOK, OthersKept, NoNewOrder
  <2>5. QED  BY <2>1, <2>2, <2>3, <2>4 DEF IdsOK
<1>4. OneOrderPerCall'
  BY DEF OrdersInv, OneOrderPerCall, OthersKept, NoNewOrder
<1>5. OutboxMatchesOrders'
  BY DEF OrdersInv, OutboxMatchesOrders, NoNewOrder
<1>6. QED  BY <1>3, <1>4, <1>5

(* COMMIT adds one order with an id of its own, its job and its event. *)
LEMMA CommitKeepsIds ==
  ASSUME OrdersInv, NEW r \in Requests, OthersKept(r), pc[r] = "commit",
         CommitRows(r), UNCHANGED call, NEW a, Finish(r, a),
         a = FreshAnswer(r) \/ a = Answer("Error")
  PROVE  IdsOK' /\ OneOrderPerCall' /\ OutboxMatchesOrders'
<1> DEFINE o1 == [id |-> tx[r].orderId, user |-> call[r].user,
                  total |-> tx[r].total, lines |-> tx[r].priced, by |-> r]
<1>1. /\ orders' = orders \cup {o1} /\ jobs' = jobs \cup {tx[r].orderId}
      /\ outbox' = outbox \cup {[orderId |-> tx[r].orderId,
                                 user |-> call[r].user,
                                 total |-> tx[r].total]}
      /\ nextOrderId' = nextOrderId
  BY DEF CommitRows
<1>2. pc'[r] = "done" /\ answer'[r] = a
  BY DEF Finish, OrdersInv, TypeInv, TypeOK
<1>3. /\ tx[r].orderId < nextOrderId
      /\ \A o \in orders : o.id # tx[r].orderId /\ o.by # r
      /\ \A q \in Requests \ {r} : Holding(q) => tx[q].orderId # tx[r].orderId
  BY DEF OrdersInv, IdsOK, Holding
<1>4. \A o \in orders : o.by \in Requests \ {r}
  BY <1>3 DEF OrdersInv, TypeInv, TypeOK, OrderType
<1>5. IdsOK'
  <2>1. \A o \in orders' : /\ o.id < nextOrderId' /\ pc'[o.by] = "done"
                           /\ o.user = call'[o.by].user
    <3>1. ASSUME NEW o \in orders
          PROVE  /\ o.id < nextOrderId' /\ pc'[o.by] = "done"
                 /\ o.user = call'[o.by].user
      BY <1>1, <1>4, <3>1 DEF OrdersInv, IdsOK, OthersKept
    <3>2. /\ o1.id < nextOrderId' /\ pc'[o1.by] = "done"
          /\ o1.user = call'[o1.by].user
      BY <1>1, <1>2, <1>3
    <3>3. QED  BY <1>1, <3>1, <3>2
  <2>2. ASSUME NEW q \in Requests, Holding(q)'
        PROVE  /\ tx'[q].orderId < nextOrderId'
               /\ \A o \in orders' : o.id # tx'[q].orderId
               /\ \A q2 \in Requests \ {q} :
                    Holding(q2)' => tx'[q2].orderId # tx'[q].orderId
    <3>1. q # r /\ Holding(q) /\ tx'[q] = tx[q]
      BY <1>2, <2>2 DEF Holding, OthersKept
    <3>2. \A q2 \in Requests : Holding(q2)' =>
             q2 # r /\ Holding(q2) /\ tx'[q2] = tx[q2]
      BY <1>2 DEF Holding, OthersKept
    <3>3. o1.id # tx[q].orderId
      BY <1>3, <3>1
    <3>4. QED  BY <1>1, <3>1, <3>2, <3>3 DEF OrdersInv, IdsOK
  <2>3. \A q \in Requests : pc'[q] # "done" => answer'[q].kind = "none"
    BY <1>2 DEF OrdersInv, IdsOK, OthersKept
  <2>4. QED  BY <2>1, <2>2, <2>3 DEF IdsOK
<1>6. OneOrderPerCall'
  <2>1. ASSUME NEW o2 \in orders', NEW o3 \in orders', o2.by = o3.by
        PROVE  o2 = o3
    BY <1>1, <1>3, <2>1 DEF OrdersInv, OneOrderPerCall
  <2>2. ASSUME NEW q \in Requests, answer'[q].kind = "fresh"
        PROVE  \E o \in orders' : /\ o.by = q /\ o.id = answer'[q].orderId
                                  /\ o.total = answer'[q].total
    <3>1. CASE q = r
      <4>1. a = FreshAnswer(r)
        BY <1>2, <2>2, <3>1 DEF Answer
      <4>2. a.orderId = o1.id /\ a.total = o1.total
        BY <4>1 DEF FreshAnswer
      <4>3. QED  BY <1>1, <1>2, <3>1, <4>2
    <3>2. CASE q # r
      BY <1>1, <2>2, <3>2 DEF OrdersInv, OneOrderPerCall, OthersKept
    <3>3. QED  BY <3>1, <3>2
  <2>3. QED  BY <2>1, <2>2 DEF OneOrderPerCall
<1>7. OutboxMatchesOrders'
  <2> DEFINE event(o) == [orderId |-> o.id, user |-> o.user,
                          total |-> o.total]
             id(o) == o.id
  <2>a. outbox = {event(o) : o \in orders} /\ jobs = {id(o) : o \in orders}
    BY DEF OrdersInv, OutboxMatchesOrders
  <2>b. outbox' = outbox \cup {event(o1)} /\ jobs' = jobs \cup {id(o1)}
    BY <1>1
  <2>c. /\ outbox' = {event(o) : o \in orders'}
        /\ jobs' = {id(o) : o \in orders'}
    <3> HIDE DEF event, id, o1
    <3>1. outbox' = {event(o) : o \in orders'}
      BY <1>1, <2>a, <2>b
    <3>2. jobs' = {id(o) : o \in orders'}
      BY <1>1, <2>a, <2>b
    <3>3. QED  BY <3>1, <3>2
  <2>3. \A o2, o3 \in orders' : o2.id = o3.id => o2 = o3
    BY <1>1, <1>3 DEF OrdersInv, OutboxMatchesOrders
  <2>4. QED  BY <2>c, <2>3 DEF OutboxMatchesOrders
<1>8. QED  BY <1>5, <1>6, <1>7

(* The two ways a call can commit *)
CommitsWith(r, a) ==
  /\ pc[r] = "commit" /\ CommitRows(r) /\ UNCHANGED call /\ Finish(r, a)
  /\ a = FreshAnswer(r) \/ a = Answer("Error")

(* A step commits an order, or adds none. *)
LEMMA StepCommitsOrNot ==
  ASSUME OrdersInv, NEW r \in Requests, Call(r) \/ Step(r) \/ FaultStep(r)
  PROVE  /\ pc[r] # "done"
         /\ \/ \E a : CommitsWith(r, a)
            \/ NoNewOrder(r) /\ UNCHANGED keys
<1>1. /\ nextOrderId \in Nat /\ DOMAIN pc = Requests /\ DOMAIN tx = Requests
      /\ DOMAIN answer = Requests
  BY DEF OrdersInv, TypeInv, TypeOK
<1>2. pc[r] # "done" => answer[r].kind = "none"
  BY DEF OrdersInv, IdsOK
<1>3. CASE Commit(r) \/ CommitAckLost(r)
  BY <1>3 DEF Commit, CommitAckLost, CommitsWith
<1>4. ASSUME NEW kind, kind # "fresh", Throw(r, kind), pc[r] # "done",
             UNCHANGED <<orders, jobs, outbox, keys>>,
             nextOrderId' \in {nextOrderId, nextOrderId + 1}
      PROVE  NoNewOrder(r)
  BY <1>1, <1>4 DEF NoNewOrder, Throw, Finish, Answer, Holding
<1>5. CASE Call(r)
  BY <1>1, <1>2, <1>5
  DEF Call, db, NoNewOrder, Holding, Finish, Begin, Answer
<1>6. CASE FindCommitted(r) \/ FindAgain(r)
  <2>1. \A ko \in Found(call[r]) :
          ReplayAnswer(ko[1], ko[2], call[r]).kind # "fresh"
    BY DEF ReplayAnswer, Answer
  <2>2. Answer("Error").kind # "fresh"
    BY DEF Answer
  <2>3. QED
    BY <1>1, <1>2, <1>6, <2>1, <2>2
    DEF FindCommitted, FindAgain, db, NoNewOrder, Holding, Finish, Begin
<1>7. CASE UpdateProduct(r) \/ DebitBalance(r)
  <2>1. /\ pc[r] # "done" /\ UNCHANGED <<orders, jobs, outbox, keys,
                                         nextOrderId, answer>>
    BY <1>7 DEF UpdateProduct, DebitBalance
  <2>2. pc'[r] \in {"stock", "debit", "insert"}
    <3>1. CASE UpdateProduct(r)
      <4>1. \E i : pc' = [pc EXCEPT ![r] =
                            IF Pending(r) = {i} THEN "debit" ELSE "stock"]
        BY <3>1 DEF UpdateProduct
      <4>2. QED  BY <1>1, <4>1
    <3>2. CASE DebitBalance(r)
      BY <1>1, <3>2 DEF DebitBalance
    <3>3. QED  BY <1>7, <3>1, <3>2
  <2>3. QED  BY <1>1, <1>2, <2>1, <2>2 DEF NoNewOrder, Holding
<1>8. CASE OutOfStock(r) \/ DebitRefused(r)
  BY <1>1, <1>4, <1>8 DEF OutOfStock, DebitRefused
<1>9. CASE InsertOrderRows(r)
  <2>1. /\ pc[r] # "done" /\ nextOrderId' = nextOrderId + 1
        /\ UNCHANGED <<orders, jobs, outbox, keys>>
    BY <1>9 DEF InsertOrderRows
  <2>2. CASE Throw(r, "Error") \/ Throw(r, "OutboxWriteAborted")
    BY <1>1, <1>4, <2>1, <2>2
  <2>3. CASE tx' = [tx EXCEPT ![r] = WithOrder(@, nextOrderId)]
             /\ UNCHANGED answer
    <3>1. tx'[r].orderId = nextOrderId
      BY <1>1, <2>3 DEF WithOrder
    <3>2. QED  BY <1>1, <1>2, <2>1, <2>3, <3>1 DEF NoNewOrder
  <2>4. QED  BY <1>9, <2>2, <2>3 DEF InsertOrderRows
<1>10. CASE InsertKey(r)
  BY <1>1, <1>2, <1>10 DEF InsertKey, NoNewOrder, Holding
<1>11. CASE RetryableFault(r) \/ FatalFault(r)
  BY <1>1, <1>2, <1>4, <1>11
  DEF RetryableFault, FatalFault, NoNewOrder, Holding, Begin, TxStates
<1>12. QED
  <2>1. pc[r] # "done"
    BY DEF Step, FaultStep, Call, FindCommitted, FindAgain, UpdateProduct,
       OutOfStock, DebitBalance, DebitRefused, InsertOrderRows, InsertKey,
       Commit, CommitAckLost, RetryableFault, FatalFault, TxStates
  <2>2. QED
    BY <2>1, <1>3, <1>5, <1>6, <1>7, <1>8, <1>9, <1>10, <1>11
    DEF Step, FaultStep

(* OrdersInv holds at the start. *)
LEMMA OrdersInit == Init => OrdersInv
<1> SUFFICES ASSUME Init PROVE OrdersInv
  OBVIOUS
<1>1. TypeInv
  BY InitTypes
<1>2. IdsOK
  BY DEF Init, IdsOK, Holding, NoAnswer, Answer
<1>3. OneOrderPerCall /\ OutboxMatchesOrders
  BY DEF Init, OneOrderPerCall, OutboxMatchesOrders, NoAnswer, Answer
<1>4. QED  BY <1>1, <1>2, <1>3 DEF OrdersInv

(* Every step preserves OrdersInv. *)
LEMMA OrdersStep == OrdersInv /\ [Next]_vars => OrdersInv'
<1> SUFFICES ASSUME OrdersInv, [Next]_vars PROVE OrdersInv'
  OBVIOUS
<1>1. TypeInv' /\ TypeOK
  BY StepTypes DEF OrdersInv, TypeInv
<1>2. ASSUME NEW r \in Requests, Call(r) \/ Step(r) \/ FaultStep(r)
      PROVE  IdsOK' /\ OneOrderPerCall' /\ OutboxMatchesOrders'
  <2>1. OthersKept(r)
    BY <1>1, <1>2, StepsKeepOthers
  <2>2. CASE \E a : CommitsWith(r, a)
    BY <2>1, <2>2, CommitKeepsIds DEF CommitsWith
  <2>3. CASE NoNewOrder(r) /\ pc[r] # "done"
    BY <2>1, <2>3, NoNewOrderKeepsIds
  <2>4. QED  BY <1>2, <2>2, <2>3, StepCommitsOrNot
<1>3. CASE UNCHANGED vars
  BY <1>3, <1>1
  DEF vars, OrdersInv, IdsOK, Holding, OneOrderPerCall, OutboxMatchesOrders
<1>4. QED  BY <1>1, <1>2, <1>3 DEF Next, AllDone, OrdersInv

(* The orders are consistent in every reachable state. *)
LEMMA OrdersAlways == Spec => []OrdersInv
BY OrdersInit, OrdersStep, PTL DEF Spec

(***************************************************************************)
(* An order, its job and its order.placed event become visible together or *)
(* not at all, and under ids of their own: for any calls and any faults.   *)
(***************************************************************************)
THEOREM OutboxIsAtomic == Spec => []OutboxMatchesOrders
<1>1. OrdersInv => OutboxMatchesOrders
  BY DEF OrdersInv
<1>2. QED  BY <1>1, OrdersAlways, PTL

(***************************************************************************)
(* A call leaves at most one order however often withRetry runs it and     *)
(* whatever connection is lost, a COMMIT whose answer never came included. *)
(***************************************************************************)
THEOREM RetriesBuyOnce == Spec => []OneOrderPerCall
<1>1. OrdersInv => OneOrderPerCall
  BY DEF OrdersInv
<1>2. QED  BY <1>1, OrdersAlways, PTL

-----------------------------------------------------------------------------
(* A call that is over keeps its input. *)
LEMMA OrdersKeepCalls ==
  ASSUME OrdersInv, NEW r \in Requests, OthersKept(r), pc[r] # "done"
  PROVE  \A o \in orders : o.by \in Requests \ {r} /\ call'[o.by] = call[o.by]
BY DEF OrdersInv, IdsOK, TypeInv, TypeOK, OrderType, OthersKept

(* The key of a call that reaches "commit" is free. *)
LEMMA CommitKeyFree ==
  ASSUME KeysInv, NEW r \in Requests, Call(r) \/ Step(r) \/ FaultStep(r),
         NoNewOrder(r), pc'[r] = "commit", call'[r].key # NoKey
  PROVE  /\ call'[r] = call[r]
         /\ \A k \in keys : k.user # call[r].user \/ k.key # call[r].key
         /\ \A q \in Requests \ {r} : ~SameKeyInFlight(q, r)
<1>1. DOMAIN pc = Requests
  BY DEF KeysInv, OrdersInv, TypeInv, TypeOK
<1>2. InsertKey(r) \/ (InsertOrderRows(r) /\ call[r].key = NoKey)
  <2>1. ~(Call(r) \/ FindCommitted(r) \/ FindAgain(r) \/ UpdateProduct(r))
    BY <1>1 DEF Call, FindCommitted, FindAgain, UpdateProduct, Finish, Begin
  <2>2. ~(OutOfStock(r) \/ DebitBalance(r) \/ DebitRefused(r))
    BY <1>1 DEF OutOfStock, DebitBalance, DebitRefused, Throw, Finish
  <2>3. ~(Commit(r) \/ FaultStep(r))
    BY <1>1 DEF Commit, FaultStep, CommitAckLost, RetryableFault, FatalFault,
                Throw, Finish, Begin
  <2>4. InsertOrderRows(r) => call[r].key = NoKey
    BY <1>1 DEF InsertOrderRows, Throw, Finish
  <2>5. QED  BY <2>1, <2>2, <2>3, <2>4 DEF Step
<1>3. CASE InsertKey(r)
  BY <1>1, <1>3 DEF InsertKey
<1>4. CASE InsertOrderRows(r) /\ call[r].key = NoKey
  BY <1>4 DEF InsertOrderRows
<1>5. QED  BY <1>2, <1>3, <1>4

(* What a call that ends with a replay has found *)
LEMMA ReplayFound ==
  ASSUME KeysInv, NEW r \in Requests, Call(r) \/ Step(r) \/ FaultStep(r),
         NoNewOrder(r), answer'[r].kind = "replay"
  PROVE  /\ call' = call /\ pc[r] # "done"
         /\ \E k \in keys, o \in orders :
              /\ k.user = call[r].user /\ k.key = call[r].key
              /\ o.id = k.orderId /\ SameIntent(k.hash, call[r].hash)
              /\ o.id = answer'[r].orderId /\ o.total = answer'[r].total
<1>1. DOMAIN answer = Requests /\ (pc[r] # "done" => answer[r].kind = "none")
  BY DEF KeysInv, OrdersInv, IdsOK, TypeInv, TypeOK
<1>2. FindCommitted(r) \/ FindAgain(r)
  <2>1. ~Call(r)
    BY <1>1 DEF Call, Finish, Answer
  <2>2. ~(UpdateProduct(r) \/ DebitBalance(r) \/ InsertKey(r))
    BY <1>1 DEF UpdateProduct, DebitBalance, InsertKey
  <2>3. ~(OutOfStock(r) \/ DebitRefused(r) \/ InsertOrderRows(r))
    BY <1>1 DEF OutOfStock, DebitRefused, InsertOrderRows, Throw, Finish, Answer
  <2>4. ~(Commit(r) \/ FaultStep(r))
    BY <1>1 DEF Commit, FaultStep, CommitAckLost, RetryableFault, FatalFault,
                Throw, Finish, Answer, FreshAnswer, TxStates
  <2>5. QED  BY <2>1, <2>2, <2>3, <2>4 DEF Step
<1>3. PICK ko \in Found(call[r]) :
        answer'[r] = ReplayAnswer(ko[1], ko[2], call[r])
  BY <1>1, <1>2 DEF FindCommitted, FindAgain, Finish, Answer
<1>4. /\ ko[1] \in keys /\ ko[2] \in orders
      /\ ko[1].user = call[r].user /\ ko[1].key = call[r].key
      /\ ko[2].id = ko[1].orderId
  BY <1>3 DEF Found
<1>5. /\ SameIntent(ko[1].hash, call[r].hash)
      /\ ko[2].id = answer'[r].orderId /\ ko[2].total = answer'[r].total
  BY <1>3 DEF ReplayAnswer, Answer
<1>6. call' = call /\ pc[r] # "done"
  BY <1>2 DEF FindCommitted, FindAgain
<1>7. QED  BY <1>4, <1>5, <1>6

(* A step that commits nothing keeps the keys and the replays. *)
LEMMA NoNewOrderKeepsKeys ==
  ASSUME KeysInv, NEW r \in Requests, Call(r) \/ Step(r) \/ FaultStep(r),
         OthersKept(r), NoNewOrder(r), UNCHANGED keys, pc[r] # "done"
  PROVE  KeysOK' /\ ReplayNamesFirstOrder'
<1>1. \A o \in orders : o.by \in Requests \ {r} /\ call'[o.by] = call[o.by]
  BY OrdersKeepCalls DEF KeysInv
<1>2. orders' = orders /\ keys' = keys
  BY DEF NoNewOrder
<1>3. KeysOK'
  <2>1. \A k, l \in keys' : k.user = l.user /\ k.key = l.key => k = l
    BY <1>2 DEF KeysInv, KeysOK
  <2>2. \A k \in keys' : \E o \in orders' :
          /\ o.id = k.orderId /\ o.user = k.user
          /\ call'[o.by].key = k.key /\ StoredHash(call'[o.by]) = k.hash
    BY <1>1, <1>2 DEF KeysInv, KeysOK
  <2>3. \A o \in orders' : call'[o.by].key # NoKey => \E k \in keys' :
          k.user = o.user /\ k.key = call'[o.by].key /\ k.orderId = o.id
    BY <1>1, <1>2 DEF KeysInv, KeysOK
  <2>4. ASSUME NEW q \in Requests, pc'[q] = "commit", call'[q].key # NoKey
        PROVE  /\ \A k \in keys' : k.user # call'[q].user \/ k.key # call'[q].key
               /\ \A q2 \in Requests \ {q} : ~SameKeyInFlight(q2, q)'
    <3>1. CASE q = r
      BY <1>2, <2>4, <3>1, CommitKeyFree DEF SameKeyInFlight, OthersKept
    <3>2. CASE q # r
      <4>1. /\ pc[q] = "commit" /\ call'[q] = call[q]
            /\ \A k \in keys : k.user # call[q].user \/ k.key # call[q].key
            /\ \A q2 \in Requests \ {q} : ~SameKeyInFlight(q2, q)
        BY <2>4, <3>2 DEF KeysInv, KeysOK, OthersKept
      <4>2. ~SameKeyInFlight(r, q)'
        <5>1. SUFFICES ASSUME pc'[r] = "commit", call'[r].user = call'[q].user,
                              call'[r].key = call'[q].key
                       PROVE  FALSE
          BY DEF SameKeyInFlight
        <5>2. call'[r] = call[r] /\ ~SameKeyInFlight(q, r)
          BY <2>4, <3>2, <5>1, CommitKeyFree
        <5>3. QED  BY <4>1, <5>1, <5>2 DEF SameKeyInFlight
      <4>3. QED
        BY <1>2, <4>1, <4>2 DEF SameKeyInFlight, OthersKept
    <3>3. QED  BY <3>1, <3>2
  <2>5. QED  BY <2>1, <2>2, <2>3, <2>4 DEF KeysOK
<1>4. ReplayNamesFirstOrder'
  <2> SUFFICES ASSUME NEW q \in Requests, answer'[q].kind = "replay"
               PROVE  \E o \in orders' :
                 /\ o.id = answer'[q].orderId /\ o.total = answer'[q].total
                 /\ o.by # q
                 /\ call'[o.by].user = call'[q].user
                 /\ call'[o.by].key = call'[q].key
                 /\ call'[q].hash # NoHash =>
                      call'[q].hash = StoredHash(call'[o.by])
    BY DEF ReplayNamesFirstOrder
  <2>1. CASE q # r
    BY <1>1, <1>2, <2>1 DEF KeysInv, ReplayNamesFirstOrder, OthersKept
  <2>2. CASE q = r
    <3>1. PICK k \in keys, o \in orders :
            /\ k.user = call[r].user /\ k.key = call[r].key
            /\ o.id = k.orderId /\ SameIntent(k.hash, call[r].hash)
            /\ o.id = answer'[r].orderId /\ o.total = answer'[r].total
      BY <2>2, ReplayFound
    <3>2. call' = call
      BY <2>2, ReplayFound
    <3>3. PICK o2 \in orders :
            /\ o2.id = k.orderId /\ o2.user = k.user
            /\ call[o2.by].key = k.key /\ StoredHash(call[o2.by]) = k.hash
      BY DEF KeysInv, KeysOK
    <3>4. o2 = o
      BY <3>1, <3>3 DEF KeysInv, OrdersInv, OutboxMatchesOrders
    <3>5. o.by # r /\ o.user = call[o.by].user
      BY <1>1 DEF KeysInv, OrdersInv, IdsOK
    <3>6. QED
      BY <1>2, <2>2, <3>1, <3>2, <3>3, <3>4, <3>5 DEF SameIntent
  <2>3. QED  BY <2>1, <2>2
<1>5. QED  BY <1>3, <1>4

(* COMMIT adds the row of a key that had none. *)
LEMMA CommitKeepsKeys ==
  ASSUME KeysInv, NEW r \in Requests, OthersKept(r), NEW a, CommitsWith(r, a)
  PROVE  KeysOK' /\ ReplayNamesFirstOrder'
<1> DEFINE o1 == [id |-> tx[r].orderId, user |-> call[r].user,
                  total |-> tx[r].total, lines |-> tx[r].priced, by |-> r]
           k1 == [user |-> call[r].user, key |-> call[r].key,
                  orderId |-> tx[r].orderId, hash |-> StoredHash(call[r])]
<1>1. /\ orders' = orders \cup {o1} /\ call' = call
      /\ keys' = IF call[r].key = NoKey THEN keys ELSE keys \cup {k1}
  BY DEF CommitsWith, CommitRows
<1>2. pc'[r] = "done" /\ answer'[r] = a /\ a.kind # "replay"
  BY DEF CommitsWith, Finish, FreshAnswer, Answer, KeysInv, OrdersInv,
         TypeInv, TypeOK
<1>3. call[r].key # NoKey =>
        /\ \A k \in keys : k.user # call[r].user \/ k.key # call[r].key
        /\ \A q \in Requests \ {r} : ~SameKeyInFlight(q, r)
  BY DEF CommitsWith, KeysInv, KeysOK
<1>4. KeysOK'
  <2>1. \A k, l \in keys' : k.user = l.user /\ k.key = l.key => k = l
    BY <1>1, <1>3 DEF KeysInv, KeysOK
  <2>2. ASSUME NEW k \in keys'
        PROVE  \E o \in orders' :
                 /\ o.id = k.orderId /\ o.user = k.user
                 /\ call'[o.by].key = k.key
                 /\ StoredHash(call'[o.by]) = k.hash
    <3>1. CASE k \in keys
      BY <1>1, <3>1 DEF KeysInv, KeysOK
    <3>2. CASE k = k1
      <4>1. /\ o1.id = k.orderId /\ o1.user = k.user
            /\ call'[o1.by].key = k.key /\ StoredHash(call'[o1.by]) = k.hash
        BY <1>1, <3>2
      <4>2. QED  BY <1>1, <4>1
    <3>3. QED  BY <1>1, <3>1, <3>2
  <2>3. ASSUME NEW o \in orders', call'[o.by].key # NoKey
        PROVE  \E k \in keys' : /\ k.user = o.user /\ k.key = call'[o.by].key
                                /\ k.orderId = o.id
    <3>1. CASE o \in orders
      BY <1>1, <2>3, <3>1 DEF KeysInv, KeysOK
    <3>2. CASE o = o1
      <4>1. /\ k1 \in keys' /\ k1.user = o.user /\ k1.key = call'[o.by].key
            /\ k1.orderId = o.id
        BY <1>1, <2>3, <3>2
      <4>2. QED  BY <4>1
    <3>3. QED  BY <1>1, <3>1, <3>2
  <2>4. ASSUME NEW q \in Requests, pc'[q] = "commit", call'[q].key # NoKey
        PROVE  /\ \A k \in keys' : k.user # call'[q].user \/ k.key # call'[q].key
               /\ \A q2 \in Requests \ {q} : ~SameKeyInFlight(q2, q)'
    <3>1. q # r /\ pc[q] = "commit"
      BY <1>2, <2>4 DEF OthersKept
    <3>2. /\ \A k \in keys : k.user # call[q].user \/ k.key # call[q].key
          /\ \A q2 \in Requests \ {q} : ~SameKeyInFlight(q2, q)
      BY <1>1, <2>4, <3>1 DEF KeysInv, KeysOK
    <3>3. call[r].user # call[q].user \/ call[r].key # call[q].key
      BY <3>1, <3>2 DEF SameKeyInFlight, CommitsWith
    <3>4. QED
      BY <1>1, <1>2, <3>1, <3>2, <3>3 DEF SameKeyInFlight, OthersKept
  <2>5. QED  BY <2>1, <2>2, <2>3, <2>4 DEF KeysOK
<1>5. ReplayNamesFirstOrder'
  <2>1. \A q \in Requests : answer'[q].kind = "replay" =>
          q # r /\ answer'[q] = answer[q]
    BY <1>2 DEF OthersKept
  <2>2. QED
    BY <1>1, <2>1 DEF KeysInv, ReplayNamesFirstOrder
<1>6. QED  BY <1>4, <1>5

(* KeysInv holds at the start. *)
LEMMA KeysInit == Init => KeysInv
<1> SUFFICES ASSUME Init PROVE KeysInv
  OBVIOUS
<1>1. OrdersInv
  BY OrdersInit
<1>2. KeysOK /\ ReplayNamesFirstOrder
  BY DEF Init, KeysOK, ReplayNamesFirstOrder, NoAnswer, Answer
<1>3. QED  BY <1>1, <1>2 DEF KeysInv

(* Every step preserves KeysInv. *)
LEMMA KeysStep == KeysInv /\ [Next]_vars => KeysInv'
<1> SUFFICES ASSUME KeysInv, [Next]_vars PROVE KeysInv'
  OBVIOUS
<1>1. OrdersInv' /\ OrdersInv /\ TypeOK
  BY OrdersStep DEF KeysInv, OrdersInv, TypeInv
<1>2. ASSUME NEW r \in Requests, Call(r) \/ Step(r) \/ FaultStep(r)
      PROVE  KeysOK' /\ ReplayNamesFirstOrder'
  <2>1. OthersKept(r)
    BY <1>1, <1>2, StepsKeepOthers
  <2>2. CASE \E a : CommitsWith(r, a)
    BY <2>1, <2>2, CommitKeepsKeys
  <2>3. CASE NoNewOrder(r) /\ UNCHANGED keys /\ pc[r] # "done"
    BY <1>2, <2>1, <2>3, NoNewOrderKeepsKeys
  <2>4. QED  BY <1>1, <1>2, <2>2, <2>3, StepCommitsOrNot
<1>3. CASE UNCHANGED vars
  <2>1. KeysOK'
    BY <1>3 DEF vars, KeysInv, KeysOK, SameKeyInFlight
  <2>2. ReplayNamesFirstOrder'
    BY <1>3 DEF vars, KeysInv, ReplayNamesFirstOrder
  <2>3. QED  BY <1>1, <2>1, <2>2 DEF KeysInv
<1>4. QED  BY <1>1, <1>2, <1>3 DEF Next, AllDone, KeysInv

(* The keys are consistent in every reachable state. *)
LEMMA KeysAlways == Spec => []KeysInv
BY KeysInit, KeysStep, PTL DEF Spec

(***************************************************************************)
(* An idempotency key buys at most once for its user, whichever calls race *)
(* with it: the key row is inserted in the transaction of its order.       *)
(***************************************************************************)
THEOREM KeysBuyOnce == Spec => []OneOrderPerKey
<1>1. KeysInv => OneOrderPerKey
  <2>1. ASSUME KeysInv, NEW o \in orders, NEW o2 \in orders,
               call[o.by].key # NoKey, o2.user = o.user,
               call[o2.by].key = call[o.by].key
        PROVE  o2 = o
    <3>1. PICK k \in keys : /\ k.user = o.user /\ k.key = call[o.by].key
                            /\ k.orderId = o.id
      BY <2>1 DEF KeysInv, KeysOK
    <3>2. PICK l \in keys : /\ l.user = o2.user /\ l.key = call[o2.by].key
                            /\ l.orderId = o2.id
      BY <2>1 DEF KeysInv, KeysOK
    <3>3. k = l
      BY <2>1, <3>1, <3>2 DEF KeysInv, KeysOK
    <3>4. QED
      BY <2>1, <3>1, <3>2, <3>3 DEF KeysInv, OrdersInv, OutboxMatchesOrders
  <2>2. QED  BY <2>1 DEF KeysInv, KeysOK, OneOrderPerKey
<1>2. QED  BY <1>1, KeysAlways, PTL

(***************************************************************************)
(* Whoever is answered with a replay is told of the order its key was      *)
(* first used for, by the same user and with the same request.             *)
(***************************************************************************)
THEOREM ReplaysAreFaithful == Spec => []ReplayNamesFirstOrder
<1>1. KeysInv => ReplayNamesFirstOrder
  BY DEF KeysInv
<1>2. QED  BY <1>1, KeysAlways, PTL

-----------------------------------------------------------------------------
(***************************************************************************)
(* The draft of a row is what its owner's lines leave of it, a transaction *)
(* owns no other row, and it has paid once it is past the debit.           *)
(***************************************************************************)
DraftsOK ==
  /\ \A r \in Requests, p \in Products :
       LineQuantity(tx[r].priced, p) =
         IF prod[p].owner = r THEN prod[p].val - prod[p].draft ELSE 0
  /\ \A r \in Requests :
       /\ tx[r].total = LineTotal(tx[r].priced)
       /\ pc[r] = "idle" => tx[r].priced = <<>> /\ tx[r].total = 0
       /\ pc[r] \in {"insert", "key", "commit"} =>
            /\ acct[call[r].user].owner = r
            /\ acct[call[r].user].draft = acct[call[r].user].val - tx[r].total

MoneyInv ==
  LocksInv /\ OrdersInv /\ DraftsOK /\ IsFiniteSet(orders) /\ Conserved

(* The positions of a sequence of lines are finitely many. *)
LEMMA LinesFinite ==
  ASSUME NEW lines \in Seq(LineType)
  PROVE  /\ DOMAIN lines = 1..Len(lines) /\ IsFiniteSet(DOMAIN lines)
         /\ \A T \in SUBSET DOMAIN lines : IsFiniteSet(T)
         /\ \A n \in DOMAIN lines : /\ lines[n] \in LineType
                                    /\ lines[n].quantity \in Nat
                                    /\ lines[n].unitPrice * lines[n].quantity \in Nat
<1>1. DOMAIN lines = 1..Len(lines) /\ Len(lines) \in Nat
  OBVIOUS
<1>2. IsFiniteSet(1..Len(lines))
  BY <1>1, FS_Interval
<1>3. ASSUME NEW n \in 1..Len(lines)
      PROVE  /\ lines[n] \in LineType /\ lines[n].quantity \in Nat
             /\ lines[n].unitPrice * lines[n].quantity \in Nat
  <2>1. lines[n] \in LineType
    BY <1>3, ElementOfSeq
  <2>2. lines[n].unitPrice \in Nat /\ lines[n].quantity \in Nat
    BY <2>1 DEF LineType
  <2>3. QED  BY <2>1, <2>2
<1>4. QED  BY <1>1, <1>2, <1>3, FS_Subset

(* Quantities and totals are naturals. *)
LEMMA LineSums ==
  ASSUME NEW lines \in Seq(LineType)
  PROVE  LineTotal(lines) \in Nat /\ \A p : LineQuantity(lines, p) \in Nat
<1> DEFINE q == [n \in DOMAIN lines |-> lines[n].quantity]
           t == [n \in DOMAIN lines |-> lines[n].unitPrice * lines[n].quantity]
<1>1. \A n \in DOMAIN lines : q[n] \in Nat /\ t[n] \in Nat
  BY LinesFinite
<1>2. IsFiniteSet(DOMAIN lines)
  BY LinesFinite
<1>3. DOMAIN t = DOMAIN lines
  OBVIOUS
<1> HIDE DEF q, t
<1>4. SumFunctionOnSet(t, DOMAIN lines) \in Nat
  BY <1>1, <1>2, SumType
<1>5. ASSUME NEW p
      PROVE  SumFunctionOnSet(q, {n \in DOMAIN lines : lines[n].productId = p})
               \in Nat
  <2> DEFINE T == {n \in DOMAIN lines : lines[n].productId = p}
  <2>1. IsFiniteSet(T) /\ \A n \in T : q[n] \in Nat
    BY <1>1, LinesFinite
  <2> HIDE DEF T
  <2>2. SumFunctionOnSet(q, T) \in Nat
    BY <2>1, SumType
  <2>3. QED  BY <2>2 DEF T
<1>6. QED
  BY <1>3, <1>4, <1>5 DEF LineTotal, LineQuantity, SumFunction, q, t

(* Nothing is taken by no lines. *)
LEMMA NoLines ==
  LineTotal(<<>>) = 0 /\ \A p : LineQuantity(<<>>, p) = 0
<1>1. DOMAIN <<>> = {}
  OBVIOUS
<1>2. DOMAIN [n \in DOMAIN <<>> |-> <<>>[n].unitPrice * <<>>[n].quantity] = {}
  BY <1>1
<1>3. \A p : {n \in DOMAIN <<>> : <<>>[n].productId = p} = {}
  BY <1>1
<1>4. LineTotal(<<>>) = 0
  BY <1>2, SumEmpty DEF LineTotal, SumFunction
<1>5. ASSUME NEW p PROVE LineQuantity(<<>>, p) = 0
  BY <1>3, SumEmpty DEF LineQuantity
<1>6. QED  BY <1>4, <1>5

(* A line adds its quantity and its price. *)
LEMMA OneMoreLine ==
  ASSUME NEW lines \in Seq(LineType), NEW line \in LineType
  PROVE  /\ LineTotal(Append(lines, line))
              = LineTotal(lines) + line.unitPrice * line.quantity
         /\ \A p : LineQuantity(Append(lines, line), p)
              = LineQuantity(lines, p)
                  + (IF line.productId = p THEN line.quantity ELSE 0)
<1> DEFINE more == Append(lines, line)
           a == Len(lines) + 1
           q == [n \in DOMAIN lines |-> lines[n].quantity]
           t == [n \in DOMAIN lines |-> lines[n].unitPrice * lines[n].quantity]
           q2 == [n \in DOMAIN more |-> more[n].quantity]
           t2 == [n \in DOMAIN more |-> more[n].unitPrice * more[n].quantity]
<1>1. /\ more \in Seq(LineType) /\ DOMAIN more = DOMAIN lines \cup {a}
      /\ a \notin DOMAIN lines /\ more[a] = line
      /\ \A n \in DOMAIN lines : more[n] = lines[n]
  OBVIOUS
<1>2. \A n \in DOMAIN lines : /\ q[n] \in Int /\ q2[n] = q[n]
                              /\ t[n] \in Int /\ t2[n] = t[n]
  BY <1>1, LinesFinite
<1>3. /\ q2[a] = line.quantity /\ t2[a] = line.unitPrice * line.quantity
      /\ q2[a] \in Int /\ t2[a] \in Int
  <2>1. q2[a] = line.quantity /\ t2[a] = line.unitPrice * line.quantity
    BY <1>1
  <2>2. line.quantity \in Nat /\ line.unitPrice \in Nat
    BY DEF LineType
  <2>3. line.unitPrice * line.quantity \in Nat
    BY <2>2
  <2>4. QED  BY <2>1, <2>2, <2>3
<1>4. DOMAIN t = DOMAIN lines /\ DOMAIN t2 = DOMAIN lines \cup {a}
  BY <1>1
<1>5. IsFiniteSet(DOMAIN lines)
  BY LinesFinite
<1> HIDE DEF a, q, t, q2, t2
<1>6. SumFunctionOnSet(t2, DOMAIN lines \cup {a})
        = SumFunctionOnSet(t, DOMAIN lines) + t2[a]
  <2> DEFINE D == DOMAIN lines
  <2>1. /\ IsFiniteSet(D) /\ a \notin D /\ t2[a] \in Int
        /\ \A n \in D : t[n] \in Int
        /\ \A n \in D : t2[n] = t[n]
    BY <1>1, <1>2, <1>3, <1>5
  <2> HIDE DEF D
  <2>2. SumFunctionOnSet(t2, D \cup {a}) = SumFunctionOnSet(t, D) + t2[a]
    BY ONLY <2>1, SumAdd
  <2>3. QED  BY <2>2 DEF D
<1>7. LineTotal(more) = LineTotal(lines) + line.unitPrice * line.quantity
  BY <1>3, <1>4, <1>6 DEF LineTotal, SumFunction, t, t2
<1>8. ASSUME NEW p
      PROVE  LineQuantity(more, p) = LineQuantity(lines, p)
               + (IF line.productId = p THEN line.quantity ELSE 0)
  <2> DEFINE T == {n \in DOMAIN lines : lines[n].productId = p}
             T2 == {n \in DOMAIN more : more[n].productId = p}
  <2>1. IsFiniteSet(T) /\ T \subseteq DOMAIN lines
    BY LinesFinite
  <2>2. T2 = IF line.productId = p THEN T \cup {a} ELSE T
    BY <1>1
  <2>3. /\ LineQuantity(lines, p) = SumFunctionOnSet(q, T)
        /\ LineQuantity(more, p) = SumFunctionOnSet(q2, T2)
    BY DEF LineQuantity, q, q2
  <2> HIDE DEF T, T2, more
  <2>4. CASE line.productId = p
    <3>1. a \notin T
      BY <1>1, <2>1
    <3>2. /\ IsFiniteSet(T) /\ q2[a] \in Int
          /\ \A n \in T : q[n] \in Int
          /\ \A n \in T : q2[n] = q[n]
      BY <1>2, <1>3, <2>1
    <3>3. SumFunctionOnSet(q2, T \cup {a}) = SumFunctionOnSet(q, T) + q2[a]
      BY ONLY <3>1, <3>2, SumAdd
    <3>4. QED  BY <1>3, <2>2, <2>3, <2>4, <3>3
  <2>5. CASE line.productId # p
    <3>1. SumFunctionOnSet(q2, T) = SumFunctionOnSet(q, T)
      BY <1>2, <2>1, SumSame
    <3>2. LineQuantity(lines, p) \in Nat
      BY LineSums
    <3>3. QED  BY <2>2, <2>3, <2>5, <3>1, <3>2
  <2>6. QED  BY <2>4, <2>5
<1>9. QED  BY <1>7, <1>8

(* An order adds its lines to what was sold and its total to what was paid. *)
LEMMA OneMoreOrder ==
  ASSUME NEW S, S \subseteq OrderType, IsFiniteSet(S),
         NEW o \in OrderType, o \notin S
  PROVE  /\ \A p : Sold(S \cup {o}, p) = Sold(S, p) + LineQuantity(o.lines, p)
         /\ \A u : Paid(S \cup {o}, u)
                     = Paid(S, u) + (IF o.user = u THEN o.total ELSE 0)
         /\ \A u : Paid(S, u) \in Int
         /\ \A p : Sold(S, p) \in Int
<1>0. \A x \in S \cup {o} : /\ x.lines \in Seq(LineType)
                            /\ x.total \in Int
  BY DEF OrderType
<1>1. ASSUME NEW p
      PROVE  /\ Sold(S \cup {o}, p) = Sold(S, p) + LineQuantity(o.lines, p)
             /\ Sold(S, p) \in Int
  <2> DEFINE f == [x \in S |-> LineQuantity(x.lines, p)]
             g == [x \in S \cup {o} |-> LineQuantity(x.lines, p)]
  <2>1. /\ \A x \in S : f[x] \in Int
        /\ \A x \in S : g[x] = f[x]
        /\ g[o] \in Int /\ g[o] = LineQuantity(o.lines, p)
        /\ DOMAIN f = S /\ DOMAIN g = S \cup {o}
    BY <1>0, LineSums
  <2>2. Sold(S, p) = SumFunctionOnSet(f, S)
        /\ Sold(S \cup {o}, p) = SumFunctionOnSet(g, S \cup {o})
    BY <2>1 DEF Sold, SumFunction
  <2> HIDE DEF f, g
  <2>3. SumFunctionOnSet(g, S \cup {o}) = SumFunctionOnSet(f, S) + g[o]
    BY <2>1, SumAdd
  <2>4. SumFunctionOnSet(f, S) \in Int
    BY <2>1, SumType
  <2>5. QED  BY <2>1, <2>2, <2>3, <2>4
<1>2. ASSUME NEW u
      PROVE  /\ Paid(S \cup {o}, u)
                  = Paid(S, u) + (IF o.user = u THEN o.total ELSE 0)
             /\ Paid(S, u) \in Int
  <2> DEFINE T == {x \in S : x.user = u}
             T2 == {x \in S \cup {o} : x.user = u}
             f == [x \in T |-> x.total]
             g == [x \in T2 |-> x.total]
  <2>1. IsFiniteSet(T) /\ T \subseteq S
    BY FS_Subset
  <2>2. /\ \A x \in T : f[x] \in Int
        /\ \A x \in T : g[x] = f[x]
        /\ o.user = u => g[o] \in Int /\ g[o] = o.total
        /\ DOMAIN f = T /\ DOMAIN g = T2
    BY <1>0
  <2>3. Paid(S, u) = SumFunctionOnSet(f, T)
        /\ Paid(S \cup {o}, u) = SumFunctionOnSet(g, T2)
    BY <2>2 DEF Paid, SumFunction
  <2>4. T2 = (IF o.user = u THEN T \cup {o} ELSE T) /\ o \notin T
    OBVIOUS
  <2> HIDE DEF f, g, T, T2
  <2>5. SumFunctionOnSet(f, T) \in Int
    BY <2>1, <2>2, SumType
  <2>6. CASE o.user = u
    <3>1. SumFunctionOnSet(g, T \cup {o}) = SumFunctionOnSet(f, T) + g[o]
      BY <2>1, <2>2, <2>4, <2>6, SumAdd
    <3>2. QED  BY <2>2, <2>3, <2>4, <2>5, <2>6, <3>1
  <2>7. CASE o.user # u
    <3>1. SumFunctionOnSet(g, T) = SumFunctionOnSet(f, T)
      BY <2>1, <2>2, SumSame
    <3>2. QED  BY <2>3, <2>4, <2>5, <2>7, <3>1
  <2>8. QED  BY <2>6, <2>7
<1>3. QED  BY <1>1, <1>2

(* The versions of a row after a statement, a rollback and a commit *)
LEMMA RowFields ==
  ASSUME NEW row \in RowType, NEW r \in Requests
  PROVE  /\ \A v : /\ Write(row, r, v).val = row.val
                    /\ Write(row, r, v).draft = v
                    /\ Write(row, r, v).owner = r
         /\ RollbackRow(row, r).val = row.val
         /\ RollbackRow(row, r).owner # r
         /\ CommitRow(row, r).owner # r
         /\ row.owner = r => /\ RollbackRow(row, r).owner = NoOne
                             /\ CommitRow(row, r).owner = NoOne
                             /\ CommitRow(row, r).val = row.draft
         /\ row.owner # r => /\ RollbackRow(row, r) = row
                             /\ CommitRow(row, r) = row
<1>1. ASSUME NEW v
      PROVE  /\ Write(row, r, v).val = row.val /\ Write(row, r, v).draft = v
             /\ Write(row, r, v).owner = r
  BY Zenon DEF Write, RowType
<1>2. \A v : Row(v).val = v /\ Row(v).owner = NoOne
  BY DEF Row
<1>3. CASE row.owner = r
  <2>1. RollbackRow(row, r) = Row(row.val) /\ CommitRow(row, r) = Row(row.draft)
    BY <1>3 DEF RollbackRow, CommitRow
  <2>2. QED  BY <1>1, <1>2, <1>3, <2>1, NamesAssumption
<1>4. CASE row.owner # r
  <2>1. RollbackRow(row, r) = row /\ CommitRow(row, r) = row
    BY <1>4 DEF RollbackRow, CommitRow
  <2>2. QED  BY <1>1, <1>4, <2>1
<1>5. QED  BY <1>3, <1>4

(* A rolled back row, or one of another call *)
LEMMA RollbackKeepsMoney ==
  ASSUME MoneyInv, NEW r \in Requests, OthersKept(r),
         \A p \in Products : prod'[p] = RollbackRow(prod[p], r),
         \A u \in Users : acct'[u] = RollbackRow(acct[u], r),
         tx'[r].priced = <<>>, tx'[r].total = 0,
         pc'[r] \notin {"insert", "key", "commit"}, UNCHANGED orders
  PROVE  DraftsOK' /\ Conserved'
<1>0. /\ \A p \in Products : prod[p] \in RowType
      /\ \A u \in Users : acct[u] \in RowType
  BY DEF MoneyInv, LocksInv, TypeInv, TypeOK
<1>1. \A p \in Products :
        /\ prod'[p].val = prod[p].val /\ prod'[p].owner # r
        /\ prod[p].owner # r => prod'[p] = prod[p]
        /\ prod[p].owner = r => prod'[p].owner = NoOne
  BY <1>0, RowFields
<1>2. \A u \in Users :
        /\ acct'[u].val = acct[u].val
        /\ acct[u].owner # r => acct'[u] = acct[u]
  BY <1>0, RowFields
<1>3. ASSUME NEW q \in Requests, NEW p \in Products
      PROVE  LineQuantity(tx'[q].priced, p) =
               IF prod'[p].owner = q THEN prod'[p].val - prod'[p].draft ELSE 0
  <2>1. CASE q = r
    BY <1>1, <2>1, NoLines
  <2>2. CASE q # r
    <3>1. tx'[q] = tx[q]
      BY <2>2 DEF OthersKept
    <3>2. LineQuantity(tx[q].priced, p) =
            IF prod[p].owner = q THEN prod[p].val - prod[p].draft ELSE 0
      BY DEF MoneyInv, DraftsOK
    <3>3. CASE prod[p].owner = r
      BY <1>1, <2>2, <3>1, <3>2, <3>3, NamesAssumption
    <3>4. CASE prod[p].owner # r
      BY <1>1, <3>1, <3>2, <3>4
    <3>5. QED  BY <3>3, <3>4
  <2>3. QED  BY <2>1, <2>2
<1>4. ASSUME NEW q \in Requests
      PROVE  /\ tx'[q].total = LineTotal(tx'[q].priced)
             /\ pc'[q] = "idle" => tx'[q].priced = <<>> /\ tx'[q].total = 0
             /\ pc'[q] \in {"insert", "key", "commit"} =>
                  /\ acct'[call'[q].user].owner = q
                  /\ acct'[call'[q].user].draft
                       = acct'[call'[q].user].val - tx'[q].total
  <2>1. CASE q = r
    BY <2>1, NoLines
  <2>2. CASE q # r
    <3>1. tx'[q] = tx[q] /\ pc'[q] = pc[q] /\ call'[q] = call[q]
      BY <2>2 DEF OthersKept
    <3>2. pc[q] # "idle" => call[q].user \in Users
      BY CallTypes DEF MoneyInv, LocksInv
    <3>3. QED
      BY <1>2, <2>2, <3>1, <3>2 DEF MoneyInv, DraftsOK
  <2>3. QED  BY <2>1, <2>2
<1>5. DraftsOK'
  BY <1>3, <1>4 DEF DraftsOK
<1>6. Conserved'
  BY <1>1, <1>2 DEF MoneyInv, Conserved
<1>7. QED  BY <1>5, <1>6

(* A call that owns no row rolls nothing back. *)
LEMMA NothingToRollback ==
  ASSUME LocksInv, NEW r \in Requests, pc[r] \notin TxStates,
         UNCHANGED <<prod, acct>>
  PROVE  /\ \A p \in Products : prod'[p] = RollbackRow(prod[p], r)
         /\ \A u \in Users : acct'[u] = RollbackRow(acct[u], r)
BY DEF LocksInv, LocksOK, RollbackRow, TxStates

(* A step that leaves rows, lines and orders alone *)
LEMMA QuietKeepsMoney ==
  ASSUME MoneyInv, NEW r \in Requests, OthersKept(r),
         UNCHANGED <<prod, acct, orders, call>>,
         tx'[r].priced = tx[r].priced, tx'[r].total = tx[r].total,
         pc'[r] # "idle",
         pc'[r] \in {"insert", "key", "commit"} =>
           pc[r] \in {"insert", "key", "commit"}
  PROVE  DraftsOK' /\ Conserved'
<1>1. \A q \in Requests :
        /\ tx'[q].priced = tx[q].priced /\ tx'[q].total = tx[q].total
        /\ pc'[q] = "idle" => pc[q] = "idle"
        /\ pc'[q] \in {"insert", "key", "commit"} =>
             pc[q] \in {"insert", "key", "commit"}
  BY DEF OthersKept
<1>2. DraftsOK'
  BY <1>1 DEF MoneyInv, DraftsOK
<1>3. Conserved'
  BY DEF MoneyInv, Conserved
<1>4. QED  BY <1>2, <1>3

(* UPDATE products takes from the draft what the new line adds. *)
LEMMA UpdateProductMoney ==
  ASSUME MoneyInv, NEW r \in Requests, OthersKept(r), UpdateProduct(r)
  PROVE  DraftsOK' /\ Conserved'
<1>0. TypeInv /\ TypeOK /\ pc[r] = "stock"
  BY DEF MoneyInv, LocksInv, TypeInv, UpdateProduct
<1>1. PICK i \in Pending(r) :
        LET item == call[r].items[i]
            p    == item.productId
            line == [index |-> i, productId |-> p,
                     quantity |-> item.quantity, unitPrice |-> Price[p]]
        IN  /\ RowSells(r, item) /\ Lockable(prod[p], r)
            /\ prod' = [prod EXCEPT ![p] =
                          Write(@, r, Visible(@, r) - item.quantity)]
            /\ tx' = [tx EXCEPT ![r] = WithLine(@, line)]
            /\ pc' = [pc EXCEPT ![r] =
                        IF Pending(r) = {i} THEN "debit" ELSE "stock"]
  BY DEF UpdateProduct
<1> DEFINE item == call[r].items[i]
           p == item.productId
           line == [index |-> i, productId |-> p, quantity |-> item.quantity,
                    unitPrice |-> Price[p]]
           row == prod[p]
<1>2. /\ i \in Nat /\ p \in Products /\ item.quantity \in Nat
      /\ Price[p] \in Nat
  BY <1>0, ItemTypes, DataAssumption DEF Pending
<1>3. line \in LineType /\ tx[r].priced \in Seq(LineType) /\ tx[r].total \in Nat
      /\ row \in RowType
  BY <1>0, <1>2 DEF LineType, TypeOK, TxType
<1>4. /\ tx'[r].priced = Append(tx[r].priced, line)
      /\ tx'[r].total = tx[r].total + line.unitPrice * line.quantity
      /\ pc'[r] \notin {"idle", "insert", "key", "commit"}
      /\ UNCHANGED <<acct, orders, call>>
  BY <1>0, <1>1 DEF WithLine, TypeOK, UpdateProduct
<1>5. /\ prod'[p].owner = r /\ prod'[p].val = row.val
      /\ prod'[p].draft = Visible(row, r) - item.quantity
      /\ \A s \in Products \ {p} : prod'[s] = prod[s]
  <2> DEFINE new == Write(row, r, Visible(row, r) - item.quantity)
  <2>1. /\ new.val = row.val /\ new.owner = r
        /\ new.draft = Visible(row, r) - item.quantity
    BY <1>3, RowFields
  <2>2. prod' = [prod EXCEPT ![p] = new]
    BY <1>1
  <2> HIDE DEF new
  <2>3. QED  BY <1>0, <1>2, <2>1, <2>2 DEF TypeOK
<1>6. ASSUME NEW q \in Requests, NEW s \in Products
      PROVE  LineQuantity(tx'[q].priced, s) =
               IF prod'[s].owner = q THEN prod'[s].val - prod'[s].draft ELSE 0
  <2>1. LineQuantity(tx[q].priced, s) =
          IF prod[s].owner = q THEN prod[s].val - prod[s].draft ELSE 0
    BY DEF MoneyInv, DraftsOK
  <2>2. CASE q = r
    <3>1. LineQuantity(tx'[q].priced, s) = LineQuantity(tx[q].priced, s)
            + (IF p = s THEN item.quantity ELSE 0)
      <4>1. line.productId = p /\ line.quantity = item.quantity
        OBVIOUS
      <4> HIDE DEF line
      <4>2. LineQuantity(Append(tx[r].priced, line), s)
              = LineQuantity(tx[r].priced, s)
                  + (IF line.productId = s THEN line.quantity ELSE 0)
        BY <1>3, OneMoreLine
      <4>3. QED  BY <1>4, <2>2, <4>1, <4>2
    <3>2. LineQuantity(tx[q].priced, s) \in Nat
      BY <1>3, <2>2, LineSums
    <3>3. CASE s = p
      <4>1. LineQuantity(tx[q].priced, s) = row.val - Visible(row, r)
        BY <1>3, <2>1, <2>2, <3>3 DEF Visible, RowType
      <4>2. Visible(row, r) \in Nat /\ row.val \in Nat
        BY <1>3 DEF Visible, RowType
      <4>3. QED  BY <1>2, <1>5, <2>2, <3>1, <3>3, <4>1, <4>2
    <3>4. CASE s # p
      BY <1>5, <2>1, <2>2, <3>1, <3>2, <3>4
    <3>5. QED  BY <3>3, <3>4
  <2>3. CASE q # r
    <3>1. tx'[q] = tx[q]
      BY <2>3 DEF OthersKept
    <3>2. CASE s = p
      <4>1. row.owner # q /\ prod'[s].owner # q
        BY <1>1, <1>5, <2>3, <3>2, NamesAssumption DEF Lockable
      <4>2. QED  BY <2>1, <3>1, <3>2, <4>1
    <3>3. CASE s # p
      BY <1>5, <2>1, <3>1, <3>3
    <3>4. QED  BY <3>2, <3>3
  <2>4. QED  BY <2>2, <2>3
<1>7. ASSUME NEW q \in Requests
      PROVE  /\ tx'[q].total = LineTotal(tx'[q].priced)
             /\ pc'[q] = "idle" => tx'[q].priced = <<>> /\ tx'[q].total = 0
             /\ pc'[q] \in {"insert", "key", "commit"} =>
                  /\ acct'[call'[q].user].owner = q
                  /\ acct'[call'[q].user].draft
                       = acct'[call'[q].user].val - tx'[q].total
  <2>1. CASE q = r
    <3>1. LineTotal(tx'[q].priced)
            = LineTotal(tx[q].priced) + line.unitPrice * line.quantity
      BY ZenonT(60), <1>3, <1>4, <2>1, OneMoreLine
    <3>2. tx[q].total = LineTotal(tx[q].priced)
      BY DEF MoneyInv, DraftsOK
    <3>3. QED  BY <1>4, <2>1, <3>1, <3>2
  <2>2. CASE q # r
    BY <1>4, <2>2 DEF OthersKept, MoneyInv, DraftsOK
  <2>3. QED  BY <2>1, <2>2
<1>8. DraftsOK'
  BY <1>6, <1>7 DEF DraftsOK
<1>9. Conserved'
  <2>1. \A s \in Products : prod'[s].val = prod[s].val
    BY <1>5
  <2>2. QED  BY <1>4, <2>1 DEF MoneyInv, Conserved
<1>10. QED  BY <1>8, <1>9

(* UPDATE users takes the total from the draft of a row nobody owned. *)
LEMMA DebitMoney ==
  ASSUME MoneyInv, NEW r \in Requests, OthersKept(r), DebitBalance(r)
  PROVE  DraftsOK' /\ Conserved'
<1> DEFINE u == call[r].user
           row == acct[u]
<1>0. TypeInv /\ TypeOK /\ pc[r] = "debit"
  BY DEF MoneyInv, LocksInv, TypeInv, DebitBalance
<1>1. u \in Users /\ row \in RowType /\ row.owner = NoOne
  <2>1. u \in Users
    BY <1>0, CallTypes
  <2>2. row.owner # r
    BY <1>0, <2>1 DEF MoneyInv, LocksInv, LocksOK
  <2>3. QED  BY <1>0, <2>1, <2>2 DEF DebitBalance, Lockable, TypeOK
<1> DEFINE new == Write(row, r, Visible(row, r) - tx[r].total)
<1>2. acct' = [acct EXCEPT ![u] = new] /\ UNCHANGED <<prod, orders, call, tx>>
  BY DEF DebitBalance
<1>3. /\ new.val = row.val /\ new.owner = r
      /\ new.draft = row.val - tx[r].total
  <2>1. Visible(row, r) = row.val
    BY <1>1, NamesAssumption DEF Visible
  <2>2. QED  BY <1>1, <2>1, RowFields
<1> HIDE DEF new
<1>4. /\ acct'[u].owner = r /\ acct'[u].val = row.val
      /\ acct'[u].draft = row.val - tx[r].total
      /\ \A w \in Users \ {u} : acct'[w] = acct[w]
  BY <1>0, <1>1, <1>2, <1>3 DEF TypeOK
<1>5. ASSUME NEW q \in Requests, pc'[q] \in {"insert", "key", "commit"}
      PROVE  /\ acct'[call'[q].user].owner = q
             /\ acct'[call'[q].user].draft
                  = acct'[call'[q].user].val - tx'[q].total
  <2>1. CASE q = r
    BY <1>2, <1>4, <2>1
  <2>2. CASE q # r
    <3>1. pc[q] \in {"insert", "key", "commit"}
      BY <1>5, <2>2 DEF OthersKept
    <3>2. acct[call[q].user].owner = q /\ call[q].user \in Users
      BY <1>0, <3>1, CallTypes DEF MoneyInv, DraftsOK
    <3>3. call[q].user # u
      BY <1>1, <3>2, NamesAssumption
    <3>4. QED  BY <1>2, <1>4, <3>1, <3>2, <3>3 DEF MoneyInv, DraftsOK
  <2>3. QED  BY <2>1, <2>2
<1>6. \A q \in Requests : pc'[q] = "idle" => pc[q] = "idle"
  BY <1>0 DEF OthersKept, DebitBalance, TypeOK
<1>7. DraftsOK'
  BY <1>2, <1>5, <1>6 DEF MoneyInv, DraftsOK
<1>8. Conserved'
  <2>1. \A w \in Users : acct'[w].val = acct[w].val
    BY <1>4
  <2>2. QED  BY <1>2, <2>1 DEF MoneyInv, Conserved
<1>9. QED  BY <1>7, <1>8

(* COMMIT moves into the orders what the drafts had taken. *)
LEMMA CommitMoney ==
  ASSUME MoneyInv, NEW r \in Requests, OthersKept(r), pc[r] = "commit",
         CommitRows(r), UNCHANGED call, tx'[r] = NoTx, pc'[r] = "done"
  PROVE  DraftsOK' /\ IsFiniteSet(orders)' /\ Conserved'
<1> DEFINE o == [id |-> tx[r].orderId, user |-> call[r].user,
                 total |-> tx[r].total, lines |-> tx[r].priced, by |-> r]
<1>0. /\ TypeInv /\ TypeOK /\ orders \subseteq OrderType /\ IsFiniteSet(orders)
      /\ orders' = orders \cup {o}
  BY DEF MoneyInv, LocksInv, TypeInv, TypeOK, CommitRows
<1>1. call[r].user \in Users /\ tx[r] \in TxType
  BY <1>0, CallTypes DEF TypeOK
<1>2. o \in OrderType /\ o \notin orders
  <2>1. o \in OrderType
    BY <1>1 DEF OrderType, TxType
  <2>2. \A x \in orders : x.id # tx[r].orderId
    BY DEF MoneyInv, OrdersInv, IdsOK, Holding
  <2>3. QED  BY <2>1, <2>2
<1>3. \A p \in Products :
        /\ prod[p].owner # r => prod'[p] = prod[p]
        /\ prod[p].owner = r => /\ prod'[p].val = prod[p].draft
                                /\ prod'[p].owner = NoOne
  BY <1>0, RowFields DEF CommitRows, TypeOK
<1>4. \A u \in Users :
        /\ acct[u].owner # r => acct'[u] = acct[u]
        /\ acct[u].owner = r => acct'[u].val = acct[u].draft
  BY <1>0, RowFields DEF CommitRows, TypeOK
<1>5. /\ NoTx.priced = <<>> /\ NoTx.total = 0
  BY DEF NoTx, NewTx
<1>6. DraftsOK'
  <2>1. ASSUME NEW q \in Requests, NEW p \in Products
        PROVE  LineQuantity(tx'[q].priced, p) =
                 IF prod'[p].owner = q THEN prod'[p].val - prod'[p].draft ELSE 0
    <3>1. LineQuantity(tx[q].priced, p) =
            IF prod[p].owner = q THEN prod[p].val - prod[p].draft ELSE 0
      BY DEF MoneyInv, DraftsOK
    <3>2. CASE q = r
      BY <1>3, <1>5, <3>2, NoLines, NamesAssumption
    <3>3. CASE q # r /\ prod[p].owner = r
      BY <1>3, <3>1, <3>3, NamesAssumption DEF OthersKept
    <3>4. CASE q # r /\ prod[p].owner # r
      BY <1>3, <3>1, <3>4 DEF OthersKept
    <3>5. QED  BY <3>2, <3>3, <3>4
  <2>2. ASSUME NEW q \in Requests
        PROVE  /\ tx'[q].total = LineTotal(tx'[q].priced)
               /\ pc'[q] = "idle" => tx'[q].priced = <<>> /\ tx'[q].total = 0
               /\ pc'[q] \in {"insert", "key", "commit"} =>
                    /\ acct'[call'[q].user].owner = q
                    /\ acct'[call'[q].user].draft
                         = acct'[call'[q].user].val - tx'[q].total
    <3>1. CASE q = r
      BY <1>5, <3>1, NoLines
    <3>2. CASE q # r
      <4>1. tx'[q] = tx[q] /\ pc'[q] = pc[q] /\ call'[q] = call[q]
        BY <3>2 DEF OthersKept
      <4>2. pc[q] # "idle" => call[q].user \in Users
        BY <1>0, CallTypes
      <4>3. QED  BY <1>4, <3>2, <4>1, <4>2 DEF MoneyInv, DraftsOK
    <3>3. QED  BY <3>1, <3>2
  <2>3. QED  BY <2>1, <2>2 DEF DraftsOK
<1>7. ASSUME NEW p \in Products
      PROVE  prod'[p].val + Sold(orders', p) = InitialStock[p]
  <2>1. Sold(orders', p) = Sold(orders, p) + LineQuantity(tx[r].priced, p)
        /\ Sold(orders, p) \in Int
    <3>1. o.lines = tx[r].priced
      OBVIOUS
    <3> HIDE DEF o
    <3>2. QED  BY <1>0, <1>2, <3>1, OneMoreOrder
  <2>2. prod[p].val + Sold(orders, p) = InitialStock[p]
    BY DEF MoneyInv, Conserved
  <2>3. prod[p] \in RowType
    BY <1>0 DEF TypeOK
  <2>4. prod'[p].val = prod[p].val - LineQuantity(tx[r].priced, p)
    <3>1. LineQuantity(tx[r].priced, p) =
            IF prod[p].owner = r THEN prod[p].val - prod[p].draft ELSE 0
      BY DEF MoneyInv, DraftsOK
    <3>2. prod[p].val \in Nat /\ prod[p].draft \in Nat
      BY <2>3 DEF RowType
    <3>3. QED  BY <1>3, <3>1, <3>2
  <2>5. prod[p].val \in Nat /\ LineQuantity(tx[r].priced, p) \in Nat
    BY <1>1, <2>3, LineSums DEF RowType, TxType
  <2>6. QED  BY <2>1, <2>2, <2>4, <2>5
<1>8. ASSUME NEW u \in Users
      PROVE  acct'[u].val + Paid(orders', u) = InitialBalance[u]
  <2>1. Paid(orders', u) = Paid(orders, u)
                             + (IF call[r].user = u THEN tx[r].total ELSE 0)
        /\ Paid(orders, u) \in Int
    <3>1. o.total = tx[r].total /\ o.user = call[r].user
      OBVIOUS
    <3> HIDE DEF o
    <3>2. Paid(orders \cup {o}, u)
            = Paid(orders, u) + (IF o.user = u THEN o.total ELSE 0)
          /\ Paid(orders, u) \in Int
      BY <1>0, <1>2, OneMoreOrder
    <3>3. QED  BY <1>0, <3>1, <3>2
  <2>2. acct[u].val + Paid(orders, u) = InitialBalance[u]
    BY DEF MoneyInv, Conserved
  <2>3. acct[u].val \in Nat /\ acct[u].draft \in Nat /\ tx[r].total \in Nat
    BY <1>0, <1>1 DEF TypeOK, RowType, TxType
  <2>4. CASE call[r].user = u
    <3>1. acct[u].owner = r /\ acct[u].draft = acct[u].val - tx[r].total
      BY <2>4 DEF MoneyInv, DraftsOK
    <3>2. acct'[u].val = acct[u].draft
      BY <1>4, <3>1
    <3>3. QED  BY <2>1, <2>2, <2>3, <2>4, <3>1, <3>2
  <2>5. CASE call[r].user # u
    <3>1. acct[u].owner # r
      BY <2>5 DEF MoneyInv, LocksInv, LocksOK
    <3>2. QED  BY <1>4, <2>1, <2>2, <2>3, <2>5, <3>1
  <2>6. QED  BY <2>4, <2>5
<1>9. ASSUME NEW x \in orders' PROVE x.total = LineTotal(x.lines)
  BY <1>0, <1>9 DEF MoneyInv, Conserved, DraftsOK
<1>10. IsFiniteSet(orders')
  BY <1>0, FS_AddElement
<1>11. QED  BY <1>6, <1>7, <1>8, <1>9, <1>10 DEF Conserved

(* MoneyInv holds at the start. *)
LEMMA MoneyInit == Init => MoneyInv
<1> SUFFICES ASSUME Init PROVE MoneyInv
  OBVIOUS
<1>1. LocksInv /\ OrdersInv
  BY LocksInit, OrdersInit
<1>2. /\ \A p \in Products : prod[p].owner = NoOne
      /\ \A r \in Requests : /\ tx[r].priced = <<>> /\ tx[r].total = 0
                             /\ pc[r] = "idle"
  BY DEF Init, Row, NoTx, NewTx
<1>3. DraftsOK
  BY <1>2, NoLines, NamesAssumption DEF DraftsOK
<1>4. IsFiniteSet(orders) /\ orders = {}
  BY FS_EmptySet DEF Init
<1>5. Conserved
  <2>1. \A p \in Products : prod[p].val = InitialStock[p]
    BY DEF Init, Row
  <2>2. \A u \in Users : acct[u].val = InitialBalance[u]
    BY DEF Init, Row
  <2>3. \A p : Sold({}, p) = 0
    <3>1. \A p : DOMAIN [o \in {} |-> LineQuantity(o.lines, p)] = {}
      OBVIOUS
    <3>2. QED  BY <3>1, SumEmpty DEF Sold, SumFunction
  <2>4. \A u : Paid({}, u) = 0
    <3>1. \A u : DOMAIN [o \in {x \in {} : x.user = u} |-> o.total] = {}
      OBVIOUS
    <3>2. QED  BY <3>1, SumEmpty DEF Paid, SumFunction
  <2>5. QED
    BY <1>4, <2>1, <2>2, <2>3, <2>4, DataAssumption DEF Conserved
<1>6. QED  BY <1>1, <1>3, <1>4, <1>5 DEF MoneyInv

(* Every step preserves MoneyInv. *)
LEMMA MoneyStep == MoneyInv /\ [Next]_vars => MoneyInv'
<1> SUFFICES ASSUME MoneyInv, [Next]_vars PROVE MoneyInv'
  OBVIOUS
<1>1. LocksInv' /\ OrdersInv' /\ TypeInv /\ TypeOK
  BY LocksStep, OrdersStep DEF MoneyInv, LocksInv, TypeInv
<1>2. ASSUME NEW r \in Requests, Call(r) \/ Step(r) \/ FaultStep(r)
      PROVE  DraftsOK' /\ IsFiniteSet(orders)' /\ Conserved'
  <2>1. OthersKept(r)
    BY <1>1, <1>2, StepsKeepOthers
  <2>2. /\ DOMAIN pc = Requests /\ DOMAIN tx = Requests /\ IsFiniteSet(orders)
        /\ LocksInv
    BY <1>1 DEF TypeOK, MoneyInv
  <2>3. /\ NoTx.priced = <<>> /\ NoTx.total = 0
        /\ \A n : NewTx(n).priced = <<>> /\ NewTx(n).total = 0
    BY DEF NoTx, NewTx
  <2>4. ASSUME Rollback(r), UNCHANGED orders,
               tx'[r].priced = <<>>, tx'[r].total = 0,
               pc'[r] \notin {"insert", "key", "commit"}
        PROVE  DraftsOK' /\ IsFiniteSet(orders)' /\ Conserved'
    BY <2>1, <2>2, <2>4, RollbackKeepsMoney DEF Rollback
  <2>5. ASSUME pc[r] \notin TxStates, UNCHANGED <<prod, acct, orders>>,
               tx'[r].priced = <<>>, tx'[r].total = 0,
               pc'[r] \notin {"insert", "key", "commit"}
        PROVE  DraftsOK' /\ IsFiniteSet(orders)' /\ Conserved'
    BY <2>1, <2>2, <2>5, RollbackKeepsMoney, NothingToRollback
  <2>6. pc[r] = "idle" => tx[r].priced = <<>> /\ tx[r].total = 0
    BY DEF MoneyInv, DraftsOK
  <2>7. CASE Call(r)
    <3>1. /\ pc[r] \notin TxStates /\ pc[r] = "idle"
          /\ UNCHANGED <<prod, acct, orders>>
      BY <2>7 DEF Call, db, TxStates
    <3>2. /\ tx'[r].priced = <<>> /\ tx'[r].total = 0
          /\ pc'[r] \notin {"insert", "key", "commit"}
      BY <2>2, <2>3, <2>6, <2>7, <3>1 DEF Call, Finish, Begin
    <3>3. QED  BY <2>5, <3>1, <3>2
  <2>8. CASE FindCommitted(r) \/ FindAgain(r)
    <3>1. pc[r] \notin TxStates /\ UNCHANGED <<prod, acct, orders>>
      BY <2>8 DEF FindCommitted, FindAgain, db, TxStates
    <3>2. /\ tx'[r].priced = <<>> /\ tx'[r].total = 0
          /\ pc'[r] \notin {"insert", "key", "commit"}
      BY <2>2, <2>3, <2>8 DEF FindCommitted, FindAgain, Finish, Begin
    <3>3. QED  BY <2>5, <3>1, <3>2
  <2>9. CASE UpdateProduct(r)
    <3>1. UNCHANGED orders
      BY <2>9 DEF UpdateProduct
    <3>2. QED  BY <2>1, <2>2, <2>9, <3>1, UpdateProductMoney
  <2>10. CASE DebitBalance(r)
    <3>1. UNCHANGED orders
      BY <2>10 DEF DebitBalance
    <3>2. QED  BY <2>1, <2>2, <2>10, <3>1, DebitMoney
  <2>11. CASE UNCHANGED orders /\ \E kind : Throw(r, kind)
    <3>1. Rollback(r) /\ tx'[r] = NoTx /\ pc'[r] = "done"
      BY <2>2, <2>11 DEF Throw, Finish
    <3>2. QED  BY <2>3, <2>4, <2>11, <3>1
  <2>12. CASE InsertOrderRows(r) /\ UNCHANGED <<prod, acct, answer>>
              /\ tx' = [tx EXCEPT ![r] = WithOrder(@, nextOrderId)]
              /\ pc' = [pc EXCEPT ![r] =
                          IF call[r].key = NoKey THEN "commit" ELSE "key"]
    <3>1. /\ pc[r] = "insert" /\ UNCHANGED <<orders, call>>
          /\ pc'[r] \in {"key", "commit"}
          /\ tx'[r].priced = tx[r].priced /\ tx'[r].total = tx[r].total
      BY <2>2, <2>12 DEF InsertOrderRows, WithOrder
    <3>2. QED  BY <2>1, <2>2, <2>12, <3>1, QuietKeepsMoney
  <2>13. CASE InsertKey(r)
    <3>1. pc[r] = "key" /\ UNCHANGED <<orders, call>>
      BY <2>13 DEF InsertKey
    <3>2. CASE Rollback(r) /\ pc' = [pc EXCEPT ![r] = "refind"]
               /\ tx' = [tx EXCEPT ![r] = NoTx]
      BY <2>2, <2>3, <2>4, <3>1, <3>2
    <3>3. CASE pc' = [pc EXCEPT ![r] = "commit"] /\ UNCHANGED <<prod, acct, tx>>
      BY <2>1, <2>2, <3>1, <3>3, QuietKeepsMoney
    <3>4. QED  BY <2>13, <3>2, <3>3 DEF InsertKey
  <2>14. CASE Commit(r) \/ CommitAckLost(r)
    <3>1. /\ pc[r] = "commit" /\ CommitRows(r) /\ UNCHANGED call
          /\ tx'[r] = NoTx /\ pc'[r] = "done"
      BY <2>2, <2>14 DEF Commit, CommitAckLost, Finish
    <3>2. QED  BY <2>1, <3>1, CommitMoney
  <2>15. CASE Rollback(r) /\ UNCHANGED orders /\ \E n : Begin(r, n)
    <3>1. /\ tx'[r].priced = <<>> /\ tx'[r].total = 0 /\ pc'[r] = "stock"
      BY <2>2, <2>3, <2>15 DEF Begin
    <3>2. QED  BY <2>4, <2>15, <3>1
  <2>16. QED
    BY <1>2, <2>7, <2>8, <2>9, <2>10, <2>11, <2>12, <2>13, <2>14, <2>15
    DEF Step, FaultStep, OutOfStock, DebitRefused, InsertOrderRows,
        RetryableFault, FatalFault
<1>3. CASE UNCHANGED vars
  <2>1. DraftsOK /\ IsFiniteSet(orders) /\ Conserved
    BY DEF MoneyInv
  <2>2. UNCHANGED <<prod, acct, orders, pc, call, tx>>
    BY <1>3 DEF vars
  <2>3. DraftsOK'
    BY <2>1, <2>2 DEF DraftsOK
  <2>4. Conserved'
    BY <2>1, <2>2, Zenon DEF Conserved
  <2>5. QED  BY <1>1, <2>1, <2>2, <2>3, <2>4 DEF MoneyInv
<1>4. QED  BY <1>1, <1>2, <1>3 DEF Next, AllDone, MoneyInv

(* MoneyInv holds in every reachable state. *)
LEMMA MoneyAlways == Spec => []MoneyInv
BY MoneyInit, MoneyStep, PTL DEF Spec

(***************************************************************************)
(* No stock and no money is lost or made: what is left and what committed  *)
(* orders took is what there was, for any number of concurrent calls, of   *)
(* rollbacks, of retries and of COMMITs whose answer is lost.              *)
(***************************************************************************)
THEOREM NothingIsLost == Spec => []Conserved
<1>1. MoneyInv => Conserved
  BY DEF MoneyInv
<1>2. QED  BY <1>1, MoneyAlways, PTL

-----------------------------------------------------------------------------
(* What the lines T of a request take of a product, and what they cost *)
Quantities(items) == [i \in DOMAIN items |-> items[i].quantity]
Prices(items) ==
  [i \in DOMAIN items |-> Price[items[i].productId] * items[i].quantity]
Bought(items, T, p) ==
  SumFunctionOnSet(Quantities(items), {i \in T : items[i].productId = p})
Charged(items, T) == SumFunctionOnSet(Prices(items), T)

(* The items whose UPDATE products has run *)
Billed(r) == DOMAIN call[r].items \ Pending(r)

(***************************************************************************)
(* A transaction has priced, at every moment, exactly the items that are   *)
(* not pending; past the updates none is.                                  *)
(***************************************************************************)
BillOf(r) ==
  /\ pc[r] = "idle" => call[r] = NoInput
  /\ pc[r] \notin {"idle", "done"} => call[r].items # <<>>
  /\ pc[r] \in TxStates =>
       /\ \A p \in Products : LineQuantity(tx[r].priced, p)
                                = Bought(call[r].items, Billed(r), p)
       /\ tx[r].total = Charged(call[r].items, Billed(r))
       /\ \A i \in Billed(r) : call[r].items[i].productId \in Active
       /\ pc[r] # "stock" => Pending(r) = {}
  /\ pc[r] \in {"key", "commit"} => ~call[r].failAfterOutbox

BillInv == MoneyInv /\ KeysInv /\ \A r \in Requests : BillOf(r)

(* The sums over part of a request are naturals, and at most the whole. *)
LEMMA BillSums ==
  ASSUME NEW items \in Seq(Items),
         \A i \in DOMAIN items : items[i].quantity >= 1,
         NEW T, T \subseteq DOMAIN items
  PROVE  /\ IsFiniteSet(T) /\ Charged(items, T) \in Nat
         /\ \A i \in DOMAIN items : /\ Quantities(items)[i] \in Nat
                                    /\ Prices(items)[i] \in Nat
         /\ \A p : /\ Bought(items, T, p) \in Nat
                   /\ Bought(items, T, p) <= Bought(items, DOMAIN items, p)
<1>1. DOMAIN items = 1..Len(items) /\ Len(items) \in Nat
  OBVIOUS
<1>2. IsFiniteSet(DOMAIN items)
  BY <1>1, FS_Interval
<1>3. IsFiniteSet(T)
  BY <1>2, FS_Subset
<1>4. ASSUME NEW i \in DOMAIN items
      PROVE  /\ Quantities(items)[i] \in Nat /\ Prices(items)[i] \in Nat
  <2>1. items[i] \in Items
    BY <1>1, ElementOfSeq
  <2>2. items[i].productId \in Products /\ items[i].quantity \in Nat
    BY <2>1 DEF Items
  <2>3. Price[items[i].productId] \in Nat
    BY <2>2, DataAssumption
  <2>4. Price[items[i].productId] * items[i].quantity \in Nat
    BY <2>2, <2>3
  <2>5. QED  BY <2>2, <2>4 DEF Quantities, Prices
<1>5. Charged(items, T) \in Nat
  BY <1>3, <1>4, SumType DEF Charged
<1>6. ASSUME NEW p
      PROVE  /\ Bought(items, T, p) \in Nat
             /\ Bought(items, T, p) <= Bought(items, DOMAIN items, p)
  <2> DEFINE A == {i \in T : items[i].productId = p}
             B == {i \in DOMAIN items : items[i].productId = p}
  <2>1. /\ IsFiniteSet(A) /\ IsFiniteSet(B) /\ A \subseteq B
        /\ \A i \in B : Quantities(items)[i] \in Nat
    BY <1>2, <1>3, <1>4, FS_Subset
  <2>2. SumFunctionOnSet(Quantities(items), A) \in Nat
        /\ SumFunctionOnSet(Quantities(items), A)
             <= SumFunctionOnSet(Quantities(items), B)
    <3> HIDE DEF A, B
    <3>1. QED  BY <2>1, SumType, SumMonotone
  <2>3. QED  BY <2>2 DEF Bought
<1>7. QED  BY <1>3, <1>4, <1>5, <1>6

(* One more item adds its quantity and its price. *)
LEMMA BillAdds ==
  ASSUME NEW items \in Seq(Items),
         \A i \in DOMAIN items : items[i].quantity >= 1,
         NEW T, T \subseteq DOMAIN items, NEW a \in DOMAIN items, a \notin T
  PROVE  /\ Charged(items, T \cup {a}) = Charged(items, T)
              + Price[items[a].productId] * items[a].quantity
         /\ \A p : Bought(items, T \cup {a}, p) = Bought(items, T, p)
              + (IF items[a].productId = p THEN items[a].quantity ELSE 0)
<1> DEFINE q == Quantities(items)
           t == Prices(items)
<1>0. /\ IsFiniteSet(T) /\ \A i \in DOMAIN items : q[i] \in Nat /\ t[i] \in Nat
      /\ \A p : Bought(items, T, p) \in Nat
  BY BillSums
<1>1. \A i \in DOMAIN items : q[i] \in Int /\ t[i] \in Int
  BY <1>0
<1>2. /\ Quantities(items)[a] = items[a].quantity
      /\ Prices(items)[a] = Price[items[a].productId] * items[a].quantity
  BY DEF Quantities, Prices
<1>3. Charged(items, T \cup {a}) = Charged(items, T) + t[a]
  <2>1. IsFiniteSet(T) /\ a \notin T /\ \A x \in T \cup {a} : t[x] \in Int
    BY <1>0, <1>1
  <2> HIDE DEF t
  <2>2. SumFunctionOnSet(t, T \cup {a}) = SumFunctionOnSet(t, T) + t[a]
    BY ONLY <2>1, SumOneMore
  <2>3. QED  BY <2>2 DEF Charged, t
<1>4. ASSUME NEW p
      PROVE  Bought(items, T \cup {a}, p) = Bought(items, T, p)
               + (IF items[a].productId = p THEN items[a].quantity ELSE 0)
  <2> DEFINE A == {i \in T : items[i].productId = p}
             B == {i \in T \cup {a} : items[i].productId = p}
  <2>1. /\ IsFiniteSet(A) /\ a \notin A
        /\ \A i \in A \cup {a} : q[i] \in Int
        /\ B = IF items[a].productId = p THEN A \cup {a} ELSE A
    BY <1>0, <1>1, FS_Subset
  <2>2. /\ Bought(items, T, p) = SumFunctionOnSet(q, A)
        /\ Bought(items, T \cup {a}, p) = SumFunctionOnSet(q, B)
    BY DEF Bought
  <2>3. q[a] = items[a].quantity
    BY <1>2
  <2> HIDE DEF A, B, q
  <2>4. SumFunctionOnSet(q, A \cup {a}) = SumFunctionOnSet(q, A) + q[a]
    BY ONLY <2>1, SumOneMore
  <2>5. QED  BY <1>0, <2>1, <2>2, <2>3, <2>4
<1>5. QED  BY <1>2, <1>3, <1>4

(* Both specifications sum in the same way. *)
LEMMA SameSum ==
  \A f, S : Atomic!SumFunctionOnSet(f, S) = SumFunctionOnSet(f, S)
BY DEF Atomic!SumFunctionOnSet, Atomic!FoldFunctionOnSet,
   Atomic!MapThenFoldSet, SumFunctionOnSet, FoldFunctionOnSet, MapThenFoldSet

(* What an order takes and costs, in the abstract specification. *)
LEMMA DemandAndCost ==
  ASSUME NEW items
  PROVE  /\ \A p : Atomic!Demand(items, p) = Bought(items, DOMAIN items, p)
         /\ Atomic!Cost(items) = Charged(items, DOMAIN items)
<1>1. ASSUME NEW p
      PROVE  Atomic!Demand(items, p) = Bought(items, DOMAIN items, p)
  BY SameSum DEF Atomic!Demand, Bought, Quantities
<1>2. DOMAIN Prices(items) = DOMAIN items
  BY DEF Prices
<1>3. Atomic!Cost(items) = Atomic!SumFunctionOnSet(Prices(items),
                                                   DOMAIN Prices(items))
  BY DEF Atomic!Cost, Prices, Atomic!SumFunction
<1>4. QED  BY <1>1, <1>2, <1>3, SameSum DEF Charged

(* The bill of a call is its own. *)
LEMMA OtherBills ==
  ASSUME NEW r \in Requests, OthersKept(r), NEW q \in Requests \ {r}, BillOf(q)
  PROVE  BillOf(q)'
<1>1. pc'[q] = pc[q] /\ call'[q] = call[q] /\ tx'[q] = tx[q]
  BY DEF OthersKept
<1>2. Pending(q)' = Pending(q)
  BY <1>1 DEF Pending
<1>3. Billed(q)' = Billed(q)
  BY <1>1, <1>2 DEF Billed
<1>4. QED  BY <1>1, <1>2, <1>3 DEF BillOf

(* A transaction begins with everything pending. *)
LEMMA BillStarts ==
  ASSUME NEW r \in Requests, pc'[r] = "stock", tx'[r].priced = <<>>,
         tx'[r].total = 0, call'[r].items # <<>>
  PROVE  BillOf(r)'
<1>1. DOMAIN <<>> = {}
  OBVIOUS
<1>2. Billed(r)' = {}
  BY <1>1 DEF Billed, Pending
<1>3. Charged(call'[r].items, {}) = 0
  BY SumEmpty DEF Charged
<1>4. ASSUME NEW p PROVE Bought(call'[r].items, {}, p) = 0
  <2>1. {i \in {} : call'[r].items[i].productId = p} = {}
    OBVIOUS
  <2>2. QED  BY <2>1, SumEmpty DEF Bought
<1>5. QED  BY <1>2, <1>3, <1>4, NoLines DEF BillOf

(* Outside a transaction there is no bill. *)
LEMMA BillEnds ==
  ASSUME NEW r \in Requests, pc'[r] \in {"find", "refind", "done"},
         pc'[r] # "done" => call'[r].items # <<>>
  PROVE  BillOf(r)'
BY DEF BillOf, TxStates

(* After the updates the bill does not change. *)
LEMMA BillStays ==
  ASSUME NEW r \in Requests, BillOf(r), pc[r] \in {"debit", "insert", "key"},
         pc'[r] \in {"insert", "key", "commit"}, call' = call,
         tx'[r].priced = tx[r].priced, tx'[r].total = tx[r].total,
         pc[r] = "key" \/ pc'[r] = "insert" \/ ~call[r].failAfterOutbox
  PROVE  BillOf(r)'
<1>1. Pending(r)' = Pending(r) /\ Billed(r)' = Billed(r)
  BY DEF Pending, Billed
<1>2. QED  BY <1>1 DEF BillOf, TxStates

(* UPDATE products moves one item from the pending ones to the bill. *)
LEMMA BillGrows ==
  ASSUME TypeInv, NEW r \in Requests, BillOf(r), UpdateProduct(r)
  PROVE  BillOf(r)'
<1>0. TypeOK /\ pc[r] = "stock"
  BY DEF TypeInv, UpdateProduct
<1>1. PICK i \in Pending(r) :
        LET item == call[r].items[i]
            p    == item.productId
            line == [index |-> i, productId |-> p,
                     quantity |-> item.quantity, unitPrice |-> Price[p]]
        IN  /\ RowSells(r, item)
            /\ tx' = [tx EXCEPT ![r] = WithLine(@, line)]
            /\ pc' = [pc EXCEPT ![r] =
                        IF Pending(r) = {i} THEN "debit" ELSE "stock"]
  BY DEF UpdateProduct
<1> DEFINE items == call[r].items
           p == items[i].productId
           lines == tx[r].priced
           line == [index |-> i, productId |-> p,
                    quantity |-> items[i].quantity, unitPrice |-> Price[p]]
<1>2. /\ i \in DOMAIN items /\ i \in Nat /\ p \in Products
      /\ items[i].quantity \in Nat /\ Price[p] \in Nat
      /\ items \in Seq(Items)
      /\ \A j \in DOMAIN items : items[j].quantity >= 1
  BY <1>0, CallTypes, ItemTypes, DataAssumption DEF Pending, TypeInv, CallsOK
<1>3. line \in LineType /\ lines \in Seq(LineType) /\ tx[r].total \in Nat
  BY <1>0, <1>2 DEF LineType, TypeOK, TxType
<1>4. /\ tx'[r].priced = Append(lines, line)
      /\ tx'[r].total = tx[r].total + Price[p] * items[i].quantity
      /\ pc'[r] = IF Pending(r) = {i} THEN "debit" ELSE "stock"
      /\ call' = call
  BY <1>0, <1>1 DEF WithLine, TypeOK, UpdateProduct
<1>5. Pending(r)' = Pending(r) \ {i}
  <2> DEFINE more == Append(lines, line)
  <2>1. /\ DOMAIN more = DOMAIN lines \cup {Len(lines) + 1}
        /\ \A n \in DOMAIN lines : more[n] = lines[n]
        /\ more[Len(lines) + 1] = line
    BY <1>3
  <2>2. line.index = i
    OBVIOUS
  <2> HIDE DEF line, more
  <2>3. {more[n].index : n \in DOMAIN more}
          = {lines[n].index : n \in DOMAIN lines} \cup {i}
    BY <2>1, <2>2
  <2>4. QED  BY <1>4, <2>3 DEF Pending, more
<1>6. /\ i \notin Billed(r) /\ Billed(r) \subseteq DOMAIN items
      /\ Billed(r)' = Billed(r) \cup {i}
  BY <1>2, <1>4, <1>5 DEF Billed
<1>7. ASSUME NEW s \in Products
      PROVE  LineQuantity(tx'[r].priced, s) = Bought(items, Billed(r)', s)
  <2>1. line.productId = p /\ line.quantity = items[i].quantity
    OBVIOUS
  <2> HIDE DEF line
  <2>2. LineQuantity(Append(lines, line), s) = LineQuantity(lines, s)
          + (IF line.productId = s THEN line.quantity ELSE 0)
    BY <1>3, OneMoreLine
  <2>3. LineQuantity(lines, s) = Bought(items, Billed(r), s)
    BY <1>0 DEF BillOf, TxStates
  <2>4. Bought(items, Billed(r) \cup {i}, s) = Bought(items, Billed(r), s)
          + (IF p = s THEN items[i].quantity ELSE 0)
    <3> DEFINE T == Billed(r)
    <3>1. /\ items \in Seq(Items) /\ i \in DOMAIN items
          /\ T \subseteq DOMAIN items /\ i \notin T
          /\ \A j \in DOMAIN items : items[j].quantity >= 1
      BY <1>2, <1>6
    <3> HIDE DEF items, T
    <3>2. \A x : Bought(items, T \cup {i}, x) = Bought(items, T, x)
                  + (IF items[i].productId = x THEN items[i].quantity ELSE 0)
      BY ONLY <3>1, BillAdds
    <3>3. QED  BY <3>2 DEF T
  <2>5. QED  BY <1>4, <1>6, <2>1, <2>2, <2>3, <2>4
<1>8. tx'[r].total = Charged(items, Billed(r)')
  <2>1. Charged(items, Billed(r) \cup {i})
          = Charged(items, Billed(r)) + Price[p] * items[i].quantity
    BY <1>2, <1>6, BillAdds
  <2>2. tx[r].total = Charged(items, Billed(r))
    BY <1>0 DEF BillOf, TxStates
  <2>3. QED  BY <1>4, <1>6, <2>1, <2>2
<1>9. \A j \in Billed(r)' : items[j].productId \in Active
  BY <1>0, <1>1, <1>6 DEF BillOf, TxStates, RowSells
<1>10. /\ pc'[r] \in {"stock", "debit"} /\ items # <<>>
       /\ pc'[r] # "stock" => Pending(r)' = {}
  BY <1>0, <1>4, <1>5 DEF BillOf
<1>11. QED  BY <1>4, <1>7, <1>8, <1>9, <1>10 DEF BillOf

(* BillInv holds at the start. *)
LEMMA BillInit == Init => BillInv
<1> SUFFICES ASSUME Init PROVE BillInv
  OBVIOUS
<1>1. MoneyInv /\ KeysInv
  BY MoneyInit, KeysInit
<1>2. \A r \in Requests : pc[r] = "idle" /\ call[r] = NoInput
  BY DEF Init
<1>3. \A r \in Requests : BillOf(r)
  BY <1>2 DEF BillOf, TxStates
<1>4. QED  BY <1>1, <1>3 DEF BillInv

(* Every step preserves BillInv. *)
LEMMA BillStep == BillInv /\ [Next]_vars => BillInv'
<1> SUFFICES ASSUME BillInv, [Next]_vars PROVE BillInv'
  OBVIOUS
<1>1. /\ MoneyInv' /\ KeysInv' /\ TypeInv /\ TypeOK
      /\ DOMAIN pc = Requests /\ DOMAIN tx = Requests /\ DOMAIN call = Requests
  BY MoneyStep, KeysStep
  DEF BillInv, KeysInv, OrdersInv, TypeInv, TypeOK
<1>2. /\ NoTx.priced = <<>> /\ NoTx.total = 0
      /\ \A n : NewTx(n).priced = <<>> /\ NewTx(n).total = 0
  BY DEF NoTx, NewTx
<1>3. ASSUME NEW r \in Requests, Call(r) \/ Step(r) \/ FaultStep(r)
      PROVE  BillOf(r)'
  <2>1. BillOf(r) /\ (pc[r] \notin {"idle", "done"} => call[r].items # <<>>)
    BY DEF BillInv, BillOf
  <2>2. CASE Call(r)
    <3>1. PICK in \in Inputs :
            /\ call' = [call EXCEPT ![r] = in]
            /\ \/ Finish(r, Answer("Invalid"))
               \/ /\ in.items # <<>>
                  /\ IF in.key = NoKey
                     THEN Begin(r, 1)
                     ELSE pc' = [pc EXCEPT ![r] = "find"] /\ UNCHANGED tx
      BY <2>2 DEF Call
    <3>2. call'[r] = in
      BY <1>1, <3>1
    <3>3. CASE Finish(r, Answer("Invalid"))
      BY <1>1, <3>3, BillEnds DEF Finish
    <3>4. CASE in.items # <<>> /\ Begin(r, 1)
      BY <1>1, <1>2, <3>2, <3>4, BillStarts DEF Begin
    <3>5. CASE in.items # <<>> /\ pc' = [pc EXCEPT ![r] = "find"]
      BY <1>1, <3>2, <3>5, BillEnds
    <3>6. QED  BY <3>1, <3>3, <3>4, <3>5
  <2>3. CASE \E a : Finish(r, a)
    BY <1>1, <2>3, BillEnds DEF Finish
  <2>4. CASE pc[r] \notin {"idle", "done"} /\ call' = call /\ \E n : Begin(r, n)
    BY <1>1, <1>2, <2>1, <2>4, BillStarts DEF Begin
  <2>5. CASE UpdateProduct(r)
    BY <1>1, <2>1, <2>5, BillGrows
  <2>6. CASE DebitBalance(r)
    BY <1>1, <2>1, <2>6, BillStays DEF DebitBalance
  <2>7. CASE InsertOrderRows(r)
    <3>1. CASE /\ ~call[r].failAfterOutbox
               /\ tx' = [tx EXCEPT ![r] = WithOrder(@, nextOrderId)]
               /\ pc' = [pc EXCEPT ![r] =
                           IF call[r].key = NoKey THEN "commit" ELSE "key"]
      <4>1. /\ tx'[r].priced = tx[r].priced /\ tx'[r].total = tx[r].total
            /\ pc'[r] \in {"key", "commit"}
        BY <1>1, <3>1 DEF WithOrder
      <4>2. pc[r] = "insert" /\ call' = call
        BY <2>7 DEF InsertOrderRows
      <4>3. QED  BY <2>1, <3>1, <4>1, <4>2, BillStays
    <3>2. QED  BY <2>3, <2>7, <3>1 DEF InsertOrderRows, Throw
  <2>8. CASE InsertKey(r)
    <3>1. pc[r] = "key" /\ call' = call
      BY <2>8 DEF InsertKey
    <3>2. CASE pc' = [pc EXCEPT ![r] = "refind"]
      BY <1>1, <2>1, <3>1, <3>2, BillEnds
    <3>3. CASE pc' = [pc EXCEPT ![r] = "commit"] /\ UNCHANGED tx
      BY <1>1, <2>1, <3>1, <3>3, BillStays
    <3>4. QED  BY <2>8, <3>2, <3>3 DEF InsertKey
  <2>9. CASE FindCommitted(r) \/ FindAgain(r)
    BY <2>3, <2>4, <2>9 DEF FindCommitted, FindAgain
  <2>10. CASE RetryableFault(r)
    BY <2>3, <2>4, <2>10 DEF RetryableFault, Throw, TxStates
  <2>11. QED
    BY <1>3, <2>2, <2>3, <2>5, <2>6, <2>7, <2>8, <2>9, <2>10
    DEF Step, FaultStep, OutOfStock, DebitRefused, Commit, CommitAckLost,
        FatalFault, Throw
<1>4. ASSUME NEW r \in Requests, Call(r) \/ Step(r) \/ FaultStep(r),
             NEW q \in Requests
      PROVE  BillOf(q)'
  <2>1. OthersKept(r)
    BY <1>1, <1>4, StepsKeepOthers
  <2>2. q # r => BillOf(q)'
    BY <2>1, OtherBills DEF BillInv
  <2>3. QED  BY <1>3, <1>4, <2>2
<1>5. CASE UNCHANGED vars
  <2>1. UNCHANGED <<pc, call, tx>>
    BY <1>5 DEF vars
  <2>2. ASSUME NEW q \in Requests PROVE BillOf(q)'
    <3>1. BillOf(q)
      BY DEF BillInv
    <3>2. Pending(q)' = Pending(q) /\ Billed(q)' = Billed(q)
      BY <2>1 DEF Pending, Billed
    <3>3. QED  BY <2>1, <3>1, <3>2 DEF BillOf
  <2>3. QED  BY <1>1, <2>2 DEF BillInv
<1>6. QED  BY <1>1, <1>4, <1>5 DEF Next, AllDone, BillInv

(* BillInv holds in every reachable state. *)
LEMMA BillAlways == Spec => []BillInv
BY BillInit, BillStep, PTL DEF Spec

-----------------------------------------------------------------------------
(* The abstract state of CheckoutRefinement, by name *)
Owned(k) == [user |-> k.user, key |-> k.key, hash |-> k.hash,
             by |-> CHOOSE r \in MadeBy(k.orderId) : TRUE]
Told(r) == [kind |-> answer[r].kind,
            by |-> IF answer[r].kind \in {"fresh", "replay"}
                   THEN MadeBy(answer[r].orderId) ELSE {}]
Stock == [p \in Products |-> prod[p].val]
Balance == [u \in Users |-> acct[u].val]
Placed == {o.by : o \in orders}
Taken == {Owned(k) : k \in keys}
Outcome == [r \in Requests |-> Told(r)]

(* A call that is under way runs in the abstract specification too. *)
LEMMA RunningMaps ==
  ASSUME BillInv, NEW r \in Requests, pc[r] \notin {"idle", "done"}
  PROVE  /\ Atomic!Running(r) /\ call[r] # NoInput
         /\ Told(r) = [kind |-> "none", by |-> {}]
<1>1. answer[r].kind = "none"
  BY DEF BillInv, KeysInv, OrdersInv, IdsOK
<1>2. Told(r) = [kind |-> "none", by |-> {}]
  BY <1>1 DEF Told
<1>3. call[r] # NoInput
  <2>1. call[r].items # <<>>
    BY DEF BillInv, BillOf
  <2>2. QED  BY <2>1 DEF NoInput
<1>4. Atomic!Running(r)
  BY <1>2, <1>3 DEF Atomic!Running, Atomic!Pending, Told
<1>5. QED  BY <1>2, <1>3, <1>4

(* A step that commits nothing changes at most its own outcome. *)
LEMMA OutcomeMaps ==
  ASSUME NEW r \in Requests, OthersKept(r), orders' = orders, keys' = keys
  PROVE  /\ Placed' = Placed /\ Taken' = Taken
         /\ Outcome' = [Outcome EXCEPT ![r] = Told(r)']
<1>1. \A i : MadeBy(i)' = MadeBy(i)
  BY DEF MadeBy
<1>2. \A k : Owned(k)' = Owned(k)
  BY <1>1 DEF Owned
<1>3. \A q \in Requests \ {r} : Told(q)' = Told(q)
  BY <1>1 DEF Told, OthersKept
<1>4. Outcome' = [Outcome EXCEPT ![r] = Told(r)']
  BY <1>3 DEF Outcome
<1>5. QED  BY <1>2, <1>4 DEF Placed, Taken

(* No committed version changes in a rollback. *)
LEMMA RollbackMaps ==
  ASSUME TypeOK, NEW r \in Requests, Rollback(r)
  PROVE  Stock' = Stock /\ Balance' = Balance
<1>1. \A p \in Products : prod'[p].val = prod[p].val
  BY RowFields DEF TypeOK, Rollback
<1>2. \A u \in Users : acct'[u].val = acct[u].val
  BY RowFields DEF TypeOK, Rollback
<1>3. QED  BY <1>1, <1>2 DEF Stock, Balance

(* An outcome there is a reason for, and nothing else, is a refusal. *)
LEMMA RefuseMaps ==
  ASSUME BillInv, NEW r \in Requests, OthersKept(r),
         pc[r] \notin {"idle", "done"}, orders' = orders, keys' = keys,
         call' = call, Stock' = Stock, Balance' = Balance,
         Told(r)' \in Atomic!Refusals(call[r])
  PROVE  Atomic!Refuse(r)
<1>1. /\ Placed' = Placed /\ Taken' = Taken
      /\ Outcome' = [Outcome EXCEPT ![r] = Told(r)']
  BY OutcomeMaps
<1>2. Atomic!Running(r)
  BY RunningMaps
<1>3. QED
  BY <1>1, <1>2
  DEF Atomic!Refuse, Stock, Balance, Placed, Taken, Outcome, Owned, Told

(* A step that leaves the answer alone is a stutter. *)
LEMMA StutterMaps ==
  ASSUME BillInv, NEW r \in Requests, OthersKept(r), orders' = orders,
         keys' = keys, call' = call, Stock' = Stock, Balance' = Balance,
         answer' = answer
  PROVE  UNCHANGED Atomic!vars
<1>1. /\ Placed' = Placed /\ Taken' = Taken
      /\ Outcome' = [Outcome EXCEPT ![r] = Told(r)']
  BY OutcomeMaps
<1>2. \A i : MadeBy(i)' = MadeBy(i)
  BY DEF MadeBy
<1>3. Told(r)' = Told(r)
  BY <1>2 DEF Told
<1>4. Outcome' = Outcome
  BY <1>1, <1>3 DEF Outcome
<1>5. QED
  BY <1>1, <1>4
  DEF Atomic!vars, Stock, Balance, Placed, Taken, Outcome, Owned, Told

(* The argument checks are the start of the abstract call. *)
LEMMA CallMaps ==
  ASSUME BillInv, NEW r \in Requests, OthersKept(r), Call(r)
  PROVE  Atomic!Start(r)
<1>0. TypeOK /\ pc[r] = "idle"
  BY DEF BillInv, KeysInv, OrdersInv, TypeInv, Call
<1>1. PICK in \in Inputs :
        /\ call' = [call EXCEPT ![r] = in]
        /\ \/ /\ \/ in.items = <<>>
                 \/ \E i \in DOMAIN in.items : in.items[i].quantity < 1
              /\ Finish(r, Answer("Invalid"))
           \/ /\ in.items # <<>>
              /\ \A i \in DOMAIN in.items : in.items[i].quantity >= 1
              /\ UNCHANGED answer
  BY DEF Call
<1>2. UNCHANGED <<prod, acct, orders, keys>>
  BY DEF Call, db
<1>3. /\ Placed' = Placed /\ Taken' = Taken
      /\ Outcome' = [Outcome EXCEPT ![r] = Told(r)']
  BY <1>2, OutcomeMaps
<1>4. Stock' = Stock /\ Balance' = Balance
  BY <1>2 DEF Stock, Balance
<1>5. call[r] = NoInput
  BY <1>0 DEF BillInv, BillOf
<1>6. answer[r].kind = "none"
  BY <1>0 DEF BillInv, KeysInv, OrdersInv, IdsOK
<1>7. Outcome[r] = [kind |-> "none", by |-> {}]
  BY <1>6 DEF Outcome, Told
<1>8. Outcome' = IF Atomic!Valid(in) THEN Outcome
                 ELSE [Outcome EXCEPT ![r].kind = "Invalid"]
  <2>1. ASSUME NEW i \in DOMAIN in.items PROVE in.items[i].quantity \in Int
    <3>1. in.items \in Seq(Items)
      BY DataAssumption DEF InputType
    <3>2. in.items[i] \in Items
      BY <3>1, ElementOfSeq
    <3>3. QED  BY <3>2 DEF Items
  <2>2. CASE /\ \/ in.items = <<>>
                \/ \E i \in DOMAIN in.items : in.items[i].quantity < 1
             /\ Finish(r, Answer("Invalid"))
    <3>1. ~Atomic!Valid(in)
      BY <2>1, <2>2 DEF Atomic!Valid
    <3>2. Told(r)' = [kind |-> "Invalid", by |-> {}]
      BY <1>0, <2>2 DEF Finish, Answer, Told, TypeOK
    <3>3. [Outcome EXCEPT ![r].kind = "Invalid"]
            = [Outcome EXCEPT ![r] = [kind |-> "Invalid", by |-> {}]]
      <4>1. [Outcome[r] EXCEPT !.kind = "Invalid"]
              = [kind |-> "Invalid", by |-> {}]
        BY <1>7
      <4>2. [Outcome EXCEPT ![r].kind = "Invalid"]
              = [Outcome EXCEPT ![r] = [Outcome[r] EXCEPT !.kind = "Invalid"]]
        BY Zenon
      <4>3. QED  BY <4>1, <4>2, Zenon
    <3>4. QED  BY <1>3, <3>1, <3>2, <3>3
  <2>3. CASE /\ in.items # <<>>
             /\ \A i \in DOMAIN in.items : in.items[i].quantity >= 1
             /\ UNCHANGED answer
    <3>1. Atomic!Valid(in)
      BY <2>3 DEF Atomic!Valid
    <3>2. Told(r)' = Outcome[r]
      BY <1>6, <1>7, <2>3 DEF Told
    <3>3. QED  BY <1>3, <3>1, <3>2 DEF Outcome
  <2>4. QED  BY <1>1, <2>2, <2>3
<1>9. QED
  BY <1>1, <1>3, <1>4, <1>5, <1>8
  DEF Atomic!Start, Stock, Balance, Placed, Taken, Outcome, Owned, Told

(* An error without a name needs no reason. *)
LEMMA ThrowMaps ==
  ASSUME BillInv, NEW r \in Requests, OthersKept(r),
         pc[r] \notin {"idle", "done"}, orders' = orders, keys' = keys,
         call' = call, NEW kind, Throw(r, kind), kind \notin {"fresh", "replay"},
         [kind |-> kind, by |-> {}] \in Atomic!Refusals(call[r])
  PROVE  Atomic!Refuse(r)
<1>0. TypeOK
  BY DEF BillInv, KeysInv, OrdersInv, TypeInv
<1>1. Stock' = Stock /\ Balance' = Balance
  BY <1>0, RollbackMaps DEF Throw
<1>2. Told(r)' = [kind |-> kind, by |-> {}]
  BY <1>0 DEF Throw, Finish, Answer, Told, TypeOK
<1>3. QED  BY <1>1, <1>2, RefuseMaps

(* UPDATE products finds no row because the whole request is not there. *)
LEMMA NoRowMaps ==
  ASSUME BillInv, NEW r \in Requests, OthersKept(r), pc[r] = "stock",
         UNCHANGED <<orders, keys, call>>, Throw(r, "OutOfStock"),
         NEW i \in Pending(r), ~RowSells(r, call[r].items[i])
  PROVE  Atomic!Refuse(r)
<1> DEFINE items == call[r].items
<1>0. /\ TypeInv /\ TypeOK /\ pc[r] = "stock" /\ Throw(r, "OutOfStock")
      /\ orders' = orders /\ keys' = keys /\ call' = call /\ BillOf(r)
  BY DEF BillInv, KeysInv, OrdersInv, TypeInv
<1>1. ~RowSells(r, items[i])
  OBVIOUS
<1> DEFINE p == items[i].productId
           T == Billed(r)
<1>2. /\ i \in DOMAIN items /\ p \in Products
      /\ items[i].quantity \in Nat /\ items[i].quantity >= 1
      /\ items \in Seq(Items)
      /\ \A j \in DOMAIN items : items[j].quantity >= 1
      /\ T \subseteq DOMAIN items /\ i \notin T
      /\ T \cup {i} \subseteq DOMAIN items
  BY <1>0, CallTypes, ItemTypes DEF Pending, Billed, TypeInv, CallsOK
<1>3. /\ Bought(items, T, p) \in Nat
      /\ Bought(items, T, p) + items[i].quantity
           <= Bought(items, DOMAIN items, p)
      /\ Bought(items, DOMAIN items, p) \in Nat
  <2> HIDE DEF items, T
  <2>1. Bought(items, T \cup {i}, p)
          = Bought(items, T, p) + items[i].quantity
    <3>1. \A x : Bought(items, T \cup {i}, x) = Bought(items, T, x)
                 + (IF items[i].productId = x THEN items[i].quantity ELSE 0)
      BY ONLY <1>2, BillAdds
    <3>2. QED  BY <3>1
  <2>2. Bought(items, T \cup {i}, p) <= Bought(items, DOMAIN items, p)
    BY ONLY <1>2, BillSums
  <2>3. /\ Bought(items, T, p) \in Nat
        /\ Bought(items, DOMAIN items, p) \in Nat
    BY ONLY <1>2, BillSums
  <2>4. QED  BY <2>1, <2>2, <2>3
<1>4. /\ prod[p].val \in Nat /\ prod[p].draft \in Nat
      /\ Visible(prod[p], r) = prod[p].val - Bought(items, T, p)
  <2>1. prod[p] \in RowType
    BY <1>0, <1>2 DEF TypeOK
  <2>2. Bought(items, T, p) =
          IF prod[p].owner = r THEN prod[p].val - prod[p].draft ELSE 0
    BY <1>0, <1>2 DEF BillInv, MoneyInv, DraftsOK, BillOf, TxStates
  <2>3. QED  BY <2>1, <2>2 DEF RowType, Visible
<1>5. ~Atomic!InStock(call[r])
  <2>1. \/ p \notin Active
        \/ ~(prod[p].val - Bought(items, T, p) >= items[i].quantity)
    BY <1>1, <1>4 DEF RowSells
  <2>2. \/ p \notin Active /\ Bought(items, DOMAIN items, p) > 0
        \/ ~(Bought(items, DOMAIN items, p) <= prod[p].val)
    BY <1>2, <1>3, <1>4, <2>1
  <2>3. QED  BY <1>2, <2>2, DemandAndCost DEF Atomic!InStock
<1>6. [kind |-> "OutOfStock", by |-> {}] \in Atomic!Refusals(call[r])
  BY <1>5 DEF Atomic!Refusals
<1>7. QED  BY <1>0, <1>6, ThrowMaps

(* A statement that fails on its quantity needs no reason. *)
LEMMA OutOfStockMaps ==
  ASSUME BillInv, NEW r \in Requests, OthersKept(r), OutOfStock(r)
  PROVE  Atomic!Refuse(r)
<1>0. /\ TypeOK /\ pc[r] = "stock" /\ UNCHANGED <<orders, keys, call>>
  BY DEF BillInv, KeysInv, OrdersInv, TypeInv, OutOfStock
<1>1. CASE Throw(r, "Error")
  <2>1. [kind |-> "Error", by |-> {}] \in Atomic!Refusals(call[r])
    BY DEF Atomic!Refusals
  <2>2. QED  BY <1>0, <1>1, <2>1, ThrowMaps
<1>2. CASE \E i \in Pending(r) :
             ~RowSells(r, call[r].items[i]) /\ Throw(r, "OutOfStock")
  BY <1>0, <1>2, NoRowMaps
<1>3. QED  BY <1>1, <1>2 DEF OutOfStock

(* UPDATE users finds no row because the whole request costs too much. *)
LEMMA DebitRefusedMaps ==
  ASSUME BillInv, NEW r \in Requests, OthersKept(r), DebitRefused(r)
  PROVE  Atomic!Refuse(r)
<1>0. /\ TypeInv /\ TypeOK /\ pc[r] = "debit"
      /\ orders' = orders /\ keys' = keys /\ call' = call /\ BillOf(r)
  BY DEF BillInv, KeysInv, OrdersInv, TypeInv, DebitRefused
<1>1. CASE Throw(r, "Error")
  <2>1. [kind |-> "Error", by |-> {}] \in Atomic!Refusals(call[r])
    BY DEF Atomic!Refusals
  <2>2. QED  BY <1>0, <1>1, <2>1, ThrowMaps
<1>2. CASE /\ Visible(acct[call[r].user], r) < tx[r].total
           /\ Throw(r, "InsufficientFunds")
  <2>1. call[r].user \in Users
    BY <1>0, CallTypes
  <2>2. Visible(acct[call[r].user], r) = acct[call[r].user].val
        /\ acct[call[r].user].val \in Nat /\ tx[r].total \in Nat
    BY <1>0, <2>1
    DEF BillInv, MoneyInv, LocksInv, LocksOK, Visible, TypeOK, RowType, TxType
  <2>3. tx[r].total = Charged(call[r].items, DOMAIN call[r].items)
    BY <1>0 DEF BillOf, TxStates, Billed
  <2>4. ~Atomic!Affordable(call[r])
    BY <1>2, <2>1, <2>2, <2>3, DemandAndCost DEF Atomic!Affordable
  <2>5. [kind |-> "InsufficientFunds", by |-> {}] \in Atomic!Refusals(call[r])
    BY <2>4 DEF Atomic!Refusals
  <2>6. QED  BY <1>0, <1>2, <2>5, ThrowMaps
<1>3. QED  BY <1>1, <1>2 DEF DebitRefused

(* A replay names the owner of the key. *)
LEMMA ReplayMaps ==
  ASSUME BillInv, NEW r \in Requests, OthersKept(r),
         pc[r] \in {"find", "refind"}, UNCHANGED <<db, call>>,
         NEW ko \in Found(call[r]),
         Finish(r, ReplayAnswer(ko[1], ko[2], call[r]))
  PROVE  Atomic!Refuse(r)
<1> DEFINE k == ko[1]
           o == ko[2]
<1>0. TypeOK
  BY DEF BillInv, KeysInv, OrdersInv, TypeInv
<1>1. /\ k \in keys /\ o \in orders /\ k.user = call[r].user
      /\ k.key = call[r].key /\ o.id = k.orderId
  BY DEF Found
<1>2. UNCHANGED <<prod, acct, orders, keys, call>>
  BY DEF db
<1>3. Stock' = Stock /\ Balance' = Balance
  BY <1>2 DEF Stock, Balance
<1>4. MadeBy(k.orderId) = {o.by}
  BY <1>1 DEF BillInv, KeysInv, OrdersInv, OutboxMatchesOrders, MadeBy
<1>5. Owned(k) = [user |-> k.user, key |-> k.key, hash |-> k.hash, by |-> o.by]
  BY <1>4 DEF Owned
<1>6. Owned(k) \in Atomic!Owners(call[r])
  <2>1. Owned(k) \in Taken
    BY <1>1 DEF Taken
  <2>2. Owned(k).user = call[r].user /\ Owned(k).key = call[r].key
    BY <1>1, <1>5
  <2>3. QED  BY <2>1, <2>2 DEF Atomic!Owners, Taken, Owned
<1>7. Told(r)' = IF call[r].hash \in {NoHash, k.hash}
                 THEN [kind |-> "replay", by |-> {o.by}]
                 ELSE [kind |-> "IdempotencyKeyConflict", by |-> {}]
  <2>1. answer'[r] = ReplayAnswer(k, o, call[r])
    BY <1>0 DEF Finish, TypeOK
  <2>2. MadeBy(o.id)' = {o.by}
    BY <1>1, <1>2, <1>4 DEF MadeBy
  <2>3. CASE SameIntent(k.hash, call[r].hash)
    <3>1. answer'[r].kind = "replay" /\ answer'[r].orderId = o.id
      BY <2>1, <2>3 DEF ReplayAnswer
    <3>2. QED  BY <2>2, <2>3, <3>1 DEF Told, SameIntent
  <2>4. CASE ~SameIntent(k.hash, call[r].hash)
    <3>1. answer'[r].kind = "IdempotencyKeyConflict"
      BY <2>1, <2>4 DEF ReplayAnswer, Answer
    <3>2. QED  BY <2>4, <3>1 DEF Told, SameIntent
  <2>5. QED  BY <2>3, <2>4
<1>8. Told(r)' \in Atomic!Refusals(call[r])
  <2> DEFINE t == Owned(k)
  <2>1. t.hash = k.hash /\ t.by = o.by
    BY <1>5
  <2> HIDE DEF t
  <2>2. Told(r)' = IF call[r].hash \in {NoHash, t.hash}
                   THEN [kind |-> "replay", by |-> {t.by}]
                   ELSE [kind |-> "IdempotencyKeyConflict", by |-> {}]
    BY <1>7, <2>1
  <2>3. t \in Atomic!Owners(call[r])
    BY <1>6 DEF t
  <2>4. QED  BY <2>2, <2>3 DEF Atomic!Refusals
<1>9. QED  BY <1>2, <1>3, <1>8, RefuseMaps

(* COMMIT is the instant at which an order is placed. *)
LEMMA CommitMaps ==
  ASSUME BillInv, NEW r \in Requests, OthersKept(r), NEW a, CommitsWith(r, a)
  PROVE  Atomic!Place(r)
<1> DEFINE in == call[r]
           items == call[r].items
           o == [id |-> tx[r].orderId, user |-> in.user,
                 total |-> tx[r].total, lines |-> tx[r].priced, by |-> r]
           k1 == [user |-> in.user, key |-> in.key, orderId |-> tx[r].orderId,
                  hash |-> StoredHash(in)]
<1>0. /\ TypeInv /\ TypeOK /\ pc[r] = "commit" /\ CommitRows(r) /\ call' = call
      /\ Finish(r, a) /\ (a = FreshAnswer(r) \/ a = Answer("Error"))
      /\ BillOf(r) /\ DraftsOK /\ LocksOK /\ IdsOK /\ KeysOK
  BY DEF BillInv, MoneyInv, LocksInv, KeysInv, OrdersInv, TypeInv, CommitsWith
<1>1. /\ in.user \in Users /\ items \in Seq(Items) /\ tx[r].total \in Nat
      /\ \A j \in DOMAIN items : items[j].quantity >= 1
  BY <1>0, CallTypes DEF TypeInv, CallsOK, TypeOK, TxType
<1>2. /\ Billed(r) = DOMAIN items
      /\ tx[r].total = Charged(items, DOMAIN items)
      /\ \A i \in DOMAIN items : items[i].productId \in Active
      /\ ~in.failAfterOutbox
  BY <1>0 DEF BillOf, Billed, TxStates
<1>3. ASSUME NEW p \in Products
      PROVE  /\ prod[p].val \in Nat /\ prod[p].draft \in Nat
             /\ Atomic!Demand(items, p) =
                  IF prod[p].owner = r THEN prod[p].val - prod[p].draft ELSE 0
             /\ prod'[p].val =
                  IF prod[p].owner = r THEN prod[p].draft ELSE prod[p].val
  <2>1. prod[p] \in RowType
    BY <1>0 DEF TypeOK
  <2>2. LineQuantity(tx[r].priced, p) = Bought(items, DOMAIN items, p)
    BY <1>0, <1>2 DEF BillOf, TxStates
  <2>3. LineQuantity(tx[r].priced, p) =
          IF prod[p].owner = r THEN prod[p].val - prod[p].draft ELSE 0
    BY <1>0 DEF DraftsOK
  <2>4. prod'[p] = CommitRow(prod[p], r)
    BY <1>0 DEF CommitRows
  <2>5. prod'[p].val = IF prod[p].owner = r THEN prod[p].draft ELSE prod[p].val
    BY <2>1, <2>4, RowFields
  <2>6. Atomic!Demand(items, p) = Bought(items, DOMAIN items, p)
    BY DemandAndCost
  <2>7. QED  BY <2>1, <2>2, <2>3, <2>5, <2>6 DEF RowType
<1>4. /\ \A u \in Users : acct[u].val \in Nat /\ acct[u].draft \in Nat
      /\ Atomic!Cost(items) = tx[r].total
      /\ acct[in.user].draft = acct[in.user].val - tx[r].total
      /\ acct'[in.user].val = acct[in.user].draft
      /\ \A u \in Users \ {in.user} : acct'[u].val = acct[u].val
  <2>1. \A u \in Users : acct[u] \in RowType
    BY <1>0 DEF TypeOK
  <2>2. /\ acct[in.user].owner = r
        /\ acct[in.user].draft = acct[in.user].val - tx[r].total
    BY <1>0 DEF DraftsOK
  <2>3. \A u \in Users \ {in.user} : acct[u].owner # r
    BY <1>0 DEF LocksOK
  <2>4. \A u \in Users : acct'[u] = CommitRow(acct[u], r)
    BY <1>0 DEF CommitRows
  <2>5. acct'[in.user].val = acct[in.user].draft
    BY <1>1, <2>1, <2>2, <2>4, RowFields
  <2>6. \A u \in Users \ {in.user} : acct'[u].val = acct[u].val
    BY <2>1, <2>3, <2>4, RowFields
  <2>7. Atomic!Cost(items) = tx[r].total
    BY <1>2, DemandAndCost
  <2>8. QED  BY <2>1, <2>2, <2>5, <2>6, <2>7 DEF RowType
<1>5. Atomic!InStock(in) /\ Atomic!Affordable(in)
  <2>1. ASSUME NEW p \in Products
        PROVE  /\ Atomic!Demand(items, p) <= prod[p].val
               /\ Atomic!Demand(items, p) > 0 => p \in Active
    <3>1. Atomic!Demand(items, p) <= prod[p].val
      BY <1>3
    <3>2. p \notin Active => Atomic!Demand(items, p) = 0
      <4>1. p \notin Active =>
              {i \in DOMAIN items : items[i].productId = p} = {}
        BY <1>2
      <4>2. p \notin Active => Bought(items, DOMAIN items, p) = 0
        BY <4>1, SumEmpty DEF Bought
      <4>3. QED  BY <4>2, DemandAndCost
    <3>3. QED  BY <3>1, <3>2
  <2>2. Atomic!Cost(items) <= acct[in.user].val
    BY <1>1, <1>4
  <2>3. QED  BY <1>1, <2>1, <2>2 DEF Atomic!InStock, Atomic!Affordable
<1>6. in.key # NoKey => Atomic!Owners(in) = {}
  <2>1. in.key # NoKey =>
          \A k \in keys : k.user # in.user \/ k.key # in.key
    BY <1>0 DEF KeysOK
  <2>2. \A k \in keys : Owned(k).user = k.user /\ Owned(k).key = k.key
    BY DEF Owned
  <2>3. in.key # NoKey =>
          {t \in Taken : t.user = in.user /\ t.key = in.key} = {}
    BY <2>1, <2>2 DEF Taken
  <2>4. QED  BY <2>3 DEF Atomic!Owners, Taken, Owned
<1>7. /\ orders' = orders \cup {o} /\ o.id = tx[r].orderId /\ o.by = r
      /\ keys' = IF in.key = NoKey THEN keys ELSE keys \cup {k1}
      /\ \A x \in orders : x.id # tx[r].orderId
  BY <1>0 DEF CommitRows, IdsOK, Holding
<1>8. ASSUME NEW i
      PROVE  MadeBy(i)' = IF i = tx[r].orderId THEN {r} ELSE MadeBy(i)
  <2> HIDE DEF o
  <2>1. MadeBy(i)' = {x.by : x \in {y \in orders \cup {o} : y.id = i}}
    BY <1>7 DEF MadeBy
  <2>2. CASE i = tx[r].orderId
    BY <1>7, <2>1, <2>2
  <2>3. CASE i # tx[r].orderId
    BY <1>7, <2>1, <2>3 DEF MadeBy
  <2>4. QED  BY <2>2, <2>3
<1>9. Stock' = [p \in Products |-> Stock[p] - Atomic!Demand(items, p)]
  BY <1>3 DEF Stock
<1>10. Balance' = [Balance EXCEPT ![in.user] = @ - Atomic!Cost(items)]
  BY <1>1, <1>4 DEF Balance
<1>11. Placed' = Placed \cup {r}
  <2> HIDE DEF o
  <2>1. QED  BY <1>7 DEF Placed
<1>12. Taken' = IF in.key = NoKey THEN Taken
                ELSE Taken \cup {[user |-> in.user, key |-> in.key,
                                  hash |-> IF in.hash = NoHash
                                           THEN EmptyHash ELSE in.hash,
                                  by |-> r]}
  <2>1. \A k \in keys : Owned(k)' = Owned(k)
    <3>1. \A k \in keys : k.orderId # tx[r].orderId
      BY <1>0, <1>7 DEF KeysOK
    <3>2. QED  BY <1>8, <3>1 DEF Owned
  <2> DEFINE t1 == [user |-> in.user, key |-> in.key,
                    hash |-> StoredHash(in), by |-> r]
  <2>2. \A k : k = k1 => Owned(k)' = t1
    BY <1>8 DEF Owned
  <2> HIDE DEF k1, t1
  <2>3. Taken' = {Owned(k)' : k \in keys'}
    BY DEF Taken
  <2>4. Taken' = IF in.key = NoKey THEN Taken ELSE Taken \cup {t1}
    <3>1. CASE in.key = NoKey
      BY <1>7, <2>1, <2>3, <3>1 DEF Taken
    <3>2. CASE in.key # NoKey
      <4>1. keys' = keys \cup {k1}
        BY <1>7, <3>2
      <4>2. \A t : t \in Taken' <=> t \in Taken \cup {t1}
        BY <2>1, <2>2, <2>3, <4>1 DEF Taken
      <4>3. QED  BY <3>2, <4>2
    <3>3. QED  BY <3>1, <3>2
  <2>5. QED  BY <2>4 DEF StoredHash, t1
<1>13. PICK kind \in {"fresh", "Error"} :
         Told(r)' = [kind |-> kind, by |-> IF kind = "fresh" THEN {r} ELSE {}]
  <2>1. answer'[r] = a
    BY <1>0 DEF Finish, TypeOK
  <2>2. CASE a = FreshAnswer(r)
    <3>1. a.kind = "fresh" /\ a.orderId = tx[r].orderId
      BY <2>2 DEF FreshAnswer
    <3>2. Told(r)' = [kind |-> "fresh", by |-> {r}]
      BY <1>8, <2>1, <3>1 DEF Told
    <3>3. QED  BY <3>2
  <2>3. CASE a = Answer("Error")
    <3>1. Told(r)' = [kind |-> "Error", by |-> {}]
      BY <2>1, <2>3 DEF Told, Answer
    <3>2. QED  BY <3>1
  <2>4. QED  BY <1>0, <2>2, <2>3
<1>14. Outcome' = [Outcome EXCEPT ![r] = Told(r)']
  <2>1. ASSUME NEW q \in Requests \ {r} PROVE Told(q)' = Told(q)
    <3>1. answer'[q] = answer[q]
      BY DEF OthersKept
    <3>2. answer[q].kind \in {"fresh", "replay"} =>
            answer[q].orderId # tx[r].orderId
      BY <1>7 DEF BillInv, KeysInv, OrdersInv, OneOrderPerCall,
         ReplayNamesFirstOrder
    <3>3. QED  BY <1>8, <3>1, <3>2 DEF Told
  <2>2. QED  BY <2>1 DEF Outcome
<1>15. Atomic!Running(r)
  BY <1>0, RunningMaps
<1>16. Outcome' = [Outcome EXCEPT ![r] =
                     [kind |-> kind, by |-> IF kind = "fresh" THEN {r} ELSE {}]]
  BY <1>13, <1>14
<1>17. QED
  BY <1>0, <1>2, <1>5, <1>6, <1>9, <1>10, <1>11, <1>12, <1>15, <1>16
  DEF Atomic!Place, Stock, Balance, Placed, Taken, Outcome, Owned, Told

(* Every step is an abstract step or a stutter. *)
LEMMA StepMaps ==
  ASSUME BillInv, NEW r \in Requests, Call(r) \/ Step(r) \/ FaultStep(r)
  PROVE  \/ Atomic!Start(r) \/ Atomic!Place(r) \/ Atomic!Refuse(r)
         \/ UNCHANGED Atomic!vars
<1>0. TypeInv /\ TypeOK /\ OrdersInv
  BY DEF BillInv, KeysInv, OrdersInv, TypeInv
<1>1. OthersKept(r)
  BY <1>0, StepsKeepOthers
<1>2. [kind |-> "Error", by |-> {}] \in Atomic!Refusals(call[r])
  BY DEF Atomic!Refusals
<1>3. CASE Call(r)
  BY <1>1, <1>3, CallMaps
<1>4. CASE FindCommitted(r) \/ FindAgain(r)
  <2>1. /\ pc[r] \in {"find", "refind"} /\ UNCHANGED <<db, call>>
        /\ UNCHANGED <<prod, acct, orders, keys>>
        /\ Stock' = Stock /\ Balance' = Balance
    BY <1>4 DEF FindCommitted, FindAgain, db, Stock, Balance
  <2>2. CASE \E ko \in Found(call[r]) :
               Finish(r, ReplayAnswer(ko[1], ko[2], call[r]))
    BY <1>1, <2>1, <2>2, ReplayMaps
  <2>3. CASE Finish(r, Answer("Error"))
    <3>1. Told(r)' = [kind |-> "Error", by |-> {}]
      BY <1>0, <2>3 DEF Finish, Answer, Told, TypeOK
    <3>2. QED  BY <1>1, <1>2, <2>1, <3>1, RefuseMaps
  <2>4. CASE answer' = answer
    BY <1>1, <2>1, <2>4, StutterMaps
  <2>5. QED  BY <1>4, <2>2, <2>3, <2>4 DEF FindCommitted, FindAgain
<1>5. CASE UpdateProduct(r) \/ DebitBalance(r)
  <2>1. UNCHANGED <<orders, keys, call, answer>>
    BY <1>5 DEF UpdateProduct, DebitBalance
  <2>2. Stock' = Stock
    <3>1. CASE UNCHANGED prod
      BY <3>1 DEF Stock
    <3>2. CASE \E p, v : prod' = [prod EXCEPT ![p] = Write(@, r, v)]
      <4>1. PICK p, v : prod' = [prod EXCEPT ![p] = Write(@, r, v)]
        BY <3>2
      <4>2. \A s \in Products : Write(prod[s], r, v).val = prod[s].val
        BY <1>0, RowFields DEF TypeOK
      <4>3. \A s \in Products : prod'[s].val = prod[s].val
        BY <1>0, <4>1, <4>2 DEF TypeOK
      <4>4. QED  BY <4>3 DEF Stock
    <3>3. QED  BY <1>5, <3>1, <3>2 DEF UpdateProduct, DebitBalance
  <2>3. Balance' = Balance
    <3>1. CASE UNCHANGED acct
      BY <3>1 DEF Balance
    <3>2. CASE \E u, v : acct' = [acct EXCEPT ![u] = Write(@, r, v)]
      <4>1. PICK u, v : acct' = [acct EXCEPT ![u] = Write(@, r, v)]
        BY <3>2
      <4>2. \A w \in Users : Write(acct[w], r, v).val = acct[w].val
        BY <1>0, RowFields DEF TypeOK
      <4>3. \A w \in Users : acct'[w].val = acct[w].val
        BY <1>0, <4>1, <4>2 DEF TypeOK
      <4>4. QED  BY <4>3 DEF Balance
    <3>3. QED  BY <1>5, <3>1, <3>2 DEF UpdateProduct, DebitBalance
  <2>4. QED  BY <1>1, <2>1, <2>2, <2>3, StutterMaps
<1>6. CASE OutOfStock(r) \/ DebitRefused(r)
  BY <1>1, <1>6, OutOfStockMaps, DebitRefusedMaps
<1>7. CASE InsertOrderRows(r)
  <2>1. pc[r] = "insert" /\ UNCHANGED <<orders, keys, call>>
    BY <1>7 DEF InsertOrderRows
  <2>2. CASE Throw(r, "Error")
    BY <1>1, <1>2, <2>1, <2>2, ThrowMaps
  <2>3. CASE call[r].failAfterOutbox /\ Throw(r, "OutboxWriteAborted")
    <3>1. [kind |-> "OutboxWriteAborted", by |-> {}]
            \in Atomic!Refusals(call[r])
      BY <2>3 DEF Atomic!Refusals
    <3>2. QED  BY <1>1, <2>1, <2>3, <3>1, ThrowMaps
  <2>4. CASE UNCHANGED <<prod, acct, answer>>
    BY <1>1, <2>1, <2>4, StutterMaps DEF Stock, Balance
  <2>5. QED  BY <1>7, <2>2, <2>3, <2>4 DEF InsertOrderRows
<1>8. CASE InsertKey(r)
  <2>1. UNCHANGED <<orders, keys, call, answer>>
    BY <1>8 DEF InsertKey
  <2>2. Stock' = Stock /\ Balance' = Balance
    <3>1. CASE Rollback(r)
      BY <1>0, <3>1, RollbackMaps
    <3>2. CASE UNCHANGED <<prod, acct>>
      BY <3>2 DEF Stock, Balance
    <3>3. QED  BY <1>8, <3>1, <3>2 DEF InsertKey
  <2>3. QED  BY <1>1, <2>1, <2>2, StutterMaps
<1>9. CASE Commit(r) \/ CommitAckLost(r)
  <2>1. \E a : CommitsWith(r, a)
    BY <1>9 DEF Commit, CommitAckLost, CommitsWith
  <2>2. QED  BY <1>1, <2>1, CommitMaps
<1>10. CASE RetryableFault(r) \/ FatalFault(r)
  <2>1. /\ pc[r] \notin {"idle", "done"} /\ UNCHANGED <<orders, keys, call>>
    BY <1>10 DEF RetryableFault, FatalFault, TxStates
  <2>2. CASE Throw(r, "Error")
    BY <1>1, <1>2, <2>1, <2>2, ThrowMaps
  <2>3. CASE Rollback(r) /\ UNCHANGED answer
    BY <1>0, <1>1, <2>1, <2>3, RollbackMaps, StutterMaps
  <2>4. QED  BY <1>10, <2>2, <2>3 DEF RetryableFault, FatalFault
<1>11. QED
  BY <1>3, <1>4, <1>5, <1>6, <1>7, <1>8, <1>9, <1>10 DEF Step, FaultStep

(***************************************************************************)
(* CheckoutService.checkout implements CheckoutAtomic: with all its        *)
(* statements, row locks, retries and faults every call takes effect, or   *)
(* is refused for a reason that holds, at a single instant.                *)
(***************************************************************************)
THEOREM CheckoutsAreAtomic == Spec => ActsAtOneInstant
<1>1. Init => Atomic!Init
  <2> SUFFICES ASSUME Init PROVE Atomic!Init
    OBVIOUS
  <2>1. Stock = InitialStock /\ Balance = InitialBalance
    BY DataAssumption DEF Init, Row, Stock, Balance
  <2>2. Placed = {} /\ Taken = {}
    BY DEF Init, Placed, Taken
  <2>3. Outcome = [r \in Requests |-> [kind |-> "none", by |-> {}]]
    <3>1. \A r \in Requests : answer[r].kind = "none"
      BY DEF Init, NoAnswer, Answer
    <3>2. QED  BY <3>1 DEF Outcome, Told
  <2>4. call = [r \in Requests |-> NoInput]
    BY DEF Init
  <2>5. QED
    BY <2>1, <2>2, <2>3, <2>4
    DEF Atomic!Init, Atomic!Pending, Stock, Balance, Placed, Taken, Outcome,
        Owned, Told
<1>2. BillInv /\ [Next]_vars => [Atomic!Next]_(Atomic!vars)
  <2> SUFFICES ASSUME BillInv, [Next]_vars PROVE [Atomic!Next]_(Atomic!vars)
    OBVIOUS
  <2>1. ASSUME NEW r \in Requests, Call(r) \/ Step(r) \/ FaultStep(r)
        PROVE  [Atomic!Next]_(Atomic!vars)
    BY <2>1, StepMaps DEF Atomic!Next
  <2>2. CASE UNCHANGED vars
    BY <2>2 DEF vars, Atomic!vars, MadeBy
  <2>3. QED  BY <2>1, <2>2 DEF Next, AllDone
<1>3. QED  BY <1>1, <1>2, BillAlways, PTL DEF Spec, ActsAtOneInstant, Atomic!Spec
=============================================================================
