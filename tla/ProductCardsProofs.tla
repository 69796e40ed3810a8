-------------------------- MODULE ProductCardsProofs --------------------------
(***************************************************************************)
(* Proofs of the safety properties of ProductCards: the single flight, the *)
(* wait of the callers that lost the lock, and that cards are current once *)
(* things settle, for any number of products, orders, calls and workers,   *)
(* any lock TTL and any number of faults.                                  *)
(***************************************************************************)
EXTENDS ProductCards, TLAPS

Held == {"again", "load", "write", "unlock"}
Over == {"returned", "timeout", "failed"}
Places == {"idle", "read", "lock", "sleep", "poll"} \cup Held \cup Over
States == {"none", "adding", "waiting", "active", "completed", "failed", "lost"}

Cards == Nat \cup {None}
LockType == [owner: Gets \cup {None}, ttl: Nat]
GetType == [pc: Places, card: Cards, polls: Nat]
JobType == [state: States, tries: Nat, stalls: Nat]
WorkType == [job: Pairs \cup {None, Sweep}, todo: SUBSET Products,
             on: Products \cup {None}, card: Cards]

-----------------------------------------------------------------------------
(* The lock and the calls *)
GetTypes ==
  /\ lock \in [Products -> LockType]
  /\ get \in [Gets -> GetType]
  /\ lostTo \in [Gets -> Gets \cup {None}]
  /\ expired \subseteq Gets /\ inTime \subseteq Gets

(* A lock that is taken has an owner and a life. *)
LocksOK ==
  \A p \in Products :
    \/ lock[p] = Free
    \/ /\ lock[p].owner \in Gets /\ Target[lock[p].owner] = p
       /\ lock[p].ttl \in 1..LockTtl
       /\ get[lock[p].owner].pc \notin {"idle", "read", "lock"}

(* Who is under the lock owns it, unless it ran out or was evicted. *)
HoldersOK ==
  \A r \in Gets : get[r].pc \in Held =>
    r \in expired \/ lock[Target[r]].owner = r

FlightInv == GetTypes /\ LocksOK /\ HoldersOK

-----------------------------------------------------------------------------
(* The cards and the jobs *)
CardTypes ==
  /\ version \in [Products -> Nat]
  /\ cache \in [Products -> Cards]
  /\ placed \subseteq Orders
  /\ job \in [Pairs -> JobType]
  /\ work \in [Workers -> WorkType]
  /\ unsure \subseteq Products /\ overlapped \subseteq Gets \cup Workers

LoadedOK ==
  /\ \A r \in Gets : get[r].pc = "write" => get[r].card \in Nat
  /\ \A w \in Workers :
       /\ work[w].on # None => work[w].card \in Nat
       /\ work[w].job = None => work[w].todo = {} /\ work[w].on = None
       /\ work[w].job \in Pairs =>
            /\ work[w].job[1] \in placed /\ work[w].todo = {work[w].job[2]}
            /\ work[w].on \in {None, work[w].job[2]}
  /\ \A x \in Pairs : job[x].state # "none" => x[1] \in placed

CardInv == FlightInv /\ CardTypes /\ LoadedOK

(* A waiter has polled once for each tick its holder's lock has lost, and  *)
(* a card written in time is in the cache until it is evicted.             *)
WaitOK ==
  /\ \A r \in inTime : cache[Target[r]] # None
  /\ \A r \in Gets : get[r].pc \in {"sleep", "poll", "timeout"} =>
       LET l == lock[Target[r]]
       IN  /\ lostTo[r] \in Gets /\ Target[lostTo[r]] = Target[r]
           /\ get[lostTo[r]].pc \notin {"idle", "read", "lock"}
           /\ get[r].pc = "sleep" /\ l.owner = lostTo[r]
                => get[r].polls + l.ttl <= LockTtl
           /\ get[r].pc = "poll" /\ l.owner = lostTo[r]
                => get[r].polls + l.ttl < LockTtl
           /\ get[r].pc = "timeout" =>
                l.owner # lostTo[r] /\ lostTo[r] \notin inTime

WaitInv == CardInv /\ WaitOK

(* The job of x is still to refresh its product. *)
Pending(x, p) == x[2] = p /\ x[1] \in placed /\ job[x].state # "completed"

(* A call or a worker that never met another has the latest version, or a  *)
(* later job will write again; so has the cache, if it was written last by *)
(* one of them.                                                            *)
GetsCurrent(p) ==
  \A r \in Gets : get[r].pc = "write" /\ Target[r] = p /\ r \notin overlapped =>
    /\ \A q \in Gets : get[q].pc = "write" /\ Target[q] = p => q = r
    /\ \A w \in Workers : work[w].on # p
    /\ get[r].card = version[p] \/ \E x \in Pairs : Pending(x, p)

WorkCurrent(p) ==
  \A w \in Workers : work[w].on = p /\ w \notin overlapped =>
    /\ \A v \in Workers : work[v].on = p => v = w
    /\ \A r \in Gets : ~(get[r].pc = "write" /\ Target[r] = p)
    /\ \/ work[w].card = version[p]
       \/ \E x \in Pairs : Pending(x, p) /\ work[w].job # x

CacheCurrent(p) ==
  p \notin unsure =>
    cache[p] \in {None, version[p]} \/ \E x \in Pairs : Pending(x, p)

Current(p) == GetsCurrent(p) /\ WorkCurrent(p) /\ CacheCurrent(p)

CurrentOK == \A p \in Products : Current(p)

CurrentInv == CardInv /\ CurrentOK


-----------------------------------------------------------------------------
(* What a step of call r, which leaves it as g, does to the lock: nothing, *)
(* the owner releases it, or a free lock is taken.                         *)
LockMove(r, g) ==
  \/ lock' = lock /\ (g.pc \in Held => get[r].pc \in Held)
  \/ ReleaseLock(r) /\ g.pc \notin Held
  \/ /\ lock[Target[r]] = Free /\ get[r].pc = "lock"
     /\ lock' = [lock EXCEPT ![Target[r]] = [owner |-> r, ttl |-> LockTtl]]
     /\ g.pc \notin {"idle", "read", "lock"}

(* ... to the wait: the call starts to wait for the lock's owner, or for   *)
(* itself, polls once more, or does not wait.                              *)
WaitMove(r, g) ==
  \/ /\ get[r].pc = "lock" /\ g.pc = "sleep" /\ g.polls = 0
     /\ lock[Target[r]] # Free /\ lock' = lock
     /\ lostTo' = [lostTo EXCEPT ![r] = lock[Target[r]].owner]
  \/ /\ get[r].pc = "lock" /\ g.pc = "sleep" /\ g.polls = 0
     /\ lock' = [lock EXCEPT ![Target[r]] = [owner |-> r, ttl |-> LockTtl]]
     /\ lostTo' = [lostTo EXCEPT ![r] = r]
  \/ /\ get[r].pc = "poll" /\ g.pc \in {"sleep", "timeout"}
     /\ g.polls = get[r].polls + 1 /\ lostTo' = lostTo /\ lock' = lock
     /\ g.pc = "timeout" => /\ g.polls >= LockTtl
                            /\ cache[Target[r]] = None
  \/ g.pc \notin {"sleep", "poll", "timeout"} /\ lostTo' = lostTo

(* ... and to the cards: the call loads one, writes it, or neither. *)
CardMove(r, g) ==
  \/ /\ get[r].pc = "load" /\ g.pc = "write"
     /\ g.card = version[Target[r]] /\ Overlaps(r, Target[r])
     /\ cache' = cache /\ inTime' = inTime
  \/ /\ get[r].pc = "write" /\ g.pc # "write"
     /\ cache' = [cache EXCEPT ![Target[r]] = get[r].card]
     /\ unsure' = IF r \in overlapped THEN unsure \cup {Target[r]}
                  ELSE unsure \ {Target[r]}
     /\ overlapped' = overlapped \ {r}
     /\ inTime' = IF lock[Target[r]].owner = r THEN inTime \cup {r} ELSE inTime
  \/ /\ g.pc # "write" /\ cache' = cache /\ inTime' = inTime
     /\ unsure' = unsure \/ unsure' = unsure \cup {Target[r]}
     /\ overlapped' = overlapped \/ overlapped' = overlapped \ {r}

GetMove(r, g) ==
  /\ get' = [get EXCEPT ![r] = g] /\ expired' = expired
  /\ g.pc \in {"idle", "read", "lock"} => get[r].pc \in {"idle", "read", "lock"}
  /\ version' = version /\ UNCHANGED jobVars
  /\ LockMove(r, g) /\ WaitMove(r, g) /\ CardMove(r, g)

CallStep(r) == GetCard(r) \/ GetStep(r) \/ AcquireResent(r) \/ GetFails(r)

LEMMA GetMoves ==
  ASSUME GetTypes, CardTypes, NEW r \in Gets,
         CallStep(r)
  PROVE  \E g \in GetType : GetMove(r, g)
<1> USE CardsAssumption
<1>0. /\ get[r] \in GetType /\ Target[r] \in Products
      /\ cache[Target[r]] \in Cards /\ version[Target[r]] \in Cards
  BY DEF GetTypes, CardTypes, Cards
<1>2. get[r].card \in Cards /\ get[r].polls \in Nat /\ None \in Cards
  BY <1>0 DEF GetType, Cards
<1> DEFINE G(pc, card, n) == [pc |-> pc, card |-> card, polls |-> n]
<1>3. CASE GetCard(r)
  <2>1. G("read", get[r].card, 0) \in GetType
    BY <1>2 DEF GetType, Places
  <2>2. GetMove(r, G("read", get[r].card, 0))
    BY <1>3 DEF GetCard, GoTo, GetMove, LockMove, WaitMove, CardMove, Held, jobVars, raceVars
  <2>3. QED  BY <2>1, <2>2
<1>4. CASE ReadCache(r)
  <2>1. CASE cache[Target[r]] # None
    <3>1. G("returned", cache[Target[r]], 0) \in GetType
      BY <1>0 DEF GetType, Places, Over
    <3>2. GetMove(r, G("returned", cache[Target[r]], 0))
      BY <1>4, <2>1 DEF ReadCache, Has, GetMove, LockMove, WaitMove, CardMove,
                        Held, jobVars, raceVars
    <3>3. QED  BY <3>1, <3>2
  <2>2. CASE cache[Target[r]] = None
    <3>1. G("lock", get[r].card, 0) \in GetType
      BY <1>2 DEF GetType, Places
    <3>2. GetMove(r, G("lock", get[r].card, 0))
      BY <1>4, <2>2 DEF ReadCache, GoTo, GetMove, LockMove, WaitMove, CardMove,
                        Held, jobVars, raceVars
    <3>3. QED  BY <3>1, <3>2
  <2>3. QED  BY <2>1, <2>2
<1>5. CASE AcquireLock(r)
  <2>1. CASE lock[Target[r]] = Free
    <3>1. G("again", get[r].card, 0) \in GetType
      BY <1>2 DEF GetType, Places, Held
    <3>2. GetMove(r, G("again", get[r].card, 0))
      BY <1>5, <2>1 DEF AcquireLock, GoTo, GetMove, LockMove, WaitMove, CardMove,
                        Held, jobVars, raceVars
    <3>3. QED  BY <3>1, <3>2
  <2>2. CASE lock[Target[r]] # Free
    <3>1. G("sleep", get[r].card, 0) \in GetType
      BY <1>2 DEF GetType, Places
    <3>2. GetMove(r, G("sleep", get[r].card, 0))
      BY <1>5, <2>2 DEF AcquireLock, GoTo, GetMove, LockMove, WaitMove, CardMove,
                        Held, jobVars, raceVars
    <3>3. QED  BY <3>1, <3>2
  <2>3. QED  BY <2>1, <2>2
<1>6. CASE ReadAgain(r)
  <2>1. CASE cache[Target[r]] # None
    <3>1. G("unlock", cache[Target[r]], 0) \in GetType
      BY <1>0 DEF GetType, Places, Held
    <3>2. GetMove(r, G("unlock", cache[Target[r]], 0))
      BY <1>6, <2>1 DEF ReadAgain, Has, GetMove, LockMove, WaitMove, CardMove,
                        Held, jobVars, raceVars
    <3>3. QED  BY <3>1, <3>2
  <2>2. CASE cache[Target[r]] = None
    <3>1. G("load", get[r].card, 0) \in GetType
      BY <1>2 DEF GetType, Places, Held
    <3>2. GetMove(r, G("load", get[r].card, 0))
      BY <1>6, <2>2 DEF ReadAgain, GoTo, GetMove, LockMove, WaitMove, CardMove,
                        Held, jobVars, raceVars
    <3>3. QED  BY <3>1, <3>2
  <2>3. QED  BY <2>1, <2>2
<1>7. CASE LoadCard(r)
  <2>1. G("write", version[Target[r]], 0) \in GetType
    BY <1>0 DEF GetType, Places, Held
  <2>2. GetMove(r, G("write", version[Target[r]], 0))
    BY <1>7 DEF LoadCard, Has, GetMove, LockMove, WaitMove, CardMove, Held, jobVars, raceVars
  <2>3. QED  BY <2>1, <2>2
<1>8. CASE WriteCard(r)
  <2>1. G("unlock", get[r].card, 0) \in GetType
    BY <1>2 DEF GetType, Places, Held
  <2>2. GetMove(r, G("unlock", get[r].card, 0))
    BY <1>8 DEF WriteCard, SetCard, SetFails, GoTo, GetMove, LockMove, WaitMove,
                CardMove, Held, jobVars, raceVars
  <2>3. QED  BY <2>1, <2>2
<1>9. CASE Unlock(r)
  <2>1. G("returned", get[r].card, 0) \in GetType
    BY <1>2 DEF GetType, Places, Over
  <2>2. GetMove(r, G("returned", get[r].card, 0))
    BY <1>9 DEF Unlock, GoTo, GetMove, LockMove, WaitMove, CardMove, Held, jobVars, raceVars
  <2>3. QED  BY <2>1, <2>2
<1>10. CASE PollCache(r)
  <2>1. CASE cache[Target[r]] # None
    <3>1. G("returned", cache[Target[r]], 0) \in GetType
      BY <1>0 DEF GetType, Places, Over
    <3>2. GetMove(r, G("returned", cache[Target[r]], 0))
      BY <1>10, <2>1 DEF PollCache, GetMove, LockMove, WaitMove, CardMove,
                         Held, jobVars, raceVars
    <3>3. QED  BY <3>1, <3>2
  <2>2. CASE cache[Target[r]] = None
    <3> DEFINE n == get[r].polls + 1
               pc == IF n < WaitPolls THEN "sleep" ELSE "timeout"
    <3>1. G(pc, None, n) \in GetType
      BY <1>2 DEF GetType, Places, Over
    <3>2. n \in Nat /\ (~(n < LockTtl) => n >= LockTtl)
      BY <1>2
    <3>3. get' = [get EXCEPT ![r] = G(pc, None, n)]
      BY <1>10, <2>2 DEF PollCache
    <3>4. GetMove(r, G(pc, None, n))
      BY <1>10, <2>2, <3>2, <3>3 DEF PollCache, GetMove, LockMove, WaitMove,
                              CardMove, Held, jobVars, raceVars, WaitPolls
    <3>5. QED  BY <3>1, <3>4
  <2>3. QED  BY <2>1, <2>2
<1>11. CASE GetFails(r)
  <2>1. G("failed", None, 0) \in GetType
    BY <1>2 DEF GetType, Places, Over
  <2>2. GetMove(r, G("failed", None, 0))
    BY <1>11 DEF GetFails, GetMove, LockMove, WaitMove, CardMove, Held, jobVars, raceVars
  <2>3. QED  BY <2>1, <2>2
<1>12. CASE AcquireResent(r)
  <2>1. G("sleep", get[r].card, 0) \in GetType
    BY <1>2 DEF GetType, Places
  <2>2. GetMove(r, G("sleep", get[r].card, 0))
    BY <1>12 DEF AcquireResent, GoTo, GetMove, LockMove, WaitMove, CardMove,
                 Held, jobVars, raceVars
  <2>3. QED  BY <2>1, <2>2
<1>13. QED
  BY <1>3, <1>4, <1>5, <1>6, <1>7, <1>8, <1>9, <1>10, <1>11, <1>12
  DEF GetStep, CallStep


(* Every other step but a tick and the eviction of a lock leaves the lock  *)
(* and the calls alone.                                                    *)
Others ==
  \/ \E p \in Products : Evict(p)
  \/ \E o \in Orders : PlaceOrder(o)
  \/ \E x \in Pairs : AddJob(x)
  \/ \E w \in Workers : WorkStep(w) \/ TakeSweep(w) \/ JobFails(w) \/ WorkerDies(w)
  \/ AllDone \/ UNCHANGED vars

LEMMA NextCases ==
  ASSUME [Next]_vars
  PROVE  \/ \E r \in Gets : CallStep(r)
         \/ Tick \/ Others \/ \E p \in Products : EvictLock(p)
BY DEF Next, Others, CallStep

LEMMA OthersKeep ==
  ASSUME Others, inTime \subseteq Gets
  PROVE  /\ lock' = lock /\ get' = get /\ lostTo' = lostTo
         /\ expired' = expired /\ inTime' \subseteq inTime
<1>1. CASE \E p \in Products : Evict(p)
  BY <1>1 DEF Evict
<1>2. CASE \E o \in Orders : PlaceOrder(o)
  BY <1>2 DEF PlaceOrder, getVars
<1>3. CASE \E x \in Pairs : AddJob(x)
  BY <1>3 DEF AddJob, getVars
<1>4. CASE \E w \in Workers : \/ WorkStep(w) \/ TakeSweep(w) \/ JobFails(w)
                              \/ WorkerDies(w)
  BY <1>4 DEF WorkStep, TakeJob, RefreshLoad, RefreshWrite, TakeSweep, JobFails,
              WorkerDies, getVars
<1>5. CASE AllDone \/ UNCHANGED vars
  BY <1>5 DEF AllDone, vars
<1>6. QED  BY <1>1, <1>2, <1>3, <1>4, <1>5 DEF Others

(* What a tick leaves of a lock *)
LEMMA AgedFacts ==
  ASSUME FlightInv, NEW p \in Products
  PROVE  /\ Aged(lock[p]) \in LockType
         /\ \/ Aged(lock[p]) = Free
            \/ /\ Aged(lock[p]).owner = lock[p].owner /\ lock[p].ttl # 1
               /\ Aged(lock[p]).ttl = lock[p].ttl - 1
               /\ lock[p] # Free /\ lock[p].ttl - 1 \in 1..LockTtl
         /\ lock[p].owner \in Gets /\ lock[p].ttl # 1 => Aged(lock[p]).owner = lock[p].owner
<1> USE CardsAssumption
<1>1. lock[p] \in LockType /\ Free \in LockType /\ Free.ttl = 0 /\ Free.owner = None
  BY DEF FlightInv, GetTypes, LockType, Free
<1>2. lock[p].ttl \in Nat /\ lock[p].owner \in Gets \cup {None}
  BY <1>1 DEF LockType
<1>3. CASE lock[p] = Free
  BY <1>1, <1>3 DEF Aged
<1>4. CASE lock[p] # Free /\ lock[p].ttl \in 1..LockTtl
  <2>1. CASE lock[p].ttl = 1
    BY <1>1, <2>1 DEF Aged
  <2>2. CASE lock[p].ttl > 1
    <3>1. Aged(lock[p]) = [owner |-> lock[p].owner, ttl |-> lock[p].ttl - 1]
      BY <1>2, <2>2 DEF Aged
    <3>2. lock[p].ttl - 1 \in 1..LockTtl /\ lock[p].ttl - 1 \in Nat
      BY <1>2, <1>4, <2>2
    <3>3. QED  BY <1>2, <1>4, <2>2, <3>1, <3>2 DEF LockType
  <2>3. QED  BY <1>2, <1>4, <2>1, <2>2
<1>5. QED  BY <1>3, <1>4 DEF FlightInv, LocksOK

LEMMA FlightStep ==
  ASSUME FlightInv, CardTypes, [Next]_vars
  PROVE  FlightInv'
<1> USE CardsAssumption
<1>0. /\ GetTypes /\ LocksOK /\ HoldersOK
      /\ Free \in LockType /\ Free.owner = None /\ Free.ttl = 0
      /\ LockTtl \in 1..LockTtl /\ None \notin Gets
      /\ Target \in [Gets -> Products]
  BY DEF FlightInv, Free, LockType
<1>1. ASSUME NEW r \in Gets, NEW g \in GetType, GetMove(r, g)
      PROVE  FlightInv'
  <2> DEFINE p == Target[r]
             mine == [owner |-> r, ttl |-> LockTtl]
  <2>1. /\ get'[r] = g /\ \A q \in Gets \ {r} : get'[q] = get[q]
        /\ get' \in [Gets -> GetType] /\ expired' = expired
        /\ g.pc \in {"idle", "read", "lock"}
             => get[r].pc \in {"idle", "read", "lock"}
    BY <1>0, <1>1 DEF GetMove, GetTypes
  <2>2. lostTo' \in [Gets -> Gets \cup {None}] /\ inTime' \subseteq Gets
    <3>1. lock[p].owner \in Gets \cup {None}
      BY <1>0 DEF GetTypes, LockType
    <3>2. lostTo' \in [Gets -> Gets \cup {None}]
      BY <1>0, <1>1, <3>1 DEF GetMove, WaitMove, GetTypes
    <3>3. inTime' \subseteq Gets
      BY <1>0, <1>1 DEF GetMove, CardMove, GetTypes
    <3>4. QED  BY <3>2, <3>3
  <2>3. CASE lock' = lock /\ (g.pc \in Held => get[r].pc \in Held)
    <3>1. LocksOK'
      BY <1>0, <2>1, <2>3 DEF LocksOK, Free
    <3>2. HoldersOK'
      BY <1>0, <2>1, <2>3 DEF HoldersOK
    <3>3. GetTypes'
      BY <1>0, <2>1, <2>2, <2>3 DEF GetTypes
    <3>4. QED  BY <3>1, <3>2, <3>3 DEF FlightInv
  <2>4. CASE /\ g.pc \notin Held /\ lock[p].owner = r
             /\ lock' = [lock EXCEPT ![p] = Free]
    <3>1. lock' \in [Products -> LockType] /\ lock'[p] = Free
          /\ \A q \in Products \ {p} : lock'[q] = lock[q]
      BY <1>0, <2>4 DEF GetTypes
    <3>2. LocksOK'
      BY <1>0, <2>1, <3>1 DEF LocksOK, Free
    <3>3. HoldersOK'
      BY <1>0, <2>1, <2>4, <3>1 DEF HoldersOK
    <3>4. GetTypes'
      BY <1>0, <2>1, <2>2, <3>1 DEF GetTypes
    <3>5. QED  BY <3>2, <3>3, <3>4 DEF FlightInv
  <2>5. CASE /\ lock[p] = Free /\ lock' = [lock EXCEPT ![p] = mine]
             /\ g.pc \notin {"idle", "read", "lock"}
    <3>1. mine \in LockType /\ mine.owner = r /\ mine.ttl = LockTtl
      BY <1>0 DEF LockType
    <3> HIDE DEF mine
    <3>2. lock' \in [Products -> LockType] /\ lock'[p] = mine
          /\ \A q \in Products \ {p} : lock'[q] = lock[q]
      BY <1>0, <2>5, <3>1 DEF GetTypes
    <3>3. LocksOK'
      <4>1. ASSUME NEW q \in Products \ {p}
            PROVE  \/ lock'[q] = Free
                   \/ /\ lock'[q].owner \in Gets /\ Target[lock'[q].owner] = q
                      /\ lock'[q].ttl \in 1..LockTtl
                      /\ get'[lock'[q].owner].pc \notin {"idle", "read", "lock"}
        BY <1>0, <2>1, <3>2 DEF LocksOK
      <4>2. QED  BY <1>0, <2>1, <2>5, <3>1, <3>2, <4>1 DEF LocksOK, Free
    <3>4. HoldersOK'
      BY <1>0, <2>1, <2>5, <3>1, <3>2 DEF HoldersOK
    <3>5. GetTypes'
      BY <1>0, <2>1, <2>2, <3>2 DEF GetTypes
    <3>6. QED  BY <3>3, <3>4, <3>5 DEF FlightInv
  <2>6. QED  BY <1>1, <2>3, <2>4, <2>5 DEF GetMove, LockMove, ReleaseLock
<1>2. CASE Tick
  <2>1. /\ lock' = [p \in Products |-> Aged(lock[p])]
        /\ lostTo' = lostTo /\ inTime' = inTime
        /\ expired' = expired \cup {r \in Gets : lock[Target[r]].owner = r
                                                 /\ lock[Target[r]].ttl = 1}
        /\ get' = [r \in Gets |->
             IF get[r].pc = "sleep"
             THEN [pc |-> "poll", card |-> None, polls |-> get[r].polls]
             ELSE get[r]]
    BY <1>2 DEF Tick
  <2>2. ASSUME NEW r \in Gets
        PROVE  /\ get'[r] \in GetType
               /\ get'[r].pc \in Held <=> get[r].pc \in Held
               /\ get'[r].pc \in {"idle", "read", "lock"}
                    <=> get[r].pc \in {"idle", "read", "lock"}
    <3>1. get[r] \in GetType /\ get[r].polls \in Nat
      BY <1>0 DEF GetTypes, GetType
    <3>2. CASE get[r].pc = "sleep"
      <4>1. get'[r] = [pc |-> "poll", card |-> None, polls |-> get[r].polls]
        BY <2>1, <3>2
      <4>2. QED  BY <3>1, <3>2, <4>1 DEF GetType, Places, Cards, Held
    <3>3. CASE get[r].pc # "sleep"
      BY <2>1, <3>1, <3>3
    <3>4. QED  BY <3>2, <3>3
  <2>3. GetTypes'
    <3>1. \A p \in Products : Aged(lock[p]) \in LockType
      BY AgedFacts
    <3>2. lock' \in [Products -> LockType]
      BY <2>1, <3>1
    <3>3. get' \in [Gets -> GetType]
      <4>1. get' = [r \in Gets |-> get'[r]]
        BY <2>1
      <4>2. QED  BY <2>2, <4>1
    <3>4. QED  BY <1>0, <2>1, <3>2, <3>3 DEF GetTypes
  <2>4. LocksOK'
    <3>1. ASSUME NEW p \in Products
          PROVE  \/ lock'[p] = Free
                 \/ /\ lock'[p].owner \in Gets /\ Target[lock'[p].owner] = p
                    /\ lock'[p].ttl \in 1..LockTtl
                    /\ get'[lock'[p].owner].pc \notin {"idle", "read", "lock"}
      <4>1. lock'[p] = Aged(lock[p])
        BY <2>1
      <4>2. \/ lock'[p] = Free
            \/ /\ lock'[p].owner = lock[p].owner /\ lock[p] # Free
               /\ lock'[p].ttl \in 1..LockTtl
        BY <4>1, AgedFacts
      <4>3. QED  BY <1>0, <2>2, <4>2 DEF LocksOK
    <3>2. QED  BY <3>1 DEF LocksOK, Free
  <2>5. HoldersOK'
    <3>1. ASSUME NEW r \in Gets, get'[r].pc \in Held
          PROVE  r \in expired' \/ lock'[Target[r]].owner = r
      <4>1. r \in expired \/ lock[Target[r]].owner = r
        BY <1>0, <2>2, <3>1 DEF HoldersOK
      <4>2. CASE lock[Target[r]].owner = r /\ lock[Target[r]].ttl # 1
        <5>1. Target[r] \in Products
          BY <1>0
        <5>2. Aged(lock[Target[r]]).owner = r
          BY <4>2, <5>1, AgedFacts
        <5>3. QED  BY <2>1, <5>1, <5>2
      <4>3. QED  BY <2>1, <4>1, <4>2
    <3>2. QED  BY <3>1 DEF HoldersOK
  <2>6. QED  BY <2>3, <2>4, <2>5 DEF FlightInv
<1>3. CASE Others
  <2>1. /\ lock' = lock /\ get' = get /\ lostTo' = lostTo
        /\ expired' = expired /\ inTime' \subseteq inTime
    BY <1>0, <1>3, OthersKeep DEF GetTypes
  <2>2. QED  BY <1>0, <2>1 DEF FlightInv, GetTypes, LocksOK, HoldersOK, Free
<1>e. ASSUME NEW p \in Products, EvictLock(p)
      PROVE  FlightInv'
  <2>1. /\ get' = get /\ lostTo' = lostTo /\ inTime' = inTime
        /\ lock' \in [Products -> LockType] /\ lock'[p] = Free
        /\ \A q \in Products \ {p} : lock'[q] = lock[q]
        /\ expired' = expired \cup {lock[p].owner} /\ lock[p].owner \in Gets
    BY <1>0, <1>e DEF EvictLock, GetTypes, LocksOK
  <2>2. GetTypes'
    BY <1>0, <2>1 DEF GetTypes
  <2>3. LocksOK'
    BY <1>0, <2>1 DEF LocksOK, Free
  <2>4. HoldersOK'
    BY <1>0, <2>1 DEF HoldersOK
  <2>5. QED  BY <2>2, <2>3, <2>4 DEF FlightInv
<1>4. ASSUME NEW r \in Gets, CallStep(r)
      PROVE  FlightInv'
  <2>1. PICK g \in GetType : GetMove(r, g)
    BY <1>0, <1>4, GetMoves
  <2>2. QED  BY <1>1, <2>1
<1>5. QED  BY <1>2, <1>3, <1>4, <1>e, NextCases


-----------------------------------------------------------------------------
(* What a step of worker w, which leaves it as v, does: it takes a job or  *)
(* the sweep, loads a card, writes one, or gives its job up.               *)
Takes(w, v) ==
  /\ work[w].on = None /\ v.on = None
  /\ cache' = cache /\ UNCHANGED raceVars
  /\ \A x \in Pairs : job'[x].state = "completed" => job[x].state = "completed"
  /\ \/ \E x \in Pairs : v.job = x /\ v.todo = {x[2]} /\ job[x].state = "waiting"
     \/ v.job = Sweep

Loads(w, v) ==
  /\ work[w].on = None /\ v.on \in work[w].todo /\ v.on \in Products
  /\ v.job = work[w].job
  /\ v.todo = work[w].todo /\ v.card = version[v.on] /\ Overlaps(w, v.on)
  /\ cache' = cache /\ job' = job

Writes(w, v) ==
  /\ work[w].on # None
  /\ \/ v = NoWork
     \/ /\ v.job = work[w].job /\ v.on = None
        /\ v.todo = work[w].todo \ {work[w].on} /\ v.todo # {}
  /\ \/ /\ cache' = [cache EXCEPT ![work[w].on] = work[w].card]
        /\ unsure' = IF w \in overlapped THEN unsure \cup {work[w].on}
                     ELSE unsure \ {work[w].on}
     \/ cache' = cache /\ unsure' = unsure \cup {work[w].on}
  /\ overlapped' = overlapped \ {w}
  /\ \A x \in Pairs : job'[x].state = "completed" =>
       job[x].state = "completed" \/ x = work[w].job

GivesUp(w, v) ==
  /\ v = NoWork /\ cache' = cache /\ unsure' = unsure
  /\ overlapped' = overlapped \/ overlapped' = overlapped \ {w}
  /\ \A x \in Pairs : job'[x].state = "completed" => job[x].state = "completed"

WorkMove(w, v) ==
  /\ work' = [work EXCEPT ![w] = v] /\ version' = version /\ placed' = placed
  /\ job' \in [Pairs -> JobType] /\ UNCHANGED getVars
  /\ \A x \in Pairs : job'[x].state # "none" =>
       job[x].state # "none" \/ x = work[w].job
  /\ Takes(w, v) \/ Loads(w, v) \/ Writes(w, v) \/ GivesUp(w, v)

LEMMA WorkMoves ==
  ASSUME CardTypes, LoadedOK, NEW w \in Workers,
         WorkStep(w) \/ TakeSweep(w) \/ JobFails(w) \/ WorkerDies(w)
  PROVE  \E v \in WorkType : WorkMove(w, v)
<1> USE CardsAssumption
<1>0. /\ work[w] \in WorkType /\ job \in [Pairs -> JobType] /\ NoWork \in WorkType
      /\ \A x \in Pairs : x[2] \in Products
      /\ version \in [Products -> Nat] /\ placed \subseteq Orders
  BY DEF CardTypes, WorkType, NoWork, Cards, Pairs
<1>w. /\ work[w].job \in Pairs \cup {None, Sweep} /\ work[w].todo \subseteq Products
      /\ work[w].on \in Products \cup {None} /\ work[w].card \in Cards
  BY <1>0 DEF WorkType
<1>n. NoWork.on = None /\ NoWork.job = None
  BY DEF NoWork
<1>i. ASSUME NEW x \in Pairs, NEW s \in States, InState(x, s)
      PROVE  /\ job' \in [Pairs -> JobType] /\ job'[x].state = s
             /\ \A y \in Pairs \ {x} : job'[y] = job[y]
  <2>1. job[x] \in JobType
    BY <1>0
  <2>2. [state |-> s, tries |-> job[x].tries, stalls |-> job[x].stalls] \in JobType
    BY <2>1 DEF JobType
  <2>3. QED  BY <1>0, <1>i, <2>2 DEF InState
<1>1. ASSUME NEW x \in Pairs, TakeJob(w, x)
      PROVE  \E v \in WorkType : WorkMove(w, v)
  <2> DEFINE v == [job |-> x, todo |-> {x[2]}, on |-> None, card |-> None]
  <2>1. v \in WorkType
    BY <1>0 DEF WorkType, Cards
  <2>2. v.job = x /\ v.todo = {x[2]} /\ v.on = None
    OBVIOUS
  <2>3. /\ InState(x, "active") /\ "active" \in States /\ job[x].state = "waiting"
        /\ work[w] = NoWork
    BY <1>1 DEF TakeJob, States
  <2>4. /\ work' = [work EXCEPT ![w] = v] /\ version' = version
        /\ placed' = placed /\ UNCHANGED getVars /\ cache' = cache
        /\ UNCHANGED raceVars
    BY <1>1 DEF TakeJob
  <2> HIDE DEF v
  <2>5. /\ job' \in [Pairs -> JobType] /\ job'[x].state = "active"
        /\ \A y \in Pairs \ {x} : job'[y] = job[y]
    BY <1>i, <2>3
  <2>6. Takes(w, v)
    BY <1>n, <2>2, <2>3, <2>4, <2>5 DEF Takes
  <2>7. WorkMove(w, v)
    BY <2>3, <2>4, <2>5, <2>6 DEF WorkMove
  <2>8. QED  BY <2>1, <2>7
<1>2. CASE RefreshLoad(w)
  <2>1. PICK p \in work[w].todo :
          /\ work' = [work EXCEPT ![w] =
               [job |-> work[w].job, todo |-> work[w].todo, on |-> p,
                card |-> version[p]]]
          /\ Overlaps(w, p)
    BY <1>2 DEF RefreshLoad
  <2> DEFINE v == [job |-> work[w].job, todo |-> work[w].todo, on |-> p,
                   card |-> version[p]]
  <2>2. v \in WorkType
    BY <1>0, <1>w DEF WorkType, Cards
  <2>3. v.job = work[w].job /\ v.todo = work[w].todo /\ v.on = p
        /\ v.card = version[p] /\ p \in Products
    BY <1>w
  <2> HIDE DEF v
  <2>4. Loads(w, v)
    BY <1>2, <2>1, <2>3 DEF Loads, RefreshLoad
  <2>5. WorkMove(w, v)
    BY <1>0, <1>2, <2>1, <2>4 DEF WorkMove, RefreshLoad, v
  <2>6. QED  BY <2>2, <2>5
<1>3. CASE RefreshWrite(w)
  <2> DEFINE p == work[w].on
             x == work[w].job
             rest == work[w].todo \ {p}
             more == [job |-> x, todo |-> rest, on |-> None, card |-> None]
             v == IF rest = {} THEN NoWork ELSE more
  <2>1. p # None /\ x \in Pairs \cup {Sweep}
    BY <1>3, <1>w DEF RefreshWrite, LoadedOK
  <2>2. v \in WorkType /\ (v = NoWork \/ (/\ v.job = x /\ v.on = None
                                          /\ v.todo = rest /\ v.todo # {}))
    <3>1. more \in WorkType /\ more.on = None /\ more.job = x /\ more.todo = rest
      BY <1>w DEF WorkType, Cards
    <3> HIDE DEF more
    <3>2. QED  BY <1>0, <3>1
  <2>3. /\ work' = [work EXCEPT ![w] = v] /\ version' = version
        /\ placed' = placed /\ UNCHANGED getVars
        /\ \/ /\ cache' = [cache EXCEPT ![p] = work[w].card]
              /\ unsure' = IF w \in overlapped THEN unsure \cup {p}
                           ELSE unsure \ {p}
           \/ cache' = cache /\ unsure' = unsure \cup {p}
        /\ overlapped' = overlapped \ {w}
        /\ \/ job' = job
           \/ x # Sweep /\ InState(x, "completed")
    BY <1>3 DEF RefreshWrite, SetCard, SetFails
  <2>4. /\ job' \in [Pairs -> JobType]
        /\ \A y \in Pairs : y # x => job'[y] = job[y]
    <3>1. CASE job' = job
      BY <1>0, <3>1
    <3>2. CASE x # Sweep /\ InState(x, "completed")
      <4>1. x \in Pairs /\ "completed" \in States
        BY <2>1, <3>2 DEF States
      <4>2. QED  BY <1>i, <3>2, <4>1
    <3>3. QED  BY <2>3, <3>1, <3>2
  <2> HIDE DEF v
  <2>5. Writes(w, v)
    BY <2>1, <2>2, <2>3, <2>4 DEF Writes
  <2>6. WorkMove(w, v)
    BY <2>3, <2>4, <2>5 DEF WorkMove
  <2>7. QED  BY <2>2, <2>6
<1>4. CASE TakeSweep(w)
  <2> DEFINE v == [job |-> Sweep, todo |-> HotProducts, on |-> None, card |-> None]
  <2>1. HotProducts \subseteq Products
    BY <1>0 DEF HotProducts
  <2>2. v \in WorkType /\ v.job = Sweep /\ v.on = None
    BY <2>1 DEF WorkType, Cards
  <2>3. /\ work' = [work EXCEPT ![w] = v] /\ work[w] = NoWork
        /\ version' = version /\ placed' = placed /\ UNCHANGED getVars
        /\ job' = job /\ cache' = cache /\ UNCHANGED raceVars
    BY <1>4 DEF TakeSweep
  <2> HIDE DEF v
  <2>4. Takes(w, v)
    BY <1>n, <2>2, <2>3 DEF Takes
  <2>5. WorkMove(w, v)
    BY <1>0, <2>3, <2>4 DEF WorkMove
  <2>6. QED  BY <2>2, <2>5
<1>g. ASSUME work[w].job # None,
             work' = [work EXCEPT ![w] = NoWork], version' = version,
             placed' = placed, UNCHANGED getVars, cache' = cache,
             unsure' = unsure,
             overlapped' = overlapped \/ overlapped' = overlapped \ {w},
             \/ job' = job
             \/ /\ work[w].job # Sweep
                /\ \E j \in JobType : /\ job' = [job EXCEPT ![work[w].job] = j]
                                      /\ j.state # "completed"
      PROVE  \E v \in WorkType : WorkMove(w, v)
  <2>1. /\ job' \in [Pairs -> JobType]
        /\ \A x \in Pairs : job'[x].state = "completed" => job[x].state = "completed"
        /\ \A x \in Pairs : x # work[w].job => job'[x] = job[x]
    BY <1>0, <1>g, <1>w
  <2>2. WorkMove(w, NoWork)
    BY <1>g, <2>1 DEF WorkMove, GivesUp
  <2>3. QED  BY <1>0, <2>2
<1>5. CASE JobFails(w)
  <2> DEFINE x == work[w].job
             j == [state |-> IF job[x].tries + 1 < Attempts
                             THEN "waiting" ELSE "failed",
                   tries |-> job[x].tries + 1, stalls |-> job[x].stalls]
  <2>1. x \in Pairs \cup {Sweep} /\ x # None
    BY <1>5, <1>w DEF JobFails
  <2>2. x \in Pairs => j \in JobType /\ j.state # "completed"
    <3>1. x \in Pairs => job[x] \in JobType
      BY <1>0
    <3>2. QED  BY <3>1 DEF JobType, States
  <2>3. job' = job \/ (x # Sweep /\ job' = [job EXCEPT ![x] = j])
    BY <1>5 DEF JobFails
  <2> HIDE DEF j
  <2>4. \/ job' = job
        \/ x # Sweep /\ \E i \in JobType : job' = [job EXCEPT ![x] = i]
                                            /\ i.state # "completed"
    BY <2>1, <2>2, <2>3
  <2>5. QED  BY <1>5, <1>g, <2>1, <2>4 DEF JobFails, raceVars
<1>6. CASE WorkerDies(w)
  <2> DEFINE x == work[w].job
             j == [state |-> IF job[x].stalls < MaxStalls
                             THEN "waiting" ELSE "failed",
                   tries |-> job[x].tries, stalls |-> job[x].stalls + 1]
  <2>1. x \in Pairs \cup {Sweep} /\ x # None
    BY <1>6, <1>w DEF WorkerDies
  <2>2. x \in Pairs => j \in JobType /\ j.state # "completed"
    <3>1. x \in Pairs => job[x] \in JobType
      BY <1>0
    <3>2. QED  BY <3>1 DEF JobType, States
  <2>3. job' = job \/ (x # Sweep /\ job' = [job EXCEPT ![x] = j])
    BY <1>6 DEF WorkerDies
  <2> HIDE DEF j
  <2>4. \/ job' = job
        \/ x # Sweep /\ \E i \in JobType : job' = [job EXCEPT ![x] = i]
                                            /\ i.state # "completed"
    BY <2>1, <2>2, <2>3
  <2>5. QED  BY <1>6, <1>g, <2>1, <2>4 DEF WorkerDies
<1>7. QED  BY <1>1, <1>2, <1>3, <1>4, <1>5, <1>6 DEF WorkStep


(* A step of neither a call nor a worker *)
LEMMA OtherCases ==
  ASSUME Others
  PROVE  \/ \E p \in Products : Evict(p)
         \/ \E o \in Orders : PlaceOrder(o)
         \/ \E x \in Pairs : AddJob(x)
         \/ \E w \in Workers : WorkStep(w) \/ TakeSweep(w) \/ JobFails(w) \/ WorkerDies(w)
         \/ UNCHANGED vars
BY DEF Others, AllDone

(* A commit changes the version of its products and leaves a job for each. *)
LEMMA PlaceFacts ==
  ASSUME CardTypes, NEW o \in Orders, PlaceOrder(o)
  PROVE  /\ o \notin placed /\ placed' = placed \cup {o}
         /\ version' \in [Products -> Nat] /\ job' \in [Pairs -> JobType]
         /\ \A p \in Products : p \notin Lines[o] => version'[p] = version[p]
         /\ \A x \in Pairs : IF x[1] = o THEN job'[x].state = "adding"
                             ELSE job'[x] = job[x]
         /\ cache' = cache /\ work' = work /\ UNCHANGED raceVars /\ get' = get
         /\ lock' = lock /\ lostTo' = lostTo /\ inTime' = inTime
<1>1. [state |-> "adding", tries |-> 0, stalls |-> 0] \in JobType
  BY DEF JobType, States
<1>2. \A p \in Products : version[p] \in Nat /\ version[p] + 1 \in Nat
  BY DEF CardTypes
<1>3. /\ version' = [p \in Products |->
                       IF p \in Lines[o] THEN version[p] + 1 ELSE version[p]]
      /\ job' = [x \in Pairs |->
           IF x[1] = o THEN [state |-> "adding", tries |-> 0, stalls |-> 0]
           ELSE job[x]]
  BY DEF PlaceOrder
<1>4. version' \in [Products -> Nat]
  BY <1>2, <1>3
<1>5. job' \in [Pairs -> JobType]
  BY <1>1, <1>3 DEF CardTypes
<1>6. \A x \in Pairs : IF x[1] = o THEN job'[x].state = "adding"
                       ELSE job'[x] = job[x]
  BY <1>3
<1>7. \A p \in Products : p \notin Lines[o] => version'[p] = version[p]
  BY <1>3
<1>8. QED  BY <1>4, <1>5, <1>6, <1>7 DEF PlaceOrder, getVars

LEMMA AddFacts ==
  ASSUME CardTypes, NEW x \in Pairs, AddJob(x)
  PROVE  /\ job' \in [Pairs -> JobType]
         /\ job[x].state = "adding" /\ job'[x].state \in {"waiting", "lost"}
         /\ \A y \in Pairs \ {x} : job'[y] = job[y]
         /\ cache' = cache /\ work' = work /\ UNCHANGED raceVars /\ get' = get
         /\ version' = version /\ placed' = placed
         /\ lock' = lock /\ lostTo' = lostTo /\ inTime' = inTime
<1>1. \E s \in {"waiting", "lost"} : InState(x, s)
  BY DEF AddJob
<1>2. PICK s \in {"waiting", "lost"} : InState(x, s)
  BY <1>1
<1> DEFINE j == [state |-> s, tries |-> job[x].tries, stalls |-> job[x].stalls]
<1>3. job[x] \in JobType
  BY DEF CardTypes
<1>4. j \in JobType /\ j.state = s
  BY <1>3 DEF JobType, States
<1>5. job' = [job EXCEPT ![x] = j]
  BY <1>2 DEF InState
<1> HIDE DEF j
<1>6. /\ job' \in [Pairs -> JobType] /\ job'[x] = j
      /\ \A y \in Pairs \ {x} : job'[y] = job[y]
  BY <1>4, <1>5 DEF CardTypes
<1>7. QED  BY <1>4, <1>6 DEF AddJob, getVars

LEMMA CardStep ==
  ASSUME CardInv, [Next]_vars
  PROVE  CardInv'
<1> USE CardsAssumption
<1>0. FlightInv /\ GetTypes /\ CardTypes /\ LoadedOK
  BY DEF CardInv, FlightInv
<1>f. FlightInv'
  BY <1>0, FlightStep
<1>1. ASSUME NEW r \in Gets, NEW g \in GetType, GetMove(r, g)
      PROVE  CardTypes' /\ LoadedOK'
  <2>1. /\ get'[r] = g /\ \A q \in Gets \ {r} : get'[q] = get[q]
        /\ version' = version /\ placed' = placed /\ job' = job /\ work' = work
    BY <1>0, <1>1 DEF GetMove, GetTypes, jobVars
  <2>2. Target[r] \in Products /\ version[Target[r]] \in Nat /\ get[r].card \in Cards
    BY <1>0 DEF GetTypes, CardTypes, GetType
  <2>3. cache' \in [Products -> Cards]
    BY <1>0, <1>1, <2>2 DEF GetMove, CardMove, CardTypes
  <2>4. unsure' \subseteq Products /\ overlapped' \subseteq Gets \cup Workers
    <3>1. Loaded(Target[r]) \subseteq Gets \cup Workers
      BY DEF Loaded
    <3>2. QED
      BY <1>0, <1>1, <2>2, <3>1 DEF GetMove, CardMove, CardTypes, Overlaps
  <2>5. g.pc = "write" => g.card \in Nat
    BY <1>1, <2>2 DEF GetMove, CardMove
  <2>6. CardTypes'
    BY <1>0, <2>1, <2>3, <2>4 DEF CardTypes
  <2>7. LoadedOK'
    BY <1>0, <2>1, <2>5 DEF LoadedOK
  <2>8. QED  BY <2>6, <2>7
<1>2. CASE Tick
  <2>1. /\ version' = version /\ placed' = placed /\ job' = job /\ work' = work
        /\ cache' = cache /\ unsure' = unsure /\ overlapped' = overlapped
        /\ get' = [r \in Gets |->
             IF get[r].pc = "sleep"
             THEN [pc |-> "poll", card |-> None, polls |-> get[r].polls]
             ELSE get[r]]
    BY <1>2 DEF Tick, jobVars, raceVars
  <2>2. \A r \in Gets : get'[r].pc = "write" => get'[r] = get[r]
    BY <2>1
  <2>3. CardTypes'
    BY <1>0, <2>1 DEF CardTypes
  <2>4. LoadedOK'
    BY <1>0, <2>1, <2>2 DEF LoadedOK
  <2>5. QED  BY <1>f, <2>3, <2>4 DEF CardInv
<1>3. ASSUME NEW w \in Workers, NEW v \in WorkType, WorkMove(w, v)
      PROVE  CardTypes' /\ LoadedOK'
  <2>1. /\ work' \in [Workers -> WorkType]
        /\ work'[w] = v /\ \A u \in Workers \ {w} : work'[u] = work[u]
    BY <1>0, <1>3 DEF WorkMove, CardTypes
  <2>2. /\ version' = version /\ placed' = placed /\ get' = get
        /\ job' \in [Pairs -> JobType]
        /\ \A x \in Pairs : job'[x].state # "none" =>
             job[x].state # "none" \/ x = work[w].job
    BY <1>3 DEF WorkMove, getVars
  <2>3. work[w] \in WorkType /\ work[w].card \in Cards
        /\ work[w].on \in Products \cup {None} /\ v.on \in Products \cup {None}
    BY <1>0, <1>3 DEF CardTypes, WorkType
  <2>4. /\ cache' \in [Products -> Cards] /\ unsure' \subseteq Products
        /\ overlapped' \subseteq Gets \cup Workers
    <3>1. Loaded(v.on) \subseteq Gets \cup Workers
      BY DEF Loaded
    <3>2. QED
      BY <1>0, <1>3, <2>3, <3>1 DEF WorkMove, Takes, Loads, Writes, GivesUp,
                                    CardTypes, Overlaps, raceVars
  <2>5. /\ v.on # None => v.card \in Nat
        /\ v.job = None => v.todo = {} /\ v.on = None
        /\ v.job \in Pairs => /\ v.job[1] \in placed /\ v.todo = {v.job[2]}
                              /\ v.on \in {None, v.job[2]}
    <3>0. /\ work[w].job = None => work[w].todo = {} /\ work[w].on = None
          /\ work[w].job \in Pairs =>
               /\ work[w].job[1] \in placed /\ work[w].todo = {work[w].job[2]}
               /\ work[w].on \in {None, work[w].job[2]}
      BY <1>0 DEF LoadedOK
    <3>n. NoWork.job = None /\ NoWork.todo = {} /\ NoWork.on = None
          /\ None \notin Pairs /\ Sweep \notin Pairs
      BY DEF NoWork, Pairs
    <3>1. CASE Takes(w, v)
      <4>1. CASE v.job = Sweep
        BY <3>1, <3>n, <4>1 DEF Takes
      <4>2. ASSUME NEW x \in Pairs, v.job = x, v.todo = {x[2]},
                   job[x].state = "waiting"
            PROVE  v.job # None /\ v.job[1] \in placed /\ v.todo = {v.job[2]}
        BY <1>0, <3>n, <4>2 DEF LoadedOK
      <4>3. QED  BY <3>1, <4>1, <4>2 DEF Takes
    <3>2. CASE Loads(w, v)
      <4>1. version[v.on] \in Nat
        BY <1>0, <3>2 DEF Loads, CardTypes
      <4>2. QED  BY <3>0, <3>2, <4>1 DEF Loads
    <3>3. CASE Writes(w, v)
      <4>1. CASE v = NoWork
        BY <3>n, <4>1
      <4>2. CASE /\ v.job = work[w].job /\ v.on = None
                 /\ v.todo = work[w].todo \ {work[w].on} /\ v.todo # {}
        BY <3>0, <3>3, <4>2 DEF Writes
      <4>3. QED  BY <3>3, <4>1, <4>2 DEF Writes
    <3>4. CASE GivesUp(w, v)
      BY <3>4, <3>n DEF GivesUp
    <3>5. QED  BY <1>3, <3>1, <3>2, <3>3, <3>4 DEF WorkMove
  <2>6. \A x \in Pairs : job'[x].state # "none" => x[1] \in placed
    BY <1>0, <2>2 DEF LoadedOK
  <2>7. CardTypes'
    BY <1>0, <2>1, <2>2, <2>4 DEF CardTypes
  <2>8. LoadedOK'
    BY <1>0, <2>1, <2>2, <2>5, <2>6 DEF LoadedOK
  <2>9. QED  BY <2>7, <2>8
<1>4. ASSUME NEW p \in Products, Evict(p)
      PROVE  CardTypes' /\ LoadedOK'
  <2>1. /\ version' = version /\ placed' = placed /\ job' = job /\ work' = work
        /\ cache' = [cache EXCEPT ![p] = None] /\ unsure' = unsure \ {p}
        /\ get' = get /\ overlapped' = overlapped
    BY <1>4 DEF Evict, jobVars
  <2>2. CardTypes'
    BY <1>0, <2>1 DEF CardTypes, Cards
  <2>3. LoadedOK'
    BY <1>0, <2>1 DEF LoadedOK
  <2>4. QED  BY <2>2, <2>3
<1>e. ASSUME NEW p \in Products, EvictLock(p)
      PROVE  CardTypes' /\ LoadedOK'
  <2>1. /\ version' = version /\ placed' = placed /\ job' = job /\ work' = work
        /\ cache' = cache /\ UNCHANGED raceVars /\ get' = get
    BY <1>e DEF EvictLock, jobVars
  <2>2. CardTypes'
    BY <1>0, <2>1 DEF CardTypes, raceVars
  <2>3. LoadedOK'
    BY <1>0, <2>1 DEF LoadedOK
  <2>4. QED  BY <2>2, <2>3
<1>5. ASSUME NEW o \in Orders, PlaceOrder(o)
      PROVE  CardTypes' /\ LoadedOK'
  <2>1. CardTypes'
    BY <1>0, <1>5, PlaceFacts DEF CardTypes, raceVars
  <2>2. LoadedOK'
    BY <1>0, <1>5, PlaceFacts DEF LoadedOK
  <2>3. QED  BY <2>1, <2>2
<1>6. ASSUME NEW x \in Pairs, AddJob(x)
      PROVE  CardTypes' /\ LoadedOK'
  <2>1. CardTypes'
    BY <1>0, <1>6, AddFacts DEF CardTypes, raceVars
  <2>2. LoadedOK'
    BY <1>0, <1>6, AddFacts DEF LoadedOK
  <2>3. QED  BY <2>1, <2>2
<1>7. CASE UNCHANGED vars
  <2>1. CardTypes'
    BY <1>0, <1>7 DEF vars, CardTypes
  <2>2. LoadedOK'
    BY <1>0, <1>7 DEF vars, LoadedOK
  <2>3. QED  BY <1>f, <2>1, <2>2 DEF CardInv
<1>8. CardTypes' /\ LoadedOK'
  <2>1. ASSUME NEW r \in Gets, CallStep(r)
        PROVE  CardTypes' /\ LoadedOK'
    BY <1>0, <1>1, <2>1, GetMoves
  <2>2. ASSUME NEW w \in Workers,
               WorkStep(w) \/ TakeSweep(w) \/ JobFails(w) \/ WorkerDies(w)
        PROVE  CardTypes' /\ LoadedOK'
    BY <1>0, <1>3, <2>2, WorkMoves
  <2>3. QED
    BY <1>2, <1>4, <1>5, <1>6, <1>7, <1>e, <2>1, <2>2, NextCases, OtherCases
    DEF CardInv
<1>9. QED  BY <1>8, <1>f DEF CardInv

LEMMA CardInit ==
  ASSUME Init
  PROVE  CardInv
<1> USE CardsAssumption
<1>1. GetTypes
  BY DEF Init, GetTypes, Free, LockType, GetType, Places, Cards
<1>2. CardTypes
  BY DEF Init, CardTypes, NoWork, WorkType, JobType, States, Cards
<1>3. LocksOK
  BY DEF Init, LocksOK
<1>4. HoldersOK
  BY DEF Init, HoldersOK, Held
<1>5. LoadedOK
  <2>1. NoWork.job = None /\ NoWork.on = None /\ NoWork.todo = {} /\ None \notin Pairs
    BY DEF NoWork, Pairs
  <2>2. QED  BY <2>1 DEF Init, LoadedOK
<1>6. QED  BY <1>1, <1>2, <1>3, <1>4, <1>5 DEF CardInv, FlightInv

LEMMA CardInvAlways == Spec => []CardInv
BY CardInit, CardStep, PTL DEF Spec

(* The single flight: of the calls for one card, two are in the SELECT at  *)
(* once only if the lock of one of them ran out or was evicted.            *)
THEOREM LoadsAreSingleFlight == Spec => []SingleFlight
<1>1. CardInv => SingleFlight
  <2> SUFFICES ASSUME CardInv, NEW r \in Gets, NEW q \in Gets, r # q,
                      Target[r] = Target[q], Loading(r), Loading(q)
               PROVE  r \in expired \/ q \in expired
    BY DEF SingleFlight
  <2>1. get[r].pc \in Held /\ get[q].pc \in Held
    BY DEF Loading, Held
  <2>2. QED  BY <2>1 DEF CardInv, FlightInv, HoldersOK
<1>2. QED  BY <1>1, CardInvAlways, PTL


-----------------------------------------------------------------------------
(* What a waiter knows of the holder h it lost to, and of the lock l *)
Waiter(q, h, l, G, in) ==
  /\ h \in Gets /\ Target[h] = Target[q]
  /\ G[h].pc \notin {"idle", "read", "lock"}
  /\ G[q].pc = "sleep" /\ l.owner = h => G[q].polls + l.ttl <= LockTtl
  /\ G[q].pc = "poll" /\ l.owner = h => G[q].polls + l.ttl < LockTtl
  /\ G[q].pc = "timeout" => l.owner # h /\ h \notin in

LEMMA WaitByCall ==
  WaitOK <=> /\ \A r \in inTime : cache[Target[r]] # None
             /\ \A r \in Gets : get[r].pc \in {"sleep", "poll", "timeout"} =>
                  Waiter(r, lostTo[r], lock[Target[r]], get, inTime)
BY DEF WaitOK, Waiter

(* A card that a getCard wrote in time is in the cache. *)
LEMMA InTimeStep ==
  ASSUME WaitInv, [Next]_vars
  PROVE  \A h \in inTime' : cache'[Target[h]] # None
<1> USE CardsAssumption
<1>0. /\ FlightInv /\ GetTypes /\ CardTypes /\ LoadedOK
      /\ \A h \in inTime : h \in Gets /\ Target[h] \in Products
                           /\ cache[Target[h]] # None
  BY DEF WaitInv, CardInv, FlightInv, WaitOK, GetTypes
<1>c. cache \in [Products -> Cards] /\ None \notin Nat
  BY <1>0 DEF CardTypes
<1>1. ASSUME NEW r \in Gets, NEW g \in GetType, GetMove(r, g)
      PROVE  \A h \in inTime' : cache'[Target[h]] # None
  <2>1. CASE cache' = cache /\ inTime' = inTime
    BY <1>0, <2>1
  <2>2. CASE /\ get[r].pc = "write"
             /\ cache' = [cache EXCEPT ![Target[r]] = get[r].card]
             /\ inTime' \subseteq inTime \cup {r}
    <3>1. get[r].card # None /\ Target[r] \in Products
      BY <1>0, <1>c, <2>2 DEF LoadedOK
    <3>2. QED  BY <1>0, <1>c, <2>2, <3>1
  <2>3. QED  BY <1>1, <2>1, <2>2 DEF GetMove, CardMove
<1>2. ASSUME NEW w \in Workers, NEW v \in WorkType, WorkMove(w, v)
      PROVE  \A h \in inTime' : cache'[Target[h]] # None
  <2>1. inTime' = inTime
    BY <1>2 DEF WorkMove, getVars
  <2>2. CASE cache' = cache
    BY <1>0, <2>1, <2>2
  <2>3. CASE Writes(w, v)
    <3>1. work[w].on # None /\ work[w].card # None
      BY <1>0, <1>c, <2>3 DEF Writes, LoadedOK
    <3>2. QED  BY <1>0, <1>c, <2>1, <2>3, <3>1 DEF Writes
  <2>4. QED  BY <1>2, <2>2, <2>3 DEF WorkMove, Takes, Loads, GivesUp
<1>3. ASSUME NEW p \in Products, Evict(p)
      PROVE  \A h \in inTime' : cache'[Target[h]] # None
  BY <1>0, <1>3, <1>c DEF Evict
<1>4. CASE cache' = cache /\ inTime' = inTime
  BY <1>0, <1>4
<1>5. ASSUME NEW r \in Gets, CallStep(r)
      PROVE  \A h \in inTime' : cache'[Target[h]] # None
  BY <1>0, <1>1, <1>5, GetMoves
<1>6. ASSUME NEW w \in Workers,
             WorkStep(w) \/ TakeSweep(w) \/ JobFails(w) \/ WorkerDies(w)
      PROVE  \A h \in inTime' : cache'[Target[h]] # None
  BY <1>0, <1>2, <1>6, WorkMoves
<1>7. ASSUME NEW o \in Orders, PlaceOrder(o)
      PROVE  cache' = cache /\ inTime' = inTime
  BY <1>0, <1>7, PlaceFacts
<1>8. ASSUME NEW x \in Pairs, AddJob(x)
      PROVE  cache' = cache /\ inTime' = inTime
  BY <1>0, <1>8, AddFacts
<1>9. Tick => cache' = cache /\ inTime' = inTime
  BY DEF Tick
<1>10. UNCHANGED vars => cache' = cache /\ inTime' = inTime
  BY DEF vars
<1>11. (\E p \in Products : EvictLock(p)) => cache' = cache /\ inTime' = inTime
  BY DEF EvictLock
<1>12. QED
  BY <1>3, <1>4, <1>5, <1>6, <1>7, <1>8, <1>9, <1>10, <1>11, NextCases,
     OtherCases

(* The waiter's polls keep up with the lock of its holder. *)
LEMMA WaiterStep ==
  ASSUME WaitInv, [Next]_vars
  PROVE  \A q \in Gets : get'[q].pc \in {"sleep", "poll", "timeout"} =>
           Waiter(q, lostTo'[q], lock'[Target[q]], get', inTime')
<1> USE CardsAssumption
<1>0. FlightInv /\ GetTypes /\ LocksOK /\ CardTypes /\ LoadedOK /\ WaitOK
  BY DEF WaitInv, CardInv, FlightInv
<1>t. /\ get \in [Gets -> GetType] /\ lock \in [Products -> LockType]
      /\ lostTo \in [Gets -> Gets \cup {None}] /\ inTime \subseteq Gets
      /\ Target \in [Gets -> Products] /\ LockTtl \in Nat
      /\ Free.owner = None /\ Free.ttl = 0 /\ None \notin Gets
  BY <1>0 DEF GetTypes, Free
<1>w. \A q \in Gets : get[q].pc \in {"sleep", "poll", "timeout"} =>
        Waiter(q, lostTo[q], lock[Target[q]], get, inTime)
  BY <1>0, WaitByCall
<1>1. ASSUME NEW r \in Gets, NEW g \in GetType, GetMove(r, g),
             NEW q \in Gets, get'[q].pc \in {"sleep", "poll", "timeout"}
      PROVE  Waiter(q, lostTo'[q], lock'[Target[q]], get', inTime')
  <2>1. /\ get'[r] = g /\ \A s \in Gets \ {r} : get'[s] = get[s]
        /\ g.pc \in {"idle", "read", "lock"} => get[r].pc \in {"idle", "read", "lock"}
        /\ LockMove(r, g) /\ WaitMove(r, g) /\ CardMove(r, g)
    BY <1>1, <1>t DEF GetMove
  <2>2. CASE q # r
    <3> DEFINE h == lostTo[q]
               l == lock[Target[q]]
               m == lock'[Target[q]]
    <3>1. /\ get'[q] = get[q] /\ lostTo'[q] = h
          /\ Waiter(q, h, l, get, inTime)
      BY <1>1, <1>t, <1>w, <2>1, <2>2 DEF WaitMove
    <3>2. h \in Gets /\ Target[h] = Target[q]
          /\ get[h].pc \notin {"idle", "read", "lock"}
      BY <3>1 DEF Waiter
    <3>3. get'[h].pc \notin {"idle", "read", "lock"}
      BY <2>1, <3>2
    <3>4. m.owner = h => m = l
      <4>1. CASE lock' = lock
        BY <4>1
      <4>2. CASE lock' = [lock EXCEPT ![Target[r]] = Free]
        BY <1>t, <3>2, <4>2
      <4>3. CASE /\ get[r].pc = "lock"
                 /\ lock' = [lock EXCEPT ![Target[r]] = [owner |-> r, ttl |-> LockTtl]]
        <5>1. r # h
          BY <3>2, <4>3
        <5>2. CASE Target[q] = Target[r]
          <6>1. m = [owner |-> r, ttl |-> LockTtl]
            BY <1>t, <4>3, <5>2
          <6>2. QED  BY <5>1, <6>1
        <5>3. CASE Target[q] # Target[r]
          BY <1>t, <4>3, <5>3
        <5>4. QED  BY <5>2, <5>3
      <4>4. QED  BY <2>1, <4>1, <4>2, <4>3 DEF LockMove, ReleaseLock
    <3>5. get[q].pc = "timeout" => h \notin inTime'
      <4>1. get[q].pc = "timeout" => l.owner # h /\ h \notin inTime
        BY <3>1 DEF Waiter
      <4>2. \A x \in inTime' : x \in inTime \/ (x = r /\ lock[Target[r]].owner = r)
        BY <2>1 DEF CardMove
      <4>3. QED  BY <3>2, <4>1, <4>2
    <3> HIDE DEF h, l, m
    <3>6. Waiter(q, h, m, get', inTime')
      BY <3>1, <3>2, <3>3, <3>4, <3>5 DEF Waiter
    <3>7. QED  BY <3>1, <3>6 DEF m
  <2>3. CASE q = r
    <3> DEFINE l == lock[Target[r]]
               m == lock'[Target[r]]
               h == lostTo'[r]
    <3>l. l \in LockType /\ l.ttl \in Nat
          /\ (l = Free \/ (/\ l.owner \in Gets /\ Target[l.owner] = Target[r]
                           /\ l.ttl \in 1..LockTtl
                           /\ get[l.owner].pc \notin {"idle", "read", "lock"}))
      BY <1>0, <1>t DEF LocksOK, LockType
    <3>g. get[r].polls \in Nat
      BY <1>t DEF GetType
    <3>1. CASE /\ get[r].pc = "lock" /\ g.pc = "sleep" /\ g.polls = 0
               /\ l # Free /\ lock' = lock
               /\ lostTo' = [lostTo EXCEPT ![r] = l.owner]
      <4>1. h = l.owner /\ m = l /\ h # r
        BY <1>t, <3>1, <3>l
      <4>2. get'[h] = get[h] /\ h \in Gets /\ Target[h] = Target[r]
            /\ get[h].pc \notin {"idle", "read", "lock"} /\ l.ttl <= LockTtl
        BY <2>1, <3>1, <3>l, <4>1
      <4>3. g.polls + m.ttl <= LockTtl
        BY <1>t, <3>1, <3>l, <4>1, <4>2
      <4> HIDE DEF h, m
      <4>4. Waiter(r, h, m, get', inTime')
        BY <2>1, <3>1, <4>2, <4>3 DEF Waiter
      <4>5. QED  BY <2>3, <4>4 DEF h, m
    <3>r. CASE /\ get[r].pc = "lock" /\ g.pc = "sleep" /\ g.polls = 0
               /\ lock' = [lock EXCEPT ![Target[r]] =
                             [owner |-> r, ttl |-> LockTtl]]
               /\ lostTo' = [lostTo EXCEPT ![r] = r]
      <4>1. h = r /\ m = [owner |-> r, ttl |-> LockTtl]
        BY <1>t, <3>r
      <4>2. g.polls + m.ttl <= LockTtl
        BY <1>t, <3>r, <4>1
      <4>3. get'[h].pc = "sleep" /\ h \in Gets /\ Target[h] = Target[r]
        BY <2>1, <3>r, <4>1
      <4> HIDE DEF h, m
      <4>4. Waiter(r, h, m, get', inTime')
        BY <2>1, <3>r, <4>2, <4>3 DEF Waiter
      <4>5. QED  BY <2>3, <4>4 DEF h, m
    <3>2. CASE /\ get[r].pc = "poll" /\ g.pc \in {"sleep", "timeout"}
               /\ g.polls = get[r].polls + 1 /\ lostTo' = lostTo /\ lock' = lock
               /\ g.pc = "timeout" => g.polls >= LockTtl /\ cache[Target[r]] = None
      <4>1. h = lostTo[r] /\ m = l /\ Waiter(r, lostTo[r], l, get, inTime)
        BY <1>w, <3>2
      <4>2. /\ h \in Gets /\ Target[h] = Target[r]
            /\ get[h].pc \notin {"idle", "read", "lock"}
            /\ l.owner = h => get[r].polls + l.ttl < LockTtl
        BY <3>2, <4>1 DEF Waiter
      <4>3. get'[h].pc \notin {"idle", "read", "lock"}
        BY <2>1, <4>2
      <4>4. g.pc = "sleep" /\ m.owner = h => g.polls + m.ttl <= LockTtl
        BY <1>t, <3>2, <3>g, <3>l, <4>1, <4>2
      <4>5. g.pc = "timeout" => m.owner # h
        BY <1>t, <3>2, <3>g, <3>l, <4>1, <4>2
      <4>6. g.pc = "timeout" => h \notin inTime'
        <5>1. inTime' = inTime
          BY <2>1, <3>2 DEF CardMove
        <5>2. QED  BY <1>0, <3>2, <4>2, <5>1 DEF WaitOK
      <4> HIDE DEF h, m
      <4>7. Waiter(r, h, m, get', inTime')
        BY <2>1, <3>2, <4>2, <4>3, <4>4, <4>5, <4>6 DEF Waiter
      <4>8. QED  BY <2>3, <4>7 DEF h, m
    <3>3. QED  BY <1>1, <2>1, <2>3, <3>1, <3>2, <3>r DEF WaitMove
  <2>4. QED  BY <2>2, <2>3
<1>2. ASSUME Tick, NEW q \in Gets, get'[q].pc \in {"sleep", "poll", "timeout"}
      PROVE  Waiter(q, lostTo'[q], lock'[Target[q]], get', inTime')
  <2> DEFINE h == lostTo[q]
             l == lock[Target[q]]
             m == lock'[Target[q]]
  <2>1. /\ lock' = [p \in Products |-> Aged(lock[p])]
        /\ lostTo' = lostTo /\ inTime' = inTime
        /\ get' = [r \in Gets |->
             IF get[r].pc = "sleep"
             THEN [pc |-> "poll", card |-> None, polls |-> get[r].polls]
             ELSE get[r]]
    BY <1>2 DEF Tick
  <2>2. /\ get'[q].pc = IF get[q].pc = "sleep" THEN "poll" ELSE get[q].pc
        /\ get'[q].polls = get[q].polls /\ get[q].polls \in Nat
    <3>1. CASE get[q].pc = "sleep"
      <4>1. get'[q] = [pc |-> "poll", card |-> None, polls |-> get[q].polls]
        BY <2>1, <3>1
      <4>2. QED  BY <1>t, <3>1, <4>1 DEF GetType
    <3>2. CASE get[q].pc # "sleep"
      BY <1>t, <2>1, <3>2 DEF GetType
    <3>3. QED  BY <3>1, <3>2
  <2>3. Waiter(q, h, l, get, inTime)
    BY <1>2, <1>w, <2>2
  <2>4. /\ m = Aged(l) /\ l.ttl \in Nat
        /\ m = Free \/ (m.owner = l.owner /\ m.ttl = l.ttl - 1)
    BY <1>0, <1>t, <2>1, AgedFacts DEF LockType
  <2>5. h \in Gets /\ Target[h] = Target[q]
        /\ get[h].pc \notin {"idle", "read", "lock"}
    BY <2>3 DEF Waiter
  <2>6. get'[h].pc \notin {"idle", "read", "lock"}
    BY <2>1, <2>5
  <2>7. get'[q].pc = "poll" /\ m.owner = h => get'[q].polls + m.ttl < LockTtl
    <3> SUFFICES ASSUME get'[q].pc = "poll", m.owner = h
                 PROVE  get[q].polls + m.ttl < LockTtl
      BY <2>2
    <3>1. l.owner = h /\ m.ttl = l.ttl - 1
      BY <1>t, <2>4, <2>5
    <3>2. get[q].polls + l.ttl <= LockTtl
      BY <1>t, <2>2, <2>3, <2>4, <3>1 DEF Waiter
    <3> HIDE DEF m, l, h
    <3>3. QED  BY <1>t, <2>2, <2>4, <3>1, <3>2
  <2>8. get'[q].pc = "timeout" => m.owner # h /\ h \notin inTime'
    BY <1>t, <2>1, <2>2, <2>3, <2>4, <2>5 DEF Waiter
  <2>9. get'[q].pc # "sleep"
    BY <2>2
  <2> HIDE DEF h, m, l
  <2>10. Waiter(q, h, m, get', inTime')
    BY <2>5, <2>6, <2>7, <2>8, <2>9 DEF Waiter
  <2>11. QED  BY <2>1, <2>10 DEF h, m
<1>3. ASSUME Others, NEW q \in Gets, get'[q].pc \in {"sleep", "poll", "timeout"}
      PROVE  Waiter(q, lostTo'[q], lock'[Target[q]], get', inTime')
  <2>1. lock' = lock /\ get' = get /\ lostTo' = lostTo /\ inTime' \subseteq inTime
    BY <1>3, <1>t, OthersKeep
  <2>2. QED  BY <1>3, <1>w, <2>1 DEF Waiter
<1>4. ASSUME NEW r \in Gets, CallStep(r)
      PROVE  \E g \in GetType : GetMove(r, g)
  BY <1>0, <1>4, GetMoves
<1>5. ASSUME NEW p \in Products, EvictLock(p),
             NEW q \in Gets, get'[q].pc \in {"sleep", "poll", "timeout"}
      PROVE  Waiter(q, lostTo'[q], lock'[Target[q]], get', inTime')
  <2>1. /\ get' = get /\ lostTo' = lostTo /\ inTime' = inTime
        /\ lock'[Target[q]] \in {Free, lock[Target[q]]}
    BY <1>5, <1>t DEF EvictLock
  <2>2. Waiter(q, lostTo[q], lock[Target[q]], get, inTime)
    BY <1>5, <1>w, <2>1
  <2>3. QED  BY <1>t, <2>1, <2>2 DEF Waiter
<1>6. QED  BY <1>1, <1>2, <1>3, <1>4, <1>5, NextCases

(* A waiter gives up only when the holder it lost to has lost the lock     *)
(* without having written the card under it, or the card was evicted: the  *)
(* comment of WAIT_POLLS.                                                  *)
THEOREM WaitersWaitLongEnough == Spec => []WaitersOutlastLock
<1>1. Init => WaitInv
  <2> SUFFICES ASSUME Init PROVE WaitInv
    OBVIOUS
  <2>1. WaitOK
    BY DEF Init, WaitOK
  <2>2. QED  BY <2>1, CardInit DEF WaitInv
<1>2. WaitInv /\ [Next]_vars => WaitInv'
  <2> SUFFICES ASSUME WaitInv, [Next]_vars PROVE WaitInv'
    OBVIOUS
  <2>1. CardInv'
    BY CardStep DEF WaitInv
  <2>2. WaitOK'
    BY InTimeStep, WaiterStep DEF WaitOK, Waiter
  <2>3. QED  BY <2>1, <2>2 DEF WaitInv
<1>3. WaitInv => WaitersOutlastLock
  BY DEF WaitInv, WaitOK, WaitersOutlastLock
<1>4. QED  BY <1>1, <1>2, <1>3, PTL DEF Spec


-----------------------------------------------------------------------------
(* A step that leaves the versions and the pending jobs of p alone keeps   *)
(* what is known of its loads, if none of p begins.                        *)
LEMMA LoadsStay ==
  ASSUME NEW p \in Products, Current(p), version'[p] = version[p],
         \A x \in Pairs : Pending(x, p) => Pending(x, p)',
         \A r \in Gets : get'[r].pc = "write" /\ Target[r] = p =>
           get'[r] = get[r] /\ (r \notin overlapped' => r \notin overlapped),
         \A w \in Workers : work'[w].on = p =>
           work'[w] = work[w] /\ (w \notin overlapped' => w \notin overlapped)
  PROVE  GetsCurrent(p)' /\ WorkCurrent(p)'
<1>1. GetsCurrent(p)'
  BY DEF Current, GetsCurrent
<1>2. WorkCurrent(p)'
  BY DEF Current, WorkCurrent
<1>3. QED  BY <1>1, <1>2

(* ... and of the cache, if none ends in it. *)
LEMMA CacheStays ==
  ASSUME NEW p \in Products, Current(p), version'[p] = version[p],
         \A x \in Pairs : Pending(x, p) => Pending(x, p)',
         cache'[p] = None \/ (cache'[p] = cache[p]
                              /\ (p \in unsure => p \in unsure'))
  PROVE  CacheCurrent(p)'
BY DEF Current, CacheCurrent

(* Two that have a card of p are both known to overlap once a load of p    *)
(* returns to l.                                                           *)
LEMMA OverlapFacts ==
  ASSUME NEW p, NEW l, Overlaps(l, p)
  PROVE  /\ unsure' = unsure
         /\ \A m : m # l /\ m \in overlapped => m \in overlapped'
         /\ Loaded(p) = {} \/ (l \in overlapped' /\ Loaded(p) \subseteq overlapped')
BY DEF Overlaps

LEMMA CurrentStep ==
  ASSUME CurrentInv, [Next]_vars, NEW p \in Products
  PROVE  Current(p)'
<1> USE CardsAssumption
<1>0. GetTypes /\ CardTypes /\ LoadedOK /\ Current(p)
  BY DEF CurrentInv, CardInv, FlightInv, CurrentOK
<1>t. /\ get \in [Gets -> GetType] /\ work \in [Workers -> WorkType]
      /\ cache \in [Products -> Cards] /\ Target \in [Gets -> Products]
      /\ None \notin Products /\ \A r \in Gets : r \notin Workers
  BY <1>0 DEF GetTypes, CardTypes
<1>1. ASSUME NEW r \in Gets, NEW g \in GetType, GetMove(r, g)
      PROVE  Current(p)'
  <2>1. /\ get'[r] = g /\ \A q \in Gets \ {r} : get'[q] = get[q]
        /\ version' = version /\ job' = job /\ work' = work /\ placed' = placed
        /\ CardMove(r, g)
    BY <1>1, <1>t DEF GetMove, jobVars
  <2>2. \A x \in Pairs : Pending(x, p) => Pending(x, p)'
    BY <2>1 DEF Pending
  <2>3. CASE /\ get[r].pc = "load" /\ g.pc = "write"
             /\ g.card = version[Target[r]] /\ Overlaps(r, Target[r])
             /\ cache' = cache
    <3>1. /\ unsure' = unsure
          /\ \A m : m # r /\ m \in overlapped => m \in overlapped'
          /\ Target[r] = p =>
               Loaded(p) = {} \/ (/\ r \in overlapped'
                                  /\ Loaded(p) \subseteq overlapped')
      BY <2>3, OverlapFacts
    <3>2. CacheCurrent(p)'
      BY <1>0, <2>1, <2>2, <2>3, <3>1, CacheStays
    <3>3. CASE Target[r] = p /\ Loaded(p) = {}
      <4>1. /\ \A q \in Gets : ~(get[q].pc = "write" /\ Target[q] = p)
            /\ \A w \in Workers : work[w].on # p
        BY <3>3 DEF Loaded
      <4>2. GetsCurrent(p)'
        BY <2>1, <2>3, <3>3, <4>1 DEF GetsCurrent
      <4>3. WorkCurrent(p)'
        BY <2>1, <4>1 DEF WorkCurrent
      <4>4. QED  BY <3>2, <4>2, <4>3 DEF Current
    <3>4. CASE Target[r] = p /\ r \in overlapped' /\ Loaded(p) \subseteq overlapped'
      <4>1. \A q \in Gets : get'[q].pc = "write" /\ Target[q] = p =>
              q \in overlapped'
        BY <2>1, <3>4 DEF Loaded
      <4>2. \A w \in Workers : work'[w].on = p => w \in overlapped'
        BY <2>1, <3>4 DEF Loaded
      <4>3. QED  BY <3>2, <4>1, <4>2 DEF Current, GetsCurrent, WorkCurrent
    <3>5. CASE Target[r] # p
      <4>1. \A q \in Gets : get'[q].pc = "write" /\ Target[q] = p =>
              get'[q] = get[q] /\ (q \notin overlapped' => q \notin overlapped)
        BY <2>1, <3>1, <3>5
      <4>2. \A w \in Workers : work'[w].on = p =>
              work'[w] = work[w] /\ (w \notin overlapped' => w \notin overlapped)
        BY <1>t, <2>1, <3>1
      <4>3. GetsCurrent(p)' /\ WorkCurrent(p)'
        BY <1>0, <2>1, <2>2, <4>1, <4>2, LoadsStay
      <4>4. QED  BY <3>2, <4>3 DEF Current
    <3>6. QED  BY <3>1, <3>3, <3>4, <3>5
  <2>s. ASSUME g.pc # "write",
               overlapped' = overlapped \/ overlapped' = overlapped \ {r}
        PROVE  GetsCurrent(p)' /\ WorkCurrent(p)'
    <3>1. \A q \in Gets : get'[q].pc = "write" /\ Target[q] = p =>
            get'[q] = get[q] /\ (q \notin overlapped' => q \notin overlapped)
      BY <2>1, <2>s
    <3>2. \A w \in Workers : work'[w].on = p =>
            work'[w] = work[w] /\ (w \notin overlapped' => w \notin overlapped)
      BY <1>t, <2>1, <2>s
    <3>3. QED  BY <1>0, <2>1, <2>2, <3>1, <3>2, LoadsStay
  <2>4. CASE /\ get[r].pc = "write" /\ g.pc # "write"
             /\ unsure' = IF r \in overlapped THEN unsure \cup {Target[r]}
                          ELSE unsure \ {Target[r]}
             /\ overlapped' = overlapped \ {r}
             /\ cache' = [cache EXCEPT ![Target[r]] = get[r].card]
    <3>1. CacheCurrent(p)'
      <4>1. CASE Target[r] = p
        <5>1. cache'[p] = get[r].card
          BY <1>t, <2>4, <4>1
        <5>2. p \notin unsure' =>
                get[r].card = version[p] \/ \E x \in Pairs : Pending(x, p)
          BY <1>0, <2>4, <4>1 DEF Current, GetsCurrent
        <5>3. QED  BY <2>1, <2>2, <5>1, <5>2 DEF CacheCurrent
      <4>2. CASE Target[r] # p
        <5>1. cache'[p] = cache[p] /\ (p \in unsure => p \in unsure')
          BY <1>t, <2>4, <4>2
        <5>2. QED  BY <1>0, <2>1, <2>2, <5>1, CacheStays
      <4>3. QED  BY <4>1, <4>2
    <3>2. QED  BY <2>4, <2>s, <3>1 DEF Current
  <2>5. CASE /\ g.pc # "write" /\ cache' = cache
             /\ unsure' = unsure \/ unsure' = unsure \cup {Target[r]}
             /\ overlapped' = overlapped \/ overlapped' = overlapped \ {r}
    <3>1. CacheCurrent(p)'
      BY <1>0, <2>1, <2>2, <2>5, CacheStays
    <3>2. QED  BY <2>5, <2>s, <3>1 DEF Current
  <2>6. QED  BY <2>1, <2>3, <2>4, <2>5 DEF CardMove
<1>2. ASSUME NEW w \in Workers, NEW v \in WorkType, WorkMove(w, v)
      PROVE  Current(p)'
  <2>1. /\ work'[w] = v /\ \A u \in Workers \ {w} : work'[u] = work[u]
        /\ version' = version /\ placed' = placed /\ get' = get
        /\ Takes(w, v) \/ Loads(w, v) \/ Writes(w, v) \/ GivesUp(w, v)
    BY <1>2, <1>t DEF WorkMove, getVars
  <2>s. ASSUME v.on # p,
               \A m : m # w /\ m \in overlapped => m \in overlapped',
               \A x \in Pairs : Pending(x, p) => Pending(x, p)'
        PROVE  GetsCurrent(p)' /\ WorkCurrent(p)'
    <3>1. \A q \in Gets : get'[q].pc = "write" /\ Target[q] = p =>
            get'[q] = get[q] /\ (q \notin overlapped' => q \notin overlapped)
      BY <1>t, <2>1, <2>s
    <3>2. \A u \in Workers : work'[u].on = p =>
            work'[u] = work[u] /\ (u \notin overlapped' => u \notin overlapped)
      BY <2>1, <2>s
    <3>3. QED  BY <1>0, <2>1, <2>s, <3>1, <3>2, LoadsStay
  <2>2. CASE Takes(w, v) \/ GivesUp(w, v)
    <3>1. /\ v.on = None /\ cache' = cache /\ unsure' = unsure
          /\ \A m : m # w /\ m \in overlapped => m \in overlapped'
          /\ \A x \in Pairs : job'[x].state = "completed" => job[x].state = "completed"
      BY <2>2 DEF Takes, GivesUp, NoWork, raceVars
    <3>2. \A x \in Pairs : Pending(x, p) => Pending(x, p)'
      BY <2>1, <3>1 DEF Pending
    <3>3. CacheCurrent(p)'
      BY <1>0, <2>1, <3>1, <3>2, CacheStays
    <3>4. QED  BY <1>t, <2>s, <3>1, <3>2, <3>3 DEF Current
  <2>3. CASE Loads(w, v)
    <3>1. /\ Overlaps(w, v.on) /\ cache' = cache /\ job' = job
          /\ v.card = version[v.on] /\ work[w].on = None
      BY <2>3 DEF Loads
    <3>2. /\ unsure' = unsure
          /\ \A m : m # w /\ m \in overlapped => m \in overlapped'
          /\ v.on = p => Loaded(p) = {} \/ (/\ w \in overlapped'
                                            /\ Loaded(p) \subseteq overlapped')
      BY <3>1, OverlapFacts
    <3>3. \A x \in Pairs : Pending(x, p) => Pending(x, p)'
      BY <2>1, <3>1 DEF Pending
    <3>4. CacheCurrent(p)'
      BY <1>0, <2>1, <3>1, <3>2, <3>3, CacheStays
    <3>5. CASE v.on = p /\ Loaded(p) = {}
      <4>1. /\ \A q \in Gets : ~(get[q].pc = "write" /\ Target[q] = p)
            /\ \A u \in Workers : work[u].on # p
        BY <3>5 DEF Loaded
      <4>2. GetsCurrent(p)'
        BY <2>1, <4>1 DEF GetsCurrent
      <4>3. WorkCurrent(p)'
        BY <2>1, <3>1, <3>5, <4>1 DEF WorkCurrent
      <4>4. QED  BY <3>4, <4>2, <4>3 DEF Current
    <3>6. CASE v.on = p /\ w \in overlapped' /\ Loaded(p) \subseteq overlapped'
      <4>1. \A q \in Gets : get'[q].pc = "write" /\ Target[q] = p =>
              q \in overlapped'
        BY <2>1, <3>6 DEF Loaded
      <4>2. \A u \in Workers : work'[u].on = p => u \in overlapped'
        BY <2>1, <3>6 DEF Loaded
      <4>3. QED  BY <3>4, <4>1, <4>2 DEF Current, GetsCurrent, WorkCurrent
    <3>7. CASE v.on # p
      BY <2>s, <3>2, <3>3, <3>4, <3>7 DEF Current
    <3>8. QED  BY <3>2, <3>5, <3>6, <3>7
  <2>4. CASE Writes(w, v)
    <3> DEFINE d == work[w].on
    <3>1. /\ d # None /\ v.on = None
          /\ \A x \in Pairs : job'[x].state = "completed" =>
               job[x].state = "completed" \/ x = work[w].job
          /\ \/ /\ cache' = [cache EXCEPT ![d] = work[w].card]
                /\ unsure' = IF w \in overlapped THEN unsure \cup {d}
                             ELSE unsure \ {d}
             \/ cache' = cache /\ unsure' = unsure \cup {d}
          /\ overlapped' = overlapped \ {w}
      BY <2>4 DEF Writes, NoWork
    <3>2. d \in Products
      BY <1>t, <3>1 DEF WorkType
    <3>3. \A x \in Pairs : Pending(x, p) /\ x # work[w].job => Pending(x, p)'
      BY <2>1, <3>1 DEF Pending
    <3>4. CASE d = p
      <4>1. \A q \in Gets : get'[q].pc = "write" /\ Target[q] = p =>
              q \in overlapped'
        BY <1>0, <1>t, <2>1, <3>1, <3>4 DEF Current, GetsCurrent
      <4>2. \A u \in Workers : work'[u].on = p => u \in overlapped'
        BY <1>0, <1>t, <2>1, <3>1, <3>4 DEF Current, WorkCurrent
      <4>3. GetsCurrent(p)' /\ WorkCurrent(p)'
        BY <4>1, <4>2 DEF GetsCurrent, WorkCurrent
      <4>4. CacheCurrent(p)'
        <5>1. SUFFICES ASSUME p \notin unsure' PROVE CacheCurrent(p)'
          BY DEF CacheCurrent
        <5>2. w \notin overlapped /\ cache'[p] = work[w].card
          BY <1>t, <3>1, <3>4, <5>1
        <5>3. \/ work[w].card = version[p]
              \/ \E x \in Pairs : Pending(x, p) /\ work[w].job # x
          BY <1>0, <3>4, <5>2 DEF Current, WorkCurrent
        <5>4. QED  BY <2>1, <3>3, <5>2, <5>3 DEF CacheCurrent
      <4>5. QED  BY <4>3, <4>4 DEF Current
    <3>5. CASE d # p
      <4>1. \A x \in Pairs : Pending(x, p) => x # work[w].job
        BY <1>0, <3>1, <3>5 DEF Pending, LoadedOK
      <4>2. \A x \in Pairs : Pending(x, p) => Pending(x, p)'
        BY <3>3, <4>1
      <4>3. cache'[p] = cache[p] /\ (p \in unsure => p \in unsure')
        BY <1>t, <3>1, <3>5
      <4>4. CacheCurrent(p)'
        BY <1>0, <2>1, <4>2, <4>3, CacheStays
      <4>5. GetsCurrent(p)' /\ WorkCurrent(p)'
        BY <1>t, <2>s, <3>1, <4>2
      <4>6. QED  BY <4>4, <4>5 DEF Current
    <3>6. QED  BY <3>4, <3>5
  <2>5. QED  BY <2>1, <2>2, <2>3, <2>4
<1>s. ASSUME version' = version, work' = work, overlapped' = overlapped,
             \A x \in Pairs : Pending(x, p) => Pending(x, p)',
             \A r \in Gets : get'[r].pc = "write" => get'[r] = get[r],
             cache'[p] = None \/ (cache'[p] = cache[p]
                                  /\ (p \in unsure => p \in unsure'))
      PROVE  Current(p)'
  <2>1. GetsCurrent(p)' /\ WorkCurrent(p)'
    BY <1>0, <1>s, LoadsStay
  <2>2. CacheCurrent(p)'
    BY <1>0, <1>s, CacheStays
  <2>3. QED  BY <2>1, <2>2 DEF Current
<1>3. ASSUME NEW d \in Products, Evict(d)
      PROVE  Current(p)'
  <2>1. /\ version' = version /\ placed' = placed /\ job' = job /\ work' = work
        /\ cache' = [cache EXCEPT ![d] = None] /\ unsure' = unsure \ {d}
        /\ get' = get /\ overlapped' = overlapped
    BY <1>3 DEF Evict, jobVars
  <2>2. cache'[p] = None \/ (cache'[p] = cache[p]
                             /\ (p \in unsure => p \in unsure'))
    BY <1>t, <2>1
  <2>3. \A x \in Pairs : Pending(x, p) => Pending(x, p)'
    BY <2>1 DEF Pending
  <2>4. QED  BY <1>s, <2>1, <2>2, <2>3
<1>4. ASSUME NEW o \in Orders, PlaceOrder(o)
      PROVE  Current(p)'
  <2>1. /\ o \notin placed /\ placed' = placed \cup {o}
        /\ p \notin Lines[o] => version'[p] = version[p]
        /\ \A x \in Pairs : IF x[1] = o THEN job'[x].state = "adding"
                            ELSE job'[x] = job[x]
        /\ cache' = cache /\ work' = work /\ get' = get
        /\ overlapped' = overlapped /\ unsure' = unsure
    BY <1>0, <1>4, PlaceFacts DEF raceVars
  <2>2. CASE p \notin Lines[o]
    <3>1. \A x \in Pairs : Pending(x, p) => Pending(x, p)'
      BY <2>1 DEF Pending
    <3>2. GetsCurrent(p)' /\ WorkCurrent(p)'
      BY <1>0, <2>1, <2>2, <3>1, LoadsStay
    <3>3. CacheCurrent(p)'
      BY <1>0, <2>1, <2>2, <3>1, CacheStays
    <3>4. QED  BY <3>2, <3>3 DEF Current
  <2>3. CASE p \in Lines[o]
    <3> DEFINE x == <<o, p>>
    <3>1. x \in Pairs /\ x[1] = o /\ x[2] = p
      BY <2>3 DEF Pairs
    <3>2. \A w \in Workers : work'[w].job # x
      BY <1>0, <2>1, <3>1 DEF LoadedOK
    <3> HIDE DEF x
    <3>3. Pending(x, p)'
      BY <2>1, <3>1 DEF Pending
    <3>4. GetsCurrent(p)'
      BY <1>0, <2>1, <3>1, <3>3 DEF Current, GetsCurrent
    <3>5. WorkCurrent(p)'
      BY <1>0, <2>1, <3>1, <3>2, <3>3 DEF Current, WorkCurrent
    <3>6. CacheCurrent(p)'
      BY <3>1, <3>3 DEF CacheCurrent
    <3>7. QED  BY <3>4, <3>5, <3>6 DEF Current
  <2>4. QED  BY <2>2, <2>3
<1>5. ASSUME NEW y \in Pairs, AddJob(y)
      PROVE  Current(p)'
  <2>1. /\ job'[y].state \in {"waiting", "lost"}
        /\ \A z \in Pairs \ {y} : job'[z] = job[z]
        /\ cache' = cache /\ work' = work /\ get' = get
        /\ overlapped' = overlapped /\ unsure' = unsure
        /\ version' = version /\ placed' = placed
    BY <1>0, <1>5, AddFacts DEF raceVars
  <2>2. \A x \in Pairs : Pending(x, p) => Pending(x, p)'
    BY <2>1 DEF Pending
  <2>3. QED  BY <1>s, <2>1, <2>2
<1>6. CASE Tick
  <2>1. /\ version' = version /\ placed' = placed /\ job' = job /\ work' = work
        /\ cache' = cache /\ unsure' = unsure /\ overlapped' = overlapped
        /\ get' = [r \in Gets |->
             IF get[r].pc = "sleep"
             THEN [pc |-> "poll", card |-> None, polls |-> get[r].polls]
             ELSE get[r]]
    BY <1>6 DEF Tick, jobVars, raceVars
  <2>2. \A r \in Gets : get'[r].pc = "write" => get'[r] = get[r]
    BY <2>1
  <2>3. \A x \in Pairs : Pending(x, p) => Pending(x, p)'
    BY <2>1 DEF Pending
  <2>4. QED  BY <1>s, <2>1, <2>2, <2>3
<1>7. CASE UNCHANGED vars \/ \E d \in Products : EvictLock(d)
  <2>1. /\ version' = version /\ placed' = placed /\ job' = job /\ work' = work
        /\ cache' = cache /\ unsure' = unsure /\ get' = get
        /\ overlapped' = overlapped
    BY <1>7 DEF vars, EvictLock, jobVars, raceVars
  <2>2. \A x \in Pairs : Pending(x, p) => Pending(x, p)'
    BY <2>1 DEF Pending
  <2>3. QED  BY <1>s, <2>1, <2>2
<1>8. ASSUME NEW r \in Gets, CallStep(r)
      PROVE  Current(p)'
  BY <1>0, <1>1, <1>8, GetMoves
<1>9. ASSUME NEW w \in Workers,
             WorkStep(w) \/ TakeSweep(w) \/ JobFails(w) \/ WorkerDies(w)
      PROVE  Current(p)'
  BY <1>0, <1>2, <1>9, WorkMoves
<1>10. QED
  BY <1>3, <1>4, <1>5, <1>6, <1>7, <1>8, <1>9, NextCases, OtherCases

(* A cached card is current once the jobs of its orders are completed and  *)
(* no card is on its way to the cache, unless the last one was loaded or   *)
(* written while another was on its way, or its SET failed; the next card  *)
(* that is written alone makes it current again.                           *)
THEOREM SettledCardsAreCurrent == Spec => []SettledCardIsCurrent
<1> USE CardsAssumption
<1>1. Init => CurrentInv
  <2> SUFFICES ASSUME Init PROVE CurrentInv
    OBVIOUS
  <2>1. NoWork.on = None
    BY DEF NoWork
  <2>2. CurrentOK
    BY <2>1 DEF Init, CurrentOK, Current, GetsCurrent, WorkCurrent, CacheCurrent
  <2>3. QED  BY <2>2, CardInit DEF CurrentInv
<1>2. CurrentInv /\ [Next]_vars => CurrentInv'
  <2> SUFFICES ASSUME CurrentInv, [Next]_vars PROVE CurrentInv'
    OBVIOUS
  <2>1. CardInv'
    BY CardStep DEF CurrentInv
  <2>2. \A p \in Products : Current(p)'
    BY CurrentStep
  <2>3. QED  BY <2>1, <2>2 DEF CurrentInv, CurrentOK
<1>3. CurrentInv => SettledCardIsCurrent
  BY DEF CurrentInv, CurrentOK, Current, CacheCurrent, Pending,
         SettledCardIsCurrent
<1>4. QED  BY <1>1, <1>2, <1>3, PTL DEF Spec
=============================================================================
