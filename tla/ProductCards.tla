---------------------------- MODULE ProductCards ----------------------------
(***************************************************************************)
(* Product cards cached in Redis: ProductCardService.getCard with its      *)
(* single-flight lock (src/catalog/product-card.service.ts), and the       *)
(* refresh of cards by RatingWorker (src/queue/rating.worker.ts) for the   *)
(* jobs that OrdersService adds through RatingQueueService after an order. *)
(* A card is the version of the product's rows it was read from.  Time is  *)
(* counted in polls of WAIT_POLL_MS: a Tick is one of them.                *)
(***************************************************************************)
EXTENDS Integers, FiniteSets

CONSTANTS
  Products,
  Orders, Lines,  \* orders, and the products of each
  Gets, Target,   \* calls of getCard, and the product of each
  Workers,        \* RatingWorker processes; each works on one job at a time
  None,           \* no card, no lock owner, no job
  Sweep,          \* the job of the scheduler
  LockTtl,        \* LOCK_TTL_MS in ticks
  Attempts,       \* attempts of ratingJobOptions
  MaxStalls,      \* times BullMQ gives a stalled job to another worker
  MaxSweeps,      \* bound: runs of the scheduled sweep
  MaxFaults       \* bound: failing calls, evictions and dying processes

ASSUME CardsAssumption ==
  /\ Lines \in [Orders -> SUBSET Products]
  /\ Target \in [Gets -> Products]
  /\ None \notin Gets \cup Products \cup Nat /\ Gets \cap Workers = {}
  /\ {None, Sweep} \cap (Orders \X Products) = {} /\ None # Sweep
  /\ LockTtl \in Nat \ {0} /\ Attempts \in Nat \ {0}
  /\ MaxStalls \in Nat /\ MaxSweeps \in Nat /\ MaxFaults \in Nat

VARIABLES
  version,  \* committed changes of each product's rows
  cache,    \* the cached card of each product
  lock,     \* the single-flight lock: its owner's token and its life
  get,      \* each getCard: where it is, the card it has, polls made
  placed,   \* the committed orders
  job,      \* the rating job of each order and product
  work,     \* each worker: its job, the products to refresh, the one it is
            \* on and the card it has loaded
  sweeps,   \* sweeps so far
  lostTo,   \* history: the holder of the lock a getCard waits for
  inTime,   \* history: getCards that wrote the card under their own lock
  expired,  \* history: getCards whose lock ran out or was evicted before they
            \* released it
  overlapped, \* history: getCards and workers that have a card to write while
            \* another had one of the same product
  unsure,   \* history: products whose last write overlapped or failed
  faults

vars == <<version, cache, lock, get, placed, job, work, sweeps, lostTo, inTime,
          expired, overlapped, unsure, faults>>
raceVars == <<overlapped, unsure>>
getVars == <<lock, get, lostTo, inTime, expired>>
jobVars == <<placed, job, work, sweeps>>

Pairs == {x \in Orders \X Products : x[2] \in Lines[x[1]]}
Free == [owner |-> None, ttl |-> 0]
NoWork == [job |-> None, todo |-> {}, on |-> None, card |-> None]

Init ==
  /\ version = [p \in Products |-> 1]
  /\ cache = [p \in Products |-> None]
  /\ lock = [p \in Products |-> Free]
  /\ get = [r \in Gets |-> [pc |-> "idle", card |-> None, polls |-> 0]]
  /\ placed = {}
  /\ job = [x \in Pairs |-> [state |-> "none", tries |-> 0, stalls |-> 0]]
  /\ work = [w \in Workers |-> NoWork]
  /\ sweeps = 0
  /\ lostTo = [r \in Gets |-> None]
  /\ inTime = {} /\ expired = {} /\ overlapped = {} /\ unsure = {}
  /\ faults = 0

Fault == faults < MaxFaults /\ faults' = faults + 1

-----------------------------------------------------------------------------
(* getCards and workers between the SELECT of repository.load and the SET *)
Loaded(p) ==
  {r \in Gets : get[r].pc = "write" /\ Target[r] = p}
  \cup {w \in Workers : work[w].on = p}

(* repository.load returns to l, maybe while another card of p is still to *)
(* be written.                                                             *)
Overlaps(l, p) ==
  /\ overlapped' = IF Loaded(p) = {} THEN overlapped \ {l}
                   ELSE overlapped \cup Loaded(p) \cup {l}
  /\ UNCHANGED unsure

(* writeCache by l *)
SetCard(l, p, card) ==
  /\ cache' = [cache EXCEPT ![p] = card]
  /\ unsure' = IF l \in overlapped THEN unsure \cup {p} ELSE unsure \ {p}
  /\ overlapped' = overlapped \ {l}
  /\ UNCHANGED faults

(* A failing SET is logged and forgotten. *)
SetFails(l, p) ==
  /\ Fault
  /\ unsure' = unsure \cup {p}
  /\ overlapped' = overlapped \ {l}
  /\ UNCHANGED cache

GoTo(r, pc) ==
  get' = [get EXCEPT ![r] = [pc |-> pc, card |-> get[r].card, polls |-> 0]]

Has(r, pc, card) ==
  get' = [get EXCEPT ![r] = [pc |-> pc, card |-> card, polls |-> 0]]

-----------------------------------------------------------------------------
GetCard(r) ==
  /\ get[r].pc = "idle"
  /\ GoTo(r, "read")
  /\ UNCHANGED <<version, cache, lock, lostTo, inTime, expired, raceVars, jobVars,
                 faults>>

(* The first readCache *)
ReadCache(r) ==
  LET c == cache[Target[r]]
  IN  /\ get[r].pc = "read"
      /\ IF c # None THEN Has(r, "returned", c) ELSE GoTo(r, "lock")
      /\ UNCHANGED <<version, cache, lock, lostTo, inTime, expired, raceVars,
                     jobVars, faults>>

(* SET lockKey token PX NX *)
AcquireLock(r) ==
  LET p == Target[r]
  IN  /\ get[r].pc = "lock"
      /\ IF lock[p] = Free
         THEN /\ lock' = [lock EXCEPT ![p] = [owner |-> r, ttl |-> LockTtl]]
              /\ GoTo(r, "again")
              /\ UNCHANGED lostTo
         ELSE /\ lostTo' = [lostTo EXCEPT ![r] = lock[p].owner]
              /\ GoTo(r, "sleep")
              /\ UNCHANGED lock
      /\ UNCHANGED <<version, cache, inTime, expired, raceVars, jobVars, faults>>

(* The second readCache, under the lock *)
ReadAgain(r) ==
  LET c == cache[Target[r]]
  IN  /\ get[r].pc = "again"
      /\ IF c # None THEN Has(r, "unlock", c) ELSE GoTo(r, "load")
      /\ UNCHANGED <<version, cache, lock, lostTo, inTime, expired, raceVars,
                     jobVars, faults>>

LoadCard(r) ==
  /\ get[r].pc = "load"
  /\ Has(r, "write", version[Target[r]])
  /\ Overlaps(r, Target[r])
  /\ UNCHANGED <<version, cache, lock, lostTo, inTime, expired, jobVars, faults>>

WriteCard(r) ==
  LET p == Target[r]
  IN  /\ get[r].pc = "write"
      /\ \/ /\ SetCard(r, p, get[r].card)
            /\ inTime' = IF lock[p].owner = r THEN inTime \cup {r} ELSE inTime
         \/ SetFails(r, p) /\ UNCHANGED inTime
      /\ GoTo(r, "unlock")
      /\ UNCHANGED <<version, lock, lostTo, expired, jobVars>>

(* Mutant: a bare DEL of the lock *)
DeleteLock(r) == lock' = [lock EXCEPT ![Target[r]] = Free]

(* UNLOCK_LUA: only the owner's token deletes the lock. *)
ReleaseLock(r) ==
  lock' = IF lock[Target[r]].owner = r
          THEN [lock EXCEPT ![Target[r]] = Free] ELSE lock

(* finally: the lock is released and the card returned. *)
Unlock(r) ==
  /\ get[r].pc = "unlock"
  /\ ReleaseLock(r)
  /\ GoTo(r, "returned")
  /\ UNCHANGED <<version, cache, lostTo, inTime, expired, raceVars, jobVars,
                 faults>>

(* Mutant: the waiters give up before the lock can have expired. *)
ShortPolls == LockTtl - 1

WaitPolls == LockTtl

(* Mutant: a waiter does not count its polls. *)
PollForever(r) ==
  LET c == cache[Target[r]]
  IN  /\ get[r].pc = "poll"
      /\ IF c # None THEN Has(r, "returned", c) ELSE GoTo(r, "sleep")
      /\ UNCHANGED <<version, cache, lock, lostTo, inTime, expired, raceVars,
                     jobVars, faults>>

(* A waiter that has slept reads the cache, and gives up in the end. *)
PollCache(r) ==
  LET c == cache[Target[r]]
      n == get[r].polls + 1
  IN  /\ get[r].pc = "poll"
      /\ get' = [get EXCEPT ![r] =
           IF c # None THEN [pc |-> "returned", card |-> c, polls |-> 0]
           ELSE [pc |-> IF n < WaitPolls THEN "sleep" ELSE "timeout",
                 card |-> None, polls |-> n]]
      /\ UNCHANGED <<version, cache, lock, lostTo, inTime, expired, raceVars,
                     jobVars, faults>>

(* PX: what is left of a lock after a tick *)
Aged(l) ==
  IF l.ttl <= 1 THEN Free ELSE [owner |-> l.owner, ttl |-> l.ttl - 1]

(***************************************************************************)
(* WAIT_POLL_MS go by: sleeping waiters wake up and locks come nearer to   *)
(* their end.  Every other step takes any time.                            *)
(***************************************************************************)
Tick ==
  /\ \/ \E r \in Gets : get[r].pc = "sleep"
     \/ \E p \in Products : lock[p] # Free
  /\ lock' = [p \in Products |-> Aged(lock[p])]
  /\ expired' = expired \cup {r \in Gets : lock[Target[r]].owner = r
                                           /\ lock[Target[r]].ttl = 1}
  /\ get' = [r \in Gets |->
       IF get[r].pc = "sleep"
       THEN [pc |-> "poll", card |-> None, polls |-> get[r].polls] ELSE get[r]]
  /\ UNCHANGED <<version, cache, lostTo, inTime, raceVars, jobVars, faults>>

(***************************************************************************)
(* The SET NX is done but its answer is lost: ioredis sends it again and   *)
(* the call finds the lock taken, by itself.                               *)
(***************************************************************************)
AcquireResent(r) ==
  LET p == Target[r]
  IN  /\ get[r].pc = "lock" /\ lock[p] = Free
      /\ Fault
      /\ lock' = [lock EXCEPT ![p] = [owner |-> r, ttl |-> LockTtl]]
      /\ lostTo' = [lostTo EXCEPT ![r] = r]
      /\ GoTo(r, "sleep")
      /\ UNCHANGED <<version, cache, inTime, expired, raceVars, jobVars>>

(***************************************************************************)
(* A Redis call or the SELECT fails and getCard throws; under the lock the *)
(* finally clause releases it, unless Redis or the process is gone.  The   *)
(* SET NX may have worked although its answer was lost.                    *)
(***************************************************************************)
GetFails(r) ==
  /\ get[r].pc \in {"read", "lock", "again", "load", "write", "unlock", "sleep",
                    "poll"}
  /\ Fault
  /\ \/ get[r].pc \in {"again", "load", "write", "unlock"} /\ ReleaseLock(r)
     \/ UNCHANGED lock
     \/ /\ get[r].pc = "lock" /\ lock[Target[r]] = Free
        /\ lock' = [lock EXCEPT ![Target[r]] = [owner |-> r, ttl |-> LockTtl]]
  /\ get' = [get EXCEPT ![r] = [pc |-> "failed", card |-> None, polls |-> 0]]
  /\ overlapped' = overlapped \ {r}
  /\ UNCHANGED <<version, cache, lostTo, inTime, expired, unsure, jobVars>>

(* A card reaches its TTL, or allkeys-lru drops it. *)
Evict(p) ==
  /\ cache[p] # None
  /\ Fault
  /\ cache' = [cache EXCEPT ![p] = None]
  /\ inTime' = inTime \ {r \in Gets : Target[r] = p}
  /\ unsure' = unsure \ {p}
  /\ UNCHANGED <<version, lock, get, lostTo, expired, overlapped, jobVars>>

(* allkeys-lru drops a lock: it is a key like any other. *)
EvictLock(p) ==
  /\ lock[p] # Free
  /\ Fault
  /\ lock' = [lock EXCEPT ![p] = Free]
  /\ expired' = expired \cup {lock[p].owner}
  /\ UNCHANGED <<version, cache, get, lostTo, inTime, raceVars, jobVars>>

-----------------------------------------------------------------------------
(* A checkout commits: stock and order lines of its products change. *)
PlaceOrder(o) ==
  /\ o \notin placed
  /\ placed' = placed \cup {o}
  /\ version' = [p \in Products |->
                   IF p \in Lines[o] THEN version[p] + 1 ELSE version[p]]
  /\ job' = [x \in Pairs |->
       IF x[1] = o THEN [state |-> "adding", tries |-> 0, stalls |-> 0]
       ELSE job[x]]
  /\ UNCHANGED <<cache, getVars, work, sweeps, raceVars, faults>>

InState(x, s) ==
  job' = [job EXCEPT ![x] = [state |-> s, tries |-> job[x].tries,
                             stalls |-> job[x].stalls]]

(* enqueueRecalcInBackground: one add per product, which may fail. *)
AddJob(x) ==
  /\ job[x].state = "adding"
  /\ \/ InState(x, "waiting") /\ UNCHANGED faults
     \/ Fault /\ InState(x, "lost")
  /\ UNCHANGED <<version, cache, getVars, placed, work, sweeps, raceVars>>

(* A worker takes a waiting job. *)
TakeJob(w, x) ==
  /\ work[w] = NoWork
  /\ job[x].state = "waiting"
  /\ InState(x, "active")
  /\ work' = [work EXCEPT ![w] = [job |-> x, todo |-> {x[2]}, on |-> None,
                                  card |-> None]]
  /\ UNCHANGED <<version, cache, getVars, placed, sweeps, raceVars, faults>>

(* The products with order lines; HOT_PRODUCTS is more than there are. *)
HotProducts == UNION {Lines[o] : o \in placed}

(* The scheduled sweep refreshes them one after the other. *)
TakeSweep(w) ==
  /\ work[w] = NoWork
  /\ sweeps < MaxSweeps
  /\ HotProducts # {}
  /\ sweeps' = sweeps + 1
  /\ work' = [work EXCEPT ![w] =
                [job |-> Sweep, todo |-> HotProducts, on |-> None,
                 card |-> None]]
  /\ UNCHANGED <<version, cache, getVars, placed, job, raceVars, faults>>

(* Mutant: refresh takes the cached card where there is one. *)
RefreshFromCache(w) ==
  /\ work[w].on = None
  /\ \E p \in work[w].todo :
       /\ work' = [work EXCEPT ![w] =
            [job |-> work[w].job, todo |-> work[w].todo, on |-> p,
             card |-> IF cache[p] = None THEN version[p] ELSE cache[p]]]
       /\ Overlaps(w, p)
  /\ UNCHANGED <<version, cache, getVars, placed, job, sweeps, faults>>

(* refresh: repository.load *)
RefreshLoad(w) ==
  /\ work[w].on = None
  /\ \E p \in work[w].todo :
       /\ work' = [work EXCEPT ![w] =
            [job |-> work[w].job, todo |-> work[w].todo, on |-> p,
             card |-> version[p]]]
       /\ Overlaps(w, p)
  /\ UNCHANGED <<version, cache, getVars, placed, job, sweeps, faults>>

(* Mutant: the loop does not go on to the next product. *)
RefreshSame(w) ==
  LET p == work[w].on
  IN  /\ p # None
      /\ SetCard(w, p, work[w].card) \/ SetFails(w, p)
      /\ work' = [work EXCEPT ![w] = [work[w] EXCEPT !.on = None,
                                                    !.card = None]]
      /\ UNCHANGED <<version, getVars, placed, job, sweeps>>

(* refresh: writeCache; after the last product the job is complete. *)
RefreshWrite(w) ==
  LET p == work[w].on
      x == work[w].job
      rest == work[w].todo \ {p}
  IN  /\ p # None
      /\ SetCard(w, p, work[w].card) \/ SetFails(w, p)
      /\ work' = [work EXCEPT ![w] =
           IF rest = {} THEN NoWork
           ELSE [job |-> x, todo |-> rest, on |-> None, card |-> None]]
      /\ IF rest = {} /\ x # Sweep THEN InState(x, "completed")
         ELSE UNCHANGED job
      /\ UNCHANGED <<version, getVars, placed, sweeps>>

(***************************************************************************)
(* The SELECT of a refresh fails: the job is tried again, Attempts times.  *)
(* A sweep has one attempt.                                                *)
(***************************************************************************)
JobFails(w) ==
  LET x == work[w].job
  IN  /\ x # None /\ work[w].on = None
      /\ Fault
      /\ work' = [work EXCEPT ![w] = NoWork]
      /\ IF x = Sweep THEN UNCHANGED job
         ELSE job' = [job EXCEPT ![x] =
                [state |-> IF job[x].tries + 1 < Attempts
                           THEN "waiting" ELSE "failed",
                 tries |-> job[x].tries + 1, stalls |-> job[x].stalls]]
      /\ UNCHANGED <<version, cache, getVars, placed, sweeps, raceVars>>

(***************************************************************************)
(* The worker dies: BullMQ finds the job stalled and gives it to another   *)
(* worker, MaxStalls times.  A sweep done again is as good as the next.    *)
(***************************************************************************)
WorkerDies(w) ==
  LET x == work[w].job
  IN  /\ x # None
      /\ Fault
      /\ work' = [work EXCEPT ![w] = NoWork]
      /\ IF x = Sweep THEN UNCHANGED job
         ELSE job' = [job EXCEPT ![x] =
                [state |-> IF job[x].stalls < MaxStalls
                           THEN "waiting" ELSE "failed",
                 tries |-> job[x].tries, stalls |-> job[x].stalls + 1]]
      /\ overlapped' = overlapped \ {w}
      /\ UNCHANGED <<version, cache, getVars, placed, sweeps, unsure>>

-----------------------------------------------------------------------------
GetStep(r) ==
  ReadCache(r) \/ AcquireLock(r) \/ ReadAgain(r) \/ LoadCard(r)
  \/ WriteCard(r) \/ Unlock(r) \/ PollCache(r)

WorkStep(w) ==
  (\E x \in Pairs : TakeJob(w, x)) \/ RefreshLoad(w) \/ RefreshWrite(w)

(* Every call and job is over: the system may rest. *)
AllDone ==
  /\ \A r \in Gets : get[r].pc \in {"returned", "timeout", "failed"}
  /\ placed = Orders
  /\ \A x \in Pairs : job[x].state \in {"completed", "failed", "lost"}
  /\ UNCHANGED vars

Next ==
  \/ \E r \in Gets : GetCard(r) \/ GetStep(r) \/ AcquireResent(r) \/ GetFails(r)
  \/ Tick
  \/ \E p \in Products : Evict(p) \/ EvictLock(p)
  \/ \E o \in Orders : PlaceOrder(o)
  \/ \E x \in Pairs : AddJob(x)
  \/ \E w \in Workers : WorkStep(w) \/ TakeSweep(w) \/ JobFails(w)
                        \/ WorkerDies(w)
  \/ AllDone

Spec == Init /\ [][Next]_vars

(***************************************************************************)
(* Time goes by, and the event loops of API and workers go on; nobody need *)
(* call, order or fail.                                                    *)
(***************************************************************************)
FairSpec ==
  /\ Spec
  /\ WF_vars(Tick)
  /\ \A r \in Gets : WF_vars(GetStep(r))
  /\ \A x \in Pairs : WF_vars(AddJob(x))
  /\ \A w \in Workers : WF_vars(WorkStep(w))

-----------------------------------------------------------------------------
(***************************************************************************)
(* The single flight: two getCards of one product are in the SELECT at     *)
(* once only if the lock of one of them ran out, or Redis evicted it.  The *)
(* owner's token is what keeps a slow call from deleting the lock of the   *)
(* next.                                                                   *)
(***************************************************************************)
Loading(r) == get[r].pc \in {"load", "write"}

SingleFlight ==
  \A r, q \in Gets :
    r # q /\ Target[r] = Target[q] /\ Loading(r) /\ Loading(q)
      => r \in expired \/ q \in expired

(***************************************************************************)
(* The comment of WAIT_POLLS: a waiter does not give up on a holder that   *)
(* writes the card while it still has the lock.  If a getCard times out,   *)
(* the holder it lost to did not write the card in time, or the card was   *)
(* evicted.                                                                *)
(***************************************************************************)
WaitersOutlastLock ==
  \A r \in Gets : get[r].pc = "timeout" => lostTo[r] \notin inTime

(***************************************************************************)
(* A cached card is current once things settle: if the job of every placed *)
(* order with the product is completed and no card of it is on its way to  *)
(* the cache, the cache has the latest version or none, unless the last    *)
(* card was loaded or written while another one was on its way, or its SET *)
(* failed (unsure): then an old card may stay, until its TTL or until a    *)
(* card is written with no other on its way, which is current again.       *)
(***************************************************************************)
SettledCardIsCurrent ==
  \A p \in Products \ unsure :
    /\ Loaded(p) = {}
    /\ \A x \in Pairs : x[2] = p /\ x[1] \in placed
                          => job[x].state = "completed"
    => cache[p] \in {None, version[p]}

(***************************************************************************)
(* Everything ends: a getCard that started returns or throws, a job that   *)
(* was to be added is completed, failed or lost, and no lock stays: not    *)
(* even that of a caller that died.                                        *)
(***************************************************************************)
CardsSettle ==
  /\ \A r \in Gets :
       get[r].pc = "read" ~> get[r].pc \in {"returned", "timeout", "failed"}
  /\ \A x \in Pairs :
       job[x].state = "adding"
         ~> job[x].state \in {"completed", "failed", "lost"}
  /\ \A p \in Products : lock[p] # Free ~> lock[p] = Free
=============================================================================
