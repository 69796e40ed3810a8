--------------------------- MODULE JobQueueProofs ---------------------------
(***************************************************************************)
(* JobQueue does each job once and drains what it was given, for any jobs, *)
(* workers and overlapping sets of ids.                                    *)
(***************************************************************************)
EXTENDS JobQueue, TLAPS

(***************************************************************************)
(* A worker at work has the row lock of its job, which is still pending:   *)
(* two workers cannot hold the same job, and nobody else completes it.     *)
(***************************************************************************)
LocksHeld ==
  \A w \in Workers :
    pc[w] = "work" =>
      /\ held[w] \in JobIds[w]
      /\ job[held[w]].owner = w /\ job[held[w]].status = "pending"

QueueInv == TypeOK /\ LocksHeld /\ ProcessedOnce /\ DrainedOnReturn

(* A worker's ids are job ids. *)
LEMMA IdsAreJobs == \A w \in Workers : JobIds[w] \subseteq Jobs
BY JobQueueAssumption

(* The initial state satisfies QueueInv: nothing is done or claimed. *)
LEMMA QueueInit == Init => QueueInv
<1> SUFFICES ASSUME Init PROVE QueueInv
  OBVIOUS
<1>1. TypeOK
  BY JobQueueAssumption DEF Init, TypeOK, JobType
<1>2. LocksHeld /\ ProcessedOnce /\ DrainedOnReturn
  BY DEF Init, LocksHeld, ProcessedOnce, DrainedOnReturn
<1>3. QED
  BY <1>1, <1>2 DEF QueueInv

(* claimJob takes the lock of a pending row and changes nothing else of it. *)
LEMMA ClaimKeeps ==
  ASSUME QueueInv, NEW w \in Workers, ClaimJob(w)
  PROVE  QueueInv'
<1>0. TypeOK /\ LocksHeld /\ ProcessedOnce /\ DrainedOnReturn
  BY DEF QueueInv
<1>1. PICK j \in Claimable(w) :
        /\ job' = [job EXCEPT ![j] =
                     [status |-> job[j].status, count |-> job[j].count,
                      worker |-> job[j].worker, owner |-> w]]
        /\ held' = [held EXCEPT ![w] = j]
  BY DEF ClaimJob
<1>2. /\ j \in Jobs /\ j \in JobIds[w]
      /\ job[j].status = "pending" /\ job[j].owner = NoWorker
  BY IdsAreJobs DEF Claimable, PendingOf
<1>3. pc' = [pc EXCEPT ![w] = "work"] /\ UNCHANGED <<processed, faults>>
  BY DEF ClaimJob
<1>4. job[j] \in JobType
  BY <1>0, <1>2 DEF TypeOK
<1>5. TypeOK'
  <2>1. [status |-> job[j].status, count |-> job[j].count,
         worker |-> job[j].worker, owner |-> w] \in JobType
    BY <1>4 DEF JobType
  <2>2. QED
    BY <1>0, <1>1, <1>2, <1>3, <2>1 DEF TypeOK
<1>6. \A k \in Jobs : /\ job'[k].status = job[k].status
                      /\ job'[k].count = job[k].count
                      /\ job'[k].worker = job[k].worker
                      /\ k # j => job'[k] = job[k]
  BY <1>0, <1>1 DEF TypeOK
<1>7. job'[j].owner = w
  BY <1>0, <1>1, <1>2 DEF TypeOK
<1>8. LocksHeld'
  <2>1. ASSUME NEW v \in Workers, pc'[v] = "work"
        PROVE  /\ held'[v] \in JobIds[v] /\ job'[held'[v]].owner = v
               /\ job'[held'[v]].status = "pending"
    <3>1. CASE v = w
      BY <1>0, <1>1, <1>2, <1>6, <1>7, <3>1 DEF TypeOK
    <3>2. CASE v # w
      <4>1. pc[v] = "work" /\ held'[v] = held[v]
        BY <1>0, <1>1, <1>3, <2>1, <3>2 DEF TypeOK
      <4>2. held[v] \in JobIds[v] /\ job[held[v]].owner = v
            /\ job[held[v]].status = "pending"
        BY <1>0, <4>1 DEF LocksHeld
      <4>3. held[v] \in Jobs /\ held[v] # j
        BY <1>2, <4>2, IdsAreJobs, JobQueueAssumption
      <4>4. QED
        BY <1>6, <4>1, <4>2, <4>3
    <3>3. QED
      BY <3>1, <3>2
  <2>2. QED
    BY <2>1 DEF LocksHeld
<1>9. ProcessedOnce'
  BY <1>0, <1>3, <1>6 DEF ProcessedOnce
<1>10. DrainedOnReturn'
  <2>1. \A v \in Workers : pc'[v] = "returned" => pc[v] = "returned"
    BY <1>0, <1>3 DEF TypeOK
  <2>2. QED
    BY <1>0, <1>6, <2>1, IdsAreJobs DEF DrainedOnReturn
<1>11. QED
  BY <1>5, <1>8, <1>9, <1>10 DEF QueueInv

(* The end of w's transaction: job j is done or given back. *)
LEMMA ReleaseKeeps ==
  ASSUME QueueInv, NEW w \in Workers, pc[w] = "work",
         NEW j, j = held[w],
         NEW next \in {"claim", "failed"}, pc' = [pc EXCEPT ![w] = next],
         held' = [held EXCEPT ![w] = NoJob],
         faults' \in 0..MaxFaults,
         \/ /\ job' = [job EXCEPT ![j] = Done(j, w)]
            /\ processed' \in {processed,
                               [processed EXCEPT ![w] = @ \cup {j}]}
         \/ /\ job' = [job EXCEPT ![j] =
                         [status |-> job[j].status, count |-> job[j].count,
                          worker |-> job[j].worker, owner |-> NoWorker]]
            /\ processed' = processed
  PROVE  QueueInv'
<1>0. TypeOK /\ LocksHeld /\ ProcessedOnce /\ DrainedOnReturn
  BY DEF QueueInv
<1>1. /\ j \in JobIds[w] /\ j \in Jobs
      /\ job[j].owner = w /\ job[j].status = "pending"
  BY <1>0, IdsAreJobs DEF LocksHeld
<1>2. job[j] \in JobType
  BY <1>0, <1>1 DEF TypeOK
<1>3. /\ job'[j] = Done(j, w) \/ job'[j] =
           [status |-> job[j].status, count |-> job[j].count,
            worker |-> job[j].worker, owner |-> NoWorker]
      /\ \A k \in Jobs : k # j => job'[k] = job[k]
      /\ job' \in [Jobs -> JobType]
  <2>1. Done(j, w) \in JobType
    BY <1>2 DEF Done, JobType
  <2>2. [status |-> job[j].status, count |-> job[j].count,
         worker |-> job[j].worker, owner |-> NoWorker] \in JobType
    BY <1>2 DEF JobType
  <2>3. QED
    BY <1>0, <1>1, <2>1, <2>2 DEF TypeOK
<1>4. /\ processed' \in [Workers -> SUBSET Jobs]
      /\ \A v \in Workers : v # w => processed'[v] = processed[v]
      /\ processed'[w] \subseteq processed[w] \cup {j}
      /\ j \in processed'[w] /\ j \notin processed[w] => job'[j] = Done(j, w)
  BY <1>0, <1>1 DEF TypeOK
<1>5. TypeOK'
  BY <1>0, <1>3, <1>4 DEF TypeOK
<1>6. LocksHeld'
  <2>1. ASSUME NEW v \in Workers, pc'[v] = "work"
        PROVE  /\ held'[v] \in JobIds[v] /\ job'[held'[v]].owner = v
               /\ job'[held'[v]].status = "pending"
    <3>1. v # w
      BY <1>0, <2>1 DEF TypeOK
    <3>2. pc[v] = "work" /\ held'[v] = held[v]
      BY <1>0, <2>1, <3>1 DEF TypeOK
    <3>3. /\ held[v] \in JobIds[v] /\ job[held[v]].owner = v
          /\ job[held[v]].status = "pending"
      BY <1>0, <3>2 DEF LocksHeld
    <3>4. held[v] \in Jobs /\ held[v] # j
      BY <1>1, <3>1, <3>3, IdsAreJobs
    <3>5. QED
      BY <1>3, <3>2, <3>3, <3>4
  <2>2. QED
    BY <2>1 DEF LocksHeld
<1>7. ProcessedOnce'
  <2>1. job[j].count = 0 /\ \A v \in Workers : j \notin processed[v]
    BY <1>0, <1>1 DEF ProcessedOnce
  <2>2. job'[j].count = IF job'[j].status = "done" THEN 1 ELSE 0
    BY <1>1, <1>3, <2>1 DEF Done
  <2>3. \A v \in Workers :
          j \in processed'[v] => job'[j].status = "done" /\ job'[j].worker = v
    BY <1>4, <2>1 DEF Done
  <2>4. ASSUME NEW k \in Jobs, k # j
        PROVE  /\ job'[k].count = IF job'[k].status = "done" THEN 1 ELSE 0
               /\ \A v \in Workers : k \in processed'[v] =>
                    job'[k].status = "done" /\ job'[k].worker = v
    BY <1>0, <1>3, <1>4, <2>4 DEF ProcessedOnce
  <2>5. QED
    BY <2>2, <2>3, <2>4 DEF ProcessedOnce
<1>8. DrainedOnReturn'
  <2>1. \A v \in Workers : pc'[v] = "returned" => pc[v] = "returned"
    BY <1>0 DEF TypeOK
  <2>2. \A k \in Jobs : job[k].status = "done" => job'[k] = job[k]
    BY <1>1, <1>3
  <2>3. QED
    BY <1>0, <2>1, <2>2, IdsAreJobs DEF DrainedOnReturn
<1>9. QED
  BY <1>5, <1>6, <1>7, <1>8 DEF QueueInv

(* Every step of every worker preserves QueueInv. *)
LEMMA QueueStep == QueueInv /\ [Next]_vars => QueueInv'
<1> SUFFICES ASSUME QueueInv, [Next]_vars PROVE QueueInv'
  OBVIOUS
<1>0. TypeOK /\ LocksHeld /\ ProcessedOnce /\ DrainedOnReturn
  BY DEF QueueInv
(* A worker that moves without a job moves alone. *)
<1>1. ASSUME NEW w \in Workers, pc[w] # "work",
             NEW next \in {"claim", "count", "returned", "failed"},
             pc' = [pc EXCEPT ![w] = next],
             held' = held \/ held' = [held EXCEPT ![w] = NoJob],
             UNCHANGED <<job, processed>>, faults' \in 0..MaxFaults,
             next = "returned" => PendingOf(w) = {}
      PROVE  QueueInv'
  <2>1. TypeOK'
    BY <1>0, <1>1 DEF TypeOK
  <2>2. LocksHeld'
    BY <1>0, <1>1 DEF TypeOK, LocksHeld
  <2>3. ProcessedOnce'
    BY <1>0, <1>1 DEF ProcessedOnce
  <2>4. PendingOf(w) = {} => \A j \in JobIds[w] : job[j].status = "done"
    BY <1>0, IdsAreJobs DEF PendingOf, TypeOK, JobType
  <2>5. DrainedOnReturn'
    BY <1>0, <1>1, <2>4 DEF TypeOK, DrainedOnReturn
  <2>6. QED
    BY <2>1, <2>2, <2>3, <2>5 DEF QueueInv
<1>2. ASSUME NEW w \in Workers, ClaimNothing(w) \/ CountPending(w)
      PROVE  QueueInv'
  BY <1>0, <1>1, <1>2 DEF ClaimNothing, CountPending, TypeOK
<1>3. ASSUME NEW w \in Workers, CompleteJob(w) PROVE QueueInv'
  BY <1>0, <1>3, ReleaseKeeps DEF CompleteJob, TypeOK
<1>4. ASSUME NEW w \in Workers, WorkerFails(w) PROVE QueueInv'
  <2>0. faults' \in 0..MaxFaults
    BY <1>0, <1>4, JobQueueAssumption DEF WorkerFails, Fault, TypeOK
  <2>1. CASE pc[w] = "work"
    BY <1>4, <2>0, <2>1, ReleaseKeeps DEF WorkerFails
  <2>2. CASE pc[w] # "work"
    BY <1>1, <1>4, <2>0, <2>2 DEF WorkerFails
  <2>3. QED
    BY <2>1, <2>2
<1>5. CASE UNCHANGED vars
  BY <1>5, <1>0
  DEF vars, QueueInv, TypeOK, LocksHeld, ProcessedOnce, DrainedOnReturn
<1>6. QED
  BY <1>2, <1>3, <1>4, <1>5, ClaimKeeps DEF Next, RunWorker, AllEnded

(* QueueInv holds in every reachable state. *)
LEMMA QueueAlways == Spec => []QueueInv
BY QueueInit, QueueStep, PTL DEF Spec

(***************************************************************************)
(* No job is done twice: only the holder of the row lock completes it, and *)
(* a completed row is not claimed again.                                   *)
(***************************************************************************)
THEOREM JobsAreDoneOnce == Spec => []ProcessedOnce
<1>1. QueueInv => ProcessedOnce
  BY DEF QueueInv
<1>2. QED
  BY <1>1, QueueAlways, PTL

(***************************************************************************)
(* A worker that returns leaves none of its ids pending: an empty claim    *)
(* alone never ends runWorker, and a done job never becomes pending again. *)
(***************************************************************************)
THEOREM ReturnMeansDrained == Spec => []DrainedOnReturn
<1>1. QueueInv => DrainedOnReturn
  BY DEF QueueInv
<1>2. QED
  BY <1>1, QueueAlways, PTL
=============================================================================
