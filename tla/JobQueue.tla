------------------------------ MODULE JobQueue ------------------------------
(***************************************************************************)
(* JobQueueService (src/jobs/job-queue.service.ts): workers drain rows of  *)
(* the jobs table, which checkout fills, with FOR UPDATE SKIP LOCKED.      *)
(* Every worker runs runWorker over a set of job ids of its own; the sets  *)
(* may overlap.                                                            *)
(***************************************************************************)
EXTENDS Integers, FiniteSets

CONSTANTS
  Jobs,       \* ids of the rows of jobs
  Workers,    \* calls of runWorker
  JobIds,     \* the ids each worker was given
  NoJob,
  NoWorker,   \* worker_id before completeJob, owner of an unlocked row
  MaxFaults   \* bound: connections lost in a behaviour

ASSUME JobQueueAssumption ==
  /\ Jobs \subseteq Nat /\ NoJob \notin Jobs
  /\ NoWorker \notin Workers
  /\ JobIds \in [Workers -> SUBSET Jobs]
  /\ MaxFaults \in Nat

VARIABLES
  job,        \* rows: status, processed_count, worker_id and row-lock owner
  pc,         \* where each worker is in the loop of runWorker
  held,       \* the job a worker has claimed
  processed,  \* the ids a worker will return
  faults      \* faults so far

vars == <<job, pc, held, processed, faults>>

Init ==
  /\ job = [j \in Jobs |-> [status |-> "pending", count |-> 0,
                            worker |-> NoWorker, owner |-> NoWorker]]
  /\ pc = [w \in Workers |-> "claim"]
  /\ held = [w \in Workers |-> NoJob]
  /\ processed = [w \in Workers |-> {}]
  /\ faults = 0

(* Jobs of worker w that are still to be done, claimed ones included *)
PendingOf(w) == {j \in JobIds[w] : job[j].status = "pending"}

(* Mutant: FOR UPDATE is forgotten, the claim locks nothing out. *)
ClaimableUnlocked(w) == PendingOf(w)

(* Those FOR UPDATE SKIP LOCKED can return *)
Claimable(w) == {j \in PendingOf(w) : job[j].owner = NoWorker}

(* claimJob: the first of them by id *)
ClaimJob(w) ==
  /\ pc[w] = "claim"
  /\ \E j \in Claimable(w) :
       /\ \A k \in Claimable(w) : j <= k
       /\ job' = [job EXCEPT ![j] =
                    [status |-> job[j].status, count |-> job[j].count,
                     worker |-> job[j].worker, owner |-> w]]
       /\ held' = [held EXCEPT ![w] = j]
  /\ pc' = [pc EXCEPT ![w] = "work"]
  /\ UNCHANGED <<processed, faults>>

(* Mutant: an empty claim is taken for an empty queue. *)
ReturnOnEmpty(w) ==
  /\ pc[w] = "claim"
  /\ Claimable(w) = {}
  /\ pc' = [pc EXCEPT ![w] = "returned"]
  /\ UNCHANGED <<job, held, processed, faults>>

(* claimJob finds no row it can lock: go and count the pending ones. *)
ClaimNothing(w) ==
  /\ pc[w] = "claim"
  /\ Claimable(w) = {}
  /\ pc' = [pc EXCEPT ![w] = "count"]
  /\ UNCHANGED <<job, held, processed, faults>>

(* What completeJob writes in the row of j *)
Done(j, w) == [status |-> "done", count |-> job[j].count + 1,
               worker |-> w, owner |-> NoWorker]

(* The work is over: completeJob, COMMIT, and on with the loop. *)
CompleteJob(w) ==
  /\ pc[w] = "work"
  /\ job' = [job EXCEPT ![held[w]] = Done(held[w], w)]
  /\ processed' = [processed EXCEPT ![w] = @ \cup {held[w]}]
  /\ held' = [held EXCEPT ![w] = NoJob]
  /\ pc' = [pc EXCEPT ![w] = "claim"]
  /\ UNCHANGED faults

(* Nothing pending: return what was processed; else sleep and try again. *)
CountPending(w) ==
  /\ pc[w] = "count"
  /\ pc' = [pc EXCEPT ![w] =
              IF PendingOf(w) = {} THEN "returned" ELSE "claim"]
  /\ UNCHANGED <<job, held, processed, faults>>

Fault == faults < MaxFaults /\ faults' = faults + 1

(* Mutant: the failed transaction is never rolled back. *)
FailsHoldingLock(w) ==
  /\ pc[w] \in {"claim", "work", "count"}
  /\ Fault
  /\ pc' = [pc EXCEPT ![w] = "failed"]
  /\ held' = [held EXCEPT ![w] = NoJob]
  /\ UNCHANGED <<job, processed>>

(***************************************************************************)
(* A query fails or the process dies: the open transaction is rolled back  *)
(* and runWorker throws.  At COMMIT the failure may come after the commit. *)
(***************************************************************************)
WorkerFails(w) ==
  /\ pc[w] \in {"claim", "work", "count"}
  /\ Fault
  /\ pc' = [pc EXCEPT ![w] = "failed"]
  /\ held' = [held EXCEPT ![w] = NoJob]
  /\ \/ pc[w] # "work" /\ UNCHANGED job
     \/ /\ pc[w] = "work"
        /\ \/ job' = [job EXCEPT ![held[w]] = Done(held[w], w)]
           \/ job' = [job EXCEPT ![held[w]] =
                [status |-> job[held[w]].status, count |-> job[held[w]].count,
                 worker |-> job[held[w]].worker, owner |-> NoWorker]]
  /\ UNCHANGED processed

RunWorker(w) ==
  ClaimJob(w) \/ ClaimNothing(w) \/ CompleteJob(w) \/ CountPending(w)

AllEnded == (\A w \in Workers : pc[w] \in {"returned", "failed"})
            /\ UNCHANGED vars

Next == (\E w \in Workers : RunWorker(w) \/ WorkerFails(w)) \/ AllEnded

Spec == Init /\ [][Next]_vars

(* The loop of every worker goes on: its queries and its sleeps end. *)
FairSpec == Spec /\ \A w \in Workers : WF_vars(RunWorker(w))

-----------------------------------------------------------------------------
JobType == [status: {"pending", "done"}, count: Nat,
            worker: Workers \cup {NoWorker}, owner: Workers \cup {NoWorker}]

(* Every row and every worker's state has its type. *)
TypeOK ==
  /\ job \in [Jobs -> JobType]
  /\ pc \in [Workers -> {"claim", "work", "count", "returned", "failed"}]
  /\ held \in [Workers -> Jobs \cup {NoJob}]
  /\ processed \in [Workers -> SUBSET Jobs]
  /\ faults \in 0..MaxFaults

(***************************************************************************)
(* No job is done twice, whatever workers overlap, fail or lose the answer *)
(* to a COMMIT: completeJob counts a job once, exactly when it is done,    *)
(* and only the worker named in worker_id reports it as processed.         *)
(***************************************************************************)
ProcessedOnce ==
  \A j \in Jobs :
    /\ job[j].count = IF job[j].status = "done" THEN 1 ELSE 0
    /\ \A w \in Workers :
         j \in processed[w] => job[j].status = "done" /\ job[j].worker = w

(***************************************************************************)
(* "Empty SKIP LOCKED result means busy now, not queue empty": when        *)
(* runWorker returns, none of its ids is pending any more, even the ones   *)
(* another worker had locked and gave back by failing.                     *)
(***************************************************************************)
DrainedOnReturn ==
  \A w \in Workers :
    pc[w] = "returned" => \A j \in JobIds[w] : job[j].status = "done"

(***************************************************************************)
(* Every worker returns or throws, and a job is in the end done unless all *)
(* the workers that were given it threw.                                   *)
(***************************************************************************)
JobsEnd ==
  /\ \A w \in Workers : <>(pc[w] \in {"returned", "failed"})
  /\ \A j \in Jobs :
       <>[](\/ job[j].status = "done"
            \/ \A w \in Workers : j \in JobIds[w] => pc[w] = "failed")
=============================================================================
