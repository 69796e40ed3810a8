----------------------------- MODULE ApiGuards -----------------------------
(***************************************************************************)
(* What a request passes before and in its handler on the queue Redis:     *)
(* SessionMiddleware (a session header renews the session), RateLimitGuard *)
(* (a sliding window kept by one Lua script), SessionGuard, and the three  *)
(* handlers of SessionsController.  Several API processes with clocks of   *)
(* their own share one Redis, whose keys expire by Redis's clock.  Every   *)
(* Redis command is a step; between two of them anything may happen.       *)
(***************************************************************************)
EXTENDS Integers, Sequences, FiniteSetsExt

CONSTANTS
  Requests,   \* HTTP requests; one that opens a session names that session
  Plans,      \* request -> what it may be: [kind, session, user, pod]; the
              \* user is the x-user-id header
  Owner,      \* request -> user_id of the session it opens
  Skew,       \* how far each process's clock is ahead of Redis's
  Limit,      \* @RateLimit: limit of each limited handler
  WindowMs,   \* @RateLimit: window, in clock ticks
  Second,     \* clock ticks in a second of Retry-After
  TtlSeconds, \* session TTL, in clock ticks
  MaxDelay,   \* longest time from Date.now() to the end of the script
  None, MaxTime, MaxFaults

Kinds == {"create", "me", "end", "browse"}
Limited == DOMAIN Limit
NeedsSession == {"me", "end"}
Pods == DOMAIN Skew

ASSUME GuardAssumptions ==
  /\ Limited \subseteq Kinds \ NeedsSession
  /\ \A k \in Limited : Limit[k] \in Nat \ {0}
  /\ \A p \in Pods : Skew[p] \in Nat
  /\ {WindowMs, Second, TtlSeconds} \subseteq Nat \ {0}
  /\ {MaxDelay, MaxFaults} \subseteq Nat /\ MaxTime \in Nat \ {0}
  /\ None \notin Requests
  /\ \A r \in Requests : Plans[r] \subseteq
       [kind : Kinds, session : Requests \cup {None}, user : STRING \cup {None},
        pod : Pods]

VARIABLES
  clock,    \* Redis's clock
  sessions, \* session -> when its key expires; 0 when there is no key
  buckets,  \* bucket -> [entries, expires]: the sorted set and its PEXPIRE
  req,      \* where each request is and what it has learnt, see NoRequest
  log,      \* the runs of the script, in order: [bucket, by, ok, ...]
  deleted,  \* sessions whose key was deleted
  used,     \* when a session was last opened or renewed
  faults

vars == <<clock, sessions, buckets, req, log, deleted, used, faults>>

NoRequest == [at |-> "idle", kind |-> None, session |-> None, user |-> None,
              pod |-> None, active |-> FALSE, now |-> 0, code |-> 0,
              late |-> FALSE, idle |-> 0]

Clients == {None} \cup {Owner[r] : r \in Requests}
             \cup {p.user : p \in UNION {Plans[r] : r \in Requests}}

(* One bucket per handler and client; None stands for one ip address. *)
Buckets == Limited \X Clients

NoBucket == [entries |-> {}, expires |-> 0]

Init ==
  /\ clock = 1
  /\ sessions = [s \in Requests |-> 0]
  /\ buckets = [b \in Buckets |-> NoBucket]
  /\ req = [r \in Requests |-> NoRequest]
  /\ log = <<>>
  /\ deleted = {}
  /\ used = [s \in Requests |-> 0]
  /\ faults = 0

-----------------------------------------------------------------------------
Alive(s) == sessions[s] > clock

Go(r, q) == req' = [req EXCEPT ![r] = q]

(* What the request held on the way is dropped with its answer. *)
Answered(q, code) == [q EXCEPT !.at = "done", !.code = code, !.now = 0,
                               !.user = None, !.pod = None]

Answer(r, code) == Go(r, Answered(req[r], code))

Fault == faults < MaxFaults /\ faults' = faults + 1

(* What follows the middleware at once: the OpenAPI validator refuses a    *)
(* request that must name a session and does not, RateLimitGuard reads its *)
(* process's clock and sends the script, and a handler without a policy    *)
(* goes on to SessionGuard.                                                *)
Guarded(q) ==
  CASE q.kind \in NeedsSession /\ q.session = None ->
         Answered(q, 400)
    [] q.kind \in Limited ->
         [q EXCEPT !.at = "script", !.now = clock + Skew[q.pod]]
    [] q.kind \in NeedsSession /\ q.session # None /\ ~q.active ->
         Answered(q, 401)
    [] OTHER -> [q EXCEPT !.at = "handler"]

(* A request arrives, with a session that some client was given or without *)
(* one: then the middleware passes it on to the guards.                    *)
Arrive(r) ==
  /\ req[r].at = "idle"
  /\ \E p \in Plans[r] :
       LET q == [NoRequest EXCEPT !.at = "touch", !.kind = p.kind,
                   !.session = p.session, !.user = p.user, !.pod = p.pod,
                   !.late = p.session \in deleted]
       IN  /\ p.session # None => req[p.session].code = 201
           /\ Go(r, IF p.session = None THEN Guarded(q) ELSE q)
  /\ UNCHANGED <<clock, sessions, buckets, log, deleted, used, faults>>

(* mutant of Touch: SET EX of the record, found or not *)
TouchSets(r) ==
  LET s == req[r].session
  IN  /\ req[r].at = "touch"
      /\ sessions' = [sessions EXCEPT ![s] = clock + TtlSeconds]
      /\ used' = [used EXCEPT ![s] = clock]
      /\ Go(r, Guarded([req[r] EXCEPT !.active = Alive(s),
                                      !.idle = clock - used[s]]))
      /\ UNCHANGED <<clock, buckets, log, deleted, faults>>

(* mutant of Touch: GET, renewed only when less than half the TTL is left *)
TouchLazily(r) ==
  LET s == req[r].session
      low == Alive(s) /\ 2 * (sessions[s] - clock) < TtlSeconds
  IN  /\ req[r].at = "touch"
      /\ sessions' = IF low THEN [sessions EXCEPT ![s] = clock + TtlSeconds]
                     ELSE sessions
      /\ used' = IF Alive(s) THEN [used EXCEPT ![s] = clock] ELSE used
      /\ Go(r, Guarded([req[r] EXCEPT !.active = Alive(s),
                                      !.idle = clock - used[s]]))
      /\ UNCHANGED <<clock, buckets, log, deleted, faults>>

(* SessionMiddleware: GETEX reads the key and renews it in one command; a  *)
(* session that is not there is no error.                                  *)
Touch(r) ==
  LET s == req[r].session
  IN  /\ req[r].at = "touch"
      /\ sessions' = IF Alive(s) THEN [sessions EXCEPT ![s] = clock + TtlSeconds]
                     ELSE sessions
      /\ used' = IF Alive(s) THEN [used EXCEPT ![s] = clock] ELSE used
      /\ Go(r, Guarded([req[r] EXCEPT !.active = Alive(s),
                                      !.idle = clock - used[s]]))
      /\ UNCHANGED <<clock, buckets, log, deleted, faults>>

-----------------------------------------------------------------------------
(* The user the request claims, else the user of its session, else its ip. *)
(* An empty header claims nobody, and hides the session's user.            *)
clientKey(q) ==
  LET userId == IF q.user # None THEN q.user
                ELSE IF q.active THEN Owner[q.session] ELSE None
  IN  IF userId = "" THEN None ELSE userId

Bucket(q) == <<q.kind, clientKey(q)>>

(* mutant of Pruned: a fixed window *)
PrunedFixed(b, now) ==
  IF buckets[b].expires <= clock THEN {}
  ELSE {e \in buckets[b].entries : e.score \div WindowMs >= now \div WindowMs}

(* mutant of Pruned: keeps what is a whole window old *)
PrunedLate(b, now) ==
  IF buckets[b].expires <= clock THEN {}
  ELSE {e \in buckets[b].entries : e.score >= now - WindowMs}

(* ZREMRANGEBYSCORE -inf (now - windowMs), on a key that may have expired *)
Pruned(b, now) ==
  IF buckets[b].expires <= clock THEN {}
  ELSE {e \in buckets[b].entries : e.score > now - WindowMs}

(* mutant of retryAfter: rounded down *)
RetryFloor(entries, now) ==
  LET seconds == (Min({e.score : e \in entries}) + WindowMs - now) \div Second
  IN  IF seconds > 1 THEN seconds ELSE 1

retryAfter(entries, now) ==
  LET waitMs == Min({e.score : e \in entries}) + WindowMs - now
      seconds == (waitMs + Second - 1) \div Second
  IN  IF waitMs > 0 /\ seconds > 1 THEN seconds ELSE 1

(* mutant of HasRoom: off by one *)
HasRoomToo(entries, kind) == Cardinality(entries) <= Limit[kind]

HasRoom(entries, kind) == Cardinality(entries) < Limit[kind]

(* The Lua script: prune, count and add in one step of Redis *)
Script(r, ok) ==
  LET q == req[r]
      b == Bucket(q)
      entries == Pruned(b, q.now)
  IN  /\ ok = HasRoom(entries, q.kind)
      /\ buckets' = [buckets EXCEPT ![b] =
           IF ok THEN [entries |-> entries \cup {[score |-> q.now, by |-> r]},
                       expires |-> clock + WindowMs]
           ELSE [@ EXCEPT !.entries = entries]]
      /\ log' = Append(log, [bucket |-> b, by |-> r, ok |-> ok, now |-> q.now,
                             at |-> clock, retryAfter |->
                               IF ok THEN 0 ELSE retryAfter(entries, q.now)])

(* The request goes on to its handler; one that does not use this Redis is *)
(* answered there.                                                         *)
Handle(r) == IF req[r].kind = "browse" THEN Answer(r, 200)
             ELSE Go(r, [req[r] EXCEPT !.at = "handler"])

(* consume: admitted, or 429 with Retry-After *)
Consume(r) ==
  /\ req[r].at = "script"
  /\ \E ok \in BOOLEAN :
       /\ Script(r, ok)
       /\ IF ok THEN Handle(r) ELSE Answer(r, 429)
  /\ UNCHANGED <<clock, sessions, deleted, used, faults>>

(* The script ran but the connection broke: ioredis sends the command      *)
(* again, with the same member and the same now.                           *)
ConsumeResent(r) ==
  /\ req[r].at = "script"
  /\ Fault
  /\ \E ok \in BOOLEAN : Script(r, ok)
  /\ UNCHANGED <<clock, sessions, req, deleted, used>>

(* Redis does not answer: the guard lets the request through. *)
ConsumeFails(r) ==
  /\ req[r].at = "script"
  /\ Fault
  /\ Handle(r)
  /\ UNCHANGED <<clock, sessions, buckets, log, deleted, used>>

-----------------------------------------------------------------------------
(* SessionsController.create *)
CreateSession(r) ==
  /\ req[r].at = "handler" /\ req[r].kind = "create"
  /\ sessions' = [sessions EXCEPT ![r] = clock + TtlSeconds]
  /\ used' = [used EXCEPT ![r] = clock]
  /\ Answer(r, 201)
  /\ UNCHANGED <<clock, buckets, log, deleted, faults>>

(* SessionsController.me: the TTL command changes nothing. *)
Me(r) ==
  /\ req[r].at = "handler" /\ req[r].kind = "me"
  /\ Answer(r, 200)
  /\ UNCHANGED <<clock, sessions, buckets, log, deleted, used, faults>>

(* SessionsController.end *)
End(r) ==
  /\ req[r].at = "handler" /\ req[r].kind = "end"
  /\ sessions' = [sessions EXCEPT ![req[r].session] = 0]
  /\ deleted' = deleted \cup {req[r].session}
  /\ Answer(r, 204)
  /\ UNCHANGED <<clock, buckets, log, used, faults>>

(* A session command fails: 500.  Redis may have carried it out. *)
SessionFails(r) ==
  LET q == req[r]
      s == IF q.at = "handler" /\ q.kind = "create" THEN r ELSE q.session
  IN  /\ q.at \in {"touch", "handler"}
      /\ Fault
      /\ \/ UNCHANGED <<sessions, deleted, used>>
         \/ /\ \/ q.at = "touch" /\ Alive(s)
               \/ q.at = "handler" /\ q.kind = "create"
            /\ sessions' = [sessions EXCEPT ![s] = clock + TtlSeconds]
            /\ used' = [used EXCEPT ![s] = clock]
            /\ UNCHANGED deleted
         \/ /\ q.at = "handler" /\ q.kind = "end"
            /\ sessions' = [sessions EXCEPT ![s] = 0]
            /\ deleted' = deleted \cup {s}
            /\ UNCHANGED used
      /\ Answer(r, 500)
      /\ UNCHANGED <<clock, buckets, log>>

Waiting(r) == req[r].at = "script" /\ clock - (req[r].now - Skew[req[r].pod]) >= MaxDelay

Tick ==
  /\ clock < MaxTime
  /\ \A r \in Requests : ~Waiting(r)
  /\ clock' = clock + 1
  /\ UNCHANGED <<sessions, buckets, req, log, deleted, used, faults>>

Next ==
  \/ \E r \in Requests :
       \/ Arrive(r) \/ Touch(r) \/ Consume(r)
       \/ CreateSession(r) \/ Me(r) \/ End(r)
       \/ ConsumeResent(r) \/ ConsumeFails(r) \/ SessionFails(r)
  \/ Tick

Spec == Init /\ [][Next]_vars

-----------------------------------------------------------------------------
TypeOK ==
  /\ \A s \in Requests : sessions[s] \in 0..(MaxTime + TtlSeconds)
  /\ \A b \in Buckets :
       /\ Cardinality(buckets[b].entries) <= Limit[b[1]]
       /\ buckets[b].expires \in 0..(MaxTime + WindowMs)
  /\ \A r \in Requests :
       /\ req[r].at \in {"idle", "touch", "script", "handler", "done"}
       /\ req[r].code \in {0, 200, 201, 204, 400, 401, 429, 500}
       /\ req[r].code # 0 <=> req[r].at = "done"

Admitted(b, I) == {log[k].by : k \in {n \in I : log[n].ok /\ log[n].bucket = b}}

(* More than limit requests of a bucket are admitted only over at least a  *)
(* window, whichever processes they reach: less what two processes' clocks *)
(* differ by and what a command spends between Date.now() and the script,  *)
(* and with commands resent after a lost connection.  A request the guard  *)
(* lets through because Redis does not answer is in no bucket and does not *)
(* count.                                                                  *)
AtMostLimitPerWindow ==
  \A i, j \in DOMAIN log :
    /\ i < j /\ log[i].bucket = log[j].bucket
    /\ Cardinality(Admitted(log[i].bucket, i..j)) > Limit[log[i].bucket[1]]
    => \E p, q \in Pods :
         log[j].at - log[i].at >= WindowMs - MaxDelay - (Skew[p] - Skew[q])

(* The script refuses nobody too early: behind a refusal are limit         *)
(* requests of the same bucket, each less than a window before it by the   *)
(* clocks that were read.  One of them is the refused request itself if    *)
(* its script ran before and was resent: the code may refuse a request for *)
(* the place that it took itself.                                          *)
RefusesOnlyOverLimit ==
  \A i \in DOMAIN log :
    ~log[i].ok =>
      Cardinality(Admitted(log[i].bucket,
        {k \in 1..(i - 1) : log[k].now > log[i].now - WindowMs}))
      >= Limit[log[i].bucket[1]]

(* Retry-After is long enough: a client that waits that long by its        *)
(* process's clock is refused again only if somebody of its bucket was     *)
(* admitted meanwhile.                                                     *)
RetryAfterIsEnough ==
  \A i, j \in DOMAIN log :
    /\ i < j /\ log[i].bucket = log[j].bucket /\ ~log[i].ok /\ ~log[j].ok
    /\ log[j].now >= log[i].now + log[i].retryAfter * Second
    => Admitted(log[i].bucket, i..j) # {}

(* A request that arrives after its session was deleted is not             *)
(* authenticated, and nothing brings the key back: neither a request that  *)
(* was under way nor the renewal of the TTL.                               *)
EndedStaysEnded ==
  /\ \A r \in Requests : req[r].late => ~req[r].active
  /\ \A s \in deleted : ~Alive(s)

(* An active user is never logged out mid-work: a session is answered 401  *)
(* only if it was deleted or nobody used it for a whole TTL (a request     *)
(* that names no session is answered 400).                                 *)
ActiveNeverLoggedOut ==
  \A r \in Requests :
    req[r].code = 401
      => req[r].session \in deleted \/ req[r].idle >= TtlSeconds
=============================================================================
