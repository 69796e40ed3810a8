--------------------------- MODULE ApiGuardsProofs ---------------------------
(***************************************************************************)
(* Proofs of the safety properties of ApiGuards: the sessions and the      *)
(* sliding window, for any number of requests, processes and buckets, any  *)
(* limits, windows, clock skews and any number of faults.                  *)
(***************************************************************************)
EXTENDS ApiGuards, SumTheorems

Codes == {0, 200, 201, 204, 400, 401, 429, 500}
Places == {"idle", "touch", "script", "handler", "done"}

ReqType == [at: Places, kind: Kinds \cup {None}, session: Requests \cup {None},
            user: Clients, pod: Pods \cup {None}, active: BOOLEAN, now: Nat,
            code: Codes, late: BOOLEAN, idle: Int]
EntryType == [score: Nat, by: Requests]
BucketType == [entries: SUBSET EntryType, expires: Nat]
LogType == [bucket: Buckets, by: Requests, ok: BOOLEAN, now: Nat, at: Nat,
            retryAfter: Nat]

(* The state has its type, and where a request is says what is known of it. *)
Types ==
  /\ clock \in 1..MaxTime
  /\ sessions \in [Requests -> Nat] /\ used \in [Requests -> Nat]
  /\ buckets \in [Buckets -> BucketType]
  /\ req \in [Requests -> ReqType]
  /\ log \in Seq(LogType)
  /\ deleted \subseteq Requests
  /\ faults \in Nat

Requested ==
  \A r \in Requests :
    /\ req[r].at = "idle" => req[r] = NoRequest
    /\ req[r].at # "idle" => req[r].kind \in Kinds
    /\ req[r].code # 0 <=> req[r].at = "done"
    /\ req[r].at = "touch" => req[r].session # None /\ req[r].pod \in Pods
    /\ req[r].at = "script" => req[r].kind \in Limited /\ req[r].pod \in Pods
    /\ req[r].at = "handler" /\ req[r].kind \in NeedsSession => req[r].active
    /\ req[r].active => req[r].session # None
    /\ req[r].session # None => req[req[r].session].code = 201

Bounded ==
  /\ \A s \in Requests : sessions[s] <= MaxTime + TtlSeconds
  /\ \A b \in Buckets :
       /\ IsFiniteSet(buckets[b].entries)
       /\ Cardinality(buckets[b].entries) <= Limit[b[1]]
       /\ buckets[b].expires <= MaxTime + WindowMs

TypeInv == Types /\ Requested /\ Bounded

(* A session lives for a TTL after its last use until it is deleted. *)
SessionsOK ==
  /\ \A s \in deleted : sessions[s] = 0 /\ req[s].code = 201
  /\ \A s \in Requests \ deleted :
       req[s].code = 201 => sessions[s] = used[s] + TtlSeconds
  /\ \A r \in Requests :
       req[r].late => req[r].session \in deleted /\ ~req[r].active

SessionInv == TypeInv /\ SessionsOK /\ ActiveNeverLoggedOut

(* The time a request has waited for the script by its own clock *)
Waited(r) == clock - (req[r].now - Skew[req[r].pod])

(* Every entry of a bucket is an admission in the log, and a request has   *)
(* one entry, at the time it read.                                         *)
EntriesOK ==
  /\ \A r \in Requests : req[r].at = "script" => Waited(r) \in 0..MaxDelay
  /\ \A b \in Buckets : \A e \in buckets[b].entries :
       /\ req[e.by].at \notin {"idle", "touch"}
       /\ req[e.by].at = "script" => e.score = req[e.by].now
       /\ \E k \in DOMAIN log : /\ log[k].ok /\ log[k].bucket = b
                                /\ log[k].by = e.by /\ log[k].now = e.score
       /\ \A f \in buckets[b].entries : e.by = f.by => e = f

RefuseInv == TypeInv /\ EntriesOK /\ RefusesOnlyOverLimit

(* The admission at k of the log is too young to be pruned by anybody. *)
Recent(k) ==
  \A p, q \in Pods : clock - log[k].at < WindowMs - MaxDelay - (Skew[p] - Skew[q])

(* The log is in the order of time, and recent admissions are in their     *)
(* bucket, whose key does not expire while they are recent.                *)
LogOK ==
  /\ \A k \in DOMAIN log :
       /\ log[k].at <= clock
       /\ \E p \in Pods : log[k].now >= log[k].at - MaxDelay + Skew[p]
       /\ \A m \in DOMAIN log : k <= m => log[k].at <= log[m].at
  /\ \A k \in DOMAIN log : log[k].ok /\ Recent(k) =>
       /\ [score |-> log[k].now, by |-> log[k].by]
            \in buckets[log[k].bucket].entries
       /\ buckets[log[k].bucket].expires >= log[k].at + WindowMs

WindowInv == RefuseInv /\ LogOK /\ AtMostLimitPerWindow

(* The entries of bucket b that are still in the window at time t *)
Later(b, t) == {e \in buckets[b].entries : e.score > t - WindowMs}

(* After a refusal, and while nobody is admitted, a bucket has room for    *)
(* whoever comes when Retry-After is over.                                 *)
RetryOK ==
  \A i \in DOMAIN log :
    ~log[i].ok /\ Admitted(log[i].bucket, i..Len(log)) = {} =>
      Cardinality(Later(log[i].bucket, log[i].now + log[i].retryAfter * Second))
        < Limit[log[i].bucket[1]]

RetryInv == RefuseInv /\ RetryOK /\ RetryAfterIsEnough

-----------------------------------------------------------------------------
(* What an answer leaves of a request *)
LEMMA AnsweredFields ==
  ASSUME NEW q \in ReqType, NEW code \in Codes
  PROVE  LET a == Answered(q, code)
         IN  /\ a \in ReqType /\ a.at = "done" /\ a.code = code
             /\ a.kind = q.kind /\ a.session = q.session
             /\ a.active = q.active /\ a.late = q.late /\ a.idle = q.idle
<1>1. Answered(q, code) =
        [at |-> "done", kind |-> q.kind, session |-> q.session, user |-> None,
         pod |-> None, active |-> q.active, now |-> 0, code |-> code,
         late |-> q.late, idle |-> q.idle]
  <2> DEFINE a == [q EXCEPT !.at = "done", !.code = code, !.now = 0,
                            !.user = None, !.pod = None]
  <2>1. DOMAIN q = {"at", "kind", "session", "user", "pod", "active", "now",
                    "code", "late", "idle"}
    BY DEF ReqType
  <2>2. DOMAIN a = DOMAIN q /\ a = [n \in DOMAIN a |-> a[n]]
    OBVIOUS
  <2>3. /\ a.at = "done" /\ a.code = code /\ a.now = 0 /\ a.user = None
        /\ a.pod = None /\ a.kind = q.kind /\ a.session = q.session
        /\ a.active = q.active /\ a.late = q.late /\ a.idle = q.idle
    BY <2>1
  <2> HIDE DEF a
  <2>4. a = [at |-> "done", kind |-> q.kind, session |-> q.session,
             user |-> None, pod |-> None, active |-> q.active, now |-> 0,
             code |-> code, late |-> q.late, idle |-> q.idle]
    BY <2>1, <2>2, <2>3
  <2>5. QED  BY <2>4 DEF a, Answered
<1>2. None \in Clients
  BY DEF Clients
<1>3. QED  BY <1>1, <1>2 DEF ReqType, Places

(* What the guards make of a request *)
LEMMA GuardedFields ==
  ASSUME NEW q \in ReqType, q.kind \in Kinds, q.pod \in Pods, q.code = 0,
         q.active => q.session # None, clock \in Nat
  PROVE  LET g == Guarded(q)
         IN  /\ g \in ReqType /\ g.at \in {"script", "handler", "done"}
             /\ g.kind = q.kind /\ g.session = q.session
             /\ g.active = q.active /\ g.late = q.late /\ g.idle = q.idle
             /\ g.at = "script" => /\ g.kind \in Limited /\ g.pod = q.pod
                                   /\ g.user = q.user
                                   /\ g.now = clock + Skew[q.pod]
             /\ g.at = "handler" /\ g.kind \in NeedsSession => g.active
             /\ g.at = "done" =>
                  ~g.active /\ g.code = IF g.session = None THEN 400 ELSE 401
             /\ g.at # "done" => g.code = 0
<1> USE GuardAssumptions
<1> DEFINE g == Guarded(q)
<1>1. CASE q.kind \in Limited
  <2>1. Skew[q.pod] \in Nat
    OBVIOUS
  <2>2. g = [q EXCEPT !.at = "script", !.now = clock + Skew[q.pod]]
    BY <1>1 DEF Guarded, NeedsSession
  <2> HIDE DEF g
  <2>3. g = [at |-> "script", kind |-> q.kind, session |-> q.session,
             user |-> q.user, pod |-> q.pod, active |-> q.active,
             now |-> clock + Skew[q.pod], code |-> q.code, late |-> q.late,
             idle |-> q.idle]
    BY <2>2 DEF ReqType
  <2>4. g \in ReqType
    BY <2>1, <2>3 DEF ReqType, Places
  <2>5. QED  BY <1>1, <2>3, <2>4 DEF g
<1>2. CASE q.kind \in NeedsSession /\ ~q.active
  <2> DEFINE code == IF q.session = None THEN 400 ELSE 401
  <2>0. q.kind \notin Limited
    BY <1>2
  <2>1. g = Answered(q, code)
    BY <1>2, <2>0 DEF Guarded
  <2> HIDE DEF g
  <2>2. code \in Codes
    BY DEF Codes
  <2> HIDE DEF code
  <2>3. /\ g \in ReqType /\ g.at = "done" /\ g.code = code
        /\ g.kind = q.kind /\ g.session = q.session
        /\ g.active = q.active /\ g.late = q.late /\ g.idle = q.idle
    BY <2>1, <2>2, AnsweredFields
  <2>4. QED  BY <1>2, <2>3 DEF g, code
<1>3. CASE q.kind \notin Limited /\ ~(q.kind \in NeedsSession /\ ~q.active)
  <2>1. g = [q EXCEPT !.at = "handler"]
    BY <1>3 DEF Guarded
  <2> HIDE DEF g
  <2>2. g = [at |-> "handler", kind |-> q.kind, session |-> q.session,
             user |-> q.user, pod |-> q.pod, active |-> q.active,
             now |-> q.now, code |-> q.code, late |-> q.late, idle |-> q.idle]
    BY <2>1 DEF ReqType
  <2>3. g \in ReqType
    BY <2>2 DEF ReqType, Places
  <2>4. QED  BY <1>3, <2>2, <2>3 DEF g
<1>4. QED  BY <1>1, <1>2, <1>3

-----------------------------------------------------------------------------
(* Request r moves on to x: the facts about x that every handler respects. *)
Moves(r, x) ==
  /\ req' = [req EXCEPT ![r] = x]
  /\ req[r].at # "done" /\ x.at # "idle" /\ x.kind \in Kinds
  /\ x.code # 0 <=> x.at = "done"
  /\ req[r].at # "idle" => /\ x.kind = req[r].kind
                           /\ x.session = req[r].session
                           /\ x.late = req[r].late
  /\ x.at = "touch" => /\ req[r].at = "idle" /\ x.session # None
                       /\ x.pod \in Pods
  /\ x.at = "script" => /\ req[r].at \in {"idle", "touch"}
                        /\ x.kind \in Limited /\ x.pod \in Pods
                        /\ x.now = clock + Skew[x.pod]
  /\ x.at = "handler" /\ x.kind \in NeedsSession => x.active
  /\ x.active => x.session # None
  /\ x.session # None => req[x.session].code = 201

(* Moving on keeps what is known of requests. *)
LEMMA MovesKeepRequested ==
  ASSUME Types, Requested, NEW r \in Requests, NEW x \in ReqType, Moves(r, x)
  PROVE  /\ req' \in [Requests -> ReqType] /\ Requested'
         /\ req'[r] = x /\ \A s \in Requests \ {r} : req'[s] = req[s]
         /\ req[r].code = 0
         /\ \A s \in Requests : req[s].code = 201 => req'[s] = req[s]
<1> USE GuardAssumptions
<1>1. req' = [req EXCEPT ![r] = x] /\ req \in [Requests -> ReqType]
  BY DEF Moves, Types
<1>2. req'[r] = x /\ \A s \in Requests \ {r} : req'[s] = req[s]
  BY <1>1
<1>3. req[r].code = 0
  BY DEF Moves, Requested
<1>4. \A s \in Requests : req[s].code = 201 => s # r /\ req'[s] = req[s]
  BY <1>2, <1>3
<1>5. \A s \in Requests : req[s].session \in Requests \cup {None}
                          /\ x.session \in Requests \cup {None}
  BY <1>1 DEF ReqType
<1>6. ASSUME NEW s \in Requests
      PROVE  /\ req'[s].at = "idle" => req'[s] = NoRequest
             /\ req'[s].at # "idle" => req'[s].kind \in Kinds
             /\ req'[s].code # 0 <=> req'[s].at = "done"
             /\ req'[s].at = "touch" =>
                  req'[s].session # None /\ req'[s].pod \in Pods
             /\ req'[s].at = "script" =>
                  req'[s].kind \in Limited /\ req'[s].pod \in Pods
             /\ req'[s].at = "handler" /\ req'[s].kind \in NeedsSession
                  => req'[s].active
             /\ req'[s].active => req'[s].session # None
             /\ req'[s].session # None => req'[req'[s].session].code = 201
  <2>1. CASE s = r
    BY <1>2, <1>4, <1>5, <2>1 DEF Moves
  <2>2. CASE s # r
    <3>1. req'[s] = req[s]
      BY <1>2, <2>2
    <3>2. req[s].session # None => req'[req[s].session].code = 201
      BY <1>4, <1>5 DEF Requested
    <3>3. QED  BY <3>1, <3>2 DEF Requested
  <2>3. QED  BY <2>1, <2>2
<1>7. Requested'
  BY <1>6 DEF Requested
<1>8. QED  BY <1>1, <1>2, <1>3, <1>4, <1>7

(* An answer is such a move. *)
LEMMA AnswerMoves ==
  ASSUME Types, Requested, NEW r \in Requests, NEW code \in Codes \ {0},
         req[r].at \in {"touch", "script", "handler"}, Answer(r, code)
  PROVE  /\ Moves(r, Answered(req[r], code))
         /\ Answered(req[r], code) \in ReqType
         /\ Answered(req[r], code).code = code
         /\ Answered(req[r], code).active = req[r].active
<1> DEFINE a == Answered(req[r], code)
<1>1. req[r] \in ReqType
  BY DEF Types
<1>2. /\ a \in ReqType /\ a.at = "done" /\ a.code = code
      /\ a.kind = req[r].kind /\ a.session = req[r].session
      /\ a.active = req[r].active /\ a.late = req[r].late
  BY <1>1, AnsweredFields
<1>3. req' = [req EXCEPT ![r] = a]
  BY DEF Answer, Go
<1> HIDE DEF a
<1>4. Moves(r, a)
  BY <1>2, <1>3 DEF Moves, Requested
<1>5. QED  BY <1>2, <1>4 DEF a

(* Going on to the handler is such a move. *)
LEMMA HandleMoves ==
  ASSUME Types, Requested, NEW r \in Requests, req[r].at = "script", Handle(r)
  PROVE  \E x \in ReqType : Moves(r, x) /\ x.at \in {"handler", "done"}
                            /\ x.code \in {0, 200} /\ x.active = req[r].active
<1> USE GuardAssumptions
<1>1. CASE req[r].kind = "browse"
  <2>1. Answer(r, 200) /\ 200 \in Codes \ {0}
    BY <1>1 DEF Handle, Codes
  <2>2. /\ Moves(r, Answered(req[r], 200)) /\ Answered(req[r], 200) \in ReqType
        /\ Answered(req[r], 200).code = 200
        /\ Answered(req[r], 200).active = req[r].active
    BY <2>1, AnswerMoves
  <2>3. Answered(req[r], 200).at = "done"
    BY <2>2 DEF Moves
  <2>4. QED  BY <2>2, <2>3
<1>2. CASE req[r].kind # "browse"
  <2> DEFINE q == req[r]
             x == [q EXCEPT !.at = "handler"]
  <2>1. q \in ReqType
    BY DEF Types
  <2>2. x = [at |-> "handler", kind |-> q.kind, session |-> q.session,
             user |-> q.user, pod |-> q.pod, active |-> q.active,
             now |-> q.now, code |-> q.code, late |-> q.late, idle |-> q.idle]
    BY <2>1 DEF ReqType
  <2>3. req' = [req EXCEPT ![r] = x]
    BY <1>2 DEF Handle, Go
  <2> HIDE DEF x
  <2>4. x \in ReqType
    BY <2>1, <2>2 DEF ReqType, Places
  <2>5. /\ q.kind \in Limited /\ q.code = 0 /\ q.kind \notin NeedsSession
        /\ q.kind \in Kinds
        /\ q.active => q.session # None
        /\ q.session # None => req[q.session].code = 201
    BY DEF Requested
  <2>6. Moves(r, x)
    BY <2>2, <2>3, <2>5 DEF Moves
  <2>7. QED  BY <2>2, <2>4, <2>5, <2>6
<1>3. QED  BY <1>1, <1>2

(* A new request has no session, or one that was opened. *)
LEMMA ArriveMoves ==
  ASSUME Types, Requested, NEW r \in Requests, Arrive(r)
  PROVE  \E x \in ReqType :
           /\ Moves(r, x) /\ ~x.active /\ x.code \in {0, 400}
           /\ x.late => x.session \in deleted
<1> USE GuardAssumptions
<1>1. PICK p \in Plans[r] :
        LET q == [NoRequest EXCEPT !.at = "touch", !.kind = p.kind,
                    !.session = p.session, !.user = p.user, !.pod = p.pod,
                    !.late = p.session \in deleted]
        IN  /\ p.session # None => req[p.session].code = 201
            /\ Go(r, IF p.session = None THEN Guarded(q) ELSE q)
  BY DEF Arrive
<1>2. /\ p.kind \in Kinds /\ p.session \in Requests \cup {None}
      /\ p.pod \in Pods
  OBVIOUS
<1>3. p.user \in Clients
  BY DEF Clients
<1> DEFINE late == p.session \in deleted
           q == [at |-> "touch", kind |-> p.kind, session |-> p.session,
                 user |-> p.user, pod |-> p.pod, active |-> FALSE, now |-> 0,
                 code |-> 0, late |-> late, idle |-> 0]
<1>4. late \in BOOLEAN
  OBVIOUS
<1>5. [NoRequest EXCEPT !.at = "touch", !.kind = p.kind,
         !.session = p.session, !.user = p.user, !.pod = p.pod,
         !.late = p.session \in deleted] = q
  <2> DEFINE a == [NoRequest EXCEPT !.at = "touch", !.kind = p.kind,
                     !.session = p.session, !.user = p.user, !.pod = p.pod,
                     !.late = late]
  <2> HIDE DEF late
  <2>1. DOMAIN NoRequest = {"at", "kind", "session", "user", "pod", "active",
                            "now", "code", "late", "idle"}
    BY DEF NoRequest
  <2>2. DOMAIN a = DOMAIN NoRequest /\ a = [n \in DOMAIN a |-> a[n]]
    OBVIOUS
  <2>3. /\ a.at = "touch" /\ a.kind = p.kind /\ a.session = p.session
        /\ a.user = p.user /\ a.pod = p.pod /\ a.late = late
        /\ a.active = NoRequest.active /\ a.now = NoRequest.now
        /\ a.code = NoRequest.code /\ a.idle = NoRequest.idle
    BY <2>1
  <2>4. /\ NoRequest.active = FALSE /\ NoRequest.now = 0
        /\ NoRequest.code = 0 /\ NoRequest.idle = 0
    BY DEF NoRequest
  <2> HIDE DEF a
  <2>5. a = q
    BY <2>1, <2>2, <2>3, <2>4
  <2>6. QED  BY <2>5 DEF a, late
<1> HIDE DEF late
<1>6. q \in ReqType
  BY <1>2, <1>3, <1>4 DEF ReqType, Places, Codes
<1>7. /\ p.session # None => req[p.session].code = 201
      /\ req' = [req EXCEPT ![r] = IF p.session = None THEN Guarded(q) ELSE q]
  BY <1>1, <1>5 DEF Go
<1>8. /\ req[r].at = "idle" /\ q.at = "touch" /\ q.kind = p.kind
      /\ q.session = p.session /\ q.pod = p.pod /\ q.active = FALSE
      /\ q.code = 0 /\ q.late = late
  BY DEF Arrive
<1> HIDE DEF q
<1>9. CASE p.session = None
  <2> DEFINE g == Guarded(q)
  <2>1. /\ g \in ReqType /\ g.at \in {"script", "handler", "done"}
        /\ g.kind = p.kind /\ g.session = None
        /\ g.active = FALSE /\ g.late = late
        /\ g.at = "script" => /\ g.kind \in Limited /\ g.pod = p.pod
                              /\ g.now = clock + Skew[p.pod]
        /\ g.at = "handler" /\ g.kind \in NeedsSession => g.active
        /\ g.at = "done" => g.code = 400
        /\ g.at # "done" => g.code = 0
    BY <1>2, <1>6, <1>8, <1>9, GuardedFields DEF Types
  <2>2. ~late
    BY <1>9 DEF late, Types
  <2>3. req' = [req EXCEPT ![r] = g]
    BY <1>7, <1>9
  <2> HIDE DEF g
  <2>4. Moves(r, g)
    BY <1>2, <1>8, <2>1, <2>3 DEF Moves
  <2>5. QED  BY <2>1, <2>2, <2>4
<1>10. CASE p.session # None
  <2>1. req' = [req EXCEPT ![r] = q]
    BY <1>7, <1>10
  <2>2. Moves(r, q)
    BY <1>2, <1>7, <1>8, <1>10, <2>1 DEF Moves
  <2>3. late => p.session \in deleted
    BY DEF late
  <2>4. QED  BY <1>6, <1>8, <1>10, <2>2, <2>3
<1>11. QED  BY <1>9, <1>10

(* The middleware: what GETEX returned decides whether the request is      *)
(* authenticated.                                                          *)
LEMMA TouchMoves ==
  ASSUME Types, Requested, NEW r \in Requests, Touch(r)
  PROVE  /\ req[r].session \in Requests
         /\ \E x \in ReqType :
              /\ Moves(r, x) /\ x.active = Alive(req[r].session)
              /\ x.idle = clock - used[req[r].session]
              /\ x.code \in {0, 401} /\ (x.code = 401 => ~x.active)
<1> USE GuardAssumptions
<1> DEFINE q == req[r]
           s == q.session
           al == Alive(s)
           t == [at |-> q.at, kind |-> q.kind, session |-> s, user |-> q.user,
                 pod |-> q.pod, active |-> al, now |-> q.now,
                 code |-> q.code, late |-> q.late, idle |-> clock - used[s]]
           g == Guarded(t)
<1>1. q \in ReqType /\ q.at = "touch"
  BY DEF Types, Touch
<1>2. /\ s \in Requests /\ q.pod \in Pods /\ q.kind \in Kinds /\ q.code = 0
      /\ req[s].code = 201
  BY <1>1 DEF Requested, ReqType
<1>3. al \in BOOLEAN /\ clock - used[s] \in Int
  BY <1>2 DEF Types, Alive
<1>4. [q EXCEPT !.active = al, !.idle = clock - used[s]] = t
  <2> DEFINE a == [q EXCEPT !.active = al, !.idle = clock - used[s]]
  <2> HIDE DEF al
  <2>1. DOMAIN q = {"at", "kind", "session", "user", "pod", "active", "now",
                    "code", "late", "idle"}
    BY <1>1 DEF ReqType
  <2>2. DOMAIN a = DOMAIN q /\ a = [n \in DOMAIN a |-> a[n]]
    OBVIOUS
  <2>3. /\ a.active = al /\ a.idle = clock - used[s] /\ a.at = q.at
        /\ a.kind = q.kind /\ a.session = s /\ a.user = q.user
        /\ a.pod = q.pod /\ a.now = q.now /\ a.code = q.code
        /\ a.late = q.late
    BY <2>1
  <2> HIDE DEF a
  <2>4. a = t
    BY <2>1, <2>2, <2>3
  <2>5. QED  BY <2>4 DEF a
<1>5. req' = [req EXCEPT ![r] = g]
  BY <1>4 DEF Touch, Go
<1> HIDE DEF al
<1>6. t \in ReqType
  BY <1>1, <1>2, <1>3 DEF ReqType
<1>a. /\ t.kind = q.kind /\ t.session = s /\ t.pod = q.pod /\ t.active = al
      /\ t.code = q.code /\ t.late = q.late /\ t.idle = clock - used[s]
  OBVIOUS
<1> HIDE DEF t
<1>7. /\ g \in ReqType /\ g.at \in {"script", "handler", "done"}
      /\ g.kind = q.kind /\ g.session = s
      /\ g.active = al /\ g.late = q.late /\ g.idle = clock - used[s]
      /\ g.at = "script" => /\ g.kind \in Limited /\ g.pod = q.pod
                            /\ g.now = clock + Skew[q.pod]
      /\ g.at = "handler" /\ g.kind \in NeedsSession => g.active
      /\ g.at = "done" => g.code = 401 /\ ~g.active
      /\ g.at # "done" => g.code = 0
  BY SMTT(30), <1>2, <1>6, <1>a, GuardedFields DEF Types
<1> HIDE DEF g
<1>8. Moves(r, g)
  BY <1>1, <1>2, <1>5, <1>7 DEF Moves
<1>9. QED  BY <1>2, <1>7, <1>8 DEF al


-----------------------------------------------------------------------------
(* Division that rounds down leaves less than a divisor. *)
LEMMA Rounding ==
  ASSUME NEW n \in Int, NEW d \in Nat \ {0}
  PROVE  n \div d \in Int /\ n < (n \div d) * d + d
<1>1. n \div d \in Int /\ n % d \in 0..(d - 1)
  OBVIOUS
<1>2. n = d * (n \div d) + (n % d)
  OBVIOUS
<1>3. QED  BY <1>1, <1>2

(* Retry-After covers the time until the oldest entry leaves the window. *)
LEMMA RetryFacts ==
  ASSUME NEW E \in SUBSET EntryType, E # {}, NEW now \in Nat
  PROVE  /\ retryAfter(E, now) \in Nat
         /\ \E e \in E :
              /\ \A f \in E : e.score <= f.score
              /\ now + retryAfter(E, now) * Second >= e.score + WindowMs
<1> USE GuardAssumptions
<1> DEFINE T == {e.score : e \in E}
           m == Min(T)
           w == m + WindowMs - now
           secs == (w + Second - 1) \div Second
<1>1. T \subseteq Nat /\ T # {}
  BY DEF EntryType
<1>2. PICK x \in T : \A y \in T : x <= y
  BY <1>1, LeastNatural
<1>3. m \in T /\ \A y \in T : m <= y
  <2>1. m = CHOOSE y \in T : \A z \in T : y <= z
    BY DEF Min
  <2> HIDE DEF T, m
  <2>2. QED  BY <1>2, <2>1
<1>4. PICK e \in E : m = e.score
  BY <1>3
<1>5. \A f \in E : e.score <= f.score
  BY <1>3, <1>4
<1>6. m \in Nat /\ WindowMs \in Nat /\ Second \in Nat \ {0}
  BY <1>1, <1>3
<1> HIDE DEF m
<1>7. w \in Int /\ w + Second - 1 \in Int
  BY <1>6
<1>8. secs \in Int /\ w + Second - 1 < secs * Second + Second
  BY <1>6, <1>7, Rounding
<1>9. retryAfter(E, now) = IF w > 0 /\ secs > 1 THEN secs ELSE 1
  BY DEF retryAfter, m
<1> DEFINE ra == retryAfter(E, now)
<1> HIDE DEF secs, w
<1>10. secs * Second \in Int
  BY <1>6, <1>8
<1>11. w <= secs * Second
  BY <1>6, <1>7, <1>8, <1>10
<1>12. ra \in Nat /\ w <= ra * Second
  <2>1. CASE w > 0 /\ secs > 1
    BY <1>8, <1>9, <1>11, <2>1
  <2>2. CASE ~(w > 0)
    <3>1. ra = 1
      BY <1>9, <2>2
    <3> HIDE DEF ra
    <3>2. QED  BY <1>6, <1>7, <2>2, <3>1
  <2>3. CASE w > 0 /\ ~(secs > 1)
    <3>1. ra = 1
      BY <1>9, <2>3
    <3>2. secs * Second <= Second
      <4>1. secs <= 1 /\ secs \in Int
        BY <1>8, <2>3
      <4>2. CASE secs = 1
        BY <1>6, <4>2
      <4>3. CASE secs <= 0
        BY <1>6, <4>1, <4>3
      <4>4. QED  BY <4>1, <4>2, <4>3
    <3> HIDE DEF ra
    <3>3. ra * Second = Second
      BY <1>6, <3>1
    <3>4. QED  BY <1>6, <1>7, <1>10, <1>11, <3>1, <3>2, <3>3
  <2>4. QED  BY <2>1, <2>2, <2>3
<1> HIDE DEF ra
<1>13. now + ra * Second >= e.score + WindowMs
  <2>1. ra * Second \in Int
    BY <1>6, <1>12
  <2>2. w = e.score + WindowMs - now /\ e.score \in Nat
    BY <1>4, <1>6 DEF w
  <2>3. QED  BY <1>6, <1>12, <2>1, <2>2
<1>14. QED  BY <1>5, <1>12, <1>13 DEF ra


(* What the script leaves in its bucket and writes in the log *)
LEMMA ScriptFacts ==
  ASSUME TypeInv, NEW r \in Requests, NEW ok \in BOOLEAN,
         req[r].at = "script", Script(r, ok)
  PROVE  LET q == req[r]
             b == Bucket(q)
             E == Pruned(b, q.now)
         IN  /\ b \in Buckets /\ E \subseteq buckets[b].entries
             /\ E \subseteq EntryType /\ IsFiniteSet(E)
             /\ ok <=> Cardinality(E) < Limit[b[1]]
             /\ Limit[b[1]] \in Nat \ {0} /\ Cardinality(E) \in Nat
             /\ buckets' \in [Buckets -> BucketType]
             /\ \A c \in Buckets \ {b} : buckets'[c] = buckets[c]
             /\ buckets'[b].entries =
                  IF ok THEN E \cup {[score |-> q.now, by |-> r]} ELSE E
             /\ buckets'[b].expires =
                  IF ok THEN clock + WindowMs ELSE buckets[b].expires
             /\ log' = Append(log, [bucket |-> b, by |-> r, ok |-> ok,
                                    now |-> q.now, at |-> clock, retryAfter |->
                                      IF ok THEN 0 ELSE retryAfter(E, q.now)])
             /\ log' \in Seq(LogType)
<1> USE GuardAssumptions
<1> DEFINE q == req[r]
           b == Bucket(q)
           E == Pruned(b, q.now)
           e == [score |-> q.now, by |-> r]
           n == IF ok THEN [entries |-> E \cup {e}, expires |-> clock + WindowMs]
                ELSE [buckets[b] EXCEPT !.entries = E]
           x == [bucket |-> b, by |-> r, ok |-> ok, now |-> q.now,
                 at |-> clock, retryAfter |->
                   IF ok THEN 0 ELSE retryAfter(E, q.now)]
<1>1. q \in ReqType /\ q.kind \in Limited
  BY DEF TypeInv, Types, Requested
<1>2. clientKey(q) \in Clients
  <2> DEFINE userId == IF q.user # None THEN q.user
                       ELSE IF q.active THEN Owner[q.session] ELSE None
  <2>1. q.user \in Clients /\ None \in Clients
    BY <1>1 DEF ReqType, Clients
  <2>2. q.active => Owner[q.session] \in Clients
    BY <1>1 DEF TypeInv, Requested, ReqType, Clients
  <2>3. userId \in Clients
    BY <2>1, <2>2
  <2>4. clientKey(q) = IF userId = "" THEN None ELSE userId
    BY DEF clientKey
  <2>5. QED  BY <2>1, <2>3, <2>4
<1>3. b \in Buckets /\ b[1] = q.kind
  BY <1>1, <1>2 DEF Bucket, Buckets
<1>4. buckets \in [Buckets -> BucketType] /\ clock \in Nat /\ clock <= MaxTime
  BY DEF TypeInv, Types
<1>5. /\ buckets[b] \in BucketType /\ IsFiniteSet(buckets[b].entries)
      /\ Limit[b[1]] \in Nat \ {0} /\ q.now \in Nat
  BY <1>1, <1>3, <1>4 DEF TypeInv, Bounded, ReqType
<1>6. E \subseteq buckets[b].entries
  BY DEF Pruned
<1>7. ok <=> Cardinality(E) < Limit[b[1]]
  BY <1>3 DEF Script, HasRoom
<1>8. buckets' = [buckets EXCEPT ![b] = n]
  BY DEF Script
<1>9. log' = Append(log, x)
  BY DEF Script
<1> HIDE DEF b, E, q
<1>10. E \subseteq EntryType /\ IsFiniteSet(E) /\ Cardinality(E) \in Nat
  BY <1>5, <1>6, FS_Subset, FS_CardinalityType DEF BucketType
<1>11. e \in EntryType
  BY <1>5 DEF EntryType
<1>12. /\ n \in BucketType
       /\ n.entries = IF ok THEN E \cup {e} ELSE E
       /\ n.expires = IF ok THEN clock + WindowMs ELSE buckets[b].expires
  <2>1. CASE ok
    <3>1. n = [entries |-> E \cup {e}, expires |-> clock + WindowMs]
      BY <2>1
    <3>2. E \cup {e} \subseteq EntryType /\ clock + WindowMs \in Nat
      BY <1>4, <1>10, <1>11
    <3> HIDE DEF e, n
    <3>3. QED  BY <2>1, <3>1, <3>2 DEF BucketType
  <2>2. CASE ~ok
    <3>1. n = [buckets[b] EXCEPT !.entries = E]
      BY <2>2
    <3> HIDE DEF n
    <3>2. QED  BY <1>5, <1>10, <2>2, <3>1 DEF BucketType
  <2>3. QED  BY <2>1, <2>2
<1> HIDE DEF n, e
<1>13. /\ buckets' \in [Buckets -> BucketType] /\ buckets'[b] = n
       /\ \A c \in Buckets \ {b} : buckets'[c] = buckets[c]
  BY <1>3, <1>4, <1>8, <1>12
<1>14. x \in LogType
  <2>1. (IF ok THEN 0 ELSE retryAfter(E, q.now)) \in Nat
    <3>1. CASE ok
      BY <3>1
    <3>2. CASE ~ok
      <4>1. E # {}
        <5>1. Cardinality({}) = 0
          BY FS_EmptySet
        <5>2. ~(Cardinality(E) < Limit[b[1]]) /\ 0 < Limit[b[1]]
          BY <1>5, <1>7, <3>2
        <5>3. QED  BY <5>1, <5>2
      <4>2. QED  BY <1>5, <1>10, <3>2, <4>1, RetryFacts
    <3>3. QED  BY <3>1, <3>2
  <2>2. QED  BY <1>3, <1>4, <1>5, <2>1 DEF LogType
<1>15. log' \in Seq(LogType)
  <2>1. log \in Seq(LogType)
    BY DEF TypeInv, Types
  <2> HIDE DEF x
  <2>2. QED  BY <1>9, <1>14, <2>1
<1>16. QED
  BY <1>3, <1>5, <1>6, <1>7, <1>9, <1>10, <1>12, <1>13, <1>15 DEF b, E, q, e


-----------------------------------------------------------------------------
(* What a step does to the sessions *)
Keeps == UNCHANGED <<sessions, used, deleted>>
Renews(s) == /\ sessions' = [sessions EXCEPT ![s] = clock + TtlSeconds]
             /\ used' = [used EXCEPT ![s] = clock]
             /\ deleted' = deleted
Deletes(s) == /\ sessions' = [sessions EXCEPT ![s] = 0]
              /\ deleted' = deleted \cup {s}
              /\ used' = used

(* A session is renewed while it lives, opened by the request that names   *)
(* it, or deleted; only the request that opens one is answered 201.        *)
SessionEffect(r, x) ==
  \/ Keeps /\ x.code # 201
  \/ \E s \in Requests : Renews(s) /\ Alive(s) /\ req[s].code = 201 /\ x.code # 201
  \/ Renews(r)
  \/ \E s \in Requests : Deletes(s) /\ req[s].code = 201 /\ x.code # 201

(* What request r knows of its session after a step *)
Learns(r, x) ==
  /\ x.late => req[r].late \/ x.session \in deleted
  /\ x.active => req[r].active \/ (req[r].at = "touch" /\ Alive(x.session))
  /\ x.code = 401 => /\ x.session # None /\ ~Alive(x.session)
                     /\ x.idle = clock - used[x.session]

(* The script ran for r, or Redis's buckets are as they were. *)
ScriptEffect(r) ==
  \/ UNCHANGED <<buckets, log>>
  \/ /\ req[r].at = "script" /\ Keeps
     /\ \E ok \in BOOLEAN : Script(r, ok)

(* One request's step *)
Step(r) ==
  \/ Arrive(r) \/ Touch(r) \/ Consume(r)
  \/ CreateSession(r) \/ Me(r) \/ End(r)
  \/ ConsumeResent(r) \/ ConsumeFails(r) \/ SessionFails(r)

(* A request's step moves it on, or is a command sent again. *)
LEMMA StepEffects ==
  ASSUME Types, Requested, NEW r \in Requests, Step(r)
  PROVE  /\ clock' = clock /\ faults' \in Nat /\ ScriptEffect(r)
         /\ \/ req' = req /\ Keeps
            \/ \E x \in ReqType :
                 Moves(r, x) /\ Learns(r, x) /\ SessionEffect(r, x)
<1> USE GuardAssumptions
<1>0. faults \in Nat /\ {200, 201, 204, 429, 500} \subseteq Codes \ {0}
  BY DEF Types, Codes
<1>q. req[r] \in ReqType
  BY DEF Types
<1>a. ASSUME NEW code \in {200, 201, 204, 429, 500}, Answer(r, code),
             req[r].at \in {"touch", "script", "handler"},
             SessionEffect(r, [code |-> code])
      PROVE  \E x \in ReqType :
               Moves(r, x) /\ Learns(r, x) /\ SessionEffect(r, x)
  <2> DEFINE x == Answered(req[r], code)
  <2>0. code \in Codes \ {0}
    BY <1>0, <1>a
  <2>1. Moves(r, x) /\ x \in ReqType /\ x.code = code
        /\ x.active = req[r].active
    BY <1>a, <2>0, AnswerMoves
  <2>2. x.late = req[r].late
    BY <1>q, <2>0, AnsweredFields
  <2> HIDE DEF x
  <2>3. Learns(r, x)
    BY <1>a, <2>1, <2>2 DEF Learns
  <2>4. SessionEffect(r, x)
    BY <1>a, <2>1 DEF SessionEffect
  <2>5. QED  BY <2>1, <2>3, <2>4
<1>b. ASSUME Handle(r), req[r].at = "script", Keeps
      PROVE  \E x \in ReqType :
               Moves(r, x) /\ Learns(r, x) /\ SessionEffect(r, x)
  <2>1. PICK x \in ReqType : Moves(r, x) /\ x.at \in {"handler", "done"}
                          /\ x.code \in {0, 200} /\ x.active = req[r].active
    BY <1>b, HandleMoves
  <2>2. x.late = req[r].late
    BY <1>b, <2>1 DEF Moves
  <2>3. Learns(r, x) /\ SessionEffect(r, x)
    BY <1>b, <2>1, <2>2 DEF Learns, SessionEffect
  <2>4. QED  BY <2>1, <2>3
<1>1. CASE Arrive(r)
  <2>1. PICK x \in ReqType :
           /\ Moves(r, x) /\ ~x.active /\ x.code \in {0, 400}
           /\ x.late => x.session \in deleted
    BY <1>1, ArriveMoves
  <2>2. Learns(r, x)
    BY <2>1 DEF Learns
  <2>3. Keeps /\ SessionEffect(r, x)
    BY <1>1, <2>1 DEF Arrive, Keeps, SessionEffect
  <2>4. QED  BY <1>0, <1>1, <2>1, <2>2, <2>3 DEF Arrive, ScriptEffect
<1>2. CASE Touch(r)
  <2> DEFINE s == req[r].session
  <2>1. s \in Requests
    BY <1>2, TouchMoves
  <2>2. PICK x \in ReqType :
              /\ Moves(r, x) /\ x.active = Alive(s)
              /\ x.idle = clock - used[s]
              /\ x.code \in {0, 401} /\ (x.code = 401 => ~x.active)
    BY <1>2, TouchMoves
  <2>3. req[r].at = "touch" /\ req[s].code = 201
    BY <1>2, <2>1 DEF Touch, Requested
  <2>4. x.session = s /\ x.late = req[r].late
    BY <2>2, <2>3 DEF Moves
  <2>5. x.code = 401 => ~Alive(s)
    BY <2>2
  <2>6. Learns(r, x)
    BY <2>1, <2>2, <2>3, <2>4, <2>5, GuardAssumptions DEF Learns
  <2>7. SessionEffect(r, x)
    <3>1. CASE Alive(s)
      <4>1. Renews(s)
        BY <1>2, <3>1 DEF Touch, Renews
      <4>2. QED  BY <2>1, <2>2, <2>3, <3>1, <4>1 DEF SessionEffect
    <3>2. CASE ~Alive(s)
      <4>1. Keeps
        BY <1>2, <3>2 DEF Touch, Keeps
      <4>2. QED  BY <2>2, <4>1 DEF SessionEffect
    <3>3. QED  BY <3>1, <3>2
  <2>8. QED  BY <1>0, <1>2, <2>2, <2>6, <2>7 DEF Touch, ScriptEffect
<1>3. CASE Consume(r)
  <2>1. req[r].at = "script" /\ Keeps /\ clock' = clock /\ faults' = faults
    BY <1>3 DEF Consume, Keeps
  <2>2. PICK ok \in BOOLEAN : Script(r, ok) /\ IF ok THEN Handle(r) ELSE Answer(r, 429)
    BY <1>3 DEF Consume
  <2>3. SessionEffect(r, [code |-> 429])
    BY <2>1 DEF SessionEffect
  <2>4. \E x \in ReqType : Moves(r, x) /\ Learns(r, x) /\ SessionEffect(r, x)
    <3>1. CASE ok
      BY <1>b, <2>1, <2>2, <3>1
    <3>2. CASE ~ok
      BY <1>a, <2>1, <2>2, <2>3, <3>2
    <3>3. QED  BY <3>1, <3>2
  <2>5. ScriptEffect(r)
    BY <2>1, <2>2 DEF ScriptEffect
  <2>6. QED  BY <1>0, <2>1, <2>4, <2>5
<1>4. CASE CreateSession(r)
  <2>1. SessionEffect(r, [code |-> 201])
    BY <1>4 DEF CreateSession, SessionEffect, Renews
  <2>2. QED  BY <1>0, <1>4, <1>a, <2>1 DEF CreateSession, ScriptEffect
<1>5. CASE Me(r)
  <2>1. SessionEffect(r, [code |-> 200])
    BY <1>5 DEF Me, SessionEffect, Keeps
  <2>2. QED  BY <1>0, <1>5, <1>a, <2>1 DEF Me, ScriptEffect
<1>s. ASSUME \/ req[r].at = "touch"
             \/ req[r].at = "handler" /\ req[r].kind = "end"
      PROVE  req[r].session \in Requests /\ req[req[r].session].code = 201
  <2>1. req[r].session # None
    BY <1>s DEF Requested, NeedsSession
  <2>2. QED  BY <1>q, <2>1 DEF Requested, ReqType
<1>6. CASE End(r)
  <2>1. req[r].session \in Requests /\ req[req[r].session].code = 201
    BY <1>6, <1>s DEF End
  <2>2. Deletes(req[r].session)
    BY <1>6 DEF End, Deletes
  <2>3. SessionEffect(r, [code |-> 204])
    BY <2>1, <2>2 DEF SessionEffect
  <2>4. QED  BY <1>0, <1>6, <1>a, <2>3 DEF End, ScriptEffect
<1>7. CASE ConsumeResent(r)
  <2>1. faults' \in Nat
    BY <1>0, <1>7 DEF ConsumeResent, Fault
  <2>2. QED  BY <1>7, <2>1 DEF ConsumeResent, ScriptEffect, Keeps
<1>8. CASE ConsumeFails(r)
  <2>1. faults' \in Nat /\ Keeps /\ ScriptEffect(r) /\ clock' = clock
    BY <1>0, <1>8 DEF ConsumeFails, Fault, Keeps, ScriptEffect
  <2>2. QED  BY <1>8, <1>b, <2>1 DEF ConsumeFails
<1>9. CASE SessionFails(r)
  <2>1. faults' \in Nat /\ ScriptEffect(r) /\ clock' = clock
    BY <1>0, <1>9 DEF SessionFails, Fault, ScriptEffect
  <2>2. req[r].at \in {"touch", "handler"} /\ Answer(r, 500)
    BY <1>9 DEF SessionFails
  <2>3. SessionEffect(r, [code |-> 500])
    <3>1. CASE UNCHANGED <<sessions, deleted, used>>
      BY <3>1 DEF SessionEffect, Keeps
    <3>2. CASE req[r].at = "touch" /\ Alive(req[r].session) /\ Renews(req[r].session)
      <4>1. req[r].session \in Requests /\ req[req[r].session].code = 201
        <5>1. req[r].at = "touch"
          BY <3>2
        <5>2. QED  BY <1>s, <5>1
      <4>2. QED  BY <3>2, <4>1 DEF SessionEffect
    <3>3. CASE Renews(r)
      BY <3>3 DEF SessionEffect
    <3>4. CASE /\ req[r].at = "handler" /\ req[r].kind = "end"
               /\ Deletes(req[r].session)
      <4>1. req[r].session \in Requests /\ req[req[r].session].code = 201
        BY <1>s, <3>4
      <4>2. QED  BY <3>4, <4>1 DEF SessionEffect
    <3>5. QED  BY <1>9, <3>1, <3>2, <3>3, <3>4 DEF SessionFails, Renews, Deletes
  <2>4. QED  BY <1>a, <2>1, <2>2, <2>3
<1>10. QED  BY <1>1, <1>2, <1>3, <1>4, <1>5, <1>6, <1>7, <1>8, <1>9 DEF Step


(* Time passes only while every waiting script is on time. *)
LEMMA TickFacts ==
  ASSUME Tick
  PROVE  /\ clock < MaxTime /\ clock' = clock + 1
         /\ \A r \in Requests : ~Waiting(r)
         /\ sessions' = sessions /\ buckets' = buckets /\ req' = req
         /\ log' = log /\ deleted' = deleted /\ used' = used
         /\ faults' = faults
BY DEF Tick

(* A step is a request's step, a tick, or nothing. *)
LEMMA NextCases ==
  ASSUME [Next]_vars
  PROVE  (\E r \in Requests : Step(r)) \/ Tick \/ UNCHANGED vars
BY DEF Next, Step

LEMMA TypeStep ==
  ASSUME TypeInv, [Next]_vars
  PROVE  TypeInv'
<1> USE GuardAssumptions
<1>1. ASSUME NEW r \in Requests, Step(r)
      PROVE  TypeInv'
  <2>0. Types /\ Requested /\ Bounded
    BY DEF TypeInv
  <2>1. /\ clock' = clock /\ faults' \in Nat /\ ScriptEffect(r)
        /\ \/ req' = req /\ Keeps
           \/ \E x \in ReqType :
                Moves(r, x) /\ Learns(r, x) /\ SessionEffect(r, x)
    BY <1>1, <2>0, StepEffects
  <2>2. /\ buckets' \in [Buckets -> BucketType] /\ log' \in Seq(LogType)
        /\ \A b \in Buckets :
             /\ IsFiniteSet(buckets'[b].entries)
             /\ Cardinality(buckets'[b].entries) <= Limit[b[1]]
             /\ buckets'[b].expires <= MaxTime + WindowMs
    <3>1. CASE UNCHANGED <<buckets, log>>
      BY <2>0, <3>1 DEF Types, Bounded
    <3>2. ASSUME req[r].at = "script", NEW ok \in BOOLEAN, Script(r, ok)
          PROVE  /\ buckets' \in [Buckets -> BucketType]
                 /\ log' \in Seq(LogType)
                 /\ \A b \in Buckets :
                      /\ IsFiniteSet(buckets'[b].entries)
                      /\ Cardinality(buckets'[b].entries) <= Limit[b[1]]
                      /\ buckets'[b].expires <= MaxTime + WindowMs
      <4> DEFINE b == Bucket(req[r])
                 E == Pruned(b, req[r].now)
                 e == [score |-> req[r].now, by |-> r]
      <4>1. /\ b \in Buckets /\ IsFiniteSet(E) /\ E \subseteq buckets[b].entries
            /\ ok <=> Cardinality(E) < Limit[b[1]]
            /\ Limit[b[1]] \in Nat \ {0} /\ Cardinality(E) \in Nat
            /\ buckets' \in [Buckets -> BucketType] /\ log' \in Seq(LogType)
            /\ \A c \in Buckets \ {b} : buckets'[c] = buckets[c]
            /\ buckets'[b].entries = IF ok THEN E \cup {e} ELSE E
            /\ buckets'[b].expires =
                 IF ok THEN clock + WindowMs ELSE buckets[b].expires
        BY ZenonT(60), <3>2, ScriptFacts
      <4> HIDE DEF b, E, e
      <4>2. IsFiniteSet(buckets'[b].entries)
            /\ Cardinality(buckets'[b].entries) <= Limit[b[1]]
        <5>1. CASE ok
          <6>1. IsFiniteSet(E \cup {e}) /\ Cardinality(E \cup {e}) =
                  IF e \in E THEN Cardinality(E) ELSE Cardinality(E) + 1
            BY <4>1, FS_AddElement
          <6>2. QED  BY <4>1, <5>1, <6>1
        <5>2. CASE ~ok
          <6>1. Cardinality(E) <= Cardinality(buckets[b].entries)
                /\ Cardinality(buckets[b].entries) \in Nat
            BY <2>0, <4>1, FS_Subset, FS_CardinalityType DEF Bounded
          <6>2. QED  BY <2>0, <4>1, <5>2, <6>1 DEF Bounded
        <5>3. QED  BY <5>1, <5>2
      <4>3. buckets'[b].expires <= MaxTime + WindowMs
        BY <2>0, <4>1 DEF Types, Bounded
      <4>4. QED  BY <2>0, <4>1, <4>2, <4>3 DEF Bounded
    <3>3. QED  BY <2>1, <3>1, <3>2 DEF ScriptEffect
  <2>3. /\ sessions' \in [Requests -> Nat] /\ used' \in [Requests -> Nat]
        /\ deleted' \subseteq Requests
        /\ \A s \in Requests : sessions'[s] <= MaxTime + TtlSeconds
    <3>1. CASE Keeps
      BY <2>0, <3>1 DEF Types, Bounded, Keeps
    <3>2. ASSUME NEW s \in Requests, Renews(s)
          PROVE  /\ sessions' \in [Requests -> Nat] /\ used' \in [Requests -> Nat]
                 /\ deleted' \subseteq Requests
                 /\ \A t \in Requests : sessions'[t] <= MaxTime + TtlSeconds
      <4>1. clock \in Nat /\ clock <= MaxTime /\ clock + TtlSeconds \in Nat
            /\ clock + TtlSeconds <= MaxTime + TtlSeconds
        BY <2>0 DEF Types
      <4>2. QED  BY <2>0, <3>2, <4>1 DEF Types, Bounded, Renews
    <3>3. ASSUME NEW s \in Requests, Deletes(s)
          PROVE  /\ sessions' \in [Requests -> Nat] /\ used' \in [Requests -> Nat]
                 /\ deleted' \subseteq Requests
                 /\ \A t \in Requests : sessions'[t] <= MaxTime + TtlSeconds
      BY <2>0, <3>3 DEF Types, Bounded, Deletes
    <3>4. QED  BY <2>1, <3>1, <3>2, <3>3 DEF SessionEffect
  <2>4. req' \in [Requests -> ReqType] /\ Requested'
    <3>1. CASE req' = req
      BY <2>0, <3>1 DEF Types, Requested
    <3>2. ASSUME NEW x \in ReqType, Moves(r, x)
          PROVE  req' \in [Requests -> ReqType] /\ Requested'
      BY <2>0, <3>2, MovesKeepRequested
    <3>3. QED  BY <2>1, <3>1, <3>2
  <2>5. Types'
    BY <2>0, <2>1, <2>2, <2>3, <2>4 DEF Types
  <2>6. Bounded'
    BY <2>2, <2>3 DEF Bounded
  <2>7. QED  BY <2>4, <2>5, <2>6 DEF TypeInv
<1>2. CASE Tick
  <2>1. Types'
    BY <1>2, TickFacts DEF TypeInv, Types
  <2>2. Requested'
    BY <1>2, TickFacts DEF TypeInv, Requested
  <2>3. Bounded'
    BY <1>2, TickFacts DEF TypeInv, Bounded
  <2>4. QED  BY <2>1, <2>2, <2>3 DEF TypeInv
<1>3. CASE UNCHANGED vars
  BY <1>3 DEF vars, TypeInv, Types, Requested, Bounded
<1>4. QED  BY <1>1, <1>2, <1>3, NextCases

LEMMA TypeInit ==
  ASSUME Init
  PROVE  TypeInv
<1> USE GuardAssumptions
<1>1. NoRequest \in ReqType
  BY DEF NoRequest, ReqType, Places, Codes, Clients
<1>2. NoBucket \in BucketType /\ NoBucket.entries = {} /\ NoBucket.expires = 0
  BY DEF NoBucket, BucketType
<1>3. Types
  BY <1>1, <1>2 DEF Init, Types
<1>4. /\ NoRequest.at = "idle" /\ NoRequest.code = 0 /\ ~NoRequest.active
      /\ NoRequest.session = None
  BY DEF NoRequest
<1>5. Requested
  BY <1>4 DEF Init, Requested
<1>6. Bounded
  <2>1. IsFiniteSet({}) /\ Cardinality({}) = 0
    BY FS_EmptySet
  <2>2. \A b \in Buckets : Limit[b[1]] \in Nat
    BY DEF Buckets
  <2>3. \A s \in Requests : sessions[s] <= MaxTime + TtlSeconds
    BY DEF Init
  <2>4. ASSUME NEW b \in Buckets
        PROVE  /\ IsFiniteSet(buckets[b].entries)
               /\ Cardinality(buckets[b].entries) <= Limit[b[1]]
               /\ buckets[b].expires <= MaxTime + WindowMs
    <3>1. buckets[b].entries = {} /\ buckets[b].expires = 0
      BY <1>2 DEF Init
    <3>2. QED  BY <2>1, <2>2, <3>1
  <2>5. QED  BY <2>3, <2>4 DEF Bounded
<1>7. QED  BY <1>3, <1>5, <1>6 DEF TypeInv

LEMMA TypeInvAlways == Spec => []TypeInv
BY TypeInit, TypeStep, PTL DEF Spec

(* Keys and buckets stay within their bounds (a bucket never holds more    *)
(* than its limit), and exactly the requests that are done have a status.  *)
THEOREM GuardsTypeCorrect == Spec => []TypeOK
<1>1. TypeInv => TypeOK
  <2> SUFFICES ASSUME TypeInv PROVE TypeOK
    OBVIOUS
  <2> USE GuardAssumptions
  <2>1. \A s \in Requests : sessions[s] \in 0..(MaxTime + TtlSeconds)
    BY DEF TypeInv, Types, Bounded
  <2>2. ASSUME NEW b \in Buckets
        PROVE  /\ Cardinality(buckets[b].entries) <= Limit[b[1]]
               /\ buckets[b].expires \in 0..(MaxTime + WindowMs)
    <3>1. buckets[b].expires \in Nat
      BY DEF TypeInv, Types, BucketType
    <3>2. QED  BY <3>1 DEF TypeInv, Bounded
  <2>3. ASSUME NEW r \in Requests
        PROVE  /\ req[r].at \in {"idle", "touch", "script", "handler", "done"}
               /\ req[r].code \in {0, 200, 201, 204, 400, 401, 429, 500}
               /\ req[r].code # 0 <=> req[r].at = "done"
    <3>1. req[r] \in ReqType
      BY DEF TypeInv, Types
    <3>2. QED  BY <3>1 DEF TypeInv, Requested, ReqType, Codes, Places
  <2>4. QED  BY <2>1, <2>2, <2>3 DEF TypeOK
<1>2. QED  BY <1>1, TypeInvAlways, PTL


-----------------------------------------------------------------------------
(* A deleted session stays deleted and the others live a TTL from their    *)
(* last use, whatever a request does.                                      *)
LEMMA SessionStep ==
  ASSUME SessionInv, [Next]_vars
  PROVE  SessionsOK' /\ ActiveNeverLoggedOut'
<1> USE GuardAssumptions
<1>0. TypeInv /\ Types /\ Requested /\ SessionsOK /\ ActiveNeverLoggedOut
  BY DEF SessionInv, TypeInv
<1>t. /\ sessions \in [Requests -> Nat] /\ used \in [Requests -> Nat]
      /\ clock \in Nat \ {0} /\ deleted \subseteq Requests
      /\ TtlSeconds \in Nat \ {0} /\ req \in [Requests -> ReqType]
  BY <1>0 DEF Types
<1>1. ASSUME NEW r \in Requests, NEW x \in ReqType, Moves(r, x),
             Learns(r, x), SessionEffect(r, x), clock' = clock
      PROVE  SessionsOK' /\ ActiveNeverLoggedOut'
  <2>1. /\ req'[r] = x /\ \A s \in Requests \ {r} : req'[s] = req[s]
        /\ req[r].code = 0
        /\ \A s \in Requests : req[s].code = 201 => req'[s] = req[s]
    BY <1>0, <1>1, MovesKeepRequested
  <2>2. /\ \A s \in deleted' : sessions'[s] = 0 /\ req'[s].code = 201
        /\ \A s \in Requests \ deleted' :
             req'[s].code = 201 => sessions'[s] = used'[s] + TtlSeconds
        /\ deleted \subseteq deleted'
    <3>0. \A s \in Requests : req'[s].code = 201 /\ x.code # 201 => req[s].code = 201
      BY <2>1
    <3>d. \A s \in deleted : s \in Requests /\ sessions[s] = 0 /\ req[s].code = 201
                             /\ req'[s] = req[s]
      BY <1>0, <1>t, <2>1 DEF SessionsOK
    <3>1. CASE Keeps /\ x.code # 201
      BY <1>0, <3>0, <3>1, <3>d DEF SessionsOK, Keeps
    <3>2. ASSUME NEW s \in Requests, Renews(s), Alive(s), req[s].code = 201,
                 x.code # 201
          PROVE  /\ \A t \in deleted' : sessions'[t] = 0 /\ req'[t].code = 201
                 /\ \A t \in Requests \ deleted' :
                      req'[t].code = 201 => sessions'[t] = used'[t] + TtlSeconds
                 /\ deleted \subseteq deleted'
      <4>1. s \notin deleted
        BY <1>0, <1>t, <3>2, <3>d DEF Alive
      <4>2. /\ deleted' = deleted /\ sessions'[s] = clock + TtlSeconds
            /\ used'[s] = clock
            /\ \A t \in Requests \ {s} : sessions'[t] = sessions[t]
                                         /\ used'[t] = used[t]
        BY <1>t, <3>2 DEF Renews
      <4>3. QED  BY <1>0, <3>0, <3>2, <3>d, <4>1, <4>2 DEF SessionsOK
    <3>3. CASE Renews(r)
      <4>1. r \notin deleted
        BY <2>1, <3>d
      <4>2. /\ deleted' = deleted /\ sessions'[r] = clock + TtlSeconds
            /\ used'[r] = clock
            /\ \A t \in Requests \ {r} : sessions'[t] = sessions[t]
                                         /\ used'[t] = used[t]
        BY <1>t, <3>3 DEF Renews
      <4>3. QED  BY <1>0, <2>1, <3>d, <4>1, <4>2 DEF SessionsOK
    <3>4. ASSUME NEW s \in Requests, Deletes(s), req[s].code = 201,
                 x.code # 201
          PROVE  /\ \A t \in deleted' : sessions'[t] = 0 /\ req'[t].code = 201
                 /\ \A t \in Requests \ deleted' :
                      req'[t].code = 201 => sessions'[t] = used'[t] + TtlSeconds
                 /\ deleted \subseteq deleted'
      <4>1. /\ deleted' = deleted \cup {s} /\ sessions'[s] = 0
            /\ used' = used
            /\ \A t \in Requests \ {s} : sessions'[t] = sessions[t]
        BY <1>t, <3>4 DEF Deletes
      <4>2. req'[s] = req[s]
        BY <2>1, <3>4
      <4>3. QED  BY <1>0, <3>0, <3>4, <3>d, <4>1, <4>2 DEF SessionsOK
    <3>5. QED  BY <1>1, <3>1, <3>2, <3>3, <3>4 DEF SessionEffect
  <2>3. x.late => x.session \in deleted /\ ~x.active
    <3> SUFFICES ASSUME x.late PROVE x.session \in deleted /\ ~x.active
      OBVIOUS
    <3>1. CASE req[r].late
      <4>1. req[r].session \in deleted /\ ~req[r].active
        BY <1>0, <3>1 DEF SessionsOK
      <4>2. NoRequest.late = FALSE
        BY DEF NoRequest
      <4>3. req[r].at # "idle"
        BY <1>0, <3>1, <4>2 DEF Requested
      <4>4. x.session = req[r].session
        BY <1>1, <4>3 DEF Moves
      <4>5. ~Alive(x.session)
        BY <1>0, <1>t, <4>1, <4>4 DEF SessionsOK, Alive
      <4>6. QED  BY <1>1, <4>1, <4>4, <4>5 DEF Learns
    <3>2. CASE ~req[r].late
      <4>1. req[r].at = "idle"
        BY <1>1, <3>2 DEF Moves
      <4>2. req[r] = NoRequest
        BY <1>0, <4>1 DEF Requested
      <4>3. ~req[r].active
        BY <4>2 DEF NoRequest
      <4>4. QED  BY <1>1, <3>2, <4>1, <4>3 DEF Learns
    <3>3. QED  BY <3>1, <3>2
  <2>4. \A s \in Requests : req'[s].late => req'[s].session \in deleted'
                                            /\ ~req'[s].active
    <3>1. \A s \in Requests \ {r} : req'[s].late => req'[s].session \in deleted
                                                    /\ ~req'[s].active
      BY <1>0, <2>1 DEF SessionsOK
    <3>2. QED  BY <2>1, <2>2, <2>3, <3>1
  <2>5. x.code = 401 => x.session \in deleted \/ x.idle >= TtlSeconds
    <3> SUFFICES ASSUME x.code = 401, x.session \notin deleted
                 PROVE  x.idle >= TtlSeconds
      OBVIOUS
    <3>1. x.session \in Requests /\ req[x.session].code = 201
      BY <1>1 DEF Moves, Learns, ReqType
    <3>2. sessions[x.session] = used[x.session] + TtlSeconds
      BY <1>0, <3>1 DEF SessionsOK
    <3>3. ~(sessions[x.session] > clock) /\ x.idle = clock - used[x.session]
      BY <1>1 DEF Learns, Alive
    <3>4. used[x.session] \in Nat /\ sessions[x.session] \in Nat
      BY <1>t, <3>1
    <3>5. QED  BY <1>t, <3>2, <3>3, <3>4
  <2>6. ActiveNeverLoggedOut'
    <3>1. ASSUME NEW s \in Requests, req'[s].code = 401
          PROVE  req'[s].session \in deleted' \/ req'[s].idle >= TtlSeconds
      <4>1. CASE s = r
        BY <2>1, <2>2, <2>5, <3>1, <4>1
      <4>2. CASE s # r
        BY <1>0, <2>1, <2>2, <3>1, <4>2 DEF ActiveNeverLoggedOut
      <4>3. QED  BY <4>1, <4>2
    <3>2. QED  BY <3>1 DEF ActiveNeverLoggedOut
  <2>7. SessionsOK'
    BY <2>2, <2>4 DEF SessionsOK
  <2>8. QED  BY <2>6, <2>7
<1>2. CASE UNCHANGED <<sessions, used, deleted, req>>
  BY <1>0, <1>2 DEF SessionsOK, ActiveNeverLoggedOut
<1>3. ASSUME NEW r \in Requests, Step(r)
      PROVE  SessionsOK' /\ ActiveNeverLoggedOut'
  <2>1. /\ clock' = clock
        /\ \/ req' = req /\ Keeps
           \/ \E x \in ReqType :
                Moves(r, x) /\ Learns(r, x) /\ SessionEffect(r, x)
    BY <1>0, <1>3, StepEffects
  <2>2. CASE req' = req /\ Keeps
    BY <1>2, <2>2 DEF Keeps
  <2>3. QED  BY <1>1, <2>1, <2>2
<1>4. QED  BY <1>2, <1>3, NextCases, TickFacts DEF vars

LEMMA SessionInvAlways == Spec => []SessionInv
<1>1. Init => SessionInv
  <2> SUFFICES ASSUME Init PROVE SessionInv
    OBVIOUS
  <2>1. NoRequest.code = 0 /\ NoRequest.late = FALSE
    BY DEF NoRequest
  <2>2. SessionsOK /\ ActiveNeverLoggedOut
    BY <2>1 DEF Init, SessionsOK, ActiveNeverLoggedOut
  <2>3. QED  BY <2>2, TypeInit DEF SessionInv
<1>2. SessionInv /\ [Next]_vars => SessionInv'
  BY SessionStep, TypeStep DEF SessionInv
<1>3. QED  BY <1>1, <1>2, PTL DEF Spec

(* Logging out is final: no renewal, by a request that was under way or a  *)
(* command that Redis carried out though it failed, brings a key back, and *)
(* a request that arrives later is not authenticated.                      *)
THEOREM LogoutIsFinal == Spec => []EndedStaysEnded
<1>1. SessionInv => EndedStaysEnded
  BY DEF SessionInv, SessionsOK, TypeInv, Types, EndedStaysEnded, Alive
<1>2. QED  BY <1>1, SessionInvAlways, PTL

(* SessionGuard answers 401 only to a session that was opened, and only if *)
(* it was deleted or not used for a whole TTL.                             *)
THEOREM ActiveUsersStayLoggedIn == Spec => []ActiveNeverLoggedOut
<1>1. SessionInv => ActiveNeverLoggedOut
  BY DEF SessionInv
<1>2. QED  BY <1>1, SessionInvAlways, PTL


-----------------------------------------------------------------------------
(* The requests of finitely many entries of the log are finitely many. *)
LEMMA ByFinite ==
  ASSUME log \in Seq(LogType), NEW K \in SUBSET DOMAIN log
  PROVE  IsFiniteSet({log[k].by : k \in K})
<1> DEFINE T == {log[k].by : k \in K}
           f == [k \in K |-> log[k].by]
<1>1. IsFiniteSet(1..Len(log)) /\ Len(log) \in Nat
  BY FS_Interval
<1>2. IsFiniteSet(K)
  BY <1>1, FS_Subset
<1>3. f \in Surjection(K, T)
  BY DEF Surjection
<1> HIDE DEF T, f
<1>4. IsFiniteSet(T)
  BY <1>2, <1>3, FS_Surjection
<1>5. QED  BY <1>4 DEF T

(* A bucket has as many requests as entries. *)
LEMMA ByCounts ==
  ASSUME NEW E, IsFiniteSet(E), \A e, f \in E : e.by = f.by => e = f
  PROVE  /\ IsFiniteSet({e.by : e \in E})
         /\ Cardinality({e.by : e \in E}) = Cardinality(E)
<1> DEFINE T == {e.by : e \in E}
           g == [e \in E |-> e.by]
<1>1. g \in Bijection(E, T)
  BY DEF Bijection, Injection, IsInjective, Surjection
<1> HIDE DEF g
<1>2. ExistsBijection(E, T)
  BY <1>1 DEF ExistsBijection
<1> HIDE DEF T
<1>3. IsFiniteSet(T) /\ Cardinality(T) = Cardinality(E)
  BY <1>2, FS_Bijection
<1>4. QED  BY <1>3 DEF T

(* The log only grows. *)
LEMMA LogGrows ==
  ASSUME TypeInv, NEW r \in Requests, ScriptEffect(r)
  PROVE  /\ DOMAIN log = 1..Len(log) /\ Len(log) \in Nat
         /\ \A k \in DOMAIN log : k \in DOMAIN log' /\ log'[k] = log[k]
         /\ \/ log' = log /\ buckets' = buckets
            \/ \E ok \in BOOLEAN :
                 /\ req[r].at = "script" /\ Keeps /\ Script(r, ok)
                 /\ DOMAIN log' = 1..(Len(log) + 1) /\ Len(log') = Len(log) + 1
                 /\ LET y == log'[Len(log) + 1]
                        b == Bucket(req[r])
                        E == Pruned(b, req[r].now)
                    IN  /\ y.bucket = b /\ y.by = r /\ y.ok = ok
                        /\ y.now = req[r].now /\ y.at = clock
                        /\ ~ok => y.retryAfter = retryAfter(E, req[r].now)
<1>0. log \in Seq(LogType) /\ DOMAIN log = 1..Len(log) /\ Len(log) \in Nat
  BY DEF TypeInv, Types
<1>1. CASE UNCHANGED <<buckets, log>>
  BY <1>0, <1>1
<1>2. ASSUME NEW ok \in BOOLEAN, req[r].at = "script", Keeps, Script(r, ok)
      PROVE  /\ \A k \in DOMAIN log : k \in DOMAIN log' /\ log'[k] = log[k]
             /\ DOMAIN log' = 1..(Len(log) + 1) /\ Len(log') = Len(log) + 1
             /\ LET y == log'[Len(log) + 1]
                    b == Bucket(req[r])
                    E == Pruned(b, req[r].now)
                IN  /\ y.bucket = b /\ y.by = r /\ y.ok = ok
                    /\ y.now = req[r].now /\ y.at = clock
                    /\ ~ok => y.retryAfter = retryAfter(E, req[r].now)
  <2> DEFINE b == Bucket(req[r])
             E == Pruned(b, req[r].now)
             y == [bucket |-> b, by |-> r, ok |-> ok, now |-> req[r].now,
                   at |-> clock, retryAfter |->
                     IF ok THEN 0 ELSE retryAfter(E, req[r].now)]
  <2>1. log' = Append(log, y)
    BY <1>2, ScriptFacts
  <2>2. /\ y.bucket = b /\ y.by = r /\ y.ok = ok /\ y.now = req[r].now
        /\ y.at = clock
        /\ ~ok => y.retryAfter = retryAfter(E, req[r].now)
    OBVIOUS
  <2> HIDE DEF y
  <2>3. /\ \A k \in DOMAIN log : k \in DOMAIN log' /\ log'[k] = log[k]
        /\ DOMAIN log' = 1..(Len(log) + 1) /\ Len(log') = Len(log) + 1
        /\ log'[Len(log) + 1] = y
    BY <1>0, <2>1
  <2>4. QED  BY <2>2, <2>3
<1>3. QED  BY <1>0, <1>1, <1>2 DEF ScriptEffect


(* An entry of a bucket was there before, or the script has just added it. *)
LEMMA EntryCases ==
  ASSUME TypeInv, NEW r \in Requests, ScriptEffect(r),
         NEW c \in Buckets, NEW e \in buckets'[c].entries
  PROVE  \/ e \in buckets[c].entries
         \/ /\ e = [score |-> req[r].now, by |-> r] /\ req[r].at = "script"
            /\ Keeps
            /\ \E k \in DOMAIN log' : /\ log'[k].ok /\ log'[k].bucket = c
                                      /\ log'[k].by = r
                                      /\ log'[k].now = req[r].now
<1>1. CASE buckets' = buckets
  BY <1>1
<1>2. ASSUME NEW ok \in BOOLEAN, req[r].at = "script", Keeps, Script(r, ok),
             Len(log) \in Nat, DOMAIN log' = 1..(Len(log) + 1),
             log'[Len(log) + 1].bucket = Bucket(req[r]),
             log'[Len(log) + 1].by = r, log'[Len(log) + 1].ok = ok,
             log'[Len(log) + 1].now = req[r].now,
             e \notin buckets[c].entries
      PROVE  /\ e = [score |-> req[r].now, by |-> r]
             /\ \E k \in DOMAIN log' : /\ log'[k].ok /\ log'[k].bucket = c
                                       /\ log'[k].by = r
                                       /\ log'[k].now = req[r].now
  <2> DEFINE b == Bucket(req[r])
             E == Pruned(b, req[r].now)
             f == [score |-> req[r].now, by |-> r]
  <2>1. /\ E \subseteq buckets[b].entries
        /\ \A d \in Buckets \ {b} : buckets'[d] = buckets[d]
        /\ buckets'[b].entries = IF ok THEN E \cup {f} ELSE E
    BY ZenonT(60), <1>2, ScriptFacts
  <2> HIDE DEF b, E, f
  <2>2. c = b
    BY <1>2, <2>1
  <2>3. ok /\ e = f
    BY <1>2, <2>1, <2>2
  <2>4. Len(log) + 1 \in DOMAIN log'
    BY <1>2
  <2>5. QED  BY <1>2, <2>2, <2>3, <2>4 DEF b, f
<1>3. QED  BY <1>1, <1>2, LogGrows

(* Every entry is an admission of the log, and no request has two. *)
LEMMA EntriesStep ==
  ASSUME TypeInv, EntriesOK, [Next]_vars
  PROVE  EntriesOK'
<1> USE GuardAssumptions
<1>0. Types /\ Requested /\ TypeInv'
  BY TypeStep DEF TypeInv
<1>t. clock \in Nat /\ req \in [Requests -> ReqType] /\ MaxDelay \in Nat
  BY <1>0 DEF Types
<1>1. ASSUME NEW r \in Requests, Step(r)
      PROVE  EntriesOK'
  <2>1. /\ clock' = clock /\ ScriptEffect(r)
        /\ \/ req' = req /\ Keeps
           \/ \E x \in ReqType : Moves(r, x)
    BY <1>0, <1>1, StepEffects
  <2>2. /\ \A s \in Requests \ {r} : req'[s] = req[s]
        /\ \/ req'[r] = req[r]
           \/ /\ req'[r].at = "script" =>
                   /\ req[r].at \in {"idle", "touch"} /\ req'[r].pod \in Pods
                   /\ req'[r].now = clock + Skew[req'[r].pod]
              /\ req'[r].at # "idle"
              /\ req'[r].at = "touch" => req[r].at = "idle"
    <3>1. CASE req' = req
      BY <3>1
    <3>2. ASSUME NEW x \in ReqType, Moves(r, x)
          PROVE  /\ \A s \in Requests \ {r} : req'[s] = req[s]
                 /\ req'[r].at = "script" =>
                      /\ req[r].at \in {"idle", "touch"} /\ req'[r].pod \in Pods
                      /\ req'[r].now = clock + Skew[req'[r].pod]
                 /\ req'[r].at # "idle"
                 /\ req'[r].at = "touch" => req[r].at = "idle"
      <4>1. req'[r] = x /\ \A s \in Requests \ {r} : req'[s] = req[s]
        BY <1>0, <3>2, MovesKeepRequested
      <4>2. QED  BY <3>2, <4>1 DEF Moves
    <3>3. QED  BY <2>1, <3>1, <3>2
  <2>3. ASSUME NEW s \in Requests, req'[s].at = "script"
        PROVE  (Waited(s) \in 0..MaxDelay)'
    <3>1. CASE req'[s] = req[s]
      BY <2>1, <2>3, <3>1 DEF EntriesOK, Waited
    <3>2. CASE req'[s] # req[s]
      <4>1. /\ s = r /\ req'[s].pod \in Pods
            /\ req'[s].now = clock + Skew[req'[s].pod]
        BY <2>2, <2>3, <3>2
      <4>2. Skew[req'[s].pod] \in Nat
        BY <4>1
      <4>3. clock' - (req'[s].now - Skew[req'[s].pod]) = 0
        BY <1>t, <2>1, <4>1, <4>2
      <4>4. QED  BY <1>t, <4>3 DEF Waited
    <3>3. QED  BY <3>1, <3>2
  <2>4. ASSUME NEW c \in Buckets, NEW e \in buckets'[c].entries
        PROVE  /\ req'[e.by].at \notin {"idle", "touch"}
               /\ req'[e.by].at = "script" => e.score = req'[e.by].now
               /\ \E k \in DOMAIN log' : /\ log'[k].ok /\ log'[k].bucket = c
                                         /\ log'[k].by = e.by
                                         /\ log'[k].now = e.score
    <3>0. e.by \in Requests
      BY <1>0 DEF TypeInv, Types, BucketType, EntryType
    <3>1. CASE e \in buckets[c].entries
      <4>1. /\ req[e.by].at \notin {"idle", "touch"}
            /\ req[e.by].at = "script" => e.score = req[e.by].now
            /\ \E k \in DOMAIN log : /\ log[k].ok /\ log[k].bucket = c
                                     /\ log[k].by = e.by /\ log[k].now = e.score
        BY <3>1 DEF EntriesOK
      <4>2. \A k \in DOMAIN log : k \in DOMAIN log' /\ log'[k] = log[k]
        BY <2>1, LogGrows
      <4>3. \E k \in DOMAIN log' : /\ log'[k].ok /\ log'[k].bucket = c
                                   /\ log'[k].by = e.by
                                   /\ log'[k].now = e.score
        BY <4>1, <4>2
      <4>4. QED  BY <2>2, <3>0, <4>1, <4>3
    <3>2. CASE /\ e = [score |-> req[r].now, by |-> r] /\ req[r].at = "script"
               /\ \E k \in DOMAIN log' : /\ log'[k].ok /\ log'[k].bucket = c
                                         /\ log'[k].by = r
                                         /\ log'[k].now = req[r].now
      <4>1. e.by = r /\ e.score = req[r].now
        BY <3>2
      <4>2. QED  BY <2>2, <3>2, <4>1
    <3>3. QED  BY <2>1, <3>1, <3>2, EntryCases
  <2>5. ASSUME NEW c \in Buckets, NEW e \in buckets'[c].entries,
               NEW f \in buckets'[c].entries, e.by = f.by
        PROVE  e = f
    <3> DEFINE n == [score |-> req[r].now, by |-> r]
    <3>1. e \in buckets[c].entries \/ (e = n /\ req[r].at = "script")
      BY <2>1, EntryCases
    <3>2. f \in buckets[c].entries \/ (f = n /\ req[r].at = "script")
      BY <2>1, EntryCases
    <3>3. ASSUME NEW d \in buckets[c].entries, d.by = r, req[r].at = "script"
          PROVE  d = n
      <4>1. d.score = req[r].now /\ d \in EntryType
        BY <1>0, <3>3 DEF EntriesOK, Types, BucketType
      <4>2. QED  BY <3>3, <4>1 DEF EntryType
    <3>4. n.by = r
      OBVIOUS
    <3> HIDE DEF n
    <3>5. QED  BY <2>5, <3>1, <3>2, <3>3, <3>4 DEF EntriesOK
  <2>6. QED  BY <2>3, <2>4, <2>5 DEF EntriesOK
<1>2. CASE Tick
  <2>1. ASSUME NEW s \in Requests, req'[s].at = "script"
        PROVE  (Waited(s) \in 0..MaxDelay)'
    <3>1. /\ req' = req /\ clock' = clock + 1
          /\ ~(clock - (req[s].now - Skew[req[s].pod]) >= MaxDelay)
      BY <1>2, <2>1, TickFacts DEF Waiting
    <3>2. clock - (req[s].now - Skew[req[s].pod]) \in 0..MaxDelay
      BY <2>1, <3>1 DEF EntriesOK, Waited
    <3>3. req[s].now \in Nat /\ Skew[req[s].pod] \in Nat
      BY <1>0, <2>1, <3>1 DEF Types, ReqType, Requested
    <3>4. clock' - (req'[s].now - Skew[req'[s].pod]) \in 0..MaxDelay
      BY <1>t, <3>1, <3>2, <3>3
    <3>5. QED  BY <3>4 DEF Waited
  <2>2. req' = req /\ buckets' = buckets /\ log' = log
    BY <1>2, TickFacts
  <2>3. QED  BY <2>1, <2>2 DEF EntriesOK
<1>3. CASE UNCHANGED vars
  BY <1>3 DEF vars, EntriesOK, Waited
<1>4. QED  BY <1>1, <1>2, <1>3, NextCases


-----------------------------------------------------------------------------
(* The requests that a log shows as admitted to bucket b in the part I *)
AdmittedIn(l, b, I) == {l[k].by : k \in {n \in I : l[n].ok /\ l[n].bucket = b}}

(* Behind the refusal at i of a log are limit requests of its bucket. *)
RefusedRightly(l, i) ==
  ~l[i].ok =>
    Cardinality(AdmittedIn(l, l[i].bucket,
      {k \in 1..(i - 1) : l[k].now > l[i].now - WindowMs}))
    >= Limit[l[i].bucket[1]]

(* What a log says of its first entries does not change as it grows. *)
LEMMA AdmittedGrows ==
  ASSUME NEW l, NEW m, NEW b, NEW I, \A k \in I : m[k] = l[k]
  PROVE  AdmittedIn(m, b, I) = AdmittedIn(l, b, I)
<1>1. {n \in I : m[n].ok /\ m[n].bucket = b}
        = {n \in I : l[n].ok /\ l[n].bucket = b}
  OBVIOUS
<1>2. QED  BY <1>1 DEF AdmittedIn

LEMMA RefusedGrows ==
  ASSUME NEW l, NEW m, NEW i \in Nat, \A k \in 1..i : m[k] = l[k], i >= 1,
         RefusedRightly(l, i)
  PROVE  RefusedRightly(m, i)
<1> DEFINE K(s) == {k \in 1..(i - 1) : s[k].now > s[i].now - WindowMs}
<1>1. m[i] = l[i] /\ \A k \in 1..(i - 1) : m[k] = l[k]
  OBVIOUS
<1>2. K(m) = K(l)
  BY <1>1
<1>3. AdmittedIn(m, l[i].bucket, K(l)) = AdmittedIn(l, l[i].bucket, K(l))
  <2>1. \A k \in K(l) : m[k] = l[k]
    BY <1>1
  <2> HIDE DEF K
  <2>2. QED  BY <2>1, AdmittedGrows
<1>4. QED  BY <1>1, <1>2, <1>3 DEF RefusedRightly

LEMMA RefusesByEntry ==
  RefusesOnlyOverLimit <=> \A i \in DOMAIN log : RefusedRightly(log, i)
BY DEF RefusesOnlyOverLimit, RefusedRightly, Admitted, AdmittedIn

(* The script refuses only a full bucket, and its entries are requests     *)
(* that were admitted less than a window before.                           *)
LEMMA RefuseStep ==
  ASSUME RefuseInv, [Next]_vars
  PROVE  RefusesOnlyOverLimit'
<1> USE GuardAssumptions
<1>0. TypeInv /\ EntriesOK /\ RefusesOnlyOverLimit /\ Types /\ Requested
  BY DEF RefuseInv, TypeInv
<1>1. ASSUME NEW r \in Requests, Step(r), log' # log
      PROVE  \A i \in DOMAIN log' : RefusedRightly(log', i)
  <2> DEFINE b == Bucket(req[r])
             now == req[r].now
             E == Pruned(b, now)
             n == Len(log) + 1
  <2>1. ScriptEffect(r)
    BY <1>0, <1>1, StepEffects
  <2>2. /\ DOMAIN log = 1..Len(log) /\ Len(log) \in Nat
        /\ \A k \in DOMAIN log : k \in DOMAIN log' /\ log'[k] = log[k]
    BY <1>0, <2>1, LogGrows
  <2>3. PICK ok \in BOOLEAN :
          /\ req[r].at = "script" /\ Script(r, ok)
          /\ DOMAIN log' = 1..n
          /\ log'[n].bucket = b /\ log'[n].ok = ok /\ log'[n].now = now
    BY <1>0, <1>1, <2>1, LogGrows
  <2>4. /\ b \in Buckets /\ E \subseteq buckets[b].entries /\ IsFiniteSet(E)
        /\ E \subseteq EntryType
        /\ ok <=> Cardinality(E) < Limit[b[1]]
        /\ Limit[b[1]] \in Nat \ {0} /\ Cardinality(E) \in Nat
    BY <1>0, <2>3, ScriptFacts
  <2>5. \A e \in E : e.score > now - WindowMs
    BY DEF Pruned
  <2>n. now \in Nat
    BY <1>0 DEF Types, ReqType
  <2> HIDE DEF b, E, now
  <2>6. ASSUME NEW i \in DOMAIN log
        PROVE  RefusedRightly(log', i)
    <3>1. RefusedRightly(log, i)
      BY <1>0, RefusesByEntry
    <3>2. i \in Nat /\ i >= 1 /\ \A k \in 1..i : log'[k] = log[k]
      BY <2>2
    <3>3. PICK m : m = log'
      OBVIOUS
    <3>4. RefusedRightly(m, i)
      BY <3>1, <3>2, <3>3, RefusedGrows
    <3>5. QED  BY <3>3, <3>4
  <2>7. RefusedRightly(log', n)
    <3> SUFFICES ASSUME ~ok
                 PROVE  Cardinality(AdmittedIn(log', b,
                          {k \in 1..(n - 1) : log'[k].now > now - WindowMs}))
                          >= Limit[b[1]]
      BY <2>3 DEF RefusedRightly
    <3> DEFINE K == {k \in 1..(n - 1) : log'[k].now > now - WindowMs}
               J == {k \in K : log'[k].ok /\ log'[k].bucket = b}
               A == {log[k].by : k \in J}
               B == {e.by : e \in E}
    <3>1. n - 1 = Len(log) /\ K \subseteq DOMAIN log
      BY <2>2
    <3>2. AdmittedIn(log', b, K) = A
      <4>1. \A k \in J : log'[k] = log[k]
        BY <2>2, <3>1
      <4>2. AdmittedIn(log', b, K) = {log'[k].by : k \in J}
        BY DEF AdmittedIn
      <4> HIDE DEF J
      <4>3. QED  BY <4>1, <4>2
    <3>3. B \subseteq A
      <4>1. ASSUME NEW e \in E PROVE e.by \in A
        <5>1. PICK k \in DOMAIN log : /\ log[k].ok /\ log[k].bucket = b
                                      /\ log[k].by = e.by /\ log[k].now = e.score
          BY <1>0, <2>4 DEF EntriesOK
        <5>2. k \in 1..(n - 1) /\ log'[k] = log[k]
          BY <2>2, <3>1
        <5>3. k \in J
          BY <2>5, <5>1, <5>2
        <5>4. QED  BY <5>1, <5>3
      <4>2. QED  BY <4>1
    <3>4. IsFiniteSet(A)
      <4>1. J \in SUBSET DOMAIN log
        BY <3>1
      <4>2. log \in Seq(LogType)
        BY <1>0 DEF Types
      <4> HIDE DEF J
      <4>3. QED  BY <4>1, <4>2, ByFinite
    <3>5. IsFiniteSet(B) /\ Cardinality(B) = Cardinality(E)
      <4>1. \A e, f \in E : e.by = f.by => e = f
        BY <1>0, <2>4 DEF EntriesOK
      <4>2. QED  BY <2>4, <4>1, ByCounts
    <3> HIDE DEF A, B, K
    <3>6. Cardinality(B) <= Cardinality(A) /\ Cardinality(A) \in Nat
      BY <3>3, <3>4, FS_Subset, FS_CardinalityType
    <3>7. Cardinality(A) >= Limit[b[1]]
      BY <2>4, <3>5, <3>6
    <3>8. QED  BY <3>2, <3>7 DEF K
  <2>8. \A i \in DOMAIN log' : i \in DOMAIN log \/ i = n
    BY <2>2, <2>3
  <2>9. QED  BY <2>6, <2>7, <2>8
<1>2. CASE log' = log
  <2>1. \A i \in DOMAIN log' : RefusedRightly(log', i)
    BY <1>0, <1>2, RefusesByEntry
  <2>2. QED  BY <2>1 DEF RefusesOnlyOverLimit, RefusedRightly, Admitted, AdmittedIn
<1>3. CASE \A i \in DOMAIN log' : RefusedRightly(log', i)
  BY <1>3 DEF RefusesOnlyOverLimit, RefusedRightly, Admitted, AdmittedIn
<1>4. QED  BY <1>1, <1>2, <1>3, NextCases, TickFacts DEF vars

LEMMA RefuseInvAlways == Spec => []RefuseInv
<1>1. Init => RefuseInv
  <2> SUFFICES ASSUME Init PROVE RefuseInv
    OBVIOUS
  <2>1. DOMAIN log = {}
    BY DEF Init
  <2>2. RefusesOnlyOverLimit
    BY <2>1 DEF RefusesOnlyOverLimit
  <2>3. NoRequest.at = "idle" /\ NoBucket.entries = {}
    BY DEF NoRequest, NoBucket
  <2>4. EntriesOK
    BY <2>3 DEF Init, EntriesOK
  <2>5. QED  BY <2>2, <2>4, TypeInit DEF RefuseInv
<1>2. RefuseInv /\ [Next]_vars => RefuseInv'
  BY RefuseStep, EntriesStep, TypeStep DEF RefuseInv
<1>3. QED  BY <1>1, <1>2, PTL DEF Spec

(* The limiter refuses nobody too early: behind each 429 are limit         *)
(* requests of the same handler and client, each less than a window        *)
(* before, commands sent again included.                                   *)
THEOREM NobodyIsRefusedEarly == Spec => []RefusesOnlyOverLimit
<1>1. RefuseInv => RefusesOnlyOverLimit
  BY DEF RefuseInv
<1>2. QED  BY <1>1, RefuseInvAlways, PTL


-----------------------------------------------------------------------------
(* When the client refused at i of a log may come again *)
RetryTime(l, i) == l[i].now + l[i].retryAfter * Second

(* Two refusals of a log, the second after the first's Retry-After *)
RefusedAgain(l, i, j) ==
  /\ i < j /\ l[i].bucket = l[j].bucket /\ ~l[i].ok /\ ~l[j].ok
  /\ l[j].now >= RetryTime(l, i)

LEMMA RetryByEntry ==
  RetryAfterIsEnough <=>
    \A i, j \in DOMAIN log :
      RefusedAgain(log, i, j) => AdmittedIn(log, log[i].bucket, i..j) # {}
BY DEF RetryAfterIsEnough, RefusedAgain, RetryTime, Admitted, AdmittedIn

(* The buckets B have room for the client refused at i of the log l. *)
RoomAfter(l, B, i) ==
  ~l[i].ok /\ AdmittedIn(l, l[i].bucket, i..Len(l)) = {} =>
    Cardinality({e \in B[l[i].bucket].entries :
                   e.score > RetryTime(l, i) - WindowMs})
      < Limit[l[i].bucket[1]]

LEMMA RoomByEntry ==
  RetryOK <=> \A i \in DOMAIN log : RoomAfter(log, buckets, i)
BY DEF RetryOK, RoomAfter, RetryTime, Later, Admitted, AdmittedIn

(* When the oldest entry of a refused client's bucket has left the window, *)
(* the bucket has room, until somebody is admitted.                        *)
LEMMA RetryStep ==
  ASSUME RetryInv, [Next]_vars
  PROVE  RetryOK' /\ RetryAfterIsEnough'
<1> USE GuardAssumptions
<1>0. /\ TypeInv /\ RetryOK /\ RetryAfterIsEnough /\ Types /\ Requested /\ Bounded
  BY DEF RetryInv, RefuseInv, TypeInv
<1>s. WindowMs \in Nat /\ Second \in Nat
  OBVIOUS
<1>1. ASSUME NEW r \in Requests, Step(r), ~UNCHANGED <<log, buckets>>
      PROVE  RetryOK' /\ RetryAfterIsEnough'
  <2> DEFINE b == Bucket(req[r])
             now == req[r].now
             E == Pruned(b, now)
             n == Len(log) + 1
  <2>1. ScriptEffect(r)
    BY <1>0, <1>1, StepEffects
  <2>2. /\ DOMAIN log = 1..Len(log) /\ Len(log) \in Nat
        /\ \A k \in DOMAIN log : k \in DOMAIN log' /\ log'[k] = log[k]
    BY <1>0, <2>1, LogGrows
  <2>3. PICK ok \in BOOLEAN :
          /\ req[r].at = "script" /\ Script(r, ok)
          /\ DOMAIN log' = 1..n /\ Len(log') = n
          /\ log'[n].bucket = b /\ log'[n].ok = ok /\ log'[n].now = now
          /\ ~ok => log'[n].retryAfter = retryAfter(E, now)
    BY <1>0, <1>1, <2>1, LogGrows
  <2>4. /\ b \in Buckets /\ E \subseteq buckets[b].entries /\ IsFiniteSet(E)
        /\ E \subseteq EntryType
        /\ ok <=> Cardinality(E) < Limit[b[1]]
        /\ Limit[b[1]] \in Nat \ {0} /\ Cardinality(E) \in Nat
        /\ \A c \in Buckets \ {b} : buckets'[c] = buckets[c]
        /\ ~ok => buckets'[b].entries = E
    BY ZenonT(60), <1>0, <2>3, ScriptFacts
  <2>5. \A e \in E : e.score > now - WindowMs
    BY DEF Pruned
  <2>6. now \in Nat
    BY <1>0 DEF Types, ReqType
  <2>7. log' \in Seq(LogType) /\ log \in Seq(LogType)
    BY <1>0, TypeStep DEF TypeInv, Types
  <2>8. \A i \in DOMAIN log :
          /\ log[i].bucket \in Buckets /\ RetryTime(log, i) \in Nat
          /\ RetryTime(log', i) = RetryTime(log, i) /\ log'[i] = log[i]
    <3>1. ASSUME NEW i \in DOMAIN log
          PROVE  /\ log[i].bucket \in Buckets /\ RetryTime(log, i) \in Nat
                 /\ RetryTime(log', i) = RetryTime(log, i) /\ log'[i] = log[i]
      <4>1. log[i] \in LogType /\ log'[i] = log[i]
        BY <2>2, <2>7
      <4>2. log[i].bucket \in Buckets /\ log[i].now \in Nat
            /\ log[i].retryAfter \in Nat
        BY <4>1 DEF LogType
      <4>3. log[i].now + log[i].retryAfter * Second \in Nat
        BY <1>s, <4>2
      <4>4. QED  BY <4>1, <4>2, <4>3 DEF RetryTime
    <3>2. QED  BY <3>1
  <2> HIDE DEF b, E, now
  <2>9. \A i \in DOMAIN log' : i \in DOMAIN log \/ i = n
    BY <2>2, <2>3
  <2>10. ASSUME NEW i \in DOMAIN log, AdmittedIn(log', log[i].bucket, i..n) = {}
         PROVE  /\ AdmittedIn(log, log[i].bucket, i..Len(log)) = {}
                /\ log[i].bucket = b => ~ok
    <3>1. \A k \in i..n : ~(log'[k].ok /\ log'[k].bucket = log[i].bucket)
      <4>1. ASSUME NEW k \in i..n, log'[k].ok, log'[k].bucket = log[i].bucket
            PROVE  log'[k].by \in AdmittedIn(log', log[i].bucket, i..n)
        BY <4>1 DEF AdmittedIn
      <4>2. QED  BY <2>10, <4>1
    <3>2. n \in i..n /\ \A k \in i..Len(log) : k \in i..n /\ log'[k] = log[k]
      BY <2>2
    <3>3. \A k \in i..Len(log) : ~(log[k].ok /\ log[k].bucket = log[i].bucket)
      BY <3>1, <3>2
    <3>4. AdmittedIn(log, log[i].bucket, i..Len(log)) = {}
      BY <3>3 DEF AdmittedIn
    <3>5. QED  BY <2>3, <3>1, <3>2, <3>4
  <2>11. ASSUME NEW c \in Buckets, NEW t, buckets'[c].entries \subseteq buckets[c].entries
         PROVE  Cardinality({e \in buckets'[c].entries : e.score > t - WindowMs})
                  <= Cardinality(Later(c, t))
                /\ Cardinality(Later(c, t)) \in Nat
                /\ Cardinality({e \in buckets'[c].entries : e.score > t - WindowMs}) \in Nat
    <3> DEFINE X == {e \in buckets'[c].entries : e.score > t - WindowMs}
    <3>1. X \subseteq Later(c, t) /\ Later(c, t) \subseteq buckets[c].entries
      BY <2>11 DEF Later
    <3>2. IsFiniteSet(buckets[c].entries)
      BY <1>0 DEF Bounded
    <3> HIDE DEF X
    <3>3. IsFiniteSet(Later(c, t)) /\ IsFiniteSet(X)
      BY <3>1, <3>2, FS_Subset
    <3>4. Cardinality(X) <= Cardinality(Later(c, t))
      BY <3>1, <3>3, FS_Subset
    <3>5. QED  BY <3>3, <3>4, FS_CardinalityType DEF X
  <2>12. ASSUME NEW i \in DOMAIN log, ~log[i].ok,
                AdmittedIn(log, log[i].bucket, i..Len(log)) = {}
         PROVE  /\ Cardinality(Later(log[i].bucket, RetryTime(log, i)))
                     < Limit[log[i].bucket[1]]
                /\ Limit[log[i].bucket[1]] \in Nat
    <3>1. Admitted(log[i].bucket, i..Len(log)) = {}
      BY <2>12 DEF Admitted, AdmittedIn
    <3>2. Limit[log[i].bucket[1]] \in Nat
      BY <2>8 DEF Buckets
    <3>3. QED  BY <1>0, <2>12, <3>1, <3>2 DEF RetryOK, RetryTime
  <2>13. ASSUME NEW i \in DOMAIN log', ~log'[i].ok,
                AdmittedIn(log', log'[i].bucket, i..n) = {}
         PROVE  Cardinality({e \in buckets'[log'[i].bucket].entries :
                               e.score > RetryTime(log', i) - WindowMs})
                  < Limit[log'[i].bucket[1]]
    <3>1. CASE i \in DOMAIN log
      <4> DEFINE c == log[i].bucket
                 t == RetryTime(log, i)
      <4>1. log'[i] = log[i] /\ RetryTime(log', i) = t /\ c \in Buckets
        BY <2>8, <3>1
      <4>2. AdmittedIn(log, c, i..Len(log)) = {} /\ (c = b => ~ok)
        BY <2>10, <2>13, <3>1, <4>1
      <4>3. buckets'[c].entries \subseteq buckets[c].entries
        BY <2>4, <4>1, <4>2
      <4>4. Cardinality(Later(c, t)) < Limit[c[1]] /\ Limit[c[1]] \in Nat
        BY <2>12, <2>13, <3>1, <4>1, <4>2
      <4>5. QED
        <5> HIDE DEF c, t
        <5>1. /\ Cardinality({e \in buckets'[c].entries : e.score > t - WindowMs})
                   <= Cardinality(Later(c, t))
              /\ Cardinality(Later(c, t)) \in Nat
              /\ Cardinality({e \in buckets'[c].entries : e.score > t - WindowMs}) \in Nat
          BY <2>11, <4>1, <4>3
        <5>2. Cardinality({e \in buckets'[c].entries : e.score > t - WindowMs}) < Limit[c[1]]
          BY <4>4, <5>1
        <5>3. QED  BY <4>1, <5>2 DEF c
    <3>2. CASE i = n
      <4> DEFINE t == now + retryAfter(E, now) * Second
                 X == {e \in E : e.score > t - WindowMs}
      <4>1. ~ok /\ RetryTime(log', n) = t /\ log'[n].bucket = b
            /\ buckets'[b].entries = E
        BY <2>3, <2>4, <2>13, <3>2 DEF RetryTime
      <4>2. E # {}
        <5>1. Cardinality({}) = 0
          BY FS_EmptySet
        <5>2. ~(Cardinality(E) < Limit[b[1]]) /\ 0 < Limit[b[1]]
          BY <2>4, <4>1
        <5>3. QED  BY <5>1, <5>2
      <4>3. /\ retryAfter(E, now) \in Nat
            /\ \E e \in E : t >= e.score + WindowMs
        BY <2>4, <2>6, <4>2, RetryFacts
      <4>4. t \in Nat
        BY <1>s, <2>6, <4>3
      <4> HIDE DEF t
      <4>5. PICK e \in E : t >= e.score + WindowMs
        BY <4>3
      <4>6. e \notin X
        <5>1. e.score \in Nat
          BY <2>4 DEF EntryType
        <5>2. ~(e.score > t - WindowMs)
          BY <1>s, <4>4, <4>5, <5>1
        <5>3. QED  BY <5>2
      <4>7. X \subseteq E /\ X # E
        BY <4>6
      <4> HIDE DEF X
      <4>8. /\ Cardinality(X) <= Cardinality(E) /\ Cardinality(X) # Cardinality(E)
            /\ Cardinality(X) \in Nat
        BY <2>4, <4>7, FS_Subset, FS_CardinalityType
      <4>9. Cardinality(E) <= Limit[b[1]]
        <5>1. Cardinality(E) <= Cardinality(buckets[b].entries)
              /\ Cardinality(buckets[b].entries) \in Nat
              /\ Cardinality(buckets[b].entries) <= Limit[b[1]]
          BY <1>0, <2>4, FS_Subset, FS_CardinalityType DEF Bounded
        <5>2. QED  BY <2>4, <5>1
      <4>10. Cardinality(X) < Limit[b[1]]
        BY <2>4, <4>8, <4>9
      <4>11. QED  BY <3>2, <4>1, <4>10 DEF X
    <3>3. QED  BY <2>9, <3>1, <3>2
  <2>14. ASSUME NEW i \in DOMAIN log', NEW j \in DOMAIN log',
                RefusedAgain(log', i, j)
         PROVE  AdmittedIn(log', log'[i].bucket, i..j) # {}
    <3>0. i < j /\ i \in DOMAIN log
      BY <2>2, <2>3, <2>9, <2>14 DEF RefusedAgain
    <3>i. log'[i] = log[i] /\ RetryTime(log', i) = RetryTime(log, i)
          /\ log[i].bucket \in Buckets /\ RetryTime(log, i) \in Nat
      BY <2>8, <3>0
    <3>1. CASE j \in DOMAIN log
      <4>1. log'[j] = log[j] /\ \A k \in i..j : log'[k] = log[k]
        BY <2>2, <3>1, <3>0
      <4>2. RefusedAgain(log, i, j)
        BY <2>14, <3>i, <4>1 DEF RefusedAgain
      <4>3. AdmittedIn(log, log[i].bucket, i..j) # {}
        BY <1>0, <3>0, <3>1, <4>2, RetryByEntry
      <4>4. PICK m : m = log'
        OBVIOUS
      <4>5. AdmittedIn(m, log[i].bucket, i..j) = AdmittedIn(log, log[i].bucket, i..j)
        <5>1. \A k \in i..j : m[k] = log[k]
          BY <4>1, <4>4
        <5>2. PICK I : I = i..j
          OBVIOUS
        <5>3. \A k \in I : m[k] = log[k]
          BY <5>1, <5>2
        <5>4. AdmittedIn(m, log[i].bucket, I) = AdmittedIn(log, log[i].bucket, I)
          BY <5>3, AdmittedGrows
        <5>5. QED  BY <5>2, <5>4
      <4>6. QED  BY <3>i, <4>3, <4>4, <4>5
    <3>2. CASE j = n
      <4> SUFFICES ASSUME AdmittedIn(log', log'[i].bucket, i..j) = {}
                   PROVE  FALSE
        OBVIOUS
      <4> DEFINE t == RetryTime(log, i)
      <4>1. ~ok /\ log[i].bucket = b /\ now >= t /\ ~log[i].ok
        BY <2>3, <2>14, <3>2, <3>i DEF RefusedAgain
      <4>2. AdmittedIn(log, b, i..Len(log)) = {}
        BY <2>10, <3>0, <3>2, <3>i, <4>1
      <4>3. Cardinality(Later(b, t)) < Limit[b[1]]
        BY <2>12, <3>0, <4>1, <4>2
      <4>4. t \in Nat
        BY <3>i
      <4> HIDE DEF t
      <4>5. E \subseteq Later(b, t)
        <5>1. ASSUME NEW e \in E PROVE e.score > t - WindowMs
          <6>1. e.score \in Nat /\ e.score > now - WindowMs
            BY <2>4, <2>5 DEF EntryType
          <6>2. QED  BY <1>s, <2>6, <4>1, <4>4, <6>1
        <5>2. QED  BY <2>4, <5>1 DEF Later
      <4>6. IsFiniteSet(Later(b, t))
        <5>1. IsFiniteSet(buckets[b].entries)
          BY <1>0, <2>4 DEF Bounded
        <5>2. Later(b, t) \subseteq buckets[b].entries
          BY DEF Later
        <5>3. QED  BY <5>1, <5>2, FS_Subset
      <4>7. Cardinality(E) <= Cardinality(Later(b, t))
            /\ Cardinality(Later(b, t)) \in Nat
        BY <4>5, <4>6, FS_Subset, FS_CardinalityType
      <4>8. QED  BY <2>4, <4>1, <4>3, <4>7
    <3>3. QED  BY <2>9, <3>1, <3>2
  <2>15. RetryOK'
    BY <2>3, <2>13 DEF RetryOK, RetryTime, Later, Admitted, AdmittedIn
  <2>16. RetryAfterIsEnough'
    BY <2>14 DEF RetryAfterIsEnough, RefusedAgain, RetryTime, Admitted, AdmittedIn
  <2>17. QED  BY <2>15, <2>16
<1>2. CASE UNCHANGED <<log, buckets>>
  <2>1. RetryOK'
    <3>1. log' = log /\ buckets' = buckets
      BY <1>2
    <3>2. \A i \in DOMAIN log' : RoomAfter(log', buckets', i)
      BY <1>0, <3>1, RoomByEntry
    <3>3. QED
      BY <3>2 DEF RetryOK, RoomAfter, RetryTime, Later, Admitted, AdmittedIn
  <2>2. \A i, j \in DOMAIN log' : RefusedAgain(log', i, j) =>
          AdmittedIn(log', log'[i].bucket, i..j) # {}
    BY <1>0, <1>2, RetryByEntry
  <2>3. RetryAfterIsEnough'
    BY <2>2 DEF RetryAfterIsEnough, RefusedAgain, RetryTime, Admitted, AdmittedIn
  <2>4. QED  BY <2>1, <2>3
<1>3. QED  BY <1>1, <1>2, NextCases, TickFacts DEF vars

(* Retry-After is long enough: a client that waits that long is refused    *)
(* again only if somebody of its bucket was admitted meanwhile.            *)
THEOREM RetryAfterSuffices == Spec => []RetryAfterIsEnough
<1>1. Init => RetryOK /\ RetryAfterIsEnough
  <2> SUFFICES ASSUME Init PROVE RetryOK /\ RetryAfterIsEnough
    OBVIOUS
  <2>1. DOMAIN log = {}
    BY DEF Init
  <2>2. QED  BY <2>1 DEF RetryOK, RetryAfterIsEnough
<1>2. RefuseInv /\ RetryOK /\ RetryAfterIsEnough /\ [Next]_vars
        => RetryOK' /\ RetryAfterIsEnough'
  BY RetryStep DEF RetryInv
<1>3. QED  BY <1>1, <1>2, RefuseInvAlways, PTL DEF Spec


-----------------------------------------------------------------------------
(* The admission at k of the log l is too young at time t to be pruned. *)
RecentAt(l, t, k) ==
  \A p, q \in Pods : t - l[k].at < WindowMs - MaxDelay - (Skew[p] - Skew[q])

(* A recent admission is in its bucket. *)
Kept(l, t, B, k) ==
  l[k].ok /\ RecentAt(l, t, k) =>
    /\ [score |-> l[k].now, by |-> l[k].by] \in B[l[k].bucket].entries
    /\ B[l[k].bucket].expires >= l[k].at + WindowMs

(* Entry k of the log l was made on time and in order, and it is Kept. *)
LoggedOK(l, t, B, k) ==
  /\ l[k].at <= t
  /\ \E p \in Pods : l[k].now >= l[k].at - MaxDelay + Skew[p]
  /\ \A m \in DOMAIN l : k <= m => l[k].at <= l[m].at
  /\ Kept(l, t, B, k)

LEMMA LogByEntry ==
  LogOK <=> \A k \in DOMAIN log : LoggedOK(log, clock, buckets, k)
BY DEF LogOK, LoggedOK, Kept, Recent, RecentAt

(* The script keeps the recent admissions of its bucket: no process's      *)
(* clock is far enough ahead to prune them.                                *)
LEMMA ScriptKeeps ==
  ASSUME TypeInv, EntriesOK, LogOK, NEW r \in Requests, req[r].at = "script",
         NEW k \in DOMAIN log, log[k].ok, log[k].bucket = Bucket(req[r]),
         RecentAt(log, clock, k)
  PROVE  [score |-> log[k].now, by |-> log[k].by]
           \in Pruned(Bucket(req[r]), req[r].now)
<1> USE GuardAssumptions
<1> DEFINE b == Bucket(req[r])
           now == req[r].now
           pod == req[r].pod
           f == [score |-> log[k].now, by |-> log[k].by]
           lim(p, q) == WindowMs - MaxDelay - (Skew[p] - Skew[q])
<1>1. /\ f \in buckets[b].entries /\ buckets[b].expires >= log[k].at + WindowMs
      /\ f.score = log[k].now
  BY LogByEntry DEF LoggedOK, Kept
<1>2. PICK p \in Pods : log[k].now >= log[k].at - MaxDelay + Skew[p]
  BY LogByEntry DEF LoggedOK
<1>3. req[r] \in ReqType /\ pod \in Pods /\ clock \in Nat /\ now \in Nat
  BY DEF TypeInv, Types, Requested, ReqType
<1>4. log[k] \in LogType
  BY DEF TypeInv, Types
<1>5. log[k].at \in Nat /\ log[k].now \in Nat /\ b \in Buckets
  BY <1>4 DEF LogType
<1>6. buckets[b].expires \in Nat
  BY <1>5 DEF TypeInv, Types, BucketType
<1>7. Skew[p] \in Nat /\ Skew[pod] \in Nat /\ MaxDelay \in Nat /\ WindowMs \in Nat
  BY <1>3
<1>8. clock - (now - Skew[pod]) \in 0..MaxDelay
  BY DEF EntriesOK, Waited
<1>9. /\ clock - log[k].at < WindowMs - MaxDelay - (Skew[pod] - Skew[p])
      /\ clock - log[k].at < WindowMs - MaxDelay - (Skew[p] - Skew[p])
  BY <1>2, <1>3 DEF RecentAt
<1> HIDE DEF now, pod, f, b
<1>10. ~(buckets[b].expires <= clock)
  BY <1>1, <1>3, <1>5, <1>6, <1>7, <1>9
<1>11. log[k].now > now - WindowMs
  BY <1>2, <1>3, <1>5, <1>7, <1>8, <1>9
<1>12. f \in Pruned(b, now)
  BY <1>1, <1>10, <1>11 DEF Pruned
<1>13. QED  BY <1>12 DEF f, b, now

(* The log stays in order and its recent admissions stay in their bucket. *)
LEMMA LogStep ==
  ASSUME WindowInv, [Next]_vars
  PROVE  LogOK'
<1> USE GuardAssumptions
<1>0. TypeInv /\ EntriesOK /\ LogOK /\ Types /\ Requested /\ Bounded
  BY DEF WindowInv, RefuseInv, TypeInv
<1>t. /\ clock \in Nat /\ MaxDelay \in Nat /\ WindowMs \in Nat
      /\ log \in Seq(LogType) /\ DOMAIN log = 1..Len(log) /\ Len(log) \in Nat
  BY <1>0 DEF Types
<1>l. \A k \in DOMAIN log : LoggedOK(log, clock, buckets, k)
  BY <1>0, LogByEntry
<1>k. \A k \in DOMAIN log : log[k].at \in Nat /\ log[k].now \in Nat
                            /\ log[k].bucket \in Buckets
  <2>1. \A k \in DOMAIN log : log[k] \in LogType
    BY <1>t
  <2>2. QED  BY <2>1 DEF LogType
<1>1. ASSUME NEW r \in Requests, Step(r), ~UNCHANGED <<log, buckets>>
      PROVE  \A k \in DOMAIN log' : LoggedOK(log', clock', buckets', k)
  <2> DEFINE b == Bucket(req[r])
             now == req[r].now
             pod == req[r].pod
             E == Pruned(b, now)
             n == Len(log) + 1
  <2>1. ScriptEffect(r) /\ clock' = clock
    BY <1>0, <1>1, StepEffects
  <2>2. \A k \in DOMAIN log : k \in DOMAIN log' /\ log'[k] = log[k]
    BY <1>0, <2>1, LogGrows
  <2>3. PICK ok \in BOOLEAN :
          /\ req[r].at = "script" /\ Script(r, ok)
          /\ DOMAIN log' = 1..n /\ Len(log') = n
          /\ log'[n].bucket = b /\ log'[n].ok = ok /\ log'[n].now = now
          /\ log'[n].at = clock /\ log'[n].by = r
    BY <1>0, <1>1, <2>1, LogGrows
  <2>4. /\ b \in Buckets
        /\ \A c \in Buckets \ {b} : buckets'[c] = buckets[c]
        /\ buckets'[b].entries =
             IF ok THEN E \cup {[score |-> now, by |-> r]} ELSE E
        /\ buckets'[b].expires =
             IF ok THEN clock + WindowMs ELSE buckets[b].expires
    BY ZenonT(60), <1>0, <2>3, ScriptFacts
  <2>5. pod \in Pods /\ now \in Nat /\ clock - (now - Skew[pod]) \in 0..MaxDelay
    BY <1>0, <2>3 DEF Types, Requested, ReqType, EntriesOK, Waited
  <2>6. ASSUME NEW k \in DOMAIN log
        PROVE  LoggedOK(log', clock', buckets', k)
    <3>1. /\ log[k].at <= clock /\ log'[k] = log[k] /\ clock' = clock
          /\ \E p \in Pods : log[k].now >= log[k].at - MaxDelay + Skew[p]
      BY <1>l, <2>1, <2>2 DEF LoggedOK
    <3>2. ASSUME NEW m \in DOMAIN log', k <= m PROVE log'[k].at <= log'[m].at
      <4>1. CASE m = n
        BY <2>3, <3>1, <4>1
      <4>2. CASE m \in DOMAIN log
        BY <1>l, <2>2, <3>1, <3>2, <4>2 DEF LoggedOK
      <4>3. QED  BY <1>t, <2>3, <4>1, <4>2
    <3>3. Kept(log', clock', buckets', k)
      <4> DEFINE c == log[k].bucket
                 f == [score |-> log[k].now, by |-> log[k].by]
      <4> SUFFICES ASSUME log[k].ok, RecentAt(log', clock', k)
                   PROVE  /\ f \in buckets'[c].entries
                          /\ buckets'[c].expires >= log[k].at + WindowMs
        BY <3>1 DEF Kept
      <4>1. RecentAt(log, clock, k)
        BY <3>1 DEF RecentAt
      <4>2. /\ f \in buckets[c].entries
            /\ buckets[c].expires >= log[k].at + WindowMs
        BY <1>l, <4>1 DEF LoggedOK, Kept
      <4>3. CASE c # b
        BY <1>k, <2>4, <4>2, <4>3
      <4>4. CASE c = b
        <5>1. f \in E
          BY <1>0, <2>3, <4>1, <4>4, ScriptKeeps
        <5>2. clock + WindowMs >= log[k].at + WindowMs
          BY <1>k, <1>t, <3>1
        <5> HIDE DEF c, f, b, E
        <5>3. QED  BY <2>4, <4>2, <4>4, <5>1, <5>2
      <4>5. QED  BY <4>3, <4>4
    <3>4. QED  BY <3>1, <3>2, <3>3 DEF LoggedOK
  <2>7. LoggedOK(log', clock', buckets', n)
    <3>1. log'[n].at <= clock'
      BY <1>t, <2>1, <2>3
    <3>2. log'[n].now >= log'[n].at - MaxDelay + Skew[pod]
      <4>1. Skew[pod] \in Nat
        BY <2>5
      <4> HIDE DEF pod, now
      <4>2. QED  BY <1>t, <2>3, <2>5, <4>1
    <3>3. ASSUME NEW m \in DOMAIN log', n <= m PROVE log'[n].at <= log'[m].at
      <4>1. m = n
        BY <1>t, <2>3, <3>3
      <4>2. QED  BY <1>t, <2>3, <4>1
    <3>4. Kept(log', clock', buckets', n)
      <4> HIDE DEF b, E, now
      <4>1. clock + WindowMs >= clock + WindowMs
        BY <1>t
      <4>2. QED  BY <2>3, <2>4, <4>1 DEF Kept
    <3>5. QED  BY <2>5, <3>1, <3>2, <3>3, <3>4 DEF LoggedOK
  <2>8. \A k \in DOMAIN log' : k \in DOMAIN log \/ k = n
    BY <1>t, <2>3
  <2>9. QED  BY <2>6, <2>7, <2>8
<1>2. ASSUME log' = log, buckets' = buckets,
             clock' = clock \/ clock' = clock + 1
      PROVE  \A k \in DOMAIN log' : LoggedOK(log', clock', buckets', k)
  <2>1. ASSUME NEW k \in DOMAIN log
        PROVE  LoggedOK(log, clock', buckets, k)
    <3>1. log[k].at <= clock'
      BY <1>2, <1>k, <1>l, <1>t DEF LoggedOK
    <3>2. RecentAt(log, clock', k) => RecentAt(log, clock, k)
      <4>1. ASSUME NEW p \in Pods, NEW q \in Pods,
                   clock' - log[k].at < WindowMs - MaxDelay - (Skew[p] - Skew[q])
            PROVE  clock - log[k].at < WindowMs - MaxDelay - (Skew[p] - Skew[q])
        <5>1. Skew[p] \in Nat /\ Skew[q] \in Nat
          OBVIOUS
        <5>2. QED  BY <1>2, <1>k, <1>t, <4>1, <5>1
      <4>2. QED  BY <4>1 DEF RecentAt
    <3>3. QED  BY <1>l, <3>1, <3>2 DEF LoggedOK, Kept
  <2>2. QED  BY <1>2, <2>1
<1>3. \A k \in DOMAIN log' : LoggedOK(log', clock', buckets', k)
  <2>1. ASSUME NEW r \in Requests, Step(r) PROVE clock' = clock
    BY <1>0, <2>1, StepEffects
  <2>2. QED  BY <1>1, <1>2, <2>1, NextCases, TickFacts DEF vars
<1>4. QED  BY <1>3 DEF LogOK, LoggedOK, Kept, Recent, RecentAt


(* The requests admitted since entry i, if i is recent, are all in their   *)
(* bucket, which holds at most limit.                                      *)
LEMMA WindowStep ==
  ASSUME WindowInv, [Next]_vars
  PROVE  AtMostLimitPerWindow'
<1> USE GuardAssumptions
<1>0. /\ TypeInv /\ EntriesOK /\ AtMostLimitPerWindow
      /\ TypeInv' /\ EntriesOK' /\ LogOK'
  BY TypeStep, EntriesStep, LogStep DEF WindowInv, RefuseInv
<1> DEFINE Spread(x) == \E p, q \in Pods :
                          x >= WindowMs - MaxDelay - (Skew[p] - Skew[q])
           Many(l, i, j) == /\ i < j /\ l[i].bucket = l[j].bucket
                            /\ Cardinality(AdmittedIn(l, l[i].bucket, i..j))
                                 > Limit[l[i].bucket[1]]
<1>1. \A i, j \in DOMAIN log : Many(log, i, j) => Spread(log[j].at - log[i].at)
  BY <1>0 DEF AtMostLimitPerWindow, Admitted, AdmittedIn
<1>2. ASSUME NEW r \in Requests, Step(r), log' # log
      PROVE  \A i, j \in DOMAIN log' :
               Many(log', i, j) => Spread(log'[j].at - log'[i].at)
  <2> DEFINE n == Len(log) + 1
  <2>1. ScriptEffect(r) /\ clock' = clock
    BY <1>0, <1>2, StepEffects DEF TypeInv
  <2>2. /\ \A k \in DOMAIN log : k \in DOMAIN log' /\ log'[k] = log[k]
        /\ DOMAIN log = 1..Len(log) /\ Len(log) \in Nat
    BY <1>0, <2>1, LogGrows
  <2>3. DOMAIN log' = 1..n /\ log'[n].at = clock'
    BY <1>0, <1>2, <2>1, LogGrows
  <2>4. \A k \in DOMAIN log' : LoggedOK(log', clock', buckets', k)
    BY <1>0 DEF LogOK, LoggedOK, Kept, Recent, RecentAt
  <2>5. /\ log' \in Seq(LogType) /\ clock' \in Nat
        /\ \A k \in DOMAIN log' : /\ log'[k].at \in Nat
                                  /\ log'[k].bucket \in Buckets
    <3>1. log' \in Seq(LogType) /\ clock' \in Nat
      BY <1>0 DEF TypeInv, Types
    <3>2. \A k \in DOMAIN log' : log'[k] \in LogType
      BY <3>1
    <3>3. QED  BY <3>1, <3>2 DEF LogType
  <2>6. ASSUME NEW i \in DOMAIN log', NEW j \in DOMAIN log', Many(log', i, j)
        PROVE  Spread(log'[j].at - log'[i].at)
    <3>1. CASE j \in DOMAIN log
      <4>1. i \in DOMAIN log /\ log'[i] = log[i] /\ log'[j] = log[j]
            /\ \A k \in i..j : log'[k] = log[k]
        BY <2>2, <2>3, <2>6, <3>1
      <4>2. PICK m : m = log'
        OBVIOUS
      <4>3. PICK I : I = i..j
        OBVIOUS
      <4>4. \A k \in I : m[k] = log[k]
        BY <4>1, <4>2, <4>3
      <4>5. AdmittedIn(m, log[i].bucket, I) = AdmittedIn(log, log[i].bucket, I)
        BY <4>4, AdmittedGrows
      <4>6. Many(log, i, j)
        BY <2>6, <4>1, <4>2, <4>3, <4>5
      <4> HIDE DEF Many, Spread
      <4>7. QED  BY <1>1, <3>1, <4>1, <4>6
    <3>2. CASE j = n
      <4> SUFFICES ASSUME ~Spread(log'[j].at - log'[i].at)
                   PROVE  FALSE
        OBVIOUS
      <4> DEFINE c == log'[i].bucket
                 ent == buckets'[c].entries
                 A == AdmittedIn(log', c, i..j)
                 B == {e.by : e \in ent}
      <4>1. log'[j].at = clock'
        BY <2>3, <3>2
      <4>2. ASSUME NEW k \in i..j, log'[k].ok, log'[k].bucket = c
            PROVE  log'[k].by \in B
        <5>1. k \in DOMAIN log' /\ i <= k
          BY <2>2, <2>3, <3>2
        <5>2. log'[i].at <= log'[k].at
          BY <2>4, <5>1 DEF LoggedOK
        <5>3. RecentAt(log', clock', k)
          <6>1. ASSUME NEW p \in Pods, NEW q \in Pods
                PROVE  clock' - log'[k].at
                         < WindowMs - MaxDelay - (Skew[p] - Skew[q])
            <7>1. Skew[p] \in Nat /\ Skew[q] \in Nat
              OBVIOUS
            <7>2. ~(clock' - log'[i].at
                      >= WindowMs - MaxDelay - (Skew[p] - Skew[q]))
              BY <4>1
            <7>3. log'[k].at \in Nat /\ log'[i].at \in Nat
              BY <2>5, <5>1
            <7>4. MaxDelay \in Nat /\ WindowMs \in Nat
              OBVIOUS
            <7>5. PICK u : u = log'[k].at
              OBVIOUS
            <7>6. PICK v : v = log'[i].at
              OBVIOUS
            <7>7. PICK t : t = clock'
              OBVIOUS
            <7>8. /\ u \in Nat /\ v \in Nat /\ t \in Nat /\ v <= u
                  /\ ~(t - v >= WindowMs - MaxDelay - (Skew[p] - Skew[q]))
              BY <2>5, <5>2, <7>2, <7>3, <7>5, <7>6, <7>7
            <7>9. t - u < WindowMs - MaxDelay - (Skew[p] - Skew[q])
              BY <7>1, <7>4, <7>8
            <7>10. QED  BY <7>5, <7>7, <7>9
          <6>2. QED  BY <6>1 DEF RecentAt
        <5>4. [score |-> log'[k].now, by |-> log'[k].by] \in ent
          BY <2>4, <4>2, <5>1, <5>3 DEF LoggedOK, Kept
        <5> HIDE DEF ent
        <5>5. [score |-> log'[k].now, by |-> log'[k].by].by \in B
          BY <5>4
        <5>6. QED  BY <5>5
      <4>3. A \subseteq B
        BY <4>2 DEF AdmittedIn
      <4>4. /\ c \in Buckets /\ IsFiniteSet(ent)
            /\ Cardinality(ent) <= Limit[c[1]] /\ Limit[c[1]] \in Nat
        BY <1>0, <2>5 DEF TypeInv, Bounded, Buckets
      <4>5. \A e, f \in ent : e.by = f.by => e = f
        BY <1>0, <4>4 DEF EntriesOK
      <4>6. Cardinality(A) > Limit[c[1]]
        BY <2>6
      <4> HIDE DEF A, ent, c
      <4>7. IsFiniteSet(B) /\ Cardinality(B) = Cardinality(ent)
        BY <4>4, <4>5, ByCounts
      <4> HIDE DEF B
      <4>8. Cardinality(A) <= Cardinality(B) /\ Cardinality(B) \in Nat
            /\ Cardinality(A) \in Nat
        BY <4>3, <4>7, FS_Subset, FS_CardinalityType
      <4>9. QED  BY <4>4, <4>6, <4>7, <4>8
    <3>3. QED  BY <2>2, <2>3, <3>1, <3>2
  <2>7. QED  BY <2>6
<1>3. \A i, j \in DOMAIN log' : Many(log', i, j) => Spread(log'[j].at - log'[i].at)
  <2>1. CASE log' = log
    <3> HIDE DEF Many, Spread
    <3>1. QED  BY <1>1, <2>1
  <2> HIDE DEF Many, Spread
  <2>2. QED  BY <1>2, <2>1, NextCases, TickFacts DEF vars
<1>4. QED  BY <1>3 DEF AtMostLimitPerWindow, Admitted, AdmittedIn

(* More than limit requests of one client are admitted only over at least  *)
(* a window, less what the processes' clocks differ by and what a command  *)
(* spends on the way, for any number of processes and of resent commands.  *)
THEOREM LimitHoldsPerWindow == Spec => []AtMostLimitPerWindow
<1>1. Init => LogOK /\ AtMostLimitPerWindow
  <2> SUFFICES ASSUME Init PROVE LogOK /\ AtMostLimitPerWindow
    OBVIOUS
  <2>1. DOMAIN log = {}
    BY DEF Init
  <2>2. QED  BY <2>1 DEF LogOK, AtMostLimitPerWindow
<1>2. RefuseInv /\ LogOK /\ AtMostLimitPerWindow /\ [Next]_vars
        => LogOK' /\ AtMostLimitPerWindow'
  BY LogStep, WindowStep DEF WindowInv
<1>3. QED  BY <1>1, <1>2, RefuseInvAlways, PTL DEF Spec
=============================================================================
