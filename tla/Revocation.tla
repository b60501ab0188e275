----------------------------- MODULE Revocation -----------------------------
(***************************************************************************)
(* The admission denylist: the api's store of revoked workloads            *)
(* (app/api/revocations.py), and the cached copy of it that another        *)
(* service consults on every hop (app/common/revocation.py), with the      *)
(* threads of that service calling is_revoked at the same time.            *)
(*                                                                         *)
(* Time is kept as ages, which stop counting once nothing tells larger     *)
(* ones apart: age is `time.time() - _cached_at`, a thread's age is the    *)
(* time since the `now` it took.                                           *)
(***************************************************************************)
EXTENDS Integers, FiniteSets

CONSTANTS
  Workload,      \* the SPIFFE ids that call, and may be revoked
  Self,          \* the id of the service that keeps the copy
  Thread,        \* its request threads
  TTL,           \* how long a fetched set is reused
  FetchTime,     \* bound: how long a call to revoked_ids may take
  FailClosed,    \* what REVOCATION_FAIL_CLOSED may be set to
  Outages,       \* whether the api may become unreachable
  MaxRestarts    \* bound: restarts of the service

ASSUME RevocationAssumption ==
  /\ TTL \in Nat \ {0} /\ FetchTime \in Nat
  /\ FetchTime < TTL            \* the client's timeout is 3.0, TTL is 5.0
  /\ FailClosed \subseteq BOOLEAN /\ Outages \in BOOLEAN
  /\ MaxRestarts \in Nat

VARIABLES
  revoked,    \* the api's store
  since,      \* since[w]: how long w has been revoked and the api could be asked
  up,         \* the api is reachable
  cache, age, available,   \* _cache, the age of _cached_at, _available
  fail_closed,  \* REVOCATION_FAIL_CLOSED
  thread,     \* thread[t]: a call of is_revoked, or its result
  restarts    \* restarts so far

api == <<revoked, since, up, fail_closed>>
copy == <<cache, age, available>>
vars == <<revoked, since, up, cache, age, available, fail_closed, thread, restarts>>

Longest == TTL + FetchTime + 1     \* where since[w] stops counting
AtMost(n, limit) == IF n <= limit THEN n ELSE limit

Idle == [at |-> "idle"]
Fetching == [at : {"fetching", "fetched", "stored", "failed"}, id : Workload,
             age : 0..FetchTime, got : SUBSET Workload]
Done == [at : {"done"}, id : Workload, admitted : BOOLEAN, lag : 0..Longest]

\* The call returns: `lag` keeps how long the workload had been revoked.
Verdict(w, admitted) ==
  [at |-> "done", id |-> w, admitted |-> admitted,
   lag |-> IF w \in revoked THEN since[w] ELSE 0]

Init ==
  /\ revoked = {}
  /\ since = [w \in Workload |-> 0]
  /\ up \in {TRUE, ~Outages}
  /\ cache = {} /\ age = TTL /\ available = FALSE
  /\ fail_closed \in FailClosed
  /\ thread = [t \in Thread |-> Idle]
  /\ restarts = 0

-----------------------------------------------------------------------------
(* The authority.                                                          *)

Revoke(w) ==
  /\ revoked' = revoked \cup {w}
  /\ since' = [v \in Workload |->
                 IF w = Self \/ (v = w /\ w \notin revoked) THEN 0 ELSE since[v]]
  /\ UNCHANGED <<up, copy, fail_closed, thread, restarts>>

Restore(w) ==
  /\ revoked' = revoked \ {w}
  /\ since' = [since EXCEPT ![w] = 0]
  /\ UNCHANGED <<up, copy, fail_closed, thread, restarts>>

Outage ==
  /\ Outages /\ up
  /\ up' = FALSE
  /\ since' = [w \in Workload |-> 0]
  /\ UNCHANGED <<revoked, copy, fail_closed, thread, restarts>>

Recover == ~up /\ up' = TRUE /\ UNCHANGED <<revoked, since, copy, fail_closed, thread, restarts>>

-----------------------------------------------------------------------------
(* is_revoked and revoked_ids, in thread t.                                *)

Ready(t) == thread[t].at \in {"idle", "done"}

\* fail_closed() and unavailable().
Unavailable == fail_closed /\ ~available

\* Fail closed: refused before the set is looked at, or asked for.
RefuseUnavailable(t, w) ==
  /\ Ready(t)
  /\ Unavailable
  /\ thread' = [thread EXCEPT ![t] = Verdict(w, FALSE)]
  /\ UNCHANGED <<api, copy, restarts>>

\* Slip: using the set makes it young again.
CacheHit_Slip(t, w) ==
  /\ Ready(t)
  /\ ~Unavailable
  /\ age < TTL
  /\ age' = 0
  /\ thread' = [thread EXCEPT ![t] = Verdict(w, w \notin cache)]
  /\ UNCHANGED <<api, cache, available, restarts>>

CacheHit(t, w) ==
  /\ Ready(t)
  /\ ~Unavailable
  /\ age < TTL
  /\ thread' = [thread EXCEPT ![t] = Verdict(w, w \notin cache)]
  /\ UNCHANGED <<api, copy, restarts>>

\* The set is too old: take `now`, and ask the api.
StartFetch(t, w) ==
  /\ Ready(t)
  /\ ~Unavailable
  /\ age >= TTL
  /\ thread' = [thread EXCEPT ![t] = [at |-> "fetching", id |-> w, age |-> 0,
                                      got |-> {}]]
  /\ UNCHANGED <<api, copy, restarts>>

\* The api answers no caller that is itself revoked.
Answers == up /\ Self \notin revoked

Fetch(t) ==
  /\ thread[t].at = "fetching"
  /\ Answers
  /\ thread' = [thread EXCEPT ![t].at = "fetched", ![t].got = revoked]
  /\ UNCHANGED <<api, copy, restarts>>

FetchFails(t) ==
  /\ thread[t].at = "fetching"
  /\ ~Answers
  /\ thread' = [thread EXCEPT ![t].at = "failed"]
  /\ UNCHANGED <<api, copy, restarts>>

Store(t) ==
  /\ thread[t].at = "fetched"
  /\ cache' = thread[t].got
  /\ available' = TRUE
  /\ thread' = [thread EXCEPT ![t].at = "stored"]
  /\ UNCHANGED <<api, age, restarts>>

\* `_cached_at = now`, fetched or not, and the answer from whatever _cache holds.
Stamp(t) ==
  /\ thread[t].at \in {"stored", "failed"}
  /\ age' = AtMost(thread[t].age, TTL)
  /\ thread' = [thread EXCEPT ![t] = Verdict(@.id, @.id \notin cache)]
  /\ UNCHANGED <<api, cache, available, restarts>>

\* The service is restarted: the copy is gone.
Restart ==
  /\ restarts < MaxRestarts
  /\ restarts' = restarts + 1
  /\ cache' = {} /\ age' = TTL /\ available' = FALSE
  /\ thread' = [t \in Thread |-> Idle]
  /\ UNCHANGED api

Busy(t) == ~Ready(t)

\* Time passes; no call takes longer than FetchTime.
Tick ==
  /\ \A t \in Thread : Busy(t) => thread[t].age < FetchTime
  /\ age' = AtMost(age + 1, TTL)
  /\ since' = [w \in Workload |->
                 IF w \in revoked /\ Answers THEN AtMost(since[w] + 1, Longest) ELSE 0]
  /\ thread' = [t \in Thread |->
                 IF Busy(t) THEN [thread[t] EXCEPT !.age = @ + 1] ELSE thread[t]]
  /\ UNCHANGED <<revoked, up, cache, available, fail_closed, restarts>>

Call(t, w) == RefuseUnavailable(t, w) \/ CacheHit(t, w) \/ StartFetch(t, w)
Continue(t) == Fetch(t) \/ FetchFails(t) \/ Store(t) \/ Stamp(t)

Next ==
  \/ \E w \in Workload : Revoke(w) \/ Restore(w)
  \/ Outage \/ Recover
  \/ \E t \in Thread, w \in Workload : Call(t, w)
  \/ \E t \in Thread : Continue(t)
  \/ Restart
  \/ Tick

Spec == Init /\ [][Next]_vars

\* Time passes, a call that has begun goes on (FetchTime stands for the http
\* client's timeout), and every workload keeps calling.
FairSpec ==
  /\ Spec
  /\ WF_vars(Tick)
  /\ \A t \in Thread : WF_vars(Continue(t))
  /\ \A t \in Thread, w \in Workload : SF_vars(Call(t, w))

-----------------------------------------------------------------------------
(* The type of every variable.                                             *)
TypeOK ==
  /\ revoked \subseteq Workload
  /\ since \in [Workload -> 0..Longest]
  /\ up \in BOOLEAN /\ fail_closed \in BOOLEAN
  /\ cache \in SUBSET Workload /\ age \in 0..TTL /\ available \in BOOLEAN
  /\ restarts \in 0..MaxRestarts
  /\ thread \in [Thread -> Fetching \cup Done \cup {Idle}]

(* "staleness is seconds": no hop admits a workload that has been revoked, *)
(* with the api there to be asked, for TTL + FetchTime, although threads   *)
(* store an answer and its timestamp in two steps, may store an older      *)
(* answer over a newer one, and stamp a failure like a success             *)
(* (revoked_ids).                                                          *)
StalenessIsBounded ==
  \A t \in Thread : thread[t].at = "done" /\ thread[t].admitted =>
    thread[t].lag < TTL + FetchTime

Admits(w) == \E t \in Thread : thread[t].at = "done" /\ thread[t].id = w /\ thread[t].admitted

(* A workload that stays revoked is in the end refused for good, once the  *)
(* api can be asked for good: outages, restarts and races only delay it.   *)
RevocationTakesHold ==
  \A w \in Workload : <>[](w \in revoked /\ Answers) => <>[]~Admits(w)
=============================================================================
