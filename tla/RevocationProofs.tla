-------------------------- MODULE RevocationProofs --------------------------
(***************************************************************************)
(* The staleness bound of Revocation, for any workloads, threads, reuse    *)
(* time and timeout.                                                       *)
(*                                                                         *)
(* The cached set and its timestamp are written in two steps by any number *)
(* of threads, so the set may be older than the timestamp says: by one     *)
(* fetch, and no more. StaleInv says so for each of the places an answer   *)
(* may be on its way: fetched, stored and not yet stamped, failed, stamped.*)
(***************************************************************************)
EXTENDS Revocation, TLAPS

\* Workloads the api would refuse and a set does not know of.
Missed(set) == revoked \ set

\* Nothing counts as revoked for any time while nobody could have asked.
UnaskedIsYoung == ~Answers => \A w \in Workload : since[w] = 0

\* An answer misses only what was revoked after its thread took `now`.
FetchedIsYoung ==
  \A t \in Thread : thread[t].at = "fetched" =>
    \A w \in Missed(thread[t].got) : since[w] <= thread[t].age

\* A failure means that there was nobody to ask since the thread took `now`.
FailedIsYoung ==
  \A t \in Thread : thread[t].at = "failed" =>
    \A w \in Workload : since[w] <= thread[t].age

\* What a thread has stored, another may have replaced by an older answer.
StoredIsYoung ==
  \A t \in Thread : thread[t].at = "stored" =>
    \A w \in Missed(cache) : since[w] <= thread[t].age + FetchTime

\* While the set is reused it is at most one fetch older than its timestamp.
CacheIsYoung ==
  age < TTL => \A w \in Missed(cache) : since[w] <= age + FetchTime

StaleInv ==
  /\ TypeOK
  /\ UnaskedIsYoung
  /\ FetchedIsYoung
  /\ FailedIsYoung
  /\ StoredIsYoung
  /\ CacheIsYoung
  /\ StalenessIsBounded

USE RevocationAssumption

-----------------------------------------------------------------------------
(* Records of threads.                                                     *)

(* A cut-off number is one that is not above its limit.                    *)
LEMMA AtMostType ==
  ASSUME NEW n \in Nat, NEW limit \in Nat
  PROVE  /\ AtMost(n, limit) \in 0..limit
         /\ AtMost(n, limit) <= n
         /\ AtMost(n, limit) < limit => AtMost(n, limit) = n
  BY DEF AtMost

(* A thread that is neither idle nor done holds a fetch.                   *)
LEMMA FetchingType ==
  ASSUME TypeOK, NEW t \in Thread, thread[t].at \notin {"idle", "done"}
  PROVE  thread[t] \in Fetching
  BY DEF TypeOK, Done, Idle

(* A verdict is well formed, and its lag is what is said of the workload.  *)
LEMMA VerdictType ==
  ASSUME TypeOK, NEW w \in Workload, NEW yes \in BOOLEAN
  PROVE  /\ Verdict(w, yes) \in Done
         /\ Verdict(w, yes).at = "done"
         /\ Verdict(w, yes).admitted = yes
         /\ Verdict(w, yes).lag = IF w \in revoked THEN since[w] ELSE 0
  BY DEF Verdict, Done, TypeOK, Longest

-----------------------------------------------------------------------------
(* The steps of the authority.                                             *)

LEMMA RevokeStep ==
  ASSUME StaleInv, NEW w \in Workload, Revoke(w)
  PROVE  StaleInv'
  <1>1. TypeOK'
    BY DEF StaleInv, TypeOK, Revoke, copy, Longest
  <1>2. \A v \in Workload : since'[v] = 0 \/ (since'[v] = since[v] /\ (v \in revoked' => v \in revoked))
    BY DEF StaleInv, TypeOK, Revoke
  <1>3. UnaskedIsYoung'
    BY DEF StaleInv, TypeOK, Revoke, UnaskedIsYoung, Answers
  <1>4. \A t \in Thread : thread[t].at \notin {"idle", "done"} => thread[t].age \in 0..FetchTime
    BY FetchingType DEF StaleInv, Fetching
  <1>5. FetchedIsYoung' /\ FailedIsYoung' /\ StoredIsYoung' /\ CacheIsYoung'
    BY <1>1, <1>2, <1>4 DEF StaleInv, TypeOK, Revoke, copy, FetchedIsYoung, FailedIsYoung,
       StoredIsYoung, CacheIsYoung, Missed
  <1>6. StalenessIsBounded'
    BY DEF StaleInv, Revoke, StalenessIsBounded
  <1> QED BY <1>1, <1>3, <1>5, <1>6 DEF StaleInv

LEMMA RestoreStep ==
  ASSUME StaleInv, NEW w \in Workload, Restore(w)
  PROVE  StaleInv'
  <1>1. TypeOK'
    BY DEF StaleInv, TypeOK, Restore, copy, Longest
  <1>2. \A v \in Workload : since'[v] = 0 \/ since'[v] = since[v]
    BY DEF StaleInv, TypeOK, Restore
  <1>3. UnaskedIsYoung'
    BY DEF StaleInv, TypeOK, Restore, UnaskedIsYoung, Answers
  <1>4. \A t \in Thread : thread[t].at \notin {"idle", "done"} => thread[t].age \in 0..FetchTime
    BY FetchingType DEF StaleInv, Fetching
  <1>5. FetchedIsYoung' /\ FailedIsYoung' /\ StoredIsYoung' /\ CacheIsYoung'
    BY <1>1, <1>2, <1>4 DEF StaleInv, TypeOK, Restore, copy, FetchedIsYoung, FailedIsYoung,
       StoredIsYoung, CacheIsYoung, Missed
  <1>6. StalenessIsBounded'
    BY DEF StaleInv, Restore, StalenessIsBounded
  <1> QED BY <1>1, <1>3, <1>5, <1>6 DEF StaleInv

LEMMA OutageStep ==
  ASSUME StaleInv, Outage
  PROVE  StaleInv'
  <1>1. TypeOK'
    <2>1. up' \in BOOLEAN
      BY DEF Outage
    <2> QED BY <2>1 DEF StaleInv, TypeOK, Outage, copy, Longest
  <1>2. \A v \in Workload : since'[v] = 0
    BY DEF Outage
  <1>3. \A t \in Thread : thread[t].at \notin {"idle", "done"} => thread[t].age \in 0..FetchTime
    BY FetchingType DEF StaleInv, Fetching
  <1>4. FetchedIsYoung' /\ FailedIsYoung' /\ StoredIsYoung' /\ CacheIsYoung'
    BY <1>1, <1>2, <1>3 DEF TypeOK, Outage, copy, FetchedIsYoung, FailedIsYoung,
       StoredIsYoung, CacheIsYoung, Missed
  <1>5. UnaskedIsYoung' /\ StalenessIsBounded'
    BY <1>2 DEF StaleInv, Outage, UnaskedIsYoung, StalenessIsBounded
  <1> QED BY <1>1, <1>4, <1>5 DEF StaleInv

LEMMA RecoverStep ==
  ASSUME StaleInv, Recover
  PROVE  StaleInv'
  BY DEF StaleInv, TypeOK, Recover, copy, UnaskedIsYoung, Answers, FetchedIsYoung, FailedIsYoung,
     StoredIsYoung, CacheIsYoung, Missed, StalenessIsBounded

-----------------------------------------------------------------------------
(* The steps of a call.                                                    *)

(* A thread that begins anew holds no answer, and an answer is not wrong   *)
(* about the set it was read from: what the others hold still stands.      *)
LEMMA ThreadStep ==
  ASSUME StaleInv, NEW t \in Thread, NEW rec,
         thread' = [thread EXCEPT ![t] = rec], UNCHANGED <<api, copy, restarts>>,
         \/ rec \in Done /\ (rec.admitted => rec.lag < TTL + FetchTime)
         \/ rec \in Fetching /\ rec.at = "fetching"
         \/ rec \in Fetching /\ rec.at = "fetched" /\ rec.got = revoked
         \/ rec \in Fetching /\ rec.at = "failed" /\ \A w \in Workload : since[w] = 0
  PROVE  StaleInv'
  <1>1. TypeOK' /\ UnaskedIsYoung' /\ CacheIsYoung'
    BY DEF StaleInv, TypeOK, api, copy, UnaskedIsYoung, Answers, CacheIsYoung, Missed
  <1>2. FetchedIsYoung' /\ FailedIsYoung' /\ StoredIsYoung' /\ StalenessIsBounded'
    BY DEF StaleInv, TypeOK, api, copy, FetchedIsYoung, FailedIsYoung, StoredIsYoung,
       StalenessIsBounded, Missed, Done, Fetching
  <1> QED BY <1>1, <1>2 DEF StaleInv

LEMMA RefuseStep ==
  ASSUME StaleInv, NEW t \in Thread, NEW w \in Workload, RefuseUnavailable(t, w)
  PROVE  StaleInv'
  BY VerdictType, ThreadStep DEF StaleInv, RefuseUnavailable

(* A reused set misses nothing older than its age and one fetch.           *)
LEMMA CacheHitStep ==
  ASSUME StaleInv, NEW t \in Thread, NEW w \in Workload, CacheHit(t, w)
  PROVE  StaleInv'
  <1>1. w \notin cache => (IF w \in revoked THEN since[w] ELSE 0) < TTL + FetchTime
    BY DEF StaleInv, TypeOK, CacheHit, CacheIsYoung, Missed
  <1>2. (w \notin cache) \in BOOLEAN
    OBVIOUS
  <1> QED BY <1>1, <1>2, VerdictType, ThreadStep DEF StaleInv, CacheHit

LEMMA StartFetchStep ==
  ASSUME StaleInv, NEW t \in Thread, NEW w \in Workload, StartFetch(t, w)
  PROVE  StaleInv'
  <1> DEFINE rec == [at |-> "fetching", id |-> w, age |-> 0, got |-> {}]
  <1>1. rec \in Fetching /\ rec.at = "fetching"
    BY DEF Fetching
  <1> QED BY <1>1, ThreadStep DEF StartFetch

LEMMA FetchStep ==
  ASSUME StaleInv, NEW t \in Thread, Fetch(t)
  PROVE  StaleInv'
  <1> DEFINE rec == [thread[t] EXCEPT !.at = "fetched", !.got = revoked]
  <1>1. thread[t] \in Fetching
    BY FetchingType DEF StaleInv, Fetch
  <1>2. rec \in Fetching /\ rec.at = "fetched" /\ rec.got = revoked
    BY <1>1 DEF Fetching, StaleInv, TypeOK
  <1>3. thread' = [thread EXCEPT ![t] = rec]
    BY DEF Fetch
  <1> QED BY <1>2, <1>3, ThreadStep DEF Fetch

LEMMA FetchFailsStep ==
  ASSUME StaleInv, NEW t \in Thread, FetchFails(t)
  PROVE  StaleInv'
  <1> DEFINE rec == [thread[t] EXCEPT !.at = "failed"]
  <1>1. thread[t] \in Fetching
    BY FetchingType DEF StaleInv, FetchFails
  <1>2. rec \in Fetching /\ rec.at = "failed"
    BY <1>1 DEF Fetching
  <1>3. thread' = [thread EXCEPT ![t] = rec]
    BY DEF FetchFails
  <1>4. \A w \in Workload : since[w] = 0
    BY DEF FetchFails, StaleInv, UnaskedIsYoung
  <1> QED BY <1>2, <1>3, <1>4, ThreadStep DEF FetchFails

(* Whatever is stored misses only what was revoked during its own fetch.   *)
LEMMA StoreStep ==
  ASSUME StaleInv, NEW t \in Thread, Store(t)
  PROVE  StaleInv'
  <1>1. thread[t] \in Fetching
    BY FetchingType DEF StaleInv, Store
  <1>2. /\ thread' = [thread EXCEPT ![t] = [thread[t] EXCEPT !.at = "stored"]]
        /\ [thread[t] EXCEPT !.at = "stored"] \in Fetching
        /\ cache' = thread[t].got /\ cache' \in SUBSET Workload
    BY <1>1 DEF Store, Fetching
  <1>3. TypeOK' /\ UnaskedIsYoung'
    BY <1>2 DEF StaleInv, TypeOK, Store, api, UnaskedIsYoung, Answers
  <1>4. \A w \in Missed(cache)' : since'[w] <= thread[t].age /\ thread[t].age \in 0..FetchTime
    BY <1>1 DEF StaleInv, FetchedIsYoung, Missed, Store, api, Fetching
  <1>5. \A u \in Thread : thread'[u].at \notin {"idle", "done"} => thread'[u].age \in 0..FetchTime
    BY <1>3, FetchingType DEF TypeOK, Fetching, Done, Idle
  <1>6. StoredIsYoung' /\ CacheIsYoung'
    BY <1>2, <1>3, <1>4, <1>5 DEF StaleInv, TypeOK, StoredIsYoung, CacheIsYoung, Missed, Store, api
  <1>7. FetchedIsYoung' /\ FailedIsYoung' /\ StalenessIsBounded'
    BY <1>1, <1>2 DEF StaleInv, TypeOK, FetchedIsYoung, FailedIsYoung, StalenessIsBounded, Missed,
       Store, api
  <1> QED BY <1>3, <1>6, <1>7 DEF StaleInv

(* The timestamp is the thread's own: at most one fetch younger than the   *)
(* set, and after a failure not younger than anything anybody missed.      *)
LEMMA StampStep ==
  ASSUME StaleInv, NEW t \in Thread, Stamp(t)
  PROVE  StaleInv'
  <1> DEFINE id == thread[t].id
             rec == Verdict(id, id \notin cache)
  <1>1. thread[t] \in Fetching /\ id \in Workload /\ thread[t].age \in 0..FetchTime
    BY FetchingType DEF StaleInv, Stamp, Fetching
  <1>2. \A w \in Missed(cache) : since[w] <= thread[t].age + FetchTime
    BY <1>1 DEF StaleInv, TypeOK, Stamp, StoredIsYoung, FailedIsYoung, Missed
  <1>3. rec \in Done /\ rec.at = "done" /\ (rec.admitted => rec.lag < TTL + FetchTime)
    <2>1. (id \notin cache) \in BOOLEAN
      OBVIOUS
    <2>2. id \notin cache => (IF id \in revoked THEN since[id] ELSE 0) < TTL + FetchTime
      BY <1>1, <1>2 DEF StaleInv, TypeOK, Missed
    <2> QED BY <1>1, <2>1, <2>2, VerdictType DEF StaleInv
  <1>4. thread' = [thread EXCEPT ![t] = rec]
    BY DEF Stamp
  <1>5. age' \in 0..TTL /\ (age' < TTL => age' = thread[t].age)
    <2>1. thread[t].age \in Nat /\ TTL \in Nat
      BY <1>1
    <2>2. age' = AtMost(thread[t].age, TTL)
      BY DEF Stamp
    <2> QED BY <2>1, <2>2, AtMostType
  <1>6. TypeOK' /\ UnaskedIsYoung'
    <2>1. UNCHANGED <<revoked, since, up, fail_closed, cache, available, restarts>>
      BY DEF Stamp, api
    <2>2. thread' \in [Thread -> Fetching \cup Done \cup {Idle}]
      BY <1>3, <1>4 DEF StaleInv, TypeOK
    <2> QED BY <1>5, <2>1, <2>2 DEF StaleInv, TypeOK, UnaskedIsYoung, Answers
  <1>7. CacheIsYoung'
    BY <1>2, <1>5 DEF CacheIsYoung, Missed, Stamp, api
  <1>8. FetchedIsYoung' /\ FailedIsYoung' /\ StoredIsYoung' /\ StalenessIsBounded'
    BY <1>3, <1>4 DEF StaleInv, TypeOK, FetchedIsYoung, FailedIsYoung, StoredIsYoung,
       StalenessIsBounded, Missed, Stamp, api
  <1> QED BY <1>6, <1>7, <1>8 DEF StaleInv

-----------------------------------------------------------------------------
(* Restarts and time.                                                      *)

LEMMA RestartStep ==
  ASSUME StaleInv, Restart
  PROVE  StaleInv'
  <1>1. UNCHANGED <<revoked, since, up, fail_closed>> /\ cache' = {} /\ age' = TTL
        /\ restarts' \in 0..MaxRestarts
    BY DEF StaleInv, TypeOK, Restart, api
  <1>2. thread' = [t \in Thread |-> Idle] /\ Idle.at = "idle"
    BY DEF Restart, Idle
  <1>3. TypeOK' /\ UnaskedIsYoung'
    <2>1. available' \in BOOLEAN
      BY DEF Restart
    <2> QED BY <1>1, <1>2, <2>1 DEF StaleInv, TypeOK, UnaskedIsYoung, Answers
  <1>4. FetchedIsYoung' /\ FailedIsYoung' /\ StoredIsYoung' /\ CacheIsYoung' /\ StalenessIsBounded'
    BY <1>1, <1>2 DEF FetchedIsYoung, FailedIsYoung, StoredIsYoung, CacheIsYoung, StalenessIsBounded
  <1> QED BY <1>3, <1>4 DEF StaleInv

(* All ages grow together.                                                 *)
LEMMA TickStep ==
  ASSUME StaleInv, Tick
  PROVE  StaleInv'
  <1>1. \A w \in Workload : since'[w] \in 0..Longest /\ since'[w] <= since[w] + 1
    BY AtMostType DEF StaleInv, TypeOK, Tick, Longest
  <1>2. age' \in 0..TTL /\ (age' < TTL => age' = age + 1)
    BY AtMostType, SMTT(30) DEF StaleInv, TypeOK, Tick
  <1>3. \A t \in Thread :
          IF thread[t].at \in {"idle", "done"} THEN thread'[t] = thread[t]
          ELSE /\ thread'[t] \in Fetching
               /\ thread'[t].at = thread[t].at /\ thread'[t].got = thread[t].got
               /\ thread'[t].age = thread[t].age + 1 /\ thread[t].age \in Nat
    <2> SUFFICES ASSUME NEW t \in Thread
                 PROVE  IF thread[t].at \in {"idle", "done"} THEN thread'[t] = thread[t]
                        ELSE /\ thread'[t] \in Fetching
                             /\ thread'[t].at = thread[t].at /\ thread'[t].got = thread[t].got
                             /\ thread'[t].age = thread[t].age + 1 /\ thread[t].age \in Nat
      OBVIOUS
    <2>1. CASE thread[t].at \in {"idle", "done"}
      BY <2>1 DEF Tick, Busy, Ready
    <2>2. CASE thread[t].at \notin {"idle", "done"}
      <3>1. thread[t] \in Fetching /\ thread[t].age < FetchTime
        BY <2>2, FetchingType DEF StaleInv, Tick, Busy, Ready
      <3>2. thread'[t] = [thread[t] EXCEPT !.age = @ + 1]
        BY <2>2 DEF Tick, Busy, Ready
      <3> QED BY <2>2, <3>1, <3>2 DEF Fetching
    <2> QED BY <2>1, <2>2
  <1>4. TypeOK'
    <2>1. thread' \in [Thread -> Fetching \cup Done \cup {Idle}]
      BY <1>3 DEF StaleInv, TypeOK, Tick
    <2> QED BY <1>1, <1>2, <2>1 DEF StaleInv, TypeOK, Tick
  <1>5. UnaskedIsYoung'
    BY DEF Tick, UnaskedIsYoung, Answers
  <1>a. revoked \subseteq Workload /\ revoked' = revoked /\ cache' = cache
        /\ \A w \in Workload : since[w] \in Nat /\ since'[w] \in Nat /\ since'[w] <= since[w] + 1
    BY <1>1 DEF StaleInv, TypeOK, Tick, Longest
  <1>6. FetchedIsYoung' /\ FailedIsYoung' /\ StoredIsYoung'
    <2> SUFFICES ASSUME NEW t \in Thread, thread'[t].at \in {"fetched", "failed", "stored"},
                        NEW w \in Workload
                 PROVE  /\ thread'[t].at = "fetched" /\ w \in revoked' \ thread'[t].got =>
                             since'[w] <= thread'[t].age
                        /\ thread'[t].at = "failed" => since'[w] <= thread'[t].age
                        /\ thread'[t].at = "stored" /\ w \in revoked' \ cache' =>
                             since'[w] <= thread'[t].age + FetchTime
      BY <1>a DEF FetchedIsYoung, FailedIsYoung, StoredIsYoung, Missed
    <2>1. /\ thread'[t].at = thread[t].at /\ thread'[t].got = thread[t].got
          /\ thread'[t].age = thread[t].age + 1 /\ thread[t].age \in Nat
      BY <1>3
    <2>2. /\ thread[t].at = "fetched" /\ w \in revoked \ thread[t].got =>
               since[w] <= thread[t].age
          /\ thread[t].at = "failed" => since[w] <= thread[t].age
          /\ thread[t].at = "stored" /\ w \in revoked \ cache =>
               since[w] <= thread[t].age + FetchTime
      BY DEF StaleInv, FetchedIsYoung, FailedIsYoung, StoredIsYoung, Missed
    <2> QED BY <1>a, <2>1, <2>2
  <1>7. CacheIsYoung'
    BY <1>2, <1>a DEF StaleInv, TypeOK, CacheIsYoung, Missed
  <1>8. StalenessIsBounded'
    BY <1>3 DEF StaleInv, StalenessIsBounded
  <1> QED BY <1>4, <1>5, <1>6, <1>7, <1>8 DEF StaleInv

-----------------------------------------------------------------------------
LEMMA StaleInit == Init => StaleInv
  <1> SUFFICES ASSUME Init PROVE StaleInv
    OBVIOUS
  <1>1. Idle.at = "idle" /\ up \in BOOLEAN /\ fail_closed \in BOOLEAN /\ available \in BOOLEAN
    BY DEF Init, Idle
  <1>2. TypeOK
    BY <1>1 DEF Init, TypeOK, Longest
  <1>3. UnaskedIsYoung /\ FetchedIsYoung /\ FailedIsYoung /\ StoredIsYoung /\ CacheIsYoung
        /\ StalenessIsBounded
    BY <1>1 DEF Init, UnaskedIsYoung, FetchedIsYoung, FailedIsYoung, StoredIsYoung,
       CacheIsYoung, StalenessIsBounded
  <1> QED BY <1>2, <1>3 DEF StaleInv

LEMMA StaleNext == StaleInv /\ [Next]_vars => StaleInv'
  <1> SUFFICES ASSUME StaleInv, [Next]_vars PROVE StaleInv'
    OBVIOUS
  <1>1. CASE \E w \in Workload : Revoke(w) \/ Restore(w)
    BY <1>1, RevokeStep, RestoreStep
  <1>2. CASE Outage \/ Recover \/ Restart \/ Tick
    BY <1>2, OutageStep, RecoverStep, RestartStep, TickStep
  <1>3. CASE \E t \in Thread, w \in Workload : Call(t, w)
    BY <1>3, RefuseStep, CacheHitStep, StartFetchStep DEF Call
  <1>4. CASE \E t \in Thread : Continue(t)
    BY <1>4, FetchStep, FetchFailsStep, StoreStep, StampStep DEF Continue
  <1>5. CASE UNCHANGED vars
    BY <1>5 DEF vars, StaleInv, TypeOK, UnaskedIsYoung, Answers, FetchedIsYoung, FailedIsYoung,
       StoredIsYoung, CacheIsYoung, StalenessIsBounded, Missed
  <1> QED BY <1>1, <1>2, <1>3, <1>4, <1>5 DEF Next

(* No hop admits a workload that has been revoked, with the api there to   *)
(* be asked, for a reuse time and a fetch, however many threads of the     *)
(* service fetch, fail, store and stamp at the same time (revoked_ids).    *)
THEOREM StalenessBound == Spec => []StalenessIsBounded
  <1>1. StaleInv => StalenessIsBounded
    BY DEF StaleInv
  <1> QED BY <1>1, StaleInit, StaleNext, PTL DEF Spec
=============================================================================
