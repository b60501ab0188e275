------------------------------ MODULE Gateway -------------------------------
(***************************************************************************)
(* The model gateway's limits (app/gateway/limits.py) as its endpoint uses *)
(* them (app/gateway/app.py): a request is counted and tested against the  *)
(* caller's rate and budget, the provider is called, and what it used is   *)
(* charged afterwards. Both backends are here: the counters of one process *)
(* and the ones in the database, which replicas share.                     *)
(*                                                                         *)
(* The clock counts fractions of a second, because the code truncates      *)
(* fractions where it computes Retry-After. Callers are the subjects of    *)
(* verified tokens; a request that is refused before it is counted changes *)
(* nothing and is left out.                                                *)
(***************************************************************************)
EXTENDS Integers, Sequences, FiniteSets, FiniteSetsExt

CONSTANTS
  Caller,        \* the SPIFFE ids that call
  Worker,        \* request threads: of one process, or of all replicas
  RPM, TPD,      \* requests_per_minute, tokens_per_day
  Usage,         \* what a provider may say a call used
  SECOND,        \* clock units in a second
  MINUTE,        \* seconds in a minute
  DAY,           \* minutes in a day
  Durable,       \* whether a database is configured
  MaxClock,      \* bound: the last instant
  MaxRequests,   \* bound: requests to the gateway
  MaxRestarts    \* bound: restarts of the gateway

ASSUME GatewayAssumption ==
  /\ IsFiniteSet(Caller) /\ IsFiniteSet(Worker)
  /\ RPM \in Nat \ {0} /\ TPD \in Nat \ {0}
  /\ Usage \subseteq Nat /\ Usage # {} /\ IsFiniteSet(Usage)
  /\ SECOND \in Nat \ {0} /\ MINUTE \in Nat \ {0} /\ DAY \in Nat \ {0}
  /\ Durable \subseteq BOOLEAN
  /\ MaxClock \in Nat /\ MaxRequests \in Nat /\ MaxRestarts \in Nat

VARIABLES
  clock,       \* time.time()
  durable,     \* limiter_from_env: which backend
  requests,    \* Limiter._requests: the times of a caller's counted requests
  tokens,      \* Limiter._tokens: a caller's day and what was used on it
  llm_rate,    \* llm_rate[c][m]: the row of minute m, 0 when there is none
  llm_daily,   \* llm_daily[c][d]: the row of day d
  worker,      \* worker[w]: where a request of chat stands
  passed,      \* history: when c's requests passed the rate limit, in order: the
               \* ones that did so in the window they came in
  promise,     \* history: when a caller refused for its rate was told to come
               \* back, while it has sent nothing since
  received, restarts

memory == <<requests, tokens>>
rows == <<llm_rate, llm_daily>>
history == <<passed, promise>>
vars == <<clock, durable, requests, tokens, llm_rate, llm_daily, worker,
          passed, promise, received, restarts>>

Time == 0..MaxClock
Window == MINUTE * SECOND                      \* the 60 of the code
MinuteOf(t) == t \div Window
DayOf(t) == t \div (DAY * Window)
Minutes == 0..MinuteOf(MaxClock)
Days == 0..DayOf(MaxClock)
NoPromise == -1

Idle == [at |-> "idle"]
Checking == [at : {"rate", "budget"}, caller : Caller, now : Time]
Calling == [at : {"provider"}, caller : Caller]
Charging == [at : {"charge"}, caller : Caller, used : Usage]
Writing == [at : {"write"}, caller : Caller, used : Usage, day : Days]

TypeOK ==
  /\ clock \in Time
  /\ durable \in BOOLEAN
  /\ requests \in [Caller -> Seq(Time)]
  /\ tokens \in [Caller -> [day : Days, used : Nat]]
  /\ llm_rate \in [Caller -> [Minutes -> Nat]]
  /\ llm_daily \in [Caller -> [Days -> Nat]]
  /\ worker \in [Worker -> {Idle} \cup Checking \cup Calling \cup Charging \cup Writing]
  /\ passed \in [Caller -> Seq(Time)]
  /\ promise \in [Caller -> Nat \cup {NoPromise}]
  /\ received \in 0..MaxRequests
  /\ restarts \in 0..MaxRestarts

Init ==
  /\ clock = 0
  /\ durable \in Durable
  /\ requests = [c \in Caller |-> <<>>]
  /\ tokens = [c \in Caller |-> [day |-> 0, used |-> 0]]
  /\ llm_rate = [c \in Caller |-> [m \in Minutes |-> 0]]
  /\ llm_daily = [c \in Caller |-> [d \in Days |-> 0]]
  /\ worker = [w \in Worker |-> Idle]
  /\ passed = [c \in Caller |-> <<>>]
  /\ promise = [c \in Caller |-> NoPromise]
  /\ received = 0
  /\ restarts = 0

-----------------------------------------------------------------------------
(* What the two limits say.                                                *)

\* `while window and window[0] < now - 60: window.popleft()`.
Pruned(window, now) ==
  LET young == {i \in DOMAIN window : window[i] >= now - Window}
  IN  IF young = {} THEN <<>> ELSE SubSeq(window, Min(young), Len(window))

\* Slip: the refusal's whole seconds are not rounded up.
RetryAfter_Slip(wait) == Max({1, wait \div SECOND})

\* `max(1, int(wait) + 1)`, in seconds.
RetryAfter(wait) == Max({1, wait \div SECOND + 1})

\* Slip: the call that uses the budget up is followed by one more.
OverBudget_Slip(used) == used > TPD

OverBudget(used) == used >= TPD

\* used_today of the in-memory limiter, for the day of t.
UsedOn(c, day) == IF tokens[c].day = day THEN tokens[c].used ELSE 0

\* The answer is 429 for the rate: w is done, and c was told how long to wait
\* (a promise only if the wait was computed in time and c has no other request
\* on its way).
RefuseRate(w, c, inTime, wait) ==
  /\ worker' = [worker EXCEPT ![w] = Idle]
  /\ promise' = [promise EXCEPT ![c] =
       IF inTime /\ \A v \in Worker \ {w} : worker[v] = Idle \/ worker[v].caller # c
         THEN clock + SECOND * RetryAfter(wait) ELSE NoPromise]
  /\ UNCHANGED passed

\* The request passed the rate limit; it goes on to `next`.
Pass(w, c, inTime, next) ==
  /\ worker' = [worker EXCEPT ![w] = next]
  /\ passed' = IF inTime THEN [passed EXCEPT ![c] = Append(@, clock)] ELSE passed
  /\ UNCHANGED promise

-----------------------------------------------------------------------------
(* chat.                                                                   *)

\* The caller is verified and check takes `now`.
Chat(w, c) ==
  /\ worker[w] = Idle
  /\ received < MaxRequests
  /\ received' = received + 1
  /\ worker' = [worker EXCEPT ![w] = [at |-> "rate", caller |-> c, now |-> clock]]
  /\ promise' = [promise EXCEPT ![c] = NoPromise]
  /\ UNCHANGED <<clock, durable, memory, rows, passed, restarts>>

\* Limiter.check, all of it under the lock: a request the budget refuses has
\* been counted.
MemoryCheck(w) ==
  LET r == worker[w]
      c == r.caller
      window == Pruned(requests[c], r.now)
      over == OverBudget(UsedOn(c, DayOf(r.now)))
  IN  /\ ~durable /\ r.at = "rate"
      /\ IF Len(window) >= RPM
           THEN /\ requests' = [requests EXCEPT ![c] = window]
                /\ RefuseRate(w, c, TRUE, Window - (r.now - window[1]))
           ELSE /\ requests' = [requests EXCEPT ![c] = Append(window, r.now)]
                /\ Pass(w, c, r.now = clock,
                        IF over THEN Idle ELSE [at |-> "provider", caller |-> c])
      /\ UNCHANGED <<clock, durable, tokens, rows, received, restarts>>

\* PostgresLimiter.check, its first statement: count and read back in one.
RateCheck(w) ==
  LET r == worker[w]
      c == r.caller
      m == MinuteOf(r.now)
  IN  /\ durable /\ r.at = "rate"
      /\ llm_rate' = [llm_rate EXCEPT ![c][m] = @ + 1]
      /\ IF llm_rate'[c][m] > RPM
           THEN RefuseRate(w, c, MinuteOf(clock) = m, Window - (r.now % Window))
           ELSE Pass(w, c, MinuteOf(clock) = m, [r EXCEPT !.at = "budget"])
      /\ UNCHANGED <<clock, durable, memory, llm_daily, received, restarts>>

\* Its second statement, on another connection.
BudgetCheck(w) ==
  LET r == worker[w]
  IN  /\ durable /\ r.at = "budget"
      /\ worker' = [worker EXCEPT ![w] =
           IF OverBudget(llm_daily[r.caller][DayOf(r.now)])
             THEN Idle ELSE [at |-> "provider", caller |-> r.caller]]
      /\ UNCHANGED <<clock, durable, memory, rows, history, received, restarts>>

\* The provider answers; `used` is what it reports, or the estimate.
ProviderAnswers(w, used) ==
  /\ worker[w].at = "provider"
  /\ worker' = [worker EXCEPT ![w] =
       [at |-> "charge", caller |-> worker[w].caller, used |-> used]]
  /\ UNCHANGED <<clock, durable, memory, rows, history, received, restarts>>

\* A model is not configured, the provider fails, or the database does: the
\* request ends where it stands, with nothing charged.
Fails(w) ==
  /\ \/ worker[w].at = "provider"
     \/ durable /\ worker[w].at \in {"rate", "budget", "write"}
  /\ worker' = [worker EXCEPT ![w] = Idle]
  /\ UNCHANGED <<clock, durable, memory, rows, history, received, restarts>>

\* Limiter.charge, under the lock.
MemoryCharge(w) ==
  LET r == worker[w]
      d == DayOf(clock)
  IN  /\ ~durable /\ r.at = "charge"
      /\ worker' = [worker EXCEPT ![w] = Idle]
      /\ tokens' = IF r.used = 0 THEN tokens ELSE
           [tokens EXCEPT ![r.caller] = [day |-> d, used |-> UsedOn(r.caller, d) + r.used]]
      /\ UNCHANGED <<clock, durable, requests, rows, history, received, restarts>>

\* PostgresLimiter.charge: nothing to charge, or take the day and connect.
TakeDay(w) ==
  LET r == worker[w]
  IN  /\ durable /\ r.at = "charge"
      /\ worker' = [worker EXCEPT ![w] =
           IF r.used = 0 THEN Idle
           ELSE [at |-> "write", caller |-> r.caller, used |-> r.used,
                 day |-> DayOf(clock)]]
      /\ UNCHANGED <<clock, durable, memory, rows, history, received, restarts>>

\* Slip: the minute that is running is cleaned up too.
Stale_Slip(m) == m <= MinuteOf(clock)

\* The rate rows that the clean-up deletes, every caller's.
Stale(m) == m < MinuteOf(clock)

\* One transaction: charge, and clean both tables up.
WriteCharge(w) ==
  LET r == worker[w]
  IN  /\ r.at = "write"
      /\ llm_daily' = [c \in Caller |-> [d \in Days |->
           IF d < r.day - 1 THEN 0
           ELSE IF c = r.caller /\ d = r.day THEN llm_daily[c][d] + r.used
           ELSE llm_daily[c][d]]]
      /\ llm_rate' = [c \in Caller |-> [m \in Minutes |->
           IF Stale(m) THEN 0 ELSE llm_rate[c][m]]]
      /\ worker' = [worker EXCEPT ![w] = Idle]
      /\ UNCHANGED <<clock, durable, memory, history, received, restarts>>

-----------------------------------------------------------------------------
Tick ==
  /\ clock < MaxClock
  /\ clock' = clock + 1
  /\ UNCHANGED <<durable, memory, rows, worker, history, received, restarts>>

\* The gateway stops and starts again. Counters in memory are lost, and with
\* them what the limits promise about earlier requests.
Restart ==
  /\ restarts < MaxRestarts
  /\ restarts' = restarts + 1
  /\ worker' = [w \in Worker |-> Idle]
  /\ IF durable
       THEN UNCHANGED <<memory, passed>>
       ELSE /\ requests' = [c \in Caller |-> <<>>]
            /\ tokens' = [c \in Caller |-> [day |-> 0, used |-> 0]]
            /\ passed' = [c \in Caller |-> <<>>]
  /\ UNCHANGED <<clock, durable, rows, promise, received>>

Next ==
  \/ \E w \in Worker :
       \/ \E c \in Caller : Chat(w, c)
       \/ MemoryCheck(w)
       \/ RateCheck(w)
       \/ BudgetCheck(w)
       \/ \E used \in Usage : ProviderAnswers(w, used)
       \/ Fails(w)
       \/ MemoryCharge(w)
       \/ TakeDay(w)
       \/ WriteCharge(w)
  \/ Tick
  \/ Restart

Spec == Init /\ [][Next]_vars

-----------------------------------------------------------------------------
(* "requests per minute (a burst guard)": of the requests that were        *)
(* counted while their window was open, no more than the limit pass in a   *)
(* window, whatever late requests, charges and clean-ups come between. The *)
(* window is any sixty seconds in memory, and a calendar minute in the     *)
(* database, where it also holds across restarts and replicas.             *)
RateHolds ==
  \A c \in Caller, t \in Time :
    LET window == IF durable THEN {s \in Time : MinuteOf(s) = MinuteOf(t)}
                             ELSE {s \in Time : t - Window <= s /\ s <= t}
    IN  Cardinality({i \in DOMAIN passed[c] : passed[c][i] \in window}) <= RPM

(* "A small over-shoot is possible": the budget is tested before the call  *)
(* and charged after it, so requests in flight together exceed it, but     *)
(* each worker at most once, also over midnight.                           *)
OvershootIsBounded ==
  LET most == TPD - 1 + Cardinality(Worker) * Max(Usage)
  IN  \A c \in Caller : /\ tokens[c].used <= most
                        /\ \A d \in Days : llm_daily[c][d] <= most

(* Retry-After is long enough: a caller that waits as long as it was told  *)
(* to, and sends nothing meanwhile, finds room under its rate limit,       *)
(* however much others send. (With the database, if it was refused in the  *)
(* minute it came in: the wait is counted from then, and a request held up *)
(* past the minute is told when that one ends, not the one it is in.)      *)
RetryAfterIsEnough ==
  \A c \in Caller : promise[c] # NoPromise /\ clock >= promise[c] =>
    IF durable THEN llm_rate[c][MinuteOf(clock)] < RPM
               ELSE Len(Pruned(requests[c], clock)) < RPM
=============================================================================
