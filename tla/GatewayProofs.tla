--------------------------- MODULE GatewayProofs ----------------------------
(***************************************************************************)
(* The gateway's limits hold for any number of callers, workers, requests  *)
(* and restarts, any limits and any length of a minute and a day, with     *)
(* either backend.                                                         *)
(*                                                                         *)
(* None of the three properties is inductive. The budget needs a reserve:  *)
(* every request that may still be charged to a day without another test   *)
(* holds back the largest charge there is. The rate needs that the counter *)
(* has what was let through: in the database all but the last so many      *)
(* passes are of earlier minutes, and in memory the young ones are in the  *)
(* deque, in order, though late requests come between them. Retry-After    *)
(* needs that whoever holds a promise has nothing on its way.              *)
(***************************************************************************)
EXTENDS Gateway, FiniteSetTheorems, WellFoundedInduction, TLAPS

\* Nothing a counter or a request in hand holds is of a time to come.
NotAhead ==
  /\ \A w \in Worker : /\ worker[w].at \in {"rate", "budget"} => worker[w].now <= clock
                       /\ worker[w].at = "write" => worker[w].day <= DayOf(clock)
  /\ \A c \in Caller : tokens[c].day <= DayOf(clock)
  /\ \A c \in Caller : \A m \in Minutes : m > MinuteOf(clock) => llm_rate[c][m] = 0
  /\ \A c \in Caller : \A d \in Days : d > DayOf(clock) => llm_daily[c][d] = 0
  /\ \A c \in Caller : \A i \in DOMAIN passed[c] : passed[c][i] <= clock

\* One backend is in use; the other stays as it was.
OneBackend ==
  /\ durable => \A c \in Caller : tokens[c].used = 0
  /\ ~durable => \A c \in Caller : \A d \in Days : llm_daily[c][d] = 0
  /\ ~durable => \A w \in Worker : worker[w].at \notin {"budget", "write"}

\* The requests of c that may yet be charged to day d though nobody will test
\* c's budget for d again: past the test, or tested for a day before d.
Holds(req, c, d, today) ==
  /\ req.at # "idle" /\ req.caller = c
  /\ \/ req.at = "write" /\ req.day = d
     \/ d >= today /\ req.at \in {"provider", "charge"}
     \/ d >= today /\ req.at \in {"rate", "budget"} /\ DayOf(req.now) < d

Reserve(c, d) == {w \in Worker : Holds(worker[w], c, d, DayOf(clock))}

Spent(c, d) == IF durable THEN llm_daily[c][d] ELSE UsedOn(c, d)

Most == TPD - 1 + Cardinality(Worker) * Max(Usage)

WithinReserve ==
  \A c \in Caller : \A d \in Days :
    Spent(c, d) + Cardinality(Reserve(c, d)) * Max(Usage) <= Most

\* Passes are in order, and RPM later is another window.
PassedInOrder ==
  \A c \in Caller : \A i, j \in DOMAIN passed[c] : i <= j => passed[c][i] <= passed[c][j]

PassedApart ==
  \A c \in Caller : \A i, j \in DOMAIN passed[c] : j = i + RPM =>
    IF durable THEN MinuteOf(passed[c][i]) < MinuteOf(passed[c][j])
               ELSE passed[c][i] + Window < passed[c][j]

\* The row of this minute counts every pass in it: all passes but the last so
\* many are of earlier minutes.
RowHasPassed ==
  durable => \A c \in Caller : \A i \in DOMAIN passed[c] :
    i + llm_rate[c][MinuteOf(clock)] <= Len(passed[c]) =>
      MinuteOf(passed[c][i]) < MinuteOf(clock)

\* f tells where in the deque a pass is: further on for later passes, and off
\* its left end only for those before `from`.
Places(f, times, window, from) ==
  /\ \A i, j \in DOMAIN times : i <= j => j - i <= f[j] - f[i]
  /\ \A i \in DOMAIN times :
       /\ f[i] <= Len(window)
       /\ times[i] >= from => f[i] >= 1 /\ window[f[i]] = times[i]

DequeHasPassed ==
  ~durable => \A c \in Caller : /\ Len(requests[c]) <= RPM
                                /\ \E f \in [DOMAIN passed[c] -> Int] :
                                     Places(f, passed[c], requests[c], clock - Window)

\* Whoever holds a promise has nothing on its way, and its counter has room
\* from the promised time on.
Quiet(c) == \A w \in Worker : worker[w].at = "idle" \/ worker[w].caller # c

HasRoomFrom(c, t) ==
  IF durable THEN \A m \in Minutes : m >= MinuteOf(t) => llm_rate[c][m] = 0
             ELSE Len(requests[c]) < RPM \/ requests[c][1] < t - Window

PromiseIsKept ==
  \A c \in Caller : promise[c] # NoPromise => Quiet(c) /\ HasRoomFrom(c, promise[c])

GatewayInv ==
  /\ TypeOK /\ NotAhead /\ OneBackend
  /\ WithinReserve
  /\ PassedInOrder /\ PassedApart /\ RowHasPassed /\ DequeHasPassed
  /\ PromiseIsKept

USE GatewayAssumption

-----------------------------------------------------------------------------
(* Numbers and sequences.                                                  *)

(* A non-empty set of naturals has a least element.                        *)
LEMMA LeastExists ==
  ASSUME NEW S \in SUBSET Nat, S # {}
  PROVE  \E n \in S : \A m \in S : n <= m
  <1>1. PICK n \in S : \A m \in S : ~ (<<m, n>> \in OpToRel(<, Nat))
    BY NatLessThanWellFounded, WFMin
  <1>2. ASSUME NEW a \in Nat, NEW b \in Nat, a < b
        PROVE  <<a, b>> \in OpToRel(<, Nat)
    <2>1. <<a, b>> \in Nat \X Nat /\ <<a, b>>[1] < <<a, b>>[2]
      BY <1>2
    <2> QED BY <2>1, Zenon DEF OpToRel
  <1>3. \A m \in S : ~ (m < n)
    BY <1>1, <1>2
  <1> QED BY <1>3

LEMMA MinOfNaturals ==
  ASSUME NEW S \in SUBSET Nat, S # {}
  PROVE  Min(S) \in S /\ \A n \in S : Min(S) <= n
  BY LeastExists DEF Min

(* A finite set of naturals has a largest element: a smallest set without  *)
(* one would have one as soon as an element is taken out of it.            *)
LEMMA LargestUsage ==
  /\ Max(Usage) \in Usage /\ Max(Usage) \in Nat
  /\ \A u \in Usage : u <= Max(Usage)
  <1> DEFINE HasLargest(S) == \E x \in S : \A y \in S : x >= y
             Without == {S \in SUBSET Usage : S # {} /\ ~HasLargest(S)}
             Sizes == {Cardinality(S) : S \in Without}
  <1>1. \A S \in SUBSET Usage : IsFiniteSet(S) /\ Cardinality(S) \in Nat
    BY FS_Subset, FS_CardinalityType
  <1>2. SUFFICES ASSUME Without # {} PROVE FALSE
    <2>1. Usage \notin Without
      BY <1>2
    <2>2. HasLargest(Usage)
      BY <2>1
    <2> QED BY <2>2 DEF Max
  <1>3. PICK n \in Sizes : \A m \in Sizes : n <= m
    <2>1. Sizes \subseteq Nat /\ Sizes # {}
      BY <1>1, <1>2
    <2> HIDE DEF Sizes
    <2> QED BY <2>1, LeastExists
  <1>4. PICK S \in Without : Cardinality(S) = n
    BY <1>3
  <1>5. PICK x \in S : TRUE
    BY <1>4
  <1> DEFINE T == S \ {x}
  <1>6. Cardinality(T) < Cardinality(S)
    <2>1. IsFiniteSet(S) /\ Cardinality(S) \in Nat
      BY <1>1, <1>4
    <2>2. Cardinality(T) = Cardinality(S) - 1
      BY <1>5, <2>1, FS_RemoveElement
    <2> QED BY <2>1, <2>2
  <1>7. T \notin Without
    <2>1. SUFFICES ASSUME T \in Without PROVE FALSE
      OBVIOUS
    <2>2. Cardinality(T) \in Sizes
      BY <2>1
    <2>3. Cardinality(T) \in Nat /\ Cardinality(S) \in Nat
      BY <1>1, <1>4
    <2> HIDE DEF T, Sizes
    <2> QED BY <1>3, <1>4, <1>6, <2>2, <2>3
  <1>8. CASE T = {}
    BY <1>4, <1>5, <1>8
  <1>9. CASE T # {}
    <2>1. PICK y \in T : \A z \in T : y >= z
      BY <1>4, <1>7, <1>9
    <2>2. HasLargest(S)
      BY <1>4, <1>5, <2>1
    <2> QED BY <1>4, <2>2
  <1> QED BY <1>8, <1>9

(* Time is divided into minutes and days, in order.                        *)
LEMMA WindowIsPositive == Window \in Nat \ {0} /\ DAY * Window \in Nat \ {0}
  BY DEF Window

LEMMA MinutesInOrder ==
  /\ \A t \in Nat : MinuteOf(t) \in Nat
  /\ \A t \in Time : MinuteOf(t) \in Minutes
  /\ \A s, t \in Nat : s <= t => MinuteOf(s) <= MinuteOf(t)
  <1>1. ASSUME NEW s \in Nat, NEW t \in Nat, s <= t, NEW W \in Nat \ {0}
        PROVE  s \div W \in Nat /\ s \div W <= t \div W
    BY <1>1
  <1>2. \A s, t \in Nat : MinuteOf(s) \in Nat /\ (s <= t => MinuteOf(s) <= MinuteOf(t))
    BY <1>1, WindowIsPositive DEF MinuteOf
  <1> QED BY <1>2 DEF Minutes, Time

LEMMA DaysInOrder ==
  /\ \A t \in Nat : DayOf(t) \in Nat
  /\ \A t \in Time : DayOf(t) \in Days
  /\ \A s, t \in Nat : s <= t => DayOf(s) <= DayOf(t)
  <1>1. ASSUME NEW s \in Nat, NEW t \in Nat, s <= t, NEW W \in Nat \ {0}
        PROVE  s \div W \in Nat /\ s \div W <= t \div W
    BY <1>1
  <1>2. \A s, t \in Nat : DayOf(s) \in Nat /\ (s <= t => DayOf(s) <= DayOf(t))
    BY <1>1, WindowIsPositive DEF DayOf
  <1> QED BY <1>2 DEF Days, Time

(* What popleft leaves: a suffix, and what it drops is old.                *)
LEMMA PrunedIsASuffix ==
  ASSUME NEW s \in Seq(Time), NEW now \in Time
  PROVE  \E p \in 0..Len(s) :
           /\ Pruned(s, now) \in Seq(Time)
           /\ Len(Pruned(s, now)) = Len(s) - p
           /\ \A j \in 1..(Len(s) - p) : Pruned(s, now)[j] = s[j + p]
           /\ \A j \in 1..p : s[j] < now - Window
           /\ p < Len(s) => s[p + 1] >= now - Window
  <1> DEFINE young == {i \in DOMAIN s : s[i] >= now - Window}
  <1>1. Len(s) \in Nat /\ DOMAIN s = 1..Len(s) /\ \A i \in 1..Len(s) : s[i] \in Nat
    BY DEF Time
  <1>2. now - Window \in Int
    BY WindowIsPositive DEF Time
  <1>3. CASE young = {}
    <2>1. Pruned(s, now) = <<>>
      BY <1>3 DEF Pruned
    <2>2. \A j \in 1..Len(s) : s[j] < now - Window
      BY <1>1, <1>2, <1>3
    <2> DEFINE p == Len(s)
    <2>3. p \in 0..Len(s) /\ ~(p < Len(s)) /\ Pruned(s, now) \in Seq(Time)
      BY <1>1, <2>1
    <2>4. Len(Pruned(s, now)) = Len(s) - p /\ 1..(Len(s) - p) = {}
      BY <1>1, <2>1
    <2>5. \A j \in 1..p : s[j] < now - Window
      BY <2>2
    <2> HIDE DEF p
    <2> QED BY <2>3, <2>4, <2>5
  <1>4. CASE young # {}
    <2>1. Min(young) \in young /\ \A i \in young : Min(young) <= i
      <3>1. young \subseteq Nat
        BY <1>1
      <3> HIDE DEF young
      <3> QED BY <1>4, <3>1, MinOfNaturals
    <2> DEFINE q == Min(young)
    <2>2. q \in 1..Len(s) /\ s[q] >= now - Window
      BY <1>1, <2>1
    <2>3. \A j \in 1..(q - 1) : s[j] < now - Window
      <3>1. SUFFICES ASSUME NEW j \in 1..(q - 1), ~(s[j] < now - Window) PROVE FALSE
        OBVIOUS
      <3>2. j \in 1..Len(s) /\ j < q
        BY <1>1, <2>2
      <3>3. j \in young
        BY <1>1, <1>2, <3>1, <3>2
      <3>4. q <= j
        BY <2>1, <3>3
      <3> HIDE DEF q, young
      <3> QED BY <1>1, <2>2, <3>2, <3>4
    <2>4. Pruned(s, now) = SubSeq(s, q, Len(s))
      BY <1>4 DEF Pruned
    <2> HIDE DEF q, young
    <2>5. /\ SubSeq(s, q, Len(s)) \in Seq(Time)
          /\ Len(SubSeq(s, q, Len(s))) = Len(s) - (q - 1)
          /\ \A j \in 1..(Len(s) - (q - 1)) : SubSeq(s, q, Len(s))[j] = s[j + (q - 1)]
      BY <1>1, <2>2
    <2>6. q - 1 \in 0..Len(s) /\ (q - 1) + 1 = q
      BY <1>1, <2>2
    <2> QED BY <1>1, <2>2, <2>3, <2>4, <2>5, <2>6
  <1> QED BY <1>3, <1>4

-----------------------------------------------------------------------------
(* The types.                                                              *)

\* Where a request stands is one of five kinds of record.
LEMMA WorkerKinds ==
  ASSUME NEW x \in {Idle} \cup Checking \cup Calling \cup Charging \cup Writing
  PROVE  /\ x.at \in {"idle", "rate", "budget", "provider", "charge", "write"}
         /\ x.at = "idle" <=> x = Idle
         /\ x.at # "idle" => x.caller \in Caller
         /\ x.at \in {"rate", "budget"} => x \in Checking /\ x.now \in Time
         /\ x.at = "provider" => x \in Calling
         /\ x.at = "charge" => x \in Charging /\ x.used \in Usage
         /\ x.at = "write" => x \in Writing /\ x.used \in Usage /\ x.day \in Days
  BY DEF Idle, Checking, Calling, Charging, Writing

LEMMA RetryAfterFacts ==
  ASSUME NEW wait \in Int
  PROVE  /\ SECOND * RetryAfter(wait) \in Nat
         /\ SECOND * RetryAfter(wait) > wait
  <1> DEFINE n == wait \div SECOND + 1
  <1>1. n \in Int /\ SECOND * n > wait
    OBVIOUS
  <1>2. Max({1, n}) \in {1, n} /\ Max({1, n}) >= n /\ Max({1, n}) >= 1
    <2>1. \E x \in {1, n} : \A y \in {1, n} : x >= y
      BY <1>1
    <2> HIDE DEF n
    <2> QED BY <1>1, <2>1 DEF Max
  <1>3. Max({1, n}) \in Nat
    BY <1>1, <1>2
  <1>4. \A a, b \in Int : a >= b => SECOND * a >= SECOND * b
    OBVIOUS
  <1>5. RetryAfter(wait) = Max({1, n})
    BY DEF RetryAfter
  <1> HIDE DEF n
  <1>6. SECOND * RetryAfter(wait) \in Nat
    BY <1>3, <1>5
  <1>7. SECOND * RetryAfter(wait) >= SECOND * n /\ SECOND * n \in Int
    BY <1>1, <1>2, <1>3, <1>4, <1>5
  <1> QED BY <1>1, <1>6, <1>7

LEMMA PassTypes ==
  ASSUME TypeOK, NEW w \in Worker, NEW c \in Caller, NEW inTime, NEW next,
         Pass(w, c, inTime, next)
  PROVE  passed' \in [Caller -> Seq(Time)] /\ promise' = promise
  <1>1. Append(passed[c], clock) \in Seq(Time)
    BY DEF TypeOK
  <1>2. CASE inTime
    <2>1. passed' = [passed EXCEPT ![c] = Append(passed[c], clock)]
      BY <1>2 DEF Pass
    <2> QED BY <1>1, <2>1 DEF Pass, TypeOK
  <1>3. CASE ~inTime
    BY <1>3 DEF Pass, TypeOK
  <1> QED BY <1>2, <1>3

(* What a request in hand has is within the types, in every step.          *)
LEMMA TypesAreKept == TypeOK /\ [Next]_vars => TypeOK'
  <1> SUFFICES ASSUME TypeOK, [Next]_vars PROVE TypeOK'
    OBVIOUS
  <1> DEFINE Where == {Idle} \cup Checking \cup Calling \cup Charging \cup Writing
  <1>0. /\ clock \in Time /\ clock \in Nat
        /\ \A w \in Worker : worker[w] \in Where
        /\ Idle \in Where
    BY DEF TypeOK, Time
  <1>1. ASSUME NEW w \in Worker, NEW c \in Caller, Chat(w, c) PROVE TypeOK'
    <2>1. [at |-> "rate", caller |-> c, now |-> clock] \in Where
      BY <1>0 DEF Checking
    <2>2. worker' \in [Worker -> Where]
      BY <1>1, <2>1 DEF Chat, TypeOK
    <2>3. promise' \in [Caller -> Nat \cup {NoPromise}] /\ received' \in 0..MaxRequests
      BY <1>1 DEF Chat, TypeOK
    <2> QED BY <1>1, <2>2, <2>3 DEF Chat, TypeOK, memory, rows
  <1>2. ASSUME NEW w \in Worker, MemoryCheck(w) PROVE TypeOK'
    <2> DEFINE r == worker[w]
               c == r.caller
               window == Pruned(requests[c], r.now)
    <2>1. r.at = "rate" /\ c \in Caller /\ r.now \in Time
      BY <1>0, <1>2, WorkerKinds DEF MemoryCheck
    <2>2. requests[c] \in Seq(Time)
      BY <2>1 DEF TypeOK
    <2>3. window \in Seq(Time)
      BY <2>1, <2>2, PrunedIsASuffix
    <2>4. [at |-> "provider", caller |-> c] \in Where
      BY <2>1 DEF Calling
    <2>5. CASE Len(window) >= RPM
      <3>1. window[1] \in Time /\ Window - (r.now - window[1]) \in Int
        BY <2>1, <2>3, <2>5, WindowIsPositive DEF Time
      <3>2. clock + SECOND * RetryAfter(Window - (r.now - window[1])) \in Nat
        BY <1>0, <3>1, RetryAfterFacts
      <3>3. /\ requests' = [requests EXCEPT ![c] = window]
            /\ RefuseRate(w, c, TRUE, Window - (r.now - window[1]))
        BY <1>2, <2>5 DEF MemoryCheck
      <3>4. requests' \in [Caller -> Seq(Time)]
        BY <2>1, <2>3, <3>3 DEF TypeOK
      <3>5. worker' \in [Worker -> Where]
        BY <1>0, <3>3 DEF RefuseRate, TypeOK
      <3>6. promise' \in [Caller -> Nat \cup {NoPromise}] /\ passed' = passed
        BY <2>1, <3>2, <3>3 DEF RefuseRate, TypeOK
      <3> QED BY <1>2, <3>4, <3>5, <3>6 DEF MemoryCheck, TypeOK, rows
    <2>6. CASE ~(Len(window) >= RPM)
      <3> DEFINE over == OverBudget(UsedOn(c, DayOf(r.now)))
                 next == IF over THEN Idle ELSE [at |-> "provider", caller |-> c]
      <3>1. /\ requests' = [requests EXCEPT ![c] = Append(window, r.now)]
            /\ Pass(w, c, r.now = clock, next)
        BY <1>2, <2>6 DEF MemoryCheck
      <3>2. requests' \in [Caller -> Seq(Time)]
        BY <2>1, <2>3, <3>1 DEF TypeOK
      <3>3. next \in Where
        BY <1>0, <2>4
      <3>4. worker' \in [Worker -> Where]
        BY <3>1, <3>3 DEF Pass, TypeOK
      <3>5. passed' \in [Caller -> Seq(Time)] /\ promise' = promise
        BY <2>1, <3>1, PassTypes
      <3> QED BY <1>2, <3>2, <3>4, <3>5 DEF MemoryCheck, TypeOK, rows
    <2> QED BY <2>5, <2>6
  <1>3. ASSUME NEW w \in Worker, RateCheck(w) PROVE TypeOK'
    <2> DEFINE r == worker[w]
               c == r.caller
               m == MinuteOf(r.now)
    <2>1. r.at = "rate" /\ r \in Checking /\ c \in Caller /\ r.now \in Time
      BY <1>0, <1>3, WorkerKinds DEF RateCheck
    <2>2. m \in Minutes
      BY <2>1, MinutesInOrder
    <2>3. llm_rate' \in [Caller -> [Minutes -> Nat]]
      <3>1. llm_rate[c] \in [Minutes -> Nat] /\ llm_rate \in [Caller -> [Minutes -> Nat]]
        BY <2>1 DEF TypeOK
      <3>2. [llm_rate[c] EXCEPT ![m] = @ + 1] \in [Minutes -> Nat]
        BY <2>2, <3>1
      <3>3. llm_rate' = [llm_rate EXCEPT ![c] = [llm_rate[c] EXCEPT ![m] = @ + 1]]
        BY <1>3, <2>1, <3>1 DEF RateCheck
      <3> QED BY <3>1, <3>2, <3>3
    <2>4. CASE llm_rate'[c][m] > RPM
      <3>1. Window - (r.now % Window) \in Int
        BY <2>1, WindowIsPositive DEF Time
      <3>2. clock + SECOND * RetryAfter(Window - (r.now % Window)) \in Nat
        BY <1>0, <3>1, RetryAfterFacts
      <3>3. RefuseRate(w, c, MinuteOf(clock) = m, Window - (r.now % Window))
        BY <1>3, <2>4 DEF RateCheck
      <3>4. worker' \in [Worker -> Where]
        BY <1>0, <3>3 DEF RefuseRate, TypeOK
      <3>5. promise' \in [Caller -> Nat \cup {NoPromise}] /\ passed' = passed
        BY <2>1, <3>2, <3>3 DEF RefuseRate, TypeOK
      <3> QED BY <1>3, <2>3, <3>4, <3>5 DEF RateCheck, TypeOK, memory
    <2>5. CASE ~(llm_rate'[c][m] > RPM)
      <3>1. Pass(w, c, MinuteOf(clock) = m, [r EXCEPT !.at = "budget"])
        BY <1>3, <2>5 DEF RateCheck
      <3>2. [r EXCEPT !.at = "budget"] \in Where
        BY <2>1 DEF Checking
      <3>3. worker' \in [Worker -> Where]
        BY <3>1, <3>2 DEF Pass, TypeOK
      <3>4. passed' \in [Caller -> Seq(Time)] /\ promise' = promise
        BY <2>1, <3>1, PassTypes
      <3> QED BY <1>3, <2>3, <3>3, <3>4 DEF RateCheck, TypeOK, memory
    <2> QED BY <2>4, <2>5
  <1>4. ASSUME NEW w \in Worker, BudgetCheck(w) PROVE TypeOK'
    <2>1. worker[w].caller \in Caller
      BY <1>0, <1>4, WorkerKinds DEF BudgetCheck
    <2>2. [at |-> "provider", caller |-> worker[w].caller] \in Where
      BY <2>1 DEF Calling
    <2>3. worker' \in [Worker -> Where]
      BY <1>0, <1>4, <2>2 DEF BudgetCheck, TypeOK
    <2> QED BY <1>4, <2>3 DEF BudgetCheck, TypeOK, memory, rows, history
  <1>5. ASSUME NEW w \in Worker, NEW used \in Usage, ProviderAnswers(w, used) PROVE TypeOK'
    <2>1. worker[w].caller \in Caller
      BY <1>0, <1>5, WorkerKinds DEF ProviderAnswers
    <2>2. [at |-> "charge", caller |-> worker[w].caller, used |-> used] \in Where
      BY <2>1 DEF Charging
    <2>3. worker' \in [Worker -> Where]
      BY <1>5, <2>2 DEF ProviderAnswers, TypeOK
    <2> QED BY <1>5, <2>3 DEF ProviderAnswers, TypeOK, memory, rows, history
  <1>6. ASSUME NEW w \in Worker, Fails(w) PROVE TypeOK'
    <2>1. worker' \in [Worker -> Where]
      BY <1>0, <1>6 DEF Fails, TypeOK
    <2> QED BY <1>6, <2>1 DEF Fails, TypeOK, memory, rows, history
  <1>7. ASSUME NEW w \in Worker, MemoryCharge(w) PROVE TypeOK'
    <2> DEFINE r == worker[w]
    <2>1. r.caller \in Caller /\ r.used \in Nat /\ DayOf(clock) \in Days
      BY <1>0, <1>7, WorkerKinds, DaysInOrder DEF MemoryCharge
    <2>2. UsedOn(r.caller, DayOf(clock)) + r.used \in Nat
      BY <2>1 DEF UsedOn, TypeOK
    <2>3. tokens' \in [Caller -> [day : Days, used : Nat]]
      BY <1>7, <2>1, <2>2 DEF MemoryCharge, TypeOK
    <2>4. worker' \in [Worker -> Where]
      BY <1>0, <1>7 DEF MemoryCharge, TypeOK
    <2> QED BY <1>7, <2>3, <2>4 DEF MemoryCharge, TypeOK, rows, history
  <1>8. ASSUME NEW w \in Worker, TakeDay(w) PROVE TypeOK'
    <2> DEFINE r == worker[w]
    <2>1. r.caller \in Caller /\ r.used \in Usage /\ DayOf(clock) \in Days
      BY <1>0, <1>8, WorkerKinds, DaysInOrder DEF TakeDay
    <2>2. [at |-> "write", caller |-> r.caller, used |-> r.used, day |-> DayOf(clock)] \in Where
      BY <2>1 DEF Writing
    <2>3. worker' \in [Worker -> Where]
      BY <1>0, <1>8, <2>2 DEF TakeDay, TypeOK
    <2> QED BY <1>8, <2>3 DEF TakeDay, TypeOK, memory, rows, history
  <1>9. ASSUME NEW w \in Worker, WriteCharge(w) PROVE TypeOK'
    <2>1. worker[w].used \in Nat
      BY <1>0, <1>9, WorkerKinds DEF WriteCharge
    <2>2. llm_daily' \in [Caller -> [Days -> Nat]] /\ llm_rate' \in [Caller -> [Minutes -> Nat]]
      BY <1>9, <2>1, SMTT(30) DEF WriteCharge, TypeOK
    <2>3. worker' \in [Worker -> Where]
      BY <1>0, <1>9 DEF WriteCharge, TypeOK
    <2> QED BY <1>9, <2>2, <2>3 DEF WriteCharge, TypeOK, memory, history
  <1>10. CASE Tick
    BY <1>10 DEF Tick, TypeOK, Time, memory, rows, history
  <1>11. CASE Restart
    <2>1. /\ worker' \in [Worker -> Where]
          /\ restarts' \in 0..MaxRestarts
      BY <1>0, <1>11 DEF Restart, TypeOK
    <2>2. 0 \in Days
      BY DaysInOrder DEF Days, Time
    <2>3. /\ requests' \in [Caller -> Seq(Time)]
          /\ tokens' \in [Caller -> [day : Days, used : Nat]]
          /\ passed' \in [Caller -> Seq(Time)]
      <3>1. <<>> \in Seq(Time)
        OBVIOUS
      <3>2. [c \in Caller |-> <<>>] \in [Caller -> Seq(Time)]
        BY <3>1
      <3>3. [c \in Caller |-> [day |-> 0, used |-> 0]] \in [Caller -> [day : Days, used : Nat]]
        BY <2>2
      <3>4. CASE durable
        BY <1>11, <3>4 DEF Restart, TypeOK, memory
      <3>5. CASE ~durable
        BY <1>11, <3>2, <3>3, <3>5 DEF Restart
      <3> QED BY <3>4, <3>5
    <2> QED BY <1>11, <2>1, <2>3 DEF Restart, TypeOK, rows
  <1>12. CASE UNCHANGED vars
    BY <1>12 DEF vars, TypeOK
  <1> QED BY <1>1, <1>2, <1>3, <1>4, <1>5, <1>6, <1>7, <1>8, <1>9, <1>10, <1>11, <1>12 DEF Next

-----------------------------------------------------------------------------
(* Nothing is ahead of the clock, and one backend is in use.               *)

\* What a request in hand is, from the types.
LEMMA InHand ==
  ASSUME TypeOK, NEW w \in Worker
  PROVE  /\ worker[w].at \in {"idle", "rate", "budget", "provider", "charge", "write"}
         /\ worker[w].at = "idle" <=> worker[w] = Idle
         /\ worker[w].at # "idle" => worker[w].caller \in Caller
         /\ worker[w].at \in {"rate", "budget"} =>
              worker[w] \in Checking /\ worker[w].now \in Time /\ worker[w].now \in Nat
         /\ worker[w].at \in {"charge", "write"} => worker[w].used \in Usage
         /\ worker[w].at = "write" => worker[w].day \in Days
  BY WorkerKinds DEF TypeOK, Time

LEMMA ClockFacts ==
  ASSUME TypeOK
  PROVE  /\ clock \in Time /\ clock \in Nat
         /\ MinuteOf(clock) \in Minutes /\ MinuteOf(clock) \in Nat
         /\ DayOf(clock) \in Days /\ DayOf(clock) \in Nat
         /\ Minutes \subseteq Nat /\ Days \subseteq Nat
  BY MinutesInOrder, DaysInOrder DEF TypeOK, Time, Minutes, Days

LEMMA NotAheadIsKept == TypeOK /\ TypeOK' /\ NotAhead /\ [Next]_vars => NotAhead'
  <1> SUFFICES ASSUME TypeOK, TypeOK', NotAhead, [Next]_vars PROVE NotAhead'
    OBVIOUS
  <1>0. /\ clock \in Nat /\ clock \in Time /\ MinuteOf(clock) \in Nat /\ DayOf(clock) \in Nat
        /\ DayOf(clock) \in Days
        /\ \A w \in Worker : worker[w].at = "idle" <=> worker[w] = Idle
        /\ Idle.at = "idle"
    BY ClockFacts, InHand DEF Idle
  <1> DEFINE Timely(x) == /\ x.at \in {"rate", "budget"} => x.now <= clock
                          /\ x.at = "write" => x.day <= DayOf(clock)
  <1>t. /\ Timely(Idle)
        /\ \A w \in Worker : Timely(worker[w])
    BY <1>0 DEF NotAhead
  \* A step that moves one request on, and leaves the counters alone.
  <1>w. ASSUME NEW w \in Worker, NEW x, worker' = [worker EXCEPT ![w] = x], Timely(x)
        PROVE  clock' = clock => \A v \in Worker : Timely(worker[v])'
    BY <1>t, <1>w DEF TypeOK
  <1>1. ASSUME NEW w \in Worker, NEW c \in Caller, Chat(w, c) PROVE NotAhead'
    <2>1. Timely([at |-> "rate", caller |-> c, now |-> clock])
      BY <1>0
    <2>2. \A v \in Worker : Timely(worker[v])'
      BY <1>1, <1>w, <2>1 DEF Chat
    <2> QED BY <1>1, <2>2 DEF Chat, NotAhead, memory, rows
  <1>2. ASSUME NEW w \in Worker, NEW c \in Caller, NEW inTime, NEW next,
               Pass(w, c, inTime, next), clock' = clock
        PROVE  \A b \in Caller : \A i \in DOMAIN passed'[b] : passed'[b][i] <= clock'
    <2>1. CASE inTime
      <3>1. passed' = [passed EXCEPT ![c] = Append(passed[c], clock)]
        BY <1>2, <2>1 DEF Pass
      <3>2. passed \in [Caller -> Seq(Time)] /\ passed[c] \in Seq(Time)
        BY DEF TypeOK
      <3>3. \A i \in DOMAIN Append(passed[c], clock) : Append(passed[c], clock)[i] <= clock
        BY <1>0, <3>2 DEF NotAhead
      <3> QED BY <1>2, <3>1, <3>2, <3>3 DEF NotAhead
    <2>2. CASE ~inTime
      BY <1>2, <2>2 DEF Pass, NotAhead
    <2> QED BY <2>1, <2>2
  <1>3. ASSUME NEW w \in Worker, MemoryCheck(w) PROVE NotAhead'
    <2> DEFINE c == worker[w].caller
    <2>1. c \in Caller
      BY <1>3, InHand DEF MemoryCheck
    <2>2. Timely([at |-> "provider", caller |-> c])
      OBVIOUS
    <2>3. \A v \in Worker : Timely(worker[v])'
      BY <1>3, <1>t, <1>w, <2>2 DEF MemoryCheck, RefuseRate, Pass
    <2>4. \A b \in Caller : \A i \in DOMAIN passed'[b] : passed'[b][i] <= clock'
      BY <1>2, <1>3, <2>1 DEF MemoryCheck, RefuseRate, NotAhead
    <2> QED BY <1>3, <2>3, <2>4 DEF MemoryCheck, NotAhead, rows
  <1>4. ASSUME NEW w \in Worker, RateCheck(w) PROVE NotAhead'
    <2> DEFINE r == worker[w]
               c == r.caller
               m == MinuteOf(r.now)
    <2>1. c \in Caller /\ r \in Checking /\ r.now \in Time /\ r.now \in Nat /\ r.now <= clock
      BY <1>4, <1>t, InHand DEF RateCheck
    <2>2. m \in Minutes /\ m <= MinuteOf(clock)
      BY <1>0, <2>1, MinutesInOrder
    <2>3. Timely([r EXCEPT !.at = "budget"])
      BY <2>1 DEF Checking
    <2>4. \A v \in Worker : Timely(worker[v])'
      BY <1>4, <1>t, <1>w, <2>3 DEF RateCheck, RefuseRate, Pass
    <2>5. \A b \in Caller : \A i \in DOMAIN passed'[b] : passed'[b][i] <= clock'
      BY <1>2, <1>4, <2>1 DEF RateCheck, RefuseRate, NotAhead
    <2>6. \A b \in Caller : \A k \in Minutes : k # m => llm_rate'[b][k] = llm_rate[b][k]
      BY <1>4, <2>1, <2>2 DEF RateCheck, TypeOK
    <2>7. \A b \in Caller : \A k \in Minutes : k > MinuteOf(clock) => llm_rate'[b][k] = 0
      BY <1>0, <2>2, <2>6, ClockFacts DEF NotAhead
    <2> QED BY <1>4, <2>4, <2>5, <2>7 DEF RateCheck, NotAhead, memory
  <1>5. ASSUME NEW w \in Worker, NEW x, worker' = [worker EXCEPT ![w] = x], Timely(x),
               UNCHANGED <<clock, tokens, rows, passed>>
        PROVE  NotAhead'
    BY <1>5, <1>w DEF NotAhead, rows
  <1>6. ASSUME NEW w \in Worker,
               \/ BudgetCheck(w) \/ Fails(w)
               \/ \E used \in Usage : ProviderAnswers(w, used)
        PROVE  NotAhead'
    BY <1>5, <1>6, <1>t DEF BudgetCheck, Fails, ProviderAnswers, memory, history
  <1>7. ASSUME NEW w \in Worker, TakeDay(w) PROVE NotAhead'
    <2> DEFINE r == worker[w]
               x == IF r.used = 0 THEN Idle
                    ELSE [at |-> "write", caller |-> r.caller, used |-> r.used,
                          day |-> DayOf(clock)]
    <2>1. Timely(x)
      BY <1>0, <1>t
    <2>2. worker' = [worker EXCEPT ![w] = x] /\ UNCHANGED <<clock, tokens, rows, passed>>
      BY <1>7 DEF TakeDay, memory, history
    <2> QED BY <1>5, <2>1, <2>2
  <1>8. ASSUME NEW w \in Worker, MemoryCharge(w) PROVE NotAhead'
    <2>1. \A v \in Worker : Timely(worker[v])'
      BY <1>8, <1>t, <1>w DEF MemoryCharge
    <2>2. \A c \in Caller : tokens'[c].day <= DayOf(clock)
      BY <1>0, <1>8 DEF MemoryCharge, NotAhead, TypeOK
    <2> QED BY <1>8, <2>1, <2>2 DEF MemoryCharge, NotAhead, rows, history
  <1>9. ASSUME NEW w \in Worker, WriteCharge(w) PROVE NotAhead'
    <2>1. \A v \in Worker : Timely(worker[v])'
      BY <1>9, <1>t, <1>w DEF WriteCharge
    <2>2. worker[w].day \in Nat /\ worker[w].day <= DayOf(clock)
      BY <1>9, <1>t, InHand, ClockFacts DEF WriteCharge
    <2>3. \A c \in Caller : \A d \in Days : d > DayOf(clock) => llm_daily'[c][d] = 0
      BY <1>0, <1>9, <2>2, ClockFacts DEF WriteCharge, NotAhead
    <2>4. \A c \in Caller : \A m \in Minutes : m > MinuteOf(clock) => llm_rate'[c][m] = 0
      BY <1>9 DEF WriteCharge, NotAhead
    <2> QED BY <1>9, <2>1, <2>3, <2>4 DEF WriteCharge, NotAhead, memory, history
  <1>10. CASE Tick
    <2>1. /\ clock' \in Nat /\ clock <= clock'
          /\ MinuteOf(clock') \in Nat /\ MinuteOf(clock) <= MinuteOf(clock')
          /\ DayOf(clock') \in Nat /\ DayOf(clock) <= DayOf(clock')
      <3>1. clock' \in Nat /\ clock <= clock'
        BY <1>0, <1>10 DEF Tick
      <3> QED BY <1>0, <3>1, MinutesInOrder, DaysInOrder
    <2>2. \A v \in Worker : Timely(worker[v])'
      BY <1>0, <1>10, <1>t, <2>1, InHand, ClockFacts DEF Tick
    <2>3. \A c \in Caller : tokens[c].day \in Nat
      BY ClockFacts DEF TypeOK
    <2>4. \A c \in Caller : \A i \in DOMAIN passed[c] : passed[c][i] \in Nat
      BY SMTT(30) DEF TypeOK, Time
    <2>5. \A c \in Caller : \A i \in DOMAIN passed[c] : passed[c][i] <= clock'
      BY <1>0, <2>1, <2>4 DEF NotAhead
    <2> QED BY <1>0, <1>10, <2>1, <2>2, <2>3, <2>5, ClockFacts
            DEF Tick, NotAhead, memory, rows, history
  <1>11. CASE Restart
    <2>1. \A v \in Worker : Timely(worker[v])'
      BY <1>11, <1>t DEF Restart
    <2>2. \A c \in Caller : tokens'[c].day <= DayOf(clock)
      BY <1>0, <1>11 DEF Restart, NotAhead, memory
    <2>3. \A c \in Caller : \A i \in DOMAIN passed'[c] : passed'[c][i] <= clock
      BY <1>11 DEF Restart, NotAhead
    <2> QED BY <1>11, <2>1, <2>2, <2>3 DEF Restart, NotAhead, rows
  <1>12. CASE UNCHANGED vars
    BY <1>12 DEF vars, NotAhead
  <1> QED BY <1>1, <1>3, <1>4, <1>6, <1>7, <1>8, <1>9, <1>10, <1>11, <1>12 DEF Next

LEMMA OneBackendIsKept == TypeOK /\ OneBackend /\ [Next]_vars => OneBackend'
  <1> SUFFICES ASSUME TypeOK, OneBackend, [Next]_vars PROVE OneBackend'
    OBVIOUS
  <1>0. durable' = durable
    BY DEF Next, vars, Chat, MemoryCheck, RateCheck, BudgetCheck, ProviderAnswers, Fails,
           MemoryCharge, TakeDay, WriteCharge, Tick, Restart
  <1>1. CASE durable
    <2>1. \A c \in Caller : tokens[c].used = 0
      BY <1>1 DEF OneBackend
    <2>2. UNCHANGED tokens
      BY <1>1 DEF Next, vars, memory, Chat, MemoryCheck, RateCheck, BudgetCheck, ProviderAnswers,
             Fails, MemoryCharge, TakeDay, WriteCharge, Tick, Restart
    <2> QED BY <1>0, <1>1, <2>1, <2>2 DEF OneBackend
  <1>2. CASE ~durable
    <2>1. UNCHANGED llm_daily
      BY <1>2 DEF Next, vars, rows, Chat, MemoryCheck, RateCheck, BudgetCheck, ProviderAnswers,
             Fails, MemoryCharge, TakeDay, WriteCharge, Tick, Restart, OneBackend
    <2>2. \A v \in Worker : worker'[v].at \notin {"budget", "write"}
      <3>1. \A v \in Worker : worker[v].at \notin {"budget", "write"}
        BY <1>2 DEF OneBackend
      <3>2. ASSUME NEW w \in Worker, NEW x, worker' = [worker EXCEPT ![w] = x],
                   x.at \notin {"budget", "write"}
            PROVE  \A v \in Worker : worker'[v].at \notin {"budget", "write"}
        BY <3>1, <3>2 DEF TypeOK
      <3>3. ASSUME NEW w \in Worker, NEW c \in Caller, Chat(w, c)
            PROVE  \A v \in Worker : worker'[v].at \notin {"budget", "write"}
        BY <3>2, <3>3 DEF Chat
      <3>4. ASSUME NEW w \in Worker, MemoryCheck(w) \/ Fails(w) \/ MemoryCharge(w)
            PROVE  \A v \in Worker : worker'[v].at \notin {"budget", "write"}
        BY <3>2, <3>4 DEF MemoryCheck, RefuseRate, Pass, Fails, MemoryCharge, Idle
      <3>5. ASSUME NEW w \in Worker, NEW used \in Usage, ProviderAnswers(w, used)
            PROVE  \A v \in Worker : worker'[v].at \notin {"budget", "write"}
        BY <3>2, <3>5 DEF ProviderAnswers
      <3>6. CASE Restart
        BY <3>6 DEF Restart, Idle
      <3> QED BY <1>2, <3>1, <3>3, <3>4, <3>5, <3>6
              DEF Next, vars, Tick, RateCheck, BudgetCheck, TakeDay, WriteCharge
    <2> QED BY <1>0, <1>2, <2>1, <2>2 DEF OneBackend
  <1> QED BY <1>1, <1>2

-----------------------------------------------------------------------------
(* The budget.                                                             *)

LEMMA Multiples ==
  ASSUME NEW a \in Nat, NEW b \in Nat, NEW m \in Nat
  PROVE  /\ a * m \in Nat
         /\ a <= b => a * m <= b * m
         /\ a + 1 <= b => a * m + m <= b * m
  OBVIOUS

(* The three ways in which a step respects the reserve: it spends nothing  *)
(* and reserves nothing more; the budget is not used up; or a request      *)
(* spends what it held back.                                               *)
LEMMA ReserveStep ==
  ASSUME TypeOK, WithinReserve, NEW c \in Caller, NEW d \in Days,
         NEW spent \in Nat, NEW S \in SUBSET Worker,
         \/ spent <= Spent(c, d) /\ S \subseteq Reserve(c, d)
         \/ spent <= TPD - 1
         \/ \E w \in Reserve(c, d), u \in Usage :
              spent <= Spent(c, d) + u /\ S \subseteq Reserve(c, d) \ {w}
  PROVE  spent + Cardinality(S) * Max(Usage) <= Most
  <1> DEFINE R == Reserve(c, d)
             M == Max(Usage)
             n == Cardinality(S)
  <1>1. M \in Nat /\ \A u \in Usage : u <= M
    BY LargestUsage
  <1>2. /\ IsFiniteSet(S) /\ n \in Nat /\ n <= Cardinality(Worker)
        /\ Cardinality(Worker) \in Nat
        /\ IsFiniteSet(R) /\ Cardinality(R) \in Nat
    BY FS_Subset, FS_CardinalityType DEF Reserve
  <1>3. Spent(c, d) \in Nat
    BY DEF Spent, UsedOn, TypeOK
  <1>4. Spent(c, d) + Cardinality(R) * M <= Most
    BY DEF WithinReserve
  <1> HIDE DEF R, M, n
  <1>6. CASE spent <= Spent(c, d) /\ S \subseteq R
    <2>1. n <= Cardinality(R)
      BY <1>2, <1>6, FS_Subset DEF n
    <2>2. n * M <= Cardinality(R) * M /\ n * M \in Nat /\ Cardinality(R) * M \in Nat
      BY <1>1, <1>2, <2>1, Multiples
    <2>3. Most \in Int
      BY <1>1, <1>2, Multiples DEF Most, M
    <2>4. spent + n * M <= Most
      BY <1>3, <1>4, <1>6, <2>2, <2>3
    <2> QED BY <2>4 DEF n, M
  <1>7. CASE spent <= TPD - 1
    <2>1. n * M <= Cardinality(Worker) * M /\ n * M \in Nat /\ Cardinality(Worker) * M \in Nat
      BY <1>1, <1>2, Multiples
    <2>2. spent + n * M <= Most
      BY <1>7, <2>1 DEF Most, M
    <2> QED BY <2>2 DEF n, M
  <1>8. ASSUME NEW w \in R, NEW u \in Usage, spent <= Spent(c, d) + u, S \subseteq R \ {w}
        PROVE  spent + Cardinality(S) * Max(Usage) <= Most
    <2>1. IsFiniteSet(R \ {w}) /\ Cardinality(R \ {w}) = Cardinality(R) - 1
      BY <1>2, <1>8, FS_RemoveElement
    <2>2. n <= Cardinality(R \ {w})
      BY <1>8, <2>1, FS_Subset DEF n
    <2>3. n + 1 <= Cardinality(R)
      BY <1>2, <2>1, <2>2
    <2>4. n * M + M <= Cardinality(R) * M /\ n * M \in Nat /\ Cardinality(R) * M \in Nat
      BY <1>1, <1>2, <2>3, Multiples
    <2>5. Most \in Int
      BY <1>1, <1>2, Multiples DEF Most, M
    <2>6. u \in Nat /\ u <= M
      BY <1>1
    <2>7. spent + n * M <= Most
      BY <1>1, <1>3, <1>4, <1>8, <2>4, <2>5, <2>6
    <2> QED BY <2>7 DEF n, M
  <1> QED BY <1>6, <1>7, <1>8 DEF R

(* A request that may pass the test of its day has its charge reserved for *)
(* any later day, and on that day the budget is not used up.               *)
LEMMA PassedTheTest ==
  ASSUME TypeOK, NotAhead, NEW w \in Worker, worker[w].at \in {"rate", "budget"},
         ~OverBudget(Spent(worker[w].caller, DayOf(worker[w].now))),
         NEW c \in Caller, NEW d \in Days,
         Holds([at |-> "provider", caller |-> worker[w].caller], c, d, DayOf(clock))
  PROVE  Spent(c, d) <= TPD - 1 \/ w \in Reserve(c, d)
  <1> DEFINE now == worker[w].now
  <1>1. /\ now \in Nat /\ now <= clock /\ clock \in Nat /\ d \in Nat
        /\ DayOf(now) \in Nat /\ DayOf(clock) \in Nat /\ DayOf(now) <= DayOf(clock)
    BY InHand, ClockFacts, DaysInOrder DEF NotAhead
  <1>2. c = worker[w].caller /\ d >= DayOf(clock)
    BY DEF Holds
  <1>3. Spent(c, d) \in Nat
    BY DEF Spent, UsedOn, TypeOK
  <1>4. CASE DayOf(now) < d
    BY <1>2, <1>4 DEF Reserve, Holds
  <1>5. CASE ~(DayOf(now) < d)
    <2>1. d = DayOf(now)
      BY <1>1, <1>2, <1>5
    <2> QED BY <1>2, <1>3, <2>1 DEF OverBudget
  <1> QED BY <1>4, <1>5

LEMMA WithinReserveIsKept ==
  ASSUME TypeOK, TypeOK', NotAhead, OneBackend, WithinReserve, [Next]_vars
  PROVE  WithinReserve'
  <1> SUFFICES ASSUME NEW c \in Caller, NEW d \in Days
               PROVE  (Spent(c, d) + Cardinality(Reserve(c, d)) * Max(Usage) <= Most)'
    BY DEF WithinReserve
  <1>0. /\ Spent(c, d) \in Nat /\ Spent(c, d)' \in Nat
        /\ Reserve(c, d) \subseteq Worker /\ Reserve(c, d)' \subseteq Worker
        /\ Most' = Most
    BY DEF Spent, UsedOn, TypeOK, Reserve, Most
  <1>s. SUFFICES \/ Spent(c, d)' <= Spent(c, d) /\ Reserve(c, d)' \subseteq Reserve(c, d)
                 \/ Spent(c, d)' <= TPD - 1
                 \/ \E w \in Reserve(c, d), u \in Usage :
                      /\ Spent(c, d)' <= Spent(c, d) + u
                      /\ Reserve(c, d)' \subseteq Reserve(c, d) \ {w}
    BY <1>0, ReserveStep
  <1>d. /\ clock \in Nat /\ DayOf(clock) \in Nat /\ d \in Nat
        /\ durable' = durable
        /\ ~Holds(Idle, c, d, DayOf(clock))
    BY ClockFacts DEF Next, vars, Chat, MemoryCheck, RateCheck, BudgetCheck, ProviderAnswers, Fails,
           MemoryCharge, TakeDay, WriteCharge, Tick, Restart, Holds, Idle
  \* A step that only moves w on to x.
  <1>w. ASSUME NEW w \in Worker, NEW x, worker' = [worker EXCEPT ![w] = x], clock' = clock,
               Holds(x, c, d, DayOf(clock)) => w \in Reserve(c, d)
        PROVE  Reserve(c, d)' \subseteq Reserve(c, d)
    BY <1>w DEF Reserve, TypeOK
  <1>z. d > DayOf(clock) => Spent(c, d) = 0
    <2>1. tokens[c].day \in Nat /\ tokens[c].day <= DayOf(clock)
      BY ClockFacts DEF NotAhead, TypeOK
    <2> QED BY <1>d, <2>1 DEF Spent, UsedOn, NotAhead
  <1>e. UNCHANGED <<tokens, llm_daily>> => Spent(c, d)' = Spent(c, d)
    BY <1>d DEF Spent, UsedOn
  <1>1. ASSUME NEW w \in Worker, NEW b \in Caller, Chat(w, b) PROVE <1>s!1
    <2> DEFINE x == [at |-> "rate", caller |-> b, now |-> clock]
    <2>1. Spent(c, d)' = Spent(c, d)
      BY <1>1, <1>e DEF Chat, memory, rows
    <2>2. CASE d > DayOf(clock)
      BY <1>z, <2>1, <2>2
    <2>3. CASE ~(d > DayOf(clock))
      <3>1. ~Holds(x, c, d, DayOf(clock))
        BY <1>d, <2>3 DEF Holds
      <3>2. worker' = [worker EXCEPT ![w] = x] /\ clock' = clock
        BY <1>1 DEF Chat
      <3>3. Reserve(c, d)' \subseteq Reserve(c, d)
        BY <1>w, <3>1, <3>2
      <3> QED BY <1>0, <2>1, <3>3
    <2> QED BY <2>2, <2>3
  <1>2. ASSUME NEW w \in Worker, MemoryCheck(w) PROVE <1>s!1
    <2> DEFINE x == [at |-> "provider", caller |-> worker[w].caller]
    <2>1. Spent(c, d)' = Spent(c, d) /\ clock' = clock
      BY <1>2, <1>e DEF MemoryCheck, rows
    <2>2. CASE worker' = [worker EXCEPT ![w] = Idle]
      <3>1. Reserve(c, d)' \subseteq Reserve(c, d)
        BY <1>d, <1>w, <2>1, <2>2
      <3> QED BY <1>0, <2>1, <3>1
    <2>3. CASE worker' = [worker EXCEPT ![w] = x] /\ ~OverBudget(UsedOn(worker[w].caller, DayOf(worker[w].now)))
      <3>1. Holds(x, c, d, DayOf(clock)) => Spent(c, d) <= TPD - 1 \/ w \in Reserve(c, d)
        BY <1>2, <2>3, PassedTheTest DEF MemoryCheck, Spent
      <3>2. CASE Spent(c, d) <= TPD - 1
        BY <2>1, <3>2
      <3>3. CASE ~(Spent(c, d) <= TPD - 1)
        <4>1. Reserve(c, d)' \subseteq Reserve(c, d)
          BY <1>w, <2>1, <2>3, <3>1, <3>3
        <4> QED BY <1>0, <2>1, <4>1
      <3> QED BY <3>2, <3>3
    <2> QED BY <1>2, <2>2, <2>3 DEF MemoryCheck, RefuseRate, Pass
  <1>3. ASSUME NEW w \in Worker, RateCheck(w) PROVE <1>s!1
    <2> DEFINE x == [worker[w] EXCEPT !.at = "budget"]
    <2>1. Spent(c, d)' = Spent(c, d) /\ clock' = clock
      BY <1>3, <1>e DEF RateCheck, memory
    <2>2. worker[w] \in Checking /\ worker[w].at = "rate"
      BY <1>3, InHand DEF RateCheck
    <2>3. Holds(x, c, d, DayOf(clock)) => w \in Reserve(c, d)
      BY <2>2 DEF Reserve, Holds, Checking
    <2>4. Reserve(c, d)' \subseteq Reserve(c, d)
      BY <1>3, <1>d, <1>w, <2>1, <2>3 DEF RateCheck, RefuseRate, Pass
    <2> QED BY <1>0, <2>1, <2>4
  <1>4. ASSUME NEW w \in Worker, BudgetCheck(w) PROVE <1>s!1
    <2> DEFINE x == [at |-> "provider", caller |-> worker[w].caller]
    <2>1. Spent(c, d)' = Spent(c, d) /\ clock' = clock
      BY <1>4, <1>e DEF BudgetCheck, memory, rows
    <2>2. CASE worker' = [worker EXCEPT ![w] = Idle]
      <3>1. Reserve(c, d)' \subseteq Reserve(c, d)
        BY <1>d, <1>w, <2>1, <2>2
      <3> QED BY <1>0, <2>1, <3>1
    <2>3. CASE worker' = [worker EXCEPT ![w] = x] /\ ~OverBudget(llm_daily[worker[w].caller][DayOf(worker[w].now)])
      <3>1. Holds(x, c, d, DayOf(clock)) => Spent(c, d) <= TPD - 1 \/ w \in Reserve(c, d)
        BY <1>4, <2>3, PassedTheTest DEF BudgetCheck, Spent
      <3>2. CASE Spent(c, d) <= TPD - 1
        BY <2>1, <3>2
      <3>3. CASE ~(Spent(c, d) <= TPD - 1)
        <4>1. Reserve(c, d)' \subseteq Reserve(c, d)
          BY <1>w, <2>1, <2>3, <3>1, <3>3
        <4> QED BY <1>0, <2>1, <4>1
      <3> QED BY <3>2, <3>3
    <2> QED BY <1>4, <2>2, <2>3 DEF BudgetCheck
  <1>5. ASSUME NEW w \in Worker, NEW used \in Usage, ProviderAnswers(w, used) PROVE <1>s!1
    <2> DEFINE x == [at |-> "charge", caller |-> worker[w].caller, used |-> used]
    <2>1. worker' = [worker EXCEPT ![w] = x] /\ clock' = clock /\ worker[w].at = "provider"
      BY <1>5 DEF ProviderAnswers
    <2>2. Holds(x, c, d, DayOf(clock)) => w \in Reserve(c, d)
      BY <2>1 DEF Reserve, Holds
    <2>3. Spent(c, d)' = Spent(c, d)
      BY <1>5, <1>e DEF ProviderAnswers, memory, rows
    <2>4. Reserve(c, d)' \subseteq Reserve(c, d)
      BY <1>w, <2>1, <2>2
    <2> QED BY <1>0, <2>3, <2>4
  <1>6. ASSUME NEW w \in Worker, Fails(w) PROVE <1>s!1
    <2>1. Spent(c, d)' = Spent(c, d)
      BY <1>6, <1>e DEF Fails, memory, rows
    <2>2. Reserve(c, d)' \subseteq Reserve(c, d)
      BY <1>6, <1>d, <1>w DEF Fails
    <2> QED BY <1>0, <2>1, <2>2
  <1>7. ASSUME NEW w \in Worker, MemoryCharge(w) PROVE <1>s!1
    <2> DEFINE req == worker[w]
    <2>1. req.caller \in Caller /\ req.used \in Usage /\ req.at = "charge" /\ ~durable
      BY <1>7, InHand DEF MemoryCharge
    <2>2. /\ worker' = [worker EXCEPT ![w] = Idle] /\ clock' = clock
          /\ tokens' = IF req.used = 0 THEN tokens ELSE
                [tokens EXCEPT ![req.caller] = [day |-> DayOf(clock),
                   used |-> UsedOn(req.caller, DayOf(clock)) + req.used]]
      BY <1>7 DEF MemoryCharge
    <2>3. Reserve(c, d)' \subseteq Reserve(c, d)
      BY <1>d, <1>w, <2>2
    <2>4. w \notin Reserve(c, d)'
      BY <1>d, <2>2 DEF Reserve, TypeOK
    <2>5. CASE req.used # 0 /\ req.caller = c /\ d = DayOf(clock)
      <3>1. w \in Reserve(c, d)
        BY <1>d, <2>1, <2>5 DEF Reserve, Holds
      <3>2. tokens'[c] = [day |-> d, used |-> UsedOn(c, d) + req.used]
        BY <2>2, <2>5 DEF TypeOK
      <3>3. Spent(c, d)' = Spent(c, d) + req.used
        BY <1>d, <2>1, <3>2 DEF Spent, UsedOn
      <3>4. req.used \in Usage /\ req.used \in Nat
        BY <2>1
      <3>5. Spent(c, d)' <= Spent(c, d) + req.used
        BY <1>0, <3>3, <3>4
      <3> HIDE DEF req
      <3> QED BY <2>3, <2>4, <3>1, <3>4, <3>5
    <2>6. CASE req.used = 0 \/ req.caller # c \/ d # DayOf(clock)
      <3>1. tokens'[c] = tokens[c] \/ (tokens'[c].day = DayOf(clock) /\ d # DayOf(clock))
        BY <2>1, <2>2, <2>6 DEF TypeOK
      <3>2. Spent(c, d)' = Spent(c, d) \/ Spent(c, d)' = 0
        BY <1>d, <2>1, <3>1 DEF Spent, UsedOn
      <3> QED BY <1>0, <2>3, <3>2
    <2> QED BY <2>5, <2>6
  <1>8. ASSUME NEW w \in Worker, TakeDay(w) PROVE <1>s!1
    <2> DEFINE req == worker[w]
               x == [at |-> "write", caller |-> req.caller, used |-> req.used,
                     day |-> DayOf(clock)]
    <2>1. Spent(c, d)' = Spent(c, d) /\ clock' = clock /\ req.at = "charge"
      BY <1>8, <1>e DEF TakeDay, memory, rows
    <2>2. Holds(x, c, d, DayOf(clock)) => w \in Reserve(c, d)
      BY <1>d, <2>1 DEF Reserve, Holds
    <2>3. worker' = [worker EXCEPT ![w] = Idle] \/ worker' = [worker EXCEPT ![w] = x]
      BY <1>8 DEF TakeDay
    <2> HIDE DEF x
    <2> QED BY <1>0, <1>d, <1>w, <2>1, <2>2, <2>3
  <1>9. ASSUME NEW w \in Worker, WriteCharge(w) PROVE <1>s!1
    <2> DEFINE req == worker[w]
    <2>1. req.caller \in Caller /\ req.used \in Usage /\ req.used \in Nat
          /\ req.at = "write" /\ req.day \in Nat
      BY <1>9, InHand, ClockFacts DEF WriteCharge
    <2>2. /\ worker' = [worker EXCEPT ![w] = Idle] /\ clock' = clock
          /\ llm_daily'[c][d] = IF d < req.day - 1 THEN 0
               ELSE IF c = req.caller /\ d = req.day THEN llm_daily[c][d] + req.used
               ELSE llm_daily[c][d]
      BY <1>9 DEF WriteCharge
    <2>3. durable /\ Spent(c, d)' = llm_daily'[c][d] /\ Spent(c, d) = llm_daily[c][d]
      BY <1>d, <2>1 DEF OneBackend, Spent
    <2>4. Reserve(c, d)' \subseteq Reserve(c, d)
      BY <1>d, <1>w, <2>2
    <2>5. w \notin Reserve(c, d)'
      BY <1>d, <2>2 DEF Reserve, TypeOK
    <2>6. CASE c = req.caller /\ d = req.day
      <3>1. w \in Reserve(c, d)
        BY <2>1, <2>6 DEF Reserve, Holds
      <3>2. Spent(c, d)' <= Spent(c, d) + req.used
        BY <1>0, <1>d, <2>1, <2>2, <2>3, <2>6
      <3> QED BY <2>1, <2>4, <2>5, <3>1, <3>2
    <2>7. CASE ~(c = req.caller /\ d = req.day)
      <3>1. Spent(c, d)' <= Spent(c, d)
        BY <1>0, <2>2, <2>3, <2>7
      <3> QED BY <2>4, <3>1
    <2> QED BY <2>6, <2>7
  <1>10. CASE Tick
    <2>1. clock' = clock + 1 /\ worker' = worker /\ Spent(c, d)' = Spent(c, d)
      BY <1>10, <1>e DEF Tick, memory, rows
    <2>2. DayOf(clock + 1) \in Nat /\ DayOf(clock) <= DayOf(clock + 1)
      BY <1>d, DaysInOrder
    <2>3. \A w \in Worker : Holds(worker[w], c, d, DayOf(clock + 1)) =>
                             Holds(worker[w], c, d, DayOf(clock))
      BY <1>d, <2>2 DEF Holds
    <2>4. Reserve(c, d)' \subseteq Reserve(c, d)
      BY <2>1, <2>3 DEF Reserve
    <2> QED BY <1>0, <2>1, <2>4
  <1>11. CASE Restart
    <2>1. clock' = clock /\ \A w \in Worker : worker'[w] = Idle
      BY <1>11 DEF Restart
    <2>2. Reserve(c, d)' = {}
      BY <1>d, <2>1 DEF Reserve
    <2>3. Spent(c, d)' = Spent(c, d) \/ Spent(c, d)' = 0
      BY <1>11, <1>d DEF Restart, Spent, UsedOn, memory, rows
    <2> QED BY <1>0, <2>2, <2>3
  <1>12. CASE UNCHANGED vars
    <2>1. Spent(c, d)' = Spent(c, d) /\ Reserve(c, d)' = Reserve(c, d)
      BY <1>12, <1>e DEF vars, Reserve
    <2> QED BY <1>0, <2>1
  <1> QED BY <1>1, <1>2, <1>3, <1>4, <1>5, <1>6, <1>7, <1>8, <1>9, <1>10, <1>11, <1>12 DEF Next

-----------------------------------------------------------------------------
(* The rate.                                                               *)

LEMMA PassedFacts ==
  ASSUME TypeOK, NEW c \in Caller
  PROVE  /\ passed[c] \in Seq(Time) /\ Len(passed[c]) \in Nat
         /\ DOMAIN passed[c] = 1..Len(passed[c])
         /\ \A i \in 1..Len(passed[c]) : passed[c][i] \in Nat /\ MinuteOf(passed[c][i]) \in Nat
         /\ Append(passed[c], clock) \in Seq(Time)
         /\ DOMAIN Append(passed[c], clock) = 1..(Len(passed[c]) + 1)
         /\ Len(Append(passed[c], clock)) = Len(passed[c]) + 1
         /\ \A i \in 1..Len(passed[c]) : Append(passed[c], clock)[i] = passed[c][i]
         /\ Append(passed[c], clock)[Len(passed[c]) + 1] = clock
  <1>1. passed[c] \in Seq(Time) /\ clock \in Time
    BY DEF TypeOK
  <1>2. \A i \in 1..Len(passed[c]) : passed[c][i] \in Nat
    BY <1>1 DEF Time
  <1>3. \A i \in 1..Len(passed[c]) : MinuteOf(passed[c][i]) \in Nat
    BY <1>2, MinutesInOrder
  <1>4. Len(passed[c]) \in Nat /\ DOMAIN passed[c] = 1..Len(passed[c])
    BY <1>1
  <1>5. /\ Append(passed[c], clock) \in Seq(Time)
        /\ Len(Append(passed[c], clock)) = Len(passed[c]) + 1
        /\ \A i \in 1..Len(passed[c]) : Append(passed[c], clock)[i] = passed[c][i]
        /\ Append(passed[c], clock)[Len(passed[c]) + 1] = clock
    BY <1>1
  <1>6. DOMAIN Append(passed[c], clock) = 1..(Len(passed[c]) + 1)
    BY <1>5
  <1> QED BY <1>1, <1>2, <1>3, <1>4, <1>5, <1>6

(* The last pass is the latest.                                            *)
LEMMA OneMoreInOrder ==
  ASSUME TypeOK, NotAhead, PassedInOrder, NEW c \in Caller
  PROVE  LET A == Append(passed[c], clock)
         IN  \A i, j \in DOMAIN A : i <= j => A[i] <= A[j]
  <1>1. \A i \in 1..Len(passed[c]) : passed[c][i] <= clock
    BY PassedFacts DEF NotAhead
  <1>2. \A i, j \in 1..Len(passed[c]) : i <= j => passed[c][i] <= passed[c][j]
    BY PassedFacts DEF PassedInOrder
  <1> QED BY <1>1, <1>2, PassedFacts, ClockFacts

(* What a step does to the passes: nothing, one more, or all forgotten.    *)
LEMMA PassedInOrderIsKept ==
  ASSUME TypeOK, NotAhead, PassedInOrder, [Next]_vars
  PROVE  PassedInOrder'
  <1>1. ASSUME NEW w \in Worker, NEW c \in Caller, NEW inTime, NEW next,
               Pass(w, c, inTime, next)
        PROVE  PassedInOrder'
    <2>1. CASE inTime
      <3>1. passed' = [passed EXCEPT ![c] = Append(passed[c], clock)]
        BY <1>1, <2>1 DEF Pass
      <3>2. passed'[c] = Append(passed[c], clock) /\
            \A b \in Caller : b # c => passed'[b] = passed[b]
        BY <3>1 DEF TypeOK
      <3> QED BY <3>2, OneMoreInOrder DEF PassedInOrder
    <2>2. CASE ~inTime
      BY <1>1, <2>2 DEF Pass, PassedInOrder
    <2> QED BY <2>1, <2>2
  <1>2. ASSUME NEW w \in Worker, MemoryCheck(w) \/ RateCheck(w) PROVE PassedInOrder'
    <2>1. worker[w].caller \in Caller
      BY <1>2, InHand DEF MemoryCheck, RateCheck
    <2> QED BY <1>1, <1>2, <2>1 DEF MemoryCheck, RateCheck, RefuseRate, PassedInOrder
  <1>3. CASE Restart
    <2>1. passed' = passed \/ passed' = [c \in Caller |-> <<>>]
      BY <1>3 DEF Restart
    <2>2. CASE passed' = [c \in Caller |-> <<>>]
      BY <2>2 DEF PassedInOrder
    <2> QED BY <2>1, <2>2 DEF PassedInOrder
  <1>4. CASE passed' = passed
    BY <1>4 DEF PassedInOrder
  <1> QED BY <1>2, <1>3, <1>4
          DEF Next, vars, history, Chat, BudgetCheck, ProviderAnswers, Fails, MemoryCharge,
              TakeDay, WriteCharge, Tick

(* With the database: a pass is the row's RPM-th at most, and all passes   *)
(* before the row's are of earlier minutes.                                *)
LEMMA RowsAreKept ==
  ASSUME TypeOK, NotAhead, OneBackend, PassedApart, RowHasPassed, [Next]_vars, durable
  PROVE  durable' /\ PassedApart' /\ RowHasPassed'
  <1>0. durable'
    BY DEF Next, vars, Chat, MemoryCheck, RateCheck, BudgetCheck, ProviderAnswers, Fails,
           MemoryCharge, TakeDay, WriteCharge, Tick, Restart
  <1> DEFINE M == MinuteOf(clock)
  <1>c. clock \in Nat /\ M \in Minutes /\ M \in Nat
    BY ClockFacts
  <1>r. \A c \in Caller : llm_rate[c][M] \in Nat
    BY <1>c DEF TypeOK
  <1>1. ASSUME NEW w \in Worker, RateCheck(w) PROVE PassedApart' /\ RowHasPassed'
    <2> DEFINE req == worker[w]
               c == req.caller
               m == MinuteOf(req.now)
    <2>1. c \in Caller /\ req.now \in Nat /\ req.now <= clock /\ req.now \in Time
      BY <1>1, InHand DEF RateCheck, NotAhead
    <2>2. m \in Minutes /\ m \in Nat /\ m <= M
      BY <1>c, <2>1, MinutesInOrder
    <2>3. clock' = clock /\ llm_rate' = [llm_rate EXCEPT ![c][m] = @ + 1]
      BY <1>1 DEF RateCheck
    <2>4. /\ llm_rate'[c][m] = llm_rate[c][m] + 1
          /\ \A k \in Minutes : k # m => llm_rate'[c][k] = llm_rate[c][k]
          /\ \A b \in Caller : b # c => llm_rate'[b] = llm_rate[b]
      BY <2>1, <2>2, <2>3 DEF TypeOK
    <2>5. \A b \in Caller : llm_rate'[b][M] \in Nat /\ llm_rate'[b][M] >= llm_rate[b][M]
      BY <1>c, <1>r, <2>1, <2>4
    <2>6. CASE passed' = passed
      <3>1. PassedApart'
        BY <1>0, <2>6 DEF PassedApart
      <3>2. RowHasPassed'
        <4>1. ASSUME NEW b \in Caller, NEW i \in DOMAIN passed[b],
                     i + llm_rate'[b][M] <= Len(passed[b])
              PROVE  MinuteOf(passed[b][i]) < M
          <5>1. i \in Nat /\ Len(passed[b]) \in Nat
            BY PassedFacts
          <5>2. i + llm_rate[b][M] <= Len(passed[b])
            BY <1>r, <2>5, <4>1, <5>1
          <5> QED BY <5>2 DEF RowHasPassed
        <4>2. MinuteOf(clock') = M
          BY <2>3
        <4> HIDE DEF M
        <4> QED BY <2>6, <4>1, <4>2 DEF RowHasPassed
      <3> QED BY <3>1, <3>2
    <2>7. CASE passed' # passed
      <3> DEFINE P == passed[c]
                 n == Len(P)
      <3>1. /\ M = m /\ llm_rate[c][M] + 1 <= RPM
            /\ passed' = [passed EXCEPT ![c] = Append(P, clock)]
        BY <1>1, <1>r, <2>1, <2>4, <2>7, SMTT(30) DEF RateCheck, Pass, RefuseRate
      <3>2. /\ passed'[c] = Append(P, clock)
            /\ \A b \in Caller : b # c => passed'[b] = passed[b]
        BY <2>1, <3>1 DEF TypeOK
      <3>3. /\ n \in Nat /\ DOMAIN P = 1..n /\ DOMAIN passed'[c] = 1..(n + 1)
            /\ Len(passed'[c]) = n + 1 /\ passed'[c][n + 1] = clock
            /\ \A i \in 1..n : passed'[c][i] = P[i] /\ MinuteOf(P[i]) \in Nat
        BY <2>1, <3>2, PassedFacts
      <3>4. \A i \in 1..n : i + llm_rate[c][M] <= n => MinuteOf(P[i]) < M
        BY <2>1, <3>3 DEF RowHasPassed
      <3>5. \A i, j \in 1..n : j = i + RPM => MinuteOf(P[i]) < MinuteOf(P[j])
        BY <2>1, <3>3 DEF PassedApart
      <3> HIDE DEF P, n, c, m, M, req
      <3>6. ASSUME NEW i \in 1..(n + 1), NEW j \in 1..(n + 1), j = i + RPM
            PROVE  MinuteOf(passed'[c][i]) < MinuteOf(passed'[c][j])
        <4>1. i \in 1..n
          BY <3>3, <3>6
        <4>2. CASE j = n + 1
          <5>1. i + llm_rate[c][M] <= n
            BY <1>r, <2>1, <3>1, <3>3, <3>6, <4>1, <4>2
          <5> QED BY <3>3, <3>4, <4>1, <4>2, <5>1 DEF M
        <4>3. CASE j \in 1..n
          BY <3>3, <3>5, <3>6, <4>1, <4>3
        <4> QED BY <3>3, <4>2, <4>3
      <3>7. PassedApart'
        BY <1>0, <3>2, <3>3, <3>6 DEF PassedApart
      <3>8. ASSUME NEW i \in 1..(n + 1), i + llm_rate'[c][M] <= n + 1
            PROVE  MinuteOf(passed'[c][i]) < M
        <4>1. i \in 1..n /\ i + llm_rate[c][M] <= n
          BY <1>r, <2>1, <2>4, <3>1, <3>3, <3>8, SMTT(30)
        <4> QED BY <3>3, <3>4, <4>1
      <3>9. RowHasPassed'
        <4>1. ASSUME NEW b \in Caller, b # c, NEW i \in DOMAIN passed[b],
                     i + llm_rate[b][M] <= Len(passed[b])
              PROVE  MinuteOf(passed[b][i]) < M
          BY <4>1 DEF RowHasPassed, M
        <4>2. MinuteOf(clock') = M
          BY <2>3 DEF M
        <4>3. ASSUME NEW b \in Caller, NEW i \in DOMAIN passed'[b],
                     i + llm_rate'[b][M] <= Len(passed'[b])
              PROVE  MinuteOf(passed'[b][i]) < M
          <5>1. CASE b = c
            BY <3>3, <3>8, <4>3, <5>1
          <5>2. CASE b # c
            BY <2>4, <3>2, <4>1, <4>3, <5>2
          <5> QED BY <5>1, <5>2
        <4> QED BY <4>2, <4>3 DEF RowHasPassed
      <3> QED BY <3>7, <3>9
    <2> QED BY <2>6, <2>7
  <1>2. ASSUME NEW w \in Worker, WriteCharge(w) PROVE PassedApart' /\ RowHasPassed'
    <2>1. \A c \in Caller : llm_rate'[c][M] = llm_rate[c][M]
      BY <1>2, <1>c DEF WriteCharge, Stale
    <2>2. clock' = clock /\ passed' = passed
      BY <1>2 DEF WriteCharge, history
    <2> QED BY <1>0, <2>1, <2>2 DEF PassedApart, RowHasPassed
  <1>3. CASE Tick
    <2>1. passed' = passed /\ llm_rate' = llm_rate /\ clock' = clock + 1
      BY <1>3 DEF Tick, rows, history
    <2>2. MinuteOf(clock + 1) \in Nat /\ M <= MinuteOf(clock + 1)
      BY <1>c, MinutesInOrder
    <2>3. \A c \in Caller : \A i \in DOMAIN passed[c] :
            MinuteOf(passed[c][i]) \in Nat /\ MinuteOf(passed[c][i]) <= M
      BY <1>c, PassedFacts, MinutesInOrder DEF NotAhead
    <2>4. PassedApart'
      BY <1>0, <2>1 DEF PassedApart
    <2>5. CASE M = MinuteOf(clock + 1)
      BY <1>0, <2>1, <2>4, <2>5 DEF RowHasPassed
    <2>6. CASE M # MinuteOf(clock + 1)
      <3>1. \A c \in Caller : \A i \in DOMAIN passed[c] :
              MinuteOf(passed[c][i]) < MinuteOf(clock + 1)
        BY <1>c, <2>2, <2>3, <2>6
      <3> QED BY <1>0, <2>1, <2>4, <3>1 DEF RowHasPassed
    <2> QED BY <2>5, <2>6
  <1>4. CASE UNCHANGED <<clock, llm_rate, passed>>
    BY <1>0, <1>4 DEF PassedApart, RowHasPassed
  <1> QED BY <1>0, <1>1, <1>2, <1>3, <1>4
          DEF Next, vars, history, rows, Chat, MemoryCheck, BudgetCheck, ProviderAnswers, Fails,
              MemoryCharge, TakeDay, Restart

(* In memory: popleft takes no pass away that is still in the window.      *)
LEMMA PlacesInPruned ==
  ASSUME NEW times \in Seq(Time), NEW window \in Seq(Time), NEW now \in Time,
         NEW from \in Int, now - Window <= from,
         NEW f \in [DOMAIN times -> Int], Places(f, times, window, from)
  PROVE  \E g \in [DOMAIN times -> Int] : Places(g, times, Pruned(window, now), from)
  <1> DEFINE W == Pruned(window, now)
  <1>1. PICK p \in 0..Len(window) :
           /\ W \in Seq(Time)
           /\ Len(W) = Len(window) - p
           /\ \A j \in 1..(Len(window) - p) : W[j] = window[j + p]
           /\ \A j \in 1..p : window[j] < now - Window
    BY PrunedIsASuffix
  <1> DEFINE g == [i \in DOMAIN times |-> f[i] - p]
  <1>2. Len(window) \in Nat /\ p \in Nat /\ Window \in Nat /\ now \in Nat
    BY <1>1, WindowIsPositive DEF Time
  <1>3. \A i \in 1..Len(window) : window[i] \in Nat
    BY DEF Time
  <1>4. \A i \in DOMAIN times : times[i] \in Nat
    BY DEF Time
  <1>5. \A i \in DOMAIN times : f[i] \in Int /\ g[i] = f[i] - p /\ g[i] \in Int
    BY <1>2
  <1> HIDE DEF g, W
  <1>6. \A i, j \in DOMAIN times : i <= j => j - i <= g[j] - g[i]
    <2>1. ASSUME NEW i \in DOMAIN times, NEW j \in DOMAIN times, i <= j
          PROVE  j - i <= g[j] - g[i]
      <3>1. j - i <= f[j] - f[i]
        BY <2>1 DEF Places
      <3> QED BY <1>2, <1>5, <3>1
    <2> QED BY <2>1
  <1>7. ASSUME NEW i \in DOMAIN times PROVE g[i] <= Len(W)
    BY <1>1, <1>2, <1>5 DEF Places
  <1>8. ASSUME NEW i \in DOMAIN times, times[i] >= from
        PROVE  g[i] >= 1 /\ W[g[i]] = times[i]
    <2>1. f[i] >= 1 /\ f[i] <= Len(window) /\ window[f[i]] = times[i]
      BY <1>8 DEF Places
    <2>2. f[i] \notin 1..p
      BY <1>1, <1>2, <1>3, <1>4, <1>5, <1>8, <2>1
    <2>3. g[i] \in 1..(Len(window) - p) /\ g[i] + p = f[i]
      BY <1>2, <1>5, <2>1, <2>2
    <2> QED BY <1>1, <2>1, <2>3, SMTT(30)
  <1>9. Places(g, times, W, from)
    BY <1>6, <1>7, <1>8 DEF Places
  <1>10. g \in [DOMAIN times -> Int]
    BY <1>5 DEF g
  <1> QED BY <1>9, <1>10 DEF W

(* A later threshold, or one more entry in the deque, changes no place.    *)
LEMMA PlacesLater ==
  ASSUME NEW times \in Seq(Time), NEW window, NEW from \in Int, NEW later \in Int, from <= later,
         NEW f, Places(f, times, window, from)
  PROVE  Places(f, times, window, later)
  <1>1. \A i \in DOMAIN times : times[i] \in Nat
    BY DEF Time
  <1> QED BY <1>1 DEF Places

LEMMA PlacesInAppended ==
  ASSUME NEW times \in Seq(Time), NEW window \in Seq(Time), NEW now \in Time,
         NEW from \in Int,
         NEW f \in [DOMAIN times -> Int], Places(f, times, window, from)
  PROVE  Places(f, times, Append(window, now), from)
  <1> DEFINE A == Append(window, now)
  <1>1. /\ Len(window) \in Nat /\ Len(A) = Len(window) + 1
        /\ \A j \in 1..Len(window) : A[j] = window[j]
    OBVIOUS
  <1>2. \A i \in DOMAIN times : f[i] \in Int
    OBVIOUS
  <1> HIDE DEF A
  <1>3. \A i \in DOMAIN times : f[i] <= Len(A)
    BY <1>1, <1>2 DEF Places
  <1>4. \A i \in DOMAIN times : times[i] >= from => f[i] >= 1 /\ A[f[i]] = times[i]
    BY <1>1, <1>2 DEF Places
  <1>5. Places(f, times, A, from)
    BY <1>3, <1>4 DEF Places
  <1> QED BY <1>5 DEF A

(* A pass that is entered at once takes the last place.                    *)
LEMMA PlacesForOneMore ==
  ASSUME NEW times \in Seq(Time), NEW window \in Seq(Time), NEW now \in Time,
         NEW from \in Int,
         NEW f \in [DOMAIN times -> Int], Places(f, times, window, from)
  PROVE  \E h \in [DOMAIN Append(times, now) -> Int] :
           Places(h, Append(times, now), Append(window, now), from)
  <1> DEFINE A == Append(window, now)
             B == Append(times, now)
             n == Len(times)
             k == Len(window)
             h == [i \in 1..(n + 1) |-> IF i = n + 1 THEN k + 1 ELSE f[i]]
  <1>1. /\ n \in Nat /\ k \in Nat /\ DOMAIN times = 1..n
        /\ Len(A) = k + 1 /\ A[k + 1] = now /\ \A j \in 1..k : A[j] = window[j]
        /\ DOMAIN B = 1..(n + 1) /\ B[n + 1] = now /\ \A i \in 1..n : B[i] = times[i]
    OBVIOUS
  <1>2. \A i \in 1..n : f[i] \in Int /\ h[i] = f[i] /\ f[i] <= k
    BY <1>1 DEF Places
  <1>3. h[n + 1] = k + 1
    BY <1>1
  <1>4. h \in [1..(n + 1) -> Int]
    BY <1>1
  <1>5. /\ \A i, j \in 1..n : i <= j => j - i <= f[j] - f[i]
        /\ \A i \in 1..n : times[i] >= from => f[i] >= 1 /\ window[f[i]] = times[i]
    BY <1>1 DEF Places
  <1> HIDE DEF A, B, n, k, h
  <1>6. ASSUME NEW i \in 1..(n + 1), NEW j \in 1..(n + 1), i <= j
        PROVE  j - i <= h[j] - h[i]
    <2>1. CASE j \in 1..n
      <3>1. i \in 1..n
        BY <1>1, <1>6, <2>1
      <3>2. j - i <= f[j] - f[i] /\ h[i] = f[i] /\ h[j] = f[j]
        BY <1>2, <1>5, <1>6, <2>1, <3>1
      <3> QED BY <3>2
    <2>2. CASE i = n + 1
      BY <1>1, <1>3, <1>6, <2>2
    <2>3. CASE i \in 1..n /\ j = n + 1
      <3>1. n \in 1..n /\ n - i <= f[n] - f[i] /\ f[n] <= k
        BY <1>1, <1>2, <1>5, <2>3
      <3> QED BY <1>1, <1>2, <1>3, <2>3, <3>1
    <2> QED BY <1>1, <1>6, <2>1, <2>2, <2>3
  <1>7. ASSUME NEW i \in 1..(n + 1)
        PROVE  h[i] <= k + 1 /\ (B[i] >= from => h[i] >= 1 /\ A[h[i]] = B[i])
    <2>1. CASE i = n + 1
      BY <1>1, <1>3, <2>1
    <2>2. CASE i \in 1..n
      BY <1>1, <1>2, <1>5, <2>2
    <2> QED BY <1>1, <2>1, <2>2
  <1>8. Places(h, B, A, from)
    BY <1>1, <1>6, <1>7 DEF Places
  <1> QED BY <1>1, <1>4, <1>8 DEF A, B

(* With fewer than RPM in the deque, the RPM-th pass from the end is old.  *)
LEMMA RoomMeansOld ==
  ASSUME NEW times \in Seq(Time), NEW window \in Seq(Time), Len(window) < RPM, NEW from \in Int,
         NEW f \in [DOMAIN times -> Int], Places(f, times, window, from),
         NEW i \in DOMAIN times, i + RPM = Len(times) + 1
  PROVE  times[i] < from
  <1> DEFINE n == Len(times)
  <1>1. n \in Nat /\ DOMAIN times = 1..n /\ Len(window) \in Nat /\ times[i] \in Nat
    BY DEF Time
  <1>2. n \in 1..n /\ i \in 1..n /\ i <= n
    BY <1>1
  <1>3. n - i <= f[n] - f[i] /\ f[n] <= Len(window) /\ f[n] \in Int /\ f[i] \in Int
    BY <1>1, <1>2 DEF Places
  <1>4. ~(f[i] >= 1)
    BY <1>1, <1>2, <1>3
  <1> QED BY <1>1, <1>2, <1>4 DEF Places

LEMMA RequestsFacts ==
  ASSUME TypeOK, NEW c \in Caller, NEW now \in Time
  PROVE  /\ requests[c] \in Seq(Time) /\ Len(requests[c]) \in Nat
         /\ Pruned(requests[c], now) \in Seq(Time)
         /\ Len(Pruned(requests[c], now)) \in Nat
         /\ Len(Pruned(requests[c], now)) <= Len(requests[c])
         /\ Append(Pruned(requests[c], now), now) \in Seq(Time)
         /\ Len(Append(Pruned(requests[c], now), now)) = Len(Pruned(requests[c], now)) + 1
  <1>1. requests[c] \in Seq(Time)
    BY DEF TypeOK
  <1>2. PICK p \in 0..Len(requests[c]) :
          /\ Pruned(requests[c], now) \in Seq(Time)
          /\ Len(Pruned(requests[c], now)) = Len(requests[c]) - p
    BY <1>1, PrunedIsASuffix
  <1>3. Len(requests[c]) \in Nat /\ p \in Nat
    BY <1>1
  <1>4. Len(Append(Pruned(requests[c], now), now)) = Len(Pruned(requests[c], now)) + 1
    BY <1>2
  <1> QED BY <1>1, <1>2, <1>3, <1>4

(* In memory: whoever passes in time is entered in the deque, and finds the *)
(* RPM-th pass before its own out of the window.                           *)
LEMMA DequesAreKept ==
  ASSUME TypeOK, NotAhead, PassedApart, DequeHasPassed, [Next]_vars, ~durable
  PROVE  ~durable' /\ PassedApart' /\ DequeHasPassed'
  <1>0. ~durable'
    BY DEF Next, vars, Chat, MemoryCheck, RateCheck, BudgetCheck, ProviderAnswers, Fails,
           MemoryCharge, TakeDay, WriteCharge, Tick, Restart
  <1> DEFINE from == clock - Window
  <1>c. clock \in Nat /\ clock \in Time /\ Window \in Nat /\ from \in Int
    BY ClockFacts, WindowIsPositive
  <1>1. ASSUME NEW w \in Worker, MemoryCheck(w) PROVE PassedApart' /\ DequeHasPassed'
    <2> DEFINE req == worker[w]
               c == req.caller
               now == req.now
               P == passed[c]
               D == requests[c]
               W == Pruned(D, now)
    <2>1. c \in Caller /\ now \in Nat /\ now <= clock /\ now \in Time
      BY <1>1, InHand DEF MemoryCheck, NotAhead
    <2>2. P \in Seq(Time) /\ D \in Seq(Time) /\ W \in Seq(Time) /\ now - Window <= from
      BY <1>c, <2>1, RequestsFacts, PassedFacts
    <2>3. PICK f \in [DOMAIN P -> Int] : Places(f, P, D, from)
      BY <2>1 DEF DequeHasPassed
    <2>4. PICK g \in [DOMAIN P -> Int] : Places(g, P, W, from)
      <3> HIDE DEF P, D, now, from
      <3> QED BY <1>c, <2>1, <2>2, <2>3, PlacesInPruned DEF W
    <2>5. clock' = clock /\ Len(D) <= RPM /\ Len(W) <= Len(D) /\ Len(D) \in Nat /\ Len(W) \in Nat
      BY <1>1, <2>1, RequestsFacts DEF MemoryCheck, DequeHasPassed
    <2>6. \A b \in Caller : b # c => passed'[b] = passed[b] /\ requests'[b] = requests[b]
      BY <1>1, <2>1 DEF MemoryCheck, Pass, RefuseRate, TypeOK
    <2>7. ASSUME PassedApart', Len(requests'[c]) <= RPM,
                 \E h \in [DOMAIN passed'[c] -> Int] : Places(h, passed'[c], requests'[c], from)
          PROVE  DequeHasPassed'
      <3>1. ASSUME NEW b \in Caller
            PROVE  /\ Len(requests'[b]) <= RPM
                   /\ \E h \in [DOMAIN passed'[b] -> Int] :
                        Places(h, passed'[b], requests'[b], from)
        <4>1. CASE b = c
          BY <2>7, <4>1
        <4>2. CASE b # c
          BY <2>6, <4>2 DEF DequeHasPassed
        <4> QED BY <4>1, <4>2
      <3>2. clock' - Window = from
        BY <2>5
      <3> HIDE DEF from
      <3> QED BY <3>1, <3>2 DEF DequeHasPassed
    <2>8. CASE passed' = passed
      <3>1. PassedApart'
        BY <1>0, <2>8 DEF PassedApart
      <3>2. \/ requests'[c] = W
            \/ requests'[c] = Append(W, now) /\ Len(W) < RPM
        <4>1. CASE Len(W) >= RPM
          <5>1. requests' = [requests EXCEPT ![c] = W]
            BY <1>1, <4>1 DEF MemoryCheck
          <5> QED BY <2>1, <5>1 DEF TypeOK
        <4>2. CASE ~(Len(W) >= RPM)
          <5>1. requests' = [requests EXCEPT ![c] = Append(W, now)]
            BY <1>1, <4>2 DEF MemoryCheck
          <5>2. Len(W) < RPM
            BY <2>5, <4>2
          <5> QED BY <2>1, <5>1, <5>2 DEF TypeOK
        <4> QED BY <4>1, <4>2
      <3>3. Len(requests'[c]) <= RPM
        BY <2>1, <2>5, <3>2, RequestsFacts
      <3>4. Places(g, passed'[c], requests'[c], from)
        <4> HIDE DEF P, W, now, from, c
        <4>1. passed'[c] = P
          BY <2>8 DEF P
        <4> QED BY <1>c, <2>1, <2>2, <2>4, <3>2, <4>1, PlacesInAppended
      <3> QED BY <2>7, <2>8, <3>1, <3>3, <3>4
    <2>9. CASE passed' # passed
      <3> DEFINE n == Len(P)
      <3>1. /\ now = clock /\ Len(W) < RPM
            /\ passed' = [passed EXCEPT ![c] = Append(P, clock)]
            /\ requests' = [requests EXCEPT ![c] = Append(W, now)]
        BY <1>1, <2>1, <2>5, <2>9 DEF MemoryCheck, Pass, RefuseRate
      <3>2. passed'[c] = Append(P, clock) /\ requests'[c] = Append(W, now)
        BY <2>1, <3>1 DEF TypeOK
      <3>3. /\ n \in Nat /\ DOMAIN P = 1..n /\ DOMAIN passed'[c] = 1..(n + 1)
            /\ passed'[c][n + 1] = clock
            /\ \A i \in 1..n : passed'[c][i] = P[i] /\ P[i] \in Nat
        BY <2>1, <3>2, PassedFacts
      <3>4. \A i, j \in 1..n : j = i + RPM => P[i] + Window < P[j]
        BY <2>1, <3>3 DEF PassedApart
      <3>5. \E h \in [DOMAIN passed'[c] -> Int] : Places(h, passed'[c], requests'[c], from)
        <4> HIDE DEF P, W, now, from, c
        <4>1. \E h \in [DOMAIN Append(P, now) -> Int] :
                Places(h, Append(P, now), Append(W, now), from)
          BY <1>c, <2>1, <2>2, <2>4, PlacesForOneMore
        <4> QED BY <3>1, <3>2, <4>1
      <3>6. \A i \in 1..n : i + RPM = n + 1 => P[i] < from
        <4> HIDE DEF P, W, now, from, c
        <4> QED BY <1>c, <2>2, <2>4, <3>1, <3>3, RoomMeansOld DEF n
      <3>7. Len(requests'[c]) <= RPM
        BY <2>1, <2>5, <3>1, <3>2, RequestsFacts
      <3> HIDE DEF P, W, D, now, c, req, n
      <3>8. ASSUME NEW i \in 1..(n + 1), NEW j \in 1..(n + 1), j = i + RPM
            PROVE  passed'[c][i] + Window < passed'[c][j]
        <4>1. i \in 1..n
          BY <3>3, <3>8
        <4>2. CASE j = n + 1
          <5>1. P[i] < clock - Window
            BY <3>6, <3>8, <4>1, <4>2
          <5>2. P[i] \in Nat /\ passed'[c][i] = P[i] /\ passed'[c][j] = clock
            BY <3>3, <4>1, <4>2
          <5> QED BY <1>c, <5>1, <5>2
        <4>3. CASE j \in 1..n
          BY <3>3, <3>4, <3>8, <4>1, <4>3
        <4> QED BY <3>3, <4>2, <4>3
      <3>9. PassedApart'
        BY <1>0, <2>6, <3>3, <3>8 DEF PassedApart
      <3> QED BY <2>7, <3>5, <3>7, <3>9
    <2> QED BY <2>8, <2>9
  <1>2. CASE Tick
    <2>1. passed' = passed /\ requests' = requests /\ clock' = clock + 1
      BY <1>2 DEF Tick, memory, history
    <2>2. PassedApart'
      BY <1>0, <2>1 DEF PassedApart
    <2>3. ASSUME NEW c \in Caller
          PROVE  /\ Len(requests'[c]) <= RPM
                 /\ \E f \in [DOMAIN passed'[c] -> Int] :
                      Places(f, passed'[c], requests'[c], clock' - Window)
      <3>1. Len(requests[c]) <= RPM
        BY DEF DequeHasPassed
      <3>2. PICK f \in [DOMAIN passed[c] -> Int] : Places(f, passed[c], requests[c], from)
        BY DEF DequeHasPassed
      <3>3. clock' - Window \in Int /\ from <= clock' - Window
        BY <1>c, <2>1
      <3>4. passed[c] \in Seq(Time)
        BY PassedFacts
      <3> HIDE DEF from
      <3>5. Places(f, passed[c], requests[c], clock' - Window)
        BY <1>c, <3>2, <3>3, <3>4, PlacesLater
      <3> QED BY <2>1, <3>1, <3>2, <3>5
    <2> QED BY <1>0, <2>2, <2>3 DEF DequeHasPassed
  <1>3. CASE Restart
    <2>1. requests' = [c \in Caller |-> <<>>] /\ passed' = [c \in Caller |-> <<>>]
      BY <1>3 DEF Restart
    <2>2. PassedApart'
      BY <2>1 DEF PassedApart
    <2>3. ASSUME NEW c \in Caller
          PROVE  \E f \in [DOMAIN passed'[c] -> Int] :
                   Places(f, passed'[c], requests'[c], clock' - Window)
      <3> DEFINE f == [i \in {} |-> 0]
      <3>1. DOMAIN passed'[c] = {} /\ f \in [{} -> Int]
        BY <2>1
      <3>2. Places(f, passed'[c], requests'[c], clock' - Window)
        BY <3>1 DEF Places
      <3> QED BY <3>1, <3>2
    <2>4. \A c \in Caller : Len(requests'[c]) <= RPM
      BY <2>1
    <2> QED BY <1>0, <2>2, <2>3, <2>4 DEF DequeHasPassed
  <1>4. CASE UNCHANGED <<clock, requests, passed>>
    BY <1>0, <1>4 DEF PassedApart, DequeHasPassed
  <1> QED BY <1>0, <1>1, <1>2, <1>3, <1>4
          DEF Next, vars, history, memory, Chat, RateCheck, BudgetCheck, ProviderAnswers, Fails,
              MemoryCharge, TakeDay, WriteCharge

-----------------------------------------------------------------------------
(* Retry-After.                                                            *)

(* A request that moves on, or ends, is still its caller's.                *)
LEMMA StillQuiet ==
  ASSUME TypeOK, NEW w \in Worker, NEW next, NEW c \in Caller, Quiet(c),
         worker' = [worker EXCEPT ![w] = next],
         \/ next.at = "idle"
         \/ worker[w].at # "idle" /\ next.caller = worker[w].caller
  PROVE  Quiet(c)'
  <1>1. worker'[w] = next /\ \A v \in Worker : v # w => worker'[v] = worker[v]
    BY DEF TypeOK
  <1> QED BY <1>1 DEF Quiet

(* The next minute begins before the wait is over.                         *)
LEMMA NextMinute ==
  ASSUME NEW t \in Nat, NEW p \in Nat, p > t + (Window - (t % Window))
  PROVE  MinuteOf(t) < MinuteOf(p)
  <1>1. ASSUME NEW W \in Nat \ {0}, p > t + (W - (t % W))
        PROVE  t \div W < p \div W
    BY <1>1
  <1> QED BY <1>1, WindowIsPositive DEF MinuteOf

LEMMA PromisesAreKept ==
  ASSUME TypeOK, TypeOK', NotAhead, OneBackend, PromiseIsKept, [Next]_vars
  PROVE  PromiseIsKept'
  <1> SUFFICES ASSUME NEW c \in Caller, promise'[c] # NoPromise
               PROVE  Quiet(c)' /\ HasRoomFrom(c, promise[c])'
    BY DEF PromiseIsKept
  <1>c. /\ clock \in Nat /\ MinuteOf(clock) \in Nat /\ Window \in Nat \ {0}
        /\ promise'[c] \in Nat /\ Minutes \subseteq Nat
    BY ClockFacts, WindowIsPositive DEF TypeOK
  \* The promise stands, c's counters do not move, and nor do c's requests.
  <1>s. ASSUME promise'[c] = promise[c], UNCHANGED <<durable, requests[c], llm_rate[c]>>,
               Quiet(c) => Quiet(c)'
        PROVE  Quiet(c)' /\ HasRoomFrom(c, promise[c])'
    <2>1. Quiet(c) /\ HasRoomFrom(c, promise[c])
      BY <1>s DEF PromiseIsKept
    <2> QED BY <1>s, <2>1 DEF HasRoomFrom
  <1>1. ASSUME NEW w \in Worker, NEW b \in Caller, Chat(w, b)
        PROVE  Quiet(c)' /\ HasRoomFrom(c, promise[c])'
    <2>1. b # c /\ promise'[c] = promise[c]
      BY <1>1 DEF Chat, TypeOK
    <2>2. worker'[w].caller = b /\ \A v \in Worker : v # w => worker'[v] = worker[v]
      BY <1>1 DEF Chat, TypeOK
    <2>3. Quiet(c) => Quiet(c)'
      BY <2>1, <2>2 DEF Quiet
    <2> QED BY <1>1, <1>s, <2>1, <2>3 DEF Chat, memory, rows
  <1>2. ASSUME NEW w \in Worker, MemoryCheck(w)
        PROVE  Quiet(c)' /\ HasRoomFrom(c, promise[c])'
    <2> DEFINE req == worker[w]
               b == req.caller
               now == req.now
               W == Pruned(requests[b], now)
               wait == Window - (now - W[1])
    <2>1. b \in Caller /\ now \in Nat /\ now \in Time /\ now <= clock /\ req.at = "rate"
      BY <1>2, InHand DEF MemoryCheck, NotAhead
    <2>2. CASE b # c
      <3>1. requests'[c] = requests[c] /\ promise'[c] = promise[c]
        BY <1>2, <2>1, <2>2 DEF MemoryCheck, RefuseRate, Pass, TypeOK
      <3>2. UNCHANGED <<durable, llm_rate>>
        BY <1>2 DEF MemoryCheck, rows
      <3>3. PICK next : /\ worker' = [worker EXCEPT ![w] = next]
                        /\ next.at = "idle" \/ next.caller = b
        BY <1>2 DEF MemoryCheck, RefuseRate, Pass, Idle
      <3>4. Quiet(c) => Quiet(c)'
        BY <2>1, <3>3, StillQuiet
      <3> QED BY <1>s, <3>1, <3>2, <3>4
    <2>3. CASE b = c /\ Len(W) >= RPM
      <3>1. /\ requests' = [requests EXCEPT ![b] = W]
            /\ RefuseRate(w, b, TRUE, wait) /\ ~durable /\ durable' = durable
        BY <1>2, <2>3 DEF MemoryCheck
      <3>2. requests'[c] = W
        BY <2>3, <3>1 DEF TypeOK
      <3>3. /\ promise'[c] = clock + SECOND * RetryAfter(wait)
            /\ \A v \in Worker \ {w} : worker[v] = Idle \/ worker[v].caller # c
        BY <2>3, <3>1 DEF RefuseRate, TypeOK
      <3>4. Quiet(c)'
        <4>1. worker'[w] = Idle /\ \A v \in Worker : v # w => worker'[v] = worker[v]
          BY <3>1 DEF RefuseRate, TypeOK
        <4> QED BY <3>3, <4>1 DEF Quiet, Idle
      <3>5. W[1] \in Nat /\ wait \in Int
        <4>1. W \in Seq(Time) /\ Len(W) >= 1
          BY <2>1, <2>3, RequestsFacts
        <4>2. W[1] \in Time
          <5> HIDE DEF W
          <5> QED BY <4>1
        <4>3. W[1] \in Nat
          BY <4>2 DEF Time
        <4> HIDE DEF W, now
        <4> QED BY <1>c, <2>1, <4>3
      <3>6. requests'[c][1] < promise'[c] - Window
        <4>1. SECOND * RetryAfter(wait) \in Nat /\ SECOND * RetryAfter(wait) > wait
          BY <3>5, RetryAfterFacts
        <4> DEFINE k == SECOND * RetryAfter(wait)
                   a == W[1]
        <4>2. k > Window - (now - a)
          BY <4>1
        <4>3. requests'[c][1] = a /\ promise'[c] = clock + k
          BY <3>2, <3>3
        <4> HIDE DEF k, a, W, now, wait
        <4> QED BY <1>c, <2>1, <3>5, <4>1, <4>2, <4>3 DEF k, a
      <3> QED BY <3>1, <3>4, <3>6 DEF HasRoomFrom
    <2>4. CASE b = c /\ ~(Len(W) >= RPM)
      <3>1. promise'[c] = promise[c]
        BY <1>2, <2>4 DEF MemoryCheck, Pass
      <3>2. Quiet(c)
        BY <3>1 DEF PromiseIsKept
      <3> QED BY <2>1, <2>4, <3>2 DEF Quiet
    <2> QED BY <2>2, <2>3, <2>4
  <1>3. ASSUME NEW w \in Worker, RateCheck(w)
        PROVE  Quiet(c)' /\ HasRoomFrom(c, promise[c])'
    <2> DEFINE req == worker[w]
               b == req.caller
               now == req.now
               m == MinuteOf(now)
               wait == Window - (now % Window)
    <2>1. b \in Caller /\ now \in Nat /\ now \in Time /\ now <= clock /\ req.at = "rate"
      BY <1>3, InHand DEF RateCheck, NotAhead
    <2>2. /\ llm_rate' = [llm_rate EXCEPT ![b][m] = @ + 1] /\ UNCHANGED <<durable, requests>>
          /\ durable
      BY <1>3 DEF RateCheck, memory
    <2>3. CASE b # c
      <3>1. llm_rate'[c] = llm_rate[c] /\ promise'[c] = promise[c]
        BY <1>3, <2>1, <2>2, <2>3 DEF RateCheck, RefuseRate, Pass, TypeOK
      <3>2. PICK next : /\ worker' = [worker EXCEPT ![w] = next]
                        /\ next.at = "idle" \/ next.caller = b
        <4>1. [req EXCEPT !.at = "budget"].caller = b
          BY <2>1, InHand DEF Checking
        <4> QED BY <1>3, <4>1, ZenonT(30) DEF RateCheck, RefuseRate, Pass, Idle
      <3>3. Quiet(c) => Quiet(c)'
        BY <2>1, <3>2, StillQuiet
      <3> QED BY <1>s, <2>2, <3>1, <3>3
    <2>4. CASE b = c /\ llm_rate'[b][m] > RPM
      <3>1. RefuseRate(w, b, MinuteOf(clock) = m, wait)
        BY <1>3, <2>4 DEF RateCheck
      <3>2. /\ promise'[c] = clock + SECOND * RetryAfter(wait) /\ MinuteOf(clock) = m
            /\ \A v \in Worker \ {w} : worker[v] = Idle \/ worker[v].caller # c
        BY <2>4, <3>1 DEF RefuseRate, TypeOK
      <3>3. Quiet(c)'
        <4>1. worker'[w] = Idle /\ \A v \in Worker : v # w => worker'[v] = worker[v]
          BY <3>1 DEF RefuseRate, TypeOK
        <4> QED BY <3>2, <4>1 DEF Quiet, Idle
      <3>4. wait \in Int /\ now % Window \in Nat
        <4> HIDE DEF now
        <4> QED BY <1>c, <2>1
      <3>5. m < MinuteOf(promise'[c])
        <4> DEFINE k == SECOND * RetryAfter(wait)
        <4>1. k \in Nat /\ k > wait
          BY <3>4, RetryAfterFacts
        <4>2. promise'[c] = clock + k
          BY <3>2
        <4> HIDE DEF k, now
        <4>3. promise'[c] > now + (Window - (now % Window))
          BY <1>c, <2>1, <3>4, <4>1, <4>2
        <4>4. MinuteOf(now) < MinuteOf(promise'[c])
          BY <1>c, <2>1, <4>3, NextMinute
        <4> QED BY <4>4
      <3>6. ASSUME NEW k \in Minutes, k >= MinuteOf(promise'[c])
            PROVE  llm_rate'[c][k] = 0
        <4>1. MinuteOf(promise'[c]) \in Nat
          BY <1>c, MinutesInOrder
        <4>2. k > MinuteOf(clock) /\ k # m
          <5> HIDE DEF m
          <5> QED BY <1>c, <3>2, <3>5, <3>6, <4>1
        <4>3. llm_rate[c][k] = 0
          BY <3>6, <4>2 DEF NotAhead
        <4> QED BY <2>2, <2>4, <3>6, <4>2, <4>3 DEF TypeOK
      <3> QED BY <2>2, <3>3, <3>6 DEF HasRoomFrom
    <2>5. CASE b = c /\ ~(llm_rate'[b][m] > RPM)
      <3>1. promise'[c] = promise[c]
        BY <1>3, <2>5 DEF RateCheck, Pass
      <3>2. Quiet(c)
        BY <3>1 DEF PromiseIsKept
      <3> QED BY <2>1, <2>5, <3>2 DEF Quiet
    <2> QED BY <2>3, <2>4, <2>5
  \* The steps that only move a request on.
  <1>4. ASSUME NEW w \in Worker, NEW used \in Usage,
               BudgetCheck(w) \/ ProviderAnswers(w, used) \/ Fails(w) \/ MemoryCharge(w) \/ TakeDay(w)
        PROVE  Quiet(c)' /\ HasRoomFrom(c, promise[c])'
    <2>1. UNCHANGED <<durable, requests, llm_rate, promise>> /\ worker[w].at # "idle"
      BY <1>4 DEF BudgetCheck, ProviderAnswers, Fails, MemoryCharge, TakeDay, memory, rows, history
    <2>2. PICK next : /\ worker' = [worker EXCEPT ![w] = next]
                      /\ next.at = "idle" \/ next.caller = worker[w].caller
      BY <1>4 DEF BudgetCheck, ProviderAnswers, Fails, MemoryCharge, TakeDay, Idle
    <2>3. Quiet(c) => Quiet(c)'
      BY <2>1, <2>2, StillQuiet
    <2> QED BY <1>s, <2>1, <2>3
  <1>5. ASSUME NEW w \in Worker, WriteCharge(w)
        PROVE  Quiet(c)' /\ HasRoomFrom(c, promise[c])'
    <2>1. /\ worker' = [worker EXCEPT ![w] = Idle] /\ UNCHANGED <<durable, requests, promise>>
          /\ \A m \in Minutes : llm_rate'[c][m] = 0 \/ llm_rate'[c][m] = llm_rate[c][m]
      BY <1>5 DEF WriteCharge, memory, history
    <2>2. Quiet(c) /\ HasRoomFrom(c, promise[c])
      BY <2>1 DEF PromiseIsKept
    <2>3. Quiet(c)'
      BY <2>1, <2>2, StillQuiet DEF Idle
    <2> QED BY <2>1, <2>2, <2>3 DEF HasRoomFrom
  <1>6. CASE Tick
    BY <1>6, <1>s DEF Tick, memory, rows, history, Quiet
  <1>7. CASE Restart
    <2>1. /\ worker' = [w \in Worker |-> Idle] /\ UNCHANGED <<durable, llm_rate, promise>>
          /\ durable \/ requests' = [b \in Caller |-> <<>>]
          /\ durable => requests' = requests
      BY <1>7 DEF Restart, memory, rows
    <2>2. Quiet(c)'
      BY <2>1 DEF Quiet, Idle
    <2>3. HasRoomFrom(c, promise[c])
      BY <2>1 DEF PromiseIsKept
    <2>4. CASE durable
      BY <2>1, <2>2, <2>3, <2>4 DEF HasRoomFrom
    <2>5. CASE ~durable
      <3>1. Len(requests'[c]) < RPM
        BY <2>1, <2>5
      <3> QED BY <2>1, <2>2, <2>5, <3>1 DEF HasRoomFrom
    <2> QED BY <2>4, <2>5
  <1>8. CASE UNCHANGED vars
    BY <1>8, <1>s DEF vars, Quiet
  <1> QED BY <1>1, <1>2, <1>3, <1>4, <1>5, <1>6, <1>7, <1>8 DEF Next

-----------------------------------------------------------------------------
(* The invariant, and what it is for.                                      *)

LEMMA GatewayInvAtStart == Init => GatewayInv
  <1> SUFFICES ASSUME Init PROVE GatewayInv
    OBVIOUS
  <1>0. 0 \in Time /\ 0 \in Days /\ 0 \in Minutes
    BY MinutesInOrder, DaysInOrder DEF Time, Days, Minutes
  <1>1. TypeOK
    BY <1>0 DEF Init, TypeOK, NoPromise
  <1>c. DayOf(clock) \in Nat /\ MinuteOf(clock) \in Nat
    BY <1>1, ClockFacts
  <1>2. NotAhead
    BY <1>0, <1>c DEF Init, NotAhead, Idle
  <1>3. OneBackend
    BY <1>0 DEF Init, OneBackend, Idle
  <1>4. WithinReserve
    <2>1. ASSUME NEW c \in Caller, NEW d \in Days
          PROVE  Spent(c, d) + Cardinality(Reserve(c, d)) * Max(Usage) <= Most
      <3>1. Reserve(c, d) = {}
        BY DEF Init, Reserve, Holds, Idle
      <3>2. Cardinality(Reserve(c, d)) * Max(Usage) = 0
        <4>1. Cardinality(Reserve(c, d)) = 0 /\ Max(Usage) \in Nat
          BY <3>1, FS_EmptySet, LargestUsage
        <4> QED BY <4>1
      <3>3. Spent(c, d) = 0
        BY <2>1 DEF Init, Spent, UsedOn
      <3>4. Cardinality(Worker) * Max(Usage) \in Nat
        <4>1. Cardinality(Worker) \in Nat /\ Max(Usage) \in Nat
          BY FS_CardinalityType, LargestUsage
        <4> QED BY <4>1
      <3> QED BY <3>2, <3>3, <3>4 DEF Most
    <2> QED BY <2>1 DEF WithinReserve
  <1>5. \A c \in Caller : DOMAIN passed[c] = {} /\ requests[c] = <<>> /\ promise[c] = NoPromise
    BY DEF Init
  <1>6. PassedInOrder /\ PassedApart /\ RowHasPassed /\ PromiseIsKept
    BY <1>5 DEF PassedInOrder, PassedApart, RowHasPassed, PromiseIsKept
  <1>7. DequeHasPassed
    <2>1. ASSUME NEW c \in Caller
          PROVE  \E f \in [DOMAIN passed[c] -> Int] :
                   Places(f, passed[c], requests[c], clock - Window)
      <3> DEFINE f == [i \in {} |-> 0]
      <3>1. f \in [DOMAIN passed[c] -> Int]
        BY <1>5
      <3>2. Places(f, passed[c], requests[c], clock - Window)
        BY <1>5 DEF Places
      <3> QED BY <3>1, <3>2
    <2>2. \A c \in Caller : Len(requests[c]) <= RPM
      BY <1>5
    <2> QED BY <2>1, <2>2 DEF DequeHasPassed
  <1> QED BY <1>1, <1>2, <1>3, <1>4, <1>6, <1>7 DEF GatewayInv

LEMMA GatewayInvIsKept == GatewayInv /\ [Next]_vars => GatewayInv'
  <1> SUFFICES ASSUME GatewayInv, [Next]_vars PROVE GatewayInv'
    OBVIOUS
  <1> USE DEF GatewayInv
  <1>1. TypeOK'
    BY TypesAreKept
  <1>2. NotAhead' /\ OneBackend' /\ PassedInOrder' /\ PromiseIsKept'
    BY <1>1, NotAheadIsKept, OneBackendIsKept, PassedInOrderIsKept, PromisesAreKept
  <1>3. WithinReserve'
    BY <1>1, WithinReserveIsKept
  <1>4. PassedApart' /\ RowHasPassed' /\ DequeHasPassed'
    <2>1. CASE durable
      BY <2>1, RowsAreKept DEF DequeHasPassed
    <2>2. CASE ~durable
      BY <2>2, DequesAreKept DEF RowHasPassed
    <2> QED BY <2>1, <2>2
  <1> QED BY <1>1, <1>2, <1>3, <1>4

LEMMA GatewayInvHolds == Spec => []GatewayInv
  BY GatewayInvAtStart, GatewayInvIsKept, PTL DEF Spec

(* Passes RPM apart are in different windows, so the passes of one window  *)
(* are RPM in a row at most, counted from its first.                       *)
LEMMA RateFollows == GatewayInv => RateHolds
  <1> SUFFICES ASSUME GatewayInv, NEW c \in Caller, NEW t \in Time,
                      NEW window, window = IF durable THEN {s \in Time : MinuteOf(s) = MinuteOf(t)}
                                           ELSE {s \in Time : t - Window <= s /\ s <= t}
               PROVE  Cardinality({i \in DOMAIN passed[c] : passed[c][i] \in window}) <= RPM
    BY DEF RateHolds
  <1> DEFINE P == passed[c]
             S == {i \in DOMAIN P : P[i] \in window}
  <1>1. TypeOK /\ Len(P) \in Nat /\ DOMAIN P = 1..Len(P) /\ \A i \in DOMAIN P : P[i] \in Nat
    BY PassedFacts DEF GatewayInv
  <1>2. CASE S = {}
    <2>1. Cardinality(S) = 0
      BY <1>2, FS_EmptySet
    <2> QED BY <2>1
  <1>3. CASE S # {}
    <2>1. PICK i \in S : \A j \in S : i <= j
      <3>1. S \subseteq Nat
        BY <1>1
      <3> HIDE DEF S
      <3> QED BY <1>3, <3>1, LeastExists
    <2>2. i \in Nat /\ i \in 1..Len(P)
      BY <1>1, <2>1
    <2>3. ASSUME NEW j \in S PROVE j \in i..(i + RPM - 1)
      <3>1. j \in 1..Len(P) /\ i <= j
        BY <1>1, <2>1, <2>3
      <3>2. SUFFICES ASSUME j >= i + RPM PROVE FALSE
        BY <2>2, <3>1
      <3> DEFINE k == i + RPM
      <3>3. k \in DOMAIN P /\ k = i + RPM /\ k <= j
        BY <1>1, <2>2, <3>1, <3>2
      <3>4. P[i] \in Nat /\ P[k] \in Nat /\ P[j] \in Nat /\ P[k] <= P[j]
        BY <1>1, <2>2, <3>1, <3>3 DEF GatewayInv, PassedInOrder
      <3>5. P[i] \in window /\ P[j] \in window
        BY <2>1, <2>3
      <3>6. CASE durable
        <4>1. MinuteOf(P[i]) = MinuteOf(P[j])
          BY <3>5, <3>6
        <4>2. MinuteOf(P[i]) < MinuteOf(P[k])
          BY <1>1, <2>2, <3>3, <3>6 DEF GatewayInv, PassedApart
        <4>3. MinuteOf(P[k]) <= MinuteOf(P[j]) /\ MinuteOf(P[k]) \in Nat /\ MinuteOf(P[j]) \in Nat
          BY <3>4, MinutesInOrder
        <4>4. MinuteOf(P[i]) \in Nat
          BY <3>4, MinutesInOrder
        <4> QED BY <4>1, <4>2, <4>3, <4>4
      <3>7. CASE ~durable
        <4>1. t - Window <= P[i] /\ P[j] <= t /\ t \in Nat /\ Window \in Nat
          BY <3>5, <3>7, WindowIsPositive DEF Time
        <4>2. P[i] + Window < P[k]
          BY <1>1, <2>2, <3>3, <3>7 DEF GatewayInv, PassedApart
        <4> HIDE DEF P, k
        <4> QED BY <3>4, <4>1, <4>2
      <3> QED BY <3>6, <3>7
    <2>4. S \subseteq i..(i + RPM - 1)
      BY <2>3
    <2>5. /\ IsFiniteSet(i..(i + RPM - 1))
          /\ Cardinality(i..(i + RPM - 1)) = RPM
      <3>1. i \in Int /\ i + RPM - 1 \in Int /\ ~(i > i + RPM - 1)
            /\ i + RPM - 1 - i + 1 = RPM
        BY <2>2
      <3> QED BY <3>1, FS_Interval
    <2> HIDE DEF S
    <2>6. Cardinality(S) <= RPM
      BY <2>4, <2>5, FS_Subset
    <2> QED BY <2>6 DEF S
  <1> QED BY <1>2, <1>3

LEMMA OvershootFollows == GatewayInv => OvershootIsBounded
  <1> SUFFICES ASSUME GatewayInv, NEW c \in Caller
               PROVE  tokens[c].used <= Most /\ \A d \in Days : llm_daily[c][d] <= Most
    BY DEF OvershootIsBounded, Most
  <1>m. Most \in Nat /\ Max(Usage) \in Nat
    <2>1. Cardinality(Worker) \in Nat /\ Max(Usage) \in Nat
      BY FS_CardinalityType, LargestUsage
    <2>2. Cardinality(Worker) * Max(Usage) \in Nat
      BY <2>1
    <2> QED BY <2>1, <2>2 DEF Most
  <1>t. tokens[c].day \in Days /\ tokens[c].used \in Nat /\ llm_daily[c] \in [Days -> Nat]
    BY DEF GatewayInv, TypeOK
  <1>1. ASSUME NEW d \in Days, Spent(c, d) \in Nat PROVE Spent(c, d) <= Most
    <2> DEFINE n == Cardinality(Reserve(c, d))
    <2>1. n \in Nat
      <3>1. Reserve(c, d) \subseteq Worker
        BY DEF Reserve
      <3> QED BY <3>1, FS_Subset, FS_CardinalityType
    <2>2. n * Max(Usage) \in Nat
      BY <1>m, <2>1
    <2>3. Spent(c, d) + n * Max(Usage) <= Most
      BY DEF GatewayInv, WithinReserve
    <2> HIDE DEF n
    <2> QED BY <1>1, <1>m, <2>2, <2>3
  <1>2. CASE durable
    <2>1. tokens[c].used = 0
      BY <1>2 DEF GatewayInv, OneBackend
    <2>2. \A d \in Days : llm_daily[c][d] <= Most
      BY <1>1, <1>2, <1>t DEF Spent
    <2> QED BY <1>m, <2>1, <2>2
  <1>3. CASE ~durable
    <2>1. \A d \in Days : llm_daily[c][d] = 0
      BY <1>3 DEF GatewayInv, OneBackend
    <2>2. Spent(c, tokens[c].day) = tokens[c].used
      BY <1>3 DEF Spent, UsedOn
    <2>3. tokens[c].used <= Most
      BY <1>1, <1>t, <2>2
    <2> QED BY <1>m, <2>1, <2>3
  <1> QED BY <1>2, <1>3

LEMMA RetryAfterFollows == GatewayInv => RetryAfterIsEnough
  <1> SUFFICES ASSUME GatewayInv, NEW c \in Caller, promise[c] # NoPromise, clock >= promise[c]
               PROVE  IF durable THEN llm_rate[c][MinuteOf(clock)] < RPM
                                 ELSE Len(Pruned(requests[c], clock)) < RPM
    BY DEF RetryAfterIsEnough
  <1>1. /\ TypeOK /\ clock \in Time /\ clock \in Nat /\ promise[c] \in Nat
        /\ Window \in Nat /\ MinuteOf(clock) \in Minutes
    BY ClockFacts, WindowIsPositive DEF GatewayInv, TypeOK
  <1>2. HasRoomFrom(c, promise[c])
    BY DEF GatewayInv, PromiseIsKept
  <1>3. CASE durable
    <2>1. MinuteOf(clock) >= MinuteOf(promise[c])
      BY <1>1, MinutesInOrder
    <2> QED BY <1>1, <1>2, <1>3, <2>1 DEF HasRoomFrom
  <1>4. CASE ~durable
    <2> DEFINE s == requests[c]
               W == Pruned(s, clock)
    <2>1. s \in Seq(Time) /\ Len(s) \in Nat /\ Len(s) <= RPM
      BY <1>1, <1>4, RequestsFacts DEF GatewayInv, DequeHasPassed
    <2>2. PICK p \in 0..Len(s) :
            /\ Len(W) = Len(s) - p
            /\ p < Len(s) => s[p + 1] >= clock - Window
      BY <1>1, <2>1, PrunedIsASuffix
    <2>3. p \in Nat
      BY <2>1
    <2>4. CASE Len(s) < RPM \/ p > 0
      BY <1>4, <2>1, <2>2, <2>3, <2>4
    <2>5. CASE ~(Len(s) < RPM) /\ p = 0
      <3>1. s[1] < promise[c] - Window
        BY <1>2, <1>4, <2>5 DEF HasRoomFrom
      <3>2. s[1] >= clock - Window /\ s[1] \in Nat
        <4>1. Len(s) >= 1
          BY <2>1, <2>5
        <4>2. s[1] \in Time /\ s[1] >= clock - Window
          <5> HIDE DEF s
          <5> QED BY <2>1, <2>2, <2>5, <4>1
        <4> QED BY <4>2 DEF Time
      <3> HIDE DEF s, W
      <3> QED BY <1>1, <3>1, <3>2
    <2> QED BY <2>1, <2>3, <2>4, <2>5
  <1> QED BY <1>3, <1>4

-----------------------------------------------------------------------------
(* Every counter of either limiter, every request in hand and the          *)
(* histories stay of their types, whatever order check, charge, clean-up,  *)
(* failure and restart come in.                                            *)
THEOREM GatewayTypeOK == Spec => []TypeOK
  <1>1. GatewayInv => TypeOK
    BY DEF GatewayInv
  <1> QED BY <1>1, GatewayInvHolds, PTL

(* The rate limit holds: of the requests Limiter.check counts in time, no  *)
(* more than requests_per_minute pass in any sixty seconds, and of the     *)
(* ones PostgresLimiter.check does, in any minute, though requests are     *)
(* counted late and out of order, popleft and the clean-up of charge take  *)
(* counts away, and replicas share the rows.                               *)
THEOREM RateIsHeld == Spec => []RateHolds
  BY RateFollows, GatewayInvHolds, PTL

(* The overshoot is bounded: with check before the call and charge after   *)
(* it, a day's use exceeds tokens_per_day by less than the largest use a   *)
(* request can have for each worker, also when a call runs over midnight.  *)
THEOREM BudgetOvershoot == Spec => []OvershootIsBounded
  BY OvershootFollows, GatewayInvHolds, PTL

(* Retry-After is long enough: the seconds that check sends with its 429   *)
(* are rounded up, so that a caller who waits that long and sends nothing  *)
(* else finds the deque, or the row of the minute it is then, with room.   *)
THEOREM RetryAfterSuffices == Spec => []RetryAfterIsEnough
  BY RetryAfterFollows, GatewayInvHolds, PTL
=============================================================================
