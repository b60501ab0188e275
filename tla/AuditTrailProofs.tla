-------------------------- MODULE AuditTrailProofs --------------------------
(***************************************************************************)
(* The trail and the hop it takes, for any threads, lifetimes, timeouts,   *)
(* queue sizes and numbers of records and restarts.                        *)
(*                                                                         *)
(* The hop. A token's age and what is left of it add up to its lifetime,   *)
(* but for the rounding, because the time kept with it was taken before it *)
(* was asked for (AgesAddUp); so what a connecting thread has in hand is   *)
(* short of the lifetime by less than the reuse time and how long it has   *)
(* been connecting (InHand). A sleeping watcher wakes before the margin of *)
(* its certificate (WakesInTime).                                          *)
(*                                                                         *)
(* The trail. Threads write and then queue, in any order; but what one     *)
(* thread has written stays in order on its way: what is stored or late    *)
(* precedes what the worker has, which precedes what is queued, which      *)
(* precedes what is still to be queued (Precedes, InOrder). So no record   *)
(* is in two places, and one that was not given up is the newest of its    *)
(* writer when it is stored (PastIsApart, LateIsGivenUp).                  *)
(*                                                                         *)
(* Queries. The memory has the first rows of the database, so what it      *)
(* finds is the beginning of what the database finds (FoundIsKept).        *)
(***************************************************************************)
EXTENDS AuditTrail, SequenceTheorems, WellFoundedInduction, TLAPS

USE HopAssumption, TrailAssumption

-----------------------------------------------------------------------------
(* The hop.                                                                *)

AgesAddUp ==
  /\ tokens.age < TTL => tokens.age + tokens.left >= Life - Grain
  /\ \A t \in Thread : hop[t].at = "issued" =>
       hop[t].age <= FetchTime /\ hop[t].age + hop[t].left >= Life - Grain

InHand ==
  \A t \in Thread : hop[t].at = "connects" =>
    hop[t].age <= ConnectTime /\ hop[t].age + hop[t].left > Life - TTL - Grain

AsksInTime == \A t \in Thread : hop[t].at = "asks" => hop[t].age <= FetchTime

WakesInTime ==
  serving.at = "up" =>
    serving.left > 0 /\ (serving.nap > 0 => serving.left >= serving.nap + Margin)

HopInv == HopTypeOK /\ AgesAddUp /\ InHand /\ AsksInTime /\ WakesInTime

\* The steps of the hop, whatever goes on in the trail.
HopNext ==
  \/ \E t \in Thread : Look(t) \/ Issue(t) \/ Keep(t) \/ Send(t) \/ Leave(t)
  \/ Start \/ Watch \/ Exit \/ Tick
  \/ UNCHANGED <<tokens, hop, serving>>

Place == {"off", "asks", "issued", "connects", "sent"}
HopState == [at : Place, age : Nat, left : Int]
Cached == [age : 0..TTL, left : Int]

(* What is true of the hop's first state and of a hop that is over.        *)
LEMMA OffType == Off \in HopState /\ Off.at = "off"
  BY DEF Off, HopState, Place

LEMMA NoTokenType == NoToken \in Cached /\ NoToken.age = TTL
  BY DEF NoToken, Cached

LEMMA DownType ==
  Down \in [at : {"down", "up"}, left : 0..Span, nap : 0..Nap] /\ Down.at = "down"
  BY DEF Down

(* One thread's hop changes to h and keeps the token's arithmetic.         *)
GoodHop(h) ==
  /\ h \in HopState
  /\ h.at = "issued" => h.age <= FetchTime /\ h.age + h.left >= Life - Grain
  /\ h.at = "asks" => h.age <= FetchTime
  /\ h.at = "connects" => h.age <= ConnectTime /\ h.age + h.left > Life - TTL - Grain

GoodToken(k) == k \in Cached /\ (k.age < TTL => k.age + k.left >= Life - Grain)

LEMMA HopTypes ==
  ASSUME HopInv
  PROVE  GoodToken(tokens) /\ hop \in [Thread -> HopState] /\ \A t \in Thread : GoodHop(hop[t])
  BY DEF HopInv, HopTypeOK, HopState, Place, Cached, GoodToken, GoodHop, AgesAddUp, InHand,
         AsksInTime

LEMMA HopsAreGood ==
  ASSUME GoodToken(tokens)', hop' \in [Thread -> HopState], \A t \in Thread : GoodHop(hop'[t]),
         serving' \in [at : {"down", "up"}, left : 0..Span, nap : 0..Nap], WakesInTime'
  PROVE  HopInv'
  BY DEF HopInv, HopTypeOK, HopState, Place, Cached, GoodToken, GoodHop, AgesAddUp, InHand,
         AsksInTime

LEMMA HopChanges ==
  ASSUME HopInv, NEW t \in Thread, NEW h, GoodHop(h), hop' = [hop EXCEPT ![t] = h],
         UNCHANGED serving, GoodToken(tokens')
  PROVE  HopInv'
  <1>1. hop' \in [Thread -> HopState]
    BY HopTypes DEF GoodHop
  <1>2. \A u \in Thread : GoodHop(hop'[u])
    <2>1. TAKE u \in Thread
    <2>2. hop'[u] = IF u = t THEN h ELSE hop[u]
      BY HopTypes
    <2> QED BY <2>2, HopTypes
  <1>3. WakesInTime' /\ serving' \in [at : {"down", "up"}, left : 0..Span, nap : 0..Nap]
    BY DEF HopInv, HopTypeOK, WakesInTime
  <1> QED BY <1>1, <1>2, <1>3, HopsAreGood

LEMMA LookKeeps == ASSUME HopInv, NEW t \in Thread, Look(t) PROVE HopInv'
  <1> DEFINE h == IF tokens.age < TTL THEN [at |-> "connects", age |-> 0, left |-> tokens.left]
                                      ELSE [at |-> "asks", age |-> 0, left |-> 0]
  <1>1. hop' = [hop EXCEPT ![t] = h] /\ UNCHANGED <<tokens, serving>>
    BY DEF Look
  <1>2. GoodHop(h)
    BY HopTypes DEF GoodHop, GoodToken, Cached, HopState, Place
  <1> HIDE DEF h
  <1> QED BY <1>1, <1>2, HopTypes, HopChanges

LEMMA IssueKeeps == ASSUME HopInv, NEW t \in Thread, Issue(t) PROVE HopInv'
  <1>1. PICK cut \in 0..Grain :
          hop' = [hop EXCEPT ![t].at = "issued", ![t].left = Life - cut]
    BY DEF Issue
  <1> DEFINE h == [hop[t] EXCEPT !.at = "issued", !.left = Life - cut]
  <1>2. hop[t] \in HopState /\ hop[t].age \in Nat /\ hop[t].age <= FetchTime /\ Life - cut \in Int
    BY HopTypes DEF Issue, GoodHop, HopState
  <1>3. hop' = [hop EXCEPT ![t] = h] /\ UNCHANGED <<tokens, serving>>
    BY <1>1, HopTypes DEF Issue
  <1>4. h \in HopState /\ h.at = "issued" /\ h.age = hop[t].age /\ h.left = Life - cut
    BY <1>2 DEF HopState, Place
  <1> HIDE DEF h
  <1>5. GoodHop(h)
    BY <1>2, <1>4 DEF GoodHop
  <1> QED BY <1>3, <1>5, HopTypes, HopChanges

LEMMA KeepKeeps == ASSUME HopInv, NEW t \in Thread, Keep(t) PROVE HopInv'
  <1> DEFINE h == [hop[t] EXCEPT !.at = "connects", !.age = 0]
             k == [age |-> hop[t].age, left |-> hop[t].left]
  <1>1. /\ hop[t] \in HopState /\ hop[t].age \in Nat /\ hop[t].left \in Int
        /\ hop[t].age <= FetchTime /\ hop[t].age + hop[t].left >= Life - Grain
    BY HopTypes DEF Keep, GoodHop, HopState
  <1>2. hop' = [hop EXCEPT ![t] = h] /\ UNCHANGED serving /\ tokens' = k
    BY HopTypes DEF Keep
  <1>3. h \in HopState /\ h.at = "connects" /\ h.age = 0 /\ h.left = hop[t].left
    BY <1>1 DEF HopState, Place
  <1>4. GoodToken(k)
    BY <1>1 DEF GoodToken, Cached
  <1> HIDE DEF h, k
  <1>5. GoodHop(h)
    BY <1>1, <1>3 DEF GoodHop
  <1> QED BY <1>2, <1>4, <1>5, HopChanges

LEMMA SendKeeps == ASSUME HopInv, NEW t \in Thread, Send(t) PROVE HopInv'
  <1> DEFINE h == [hop[t] EXCEPT !.at = "sent", !.age = 0]
  <1>1. hop[t] \in HopState
    BY HopTypes
  <1>2. hop' = [hop EXCEPT ![t] = h] /\ UNCHANGED <<tokens, serving>>
    BY HopTypes DEF Send
  <1>3. h \in HopState /\ h.at = "sent"
    BY <1>1 DEF HopState, Place
  <1> HIDE DEF h
  <1>4. GoodHop(h)
    BY <1>3 DEF GoodHop
  <1> QED BY <1>2, <1>4, HopTypes, HopChanges

LEMMA LeaveKeeps == ASSUME HopInv, NEW t \in Thread, Leave(t) PROVE HopInv'
  BY OffType, HopTypes, HopChanges DEF Leave, GoodHop

(* The listener: the tokens are left alone, or all gone.                   *)
LEMMA StartKeeps == ASSUME HopInv, Start PROVE HopInv'
  <1>1. PICK left \in (Span \div 2)..Span : serving' = [at |-> "up", left |-> left, nap |-> 0]
    BY DEF Start
  <1>2. Span \div 2 \in Nat /\ Span \div 2 > 0
    OBVIOUS
  <1>3. WakesInTime' /\ serving' \in [at : {"down", "up"}, left : 0..Span, nap : 0..Nap]
    BY <1>1, <1>2 DEF WakesInTime
  <1> QED BY <1>3 DEF Start, HopInv, HopTypeOK, AgesAddUp, InHand, AsksInTime

LEMMA WatchKeeps == ASSUME HopInv, Watch PROVE HopInv'
  <1> DEFINE delay == restart_delay(serving.left)
  <1>1. serving \in [at : {"down", "up"}, left : 0..Span, nap : 0..Nap] /\ serving.left > Margin
    BY DEF Watch, HopInv, HopTypeOK
  <1>2. delay \in 0..Nap /\ serving.left >= delay + Margin
    BY <1>1 DEF restart_delay
  <1>3. serving' = [serving EXCEPT !.nap = delay]
    BY DEF Watch
  <1> HIDE DEF delay
  <1>4. WakesInTime' /\ serving' \in [at : {"down", "up"}, left : 0..Span, nap : 0..Nap]
    BY <1>1, <1>2, <1>3 DEF WakesInTime
  <1> QED BY <1>4 DEF Watch, HopInv, HopTypeOK, AgesAddUp, InHand, AsksInTime

LEMMA ExitKeeps == ASSUME HopInv, Exit PROVE HopInv'
  <1>1. tokens' = NoToken /\ serving' = Down /\ hop' = [t \in Thread |-> Off]
    BY DEF Exit
  <1>2. GoodToken(tokens)' /\ GoodHop(Off)
    BY <1>1, NoTokenType, OffType DEF GoodToken, GoodHop
  <1>3. hop' \in [Thread -> HopState] /\ \A t \in Thread : GoodHop(hop'[t])
    BY <1>1, <1>2, OffType
  <1>4. WakesInTime' /\ serving' \in [at : {"down", "up"}, left : 0..Span, nap : 0..Nap]
    BY <1>1, DownType DEF WakesInTime
  <1> QED BY <1>2, <1>3, <1>4, HopsAreGood

(* Time takes from what is left what it adds to the age.                   *)
LEMMA TickKeeps == ASSUME HopInv, Tick PROVE HopInv'
  <1>1. serving \in [at : {"down", "up"}, left : 0..Span, nap : 0..Nap]
    BY DEF HopInv, HopTypeOK
  <1>2. GoodToken(tokens)'
    <2>1. tokens \in Cached /\ (tokens.age < TTL => tokens.age + tokens.left >= Life - Grain)
      BY HopTypes DEF GoodToken
    <2>2. CASE tokens.age + 1 < TTL
      <3>1. tokens' = [age |-> tokens.age + 1, left |-> tokens.left - 1]
        BY <2>2 DEF Tick
      <3> QED BY <2>1, <2>2, <3>1 DEF GoodToken, Cached
    <2>3. CASE ~ (tokens.age + 1 < TTL)
      <3>1. tokens' = NoToken
        BY <2>3 DEF Tick
      <3> QED BY <3>1, NoTokenType DEF GoodToken
    <2> QED BY <2>2, <2>3
  <1>4. /\ serving' \in [at : {"down", "up"}, left : 0..Span, nap : 0..Nap]
        /\ serving'.at = serving.at /\ serving'.left = Shorter(serving.left)
        /\ serving'.nap = Shorter(serving.nap)
    <2>1. serving' = [serving EXCEPT !.left = Shorter(serving.left),
                                     !.nap = Shorter(serving.nap)]
      BY DEF Tick
    <2>2. Shorter(serving.left) \in 0..Span /\ Shorter(serving.nap) \in 0..Nap
      BY <1>1 DEF Shorter
    <2> QED BY <1>1, <2>1, <2>2
  <1>5. serving.left \in Nat /\ serving.nap \in Nat
    BY <1>1
  <1>6. WakesInTime'
    <2>1. serving.at = "up" =>
            serving.nap > 0 /\ serving.left >= serving.nap + Margin
      BY DEF Tick, HopInv, WakesInTime
    <2> QED BY <1>4, <1>5, <2>1 DEF Shorter, WakesInTime
  <1>7. ASSUME NEW t \in Thread PROVE GoodHop(hop'[t])
    <2>1. CASE hop[t] = Off
      <3>1. hop'[t] = Off
        BY <2>1 DEF Tick
      <3> QED BY <3>1, OffType DEF GoodHop
    <2>2. CASE hop[t] # Off
      <3>1. hop'[t] = [hop[t] EXCEPT !.age = @ + 1, !.left = @ - 1]
        BY <2>2 DEF Tick
      <3>2. /\ hop[t].at \in {"asks", "issued"} => hop[t].age < FetchTime
            /\ hop[t].at = "connects" => hop[t].age < ConnectTime
        BY DEF Tick
      <3>3. hop[t] \in HopState /\ GoodHop(hop[t])
        BY HopTypes DEF GoodHop
      <3>4. hop[t].at \in Place /\ hop[t].age \in Nat /\ hop[t].left \in Int
        BY <3>3 DEF HopState
      <3> DEFINE n == hop[t].age + 1
                 m == hop[t].left - 1
      <3>5. n \in Nat /\ m \in Int
        BY <3>4
      <3>6. hop'[t] = [hop[t] EXCEPT !.age = n, !.left = m]
        BY <3>1
      <3> HIDE DEF n, m
      <3>7. hop'[t] \in HopState /\ hop'[t].at = hop[t].at /\ hop'[t].age = n /\ hop'[t].left = m
        BY <3>3, <3>5, <3>6 DEF HopState
      <3> QED BY <3>2, <3>3, <3>4, <3>7 DEF GoodHop, n, m
    <2> QED BY <2>1, <2>2
  <1>8. hop' \in [Thread -> HopState]
    BY <1>7 DEF Tick, GoodHop
  <1> QED BY <1>2, <1>4, <1>6, <1>7, <1>8, HopsAreGood

LEMMA HopNextKeeps == ASSUME HopInv, HopNext PROVE HopInv'
  <1>1. CASE UNCHANGED <<tokens, hop, serving>>
    BY <1>1 DEF HopInv, HopTypeOK, AgesAddUp, InHand, AsksInTime, WakesInTime
  <1> QED BY <1>1, LookKeeps, IssueKeeps, KeepKeeps, SendKeeps, LeaveKeeps, StartKeeps, WatchKeeps,
             ExitKeeps, TickKeeps DEF HopNext

LEMMA HopInitInv == HopInit => HopInv
  <1> SUFFICES ASSUME HopInit PROVE HopInv
    OBVIOUS
  <1>1. tokens = NoToken /\ serving = Down /\ \A t \in Thread : hop[t] = Off
    BY DEF HopInit
  <1>2. HopTypeOK
    BY <1>1, NoTokenType, DownType, OffType DEF HopInit, HopTypeOK, HopState, Place, Cached
  <1> QED BY <1>1, <1>2, NoTokenType, DownType, OffType
          DEF HopInv, AgesAddUp, InHand, AsksInTime, WakesInTime

(* Every step of the trail takes a step of the hop, or none.               *)
LEMMA StepOfTheHop == [Next]_vars => HopNext
  <1> SUFFICES ASSUME [Next]_vars PROVE HopNext
    OBVIOUS
  <1>1. CASE \/ \E w \in Writer : Enqueue(w) \/ \E k \in Kind : audit(w, k)
             \/ \E k \in Kind : IngestElsewhere(k)
    BY <1>1 DEF audit, Enqueue, IngestElsewhere, HopNext
  <1>2. CASE Take \/ PostFails \/ ingest_audit \/ GiveUp
    BY <1>2 DEF Take, PostFails, ingest_audit, GiveUp, HopNext
  <1>3. CASE \E rec \in late : IngestLate(rec)
    BY <1>3 DEF IngestLate, HopNext
  <1>4. CASE \E t \in Thread : Call(t) \/ Return(t) \/ fetch_jwt_svid(t) \/ Stored(t) \/ Sends(t)
    BY <1>4 DEF Call, Return, fetch_jwt_svid, Stored, Sends, HopNext
  <1>5. CASE Begins \/ Watches \/ Exits \/ Passes
    BY <1>5 DEF Begins, Watches, Exits, Passes, HopNext
  <1>6. CASE UNCHANGED vars
    BY <1>6 DEF vars, HopNext
  <1> QED BY <1>1, <1>2, <1>3, <1>4, <1>5, <1>6 DEF Next

LEMMA HopAlways == Spec => []HopInv
  BY HopInitInv, HopNextKeeps, StepOfTheHop, PTL DEF Spec, Init

(* A service that is up serves a certificate that has not expired,         *)
(* wherever SPIRE's renewals fall (restart_before_expiry).                 *)
THEOREM CertificateIsValid == Spec => []NoExpiredCertificate
  <1>1. HopInv => NoExpiredCertificate
    BY DEF HopInv, WakesInTime, NoExpiredCertificate
  <1> QED BY <1>1, HopAlways, PTL

(* A token comes to be sent when the connection is there.                  *)
LEMMA SentIsFresh ==
  ASSUME HopInv, HopNext, NEW t \in Thread, hop[t].at # "sent", hop'[t].at = "sent"
  PROVE  hop'[t].left \in Int /\ hop'[t].left > Life - TTL - ConnectTime - Grain
  <1>1. hop \in [Thread -> HopState] /\ Off.at = "off"
    BY OffType, HopTypes
  <1>2. CASE \E u \in Thread : Send(u)
    <2>1. PICK u \in Thread : Send(u)
      BY <1>2
    <2>2. hop'[t] = [hop[t] EXCEPT !.at = "sent", !.age = 0] /\ hop[t].at = "connects"
      BY <1>1, <2>1 DEF Send
    <2>3. hop'[t].left = hop[t].left
      BY <1>1, <2>2 DEF HopState
    <2>4. /\ hop[t].age \in Nat /\ hop[t].age <= ConnectTime /\ hop[t].left \in Int
          /\ hop[t].age + hop[t].left > Life - TTL - Grain
      BY <2>2, HopTypes DEF HopState, GoodHop
    <2> QED BY <2>3, <2>4
  <1>3. CASE \E u \in Thread : Look(u)
    BY <1>1, <1>3 DEF Look
  <1>4. CASE \E u \in Thread : Issue(u) \/ Keep(u) \/ Leave(u)
    BY <1>1, <1>4 DEF Issue, Keep, Leave, HopState
  <1>5. CASE Start \/ Watch \/ Exit \/ UNCHANGED <<tokens, hop, serving>>
    BY <1>1, <1>5 DEF Start, Watch, Exit
  <1>6. CASE Tick
    BY <1>1, <1>6 DEF Tick, HopState
  <1> QED BY <1>2, <1>3, <1>4, <1>5, <1>6 DEF HopNext

(* A token that is sent lacks of its lifetime no more than the reuse time, *)
(* the time to connect and the rounding take, although threads fetch and   *)
(* store tokens in any order (workload_token, open_hop).                   *)
THEOREM SentTokensAreFresh == Spec => TokenIsFreshWhenSent
  <1>1. HopInv /\ HopNext =>
          [\A t \in Thread : hop[t].at # "sent" /\ hop'[t].at = "sent" =>
             hop'[t].left > Life - TTL - ConnectTime - Grain]_hop
    BY SentIsFresh
  <1> QED BY <1>1, HopAlways, StepOfTheHop, PTL DEF TokenIsFreshWhenSent, Spec

(* What "well inside that" has to mean: were the reuse time shorter than   *)
(* the lifetime by the time to connect and the rounding, no thread would   *)
(* send a token that has expired (TOKEN_TTL_SECONDS).                      *)
THEOREM WellInsideIsLive ==
  ASSUME TTL + ConnectTime + Grain <= Life
  PROVE  Spec => TokenIsLiveWhenSent
  <1>1. HopInv /\ HopNext =>
          [\A t \in Thread : hop[t].at # "sent" /\ hop'[t].at = "sent" => hop'[t].left > 0]_hop
    <2>1. ASSUME NEW t \in Thread, HopInv, HopNext, hop[t].at # "sent", hop'[t].at = "sent"
          PROVE  hop'[t].left > 0
      BY <2>1, SentIsFresh
    <2> QED BY <2>1
  <1> QED BY <1>1, HopAlways, StepOfTheHop, PTL DEF TokenIsLiveWhenSent, Spec

-----------------------------------------------------------------------------
(* The trail.                                                              *)

\* If a and b are records of one writer, a was written before b.
Precedes(a, b) == a \in Record /\ b \in Record /\ a.by = b.by => a.id < b.id

\* rec was written before all of its writer that is still on its way.
IsPast(rec) ==
  /\ rec.id <= written
  /\ Precedes(rec, worker)
  /\ \A i \in DOMAIN queue : Precedes(rec, queue[i])
  /\ \A w \in Writer : Precedes(rec, sinking[w])

\* An item on its way is none of the others' and has been counted.
IsOwn(rec) == rec \in Record => rec.id <= written /\ rec.by \in Writer

InOrder ==
  /\ IsOwn(worker)
  /\ \A i \in DOMAIN queue : IsOwn(queue[i]) /\ Precedes(worker, queue[i])
  /\ \A i, j \in DOMAIN queue : i < j => Precedes(queue[i], queue[j])
  /\ \A w \in Writer :
       /\ sinking[w] \in Record => sinking[w].id <= written /\ sinking[w].by = w
       /\ Precedes(worker, sinking[w])
       /\ \A i \in DOMAIN queue : Precedes(queue[i], sinking[w])

PastIsApart ==
  /\ \A rec \in late : IsPast(rec)
  /\ \A i \in DOMAIN store : IsPast(store[i])
  /\ \A rec \in late, i \in DOMAIN store : rec # store[i]
  /\ \A i, j \in DOMAIN store : store[i] = store[j] => i = j

LateIsGivenUp == late \subseteq gave_up

TrailInv == TypeOK /\ InOrder /\ PastIsApart /\ LateIsGivenUp /\ NewestFirst

(* A record has a number, and the others are none.                         *)
LEMMA Numbers ==
  /\ \A rec \in Record : rec.id \in Nat /\ rec.id > 0
  /\ Issued \notin Record /\ None \notin Record
  BY DEF Record, Issued, None

LEMMA TrailTypes ==
  ASSUME TypeOK
  PROVE  /\ written \in Nat /\ worker \in Record \cup {Issued, None}
         /\ sinking \in [Writer -> Record \cup {None}]
         /\ queue \in Seq(Record \cup {Issued}) /\ Len(queue) \in Nat
         /\ DOMAIN queue = 1..Len(queue)
         /\ \A i \in DOMAIN queue : queue[i] \in Record \cup {Issued}
         /\ store \in Seq(Record) /\ Len(store) \in Nat /\ DOMAIN store = 1..Len(store)
         /\ \A i \in DOMAIN store : store[i] \in Record
         /\ late \subseteq Record /\ gave_up \subseteq Record
  <1>1. /\ written \in Nat /\ worker \in Record \cup {Issued, None}
        /\ sinking \in [Writer -> Record \cup {None}]
        /\ queue \in Seq(Record \cup {Issued}) /\ store \in Seq(Record)
        /\ late \subseteq Record /\ gave_up \subseteq Record
    BY DEF TypeOK
  <1>2. /\ Len(queue) \in Nat /\ DOMAIN queue = 1..Len(queue)
        /\ Len(store) \in Nat /\ DOMAIN store = 1..Len(store)
    BY <1>1, LenProperties
  <1>3. /\ \A i \in DOMAIN queue : queue[i] \in Record \cup {Issued}
        /\ \A i \in DOMAIN store : store[i] \in Record
    BY <1>1, <1>2, ElementOfSeq
  <1> QED BY <1>1, <1>2, <1>3

(* Nothing precedes itself, and what is no record precedes everything.     *)
LEMMA Precedence ==
  /\ \A rec \in Record : ~Precedes(rec, rec)
  /\ \A rec : \A x \in {Issued, None} : Precedes(rec, x) /\ Precedes(x, rec)
  BY Numbers DEF Precedes

-----------------------------------------------------------------------------
(* A thread writes: the new record's number is higher than any.            *)
LEMMA AuditKeeps ==
  ASSUME TrailInv, HopTypeOK', work' \in 0..MaxWork,
         NEW w \in Writer, NEW k \in Kind, audit(w, k)
  PROVE  TrailInv'
  <1> DEFINE rec == [id |-> written', by |-> w, kind |-> k]
  <1>0. TypeOK /\ InOrder /\ PastIsApart
    BY DEF TrailInv
  <1>1. written \in Nat /\ written < MaxEvents /\ written' = written + 1
    BY <1>0 DEF TypeOK, audit
  <1>2. rec \in Record /\ rec.id = written' /\ rec.by = w
    BY <1>1 DEF Record
  <1>3. sinking' = [sinking EXCEPT ![w] = rec]
        /\ UNCHANGED <<queue, worker, late, store, gave_up, restarts>>
    BY DEF audit
  <1> HIDE DEF rec
  <1>4. \A v \in Writer : sinking'[v] = IF v = w THEN rec ELSE sinking[v]
    BY <1>0, <1>3, TrailTypes
  <1>5. TypeOK'
    <2>1. sinking' \in [Writer -> Record \cup {None}] /\ written' \in 0..MaxEvents
      BY <1>0, <1>1, <1>2, <1>3, TrailTypes
    <2> QED BY <1>0, <1>3, <2>1 DEF TypeOK
  <1>6. ASSUME NEW x, x \in Record => x.id <= written
        PROVE  Precedes(x, rec)
    BY <1>1, <1>2, <1>6, Numbers DEF Precedes
  <1>7. InOrder'
    <2>1. IsOwn(worker)' /\ \A i \in DOMAIN queue' : IsOwn(queue[i])'
      <3>1. \A x \in Record : x.id <= written => x.id <= written'
        BY <1>1, Numbers
      <3> QED BY <1>0, <1>3, <3>1 DEF InOrder, IsOwn
    <2>2. ASSUME NEW v \in Writer
          PROVE  /\ sinking'[v] \in Record => sinking'[v].id <= written' /\ sinking'[v].by = v
                 /\ Precedes(worker, sinking'[v])
                 /\ \A i \in DOMAIN queue : Precedes(queue[i], sinking'[v])
      <3>1. CASE v = w
        BY <1>0, <1>1, <1>2, <1>4, <1>6, <3>1 DEF InOrder, IsOwn
      <3>2. CASE v # w
        BY <1>0, <1>1, <1>4, <3>2, Numbers DEF InOrder
      <3> QED BY <3>1, <3>2
    <2> QED BY <1>0, <1>3, <2>1, <2>2 DEF InOrder, Precedes
  <1>8. ASSUME NEW x \in Record, IsPast(x) PROVE IsPast(x)'
    <2>1. x.id <= written' /\ Precedes(x, rec)
      BY <1>1, <1>6, <1>8, Numbers DEF IsPast
    <2> QED BY <1>3, <1>4, <1>8, <2>1 DEF IsPast
  <1>9. PastIsApart'
    BY <1>0, <1>3, <1>8, TrailTypes DEF PastIsApart
  <1> QED BY <1>3, <1>5, <1>7, <1>9 DEF TrailInv, LateIsGivenUp, NewestFirst

(* A queue that takes one more item, or drops it. What is put is either no *)
(* record or newer than its writer's others, but for those it has yet to   *)
(* queue.                                                                  *)
LEMMA PutKeeps ==
  ASSUME TrailInv, HopTypeOK', work' \in 0..MaxWork, NEW rec \in Record \cup {Issued},
         Put(rec), IsOwn(rec),
         sinking' \in [Writer -> Record \cup {None}],
         \A w \in Writer : sinking'[w] \in {sinking[w], None} /\ Precedes(rec, sinking'[w]),
         Precedes(worker, rec), \A i \in DOMAIN queue : Precedes(queue[i], rec),
         \A x \in Record : IsPast(x) => Precedes(x, rec),
         UNCHANGED <<written, worker, late, store, gave_up, restarts>>
  PROVE  TrailInv'
  <1>0. TypeOK /\ InOrder /\ PastIsApart
    BY DEF TrailInv
  <1>1. /\ queue' \in Seq(Record \cup {Issued}) /\ Len(queue') <= QueueMax
        /\ DOMAIN queue' = 1..Len(queue')
        /\ \A i \in DOMAIN queue' : \/ i \in DOMAIN queue /\ queue'[i] = queue[i]
                                    \/ i = Len(queue) + 1 /\ queue'[i] = rec
    <2>1. CASE Len(queue) < QueueMax
      <3>1. queue' = Append(queue, rec)
        BY <2>1 DEF Put
      <3> QED BY <1>0, <2>1, <3>1, TrailTypes, AppendProperties, SMTT(30)
    <2>2. CASE ~(Len(queue) < QueueMax)
      <3>1. queue' = queue
        BY <2>2 DEF Put
      <3> QED BY <1>0, <3>1, TrailTypes DEF TypeOK
    <2> QED BY <2>1, <2>2
  <1>2. Len(queue) \in Nat /\ DOMAIN queue = 1..Len(queue)
    BY <1>0, TrailTypes
  <1>3. TypeOK'
    BY <1>0, <1>1 DEF TypeOK
  <1>4. ASSUME NEW x, NEW w \in Writer, Precedes(x, sinking[w]) PROVE Precedes(x, sinking'[w])
    BY <1>4, Precedence
  <1>5. InOrder'
    <2>1. IsOwn(worker)' /\ \A i \in DOMAIN queue' : IsOwn(queue[i])' /\ Precedes(worker, queue'[i])
      BY <1>0, <1>1 DEF InOrder, IsOwn
    <2>2. ASSUME NEW i \in DOMAIN queue', NEW j \in DOMAIN queue', i < j
          PROVE  Precedes(queue'[i], queue'[j])
      <3>1. i \in DOMAIN queue /\ queue'[i] = queue[i]
        BY <1>1, <1>2, <2>2, SMTT(30)
      <3>2. CASE j \in DOMAIN queue /\ queue'[j] = queue[j]
        BY <1>0, <2>2, <3>1, <3>2 DEF InOrder
      <3>3. CASE queue'[j] = rec
        BY <3>1, <3>3
      <3> QED BY <1>1, <3>2, <3>3
    <2>3. ASSUME NEW w \in Writer
          PROVE  /\ sinking'[w] \in Record => sinking'[w].id <= written /\ sinking'[w].by = w
                 /\ Precedes(worker, sinking'[w])
                 /\ \A i \in DOMAIN queue' : Precedes(queue'[i], sinking'[w])
      <3>1. sinking'[w] \in Record => sinking'[w] = sinking[w]
        BY Numbers
      <3>2. \A i \in DOMAIN queue' : Precedes(queue'[i], sinking'[w])
        BY <1>0, <1>1, <1>4 DEF InOrder
      <3> QED BY <1>0, <1>4, <3>1, <3>2 DEF InOrder
    <2> QED BY <2>1, <2>2, <2>3 DEF InOrder, Precedes
  <1>6. ASSUME NEW x \in Record, IsPast(x) PROVE IsPast(x)'
    <2>1. \A i \in DOMAIN queue' : Precedes(x, queue'[i])
      BY <1>1, <1>6 DEF IsPast
    <2> QED BY <1>4, <1>6, <2>1 DEF IsPast
  <1>7. PastIsApart'
    BY <1>0, <1>6, TrailTypes DEF PastIsApart
  <1> QED BY <1>3, <1>5, <1>7 DEF TrailInv, LateIsGivenUp, NewestFirst

LEMMA EnqueueKeeps ==
  ASSUME TrailInv, HopTypeOK', work' \in 0..MaxWork, NEW w \in Writer, Enqueue(w)
  PROVE  TrailInv'
  <1> DEFINE rec == sinking[w]
  <1>0. TypeOK /\ InOrder
    BY DEF TrailInv
  <1>1. /\ Put(rec) /\ sinking' = [sinking EXCEPT ![w] = None] /\ rec # None
        /\ UNCHANGED <<written, worker, late, store, gave_up, restarts>>
    BY DEF Enqueue
  <1>2. rec \in Record /\ rec.by = w /\ rec.id <= written
    BY <1>0, <1>1, TrailTypes DEF InOrder
  <1>3. IsOwn(rec) /\ Precedes(worker, rec) /\ \A i \in DOMAIN queue : Precedes(queue[i], rec)
    BY <1>0, <1>2 DEF InOrder, IsOwn
  <1>4. \A x \in Record : IsPast(x) => Precedes(x, rec)
    BY DEF IsPast
  <1>5. /\ sinking' \in [Writer -> Record \cup {None}]
        /\ \A v \in Writer : sinking'[v] = IF v = w THEN None ELSE sinking[v]
    BY <1>0, <1>1, TrailTypes
  <1>6. \A v \in Writer : v # w /\ sinking[v] \in Record => sinking[v].by = v
    BY <1>0 DEF InOrder
  <1> HIDE DEF rec
  <1>7. ASSUME NEW v \in Writer
        PROVE  sinking'[v] \in {sinking[v], None} /\ Precedes(rec, sinking'[v])
    <2>1. CASE v = w
      BY <1>5, <2>1, Precedence
    <2>2. CASE v # w
      <3>1. Precedes(rec, sinking[v])
        BY <1>2, <1>6, <2>2 DEF Precedes
      <3> QED BY <1>5, <2>2, <3>1
    <2> QED BY <2>1, <2>2
  <1> QED BY <1>1, <1>2, <1>3, <1>4, <1>5, <1>7, PutKeeps

LEMMA FetchKeeps ==
  ASSUME TrailInv, HopTypeOK', work' \in 0..MaxWork, NEW t \in Thread, fetch_jwt_svid(t)
  PROVE  TrailInv'
  <1>1. Put(Issued) /\ UNCHANGED <<written, sinking, worker, late, store, gave_up, restarts>>
    BY DEF fetch_jwt_svid
  <1>2. IsOwn(Issued) /\ \A x : Precedes(x, Issued) /\ Precedes(Issued, x)
    BY Numbers, Precedence DEF IsOwn
  <1>3. sinking' \in [Writer -> Record \cup {None}]
    BY <1>1, TrailTypes DEF TrailInv
  <1> QED BY <1>1, <1>2, <1>3, PutKeeps

(* The worker takes the oldest record.                                     *)
LEMMA TakeKeeps ==
  ASSUME TrailInv, HopTypeOK', work' \in 0..MaxWork, Take
  PROVE  TrailInv'
  <1>0. TypeOK /\ InOrder /\ PastIsApart
    BY DEF TrailInv
  <1>1. /\ worker' = queue[1] /\ 1 \in DOMAIN queue /\ Len(queue) > 0
        /\ queue' \in Seq(Record \cup {Issued}) /\ Len(queue') = Len(queue) - 1
        /\ DOMAIN queue' = 1..Len(queue')
        /\ \A i \in DOMAIN queue' : i + 1 \in DOMAIN queue /\ queue'[i] = queue[i + 1]
    <2>1. queue # <<>> /\ worker' = Head(queue) /\ queue' = Tail(queue)
      BY DEF Take
    <2> QED BY <1>0, <2>1, TrailTypes, HeadTailProperties, SMTT(30)
  <1>2. UNCHANGED <<written, sinking, late, store, gave_up, restarts>>
    BY DEF Take
  <1>3. \A i \in DOMAIN queue' : i \in Int /\ 1 < i + 1
    <2>1. Len(queue) \in Nat
      BY <1>0, TrailTypes
    <2> QED BY <1>1, <2>1, SMTT(30)
  <1>4. TypeOK'
    <2>1. Len(queue') <= QueueMax
      BY <1>0, <1>1, TrailTypes, SMTT(30) DEF TypeOK
    <2>2. worker' \in Record \cup {Issued, None}
      BY <1>0, <1>1, TrailTypes
    <2> QED BY <1>0, <1>1, <1>2, <2>1, <2>2 DEF TypeOK
  <1>5. InOrder'
    <2>1. IsOwn(worker)'
      BY <1>0, <1>1, <1>2 DEF InOrder, IsOwn
    <2>2. ASSUME NEW i \in DOMAIN queue'
          PROVE  IsOwn(queue[i])' /\ Precedes(worker', queue'[i])
      <3>1. Precedes(queue[1], queue[i + 1])
        BY <1>0, <1>1, <1>3 DEF InOrder
      <3> QED BY <1>0, <1>1, <1>2, <3>1 DEF InOrder, IsOwn
    <2>3. ASSUME NEW i \in DOMAIN queue', NEW j \in DOMAIN queue', i < j
          PROVE  Precedes(queue'[i], queue'[j])
      <3>1. i + 1 \in DOMAIN queue /\ j + 1 \in DOMAIN queue /\ i + 1 < j + 1
        BY <1>1, <1>3, <2>3, SMTT(30)
      <3>2. queue'[i] = queue[i + 1] /\ queue'[j] = queue[j + 1]
        BY <1>1
      <3> QED BY <1>0, <3>1, <3>2 DEF InOrder
    <2>4. ASSUME NEW w \in Writer
          PROVE  /\ sinking'[w] \in Record => sinking'[w].id <= written' /\ sinking'[w].by = w
                 /\ Precedes(worker', sinking'[w])
                 /\ \A i \in DOMAIN queue' : Precedes(queue'[i], sinking'[w])
      BY <1>0, <1>1, <1>2 DEF InOrder
    <2> QED BY <2>1, <2>2, <2>3, <2>4 DEF InOrder, Precedes
  <1>6. ASSUME NEW x \in Record, IsPast(x) PROVE IsPast(x)'
    BY <1>1, <1>2, <1>6 DEF IsPast
  <1>7. PastIsApart'
    BY <1>0, <1>2, <1>6, TrailTypes DEF PastIsApart
  <1> QED BY <1>2, <1>4, <1>5, <1>7 DEF TrailInv, LateIsGivenUp, NewestFirst

(* Once the worker is free, less is on its way than before; and when the   *)
(* process is gone, nothing is.                                            *)
Frees ==
  /\ worker' = None /\ written' = written
  /\ \/ UNCHANGED <<queue, sinking>>
     \/ queue' = <<>> /\ sinking' = [w \in Writer |-> None]

LEMMA FreeKeepsOrder ==
  ASSUME TrailInv, Frees
  PROVE  InOrder' /\ \A x \in Record : IsPast(x) => IsPast(x)'
  <1>0. InOrder
    BY DEF TrailInv
  <1>1. worker' = None /\ None \notin Record /\ \A x : Precedes(x, None) /\ Precedes(None, x)
    BY Numbers, Precedence DEF Frees
  <1>2. CASE UNCHANGED <<queue, sinking>>
    BY <1>0, <1>1, <1>2 DEF Frees, InOrder, IsOwn, IsPast, Precedes
  <1>3. CASE queue' = <<>> /\ sinking' = [w \in Writer |-> None]
    <2>1. DOMAIN queue' = {} /\ \A w \in Writer : sinking'[w] = None
      BY <1>3
    <2>2. InOrder'
      BY <1>1, <2>1 DEF InOrder, IsOwn, Precedes
    <2>3. ASSUME NEW x \in Record, IsPast(x) PROVE IsPast(x)'
      BY <1>1, <2>1, <2>3 DEF Frees, IsPast
    <2> QED BY <2>2, <2>3
  <1> QED BY <1>2, <1>3 DEF Frees

(* What the worker had is past once it is free: older than all its writer  *)
(* has queued, newer than all of it that is past, and itself nowhere else. *)
LEMMA WorkIsPast ==
  ASSUME TrailInv, worker \in Record, Frees
  PROVE  /\ \A x \in Record : x = worker => IsPast(x)'
         /\ worker \notin late
         /\ \A i \in DOMAIN store : Precedes(store[i], worker) /\ store[i] # worker
  <1>0. InOrder /\ PastIsApart
    BY DEF TrailInv
  <1>1. \A x \in Record : IsPast(x) => Precedes(x, worker) /\ x # worker
    BY Precedence DEF IsPast
  <1>2. /\ worker \notin late
        /\ \A i \in DOMAIN store : Precedes(store[i], worker) /\ store[i] # worker
    BY <1>0, <1>1, TrailTypes DEF PastIsApart, TrailInv
  <1>3. /\ worker.id <= written' /\ Precedes(worker, worker')
        /\ \A i \in DOMAIN queue' : Precedes(worker, queue'[i])
        /\ \A w \in Writer : Precedes(worker, sinking'[w])
    <2>1. worker' = None /\ \A x : Precedes(x, None)
      BY Precedence DEF Frees
    <2>2. worker.id <= written'
      BY <1>0 DEF InOrder, IsOwn, Frees
    <2>3. CASE UNCHANGED <<queue, sinking>>
      BY <1>0, <2>1, <2>2, <2>3 DEF InOrder
    <2>4. CASE queue' = <<>> /\ sinking' = [w \in Writer |-> None]
      BY <2>1, <2>2, <2>4
    <2> QED BY <2>3, <2>4 DEF Frees
  <1>4. ASSUME NEW x \in Record, x = worker PROVE IsPast(x)'
    BY <1>3, <1>4 DEF IsPast
  <1> QED BY <1>2, <1>4

LEMMA FreeTypes ==
  ASSUME TypeOK, HopTypeOK', work' \in 0..MaxWork, Frees,
         store' \in Seq(Record), late' \subseteq Record,
         gave_up' \subseteq Record, restarts' \in 0..MaxRestarts
  PROVE  TypeOK'
  <1>1. /\ queue' \in Seq(Record \cup {Issued}) /\ Len(queue') <= QueueMax
        /\ sinking' \in [Writer -> Record \cup {None}]
    <2>1. CASE UNCHANGED <<queue, sinking>>
      BY <2>1 DEF TypeOK
    <2>2. CASE queue' = <<>> /\ sinking' = [w \in Writer |-> None]
      BY <2>2, EmptySeq
    <2> QED BY <2>1, <2>2 DEF Frees
  <1> QED BY <1>1 DEF TypeOK, Frees

(* The worker is free and nothing was stored: what it had is lost, or with *)
(* the api, and then it has been given up.                                 *)
LEMMA LeaveItKeeps ==
  ASSUME TrailInv, HopTypeOK', work' \in 0..MaxWork, Frees,
         restarts' \in 0..MaxRestarts, UNCHANGED store,
         NEW posted \in SUBSET ({worker} \cap Record),
         late' = late \cup posted, gave_up' = gave_up \cup posted
  PROVE  TrailInv'
  <1>0. TypeOK /\ PastIsApart
    BY DEF TrailInv
  <1>1. InOrder' /\ \A x \in Record : IsPast(x) => IsPast(x)'
    BY FreeKeepsOrder
  <1>2. TypeOK'
    BY <1>0, FreeTypes DEF TypeOK
  <1>3. PastIsApart'
    <2>1. ASSUME NEW rec \in late' PROVE IsPast(rec)' /\ \A i \in DOMAIN store : rec # store[i]
      <3>1. CASE rec \in late
        BY <1>0, <1>1, <3>1, TrailTypes DEF PastIsApart
      <3>2. CASE rec \notin late
        <4>1. rec = worker /\ worker \in Record
          BY <3>2
        <4> QED BY <4>1, WorkIsPast
      <3> QED BY <3>1, <3>2
    <2>2. \A i \in DOMAIN store' : IsPast(store[i])'
      BY <1>0, <1>1, TrailTypes DEF PastIsApart
    <2> QED BY <1>0, <2>1, <2>2 DEF PastIsApart
  <1>4. NewestFirst'
    <2>1. gave_up \subseteq gave_up' /\ store' = store
      OBVIOUS
    <2> QED BY <2>1 DEF TrailInv, NewestFirst
  <1> QED BY <1>1, <1>2, <1>3, <1>4 DEF TrailInv, LateIsGivenUp

LEMMA PostFailsKeeps ==
  ASSUME TrailInv, HopTypeOK', work' \in 0..MaxWork, PostFails
  PROVE  TrailInv'
  <1>1. /\ Frees /\ UNCHANGED <<store, late, gave_up, restarts>>
        /\ late' = late \cup {} /\ gave_up' = gave_up \cup {}
    BY DEF PostFails, Frees
  <1>2. restarts' \in 0..MaxRestarts
    BY <1>1 DEF TrailInv, TypeOK
  <1> QED BY <1>1, <1>2, LeaveItKeeps

LEMMA GiveUpKeeps ==
  ASSUME TrailInv, HopTypeOK', work' \in 0..MaxWork, GiveUp
  PROVE  TrailInv'
  <1> DEFINE posted == {worker} \ {Issued}
  <1>1. /\ Frees /\ UNCHANGED <<store, restarts>> /\ worker # None
        /\ late' = late \cup posted /\ gave_up' = gave_up \cup posted
    BY DEF GiveUp, Admitted, Frees
  <1>2. posted \subseteq {worker} \cap Record /\ restarts' \in 0..MaxRestarts
    BY <1>1 DEF TrailInv, TypeOK
  <1> HIDE DEF posted
  <1> QED BY <1>1, <1>2, LeaveItKeeps

LEMMA ExitsKeeps ==
  ASSUME TrailInv, HopTypeOK', work' \in 0..MaxWork, Exits
  PROVE  TrailInv'
  <1> DEFINE posted == IF Admitted THEN {worker} \ {Issued} ELSE {}
  <1>1. /\ Frees /\ UNCHANGED store
        /\ late' = late \cup posted /\ gave_up' = gave_up \cup posted
    BY DEF Exits, Frees
  <1>2. posted \subseteq {worker} \cap Record
    BY DEF Admitted, TrailInv, TypeOK
  <1>3. restarts' \in 0..MaxRestarts
    <2>1. restarts \in 0..MaxRestarts /\ restarts < MaxRestarts /\ restarts' = restarts + 1
      BY DEF Exits, TrailInv, TypeOK
    <2> QED BY <2>1
  <1> HIDE DEF posted
  <1> QED BY <1>1, <1>2, <1>3, LeaveItKeeps

-----------------------------------------------------------------------------
(* A row put in front of the others.                                       *)
LEMMA InsertedRow ==
  ASSUME TypeOK, NEW rec \in Record, store' = <<rec>> \o store
  PROVE  /\ store' \in Seq(Record) /\ DOMAIN store' = 1..(Len(store) + 1)
         /\ store'[1] = rec
         /\ \A i \in DOMAIN store' : i # 1 => i - 1 \in DOMAIN store /\ store'[i] = store[i - 1]
  <1>1. <<rec>> \in Seq(Record) /\ Len(<<rec>>) = 1 /\ <<rec>>[1] = rec
    OBVIOUS
  <1>2. store \in Seq(Record) /\ Len(store) \in Nat /\ DOMAIN store = 1..Len(store)
    BY TrailTypes
  <1>3. store' \in Seq(Record) /\ Len(store') = Len(store) + 1
        /\ \A i \in 1..Len(store') : store'[i] = IF i <= 1 THEN rec ELSE store[i - 1]
    BY <1>1, <1>2, ConcatProperties
  <1> QED BY <1>2, <1>3, LenProperties, SMTT(30)

(* A record that is neither stored nor late any more is stored, in front   *)
(* of the rest; unless it was given up, or is another process's, it is the *)
(* newest of its writer.                                                   *)
LEMMA StoreKeeps ==
  ASSUME TrailInv, TypeOK', NEW rec \in Record, store' = <<rec>> \o store,
         InOrder', \A x \in Record : IsPast(x) => IsPast(x)',
         \A x \in Record : x = rec => IsPast(x)',
         late' \subseteq late \ {rec}, UNCHANGED gave_up,
         \A i \in DOMAIN store : store[i] # rec,
         rec \notin gave_up /\ rec.by \in Writer =>
           \A i \in DOMAIN store : Precedes(store[i], rec)
  PROVE  TrailInv'
  <1>0. TypeOK /\ PastIsApart /\ NewestFirst
    BY DEF TrailInv
  <1>1. /\ store' \in Seq(Record) /\ DOMAIN store' = 1..(Len(store) + 1) /\ store'[1] = rec
        /\ \A i \in DOMAIN store' : i # 1 => i - 1 \in DOMAIN store /\ store'[i] = store[i - 1]
    BY <1>0, InsertedRow
  <1>2. /\ Len(store) \in Nat /\ DOMAIN store = 1..Len(store) /\ rec.id \in Nat
        /\ \A i \in DOMAIN store : store[i] \in Record /\ store[i].id \in Nat
        /\ late \subseteq Record
    BY <1>0, TrailTypes, Numbers
  <1>3. PastIsApart'
    <2>1. \A other \in late' : IsPast(other)'
      BY <1>0, <1>2 DEF PastIsApart
    <2>2. ASSUME NEW i \in DOMAIN store', NEW x \in Record, x = store'[i]
          PROVE  IsPast(x)'
      <3>1. CASE i = 1
        BY <1>1, <2>2, <3>1
      <3>2. CASE i # 1
        BY <1>0, <1>1, <2>2, <3>2 DEF PastIsApart
      <3> QED BY <3>1, <3>2
    <2>3. ASSUME NEW i \in DOMAIN store' PROVE IsPast(store[i])'
      <3>1. store'[i] \in Record
        BY <1>1, <1>2
      <3> QED BY <2>2, <3>1
    <2>4. \A other \in late', i \in DOMAIN store' : other # store'[i]
      BY <1>0, <1>1, SMTT(30) DEF PastIsApart
    <2>5. ASSUME NEW i \in DOMAIN store', NEW j \in DOMAIN store', store'[i] = store'[j]
          PROVE  i = j
      <3>1. CASE i = 1 \/ j = 1
        BY <1>1, <2>5, <3>1
      <3>2. CASE i # 1 /\ j # 1
        <4>1. i - 1 = j - 1
          BY <1>0, <1>1, <2>5, <3>2, SMTT(30) DEF PastIsApart
        <4> QED BY <1>1, <1>2, <4>1, SMTT(30)
      <3> QED BY <3>1, <3>2
    <2> QED BY <2>1, <2>3, <2>4, <2>5 DEF PastIsApart
  <1>4. NewestFirst'
    <2> SUFFICES ASSUME NEW i \in DOMAIN store', NEW j \in DOMAIN store', i < j,
                        store'[i].by = store'[j].by, store'[i].by \in Writer,
                        {store'[i], store'[j]} \cap gave_up = {}
                 PROVE  store'[i].id > store'[j].id
      BY DEF NewestFirst
    <2>1. j # 1 /\ j - 1 \in DOMAIN store /\ store'[j] = store[j - 1]
      BY <1>1, <1>2, SMTT(30)
    <2>2. CASE i = 1
      <3>1. Precedes(store[j - 1], rec)
        BY <1>1, <2>1, <2>2
      <3>2. store[j - 1] \in Record /\ store[j - 1].by = rec.by
        BY <1>1, <1>2, <2>1, <2>2
      <3>3. store[j - 1].id < rec.id
        BY <3>1, <3>2 DEF Precedes
      <3> QED BY <1>1, <1>2, <2>1, <2>2, <3>3
    <2>3. CASE i # 1
      <3>1. i - 1 \in DOMAIN store /\ store'[i] = store[i - 1]
        BY <1>1, <2>3
      <3>2. i - 1 < j - 1
        <4>1. i \in Int /\ j \in Int
          BY <1>1, <1>2
        <4> QED BY <4>1
      <3> QED BY <1>0, <2>1, <3>1, <3>2 DEF NewestFirst
    <2> QED BY <2>2, <2>3
  <1> QED BY <1>3, <1>4 DEF TrailInv, LateIsGivenUp

(* A record that is admitted at once is the newest of its writer.          *)
LEMMA IngestKeeps ==
  ASSUME TrailInv, HopTypeOK', work' \in 0..MaxWork, ingest_audit
  PROVE  TrailInv'
  <1>0. TypeOK
    BY DEF TrailInv
  <1>1. /\ Frees /\ Insert(worker) /\ worker # None
        /\ UNCHANGED <<late, gave_up, restarts>>
    BY DEF ingest_audit, Admitted, Frees
  <1>2. restarts' \in 0..MaxRestarts
    BY <1>0, <1>1 DEF TypeOK
  <1>3. CASE worker = Issued
    <2>1. UNCHANGED store /\ late' = late \cup {} /\ gave_up' = gave_up \cup {}
      BY <1>1, <1>3 DEF Insert
    <2> QED BY <1>1, <1>2, <2>1, LeaveItKeeps
  <1>4. CASE worker \in Record
    <2>1. store' = <<worker>> \o store
      BY <1>1, <1>4, Numbers DEF Insert
    <2>2. TypeOK'
      BY <1>0, <1>1, <1>2, <1>4, <2>1, InsertedRow, FreeTypes DEF TypeOK
    <2>3. InOrder' /\ \A x \in Record : IsPast(x) => IsPast(x)'
      BY <1>1, FreeKeepsOrder
    <2>4. /\ \A x \in Record : x = worker => IsPast(x)'
          /\ worker \notin late
          /\ \A i \in DOMAIN store : Precedes(store[i], worker) /\ store[i] # worker
      BY <1>1, <1>4, WorkIsPast
    <2> QED BY <1>1, <1>4, <2>1, <2>2, <2>3, <2>4, StoreKeeps
  <1> QED BY <1>0, <1>1, <1>3, <1>4 DEF TypeOK

LEMMA IngestLateKeeps ==
  ASSUME TrailInv, HopTypeOK', work' \in 0..MaxWork, NEW rec \in late, IngestLate(rec)
  PROVE  TrailInv'
  <1>0. TypeOK /\ PastIsApart /\ InOrder
    BY DEF TrailInv
  <1>1. /\ Insert(rec) /\ late' = late \ {rec}
        /\ UNCHANGED <<written, sinking, queue, worker, gave_up, restarts>>
    BY DEF IngestLate
  <1>2. rec \in Record /\ rec \in gave_up
    BY <1>0, TrailTypes DEF TrailInv, LateIsGivenUp
  <1>3. store' = <<rec>> \o store
    BY <1>1, <1>2, Numbers DEF Insert
  <1>4. TypeOK'
    BY <1>0, <1>1, <1>2, <1>3, InsertedRow DEF TypeOK
  <1>5. InOrder' /\ \A x \in Record : IsPast(x) => IsPast(x)'
    BY <1>0, <1>1 DEF InOrder, IsPast, IsOwn, Precedes
  <1>6. IsPast(rec) /\ \A i \in DOMAIN store : store[i] # rec
    BY <1>0 DEF PastIsApart
  <1> QED BY <1>1, <1>2, <1>3, <1>4, <1>5, <1>6, StoreKeeps

LEMMA ElsewhereKeeps ==
  ASSUME TrailInv, HopTypeOK', work' \in 0..MaxWork, NEW k \in Kind, IngestElsewhere(k)
  PROVE  TrailInv'
  <1> DEFINE rec == [id |-> written', by |-> "elsewhere", kind |-> k]
  <1>0. TypeOK /\ PastIsApart /\ InOrder
    BY DEF TrailInv
  <1>1. written \in Nat /\ written < MaxEvents /\ written' = written + 1
    BY <1>0 DEF TypeOK, IngestElsewhere
  <1>2. rec \in Record /\ rec.id = written' /\ rec.by = "elsewhere"
    BY <1>1 DEF Record
  <1>3. Insert(rec) /\ UNCHANGED <<sinking, queue, worker, late, gave_up, restarts>>
    BY DEF IngestElsewhere
  <1> HIDE DEF rec
  <1>4. store' = <<rec>> \o store
    BY <1>2, <1>3, Numbers DEF Insert
  <1>5. TypeOK'
    <2>1. written' \in 0..MaxEvents
      BY <1>1
    <2> QED BY <1>0, <1>2, <1>3, <1>4, <2>1, InsertedRow DEF TypeOK
  <1>6. \A x \in Record : x.id <= written => x.id <= written' /\ x # rec
    BY <1>1, <1>2, Numbers
  <1>7. InOrder'
    BY <1>0, <1>3, <1>6 DEF InOrder, IsOwn, Precedes
  <1>8. ASSUME NEW x \in Record, IsPast(x) PROVE IsPast(x)'
    BY <1>3, <1>6, <1>8 DEF IsPast
  <1>9. ASSUME NEW x \in Record, x = rec PROVE IsPast(x)'
    <2>1. ASSUME NEW y, y \in Record => y.by \in Writer PROVE Precedes(x, y)
      BY <1>2, <1>9, <2>1 DEF Precedes
    <2>2. /\ worker \in Record => worker.by \in Writer
          /\ \A i \in DOMAIN queue : queue[i] \in Record => queue[i].by \in Writer
          /\ \A w \in Writer : sinking[w] \in Record => sinking[w].by \in Writer
      BY <1>0 DEF InOrder, IsOwn
    <2>3. x.id <= written'
      BY <1>1, <1>2, <1>9
    <2> QED BY <1>3, <2>1, <2>2, <2>3 DEF IsPast
  <1>10. rec \notin late /\ \A i \in DOMAIN store : store[i] # rec
    BY <1>0, <1>6, TrailTypes DEF PastIsApart, IsPast
  <1>11. rec.by \notin Writer
    BY <1>2
  <1> QED BY <1>2, <1>3, <1>4, <1>5, <1>7, <1>8, <1>9, <1>10, <1>11, StoreKeeps

-----------------------------------------------------------------------------
LEMMA TrailInit == Init => TrailInv
  <1> SUFFICES ASSUME Init PROVE TrailInv
    OBVIOUS
  <1>1. HopTypeOK
    BY HopInitInv DEF Init, HopInv
  <1>2. /\ queue = <<>> /\ store = <<>> /\ worker = None /\ late = {} /\ written = 0
        /\ work = 0 /\ gave_up = {} /\ restarts = 0 /\ sinking = [w \in Writer |-> None]
    BY DEF Init
  <1>3. TypeOK
    <2>1. queue \in Seq(Record \cup {Issued}) /\ store \in Seq(Record) /\ Len(queue) <= QueueMax
      BY <1>2, EmptySeq
    <2>2. /\ written \in 0..MaxEvents /\ work \in 0..MaxWork /\ restarts \in 0..MaxRestarts
          /\ worker \in Record \cup {Issued, None} /\ late \subseteq Record
          /\ gave_up \subseteq Record /\ sinking \in [Writer -> Record \cup {None}]
      BY <1>2
    <2> QED BY <1>1, <2>1, <2>2 DEF TypeOK
  <1>4. InOrder
    <2>1. \A w \in Writer : sinking[w] = None
      BY <1>2
    <2> QED BY <1>2, <2>1, Numbers, Precedence DEF InOrder, IsOwn
  <1> QED BY <1>2, <1>3, <1>4 DEF TrailInv, PastIsApart, LateIsGivenUp, NewestFirst

LEMMA TrailNext == TrailInv /\ HopInv /\ [Next]_vars => TrailInv'
  <1> SUFFICES ASSUME TrailInv, HopInv, [Next]_vars PROVE TrailInv'
    OBVIOUS
  <1>0. HopTypeOK'
    BY StepOfTheHop, HopNextKeeps DEF HopInv
  <1>c. work' \in 0..MaxWork
    <2>1. work \in 0..MaxWork /\ MaxWork \in Nat
      BY TrailAssumption DEF TrailInv, TypeOK
    <2>2. work' = work \/ (work < MaxWork /\ work' = work + 1)
      <3>1. CASE \/ \E w \in Writer : \E k \in Kind : audit(w, k)
                 \/ \E t \in Thread : Call(t)
        BY <3>1 DEF audit, Call
      <3>2. CASE \/ \E w \in Writer : Enqueue(w)
                 \/ \E k \in Kind : IngestElsewhere(k)
                 \/ Take \/ PostFails \/ ingest_audit \/ GiveUp
                 \/ \E rec \in late : IngestLate(rec)
        BY <3>2 DEF Enqueue, IngestElsewhere, Take, PostFails, ingest_audit, GiveUp, IngestLate
      <3>3. CASE \/ \E t \in Thread : Return(t) \/ fetch_jwt_svid(t) \/ Stored(t) \/ Sends(t)
                 \/ Begins \/ Watches \/ Exits \/ Passes \/ UNCHANGED vars
        BY <3>3 DEF Return, fetch_jwt_svid, Stored, Sends, Begins, Watches, Exits, Passes, trail,
               vars
      <3> QED BY <3>1, <3>2, <3>3 DEF Next
    <2> QED BY <2>1, <2>2
  <1>1. CASE \/ \E w \in Writer : Enqueue(w) \/ \E k \in Kind : audit(w, k)
             \/ \E k \in Kind : IngestElsewhere(k)
    BY <1>0, <1>c, <1>1, EnqueueKeeps, AuditKeeps, ElsewhereKeeps
  <1>2. CASE \E t \in Thread : fetch_jwt_svid(t)
    BY <1>0, <1>c, <1>2, FetchKeeps
  <1>3. CASE Take \/ ingest_audit \/ GiveUp \/ PostFails \/ Exits
    BY <1>0, <1>c, <1>3, TakeKeeps, IngestKeeps, GiveUpKeeps, PostFailsKeeps, ExitsKeeps
  <1>4. CASE \E rec \in late : IngestLate(rec)
    BY <1>0, <1>c, <1>4, IngestLateKeeps
  <1>5. ASSUME UNCHANGED <<written, sinking, queue, worker, late, store, gave_up, restarts>>
        PROVE  TrailInv'
    BY <1>0, <1>c, <1>5 DEF TrailInv, TypeOK, InOrder, IsOwn, PastIsApart, IsPast, Precedes,
       LateIsGivenUp, NewestFirst
  <1>6. CASE \E t \in Thread : Call(t) \/ Return(t) \/ Stored(t) \/ Sends(t)
    BY <1>5, <1>6 DEF Call, Return, Stored, Sends, trail
  <1>7. CASE Begins \/ Watches \/ Passes
    BY <1>5, <1>7 DEF Begins, Watches, Passes, trail
  <1>8. CASE UNCHANGED vars
    BY <1>5, <1>8 DEF vars, trail
  <1> QED BY <1>1, <1>2, <1>3, <1>4, <1>6, <1>7, <1>8 DEF Next

LEMMA TrailAlways == Spec => []TrailInv
  BY TrailInit, TrailNext, HopAlways, PTL DEF Spec

(* Type correctness of the trail and of the hop it takes.                  *)
THEOREM TrailTypeOK == Spec => []TypeOK
  BY TrailAlways, PTL DEF TrailInv

(* A record is stored at most once, however late a call the worker gave up *)
(* on arrives, and through restarts (_worker, ingest_audit).               *)
THEOREM RecordsAreStoredOnce == Spec => []StoredOnce
  <1>1. TrailInv => StoredOnce
    BY DEF TrailInv, PastIsApart, StoredOnce
  <1> QED BY <1>1, TrailAlways, PTL

(* Rows of one thread are in the order it wrote them, newest first, but    *)
(* for those the worker gave up on or died with, for any threads, queue    *)
(* and number of restarts (_worker, query).                                *)
THEOREM RowsAreInOrder == Spec => []NewestFirst
  BY TrailAlways, PTL DEF TrailInv

-----------------------------------------------------------------------------
(* Queries. A filter goes through the rows once; over the first of them it *)
(* finds what it finds over all of them so far, and what it has found it   *)
(* keeps.                                                                  *)

LEMMA SmallestOne ==
  ASSUME NEW S \in SUBSET Nat, S # {}
  PROVE  \E n \in S : \A m \in S : n <= m
  <1>1. PICK n \in S : \A m \in S : ~ (<<m, n>> \in OpToRel(<, Nat))
    BY NatLessThanWellFounded, WFMin
  <1>2. ASSUME NEW a \in Nat, NEW b \in Nat, a < b
        PROVE  <<a, b>> \in OpToRel(<, Nat)
    <2>1. <<a, b>> \in Nat \X Nat /\ <<a, b>>[1] < <<a, b>>[2]
      BY <1>2
    <2> QED BY <2>1, Zenon DEF OpToRel
  <1>3. \A m \in S : ~ (m < n)
    BY <1>1, <1>2
  <1> QED BY <1>3

\* What has been found after the nth row, if `found` was found before it.
Further(found, rows, n, wanted) ==
  IF rows[n] \in wanted THEN Append(found, rows[n]) ELSE found

Filters(f, rows, wanted, last) ==
  /\ f \in [0..last -> Seq(Record)]
  /\ f[0] = <<>>
  /\ \A n \in 1..last : f[n] = Further(f[n - 1], rows, n, wanted)

LEMMA FurtherIsRows ==
  ASSUME NEW rows \in Seq(Record), NEW n \in 1..Len(rows), NEW found \in Seq(Record),
         NEW wanted
  PROVE  Further(found, rows, n, wanted) \in Seq(Record)
  <1>1. rows[n] \in Record
    OBVIOUS
  <1>2. Append(found, rows[n]) \in Seq(Record)
    BY <1>1
  <1> QED BY <1>2 DEF Further

LEMMA FilterExists ==
  ASSUME NEW rows \in Seq(Record), NEW wanted, NEW last \in 0..Len(rows)
  PROVE  \E f : Filters(f, rows, wanted, last)
  <1> DEFINE Has(n) == \E f : Filters(f, rows, wanted, n)
             S == {n \in 0..last : ~Has(n)}
  <1>1. SUFFICES ASSUME S # {} PROVE FALSE
    <2>1. last \in 0..last
      OBVIOUS
    <2>2. ASSUME S = {} PROVE Has(last)
      <3> HIDE DEF Has
      <3> QED BY <2>1, <2>2
    <2> QED BY <2>2
  <1>2. PICK n \in S : \A m \in S : n <= m
    <2>1. S \in SUBSET Nat
      OBVIOUS
    <2> HIDE DEF S
    <2> QED BY <1>1, <2>1, SmallestOne
  <1>3. n # 0
    <2> DEFINE f == [k \in 0..0 |-> <<>>]
    <2>1. Filters(f, rows, wanted, 0)
      BY DEF Filters
    <2>2. Has(0)
      BY <2>1
    <2> QED BY <1>2, <2>2
  <1>4. n \in 1..last /\ n \in 1..Len(rows) /\ n - 1 \in 0..last /\ n - 1 \in Nat /\ n \in Nat
    BY <1>2, <1>3
  <1>5. Has(n - 1)
    <2>1. n - 1 \notin S
      <3> HIDE DEF S
      <3> QED BY <1>2, <1>4
    <2> HIDE DEF Has
    <2> QED BY <1>4, <2>1
  <1>6. PICK g : Filters(g, rows, wanted, n - 1)
    BY <1>5
  <1> DEFINE h == [k \in 0..n |-> IF k = n THEN Further(g[n - 1], rows, n, wanted) ELSE g[k]]
  <1>7. g[n - 1] \in Seq(Record) /\ \A k \in 0..n : k # n => g[k] \in Seq(Record)
    BY <1>4, <1>6 DEF Filters
  <1>8. Further(g[n - 1], rows, n, wanted) \in Seq(Record)
    BY <1>4, <1>7, FurtherIsRows
  <1>9. h \in [0..n -> Seq(Record)]
    BY <1>7, <1>8
  <1>10. Filters(h, rows, wanted, n)
    <2>1. h[0] = <<>>
      BY <1>4, <1>6 DEF Filters
    <2>2. ASSUME NEW k \in 1..n
          PROVE  h[k] = Further(h[k - 1], rows, k, wanted)
      <3>1. CASE k = n
        BY <1>4, <3>1
      <3>2. CASE k # n
        <4>1. k \in 1..(n - 1) /\ k - 1 \in 0..n /\ k - 1 # n /\ k \in 0..n
          BY <1>4, <3>2
        <4>2. h[k] = g[k] /\ h[k - 1] = g[k - 1]
          BY <3>2, <4>1
        <4> QED BY <1>6, <4>1, <4>2 DEF Filters
      <3> QED BY <3>1, <3>2
    <2> QED BY <1>9, <2>1, <2>2 DEF Filters
  <1> QED BY <1>2, <1>10

\* Two filters that see the same rows find the same.
LEMMA FilterIsUnique ==
  ASSUME NEW rows, NEW others, NEW wanted, NEW N \in Nat, NEW M \in Nat, N <= M,
         \A k \in 1..N : rows[k] = others[k],
         NEW f, NEW g, Filters(f, rows, wanted, N), Filters(g, others, wanted, M),
         NEW n \in 0..N
  PROVE  f[n] = g[n]
  <1> DEFINE S == {k \in 0..N : f[k] # g[k]}
  <1>1. SUFFICES ASSUME S # {} PROVE FALSE
    OBVIOUS
  <1>2. PICK k \in S : \A m \in S : k <= m
    <2>1. S \in SUBSET Nat
      OBVIOUS
    <2> HIDE DEF S
    <2> QED BY <1>1, <2>1, SmallestOne
  <1>3. k # 0
    BY <1>2 DEF Filters
  <1>4. k \in 1..N /\ k \in 1..M /\ k - 1 \in 0..N /\ k \in Nat
    BY <1>2, <1>3
  <1>5. k - 1 \notin S
    <2> HIDE DEF S
    <2> QED BY <1>2, <1>4
  <1>6. f[k - 1] = g[k - 1]
    BY <1>4, <1>5
  <1>7. f[k] = g[k]
    <2>1. f[k] = Further(f[k - 1], rows, k, wanted)
      BY <1>4 DEF Filters
    <2>2. g[k] = Further(g[k - 1], others, k, wanted)
      BY <1>4 DEF Filters
    <2> QED BY <1>4, <1>6, <2>1, <2>2 DEF Further
  <1> QED BY <1>2, <1>7

\* The recursive function that Matching picks is a filter.
LEMMA MatchingIsFilter ==
  ASSUME NEW rows \in Seq(Record), NEW wanted
  PROVE  \E f : Filters(f, rows, wanted, Len(rows)) /\ Matching(rows, wanted) = f[Len(rows)]
  <1> DEFINE L == Len(rows)
             Is(f) == f = [n \in 0..L |->
                             IF n = 0 THEN <<>>
                             ELSE IF rows[n] \in wanted THEN Append(f[n - 1], rows[n])
                             ELSE f[n - 1]]
             found == CHOOSE f : Is(f)
  <1>1. L \in Nat /\ L \in 0..Len(rows)
    OBVIOUS
  <1>2. PICK g : Filters(g, rows, wanted, L)
    BY <1>1, FilterExists
  <1>3. Is(g)
    <2> DEFINE h == [n \in 0..L |->
                       IF n = 0 THEN <<>>
                       ELSE IF rows[n] \in wanted THEN Append(g[n - 1], rows[n])
                       ELSE g[n - 1]]
    <2>1. \A n \in 0..L : g[n] = h[n]
      <3>1. TAKE n \in 0..L
      <3>2. CASE n = 0
        BY <1>2, <3>2 DEF Filters
      <3>3. CASE n # 0
        <4>1. n \in 1..L
          BY <1>1, <3>3
        <4> QED BY <1>2, <3>3, <4>1 DEF Filters, Further
      <3> QED BY <3>2, <3>3
    <2>2. g = [n \in 0..L |-> g[n]]
      BY <1>2 DEF Filters
    <2> QED BY <2>1, <2>2
  <1>4. Is(found)
    <2> HIDE DEF Is
    <2> QED BY <1>3
  <1>5. Matching(rows, wanted) = found[L]
    BY DEF Matching
  <1>6. \A n \in 0..L : found[n] = IF n = 0 THEN <<>> ELSE Further(found[n - 1], rows, n, wanted)
    <2> HIDE DEF found
    <2> QED BY <1>4 DEF Further
  <1>7. found \in [0..L -> Seq(Record)]
    <2> HIDE DEF found
    <2> DEFINE S == {n \in 0..L : found[n] \notin Seq(Record)}
    <2>1. ASSUME S # {} PROVE FALSE
      <3>1. PICK n \in S : \A m \in S : n <= m
        <4>1. S \in SUBSET Nat
          OBVIOUS
        <4> HIDE DEF S
        <4> QED BY <2>1, <4>1, SmallestOne
      <3>2. n # 0
        <4>1. found[0] = <<>> /\ <<>> \in Seq(Record)
          BY <1>1, <1>6
        <4> QED BY <3>1, <4>1
      <3>3. n \in 1..L /\ n - 1 \in 0..L /\ n \in Nat
        BY <1>1, <3>1, <3>2
      <3>4. n - 1 \notin S
        <4> HIDE DEF S
        <4> QED BY <3>1, <3>3
      <3>5. found[n - 1] \in Seq(Record)
        BY <3>3, <3>4
      <3>6. found[n] \in Seq(Record)
        BY <1>6, <3>2, <3>3, <3>5, FurtherIsRows, SMTT(30)
      <3> QED BY <3>1, <3>6
    <2>2. \A n \in 0..L : found[n] \in Seq(Record)
      BY <2>1
    <2>3. found = [n \in 0..L |-> found[n]]
      BY <1>4
    <2> QED BY <2>2, <2>3
  <1>8. Filters(found, rows, wanted, L)
    <2> HIDE DEF found
    <2>1. 0 \in 0..L /\ \A n \in 1..L : n \in 0..L /\ n # 0
      BY <1>1
    <2> QED BY <1>6, <1>7, <2>1 DEF Filters
  <1> QED BY <1>5, <1>8

\* What a filter has found it keeps: `short` is the beginning of `long`.
StartOf(short, long) ==
  Len(short) <= Len(long) /\ \A i \in 1..Len(short) : short[i] = long[i]

LEMMA AppendedToTheEnd ==
  ASSUME NEW T, NEW short \in Seq(T), NEW long \in Seq(T), NEW x \in T, StartOf(short, long)
  PROVE  StartOf(short, Append(long, x))
  BY DEF StartOf

LEMMA FoundIsKept ==
  ASSUME NEW rows \in Seq(Record), NEW wanted, NEW f,
         Filters(f, rows, wanted, Len(rows)), NEW first \in 0..Len(rows)
  PROVE  StartOf(f[first], f[Len(rows)])
  <1> DEFINE L == Len(rows)
             S == {n \in first..L : ~StartOf(f[first], f[n])}
  <1>0. L \in Nat /\ first \in Nat /\ first <= L /\ L \in first..L
    OBVIOUS
  <1>1. SUFFICES ASSUME S # {} PROVE FALSE
    BY <1>0
  <1>2. PICK n \in S : \A m \in S : n <= m
    <2>1. S \in SUBSET Nat
      BY <1>0
    <2> HIDE DEF S
    <2> QED BY <1>1, <2>1, SmallestOne
  <1>3. \A k \in 0..L : f[k] \in Seq(Record)
    BY DEF Filters
  <1>4. n # first
    <2>1. f[first] \in Seq(Record)
      BY <1>0, <1>3
    <2>2. StartOf(f[first], f[first])
      BY <2>1 DEF StartOf
    <2> QED BY <1>2, <2>2
  <1>5. n \in 1..L /\ n - 1 \in first..L /\ n \in Nat /\ n - 1 \in 0..L
    BY <1>0, <1>2, <1>4
  <1>6. n - 1 \notin S
    <2> HIDE DEF S
    <2> QED BY <1>2, <1>5
  <1>7. StartOf(f[first], f[n - 1])
    BY <1>5, <1>6
  <1>8. StartOf(f[first], f[n])
    <2>1. f[n - 1] \in Seq(Record) /\ f[first] \in Seq(Record) /\ rows[n] \in Record
      BY <1>0, <1>3, <1>5, SMTT(30)
    <2>2. f[n] = f[n - 1] \/ f[n] = Append(f[n - 1], rows[n])
      BY <1>5 DEF Filters, Further
    <2>3. StartOf(f[first], Append(f[n - 1], rows[n]))
      BY <1>7, <2>1, AppendedToTheEnd
    <2> QED BY <1>7, <2>2, <2>3
  <1> QED BY <1>2, <1>8

LEMMA FirstOfIs ==
  ASSUME NEW T, NEW rows \in Seq(T), NEW limit \in Nat
  PROVE  /\ FirstOf(rows, limit) \in Seq(T)
         /\ Len(FirstOf(rows, limit)) = IF limit < Len(rows) THEN limit ELSE Len(rows)
         /\ \A i \in 1..Len(FirstOf(rows, limit)) : FirstOf(rows, limit)[i] = rows[i]
  <1> DEFINE m == IF limit < Len(rows) THEN limit ELSE Len(rows)
  <1>1. m \in Nat /\ m <= Len(rows) /\ Len(rows) \in Nat
    OBVIOUS
  <1>2. FirstOf(rows, limit) = SubSeq(rows, 1, m)
    BY DEF FirstOf
  <1> HIDE DEF m
  <1>3. SubSeq(rows, 1, m) \in Seq(T) /\ Len(SubSeq(rows, 1, m)) = m
    BY <1>1
  <1>4. \A i \in 1..m : SubSeq(rows, 1, m)[i] = rows[i]
    BY <1>1
  <1> QED BY <1>2, <1>3, <1>4 DEF m

\* The memory's rows are the first of the database's, so what it finds is the
\* beginning of what the database finds.
LEMMA MemoryFindsTheStart ==
  ASSUME store \in Seq(Record), NEW wanted
  PROVE  LET few == Matching(FirstOf(store, MaxInMemory), wanted)
             all == Matching(store, wanted)
         IN  few \in Seq(Record) /\ all \in Seq(Record) /\ StartOf(few, all)
  <1> DEFINE recent == FirstOf(store, MaxInMemory)
             N == Len(recent)
             L == Len(store)
  <1>1. /\ recent \in Seq(Record) /\ N \in Nat /\ L \in Nat /\ N <= L
        /\ \A k \in 1..N : recent[k] = store[k]
    <2>1. MaxInMemory \in Nat /\ L \in Nat
      OBVIOUS
    <2>2. /\ recent \in Seq(Record)
          /\ Len(recent) = IF MaxInMemory < Len(store) THEN MaxInMemory ELSE Len(store)
          /\ \A i \in 1..Len(recent) : recent[i] = store[i]
      BY <2>1, FirstOfIs, Zenon
    <2> HIDE DEF recent
    <2> QED BY <2>1, <2>2
  <1> HIDE DEF recent
  <1>2. PICK f : Filters(f, recent, wanted, N) /\ Matching(recent, wanted) = f[N]
    BY <1>1, MatchingIsFilter
  <1>3. PICK g : Filters(g, store, wanted, L) /\ Matching(store, wanted) = g[L]
    BY MatchingIsFilter
  <1>4. N \in 0..N /\ N \in 0..L /\ L \in 0..L
    BY <1>1
  <1>5. f[N] = g[N]
    <2> HIDE HopAssumption, TrailAssumption DEF N, L
    <2>1. /\ N \in Nat /\ L \in Nat /\ N <= L /\ N \in 0..N
          /\ \A k \in 1..N : recent[k] = store[k]
          /\ Filters(f, recent, wanted, N) /\ Filters(g, store, wanted, L)
      BY <1>1, <1>2, <1>3, <1>4
    <2> QED BY <2>1, FilterIsUnique, SMTT(30)
  <1>6. StartOf(g[N], g[L])
    BY <1>3, <1>4, FoundIsKept
  <1>7. g[N] \in Seq(Record) /\ g[L] \in Seq(Record)
    BY <1>3, <1>4 DEF Filters
  <1> QED BY <1>2, <1>3, <1>5, <1>6, <1>7 DEF recent

LEMMA SameRows ==
  ASSUME NEW T, NEW s \in Seq(T), NEW t \in Seq(T), Len(s) = Len(t),
         \A i \in 1..Len(s) : s[i] = t[i]
  PROVE  s = t
  BY SeqEqual

\* Cut to a limit, the beginning of some rows is the beginning of what they are
\* cut to.
LEMMA CutOfTheStart ==
  ASSUME NEW T, NEW few \in Seq(T), NEW all \in Seq(T), StartOf(few, all), NEW limit \in Nat
  PROVE  FirstOf(few, limit) = FirstOf(FirstOf(all, limit), Len(FirstOf(few, limit)))
  <1> DEFINE a == FirstOf(few, limit)
             b == FirstOf(all, limit)
             c == FirstOf(b, Len(a))
  <1>1. /\ a \in Seq(T) /\ Len(a) = IF limit < Len(few) THEN limit ELSE Len(few)
        /\ \A i \in 1..Len(a) : a[i] = few[i]
    BY FirstOfIs
  <1>2. /\ b \in Seq(T) /\ Len(b) = IF limit < Len(all) THEN limit ELSE Len(all)
        /\ \A i \in 1..Len(b) : b[i] = all[i]
    BY FirstOfIs
  <1>3. Len(few) \in Nat /\ Len(all) \in Nat /\ Len(few) <= Len(all)
    BY DEF StartOf
  <1>4. Len(a) \in Nat /\ Len(b) \in Nat /\ Len(a) <= Len(b) /\ Len(a) <= Len(few)
    BY <1>1, <1>2, <1>3, SMTT(30)
  <1> HIDE DEF a, b
  <1>5. c \in Seq(T) /\ Len(c) = Len(a) /\ \A i \in 1..Len(c) : c[i] = b[i]
    <2>1. b \in Seq(T) /\ Len(a) \in Nat
      BY <1>2, <1>4
    <2>2. /\ c \in Seq(T) /\ Len(c) = IF Len(a) < Len(b) THEN Len(a) ELSE Len(b)
          /\ \A i \in 1..Len(c) : c[i] = b[i]
      BY <2>1, FirstOfIs, Zenon
    <2> HIDE DEF c
    <2>3. Len(c) = Len(a)
      BY <1>4, <2>2
    <2> QED BY <2>2, <2>3
  <1> HIDE DEF c
  <1>6. \A i \in 1..Len(a) : a[i] = c[i]
    <2>1. TAKE i \in 1..Len(a)
    <2>2. i \in 1..Len(few) /\ i \in 1..Len(b) /\ i \in 1..Len(c)
      BY <1>3, <1>4, <1>5
    <2> QED BY <1>1, <1>2, <1>5, <2>2 DEF StartOf
  <1>7. a = c
    BY <1>1, <1>5, <1>6, SameRows
  <1> QED BY <1>7 DEF a, b, c

LEMMA AskForATool ==
  ASSUME NEW tenant, NEW tool \in Tool \cup {"any"}
  PROVE  matches(tenant, tool) = where(tenant, tool)
  <1>1. tool # "empty"
    OBVIOUS
  <1> QED BY <1>1 DEF matches, where

(* The in-memory backend answers like the database, up to what it has      *)
(* forgotten, for any rows, limits and sizes of the memory, whenever the   *)
(* tool asked for is not the empty text (AuditStore.query,                 *)
(* PostgresAuditStore.query, get_audit).                                   *)
THEOREM BackendsAnswerAlike == Spec => []BackendsAgree
  <1>1. TrailInv => BackendsAgree
    <2>1. SUFFICES ASSUME TrailInv, NEW tenant \in Tenant, NEW tool \in Tool \cup {"any"},
                          NEW asked \in 0..(MaxInMemory + 1)
                   PROVE  Alike(tenant, tool, asked)
      BY DEF BackendsAgree
    <2> DEFINE limit == get_audit_limit(asked)
               wanted == where(tenant, tool)
               few == Matching(FirstOf(store, MaxInMemory), wanted)
               all == Matching(store, wanted)
    <2>2. store \in Seq(Record) /\ MaxInMemory \in Nat /\ asked \in Nat
      BY <2>1 DEF TrailInv, TypeOK
    <2>3. limit \in Nat
      BY <2>2 DEF get_audit_limit
    <2>4. few \in Seq(Record) /\ all \in Seq(Record) /\ StartOf(few, all)
      BY <2>2, MemoryFindsTheStart
    <2>5. ASSUME Len(store) <= MaxInMemory PROVE FirstOf(store, MaxInMemory) = store
      <3>1. /\ FirstOf(store, MaxInMemory) \in Seq(Record)
            /\ Len(FirstOf(store, MaxInMemory)) = Len(store)
            /\ \A i \in 1..Len(FirstOf(store, MaxInMemory)) : FirstOf(store, MaxInMemory)[i] = store[i]
        <4>1. Len(store) \in Nat
          BY <2>2
        <4> QED BY <2>2, <2>5, <4>1, FirstOfIs
      <3> QED BY <2>2, <3>1, SameRows
    <2>6. memory_query(tenant, tool, limit) = FirstOf(few, limit)
      BY AskForATool DEF memory_query
    <2>7. query(tenant, tool, limit) = FirstOf(all, limit)
      BY DEF query
    <2>8. Len(store) <= MaxInMemory => few = all
      BY <2>5
    <2> HIDE DEF limit, few, all, wanted
    <2>9. FirstOf(few, limit) = FirstOf(FirstOf(all, limit), Len(FirstOf(few, limit)))
      BY <2>3, <2>4, CutOfTheStart
    <2> QED BY <2>6, <2>7, <2>8, <2>9 DEF limit, Alike
  <1> QED BY <1>1, TrailAlways, PTL
=============================================================================
