--------------------------------- MODULE Hop --------------------------------
(***************************************************************************)
(* How a service proves who it is: the JWT-SVID it sends along on a hop    *)
(* (app/common/hop.py, sdk/agentnhi/identity.py) and the X.509-SVID it     *)
(* serves with (app/common/server.py).                                     *)
(*                                                                         *)
(* Time is kept as ages and remaining lifetimes; what is left of a token   *)
(* is negative once it has expired. One callee is modelled, the api, so    *)
(* `_tokens` has one entry; a token past its reuse time is as good as none.*)
(***************************************************************************)
EXTENDS Integers

CONSTANTS
  Thread,             \* the threads of the service that call the api
  TTL,                \* TOKEN_TTL_SECONDS
  Life,               \* the lifetime SPIRE gives a JWT-SVID
  Grain,              \* what a token's `exp` may lose to whole seconds
  FetchTime, ConnectTime, SendTime,    \* how long each part of a call may take
  Span,               \* the lifetime of an X.509-SVID
  Margin, Nap         \* restart this long before its end; look this often

ASSUME HopAssumption ==
  /\ {TTL, Life, FetchTime, ConnectTime, SendTime, Span, Margin, Nap} \subseteq Nat \ {0}
  /\ Grain \in Nat /\ FetchTime < TTL /\ Span > 1

VARIABLES
  tokens,     \* _tokens[api]
  hop,        \* hop[t]: where thread t is in open_hop and the call after it
  serving     \* the certificate being served and the watcher's sleep

NoToken == [age |-> TTL, left |-> 0]
Off == [at |-> "off", age |-> 0, left |-> 0]
Down == [at |-> "down", left |-> 0, nap |-> 0]

HopTypeOK ==
  /\ tokens \in [age : 0..TTL, left : Int]
  /\ hop \in [Thread -> [at : {"off", "asks", "issued", "connects", "sent"},
                         age : Nat, left : Int]]
  /\ serving \in [at : {"down", "up"}, left : 0..Span, nap : 0..Nap]

HopInit ==
  /\ tokens = NoToken
  /\ hop = [t \in Thread |-> Off]
  /\ serving = Down

Shorter(n) == IF n > 0 THEN n - 1 ELSE 0

-----------------------------------------------------------------------------
(* workload_token.                                                         *)

\* open_hop: the cached token if it is young enough, else `now` is taken and
\* SPIRE is asked for a new one.
Look(t) ==
  /\ hop[t] = Off
  /\ hop' = [hop EXCEPT ![t] =
       IF tokens.age < TTL THEN [at |-> "connects", age |-> 0, left |-> tokens.left]
                           ELSE [at |-> "asks", age |-> 0, left |-> 0]]
  /\ UNCHANGED <<tokens, serving>>

\* SPIRE mints a token: it keeps no JWT-SVIDs (jwt_svid_cache_max_size = 0). The
\* time it ends is in whole seconds.
Issue(t) ==
  /\ hop[t].at = "asks"
  /\ \E cut \in 0..Grain : hop' = [hop EXCEPT ![t].at = "issued", ![t].left = Life - cut]
  /\ UNCHANGED <<tokens, serving>>

\* Slip: the token's age is counted from when it is stored.
Keep_Late(t) ==
  /\ hop[t].at = "issued"
  /\ tokens' = [age |-> 0, left |-> hop[t].left]
  /\ hop' = [hop EXCEPT ![t].at = "connects", ![t].age = 0]
  /\ UNCHANGED serving

\* Slip: the token is used and not kept.
Keep_Not(t) ==
  /\ hop[t].at = "issued"
  /\ hop' = [hop EXCEPT ![t].at = "connects", ![t].age = 0]
  /\ UNCHANGED <<tokens, serving>>

\* It is kept with the time taken before it was asked for, and put in a header.
Keep(t) ==
  /\ hop[t].at = "issued"
  /\ tokens' = [age |-> hop[t].age, left |-> hop[t].left]
  /\ hop' = [hop EXCEPT ![t].at = "connects", ![t].age = 0]
  /\ UNCHANGED serving

\* The client connects and shakes hands, and only then is the token sent.
Send(t) ==
  /\ hop[t].at = "connects"
  /\ hop' = [hop EXCEPT ![t].at = "sent", ![t].age = 0]
  /\ UNCHANGED <<tokens, serving>>

\* The call is over, or an identity could not be had or the callee reached.
Leave(t) ==
  /\ hop[t].at \in {"asks", "connects", "sent"}
  /\ hop' = [hop EXCEPT ![t] = Off]
  /\ UNCHANGED <<tokens, serving>>

-----------------------------------------------------------------------------
(* The listener.                                                           *)

\* Slip: the watcher sleeps its full interval.
restart_delay_Slip(remaining) == Nap

restart_delay(remaining) ==
  LET delay == IF remaining - Margin < Nap THEN remaining - Margin ELSE Nap
  IN  IF delay > 0 THEN delay ELSE 0

\* svid_files: SPIRE hands out its copy, which it renews at half its lifetime.
Start ==
  /\ serving = Down
  /\ \E left \in (Span \div 2)..Span : serving' = [at |-> "up", left |-> left, nap |-> 0]
  /\ UNCHANGED <<tokens, hop>>

\* restart_before_expiry: the watcher wakes and sleeps again.
Watch ==
  /\ serving.at = "up" /\ serving.nap = 0
  /\ serving.left > Margin
  /\ serving' = [serving EXCEPT !.nap = restart_delay(serving.left)]
  /\ UNCHANGED <<tokens, hop>>

\* Or the process exits, and everything it held is gone.
Exit ==
  /\ serving.at = "up" /\ serving.nap = 0
  /\ serving.left <= Margin
  /\ tokens' = NoToken
  /\ hop' = [t \in Thread |-> Off]
  /\ serving' = Down

\* Time passes, though not beyond a timeout, nor past the watcher's waking.
Tick ==
  /\ serving.at = "up" => serving.nap > 0
  /\ \A t \in Thread :
       /\ hop[t].at \in {"asks", "issued"} => hop[t].age < FetchTime
       /\ hop[t].at = "connects" => hop[t].age < ConnectTime
       /\ hop[t].at = "sent" => hop[t].age < SendTime
  /\ tokens' = IF tokens.age + 1 < TTL
                 THEN [age |-> tokens.age + 1, left |-> tokens.left - 1] ELSE NoToken
  /\ hop' = [t \in Thread |->
       IF hop[t] = Off THEN Off
       ELSE [hop[t] EXCEPT !.age = @ + 1, !.left = @ - 1]]
  /\ serving' = [serving EXCEPT !.left = Shorter(@), !.nap = Shorter(@)]

-----------------------------------------------------------------------------
(* What a hop promises.                                                    *)

\* A token a thread sends lacks of its lifetime no more than the reuse time,
\* the time to connect and the rounding take, although threads fetch and store
\* tokens in any order: it has ended, if at all, only that long ago
\* (workload_token, open_hop).
TokenIsFreshWhenSent ==
  [][\A t \in Thread : hop[t].at # "sent" /\ hop'[t].at = "sent" =>
       hop'[t].left > Life - TTL - ConnectTime - Grain]_hop

\* "re-fetch well inside that": no thread sends a token that has expired
\* (workload_token, open_hop).
TokenIsLiveWhenSent ==
  [][\A t \in Thread : hop[t].at # "sent" /\ hop'[t].at = "sent" => hop'[t].left > 0]_hop

\* A service that is up serves a certificate that has not expired: the watcher
\* always wakes before it does (restart_before_expiry).
NoExpiredCertificate == serving.at = "up" => serving.left > 0
=============================================================================
