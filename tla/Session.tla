------------------------------- MODULE Session ------------------------------
(***************************************************************************)
(* A browser tab's session: the page's requests and its renewal timer      *)
(* (app/web/src/api.ts, App.tsx), the api's login and refresh routes       *)
(* (app/api/auth.py), and the identity provider, which rotates a refresh   *)
(* token on every use.                                                     *)
(*                                                                         *)
(* The page is one thread: a step is what happens between two awaits.      *)
(* When a renewal's promise settles, everybody who waits on it goes on     *)
(* before any other event, so that is one step.                            *)
(*                                                                         *)
(* A session is a login and a generation: generation g carries the g-th    *)
(* refresh token of that login and an access token of its own.             *)
(***************************************************************************)
EXTENDS Naturals

CONSTANTS
  Request,          \* the page's requests that may be outstanding together
  MaxLogins, MaxRequests, MaxExpiries, MaxMishaps    \* bounds

ASSUME SessionAssumption ==
  /\ MaxLogins \in Nat /\ MaxRequests \in Nat /\ MaxExpiries \in Nat
  /\ MaxMishaps \in Nat

VARIABLES
  store,       \* sessionStorage
  ui,          \* the page's `session` state
  timer,       \* the renewal timer: armed, and a fired one that waits
  renewal,     \* renewalInFlight, and how far its call got
  request,     \* request[r]: a call of `request`
  current,     \* provider: current[l], the refresh token of login l it accepts
  alive,       \* provider: the logins whose session has not ended
  open,        \* the logins whose refresh window has not passed
  valid,       \* the access tokens that have not expired
  left,        \* history: the logins that signed out
  hurried,     \* history: somebody signed in or out while the page was waiting
  logins, started, expiries, reloads, losses

page == <<store, ui, timer, renewal, request>>
provider == <<current, alive, open, valid>>
history == <<left, hurried>>
bounds == <<logins, started, expiries, reloads, losses>>
vars == <<store, ui, timer, renewal, request, current, alive, open, valid,
          left, hurried, logins, started, expiries, reloads, losses>>

None == [login |-> 0, gen |-> 0]
Login == 1..MaxLogins
Token == [login : Login, gen : Nat]
NoRenewal == [at |-> "none"]
Idle == [at |-> "idle"]

SessionOK == store \in Token \cup {None} /\ ui \in Token \cup {None}
TimerOK == timer \in [armed : BOOLEAN, waits : BOOLEAN]
RenewalOK ==
  renewal \in {NoRenewal} \cup [at : {"sent", "renewed", "refused"}, token : Token]
RequestOK ==
  request \in [Request -> {Idle} \cup [at : {"sent", "waits", "retried"}, token : Token]]
ProviderOK ==
  /\ current \in [Login -> Nat] /\ alive \subseteq open /\ open \subseteq Login
  /\ valid \subseteq Token
HistoryOK == left \subseteq Login /\ hurried \in BOOLEAN
BoundsOK ==
  /\ logins \in 0..MaxLogins /\ started \in 0..MaxRequests /\ expiries \in 0..MaxExpiries
  /\ reloads \in Nat /\ losses \in Nat

TypeOK ==
  /\ SessionOK /\ TimerOK /\ RenewalOK /\ RequestOK
  /\ ProviderOK /\ HistoryOK /\ BoundsOK

Init ==
  /\ store = None /\ ui = None
  /\ timer = [armed |-> FALSE, waits |-> FALSE]
  /\ renewal = NoRenewal
  /\ request = [r \in Request |-> Idle]
  /\ current = [l \in Login |-> 0] /\ alive = {} /\ open = {} /\ valid = {}
  /\ left = {} /\ hurried = FALSE
  /\ logins = 0 /\ started = 0 /\ expiries = 0 /\ reloads = 0 /\ losses = 0

-----------------------------------------------------------------------------
(* The provider.                                                           *)

Renewal(s) == [login |-> s.login, gen |-> s.gen + 1]

\* An access token's five minutes pass.
AccessExpires(s) ==
  /\ expiries < MaxExpiries
  /\ s \in valid
  /\ valid' = valid \ {s}
  /\ expiries' = expiries + 1
  /\ UNCHANGED <<page, current, alive, open, history, logins, started, reloads, losses>>

\* The session is revoked, which the page cannot see.
Revoked(l) ==
  /\ l \in alive
  /\ alive' = alive \ {l}
  /\ UNCHANGED <<page, current, open, valid, history, bounds>>

\* The refresh window passes, which the page sees as well.
WindowPasses(l) ==
  /\ l \in open
  /\ open' = open \ {l}
  /\ alive' = alive \ {l}
  /\ UNCHANGED <<page, current, valid, history, bounds>>

\* The refresh grant: the token is rotated, or the caller gets a 401.
RefreshGrant ==
  /\ renewal.at = "sent"
  /\ LET s == renewal.token
         good == s.login \in alive /\ s.gen = current[s.login]
     IN  IF good
           THEN /\ current' = [current EXCEPT ![s.login] = @ + 1]
                /\ valid' = valid \cup {Renewal(s)}
                /\ renewal' = [at |-> "renewed", token |-> s]
           ELSE /\ renewal' = [at |-> "refused", token |-> s]
                /\ UNCHANGED <<current, valid>>
  /\ UNCHANGED <<store, ui, timer, request, alive, open, history, bounds>>

-----------------------------------------------------------------------------
(* Signing in and out, and reloading the page.                             *)

\* setSession's effects: the state, the storage and a timer for the new state.
Show(s) ==
  /\ ui' = s
  /\ store' = s
  /\ timer' = [armed |-> s # None, waits |-> timer.waits]

\* Nothing the page waits for.
Quiet == renewal = NoRenewal /\ \A r \in Request : request[r] = Idle

SignIn ==
  /\ ui = None
  /\ logins < MaxLogins
  /\ logins' = logins + 1
  /\ LET s == [login |-> logins', gen |-> 0]
     IN  /\ Show(s)
         /\ alive' = alive \cup {logins'}
         /\ open' = open \cup {logins'}
         /\ valid' = valid \cup {s}
  /\ hurried' = (hurried \/ ~Quiet)
  /\ UNCHANGED <<renewal, request, current, left, started, expiries, reloads, losses>>

\* Slip: the page forgets the session and the storage keeps it.
SignOut_Slip ==
  /\ ui # None
  /\ ui' = None
  /\ timer' = [armed |-> FALSE, waits |-> timer.waits]
  /\ left' = left \cup {ui.login}
  /\ hurried' = (hurried \/ ~Quiet)
  /\ UNCHANGED <<store, renewal, request, provider, bounds>>

SignOut ==
  /\ ui # None
  /\ Show(None)
  /\ left' = left \cup {ui.login}
  /\ hurried' = (hurried \/ ~Quiet)
  /\ UNCHANGED <<renewal, request, provider, bounds>>

\* loadSession: a session past its refresh window is dropped.
Loaded == IF store # None /\ store.login \in open THEN store ELSE None

\* Everything the page was doing is gone, a renewal's answer included.
Reload ==
  /\ reloads + losses < MaxMishaps
  /\ reloads' = reloads + 1
  /\ ui' = Loaded
  /\ store' = Loaded
  /\ timer' = [armed |-> Loaded # None, waits |-> FALSE]
  /\ renewal' = NoRenewal
  /\ request' = [r \in Request |-> Idle]
  /\ losses' = IF renewal.at = "renewed" THEN losses + 1 ELSE losses
  /\ UNCHANGED <<provider, history, logins, started, expiries>>

-----------------------------------------------------------------------------
(* Requests and renewals.                                                  *)

\* Slip: a renewal is begun whether or not one is on its way.
Begin_Slip(s) == renewal' = [at |-> "sent", token |-> s]

\* renewSession past its guards: join the renewal on its way, or begin one.
Begin(s) == renewal' = IF renewal = NoRenewal THEN [at |-> "sent", token |-> s] ELSE renewal

\* The page's call is sent with the token of the state.
Call(r) ==
  /\ request[r] = Idle
  /\ ui # None
  /\ started < MaxRequests
  /\ started' = started + 1
  /\ request' = [request EXCEPT ![r] = [at |-> "sent", token |-> ui]]
  /\ UNCHANGED <<store, ui, timer, renewal, provider, history, logins, expiries, reloads, losses>>

\* The api answers, or cannot be reached: the call is over.
Answered(r) ==
  /\ request[r].at \in {"sent", "retried"}
  /\ request' = [request EXCEPT ![r] = Idle]
  /\ UNCHANGED <<store, ui, timer, renewal, provider, history, bounds>>

\* The token is rejected the first time, and there is a session to renew.
Rejected(r) ==
  /\ request[r].at = "sent" /\ request[r].token \notin valid
  /\ Loaded # None
  /\ Begin(Loaded)
  /\ request' = [request EXCEPT ![r] = [at |-> "waits", token |-> request[r].token]]
  /\ UNCHANGED <<store, ui, timer, provider, history, bounds>>

\* Slip: the first rejection is final, whatever can be renewed.
Expired_Slip(r) ==
  /\ request[r].at \in {"sent", "retried"} /\ request[r].token \notin valid
  /\ Show(None)
  /\ request' = [request EXCEPT ![r] = Idle]
  /\ UNCHANGED <<renewal, provider, history, bounds>>

\* It is rejected for good: the session is dropped and the page told.
Expired(r) ==
  /\ request[r].at \in {"sent", "retried"} /\ request[r].token \notin valid
  /\ request[r].at = "sent" => Loaded = None
  /\ Show(None)
  /\ request' = [request EXCEPT ![r] = Idle]
  /\ UNCHANGED <<renewal, provider, history, bounds>>

\* Shortly before the state's token expires, or later, the timer fires.
TimerFires ==
  /\ timer.armed
  /\ ui \notin valid \/ expiries < MaxExpiries
  /\ IF Loaded # None
       THEN /\ Begin(Loaded)
            /\ timer' = [armed |-> FALSE, waits |-> TRUE]
            /\ expiries' = IF ui \in valid THEN expiries + 1 ELSE expiries
            /\ UNCHANGED <<ui, store>>
       ELSE /\ Show(None)
            /\ UNCHANGED <<renewal, expiries>>
  /\ UNCHANGED <<request, provider, history, logins, started, reloads, losses>>

\* The calls that wait for a renewal are retried with what it brought.
Retried(s) ==
  [r \in Request |-> IF request[r].at = "waits" THEN [at |-> "retried", token |-> s]
                                               ELSE request[r]]

\* Slip: the renewal is handed out and not stored.
Renewed_Unsaved ==
  /\ renewal.at = "renewed"
  /\ LET s == Renewal(renewal.token)
     IN  /\ request' = Retried(s)
         /\ IF timer.waits
              THEN ui' = s /\ timer' = [armed |-> TRUE, waits |-> FALSE]
              ELSE UNCHANGED <<ui, timer>>
  /\ renewal' = NoRenewal
  /\ UNCHANGED <<store, provider, history, bounds>>

\* Slip: the effect does not depend on the session, so no timer follows.
Renewed_NoTimer ==
  /\ renewal.at = "renewed"
  /\ LET s == Renewal(renewal.token)
     IN  /\ store' = s
         /\ request' = Retried(s)
         /\ IF timer.waits
              THEN ui' = s /\ timer' = [armed |-> timer.armed, waits |-> FALSE]
              ELSE UNCHANGED <<ui, timer>>
  /\ renewal' = NoRenewal
  /\ UNCHANGED <<provider, history, bounds>>

\* The renewal's answer arrives: it is stored, the calls that wait for it are
\* retried with it, and the timer's callback puts it into the state.
Renewed ==
  /\ renewal.at = "renewed"
  /\ LET s == Renewal(renewal.token)
     IN  /\ store' = s
         /\ request' = Retried(s)
         /\ IF timer.waits
              THEN ui' = s /\ timer' = [armed |-> TRUE, waits |-> FALSE]
              ELSE UNCHANGED <<ui, timer>>
  /\ renewal' = NoRenewal
  /\ UNCHANGED <<provider, history, bounds>>

\* Slip: a renewal that fails tells the timer and forgets the calls.
RenewalFailed_Slip ==
  /\ renewal.at # "none"
  /\ renewal.at # "refused" => reloads + losses < MaxMishaps
  /\ losses' = IF renewal.at = "refused" THEN losses ELSE losses + 1
  /\ renewal' = NoRenewal
  /\ store' = None
  /\ ui' = None
  /\ timer' = [armed |-> FALSE, waits |-> FALSE]
  /\ UNCHANGED <<request, provider, history, logins, started, expiries, reloads>>

\* It is refused, or its answer is lost: whoever waits drops the session.
RenewalFailed ==
  /\ renewal.at # "none"
  /\ renewal.at # "refused" => reloads + losses < MaxMishaps
  /\ losses' = IF renewal.at = "refused" THEN losses ELSE losses + 1
  /\ renewal' = NoRenewal
  /\ request' = [r \in Request |-> IF request[r].at = "waits" THEN Idle ELSE request[r]]
  /\ store' = None
  /\ ui' = None
  /\ timer' = [armed |-> FALSE, waits |-> FALSE]
  /\ UNCHANGED <<provider, history, logins, started, expiries, reloads>>

Next ==
  \/ \E s \in valid : AccessExpires(s)
  \/ \E l \in open : Revoked(l) \/ WindowPasses(l)
  \/ RefreshGrant
  \/ SignIn
  \/ SignOut
  \/ Reload
  \/ \E r \in Request : Call(r) \/ Answered(r) \/ Rejected(r) \/ Expired(r)
  \/ TimerFires
  \/ Renewed
  \/ RenewalFailed

Spec == Init /\ [][Next]_vars

-----------------------------------------------------------------------------
(* What the session promises.                                              *)

\* A refresh token is rotated on use: unless an answer was lost, the token a
\* renewal presents is the newest one (renewSession, "One renewal at a time").
NoTokenIsSpentTwice ==
  renewal.at = "sent" /\ losses = 0 => renewal.token.gen = current[renewal.token.login]

\* A reload brings back what the page shows, or something newer: the storage
\* is never behind the state (saveSession, clearSession and `expire`).
StoreFollowsUi ==
  ui # None /\ ~hurried => store.login = ui.login /\ store.gen >= ui.gen

\* Whoever signed out stays signed out, in the state and across a reload,
\* provided nothing was outstanding when they did (signOut).
SignOutIsFinal == ~hurried => ui.login \notin left /\ store.login \notin left

\* Nobody is sent back to the sign-in screen while their session could be
\* renewed: it was ended, an answer was lost, or a fresh token was rejected.
StaysSignedIn ==
  [][ui # None /\ ui' = None /\ ~hurried' =>
       \/ ui.login \in left' \/ ui.login \notin alive
       \/ losses' > 0
       \/ \E r \in Request : request[r].at = "retried" /\ request[r].token \notin valid]_vars

\* A session the page shows is never left to expire: its timer is armed, or
\* the timer's callback waits for the renewal (the effect on `session`).
SomebodyRenews == ui # None => timer.armed \/ timer.waits

\* Whoever waits for a renewal waits for one on its way: nobody who shares the
\* promise is left behind when it settles (renewalInFlight).
NobodyWaitsInVain ==
  timer.waits \/ (\E r \in Request : request[r].at = "waits") => renewal # NoRenewal
=============================================================================
