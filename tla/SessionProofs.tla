---------------------------- MODULE SessionProofs ---------------------------
(***************************************************************************)
(* The promises of Session for any number of calls, logins and mishaps.    *)
(* The inductive invariant ties the storage, the renewal on its way and    *)
(* the provider's newest token together.                                   *)
(***************************************************************************)
EXTENDS Session, TLAPS

\* Who has signed in so far: logins are numbered in order, and a login's first
\* refresh token is the one the provider expects.
LoginsInOrder ==
  /\ store.login <= logins /\ ui.login <= logins
  /\ renewal # NoRenewal => renewal.token.login <= logins
  /\ \A l \in left : l <= logins
  /\ \A l \in Login : l > logins => current[l] = 0

\* While no answer was lost, the storage holds the newest token except between
\* a grant and its arrival, and only the end of a session refuses a renewal.
NewestIsStored ==
  losses = 0 =>
    /\ renewal.at = "sent" => renewal.token.gen = current[renewal.token.login]
    /\ renewal.at = "renewed" => renewal.token.gen + 1 = current[renewal.token.login]
    /\ renewal.at = "refused" => renewal.token.login \notin alive
    /\ store # None =>
         \/ store.gen = current[store.login]
         \/ renewal.at = "renewed" /\ renewal.token.login = store.login

\* While nobody hurried, a renewal under a shown session is the storage's own,
\* and what is on its way belongs to nobody who left.
RenewalIsOurs ==
  ~hurried /\ renewal # NoRenewal =>
    /\ ui # None => renewal.token = store
    /\ renewal.token.login \notin left

IInv ==
  /\ TypeOK
  /\ SomebodyRenews /\ NobodyWaitsInVain
  /\ LoginsInOrder /\ NewestIsStored /\ RenewalIsOurs
  /\ StoreFollowsUi /\ SignOutIsFinal

-----------------------------------------------------------------------------

LEMMA TokenFacts ==
  ASSUME NEW s \in Token
  PROVE  /\ Renewal(s) \in Token
         /\ Renewal(s).login = s.login /\ Renewal(s).gen = s.gen + 1
         /\ s # None /\ Renewal(s) # None
BY DEF Token, Renewal, Login, None

LEMMA TimerValues ==
  \A a, b \in BOOLEAN : [armed |-> a, waits |-> b] \in [armed : BOOLEAN, waits : BOOLEAN]
OBVIOUS

\* The state a session starts from.
LEMMA InitIInv == Init => IInv
<1> SUFFICES ASSUME Init PROVE IInv
  OBVIOUS
<1> USE SessionAssumption DEF Init
<1>1. TypeOK
  <2>1. SessionOK /\ TimerOK /\ RenewalOK
    BY DEF SessionOK, TimerOK, RenewalOK
  <2>2. RequestOK
    BY DEF RequestOK
  <2>3. ProviderOK
    BY DEF ProviderOK
  <2>4. HistoryOK
    BY DEF HistoryOK
  <2>5. BoundsOK
    BY DEF BoundsOK
  <2> QED BY <2>1, <2>2, <2>3, <2>4, <2>5 DEF TypeOK
<1>2. SomebodyRenews /\ NobodyWaitsInVain
  BY DEF SomebodyRenews, NobodyWaitsInVain, Idle
<1>3. LoginsInOrder /\ NewestIsStored /\ RenewalIsOurs
  BY DEF LoginsInOrder, NewestIsStored, RenewalIsOurs, None, NoRenewal, Login
<1>4. StoreFollowsUi /\ SignOutIsFinal
  BY DEF StoreFollowsUi, SignOutIsFinal, None
<1> QED BY <1>1, <1>2, <1>3, <1>4 DEF IInv

\* Every step keeps the types.
LEMMA NextTypeOK == TypeOK /\ [Next]_vars => TypeOK'
<1> SUFFICES ASSUME TypeOK, [Next]_vars PROVE TypeOK'
  OBVIOUS
<1> USE SessionAssumption
    DEF TypeOK, SessionOK, RenewalOK, BoundsOK, page, provider, history, bounds
<1>1. ASSUME NEW s \in valid, AccessExpires(s) PROVE TypeOK'
  BY <1>1 DEF AccessExpires, TimerOK, RequestOK, ProviderOK, HistoryOK
<1>2. ASSUME NEW l \in open, Revoked(l) \/ WindowPasses(l) PROVE TypeOK'
  BY <1>2 DEF Revoked, WindowPasses, TimerOK, RequestOK, ProviderOK, HistoryOK
<1>3. CASE RefreshGrant
  BY <1>3, TokenFacts DEF RefreshGrant, Token, NoRenewal, TimerOK, RequestOK, ProviderOK, HistoryOK
<1>4. CASE SignIn
  <2>1. SessionOK' /\ TimerOK' /\ RenewalOK' /\ RequestOK'
    BY <1>4 DEF SignIn, Show, Login, Token, None, TimerOK, RequestOK
  <2>2. logins' \in Login /\ [login |-> logins', gen |-> 0] \in Token
    BY <1>4 DEF SignIn, Login, Token
  <2>3. ProviderOK' /\ BoundsOK'
    BY <1>4, <2>2 DEF SignIn, ProviderOK
  <2>4. HistoryOK'
    BY <1>4 DEF SignIn, HistoryOK
  <2> QED BY <2>1, <2>3, <2>4
<1>5. CASE SignOut
  <2>1. SessionOK' /\ TimerOK' /\ RenewalOK' /\ RequestOK'
    BY <1>5 DEF SignOut, Show, TimerOK, RequestOK
  <2>2. ui.login \in Login
    BY <1>5 DEF SignOut, Token
  <2>3. HistoryOK'
    BY <1>5, <2>2 DEF SignOut, HistoryOK
  <2>4. ProviderOK' /\ BoundsOK'
    BY <1>5 DEF SignOut, ProviderOK
  <2> QED BY <2>1, <2>3, <2>4
<1>6. CASE Reload
  BY <1>6 DEF Reload, Loaded, TimerOK, RequestOK, ProviderOK, HistoryOK
<1>7. ASSUME NEW r \in Request, Call(r) \/ Answered(r) PROVE TypeOK'
  BY <1>7 DEF Call, Answered, TimerOK, RequestOK, ProviderOK, HistoryOK
<1>8. ASSUME NEW r \in Request, Rejected(r) PROVE TypeOK'
  BY <1>8 DEF Rejected, Begin, Loaded, Idle, TimerOK, RequestOK, ProviderOK, HistoryOK
<1>9. ASSUME NEW r \in Request, Expired(r) PROVE TypeOK'
  BY <1>9 DEF Expired, Show, TimerOK, RequestOK, ProviderOK, HistoryOK
<1>10. CASE TimerFires
  <2>1. SessionOK' /\ RenewalOK'
    BY <1>10 DEF TimerFires, Begin, Loaded, Show
  <2>2. TimerOK'
    <3>1. timer.waits \in BOOLEAN
      BY DEF TimerOK
    <3>2. \/ timer' = [armed |-> FALSE, waits |-> TRUE]
          \/ timer' = [armed |-> None # None, waits |-> timer.waits]
      BY <1>10, Zenon DEF TimerFires, Show
    <3>3. (None # None) \in BOOLEAN
      OBVIOUS
    <3> QED BY <3>1, <3>2, <3>3, TimerValues, Zenon DEF TimerOK
  <2>3. RequestOK' /\ ProviderOK' /\ HistoryOK' /\ BoundsOK'
    BY <1>10 DEF TimerFires, RequestOK, ProviderOK, HistoryOK
  <2> QED BY <2>1, <2>2, <2>3
<1>11. CASE Renewed
  <2>1. Renewal(renewal.token) \in Token
    BY <1>11, TokenFacts DEF Renewed, NoRenewal
  <2>2. SessionOK' /\ RenewalOK'
    BY <1>11, <2>1 DEF Renewed
  <2>3. TimerOK'
    <3>1. timer' = [armed |-> TRUE, waits |-> FALSE] \/ timer' = timer
      BY <1>11, Zenon DEF Renewed
    <3> QED BY <3>1, TimerValues, Zenon DEF TimerOK
  <2>4. RequestOK'
    BY <1>11, <2>1 DEF Renewed, Retried, RequestOK
  <2>5. ProviderOK' /\ HistoryOK' /\ BoundsOK'
    BY <1>11 DEF Renewed, ProviderOK, HistoryOK
  <2> QED BY <2>2, <2>3, <2>4, <2>5
<1>12. CASE RenewalFailed
  BY <1>12 DEF RenewalFailed, TimerOK, RequestOK, ProviderOK, HistoryOK
<1>13. CASE UNCHANGED vars
  BY <1>13 DEF vars, TimerOK, RequestOK, ProviderOK, HistoryOK
<1> QED BY <1>1, <1>2, <1>3, <1>4, <1>5, <1>6, <1>7, <1>8, <1>9, <1>10, <1>11,
          <1>12, <1>13 DEF Next

\* What the refresh grant did to the provider and to the renewal.
LEMMA GrantFacts ==
  ASSUME TypeOK, RefreshGrant
  PROVE  LET s == renewal.token
         IN  /\ s \in Token /\ s.login \in Login /\ renewal # NoRenewal
             /\ renewal.at = "sent" /\ renewal'.token = s
             /\ \/ renewal'.at = "renewed" /\ current'[s.login] = s.gen + 1
                \/ /\ renewal'.at = "refused" /\ current' = current
                   /\ s.login \notin alive \/ s.gen # current[s.login]
             /\ \A l \in Login : l # s.login => current'[l] = current[l]
             /\ UNCHANGED <<store, ui, alive, left, hurried, logins, losses>>
<1> USE DEF TypeOK, RenewalOK, ProviderOK, NoRenewal
<1>1. renewal.at = "sent" /\ renewal # NoRenewal
  BY DEF RefreshGrant
<1>2. renewal.token \in Token /\ renewal.token.login \in Login
  BY <1>1 DEF Token
<1>3. UNCHANGED <<store, ui, alive, left, hurried, logins, losses>>
  BY DEF RefreshGrant, history, bounds
<1>4. renewal'.token = renewal.token
  BY DEF RefreshGrant
<1>5. CASE renewal.token.login \in alive /\ renewal.token.gen = current[renewal.token.login]
  <2>1. /\ current' = [current EXCEPT ![renewal.token.login] = @ + 1]
        /\ renewal'.at = "renewed"
    BY <1>5 DEF RefreshGrant
  <2> QED BY <1>1, <1>2, <1>3, <1>4, <1>5, <2>1
<1>6. CASE ~(renewal.token.login \in alive /\ renewal.token.gen = current[renewal.token.login])
  <2>1. current' = current /\ renewal'.at = "refused"
    BY <1>6 DEF RefreshGrant
  <2> QED BY <1>1, <1>2, <1>3, <1>4, <1>6, <2>1
<1> QED BY <1>5, <1>6

\* A new session belongs to a login nobody had before.
LEMMA SignInFacts ==
  ASSUME TypeOK, SignIn
  PROVE  /\ logins' \in Login /\ logins' > logins
         /\ store' = [login |-> logins', gen |-> 0] /\ ui' = store'
         /\ alive' = alive \cup {logins'}
         /\ UNCHANGED <<renewal, current, left, losses>>
<1>1. logins' \in Login /\ logins' > logins
  BY SessionAssumption DEF TypeOK, BoundsOK, SignIn, Login
<1>2. /\ store' = [login |-> logins', gen |-> 0] /\ ui' = store'
      /\ alive' = alive \cup {logins'}
  BY Zenon DEF SignIn, Show
<1>3. UNCHANGED <<renewal, current, left, losses>>
  BY DEF SignIn
<1> QED BY <1>1, <1>2, <1>3

\* Nobody is left without a timer, and nobody waits for nothing.
LEMMA NextSomebodyRenews ==
  ASSUME TypeOK, SomebodyRenews, [Next]_vars
  PROVE  SomebodyRenews'
<1> USE DEF SomebodyRenews, TypeOK, SessionOK, TimerOK, page, provider, history, bounds
<1>1. ASSUME NEW s \in valid, AccessExpires(s) PROVE SomebodyRenews'
  BY <1>1 DEF AccessExpires
<1>2. ASSUME NEW l \in open, Revoked(l) \/ WindowPasses(l) PROVE SomebodyRenews'
  BY <1>2 DEF Revoked, WindowPasses
<1>3. CASE RefreshGrant
  BY <1>3 DEF RefreshGrant
<1>4. CASE SignIn
  BY <1>4 DEF SignIn, Show
<1>5. CASE SignOut
  BY <1>5 DEF SignOut, Show
<1>6. CASE Reload
  BY <1>6 DEF Reload, Loaded
<1>7. ASSUME NEW r \in Request, Call(r) \/ Answered(r) PROVE SomebodyRenews'
  BY <1>7 DEF Call, Answered
<1>8. ASSUME NEW r \in Request, Rejected(r) PROVE SomebodyRenews'
  BY <1>8 DEF Rejected, Begin, Loaded
<1>9. ASSUME NEW r \in Request, Expired(r) PROVE SomebodyRenews'
  BY <1>9 DEF Expired, Show
<1>10. CASE TimerFires
  BY <1>10 DEF TimerFires, Begin, Loaded, Show
<1>11. CASE Renewed
  BY <1>11 DEF Renewed, Retried
<1>12. CASE RenewalFailed
  BY <1>12 DEF RenewalFailed
<1>13. CASE UNCHANGED vars
  BY <1>13 DEF vars
<1> QED BY <1>1, <1>2, <1>3, <1>4, <1>5, <1>6, <1>7, <1>8, <1>9, <1>10, <1>11,
          <1>12, <1>13 DEF Next

LEMMA NextNobodyWaitsInVain ==
  ASSUME TypeOK, NobodyWaitsInVain, [Next]_vars
  PROVE  NobodyWaitsInVain'
<1> USE DEF NobodyWaitsInVain, TypeOK, TimerOK, RequestOK, RenewalOK, page, provider, history, bounds, NoRenewal, Idle
<1>1. ASSUME NEW s \in valid, AccessExpires(s) PROVE NobodyWaitsInVain'
  BY <1>1 DEF AccessExpires
<1>2. ASSUME NEW l \in open, Revoked(l) \/ WindowPasses(l) PROVE NobodyWaitsInVain'
  BY <1>2 DEF Revoked, WindowPasses
<1>3. CASE RefreshGrant
  BY <1>3 DEF RefreshGrant
<1>4. CASE SignIn
  BY <1>4 DEF SignIn, Show
<1>5. CASE SignOut
  BY <1>5 DEF SignOut, Show
<1>6. CASE Reload
  BY <1>6 DEF Reload, Loaded
<1>7. ASSUME NEW r \in Request, Call(r) \/ Answered(r) PROVE NobodyWaitsInVain'
  BY <1>7 DEF Call, Answered
<1>8. ASSUME NEW r \in Request, Rejected(r) PROVE NobodyWaitsInVain'
  BY <1>8 DEF Rejected, Begin, Loaded
<1>9. ASSUME NEW r \in Request, Expired(r) PROVE NobodyWaitsInVain'
  BY <1>9 DEF Expired, Show
<1>10. CASE TimerFires
  BY <1>10 DEF TimerFires, Begin, Loaded, Show
<1>11. CASE Renewed
  BY <1>11 DEF Renewed, Retried
<1>12. CASE RenewalFailed
  BY <1>12 DEF RenewalFailed
<1>13. CASE UNCHANGED vars
  BY <1>13 DEF vars
<1> QED BY <1>1, <1>2, <1>3, <1>4, <1>5, <1>6, <1>7, <1>8, <1>9, <1>10, <1>11,
          <1>12, <1>13 DEF Next

LEMMA NextLoginsInOrder ==
  ASSUME TypeOK, LoginsInOrder, [Next]_vars
  PROVE  LoginsInOrder'
<1> USE DEF LoginsInOrder, TypeOK, SessionOK, RenewalOK, ProviderOK, HistoryOK, BoundsOK, page, provider, history, bounds, NoRenewal, None, Login, Token
<1>1. ASSUME NEW s \in valid, AccessExpires(s) PROVE LoginsInOrder'
  BY <1>1 DEF AccessExpires
<1>2. ASSUME NEW l \in open, Revoked(l) \/ WindowPasses(l) PROVE LoginsInOrder'
  BY <1>2 DEF Revoked, WindowPasses
<1>3. CASE RefreshGrant
  <2>1. /\ store'.login <= logins' /\ ui'.login <= logins' /\ renewal'.token.login <= logins'
        /\ \A l \in left' : l <= logins'
    BY <1>3, GrantFacts
  <2>2. \A l \in Login : l > logins => l # renewal.token.login
    BY <1>3, GrantFacts
  <2>3. \A l \in Login : l > logins' => current'[l] = 0
    BY <1>3, <2>2, GrantFacts
  <2> QED BY <2>1, <2>3
<1>4. CASE SignIn
  BY <1>4 DEF SignIn, Show
<1>5. CASE SignOut
  BY <1>5 DEF SignOut, Show
<1>6. CASE Reload
  BY <1>6 DEF Reload, Loaded
<1>7. ASSUME NEW r \in Request, Call(r) \/ Answered(r) PROVE LoginsInOrder'
  BY <1>7 DEF Call, Answered
<1>8. ASSUME NEW r \in Request, Rejected(r) PROVE LoginsInOrder'
  BY <1>8 DEF Rejected, Begin, Loaded
<1>9. ASSUME NEW r \in Request, Expired(r) PROVE LoginsInOrder'
  BY <1>9 DEF Expired, Show
<1>10. CASE TimerFires
  BY <1>10 DEF TimerFires, Begin, Loaded, Show
<1>11. CASE Renewed
  BY <1>11 DEF Renewed, Retried, Renewal
<1>12. CASE RenewalFailed
  BY <1>12 DEF RenewalFailed
<1>13. CASE UNCHANGED vars
  BY <1>13 DEF vars
<1> QED BY <1>1, <1>2, <1>3, <1>4, <1>5, <1>6, <1>7, <1>8, <1>9, <1>10, <1>11,
          <1>12, <1>13 DEF Next

LEMMA NextNewestIsStored ==
  ASSUME TypeOK, LoginsInOrder, NewestIsStored, [Next]_vars
  PROVE  NewestIsStored'
<1> USE DEF NewestIsStored, LoginsInOrder, TypeOK, SessionOK, RenewalOK, ProviderOK, BoundsOK, page, provider, history, bounds, NoRenewal, None, Login, Token
<1>1. ASSUME NEW s \in valid, AccessExpires(s) PROVE NewestIsStored'
  BY <1>1 DEF AccessExpires
<1>2. ASSUME NEW l \in open, Revoked(l) \/ WindowPasses(l) PROVE NewestIsStored'
  BY <1>2 DEF Revoked, WindowPasses
<1>3. CASE RefreshGrant
  <2>1. CASE losses # 0
    BY <1>3, <2>1, GrantFacts
  <2>2. CASE losses = 0
    <3>1. renewal.token.gen = current[renewal.token.login]
      BY <1>3, <2>2, GrantFacts
    <3>2. renewal'.at # "sent"
      BY <1>3, GrantFacts
    <3>3. renewal'.at = "renewed" => renewal'.token.gen + 1 = current'[renewal'.token.login]
      BY <1>3, GrantFacts
    <3>4. renewal'.at = "refused" => renewal'.token.login \notin alive'
      BY <1>3, <3>1, GrantFacts
    <3>5. store' # None => \/ store'.gen = current'[store'.login]
                           \/ renewal'.at = "renewed" /\ renewal'.token.login = store'.login
      BY <1>3, <2>2, <3>1, GrantFacts
    <3> QED BY <3>2, <3>3, <3>4, <3>5
  <2> QED BY <2>1, <2>2
<1>4. CASE SignIn
  <2>1. current'[logins'] = 0
    BY <1>4, SignInFacts
  <2>2. store'.gen = current'[store'.login]
    BY <1>4, <2>1, SignInFacts
  <2>3. renewal # NoRenewal => renewal.token.login # logins'
    BY <1>4, SignInFacts
  <2>4. losses' = losses /\ renewal' = renewal /\ current' = current /\ alive' = alive \cup {logins'}
    BY <1>4, SignInFacts
  <2> QED BY <2>2, <2>3, <2>4
<1>5. CASE SignOut
  BY <1>5 DEF SignOut, Show
<1>6. CASE Reload
  BY <1>6 DEF Reload, Loaded
<1>7. ASSUME NEW r \in Request, Call(r) \/ Answered(r) PROVE NewestIsStored'
  <2>1. UNCHANGED <<store, renewal, current, alive, losses>>
    BY <1>7 DEF Call, Answered
  <2> QED BY <2>1
<1>8. ASSUME NEW r \in Request, Rejected(r) PROVE NewestIsStored'
  BY <1>8 DEF Rejected, Begin, Loaded
<1>9. ASSUME NEW r \in Request, Expired(r) PROVE NewestIsStored'
  BY <1>9 DEF Expired, Show
<1>10. CASE TimerFires
  BY <1>10 DEF TimerFires, Begin, Loaded, Show
<1>11. CASE Renewed
  BY <1>11 DEF Renewed, Retried, Renewal
<1>12. CASE RenewalFailed
  BY <1>12 DEF RenewalFailed
<1>13. CASE UNCHANGED vars
  BY <1>13 DEF vars
<1> QED BY <1>1, <1>2, <1>3, <1>4, <1>5, <1>6, <1>7, <1>8, <1>9, <1>10, <1>11,
          <1>12, <1>13 DEF Next

LEMMA NextOurs ==
  ASSUME IInv, [Next]_vars
  PROVE  RenewalIsOurs' /\ StoreFollowsUi' /\ SignOutIsFinal'
<1> USE DEF IInv, RenewalIsOurs, StoreFollowsUi, SignOutIsFinal, LoginsInOrder, NobodyWaitsInVain, TypeOK, SessionOK, RenewalOK, HistoryOK, BoundsOK, page, provider, history, bounds, NoRenewal, None, Login, Token
<1>1. ASSUME NEW s \in valid, AccessExpires(s) PROVE RenewalIsOurs' /\ StoreFollowsUi' /\ SignOutIsFinal'
  BY <1>1 DEF AccessExpires
<1>2. ASSUME NEW l \in open, Revoked(l) \/ WindowPasses(l) PROVE RenewalIsOurs' /\ StoreFollowsUi' /\ SignOutIsFinal'
  BY <1>2 DEF Revoked, WindowPasses
<1>3. CASE RefreshGrant
  BY <1>3 DEF RefreshGrant
<1>4. CASE SignIn
  <2>1. ~hurried' => ~hurried /\ renewal = NoRenewal
    BY <1>4, Zenon DEF SignIn, Quiet
  <2> QED BY <1>4, <2>1, SignInFacts
<1>5. CASE SignOut
  <2>1. store' = None /\ ui' = None /\ left' = left \cup {ui.login} /\ renewal' = renewal
    BY <1>5 DEF SignOut, Show
  <2>2. ~hurried' => ~hurried /\ renewal = NoRenewal
    BY <1>5, Zenon DEF SignOut, Quiet
  <2>3. left' \subseteq Login
    BY <1>5, NextTypeOK DEF Next
  <2> QED BY <2>1, <2>2, <2>3
<1>6. CASE Reload
  BY <1>6 DEF Reload, Loaded
<1>7. ASSUME NEW r \in Request, Call(r) \/ Answered(r) PROVE RenewalIsOurs' /\ StoreFollowsUi' /\ SignOutIsFinal'
  BY <1>7 DEF Call, Answered
<1>8. ASSUME NEW r \in Request, Rejected(r) PROVE RenewalIsOurs' /\ StoreFollowsUi' /\ SignOutIsFinal'
  BY <1>8 DEF Rejected, Begin, Loaded
<1>9. ASSUME NEW r \in Request, Expired(r) PROVE RenewalIsOurs' /\ StoreFollowsUi' /\ SignOutIsFinal'
  BY <1>9 DEF Expired, Show
<1>10. CASE TimerFires
  BY <1>10 DEF TimerFires, Begin, Loaded, Show
<1>11. CASE Renewed
  BY <1>11 DEF Renewed, Retried, Renewal
<1>12. CASE RenewalFailed
  BY <1>12 DEF RenewalFailed
<1>13. CASE UNCHANGED vars
  BY <1>13 DEF vars
<1> QED BY <1>1, <1>2, <1>3, <1>4, <1>5, <1>6, <1>7, <1>8, <1>9, <1>10, <1>11,
          <1>12, <1>13 DEF Next

-----------------------------------------------------------------------------
(* The theorems.                                                           *)

\* The inductive invariant holds of every behaviour.
THEOREM SessionInvariant == Spec => []IInv
<1>1. IInv /\ [Next]_vars => IInv'
  BY NextTypeOK, NextSomebodyRenews, NextNobodyWaitsInVain, NextLoginsInOrder,
     NextNewestIsStored, NextOurs DEF IInv
<1> QED BY <1>1, InitIInv, PTL DEF Spec

\* A renewal never presents a refresh token that was already spent: everybody
\* shares one renewal (api.ts, renewSession), whoever signs in or out meanwhile.
THEOREM RotationIsSafe == Spec => []NoTokenIsSpentTwice
<1>1. IInv => NoTokenIsSpentTwice
  BY DEF IInv, NewestIsStored, NoTokenIsSpentTwice
<1> QED BY <1>1, SessionInvariant, PTL

\* The storage is never behind the page (App.tsx, setSession and expire).
THEOREM StorageFollowsPage == Spec => []StoreFollowsUi
<1>1. IInv => StoreFollowsUi
  BY DEF IInv
<1> QED BY <1>1, SessionInvariant, PTL

\* Nobody who signed out of a quiet page comes back (App.tsx, signOut).
THEOREM SignOutLasts == Spec => []SignOutIsFinal
<1>1. IInv => SignOutIsFinal
  BY DEF IInv
<1> QED BY <1>1, SessionInvariant, PTL

\* A shown session has somebody who renews it (App.tsx, the timer's effect).
THEOREM SessionIsTended == Spec => []SomebodyRenews
<1>1. IInv => SomebodyRenews
  BY DEF IInv
<1> QED BY <1>1, SessionInvariant, PTL

\* Whoever waits for a renewal waits for one on its way (api.ts, renewSession).
THEOREM WaitersAreAnswered == Spec => []NobodyWaitsInVain
<1>1. IInv => NobodyWaitsInVain
  BY DEF IInv
<1> QED BY <1>1, SessionInvariant, PTL

\* The sign-in screen comes back only for a session that ended, a lost answer
\* or a fresh token that is rejected.
THEOREM SessionOutlivesToken == Spec => StaysSignedIn
<1> DEFINE Ended == ui.login \in left' \/ ui.login \notin alive
           Rejection == \E r \in Request : request[r].at = "retried" /\ request[r].token \notin valid
           Stays == ui # None /\ ui' = None /\ ~hurried' => Ended \/ losses' > 0 \/ Rejection
<1>1. ASSUME IInv, Next PROVE Stays
  <2> SUFFICES ASSUME ui # None, ui' = None, ~hurried' PROVE Ended \/ losses' > 0 \/ Rejection
    OBVIOUS
  <2> USE <1>1 DEF IInv, TypeOK, SessionOK, page, provider, history, bounds
  <2>1. ASSUME hurried' = hurried, Loaded = None PROVE Ended
    BY <2>1 DEF Loaded, StoreFollowsUi, ProviderOK, None, Token, Login
  <2>2. CASE SignOut
    BY <2>2 DEF SignOut
  <2>3. CASE Reload
    BY <2>1, <2>3 DEF Reload
  <2>4. ASSUME NEW r \in Request, Expired(r) PROVE Ended \/ Rejection
    BY <2>1, <2>4 DEF Expired
  <2>5. CASE TimerFires
    BY <2>1, <2>5 DEF TimerFires
  <2>6. CASE RenewalFailed
    <3>1. renewal # NoRenewal /\ renewal.token.login = ui.login
      BY <2>6 DEF RenewalFailed, RenewalIsOurs, StoreFollowsUi, NoRenewal
    <3>2. CASE renewal.at = "refused" /\ losses = 0
      BY <3>1, <3>2 DEF NewestIsStored
    <3>3. CASE renewal.at # "refused" \/ losses # 0
      BY <2>6, <3>3 DEF RenewalFailed, BoundsOK
    <3> QED BY <3>2, <3>3
  <2>7. CASE Renewed
    BY <2>7, TokenFacts DEF Renewed, RenewalOK, NoRenewal
  <2>8. CASE SignIn
    BY <2>8 DEF SignIn
  <2>9. ui' = ui \/ SignOut \/ Reload \/ (\E r \in Request : Expired(r)) \/ TimerFires
          \/ RenewalFailed \/ Renewed \/ SignIn
    BY DEF Next, AccessExpires, Revoked, WindowPasses, RefreshGrant, Call, Answered, Rejected
  <2> QED BY <2>2, <2>3, <2>4, <2>5, <2>6, <2>7, <2>8, <2>9
<1>2. IInv /\ [Next]_vars => [Stays]_vars
  BY <1>1
<1> QED BY <1>2, SessionInvariant, PTL DEF Spec, StaysSignedIn
=============================================================================
