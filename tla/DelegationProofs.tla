-------------------------- MODULE DelegationProofs --------------------------
(***************************************************************************)
(* Whose authority a call carries, for any people, threads, tools, token   *)
(* lifetime and number of sign-ins, calls, changes and restarts.           *)
(*                                                                         *)
(* Two things are followed along a call. Who: the token it is sent with is *)
(* about the person it is for, at every hop (IsFor). When: a token         *)
(* says nothing that was not so a lifetime before it runs out (Young), and *)
(* the vendor's token was issued while the tool server's lived, which is   *)
(* where the second lifetime of VendorLagIsBounded comes from (IsRecent).  *)
(*                                                                         *)
(* The second half is about the accounts themselves: the administration    *)
(* routes implement Accounts, from which Delegation starts.                *)
(***************************************************************************)
EXTENDS Delegation, Admin, FiniteSetTheorems, WellFoundedInduction, TLAPS

AccountType == {Gone} \cup [there : {TRUE}, roles : SUBSET Assignable, enabled : BOOLEAN]
CallType == [at : {"idle", "agent", "tools", "backend", "vendor"},
             token : TokenType, for : Account \cup {NoOne}, seen : BOOLEAN]

\* Whoever is entitled to something now was so just now, and nobody in future.
HistoryIsCurrent ==
  \A p \in Account, w \in Standing :
    lately[p][w] <= now /\ (Holds(p, w) => lately[p][w] = now)

\* What a token says was so when it was issued, a lifetime before it runs out.
Says(k, w) == Entitles(Made(k.roles, TRUE), k.sub, w)
Young(k) ==
  k # NoToken => \A w \in Standing : Says(k, w) => lately[k.sub][w] >= k.exp - Life

TokensAreYoung ==
  /\ \A p \in Account : Young(browser[p])
  /\ \A t \in Thread : Young(runs[t]) /\ Young(call[t].token) /\ Young(subject[t])

\* People sign in as themselves.
BrowsersAreOwn == \A p \in Account : browser[p] # NoToken => browser[p].sub = p

\* Every token a call c uses on its way, with k kept for its run, q its tool and
\* s its handler's token, is about the person the call is for.
IsFor(c, k, q, s) ==
  /\ c.at = "idle" => c = Idle
  /\ c.at # "idle" => c.for \in Account /\ q \in Tool
  /\ c.at = "agent" => k # NoToken /\ k.sub = c.for
  /\ c.at = "backend" => s # NoToken /\ s.sub = c.for
  /\ c.at \in {"tools", "vendor"} /\ c.token # NoToken => c.token.sub = c.for

\* The roles a call is decided on are the account's at some moment of the call.
IsSeen(c, q) ==
  /\ c.at # "idle" /\ Holds(c.for, q) => c.seen
  /\ c.at = "tools" /\ c.token # NoToken /\ Says(c.token, q) => c.seen
  /\ c.at \in {"backend", "vendor"} => c.seen

\* The vendor's token was issued while the one the decision was made on lived.
IsRecent(c, q, s) ==
  /\ c.at = "backend" => Says(s, q)
  /\ c.at = "vendor" /\ c.token # NoToken =>
       lately[c.for][q] >= c.token.exp - 2 * Life + 1

CallsAreRight ==
  \A t \in Thread : /\ IsFor(call[t], runs[t], plan[t], subject[t])
                    /\ IsSeen(call[t], plan[t])
                    /\ IsRecent(call[t], plan[t], subject[t])

DelegationInv ==
  /\ TypeOK
  /\ HistoryIsCurrent
  /\ TokensAreYoung
  /\ BrowsersAreOwn
  /\ CallsAreRight

USE DelegationAssumption

-----------------------------------------------------------------------------
(* Entitlement.                                                            *)

LEMMA ToolsAreTools ==
  \A w \in Tool : w \in Standing /\ w # "enabled" /\ w # "manager" /\ w # NoTool
  BY DEF Standing, Catalogue, NoTool

LEMMA EntitlesType ==
  \A a, p, w : Entitles(a, p, w) \in BOOLEAN
  BY DEF Entitles

(* What somebody stands for with a token or an account.                    *)
LEMMA SaysMeans ==
  ASSUME NEW k
  PROVE  /\ Says(k, "enabled")
         /\ Says(k, "manager") <=> "manager" \in k.roles
         /\ \A w \in Tool : Says(k, w) <=> Allows(k.sub, k.roles, w)
  BY ToolsAreTools DEF Says, Entitles, Made

(* A token issued to a usable account says what the account entitles to.   *)
LEMMA IssueMeans ==
  ASSUME TypeOK, HistoryIsCurrent, NEW p \in Account, Usable(p), NEW client \in Anyone
  PROVE  /\ Issue(p, client) \in TokenType
         /\ Issue(p, client).sub = p /\ Issue(p, client).client = client
         /\ Issue(p, client).exp = now + Life
         /\ \A w \in Standing : Says(Issue(p, client), w) => Holds(p, w)
         /\ Young(Issue(p, client))
  <1> DEFINE k == Issue(p, client)
  <1>1. account[p] \in [there : {TRUE}, roles : SUBSET Assignable, enabled : BOOLEAN]
        /\ account[p].enabled
    <2>1. ~Gone.there
      BY DEF Gone
    <2>2. account[p] # Gone
      BY <2>1, Zenon DEF Usable
    <2> QED BY <2>2 DEF TypeOK, Usable
  <1>2. /\ k \in TokenType /\ k.sub = p /\ k.client = client /\ k.exp = now + Life
        /\ k.roles = account[p].roles /\ now \in Nat
    BY <1>1 DEF Issue, TokenType, TypeOK
  <1>3. \A w \in Standing : Says(k, w) => Holds(p, w)
    BY <1>1, <1>2 DEF Says, Holds, Entitles, Made
  <1>4. Young(k)
    BY <1>2, <1>3 DEF Young, HistoryIsCurrent, TypeOK
  <1> QED BY <1>2, <1>3, <1>4

-----------------------------------------------------------------------------
(* Steps of one thread.                                                    *)

(* A step that concerns one call, and neither the clock nor the accounts.  *)
LEMMA ThreadStep ==
  ASSUME DelegationInv, NEW t \in Thread,
         NEW c \in CallType, NEW k \in TokenType, NEW q \in Tool \cup {NoTool}, NEW s \in TokenType,
         call' = [call EXCEPT ![t] = c], runs' = [runs EXCEPT ![t] = k],
         plan' = [plan EXCEPT ![t] = q], subject' = [subject EXCEPT ![t] = s],
         UNCHANGED <<account, now, browser, lately>>,
         Young(c.token), Young(k), Young(s),
         IsFor(c, k, q, s), IsSeen(c, q), IsRecent(c, q, s)
  PROVE  DelegationInv'
  <1>1. TypeOK'
    BY DEF DelegationInv, TypeOK, CallType
  <1>2. HistoryIsCurrent' /\ BrowsersAreOwn'
    BY DEF DelegationInv, HistoryIsCurrent, BrowsersAreOwn, Holds
  <1>3. TokensAreYoung'
    BY DEF DelegationInv, TypeOK, TokensAreYoung, Young
  <1>4. CallsAreRight'
    BY DEF DelegationInv, TypeOK, CallsAreRight, IsFor, IsSeen, IsRecent, Holds
  <1> QED BY <1>1, <1>2, <1>3, <1>4 DEF DelegationInv

(* What a thread is known to hold.                                         *)
LEMMA ThreadHolds ==
  ASSUME DelegationInv, NEW t \in Thread
  PROVE  /\ call[t] \in CallType /\ runs[t] \in TokenType
         /\ plan[t] \in Tool \cup {NoTool} /\ subject[t] \in TokenType
         /\ Young(call[t].token) /\ Young(runs[t]) /\ Young(subject[t])
         /\ IsFor(call[t], runs[t], plan[t], subject[t])
         /\ IsSeen(call[t], plan[t]) /\ IsRecent(call[t], plan[t], subject[t])
         /\ [runs EXCEPT ![t] = runs[t]] = runs /\ [plan EXCEPT ![t] = plan[t]] = plan
         /\ [subject EXCEPT ![t] = subject[t]] = subject
  BY DEF DelegationInv, TypeOK, TokensAreYoung, CallsAreRight, CallType

LEMMA IdleIsRight ==
  /\ Idle \in CallType /\ Idle.at = "idle" /\ Young(Idle.token) /\ NoToken \in TokenType
  /\ \A k, q, s : IsFor(Idle, k, q, s) /\ IsSeen(Idle, q) /\ IsRecent(Idle, q, s)
  <1>1. Idle \in CallType /\ Idle.at = "idle" /\ Idle.token = NoToken /\ NoToken \in TokenType
    BY DEF Idle, CallType, TokenType
  <1> QED BY <1>1 DEF Young, IsFor, IsSeen, IsRecent

(* A request is for its token's person, and has seen the roles as they are.*)
LEMMA BeginStep ==
  ASSUME DelegationInv, NEW t \in Thread, NEW p \in Account, NEW tool \in Tool,
         NEW k \in TokenType, Young(k), k # NoToken, k.sub = p,
         Begin(t, p, tool), runs' = [runs EXCEPT ![t] = k],
         plan' = [plan EXCEPT ![t] = tool],
         UNCHANGED <<account, now, browser, subject, lately>>
  PROVE  DelegationInv'
  <1> DEFINE c == [at |-> "agent", token |-> NoToken, for |-> p, seen |-> Holds(p, tool)]
  <1>1. Holds(p, tool) \in BOOLEAN
    BY EntitlesType DEF Holds
  <1>2. c \in CallType /\ c.at = "agent" /\ c.for = p /\ c.token = NoToken
        /\ c.seen = Holds(p, tool)
    BY <1>1 DEF CallType, TokenType
  <1>3. call' = [call EXCEPT ![t] = c]
    BY DEF Begin
  <1>4. Young(c.token) /\ IsFor(c, k, tool, subject[t]) /\ IsSeen(c, tool) /\ IsRecent(c, tool, subject[t])
    BY <1>2 DEF Young, IsFor, IsSeen, IsRecent
  <1> HIDE DEF c
  <1> QED BY <1>2, <1>3, <1>4, ThreadHolds, ThreadStep

LEMMA RunStep ==
  ASSUME DelegationInv, NEW t \in Thread, NEW p \in Account, NEW tool \in Tool, Run(t, p, tool)
  PROVE  DelegationInv'
  <1>1. browser[p] \in TokenType /\ Young(browser[p]) /\ browser[p] # NoToken /\ browser[p].sub = p
    BY DEF DelegationInv, TypeOK, TokensAreYoung, BrowsersAreOwn, Run, verify
  <1> QED BY <1>1, BeginStep DEF Run

LEMMA ResumeStep ==
  ASSUME DelegationInv, NEW t \in Thread, NEW p \in Account, Resume(t, p)
  PROVE  DelegationInv'
  <1> DEFINE k == IF runs[t] # NoToken THEN runs[t] ELSE browser[p]
  <1>1. k \in TokenType /\ Young(k) /\ k # NoToken
    BY ThreadHolds DEF DelegationInv, TypeOK, TokensAreYoung, Resume, verify
  <1>2. k.sub \in Account
    BY <1>1 DEF TokenType
  <1>3. plan[t] \in Tool /\ plan' = [plan EXCEPT ![t] = plan[t]]
    BY ThreadHolds DEF Resume
  <1>4. Begin(t, k.sub, plan[t]) /\ runs' = [runs EXCEPT ![t] = k]
        /\ UNCHANGED <<account, now, browser, subject, lately>>
    BY DEF Resume
  <1> HIDE DEF k
  <1> QED BY <1>1, <1>2, <1>3, <1>4, BeginStep

(* The agent's exchange gives a token for the same person, with the roles  *)
(* of the account as it is now.                                            *)
LEMMA ToolTokenStep ==
  ASSUME DelegationInv, NEW t \in Thread, ToolToken(t)
  PROVE  DelegationInv'
  <1> DEFINE p == runs[t].sub
             k == Issue(p, "agent")
             c == [call[t] EXCEPT !.at = "tools", !.token = k]
  <1>1. call[t].at = "agent" /\ p \in Account /\ p = call[t].for /\ plan[t] \in Tool
    BY ThreadHolds DEF ToolToken, IsFor
  <1>2. Usable(p)
    BY DEF ToolToken, Exchanges
  <1>3. k \in TokenType /\ k.sub = p /\ Young(k) /\ (Says(k, plan[t]) => Holds(p, plan[t]))
    BY <1>1, <1>2, IssueMeans, ToolsAreTools DEF DelegationInv, Anyone
  <1>4. call[t] \in CallType /\ (Holds(p, plan[t]) => call[t].seen)
    BY <1>1, ThreadHolds DEF IsSeen
  <1> HIDE DEF k, p
  <1>5. c \in CallType /\ c.at = "tools" /\ c.token = k /\ c.for = p /\ c.seen = call[t].seen
    BY <1>1, <1>3, <1>4 DEF CallType
  <1>6. call' = [call EXCEPT ![t] = c]
    BY DEF ToolToken, Advance, k, p
  <1> HIDE DEF c
  <1>7. IsFor(c, runs[t], plan[t], subject[t]) /\ IsSeen(c, plan[t]) /\ IsRecent(c, plan[t], subject[t])
    BY <1>1, <1>3, <1>4, <1>5 DEF IsFor, IsSeen, IsRecent, p
  <1> QED BY <1>3, <1>5, <1>6, <1>7, ThreadHolds, ThreadStep DEF ToolToken

(* A call that ends leaves nothing behind in the agent.                    *)
LEMMA EndsStep ==
  ASSUME DelegationInv, NEW t \in Thread, NEW s \in TokenType, Young(s), Ends(t),
         subject' = [subject EXCEPT ![t] = s],
         UNCHANGED <<account, now, browser, runs, plan, lately>>
  PROVE  DelegationInv'
  BY IdleIsRight, ThreadHolds, ThreadStep DEF Ends

LEMMA NoToolTokenStep ==
  ASSUME DelegationInv, NEW t \in Thread, NoToolToken(t)
  PROVE  DelegationInv'
  BY ThreadHolds, EndsStep DEF NoToolToken

LEMMA DeniedStep ==
  ASSUME DelegationInv, NEW t \in Thread, Denied(t)
  PROVE  DelegationInv'
  BY ThreadHolds, EndsStep DEF Denied

LEMMA VendorStep ==
  ASSUME DelegationInv, NEW t \in Thread, Vendor(t)
  PROVE  DelegationInv'
  <1>1. NoToken \in TokenType /\ Young(NoToken)
    BY DEF TokenType, Young
  <1> QED BY <1>1, EndsStep DEF Vendor, set_subject_token

(* The decision is on the call's token, which becomes the handler's.       *)
LEMMA EnforceStep ==
  ASSUME DelegationInv, NEW t \in Thread, Enforce(t)
  PROVE  DelegationInv'
  <1> DEFINE s == call[t].token
             c == [call[t] EXCEPT !.at = "backend", !.for = s.sub]
  <1>1. call[t] \in CallType /\ call[t].at = "tools" /\ s \in TokenType /\ s # NoToken /\ Young(s)
    BY ThreadHolds DEF Enforce, Admits, verify, CallType
  <1>2. s.sub = call[t].for /\ s.sub \in Account /\ plan[t] \in Tool
    BY <1>1, ThreadHolds DEF IsFor
  <1>3. Says(s, plan[t])
    BY <1>2, SaysMeans DEF Enforce, Admits
  <1>4. call[t].seen
    BY <1>1, <1>3, ThreadHolds DEF IsSeen
  <1>5. c \in CallType /\ c.at = "backend" /\ c.token = s /\ c.for = s.sub /\ c.seen
    BY <1>1, <1>2, <1>4 DEF CallType
  <1>6. call' = [call EXCEPT ![t] = c] /\ subject' = [subject EXCEPT ![t] = s]
    BY DEF Enforce, set_subject_token
  <1> HIDE DEF c, s
  <1>7. IsFor(c, runs[t], plan[t], s) /\ IsSeen(c, plan[t]) /\ IsRecent(c, plan[t], s)
    BY <1>1, <1>2, <1>3, <1>5 DEF IsFor, IsSeen, IsRecent
  <1> QED BY <1>1, <1>5, <1>6, <1>7, ThreadHolds, ThreadStep DEF Enforce

(* The second exchange: the same person again, and a lifetime from now,    *)
(* while the token that was decided on lives.                              *)
LEMMA DownstreamTokenStep ==
  ASSUME DelegationInv, NEW t \in Thread, DownstreamToken(t)
  PROVE  DelegationInv'
  <1> DEFINE s == subject[t]
             p == s.sub
             k == Issue(p, "tools")
             c == [call[t] EXCEPT !.at = "vendor", !.token = k]
  <1>1. /\ call[t] \in CallType /\ call[t].at = "backend" /\ call[t].for = p /\ p \in Account
        /\ plan[t] \in Tool /\ call[t].seen /\ s \in TokenType /\ s # NoToken
        /\ Says(s, plan[t]) /\ Young(s)
    BY ThreadHolds DEF DownstreamToken, IsFor, IsSeen, IsRecent
  <1>2. Usable(p) /\ now < s.exp /\ s.exp \in Nat /\ now \in Nat
    BY <1>1 DEF DownstreamToken, Exchanges, TokenType, DelegationInv, TypeOK
  <1>3. k \in TokenType /\ k.sub = p /\ k.exp = now + Life /\ Young(k)
    BY <1>1, <1>2, IssueMeans DEF DelegationInv, Anyone
  <1>4. lately[p][plan[t]] \in Int /\ lately[p][plan[t]] >= s.exp - Life
    BY <1>1, ToolsAreTools DEF Young, DelegationInv, TypeOK
  <1>5. lately[p][plan[t]] >= k.exp - 2 * Life + 1
    BY <1>2, <1>3, <1>4
  <1> HIDE DEF k
  <1>6. c \in CallType /\ c.at = "vendor" /\ c.token = k /\ c.for = p /\ c.seen
    BY <1>1, <1>3 DEF CallType
  <1>7. call' = [call EXCEPT ![t] = c]
    BY DEF DownstreamToken, Advance, k
  <1> HIDE DEF c, p, s
  <1>8. IsFor(c, runs[t], plan[t], subject[t]) /\ IsSeen(c, plan[t]) /\ IsRecent(c, plan[t], subject[t])
    BY <1>1, <1>3, <1>5, <1>6 DEF IsFor, IsSeen, IsRecent
  <1> QED BY <1>3, <1>6, <1>7, <1>8, ThreadHolds, ThreadStep DEF DownstreamToken

(* The static token is nobody's.                                           *)
LEMMA FallBackStep ==
  ASSUME DelegationInv, NEW t \in Thread, FallBack(t)
  PROVE  DelegationInv'
  <1> DEFINE c == [call[t] EXCEPT !.at = "vendor", !.token = NoToken]
  <1>1. call[t] \in CallType /\ call[t].at = "backend" /\ call[t].for \in Account
        /\ plan[t] \in Tool /\ call[t].seen
    BY ThreadHolds DEF FallBack, IsFor, IsSeen
  <1>2. c \in CallType /\ c.at = "vendor" /\ c.token = NoToken /\ c.for = call[t].for /\ c.seen
    BY <1>1 DEF CallType, TokenType
  <1>3. call' = [call EXCEPT ![t] = c]
    BY DEF FallBack, Advance
  <1> HIDE DEF c
  <1>4. Young(c.token) /\ IsFor(c, runs[t], plan[t], subject[t]) /\ IsSeen(c, plan[t])
        /\ IsRecent(c, plan[t], subject[t])
    BY <1>1, <1>2 DEF Young, IsFor, IsSeen, IsRecent
  <1> QED BY <1>2, <1>3, <1>4, ThreadHolds, ThreadStep DEF FallBack

-----------------------------------------------------------------------------
(* People, administrators, time and restarts.                              *)

LEMMA SignInStep ==
  ASSUME DelegationInv, NEW p \in Account, SignIn(p)
  PROVE  DelegationInv'
  <1> DEFINE k == Issue(p, "portal")
  <1>1. k \in TokenType /\ k.sub = p /\ Young(k)
    BY IssueMeans DEF DelegationInv, SignIn, Anyone
  <1>2. browser' = [browser EXCEPT ![p] = k]
        /\ UNCHANGED <<account, now, runs, plan, call, subject, lately>>
    BY DEF SignIn
  <1> HIDE DEF k
  <1>3. TypeOK' /\ BrowsersAreOwn'
    BY <1>1, <1>2 DEF DelegationInv, TypeOK, BrowsersAreOwn
  <1>4. HistoryIsCurrent' /\ CallsAreRight'
    BY <1>2 DEF DelegationInv, HistoryIsCurrent, CallsAreRight, IsFor, IsSeen, IsRecent, Holds
  <1>5. TokensAreYoung'
    BY <1>1, <1>2 DEF DelegationInv, TypeOK, TokensAreYoung, Young
  <1> QED BY <1>3, <1>4, <1>5 DEF DelegationInv

(* The history goes on: it never goes back, so no token grows older by it. *)
LEMMA ObserveStep ==
  ASSUME DelegationInv, Observe, now' \in 0..MaxTime, now <= now'
  PROVE  /\ lately' \in [Account -> [Standing -> Never..MaxTime]]
         /\ HistoryIsCurrent'
         /\ \A p \in Account, w \in Standing : lately[p][w] <= lately'[p][w]
         /\ \A k \in TokenType : Young(k) => Young(k)'
  <1>1. \A p \in Account, w \in Standing :
          lately'[p][w] = IF Entitles(account'[p], p, w) THEN now' ELSE lately[p][w]
    BY DEF Observe
  <1>2. now \in Nat /\ now' \in Nat /\ Never \in Int /\ Never <= 0
        /\ \A p \in Account, w \in Standing : lately[p][w] \in Never..MaxTime /\ lately[p][w] <= now
    BY DEF DelegationInv, TypeOK, HistoryIsCurrent, Never
  <1>3. \A p \in Account, w \in Standing :
          lately'[p][w] \in Never..MaxTime /\ lately[p][w] <= lately'[p][w]
    BY <1>1, <1>2
  <1>4. lately' \in [Account -> [Standing -> Never..MaxTime]]
    BY <1>3 DEF Observe
  <1>5. HistoryIsCurrent'
    BY <1>1, <1>2 DEF HistoryIsCurrent, Holds
  <1>6. ASSUME NEW k \in TokenType, Young(k)
        PROVE  Young(k)'
    <2> SUFFICES ASSUME k # NoToken, NEW w \in Standing, Says(k, w)
                 PROVE  lately'[k.sub][w] >= k.exp - Life
      BY DEF Young
    <2>1. k.sub \in Account /\ k.exp \in Nat
      BY DEF TokenType
    <2>2. lately[k.sub][w] >= k.exp - Life
      BY <1>6 DEF Young
    <2> QED BY <1>2, <1>3, <2>1, <2>2
  <1> QED BY <1>3, <1>4, <1>5, <1>6

LEMMA ChangeType ==
  ASSUME TypeOK, NEW p \in Account, Change(p)
  PROVE  account' \in [Account -> AccountType]
  <1>1. account \in [Account -> AccountType]
    BY DEF TypeOK, AccountType
  <1>2. ~Gone.there
    BY DEF Gone
  <1>3. account[p].there => account[p] \in [there : {TRUE}, roles : SUBSET Assignable, enabled : BOOLEAN]
    <2> SUFFICES ASSUME account[p].there
                 PROVE  account[p] \in [there : {TRUE}, roles : SUBSET Assignable, enabled : BOOLEAN]
      OBVIOUS
    <2>1. account[p] # Gone
      BY <1>2, Zenon
    <2> QED BY <1>1, <2>1 DEF AccountType
  <1>4. \A roles \in SUBSET Assignable, on \in BOOLEAN : Made(roles, on) \in AccountType
    BY DEF Made, AccountType
  <1>5. \E a \in AccountType : account' = [account EXCEPT ![p] = a]
    <2>1. CASE Make(p)
      BY <1>4, <2>1 DEF Make, Become
    <2>2. CASE Remove(p)
      BY <2>2 DEF Remove, Become, AccountType
    <2>3. CASE \E r \in Assignable : Grant(p, r) \/ Withdraw(p, r)
      BY <1>3, <1>4, <2>3 DEF Grant, Withdraw, Become
    <2>4. CASE \E on \in BOOLEAN : Switch(p, on)
      BY <1>3, <1>4, <2>4 DEF Switch, Become
    <2> QED BY <2>1, <2>2, <2>3, <2>4 DEF Change
  <1> QED BY <1>1, <1>5

(* A change of an account shows in the calls that it entitles.             *)
LEMMA AccountChangesStep ==
  ASSUME DelegationInv, NEW p \in Account, AccountChanges(p)
  PROVE  DelegationInv'
  <1>1. UNCHANGED <<now, browser, runs, plan, subject>> /\ now \in 0..MaxTime /\ now <= now'
    BY DEF AccountChanges, DelegationInv, TypeOK
  <1>2. /\ lately' \in [Account -> [Standing -> Never..MaxTime]]
        /\ HistoryIsCurrent'
        /\ \A q \in Account, w \in Standing : lately[q][w] <= lately'[q][w]
        /\ \A k \in TokenType : Young(k) => Young(k)'
    BY <1>1, ObserveStep DEF AccountChanges
  <1>3. account' \in [Account -> AccountType]
    BY ChangeType DEF AccountChanges, DelegationInv
  <1>4. ASSUME NEW t \in Thread
        PROVE  /\ call'[t] \in CallType
               /\ call'[t].at = call[t].at /\ call'[t].token = call[t].token
               /\ call'[t].for = call[t].for
               /\ call'[t].seen <=> call[t].seen \/ Witness(t)
               /\ call[t].at = "idle" => call'[t] = Idle
    <2>1. call[t] \in CallType
      BY ThreadHolds
    <2>2. (call[t].seen \/ Witness(t)) \in BOOLEAN
      OBVIOUS
    <2>3. call'[t] = [call[t] EXCEPT !.seen = call[t].seen \/ Witness(t)]
      BY DEF AccountChanges
    <2>4. ASSUME call[t].at = "idle" PROVE call'[t] = Idle
      <3>1. call[t] = Idle
        BY <2>4, ThreadHolds DEF IsFor
      <3>2. Idle.for = NoOne /\ Idle.seen = FALSE
        BY DEF Idle
      <3>3. ~(call[t].seen \/ Witness(t))
        BY <3>1, <3>2 DEF Witness
      <3>4. call'[t] = [Idle EXCEPT !.seen = FALSE]
        BY <2>3, <3>1, <3>3
      <3> QED BY <3>4 DEF Idle
    <2> QED BY <2>1, <2>2, <2>3, <2>4 DEF CallType
  <1>5. call' \in [Thread -> CallType]
    BY <1>4 DEF AccountChanges
  <1>6. TypeOK'
    BY <1>1, <1>2, <1>3, <1>5 DEF DelegationInv, TypeOK, CallType, AccountType
  <1>7. BrowsersAreOwn'
    BY <1>1 DEF DelegationInv, BrowsersAreOwn
  <1>8. TokensAreYoung'
    <2>1. \A q \in Account : browser[q] \in TokenType /\ Young(browser[q])
      BY DEF DelegationInv, TypeOK, TokensAreYoung
    <2>2. \A t \in Thread : call[t].token \in TokenType
      BY DEF DelegationInv, TypeOK
    <2>3. \A q \in Account : Young(browser[q])'
      BY <1>1, <1>2, <2>1
    <2>4. \A t \in Thread : Young(runs[t])' /\ Young(call[t].token)' /\ Young(subject[t])'
      BY <1>1, <1>2, <1>4, <2>2, ThreadHolds
    <2> QED BY <2>3, <2>4 DEF TokensAreYoung
  <1>9. CallsAreRight'
    <2> SUFFICES ASSUME NEW t \in Thread
                 PROVE  (/\ IsFor(call[t], runs[t], plan[t], subject[t])
                         /\ IsSeen(call[t], plan[t])
                         /\ IsRecent(call[t], plan[t], subject[t]))'
      BY DEF CallsAreRight
    <2>1. IsFor(call[t], runs[t], plan[t], subject[t])'
      BY <1>1, <1>4, ThreadHolds DEF IsFor
    <2>2. IsSeen(call[t], plan[t])'
      <3>1. call[t].at # "idle" => call[t].for \in Account /\ call[t].for # NoOne
        BY ThreadHolds DEF IsFor
      <3>2. call[t].at # "idle" /\ Entitles(account'[call[t].for], call[t].for, plan[t]) => Witness(t)
        BY <3>1 DEF Witness
      <3> QED BY <1>1, <1>4, <3>2, ThreadHolds DEF IsSeen, Holds
    <2>3. IsRecent(call[t], plan[t], subject[t])'
      <3>1. call[t].at # "idle" => call[t].for \in Account /\ plan[t] \in Standing
        BY ThreadHolds, ToolsAreTools DEF IsFor
      <3>2. call[t].token # NoToken => call[t].token.exp \in Nat
        BY ThreadHolds DEF CallType, TokenType
      <3>3. call[t].at # "idle" => lately[call[t].for][plan[t]] <= lately'[call[t].for][plan[t]]
              /\ lately[call[t].for][plan[t]] \in Int /\ lately'[call[t].for][plan[t]] \in Int
        BY <1>2, <3>1 DEF DelegationInv, TypeOK
      <3> QED BY <1>1, <1>4, <3>2, <3>3, ThreadHolds DEF IsRecent
    <2> QED BY <2>1, <2>2, <2>3
  <1> QED BY <1>2, <1>6, <1>7, <1>8, <1>9 DEF DelegationInv

LEMMA TickStep ==
  ASSUME DelegationInv, Tick
  PROVE  DelegationInv'
  <1>1. UNCHANGED <<account, browser, runs, plan, call, subject>> /\ now' \in 0..MaxTime /\ now <= now'
    BY DEF Tick, DelegationInv, TypeOK
  <1>2. /\ lately' \in [Account -> [Standing -> Never..MaxTime]]
        /\ HistoryIsCurrent'
        /\ \A q \in Account, w \in Standing : lately[q][w] <= lately'[q][w]
        /\ \A k \in TokenType : Young(k) => Young(k)'
    BY <1>1, ObserveStep DEF Tick
  <1>3. TypeOK' /\ BrowsersAreOwn'
    BY <1>1, <1>2 DEF DelegationInv, TypeOK, BrowsersAreOwn
  <1>4. TokensAreYoung'
    <2>1. \A q \in Account : browser[q] \in TokenType /\ Young(browser[q])
      BY DEF DelegationInv, TypeOK, TokensAreYoung
    <2>2. \A t \in Thread : call[t].token \in TokenType
      BY DEF DelegationInv, TypeOK
    <2>3. \A q \in Account : Young(browser[q])'
      BY <1>1, <1>2, <2>1
    <2>4. \A t \in Thread : Young(runs[t])' /\ Young(call[t].token)' /\ Young(subject[t])'
      BY <1>1, <1>2, <2>2, ThreadHolds
    <2> QED BY <2>3, <2>4 DEF TokensAreYoung
  <1>5. CallsAreRight'
    <2> SUFFICES ASSUME NEW t \in Thread
                 PROVE  (/\ IsFor(call[t], runs[t], plan[t], subject[t])
                         /\ IsSeen(call[t], plan[t])
                         /\ IsRecent(call[t], plan[t], subject[t]))'
      BY DEF CallsAreRight
    <2>1. (IsFor(call[t], runs[t], plan[t], subject[t]) /\ IsSeen(call[t], plan[t]))'
      BY <1>1, ThreadHolds DEF IsFor, IsSeen, Holds
    <2>2. IsRecent(call[t], plan[t], subject[t])'
      <3>1. call[t].at # "idle" => call[t].for \in Account /\ plan[t] \in Standing
        BY ThreadHolds, ToolsAreTools DEF IsFor
      <3>2. call[t].token # NoToken => call[t].token.exp \in Nat
        BY ThreadHolds DEF CallType, TokenType
      <3>3. call[t].at # "idle" => lately[call[t].for][plan[t]] <= lately'[call[t].for][plan[t]]
              /\ lately[call[t].for][plan[t]] \in Int /\ lately'[call[t].for][plan[t]] \in Int
        BY <1>2, <3>1 DEF DelegationInv, TypeOK
      <3> QED BY <1>1, <3>2, <3>3, ThreadHolds DEF IsRecent
    <2> QED BY <2>1, <2>2
  <1> QED BY <1>2, <1>3, <1>4, <1>5 DEF DelegationInv

(* A restart forgets the runs and the calls that still need them.          *)
LEMMA RestartStep ==
  ASSUME DelegationInv, Restart
  PROVE  DelegationInv'
  <1>1. UNCHANGED <<account, now, browser, plan, subject, lately>>
        /\ runs' = [t \in Thread |-> NoToken]
    BY DEF Restart
  <1>2. \A t \in Thread : call'[t] = IF call[t].at = "agent" THEN Idle ELSE call[t]
    BY DEF Restart
  <1>3. call' \in [Thread -> CallType]
    BY <1>2, IdleIsRight, ThreadHolds DEF Restart
  <1>4. TypeOK' /\ BrowsersAreOwn' /\ HistoryIsCurrent'
    BY <1>1, <1>3, IdleIsRight DEF DelegationInv, TypeOK, BrowsersAreOwn, HistoryIsCurrent, Holds, CallType
  <1>5. TokensAreYoung'
    <2>1. \A t \in Thread : Young(call'[t].token)
      BY <1>2, IdleIsRight, ThreadHolds
    <2> QED BY <1>1, <2>1 DEF DelegationInv, TokensAreYoung, Young
  <1>6. CallsAreRight'
    <2> SUFFICES ASSUME NEW t \in Thread
                 PROVE  (/\ IsFor(call[t], runs[t], plan[t], subject[t])
                         /\ IsSeen(call[t], plan[t])
                         /\ IsRecent(call[t], plan[t], subject[t]))'
      BY DEF CallsAreRight
    <2>1. CASE call[t].at = "agent"
      BY <1>1, <1>2, <2>1, IdleIsRight DEF IsFor, IsSeen, IsRecent
    <2>2. CASE call[t].at # "agent"
      BY <1>1, <1>2, <2>2, ThreadHolds DEF IsFor, IsSeen, IsRecent, Holds
    <2> QED BY <2>1, <2>2
  <1> QED BY <1>4, <1>5, <1>6 DEF DelegationInv

-----------------------------------------------------------------------------
LEMMA DelegationInit == Init => DelegationInv
  <1> SUFFICES ASSUME Init PROVE DelegationInv
    OBVIOUS
  <1>1. \A p \in Account, w \in Standing : lately[p][w] = IF Holds(p, w) THEN 0 ELSE Never
    BY DEF Init
  <1>2. Never \in Int /\ Never <= 0 /\ now = 0
    BY DEF Never, Init
  <1>3. lately \in [Account -> [Standing -> Never..MaxTime]]
    BY <1>1, <1>2 DEF Init
  <1>4. TypeOK
    <2>1. account \in [Account -> {Gone} \cup [there : {TRUE}, roles : SUBSET Assignable,
                                             enabled : BOOLEAN]]
      BY DEF Init
    <2>2. now \in 0..MaxTime
      BY <1>2
    <2>3. NoToken \in TokenType /\ NoTool \in Tool \cup {NoTool}
      BY DEF TokenType
    <2>4. /\ browser \in [Account -> TokenType] /\ runs \in [Thread -> TokenType]
          /\ subject \in [Thread -> TokenType] /\ plan \in [Thread -> Tool \cup {NoTool}]
      BY <2>3, Zenon DEF Init
    <2>5. call \in [Thread -> CallType]
      BY IdleIsRight, Zenon DEF Init
    <2> QED BY <1>3, <2>1, <2>2, <2>4, <2>5 DEF TypeOK, CallType
  <1>5. HistoryIsCurrent
    BY <1>1, <1>2 DEF HistoryIsCurrent
  <1>6. TokensAreYoung /\ BrowsersAreOwn /\ CallsAreRight
    BY IdleIsRight DEF Init, TokensAreYoung, Young, BrowsersAreOwn, CallsAreRight
  <1> QED BY <1>4, <1>5, <1>6 DEF DelegationInv

LEMMA DelegationNext == DelegationInv /\ [Next]_vars => DelegationInv'
  <1> SUFFICES ASSUME DelegationInv, [Next]_vars PROVE DelegationInv'
    OBVIOUS
  <1>1. CASE \E p \in Account : SignIn(p) \/ AccountChanges(p)
    BY <1>1, SignInStep, AccountChangesStep
  <1>2. CASE Tick \/ Restart
    BY <1>2, TickStep, RestartStep
  <1>3. CASE \E t \in Thread, p \in Account : (\E tool \in Tool : Run(t, p, tool)) \/ Resume(t, p)
    BY <1>3, RunStep, ResumeStep
  <1>4. CASE \E t \in Thread : \/ ToolToken(t) \/ NoToolToken(t) \/ Enforce(t) \/ Denied(t)
                               \/ DownstreamToken(t) \/ FallBack(t) \/ Vendor(t)
    BY <1>4, ToolTokenStep, NoToolTokenStep, EnforceStep, DeniedStep, DownstreamTokenStep,
       FallBackStep, VendorStep
  <1>5. CASE UNCHANGED vars
    <2>1. UNCHANGED <<account, now, browser, runs, plan, call, subject, lately>>
      BY <1>5 DEF vars
    <2>2. TypeOK'
      BY <2>1 DEF DelegationInv, TypeOK
    <2>3. HistoryIsCurrent'
      BY <2>1 DEF DelegationInv, HistoryIsCurrent, Holds
    <2>4. TokensAreYoung'
      BY <2>1 DEF DelegationInv, TokensAreYoung, Young
    <2>5. BrowsersAreOwn'
      BY <2>1 DEF DelegationInv, BrowsersAreOwn
    <2>6. CallsAreRight'
      BY <2>1 DEF DelegationInv, CallsAreRight, IsFor, IsSeen, IsRecent, Holds
    <2> QED BY <2>2, <2>3, <2>4, <2>5, <2>6 DEF DelegationInv
  <1> QED BY <1>1, <1>2, <1>3, <1>4, <1>5 DEF Next

LEMMA DelegationAlways == Spec => []DelegationInv
  BY DelegationInit, DelegationNext, PTL DEF Spec

-----------------------------------------------------------------------------
(* What the tokens that somebody accepts say about the past.               *)

LEMMA AcceptedIsRecent ==
  ASSUME DelegationInv, NEW k \in TokenType, k # NoToken, Young(k), now < k.exp,
         NEW w \in Standing, Says(k, w)
  PROVE  Age(k.sub, w) < Life
  <1>1. lately[k.sub][w] >= k.exp - Life
    BY DEF Young
  <1>2. k.sub \in Account /\ k.exp \in Nat /\ now \in Nat /\ lately[k.sub][w] \in Int
    BY DEF TokenType, DelegationInv, TypeOK
  <1> QED BY <1>1, <1>2 DEF Age

LEMMA DeciderIsRecent ==
  ASSUME DelegationInv, NEW p \in Account, MayDecide(p)
  PROVE  Age(p, "enabled") < Life /\ Age(p, "manager") < Life
  <1> DEFINE k == browser[p]
  <1>1. k \in TokenType /\ k # NoToken /\ Young(k) /\ k.sub = p /\ now < k.exp /\ "manager" \in k.roles
    BY DEF MayDecide, verify, DelegationInv, TypeOK, TokensAreYoung, BrowsersAreOwn
  <1>2. "enabled" \in Standing /\ "manager" \in Standing
    BY DEF Standing
  <1> HIDE DEF k
  <1>3. Says(k, "enabled") /\ Says(k, "manager")
    BY <1>1, SaysMeans
  <1> QED BY <1>1, <1>2, <1>3, AcceptedIsRecent

LEMMA AdmittedIsRecent ==
  ASSUME DelegationInv, NEW t \in Thread, call[t].at = "tools", Admits(t)
  PROVE  Age(call[t].token.sub, plan[t]) < Life
  <1> DEFINE k == call[t].token
             q == plan[t]
  <1>1. k # NoToken /\ now < k.exp /\ Allows(k.sub, k.roles, q)
    BY DEF Admits, verify
  <1>2. k \in TokenType /\ Young(k) /\ q \in Tool
    BY ThreadHolds DEF CallType, IsFor
  <1> HIDE DEF k, q
  <1>3. q \in Standing /\ Says(k, q)
    BY <1>1, <1>2, ToolsAreTools, SaysMeans
  <1> QED BY <1>1, <1>2, <1>3, AcceptedIsRecent DEF k, q

LEMMA VendorIsRecent ==
  ASSUME SandboxAuth, DelegationInv, NEW t \in Thread, VendorAccepts(t)
  PROVE  /\ call[t].token.sub = call[t].for
         /\ Age(call[t].for, "enabled") < Life
         /\ Age(call[t].for, plan[t]) <= 2 * (Life - 1)
  <1> DEFINE k == call[t].token
             p == call[t].for
  <1>1. call[t].at = "vendor" /\ k # NoToken /\ now < k.exp
    BY DEF VendorAccepts, sandbox_verify
  <1>2. k \in TokenType /\ Young(k) /\ k.sub = p /\ p \in Account /\ plan[t] \in Tool
        /\ lately[p][plan[t]] >= k.exp - 2 * Life + 1
    BY <1>1, ThreadHolds DEF CallType, IsFor, IsRecent
  <1>3. k.exp \in Nat /\ now \in Nat /\ lately[p][plan[t]] \in Int /\ "enabled" \in Standing
    BY <1>1, <1>2, ToolsAreTools DEF TokenType, DelegationInv, TypeOK, Standing
  <1> HIDE DEF k, p
  <1>4. Says(k, "enabled")
    BY SaysMeans
  <1>5. Age(p, "enabled") < Life
    BY <1>1, <1>2, <1>3, <1>4, AcceptedIsRecent
  <1>6. Age(p, plan[t]) <= 2 * (Life - 1)
    BY <1>1, <1>2, <1>3 DEF Age
  <1> QED BY <1>2, <1>5, <1>6 DEF k, p

-----------------------------------------------------------------------------
(* The vendor that checks its callers' tokens acts for the person the tool *)
(* server decided about, in that person's tenant, however many calls are   *)
(* served at once (set_subject_token, sandbox _identify).                  *)
THEOREM VendorActsForTheUser ==
  ASSUME SandboxAuth
  PROVE  Spec => []VendorActsAsDecided
  <1>1. DelegationInv => VendorActsAsDecided
    BY VendorIsRecent DEF VendorActsAsDecided, Identity
  <1> QED BY <1>1, DelegationAlways, PTL

(* A disabled or deleted account stops acting within a token lifetime, in  *)
(* the approval queue and at the vendor (the exchanges).                   *)
THEOREM DisabledStopActing ==
  ASSUME SandboxAuth
  PROVE  Spec => []DisablingTakesHold
  <1>1. DelegationInv => DisablingTakesHold
    BY VendorIsRecent, DeciderIsRecent DEF DisablingTakesHold
  <1> QED BY <1>1, DelegationAlways, PTL

(* A role that was taken away decides approvals, and calls at the tool     *)
(* server, for less than a lifetime (require_roles, ToolEnforcer.call).    *)
THEOREM RolesLagByATokensLife == Spec => []RoleChangesLag
  <1>1. DelegationInv => RoleChangesLag
    BY AdmittedIsRecent, DeciderIsRecent DEF RoleChangesLag
  <1> QED BY <1>1, DelegationAlways, PTL

(* The vendor, two tokens away from the account, is behind by less than    *)
(* two lifetimes, however long a call takes (the exchanges).               *)
THEOREM VendorLagsByTwoTokens ==
  ASSUME SandboxAuth
  PROVE  Spec => []VendorLagIsBounded
  <1>1. DelegationInv => VendorLagIsBounded
    BY VendorIsRecent DEF VendorLagIsBounded
  <1> QED BY <1>1, DelegationAlways, PTL

(* A call is carried out only if its person was entitled to the tool at    *)
(* some moment of this very call, however old the run (_tool_token).       *)
THEOREM CallsReadTheRoles == Spec => []EachCallReadsTheRoles
  <1>1. DelegationInv => EachCallReadsTheRoles
    BY ThreadHolds DEF EachCallReadsTheRoles, IsSeen
  <1> QED BY <1>1, DelegationAlways, PTL

-----------------------------------------------------------------------------
(* The accounts that Delegation starts from: Admin implements Accounts,    *)
(* for any number of routes side by side, users, roles and failures, and   *)
(* the audit records add up to the accounts.                               *)
(*                                                                         *)
(* What makes this inductive is how far each route has got: its remaining  *)
(* calls are the rest of its record, and an account nobody disturbed is    *)
(* what the records and the calls made since say (InStep).                 *)

\* How many of a route's calls are made, and what the records make of account i.
Progress(q) == Len(q.record) - Len(q.calls)
Rebuilt(i) == Versions(trail, i)[Len(trail)]

\* A route makes the calls of its record in order. The first may create the account,
\* whose id is known from then on; none is about a role that may not be granted.
Sound(q, m) ==
  /\ Len(q.record) >= 1 /\ Progress(q) \in Nat
  /\ \A j \in 1..Len(q.calls) : q.calls[j] = q.record[j + Progress(q)]
  /\ \A j \in 1..Len(q.record) :
       /\ q.record[j].what = "create" => j = 1 /\ q.name \in Name
       /\ q.record[j].what \in {"assign", "remove"} => q.record[j].role \in ASSIGNABLE_ROLES
       /\ q.record[j].what = "assign" => q.by = "administrator"
  /\ q.id = Unknown <=> Progress(q) = 0 /\ q.record[1].what = "create"
  /\ q.id <= m

RoutesAreSound == \A c \in Caller : request[c] # NoRequest => Sound(request[c], made)

\* Nobody has an id that is yet to come, and no record is about one.
NobodyYet ==
  /\ \A i \in Id : i > made => users[i] = NoUser
  /\ \A n \in DOMAIN trail : trail[n].id \in 1..made

\* Every route that will create an account finds an id for it.
Creating == {c \in Caller : request[c] # NoRequest /\ request[c].id = Unknown}
RoomForTheRest == made + Cardinality(Creating) <= MaxUsers

\* Two routes at work on an account disturb it.
OneAtATime ==
  \A c, d \in Caller :
    /\ c # d /\ request[c] # NoRequest /\ request[d] # NoRequest
    /\ request[c].id = request[d].id /\ request[c].id # Unknown
    => request[c].id \in disturbed

\* An undisturbed account is what the records and the calls made since say.
InStep ==
  \A c \in Caller : request[c] # NoRequest /\ request[c].id \in Id \ disturbed =>
    users[request[c].id] =
      Stages(Rebuilt(request[c].id), request[c].record, request[c].name)[Progress(request[c])]

AdminInv ==
  /\ AdminTypeOK
  /\ RoutesAreSound /\ NobodyYet /\ RoomForTheRest /\ OneAtATime
  /\ InStep /\ TrailRebuildsUsers /\ RolesComeFromAdministrators

-----------------------------------------------------------------------------
(* Recursive functions on 0..N: there is one, and only one.                *)

LEMMA SmallestOne ==
  ASSUME NEW S \in SUBSET Nat, S # {}
  PROVE  \E n \in S : \A m \in S : n <= m
  <1>1. PICK n \in S : \A m \in S : ~ (<<m, n>> \in OpToRel(<, Nat))
    BY NatLessThanWellFounded, WFMin
  <1>2. ASSUME NEW a \in Nat, NEW b \in Nat, a < b
        PROVE  <<a, b>> \in OpToRel(<, Nat)
    <2>1. <<a, b>> \in Nat \X Nat /\ <<a, b>>[1] < <<a, b>>[2]
      BY <1>2
    <2> QED BY <2>1, Zenon DEF OpToRel
  <1>3. \A m \in S : ~ (m < n)
    BY <1>1, <1>2
  <1> QED BY <1>3

\* g goes from base through the steps 1..n.
Runs(g, base, n, step) ==
  DOMAIN g = 0..n /\ g[0] = base /\ \A k \in 1..n : g[k] = step[k][g[k - 1]]

LEMMA RunExists ==
  ASSUME NEW T, NEW base \in T, NEW N \in Nat, NEW step \in [1..N -> [T -> T]]
  PROVE  \E g \in [0..N -> T] : Runs(g, base, N, step)
  <1> DEFINE Has(n) == \E g \in [0..n -> T] : Runs(g, base, n, step)
             S == {n \in 0..N : ~Has(n)}
  <1>1. SUFFICES ASSUME S # {} PROVE FALSE
    OBVIOUS
  <1>2. PICK n \in S : \A m \in S : n <= m
    <2>1. S \in SUBSET Nat
      OBVIOUS
    <2> HIDE DEF S
    <2> QED BY <1>1, <2>1, SmallestOne
  <1>3. n # 0
    <2> DEFINE g == [k \in 0..0 |-> base]
    <2>1. g \in [0..0 -> T] /\ Runs(g, base, 0, step)
      BY DEF Runs
    <2>2. Has(0)
      BY <2>1
    <2> QED BY <1>2, <2>2
  <1>4. n \in 1..N /\ n - 1 \in 0..N /\ n - 1 \in Nat /\ n \in Nat
    BY <1>2, <1>3
  <1>5. Has(n - 1)
    <2>1. n - 1 \notin S
      <3> HIDE DEF S
      <3> QED BY <1>2, <1>4
    <2> HIDE DEF Has
    <2> QED BY <1>4, <2>1
  <1>6. PICK g \in [0..(n - 1) -> T] : Runs(g, base, n - 1, step)
    BY <1>5
  <1> DEFINE h == [k \in 0..n |-> IF k = n THEN step[n][g[n - 1]] ELSE g[k]]
  <1>7. step[n] \in [T -> T] /\ g[n - 1] \in T
    BY <1>4
  <1>8. h \in [0..n -> T]
    BY <1>4, <1>7
  <1>9. Runs(h, base, n, step)
    <2>1. h[0] = base
      BY <1>4, <1>6 DEF Runs
    <2>2. ASSUME NEW k \in 1..n PROVE h[k] = step[k][h[k - 1]]
      <3>1. CASE k = n
        BY <1>4, <3>1
      <3>2. CASE k # n
        <4>1. k \in 1..(n - 1) /\ k - 1 \in 0..n /\ k - 1 # n /\ k \in 0..n
          BY <1>4, <3>2
        <4>2. h[k] = g[k] /\ h[k - 1] = g[k - 1]
          BY <3>2, <4>1
        <4> QED BY <1>6, <4>1, <4>2 DEF Runs
      <3> QED BY <3>1, <3>2
    <2> QED BY <2>1, <2>2 DEF Runs
  <1> QED BY <1>2, <1>8, <1>9

LEMMA RunIsUnique ==
  ASSUME NEW base, NEW N \in Nat, NEW step, NEW g, NEW h, NEW M \in Nat, NEW n \in 0..N, N <= M,
         Runs(g, base, N, step), Runs(h, base, M, step)
  PROVE  g[n] = h[n]
  <1> DEFINE S == {k \in 0..N : g[k] # h[k]}
  <1>1. SUFFICES ASSUME S # {} PROVE FALSE
    OBVIOUS
  <1>2. PICK k \in S : \A m \in S : k <= m
    <2>1. S \in SUBSET Nat
      OBVIOUS
    <2> HIDE DEF S
    <2> QED BY <1>1, <2>1, SmallestOne
  <1>3. k # 0
    BY <1>2 DEF Runs
  <1>4. k \in 1..N /\ k \in 1..M /\ k - 1 \in 0..N
    BY <1>2, <1>3
  <1>5. k - 1 \notin S
    <2>1. k \in Nat
      BY <1>4
    <2> HIDE DEF S
    <2> QED BY <1>2, <2>1
  <1>6. g[k - 1] = h[k - 1]
    BY <1>4, <1>5
  <1>7. g[k] = h[k]
    BY <1>4, <1>6 DEF Runs
  <1> QED BY <1>2, <1>7

LEMMA StaysIn ==
  ASSUME NEW T, NEW N \in Nat, NEW f, f[0] \in T,
         \A k \in 1..N : f[k - 1] \in T => f[k] \in T
  PROVE  \A k \in 0..N : f[k] \in T
  <1> DEFINE S == {k \in 0..N : f[k] \notin T}
  <1>1. SUFFICES ASSUME S # {} PROVE FALSE
    OBVIOUS
  <1>2. PICK k \in S : \A m \in S : k <= m
    <2>1. S \in SUBSET Nat
      OBVIOUS
    <2> HIDE DEF S
    <2> QED BY <1>1, <2>1, SmallestOne
  <1>3. k \in 1..N /\ k - 1 \in 0..N
    BY <1>2
  <1>4. k - 1 \notin S
    <2>1. k \in Nat
      BY <1>3
    <2> HIDE DEF S
    <2> QED BY <1>2, <2>1
  <1>5. f[k] \in T
    BY <1>3, <1>4
  <1> QED BY <1>2, <1>5

-----------------------------------------------------------------------------
(* What calls and records make of an account.                              *)

\* What a record may say of an account; one that is gone stays so.
Said == {NoUser} \cup [there : {TRUE}, name : Name \cup {NoRole}, roles : SUBSET Role,
                       enabled : BOOLEAN, reset : BOOLEAN]

LEMMA AfterSaid ==
  ASSUME NEW u \in Said, NEW act \in CallOf, NEW n \in Name \cup {NoRole}
  PROVE  After(u, act, n) \in Said
  <1>1. CASE u = NoUser
    BY <1>1 DEF Said, NoUser, After, CallOf
  <1>2. CASE u # NoUser
    BY <1>2 DEF Said, After, CallOf
  <1> QED BY <1>1, <1>2

LEMMA StagesFacts ==
  ASSUME NEW u \in Said, NEW calls \in Seq(CallOf), NEW n \in Name \cup {NoRole}
  PROVE  LET f == Stages(u, calls, n)
         IN  /\ f \in [0..Len(calls) -> Said]
             /\ f[0] = u
             /\ \A k \in 1..Len(calls) : f[k] = After(f[k - 1], calls[k], n)
  <1> DEFINE N == Len(calls)
             Eq(f) == f = [k \in 0..N |-> IF k = 0 THEN u ELSE After(f[k - 1], calls[k], n)]
             step == [k \in 1..N |-> [x \in Said |-> After(x, calls[k], n)]]
             st == Stages(u, calls, n)
  <1>1. N \in Nat /\ \A k \in 1..N : calls[k] \in CallOf
    OBVIOUS
  <1>2. step \in [1..N -> [Said -> Said]]
    BY <1>1, AfterSaid
  <1>3. PICK g \in [0..N -> Said] : Runs(g, u, N, step)
    <2> HIDE DEF step, N
    <2> QED BY <1>1, <1>2, RunExists
  <1>4. \A k \in 1..N : k - 1 \in 0..N /\ g[k - 1] \in Said
    BY <1>1
  <1>5. \A k \in 1..N : g[k] = After(g[k - 1], calls[k], n)
    BY <1>3, <1>4 DEF Runs
  <1>6. Eq(g)
    <2>1. g = [k \in 0..N |-> g[k]]
      OBVIOUS
    <2>2. \A k \in 0..N : g[k] = IF k = 0 THEN u ELSE After(g[k - 1], calls[k], n)
      BY <1>1, <1>3, <1>5 DEF Runs
    <2> QED BY <2>1, <2>2
  <1>7. Eq(st)
    <2>1. st = CHOOSE f : Eq(f)
      BY DEF Stages
    <2> HIDE DEF Eq, st
    <2> QED BY <1>6, <2>1
  <1>8. DOMAIN st = 0..N /\ st[0] = u /\ \A k \in 1..N : st[k] = After(st[k - 1], calls[k], n)
    <2> HIDE DEF st
    <2>1. DOMAIN st = 0..N /\ \A k \in 0..N : st[k] = IF k = 0 THEN u ELSE After(st[k - 1], calls[k], n)
      BY <1>7
    <2> QED BY <1>1, <2>1
  <1>9. \A k \in 0..N : st[k] \in Said
    <2>1. \A k \in 1..N : st[k - 1] \in Said => st[k] \in Said
      BY <1>1, <1>8, AfterSaid
    <2> HIDE DEF st, N
    <2> QED BY <1>1, <1>8, <2>1, StaysIn
  <1>10. st = [k \in 0..N |-> st[k]]
    <2> HIDE DEF st
    <2> QED BY <1>7
  <1>11. st \in [0..N -> Said]
    <2> HIDE DEF st
    <2> QED BY <1>9, <1>10
  <1> QED BY <1>8, <1>11

\* An account after a record.
Told(x, rec, i) == IF rec.id = i THEN Stages(x, rec.calls, rec.name)[Len(rec.calls)] ELSE x

LEMMA ToldSaid ==
  ASSUME NEW x \in Said, NEW rec \in Record, NEW i
  PROVE  Told(x, rec, i) \in Said
  <1>1. rec.calls \in Seq(CallOf) /\ rec.name \in Name \cup {NoRole}
    BY DEF Record
  <1>2. Stages(x, rec.calls, rec.name) \in [0..Len(rec.calls) -> Said]
    BY <1>1, StagesFacts
  <1>3. Len(rec.calls) \in 0..Len(rec.calls)
    BY <1>1
  <1> QED BY <1>2, <1>3 DEF Told

LEMMA VersionsFacts ==
  ASSUME NEW t \in Seq(Record), NEW i
  PROVE  LET f == Versions(t, i)
         IN  /\ f \in [0..Len(t) -> Said]
             /\ f[0] = NoUser
             /\ \A k \in 1..Len(t) : f[k] = Told(f[k - 1], t[k], i)
  <1> DEFINE N == Len(t)
             Eq(f) == f = [k \in 0..N |-> IF k = 0 THEN NoUser ELSE Told(f[k - 1], t[k], i)]
             step == [k \in 1..N |-> [x \in Said |-> Told(x, t[k], i)]]
             ve == Versions(t, i)
  <1>1. N \in Nat /\ (\A k \in 1..N : t[k] \in Record) /\ NoUser \in Said
    BY DEF Said
  <1>2. step \in [1..N -> [Said -> Said]]
    BY <1>1, ToldSaid
  <1>3. PICK g \in [0..N -> Said] : Runs(g, NoUser, N, step)
    <2> HIDE DEF step, N
    <2> QED BY <1>1, <1>2, RunExists
  <1>4. \A k \in 1..N : k - 1 \in 0..N /\ g[k - 1] \in Said
    BY <1>1
  <1>5. \A k \in 1..N : g[k] = Told(g[k - 1], t[k], i)
    BY <1>3, <1>4 DEF Runs
  <1>6. Eq(g)
    <2>1. g = [k \in 0..N |-> g[k]]
      OBVIOUS
    <2>2. \A k \in 0..N : g[k] = IF k = 0 THEN NoUser ELSE Told(g[k - 1], t[k], i)
      BY <1>1, <1>3, <1>5 DEF Runs
    <2> QED BY <2>1, <2>2
  <1>7. Eq(ve)
    <2>1. ve = CHOOSE f : Eq(f)
      BY DEF Versions, Told
    <2> HIDE DEF Eq, ve
    <2> QED BY <1>6, <2>1
  <1>8. DOMAIN ve = 0..N /\ ve[0] = NoUser /\ \A k \in 1..N : ve[k] = Told(ve[k - 1], t[k], i)
    <2> HIDE DEF ve
    <2>1. DOMAIN ve = 0..N /\ \A k \in 0..N : ve[k] = IF k = 0 THEN NoUser ELSE Told(ve[k - 1], t[k], i)
      BY <1>7
    <2> QED BY <1>1, <2>1
  <1>9. \A k \in 0..N : ve[k] \in Said
    <2>1. \A k \in 1..N : ve[k - 1] \in Said => ve[k] \in Said
      BY <1>1, <1>8, ToldSaid
    <2> HIDE DEF ve, N
    <2> QED BY <1>1, <1>8, <2>1, StaysIn
  <1>10. ve = [k \in 0..N |-> ve[k]]
    <2> HIDE DEF ve
    <2> QED BY <1>7
  <1>11. ve \in [0..N -> Said]
    <2> HIDE DEF ve
    <2> QED BY <1>9, <1>10
  <1> QED BY <1>8, <1>11

(* One record more is told after the others.                               *)
LEMMA OneRecordMore ==
  ASSUME NEW t \in Seq(Record), NEW rec \in Record, NEW i
  PROVE  Versions(Append(t, rec), i)[Len(Append(t, rec))] = Told(Versions(t, i)[Len(t)], rec, i)
  <1> DEFINE A == Append(t, rec)
             N == Len(t)
             f == Versions(t, i)
             h == Versions(A, i)
             step == [k \in 1..(N + 1) |-> [x \in Said |-> Told(x, A[k], i)]]
  <1>1. /\ A \in Seq(Record) /\ N \in Nat /\ Len(A) = N + 1 /\ A[N + 1] = rec
        /\ \A k \in 1..N : A[k] = t[k]
    OBVIOUS
  <1>2. /\ f \in [0..N -> Said] /\ f[0] = NoUser
        /\ \A k \in 1..N : f[k] = Told(f[k - 1], t[k], i)
    BY VersionsFacts
  <1>3. /\ h \in [0..(N + 1) -> Said] /\ h[0] = NoUser
        /\ \A k \in 1..(N + 1) : h[k] = Told(h[k - 1], A[k], i)
    <2> HIDE DEF A, N
    <2>1. /\ h \in [0..Len(A) -> Said] /\ h[0] = NoUser
          /\ \A k \in 1..Len(A) : h[k] = Told(h[k - 1], A[k], i)
      BY <1>1, VersionsFacts
    <2> HIDE DEF h
    <2> QED BY <1>1, <2>1
  <1> HIDE DEF A, N, f, h
  <1>4. Runs(f, NoUser, N, step)
    <2>1. ASSUME NEW k \in 1..N PROVE f[k] = step[k][f[k - 1]]
      <3>1. k - 1 \in 0..N /\ k \in 1..(N + 1) /\ f[k - 1] \in Said
        BY <1>1, <1>2
      <3> QED BY <1>1, <1>2, <3>1
    <2> QED BY <1>2, <2>1 DEF Runs
  <1>5. Runs(h, NoUser, N + 1, step)
    <2>1. ASSUME NEW k \in 1..(N + 1) PROVE h[k] = step[k][h[k - 1]]
      <3>1. k - 1 \in 0..(N + 1) /\ h[k - 1] \in Said
        BY <1>1, <1>3
      <3> QED BY <1>3, <3>1
    <2> QED BY <1>3, <2>1 DEF Runs
  <1>6. f[N] = h[N]
    <2> HIDE DEF step
    <2> QED BY <1>1, <1>4, <1>5, RunIsUnique
  <1>7. h[N + 1] = Told(h[(N + 1) - 1], A[N + 1], i) /\ (N + 1) - 1 = N
    BY <1>1, <1>3
  <1> QED BY <1>1, <1>6, <1>7 DEF A, N, f, h

(* Records about others leave an account unmade.                           *)
LEMMA NoRecordNoAccount ==
  ASSUME NEW t \in Seq(Record), NEW i, \A n \in DOMAIN t : t[n].id # i
  PROVE  Versions(t, i)[Len(t)] = NoUser
  <1> DEFINE N == Len(t)
             f == Versions(t, i)
  <1>1. f[0] = NoUser /\ \A k \in 1..N : f[k] = Told(f[k - 1], t[k], i)
    BY VersionsFacts
  <1>2. N \in Nat /\ N \in 0..N /\ \A k \in 1..N : t[k].id # i
    OBVIOUS
  <1> DEFINE T == {NoUser}
  <1>3. f[0] \in T /\ \A k \in 1..N : f[k - 1] \in T => f[k] \in T
    BY <1>1, <1>2 DEF Told
  <1> HIDE DEF f, N, T
  <1>4. \A k \in 0..N : f[k] \in T
    BY <1>2, <1>3, StaysIn
  <1> QED BY <1>2, <1>4 DEF f, N, T

(* The assignments of create_user are of roles that may be granted.        *)
LEMMA AssignsFacts ==
  ASSUME NEW roles \in Bodies
  PROVE  /\ Assigns(roles) \in Seq(CallOf)
         /\ \A j \in 1..Len(Assigns(roles)) :
              /\ Assigns(roles)[j].what = "assign"
              /\ Assigns(roles)[j].role \in ASSIGNABLE_ROLES
  <1> DEFINE N == Len(roles)
             T == Seq({Do("assign", r) : r \in ASSIGNABLE_ROLES})
             Then(x, k) == IF roles[k] \in ASSIGNABLE_ROLES THEN Append(x, Do("assign", roles[k]))
                           ELSE x
             Eq(f) == f = [k \in 0..N |-> IF k = 0 THEN <<>> ELSE Then(f[k - 1], k)]
             step == [k \in 1..N |-> [x \in T |-> Then(x, k)]]
             as == CHOOSE f : Eq(f)
  <1>1. N \in Nat
    <2>1. PICK n \in 0..MaxRoles : roles \in [1..n -> Role]
      BY DEF Bodies
    <2>2. n \in Nat
      BY AdminAssumption
    <2>3. Len(roles) = n
      BY <2>1, <2>2
    <2> QED BY <2>2, <2>3
  <1>2. \A x \in T : \A k \in 1..N : Then(x, k) \in T
    OBVIOUS
  <1>3. <<>> \in T
    OBVIOUS
  <1> HIDE DEF Then, T
  <1>4. step \in [1..N -> [T -> T]]
    BY <1>2
  <1>5. PICK g \in [0..N -> T] : Runs(g, <<>>, N, step)
    <2> HIDE DEF step, N
    <2> QED BY <1>1, <1>3, <1>4, RunExists
  <1>6. \A k \in 1..N : k - 1 \in 0..N /\ g[k - 1] \in T
    BY <1>1
  <1>7. \A k \in 1..N : g[k] = Then(g[k - 1], k)
    BY <1>5, <1>6 DEF Runs
  <1>8. Eq(g)
    <2>1. g = [k \in 0..N |-> g[k]]
      OBVIOUS
    <2>2. \A k \in 0..N : g[k] = IF k = 0 THEN <<>> ELSE Then(g[k - 1], k)
      BY <1>1, <1>5, <1>7 DEF Runs
    <2> QED BY <2>1, <2>2
  <1>9. Eq(as)
    <2> HIDE DEF Eq
    <2> QED BY <1>8
  <1>10. as[0] = <<>> /\ \A k \in 1..N : as[k] = Then(as[k - 1], k)
    <2> HIDE DEF as
    <2>1. \A k \in 0..N : as[k] = IF k = 0 THEN <<>> ELSE Then(as[k - 1], k)
      BY <1>9
    <2> QED BY <1>1, <2>1
  <1>11. \A k \in 0..N : as[k] \in T
    <2>1. \A k \in 1..N : as[k - 1] \in T => as[k] \in T
      BY <1>2, <1>10
    <2> HIDE DEF as, N
    <2> QED BY <1>1, <1>3, <1>10, <2>1, StaysIn
  <1>12. Assigns(roles) = as[N]
    BY DEF Assigns, Then
  <1>13. Assigns(roles) \in T
    <2>1. N \in 0..N
      BY <1>1
    <2>2. as[N] \in T
      <3> HIDE DEF as, N
      <3> QED BY <1>11, <2>1
    <2> QED BY <1>12, <2>2
  <1>14. \A x \in {Do("assign", r) : r \in ASSIGNABLE_ROLES} :
           x \in CallOf /\ x.what = "assign" /\ x.role \in ASSIGNABLE_ROLES
    BY AdminAssumption DEF Do, CallOf
  <1> DEFINE V == {Do("assign", r) : r \in ASSIGNABLE_ROLES}
  <1>15. Assigns(roles) \in Seq(V)
    BY <1>13 DEF T
  <1> HIDE DEF V, as
  <1>16. \A j \in 1..Len(Assigns(roles)) : Assigns(roles)[j] \in V
    BY <1>15
  <1>17. \A x \in V : x \in CallOf /\ x.what = "assign" /\ x.role \in ASSIGNABLE_ROLES
    BY <1>14 DEF V
  <1>18. Assigns(roles) \in Seq(CallOf)
    BY <1>15, <1>17
  <1> QED BY <1>16, <1>17, <1>18

-----------------------------------------------------------------------------
(* The steps.                                                              *)

\* What a route sets out to do.
Orders(by, id, name, calls) ==
  /\ id \in 0..made /\ name \in Name \cup {NoRole} /\ calls \in Seq(CallOf)
  /\ Len(calls) >= 1
  /\ \A j \in 1..Len(calls) :
       /\ calls[j].what = "create" => j = 1 /\ name \in Name
       /\ calls[j].what \in {"assign", "remove"} => calls[j].role \in ASSIGNABLE_ROLES
       /\ calls[j].what = "assign" => by = "administrator"
  /\ id = Unknown <=> calls[1].what = "create"
  /\ id = Unknown => RoomForAnother

LEMMA StepKinds ==
  ASSUME AdminTypeOK, AdminNext
  PROVE  \E c \in Caller :
           \/ \E by \in Asker : \E id, name, calls :
                 Receive(c, by, id, name, calls) /\ Orders(by, id, name, calls)
           \/ Called(c) \/ Refused(c) \/ Fails(c) \/ Audited(c)
  <1> USE AdminAssumption
  <1>0. made \in Nat /\ 0 \in 0..made
    BY DEF AdminTypeOK
  <1>2. ASSUME NEW c \in Caller, NEW n \in Name, NEW roles \in Bodies, create_user(c, n, roles)
        PROVE  \E by \in Asker : \E id, name, calls :
                 Receive(c, by, id, name, calls) /\ Orders(by, id, name, calls)
    <2> DEFINE first == Do("create", NoRole)
               rest == Assigns(roles)
               calls == <<first>> \o rest
    <2>1. /\ rest \in Seq(CallOf)
          /\ \A j \in 1..Len(rest) : rest[j].what = "assign" /\ rest[j].role \in ASSIGNABLE_ROLES
      BY AssignsFacts
    <2>2. first \in CallOf /\ first.what = "create"
      BY DEF Do, CallOf
    <2> HIDE DEF first, rest
    <2>3. /\ calls \in Seq(CallOf) /\ Len(calls) = 1 + Len(rest) /\ Len(rest) \in Nat
          /\ calls[1] = first
      BY <2>1, <2>2
    <2>4. \A j \in 1..Len(calls) : j # 1 => calls[j] = rest[j - 1] /\ j - 1 \in 1..Len(rest)
      BY <2>1, <2>2, <2>3
    <2>5. Receive(c, "administrator", Unknown, n, calls) /\ RoomForAnother
      BY <1>2 DEF create_user, first, rest
    <2> HIDE DEF calls
    <2>6. \A j \in 1..Len(calls) :
            /\ calls[j].what = "create" => j = 1
            /\ calls[j].what \in {"assign", "remove"} => calls[j].role \in ASSIGNABLE_ROLES
      BY <2>1, <2>2, <2>3, <2>4
    <2>7. Orders("administrator", Unknown, n, calls)
      BY <1>0, <2>2, <2>3, <2>5, <2>6 DEF Orders, Unknown
    <2> QED BY <2>5, <2>7 DEF Asker
  <1>3. ASSUME NEW c \in Caller, NEW id \in 0..made, NEW name \in Name \cup {NoRole},
               NEW what \in {"create", "enable", "disable", "reset", "delete", "assign", "remove"},
               NEW role \in Role \cup {NoRole},
               NEW by \in Asker, Receive(c, by, id, name, <<Do(what, role)>>),
               what \in {"assign", "remove"} => role \in ASSIGNABLE_ROLES,
               what \notin {"assign", "remove"} => role = NoRole,
               what = "assign" => by = "administrator",
               what = "create" <=> id = Unknown,
               what = "create" => name \in Name /\ RoomForAnother
        PROVE  \E a \in Asker : \E i, n, q : Receive(c, a, i, n, q) /\ Orders(a, i, n, q)
    <2> DEFINE q == <<Do(what, role)>>
    <2>1. Do(what, role) \in CallOf /\ Do(what, role).what = what /\ Do(what, role).role = role
      BY <1>3 DEF Do, CallOf
    <2>2. q \in Seq(CallOf) /\ Len(q) = 1 /\ q[1] = Do(what, role)
      BY <2>1
    <2> HIDE DEF q
    <2>3. Orders(by, id, name, q)
      BY <1>3, <2>1, <2>2 DEF Orders
    <2> QED BY <1>3, <2>3 DEF q
  <1>4. ASSUME NEW c \in Caller, NEW n \in Name, NEW roles \in Bodies, enroll(c, n, roles)
        PROVE  \E by \in Asker : \E id, name, calls :
                 Receive(c, by, id, name, calls) /\ Orders(by, id, name, calls)
    BY <1>0, <1>3, <1>4 DEF enroll, Unknown, Asker
  <1>5. ASSUME NEW c \in Caller, NEW i \in 1..made,
               \/ \E r \in Role : grant_role(c, i, r) \/ revoke_role(c, i, r)
               \/ \E on \in BOOLEAN : set_enabled(c, i, on)
               \/ reset_password(c, i) \/ delete_user(c, i)
        PROVE  \E by \in Asker : \E id, name, calls :
                 Receive(c, by, id, name, calls) /\ Orders(by, id, name, calls)
    <2>0. i \in 0..made /\ i # Unknown
      BY <1>0 DEF Unknown
    <2>1. CASE \E r \in Role : grant_role(c, i, r)
      BY <1>3, <2>0, <2>1 DEF grant_role, ByAdministrator, Asker
    <2>2. CASE \E r \in Role : revoke_role(c, i, r)
      BY <1>3, <2>0, <2>2 DEF revoke_role, ByAdministrator, Asker
    <2>3. CASE \E on \in BOOLEAN : set_enabled(c, i, on)
      BY <1>3, <2>0, <2>3 DEF set_enabled, ByAdministrator, Asker
    <2>4. CASE reset_password(c, i)
      BY <1>3, <2>0, <2>4 DEF reset_password, ByAdministrator, Asker
    <2>5. CASE delete_user(c, i)
      BY <1>3, <2>0, <2>5 DEF delete_user, ByAdministrator, Asker
    <2> QED BY <1>5, <2>1, <2>2, <2>3, <2>4, <2>5
  <1> QED BY <1>2, <1>4, <1>5 DEF AdminNext

\* What a request in hand is.
LEMMA RouteFacts ==
  ASSUME AdminTypeOK, NEW c \in Caller, request[c] # NoRequest
  PROVE  LET q == request[c]
         IN  /\ q \in RouteOf
             /\ q.id \in Id \cup {Unknown} /\ q.id \in Nat /\ q.name \in Name \cup {NoRole}
             /\ q.calls \in Seq(CallOf) /\ q.record \in Seq(CallOf)
             /\ Len(q.calls) \in Nat /\ Len(q.record) \in Nat
             /\ q.calls # <<>> => /\ Len(q.calls) >= 1 /\ Head(q.calls) = q.calls[1]
                                  /\ Head(q.calls) \in CallOf
                                  /\ Tail(q.calls) \in Seq(CallOf)
                                  /\ Len(Tail(q.calls)) = Len(q.calls) - 1
                                  /\ \A j \in 1..(Len(q.calls) - 1) : Tail(q.calls)[j] = q.calls[j + 1]
  <1> DEFINE q == request[c]
  <1>1. q \in RouteOf
    BY DEF AdminTypeOK
  <1> HIDE DEF q
  <1>2. /\ q.id \in Id \cup {Unknown} /\ q.name \in Name \cup {NoRole}
        /\ q.calls \in Seq(CallOf) /\ q.record \in Seq(CallOf)
    BY <1>1 DEF RouteOf
  <1>3. q.id \in Nat
    BY <1>2, AdminAssumption DEF Id, Unknown
  <1> DEFINE s == q.calls
  <1>4. s \in Seq(CallOf)
    BY <1>2
  <1> HIDE DEF s
  <1>5. s # <<>> => /\ Len(s) >= 1 /\ Head(s) = s[1] /\ Head(s) \in CallOf
                    /\ Tail(s) \in Seq(CallOf) /\ Len(Tail(s)) = Len(s) - 1
                    /\ \A j \in 1..(Len(s) - 1) : Tail(s)[j] = s[j + 1]
    BY <1>4
  <1>6. Len(s) \in Nat /\ Len(q.record) \in Nat
    BY <1>2, <1>4
  <1> QED BY <1>1, <1>2, <1>3, <1>5, <1>6 DEF q, s

(* A call that Keycloak accepts: which account it changes, and into what.  *)
LEMMA PerformFacts ==
  ASSUME AdminTypeOK, RoutesAreSound, NobodyYet, RoomForTheRest,
         NEW c \in Caller, request[c] # NoRequest, request[c].calls # <<>>,
         Accepts(request[c]), Perform(request[c])
  PROVE  LET q == request[c]
             i == Target(q)
             k == Progress(q) + 1
         IN  /\ k \in 1..Len(q.record) /\ Head(q.calls) = q.record[k]
             /\ i \in Id /\ i \in 1..made'
             /\ users' = [users EXCEPT ![i] = After(users[i], q.record[k], q.name)]
             /\ After(users[i], q.record[k], q.name) \in {NoUser} \cup User
             /\ \/ /\ q.record[k].what = "create" /\ q.id = Unknown /\ k = 1
                   /\ i = made + 1 /\ made' = i /\ users[i] = NoUser
                \/ /\ q.record[k].what # "create" /\ q.id = i
                   /\ made' = made /\ users[i] \in User /\ users[i].there
  <1> DEFINE q == request[c]
             i == Target(q)
             k == Progress(q) + 1
             act == q.record[k]
  <1>1. Sound(q, made)
    BY DEF RoutesAreSound
  <1>2. /\ q.id \in Id \cup {Unknown} /\ q.id \in Nat /\ q.name \in Name \cup {NoRole}
        /\ q.calls \in Seq(CallOf) /\ q.record \in Seq(CallOf)
        /\ Len(q.calls) \in Nat /\ Len(q.record) \in Nat
        /\ Len(q.calls) >= 1 /\ Head(q.calls) = q.calls[1] /\ Head(q.calls) \in CallOf
    BY RouteFacts
  <1>3. Progress(q) \in Nat /\ Progress(q) = Len(q.record) - Len(q.calls)
    BY <1>1 DEF Sound, Progress
  <1>4. k \in 1..Len(q.record) /\ Head(q.calls) = act
    <2>1. q.calls[1] = q.record[1 + Progress(q)]
      BY <1>1, <1>2 DEF Sound
    <2>2. 1 + Progress(q) = k /\ k \in 1..Len(q.record)
      <3> DEFINE p == Progress(q)
                 m == Len(q.calls)
                 n == Len(q.record)
      <3>1. p \in Nat /\ m \in Nat /\ n \in Nat /\ p = n - m /\ m >= 1
        BY <1>2, <1>3
      <3> HIDE DEF p, m, n
      <3>2. 1 + p = p + 1 /\ p + 1 \in 1..n
        BY <3>1
      <3> QED BY <3>2 DEF p, n
    <2> QED BY <1>2, <2>1, <2>2
  <1>5. act \in CallOf
    BY <1>2, <1>4
  <1>6. made \in Nat /\ MaxUsers \in Nat /\ made <= MaxUsers
    BY AdminAssumption DEF AdminTypeOK
  <1>7. /\ users' = [users EXCEPT ![i] = After(users[i], act, q.name)]
        /\ made' = IF act.what = "create" THEN i ELSE made
    BY <1>4 DEF Perform
  <1>8. CASE act.what = "create"
    <2>1. k = 1 /\ q.name \in Name
      BY <1>1, <1>4, <1>8 DEF Sound
    <2>2. Progress(q) = 0
      <3> HIDE DEF q
      <3> QED BY <1>3, <2>1
    <2>3. q.id = Unknown
      BY <1>1, <1>8, <2>1, <2>2 DEF Sound
    <2>4. i = made + 1 /\ made' = i
      BY <1>4, <1>7, <1>8 DEF Target
    <2>5. Cardinality(Creating) >= 1 /\ Cardinality(Creating) \in Nat
      <3>1. c \in Creating
        BY <2>3 DEF Creating
      <3>2. Creating \subseteq Caller
        BY DEF Creating
      <3>3. IsFiniteSet(Creating)
        BY <3>2, AdminAssumption, FS_Subset
      <3>4. Cardinality(Creating) \in Nat /\ Cardinality(Creating) # 0
        BY <3>1, <3>3, FS_EmptySet, FS_CardinalityType
      <3> QED BY <3>4
    <2>6. i \in Id /\ i \in 1..made' /\ i > made
      BY <1>6, <2>4, <2>5 DEF RoomForTheRest, Id
    <2>7. users[i] = NoUser
      BY <2>6 DEF NobodyYet
    <2>8. After(users[i], act, q.name) \in User
      BY <1>8, <2>1 DEF After, User
    <2> QED BY <1>4, <1>7, <1>8, <2>1, <2>3, <2>4, <2>6, <2>7, <2>8
  <1>9. CASE act.what # "create"
    <2>1. i = q.id /\ There(q.id) /\ made' = made
      BY <1>4, <1>7, <1>9 DEF Target, Accepts
    <2>2. i \in Id /\ users[i].there
      BY <2>1 DEF There
    <2>3. users[i] \in User
      BY <2>2 DEF AdminTypeOK, NoUser
    <2>4. i \in 1..made
      BY <1>1, <1>6, <2>1, <2>2 DEF Sound, Id
    <2>5. After(users[i], act, q.name) \in {NoUser} \cup User
      <3> DEFINE u == users[i]
      <3>1. u \in User
        BY <2>3
      <3> HIDE DEF u, act
      <3>2. After(u, act, q.name) \in {NoUser} \cup User
        BY <1>5, <1>9, <3>1 DEF After, User, CallOf
      <3> QED BY <3>2 DEF u, act
    <2> QED BY <1>4, <1>7, <1>9, <2>1, <2>2, <2>3, <2>4, <2>5
  <1> QED BY <1>8, <1>9

\* What a step does to the requests: one is new, ends, or moves on.
LEMMA RequestSteps ==
  ASSUME AdminTypeOK, NEW c \in Caller
  PROVE  /\ \A by \in Asker : \A id, name, calls : Receive(c, by, id, name, calls) =>
              /\ request'[c] = [at |-> "calls", by |-> by, id |-> id, name |-> name, calls |-> calls,
                                record |-> calls]
              /\ request'[c] # NoRequest
              /\ \A d \in Caller : d # c => request'[d] = request[d]
         /\ Refused(c) \/ Fails(c) \/ Audited(c) =>
              request'[c] = NoRequest /\ \A d \in Caller : d # c => request'[d] = request[d]
         /\ Called(c) =>
              /\ request'[c] = [request[c] EXCEPT !.id = Target(request[c]), !.calls = Tail(@)]
              /\ request[c] # NoRequest
              /\ \A d \in Caller : d # c => request'[d] = request[d]
  <1>1. ASSUME NEW by \in Asker, NEW id, NEW name, NEW calls,
               Receive(c, by, id, name, calls)
        PROVE  /\ request'[c] = [at |-> "calls", by |-> by, id |-> id, name |-> name, calls |-> calls,
                                 record |-> calls]
               /\ request'[c] # NoRequest
               /\ \A d \in Caller : d # c => request'[d] = request[d]
    BY <1>1 DEF Receive, AdminTypeOK, NoRequest
  <1>2. Refused(c) \/ Fails(c) \/ Audited(c) =>
          request'[c] = NoRequest /\ \A d \in Caller : d # c => request'[d] = request[d]
    BY DEF Refused, Fails, Audited, AdminTypeOK
  <1>3. Called(c) =>
          /\ request'[c] = [request[c] EXCEPT !.id = Target(request[c]), !.calls = Tail(@)]
          /\ request[c] # NoRequest
          /\ \A d \in Caller : d # c => request'[d] = request[d]
    BY DEF Called, AdminTypeOK
  <1> QED BY <1>1, <1>2, <1>3

\* A call done, the route goes on with the rest.
LEMMA MovesOn ==
  ASSUME AdminTypeOK, NEW c \in Caller, NEW i \in Id, request[c] # NoRequest,
         request[c].calls # <<>>, Progress(request[c]) \in Nat,
         request'[c] = [request[c] EXCEPT !.id = i, !.calls = Tail(@)]
  PROVE  LET q == request[c]
             r == request'[c]
         IN  /\ r \in RouteOf /\ r # NoRequest
             /\ r.by = q.by /\ r.id = i /\ r.name = q.name /\ r.record = q.record
             /\ r.calls = Tail(q.calls) /\ Progress(r) = Progress(q) + 1
  <1> DEFINE q == request[c]
             r == request'[c]
  <1>1. /\ q \in RouteOf /\ Tail(q.calls) \in Seq(CallOf) /\ Len(q.calls) \in Nat
        /\ Len(q.record) \in Nat /\ Len(Tail(q.calls)) = Len(q.calls) - 1
    BY RouteFacts
  <1>2. /\ r.by = q.by /\ r.id = i /\ r.name = q.name /\ r.record = q.record /\ r.calls = Tail(q.calls)
        /\ r.at = "calls" /\ r \in RouteOf
    BY <1>1 DEF RouteOf
  <1>3. r # NoRequest
    <2>1. NoRequest.at = "none"
      BY DEF NoRequest
    <2> QED BY <1>2, <2>1
  <1>4. Progress(r) = Progress(q) + 1
    <2> DEFINE m == Len(q.calls)
               n == Len(q.record)
    <2>1. Progress(q) = n - m /\ Progress(r) = n - (m - 1)
      BY <1>1, <1>2 DEF Progress
    <2>2. m \in Nat /\ n \in Nat
      BY <1>1
    <2> HIDE DEF m, n
    <2> QED BY <2>1, <2>2
  <1> QED BY <1>2, <1>3, <1>4

LEMMA AdminTypesAreKept ==
  ASSUME AdminTypeOK, RoutesAreSound, NobodyYet, RoomForTheRest, [AdminNext]_adminVars
  PROVE  AdminTypeOK'
  <1> USE AdminAssumption
  <1>0. made \in Nat /\ started \in Nat /\ faults \in Nat /\ MaxUsers \in Nat
    BY DEF AdminTypeOK
  <1>1. ASSUME NEW c \in Caller, NEW by \in Asker, NEW id, NEW name, NEW calls,
               Receive(c, by, id, name, calls),
               Orders(by, id, name, calls)
        PROVE  AdminTypeOK'
    <2>1. id \in Id \cup {Unknown} /\ name \in Name \cup {NoRole} /\ calls \in Seq(CallOf)
      BY <1>0, <1>1 DEF Orders, AdminTypeOK, Id, Unknown
    <2> DEFINE q == [at |-> "calls", by |-> by, id |-> id, name |-> name, calls |-> calls, record |-> calls]
    <2>2. q \in RouteOf
      BY <2>1 DEF RouteOf
    <2>3. request' = [request EXCEPT ![c] = q]
      BY <1>1 DEF Receive
    <2> HIDE DEF q
    <2>4. request' \in [Caller -> {NoRequest} \cup RouteOf]
      BY <2>2, <2>3 DEF AdminTypeOK
    <2>5. disturbed' \subseteq Id
      BY <1>1, <2>1 DEF Receive, AdminTypeOK
    <2>6. started' \in 0..MaxRequests
      BY <1>0, <1>1 DEF Receive, AdminTypeOK
    <2>7. UNCHANGED <<users, trail, granted, made, faults>>
      BY <1>1 DEF Receive
    <2> QED BY <2>4, <2>5, <2>6, <2>7 DEF AdminTypeOK
  <1>2. ASSUME NEW c \in Caller, Accepts(request[c]), Perform(request[c]),
               request[c] # NoRequest, request[c].calls # <<>>
        PROVE  /\ users' \in [Id -> {NoUser} \cup User] /\ made' \in 0..MaxUsers
               /\ Target(request[c]) \in Id /\ granted' \subseteq Id \X Role
    <2>1. /\ Target(request[c]) \in Id /\ Target(request[c]) \in 1..made'
          /\ \E u \in {NoUser} \cup User : users' = [users EXCEPT ![Target(request[c])] = u]
          /\ made' = Target(request[c]) \/ made' = made
      BY <1>2, PerformFacts
    <2>2. granted' \subseteq Id \X Role
      BY <1>2, <2>1 DEF Perform, Grants, AdminTypeOK
    <2> HIDE DEF NoUser, User
    <2> QED BY <2>1, <2>2 DEF AdminTypeOK, Id
  <1>3. ASSUME NEW c \in Caller, Called(c) PROVE AdminTypeOK'
    <2>1. /\ users' \in [Id -> {NoUser} \cup User] /\ made' \in 0..MaxUsers
          /\ Target(request[c]) \in Id /\ granted' \subseteq Id \X Role
      BY <1>2, <1>3 DEF Called
    <2>2. request'[c] \in RouteOf
      BY <1>3, <2>1, MovesOn, RequestSteps DEF Called, RoutesAreSound, Sound
    <2>3. \A d \in Caller : d # c => request'[d] \in {NoRequest} \cup RouteOf
      BY <1>3, RequestSteps DEF AdminTypeOK
    <2>4. request' = [request EXCEPT ![c] = request'[c]]
      BY <1>3 DEF Called, AdminTypeOK
    <2>5. request' \in [Caller -> {NoRequest} \cup RouteOf]
      BY <2>2, <2>4 DEF AdminTypeOK
    <2> QED BY <1>3, <2>1, <2>5 DEF Called, AdminTypeOK
  <1>4. ASSUME NEW c \in Caller, Refused(c) PROVE AdminTypeOK'
    <2>1. request' \in [Caller -> {NoRequest} \cup RouteOf]
      BY <1>4 DEF Refused, AdminTypeOK
    <2>2. disturbed' \subseteq Id
      <3>1. request[c].id \in Id \cup {Unknown}
        BY <1>4, RouteFacts DEF Refused
      <3>2. request[c].id = Unknown => request[c].calls = request[c].record
        <4>1. Sound(request[c], made)
          BY <1>4 DEF Refused, RoutesAreSound
        <4> DEFINE p == request[c].calls
                   q == request[c].record
        <4>2. SUFFICES ASSUME request[c].id = Unknown PROVE p = q
          OBVIOUS
        <4>3. p \in Seq(CallOf) /\ q \in Seq(CallOf) /\ Len(p) \in Nat /\ Len(q) \in Nat
          BY <1>4, RouteFacts DEF Refused
        <4>4. Len(q) - Len(p) = 0 /\ \A j \in 1..Len(p) : p[j] = q[j + 0]
          BY <4>1, <4>2 DEF Sound, Progress
        <4> HIDE DEF p, q
        <4>5. Len(p) = Len(q) /\ \A j \in 1..Len(p) : p[j] = q[j]
          BY <4>3, <4>4
        <4> QED BY <4>3, <4>5
      <3> QED BY <1>4, <3>1, <3>2 DEF Refused, AdminTypeOK
    <2> QED BY <1>4, <2>1, <2>2 DEF Refused, AdminTypeOK
  <1>5. ASSUME NEW c \in Caller, Fails(c) PROVE AdminTypeOK'
    <2>1. /\ users' \in [Id -> {NoUser} \cup User] /\ made' \in 0..MaxUsers
          /\ granted' \subseteq Id \X Role
      BY <1>2, <1>5 DEF Fails, AdminTypeOK
    <2>2. request' \in [Caller -> {NoRequest} \cup RouteOf]
      BY <1>5 DEF Fails, AdminTypeOK
    <2>3. request[c].id \in Id \cup {Unknown}
      BY <1>5, RouteFacts DEF Fails
    <2>4. disturbed' \subseteq Id
      <3>1. (1..made') \subseteq Id
        BY <1>0, <2>1 DEF Id
      <3> QED BY <1>5, <2>3, <3>1 DEF Fails, AdminTypeOK
    <2>5. faults' \in 0..MaxFaults
      BY <1>0, <1>5 DEF Fails, AdminTypeOK
    <2> QED BY <1>5, <2>1, <2>2, <2>4, <2>5 DEF Fails, AdminTypeOK
  <1>6. ASSUME NEW c \in Caller, Audited(c) PROVE AdminTypeOK'
    <2>1. request' \in [Caller -> {NoRequest} \cup RouteOf]
      BY <1>6 DEF Audited, AdminTypeOK
    <2>2. trail' \in Seq(Record)
      <3> DEFINE rec == [id |-> request[c].id, name |-> request[c].name, calls |-> request[c].record]
      <3>1. rec \in Record
        BY <1>6, RouteFacts DEF Audited, Record
      <3>2. trail' = Append(trail, rec) /\ trail \in Seq(Record)
        BY <1>6 DEF Audited, AdminTypeOK
      <3> HIDE DEF rec
      <3> QED BY <3>1, <3>2
    <2> QED BY <1>6, <2>1, <2>2 DEF Audited, AdminTypeOK
  <1>7. CASE UNCHANGED adminVars
    BY <1>7 DEF adminVars, AdminTypeOK
  <1> QED BY <1>1, <1>3, <1>4, <1>5, <1>6, <1>7, StepKinds

(* Accounts are made and never unmade; the other routes go on as before.   *)
LEMMA OthersStaySound ==
  ASSUME AdminTypeOK, AdminTypeOK', RoutesAreSound, made <= made', NEW c \in Caller,
         request'[c] # NoRequest => Sound(request'[c], made'),
         \A d \in Caller : d # c => request'[d] = request[d]
  PROVE  RoutesAreSound'
  <1>1. made \in Nat /\ made' \in Nat
    BY DEF AdminTypeOK
  <1>2. ASSUME NEW d \in Caller, d # c, request'[d] # NoRequest
        PROVE  Sound(request'[d], made')
    <2>1. request'[d] = request[d] /\ Sound(request[d], made)
      BY <1>2 DEF RoutesAreSound
    <2>2. request[d].id \in Nat
      BY <1>2, <2>1, RouteFacts
    <2> QED BY <1>1, <2>1, <2>2 DEF Sound
  <1> QED BY <1>2 DEF RoutesAreSound

LEMMA RoutesAreKept ==
  ASSUME AdminTypeOK, AdminTypeOK', RoutesAreSound, NobodyYet, RoomForTheRest,
         [AdminNext]_adminVars
  PROVE  RoutesAreSound'
  <1>0. made \in Nat /\ made' \in Nat
    BY DEF AdminTypeOK
  <1>1. ASSUME NEW c \in Caller, NEW by \in Asker, NEW id, NEW name, NEW calls,
               Receive(c, by, id, name, calls),
               Orders(by, id, name, calls)
        PROVE  RoutesAreSound'
    <2> DEFINE q == request'[c]
    <2>1. /\ q.by = by /\ q.id = id /\ q.name = name /\ q.calls = calls /\ q.record = calls
          /\ made' = made
      <3>1. q = [at |-> "calls", by |-> by, id |-> id, name |-> name, calls |-> calls, record |-> calls]
        BY <1>1, RequestSteps
      <3> HIDE DEF q
      <3> QED BY <1>1, <3>1 DEF Receive
    <2>2. Len(calls) \in Nat /\ Progress(q) = 0
      <3>1. Len(calls) \in Nat
        BY <1>1 DEF Orders
      <3> QED BY <2>1, <3>1 DEF Progress
    <2>3. \A j \in 1..Len(calls) : calls[j] = calls[j + 0]
      BY <2>2
    <2>4. Sound(q, made')
      <3> HIDE DEF q
      <3>1. id <= made
        BY <1>0, <1>1 DEF Orders
      <3>2. /\ Len(q.record) >= 1 /\ Progress(q) \in Nat
            /\ \A j \in 1..Len(q.calls) : q.calls[j] = q.record[j + Progress(q)]
        BY <1>1, <2>1, <2>2, <2>3 DEF Orders
      <3>3. /\ q.id = Unknown <=> Progress(q) = 0 /\ q.record[1].what = "create"
            /\ q.id <= made'
        BY <1>1, <2>1, <2>2, <3>1 DEF Orders
      <3>4. \A j \in 1..Len(q.record) :
              /\ q.record[j].what = "create" => j = 1 /\ q.name \in Name
              /\ q.record[j].what \in {"assign", "remove"} => q.record[j].role \in ASSIGNABLE_ROLES
              /\ q.record[j].what = "assign" => q.by = "administrator"
        BY <1>1, <2>1 DEF Orders
      <3> QED BY <3>2, <3>3, <3>4 DEF Sound
    <2>5. \A d \in Caller : d # c => request'[d] = request[d]
      BY <1>1, RequestSteps
    <2>6. made <= made'
      BY <1>0, <2>1
    <2> QED BY <2>4, <2>5, <2>6, OthersStaySound
  <1>2. ASSUME NEW c \in Caller, Called(c) PROVE RoutesAreSound'
    <2> DEFINE q == request[c]
               r == request'[c]
               i == Target(q)
    <2>1. q # NoRequest /\ q.calls # <<>> /\ Sound(q, made) /\ Accepts(q) /\ Perform(q)
      BY <1>2 DEF Called, RoutesAreSound
    <2>2. /\ i \in Id /\ i \in 1..made' /\ Progress(q) + 1 \in 1..Len(q.record)
          /\ made' = made + 1 \/ made' = made
      BY <2>1, PerformFacts
    <2>3. /\ r # NoRequest /\ r.by = q.by /\ r.id = i /\ r.name = q.name /\ r.record = q.record
          /\ r.calls = Tail(q.calls) /\ Progress(r) = Progress(q) + 1
      <3>1. request'[c] = [request[c] EXCEPT !.id = i, !.calls = Tail(@)]
        BY <1>2, RequestSteps
      <3>2. Progress(q) \in Nat
        BY <2>1 DEF Sound
      <3> HIDE DEF i
      <3> QED BY <2>1, <2>2, <3>1, <3>2, MovesOn
    <2>4. /\ Len(Tail(q.calls)) = Len(q.calls) - 1 /\ Len(q.calls) \in Nat
          /\ \A j \in 1..(Len(q.calls) - 1) : Tail(q.calls)[j] = q.calls[j + 1]
      BY <2>1, RouteFacts
    <2>5. ASSUME NEW j \in 1..Len(r.calls) PROVE r.calls[j] = r.record[j + Progress(r)]
      <3>1. j \in 1..(Len(q.calls) - 1) /\ r.calls[j] = q.calls[j + 1]
        BY <2>3, <2>4
      <3>2. j + 1 \in 1..Len(q.calls) /\ Progress(q) \in Nat /\ j \in Nat
        <4> DEFINE m == Len(q.calls)
        <4>1. m \in Nat /\ j \in 1..(m - 1)
          BY <2>4, <3>1
        <4> HIDE DEF m
        <4>2. j + 1 \in 1..m /\ j \in Nat
          BY <4>1
        <4> QED BY <2>1, <4>2 DEF Sound, m
      <3>3. q.calls[j + 1] = q.record[(j + 1) + Progress(q)]
        BY <2>1, <3>2 DEF Sound
      <3>4. (j + 1) + Progress(q) = j + Progress(r)
        <4> DEFINE p == Progress(q)
        <4>1. p \in Nat /\ Progress(r) = p + 1
          BY <2>3, <3>2
        <4> HIDE DEF p, r
        <4>2. (j + 1) + p = j + (p + 1)
          BY <3>2, <4>1
        <4> QED BY <4>1, <4>2 DEF p
      <3> QED BY <2>3, <3>1, <3>3, <3>4
    <2>6. r.id # Unknown /\ Progress(r) # 0 /\ Progress(r) \in Nat /\ r.id <= made'
      <3>1. i # Unknown /\ i <= made'
        BY <1>0, <2>2 DEF Unknown
      <3>2. Progress(q) \in Nat
        BY <2>1 DEF Sound
      <3>3. Progress(q) + 1 # 0 /\ Progress(q) + 1 \in Nat
        <4> DEFINE p == Progress(q)
        <4>1. p \in Nat
          BY <3>2
        <4> HIDE DEF p
        <4>2. p + 1 # 0 /\ p + 1 \in Nat
          BY <4>1
        <4> QED BY <4>2 DEF p
      <3> QED BY <2>3, <3>1, <3>3
    <2>7. /\ Len(r.record) >= 1
          /\ \A j \in 1..Len(r.record) :
               /\ r.record[j].what = "create" => j = 1 /\ r.name \in Name
               /\ r.record[j].what \in {"assign", "remove"} => r.record[j].role \in ASSIGNABLE_ROLES
               /\ r.record[j].what = "assign" => r.by = "administrator"
      BY <2>1, <2>3 DEF Sound
    <2>8. Sound(r, made')
      <3> HIDE DEF r
      <3> QED BY <2>5, <2>6, <2>7 DEF Sound
    <2>9. made <= made'
      BY <1>0, <2>2
    <2> QED BY <1>2, <2>8, <2>9, RequestSteps, OthersStaySound
  <1>3. ASSUME NEW c \in Caller, Refused(c) \/ Fails(c) \/ Audited(c) PROVE RoutesAreSound'
    <2>1. made <= made'
      <3>1. made' = made \/ made' = made + 1
        BY <1>3, PerformFacts DEF Refused, Fails, Audited
      <3> QED BY <1>0, <3>1
    <2>2. request'[c] = NoRequest /\ \A d \in Caller : d # c => request'[d] = request[d]
      BY <1>3, RequestSteps
    <2> QED BY <2>1, <2>2, OthersStaySound
  <1>4. CASE UNCHANGED adminVars
    BY <1>4 DEF adminVars, RoutesAreSound, Sound, Progress
  <1> QED BY <1>1, <1>2, <1>3, <1>4, StepKinds

LEMMA NobodyYetIsKept ==
  ASSUME AdminTypeOK, RoutesAreSound, NobodyYet, RoomForTheRest, [AdminNext]_adminVars
  PROVE  NobodyYet'
  <1>0. made \in Nat /\ Id \subseteq Nat /\ DOMAIN trail = 1..Len(trail)
    BY DEF AdminTypeOK, Id
  <1>1. ASSUME NEW c \in Caller, Accepts(request[c]), Perform(request[c]),
               request[c] # NoRequest, request[c].calls # <<>>, trail' = trail
        PROVE  NobodyYet'
    <2> DEFINE i == Target(request[c])
    <2>1. /\ i \in Id /\ i \in 1..made' /\ (made' = made \/ made' = made + 1)
          /\ \E u : users' = [users EXCEPT ![i] = u]
      BY <1>1, PerformFacts
    <2> HIDE DEF i
    <2>2. made' \in Nat /\ made' >= made /\ i <= made'
      BY <1>0, <2>1
    <2>3. \A j \in Id : j # i => users'[j] = users[j]
      BY <2>1 DEF AdminTypeOK
    <2>4. \A j \in Id : j > made' => users'[j] = NoUser
      BY <1>0, <2>1, <2>2, <2>3 DEF NobodyYet
    <2>5. \A n \in DOMAIN trail : trail[n].id \in 1..made'
      BY <1>0, <2>2 DEF NobodyYet
    <2> QED BY <1>1, <2>4, <2>5 DEF NobodyYet
  <1>2. ASSUME NEW c \in Caller, Audited(c) PROVE NobodyYet'
    <2> DEFINE q == request[c]
               rec == [id |-> q.id, name |-> q.name, calls |-> q.record]
    <2>1. q # NoRequest /\ q.calls = <<>> /\ Sound(q, made) /\ q.record \in Seq(CallOf)
          /\ Len(q.record) \in Nat /\ q.id \in Nat
      BY <1>2, RouteFacts DEF Audited, RoutesAreSound
    <2>2. q.id # Unknown
      <3>1. Progress(q) # 0
        BY <2>1 DEF Sound, Progress
      <3> QED BY <2>1, <3>1 DEF Sound
    <2>3. q.id \in 1..made
      BY <1>0, <2>1, <2>2 DEF Sound, Unknown
    <2>4. trail' = Append(trail, rec) /\ trail \in Seq(Record) /\ UNCHANGED <<users, made>>
      BY <1>2 DEF Audited, AdminTypeOK
    <2>5. rec.id = q.id
      OBVIOUS
    <2> HIDE DEF rec, q
    <2>6. \A n \in DOMAIN trail' : trail'[n] = rec \/ (n \in DOMAIN trail /\ trail'[n] = trail[n])
      BY <2>4
    <2>7. \A n \in DOMAIN trail' : trail'[n].id \in 1..made
      BY <2>3, <2>5, <2>6 DEF NobodyYet
    <2> QED BY <2>4, <2>7 DEF NobodyYet
  <1>3. CASE UNCHANGED <<users, made, trail>>
    BY <1>3 DEF NobodyYet
  <1> QED BY <1>1, <1>2, <1>3, StepKinds DEF Receive, Called, Refused, Fails, adminVars

LEMMA RoomIsKept ==
  ASSUME AdminTypeOK, AdminTypeOK', RoutesAreSound, NobodyYet, RoomForTheRest,
         [AdminNext]_adminVars
  PROVE  RoomForTheRest'
  <1>0. /\ made \in Nat /\ made' \in Nat /\ MaxUsers \in Nat
        /\ IsFiniteSet(Creating) /\ Cardinality(Creating) \in Nat
        /\ IsFiniteSet(Creating') /\ Cardinality(Creating') \in Nat
    <2>1. Creating \subseteq Caller /\ Creating' \subseteq Caller
      BY DEF Creating
    <2>2. IsFiniteSet(Creating) /\ IsFiniteSet(Creating')
      BY <2>1, AdminAssumption, FS_Subset
    <2>3. Cardinality(Creating) \in Nat /\ Cardinality(Creating') \in Nat
      BY <2>2, FS_CardinalityType
    <2>4. made \in Nat /\ made' \in Nat /\ MaxUsers \in Nat
      BY AdminAssumption DEF AdminTypeOK
    <2> QED BY <2>2, <2>3, <2>4
  <1>1. ASSUME made' = made, Creating' \subseteq Creating PROVE RoomForTheRest'
    <2>1. Cardinality(Creating') <= Cardinality(Creating)
      BY <1>0, <1>1, FS_Subset
    <2> QED BY <1>0, <1>1, <2>1 DEF RoomForTheRest
  <1>2. ASSUME NEW c \in Caller, Creating' = Creating \ {c}, c \in Creating, made' = made + 1
        PROVE  RoomForTheRest'
    <2>1. Cardinality(Creating') = Cardinality(Creating) - 1
      BY <1>0, <1>2, FS_RemoveElement
    <2> QED BY <1>0, <1>2, <2>1 DEF RoomForTheRest
  <1>3. ASSUME NEW c \in Caller, NEW by \in Asker, NEW id, NEW name, NEW calls,
               Receive(c, by, id, name, calls),
               Orders(by, id, name, calls)
        PROVE  RoomForTheRest'
    <2>1. /\ made' = made /\ request'[c].id = id /\ request'[c] # NoRequest
          /\ \A d \in Caller : d # c => request'[d] = request[d]
          /\ request[c] = NoRequest
      <3>1. /\ request'[c] = [at |-> "calls", by |-> by, id |-> id, name |-> name, calls |-> calls,
                              record |-> calls]
            /\ request'[c] # NoRequest
            /\ \A d \in Caller : d # c => request'[d] = request[d]
        BY <1>3, RequestSteps
      <3> QED BY <1>3, <3>1 DEF Receive
    <2>2. CASE id # Unknown
      <3>1. Creating' \subseteq Creating
        BY <2>1, <2>2 DEF Creating
      <3> QED BY <1>1, <2>1, <3>1
    <2>3. CASE id = Unknown
      <3>1. Creating' = Creating \cup {c} /\ c \notin Creating
        BY <2>1, <2>3 DEF Creating
      <3>2. Cardinality(Creating') = Cardinality(Creating) + 1
        BY <1>0, <3>1, FS_AddElement
      <3>3. made + Cardinality(Creating) < MaxUsers
        BY <1>3, <2>3 DEF Orders, RoomForAnother, Creating
      <3> QED BY <1>0, <2>1, <3>2, <3>3 DEF RoomForTheRest
    <2> QED BY <2>2, <2>3
  <1>4. ASSUME NEW c \in Caller, Accepts(request[c]), Perform(request[c]),
               request[c] # NoRequest, request[c].calls # <<>>,
               \A d \in Caller : d # c => request'[d] = request[d],
               request'[c] = NoRequest \/ request'[c].id # Unknown
        PROVE  RoomForTheRest'
    <2>1. \/ made' = made + 1 /\ request[c].id = Unknown
          \/ made' = made /\ request[c].id # Unknown
      <3>1. Target(request[c]) \in Id => Target(request[c]) # Unknown
        BY DEF Id, Unknown
      <3> QED BY <1>4, <3>1, PerformFacts
    <2>2. Creating' = Creating \ {c} /\ (request[c].id = Unknown => c \in Creating)
      BY <1>4 DEF Creating
    <2> QED BY <1>1, <1>2, <2>1, <2>2
  <1>5. ASSUME NEW c \in Caller, Called(c) PROVE RoomForTheRest'
    <2>1. /\ Accepts(request[c]) /\ Perform(request[c]) /\ request[c] # NoRequest
          /\ request[c].calls # <<>>
      BY <1>5 DEF Called
    <2>2. Target(request[c]) \in Id /\ Target(request[c]) # Unknown
      BY <2>1, PerformFacts DEF Id, Unknown
    <2>3. request'[c].id # Unknown
      BY <1>5, <2>1, <2>2, MovesOn, RequestSteps DEF RoutesAreSound, Sound
    <2> QED BY <1>4, <1>5, <2>1, <2>3, RequestSteps
  <1>6. ASSUME NEW c \in Caller, Refused(c) \/ Fails(c) \/ Audited(c) PROVE RoomForTheRest'
    <2>1. request'[c] = NoRequest /\ \A d \in Caller : d # c => request'[d] = request[d]
      BY <1>6, RequestSteps
    <2>2. CASE made' = made
      <3>1. Creating' \subseteq Creating
        BY <2>1 DEF Creating
      <3> QED BY <1>1, <2>2, <3>1
    <2>3. CASE made' # made
      BY <1>4, <1>6, <2>1, <2>3 DEF Refused, Fails, Audited
    <2> QED BY <2>2, <2>3
  <1>7. CASE UNCHANGED adminVars
    <2>1. made' = made /\ Creating' \subseteq Creating
      BY <1>7 DEF adminVars, Creating
    <2> QED BY <1>1, <2>1
  <1> QED BY <1>3, <1>5, <1>6, <1>7, StepKinds

LEMMA OneAtATimeIsKept ==
  ASSUME AdminTypeOK, RoutesAreSound, NobodyYet, RoomForTheRest, OneAtATime,
         [AdminNext]_adminVars
  PROVE  OneAtATime'
  <1>0. made \in Nat
    BY DEF AdminTypeOK
  <1>d. disturbed \subseteq disturbed'
    BY StepKinds DEF Receive, Called, Refused, Fails, Audited, adminVars
  \* Only one request changes.
  <1>1. ASSUME NEW c \in Caller, \A d \in Caller : d # c => request'[d] = request[d],
               \A d \in Caller :
                 /\ d # c /\ request'[c] # NoRequest /\ request[d] # NoRequest
                 /\ request'[c].id = request[d].id /\ request'[c].id # Unknown
                 => request'[c].id \in disturbed'
        PROVE  OneAtATime'
    <2>1. ASSUME NEW a \in Caller, NEW b \in Caller, a # b, request'[a] # NoRequest,
                 request'[b] # NoRequest, request'[a].id = request'[b].id,
                 request'[a].id # Unknown
          PROVE  request'[a].id \in disturbed'
      <3>1. CASE a = c
        BY <1>1, <2>1, <3>1
      <3>2. CASE b = c
        BY <1>1, <2>1, <3>2
      <3>3. CASE a # c /\ b # c
        BY <1>1, <1>d, <2>1, <3>3 DEF OneAtATime
      <3> QED BY <3>1, <3>2, <3>3
    <2> QED BY <2>1 DEF OneAtATime
  <1>2. ASSUME NEW c \in Caller, NEW by \in Asker, NEW id, NEW name, NEW calls,
               Receive(c, by, id, name, calls)
        PROVE  OneAtATime'
    <2>1. /\ request'[c] = [at |-> "calls", by |-> by, id |-> id, name |-> name, calls |-> calls,
                            record |-> calls]
          /\ \A d \in Caller : d # c => request'[d] = request[d]
      BY <1>2, RequestSteps
    <2>2. request'[c].id = id
      BY <2>1
    <2>3. ASSUME NEW d \in Caller, request[d] # NoRequest, request[d].id = id, id # Unknown
          PROVE  id \in disturbed'
      BY <1>2, <2>3 DEF Receive, Busy
    <2> QED BY <1>1, <2>1, <2>2, <2>3
  <1>3. ASSUME NEW c \in Caller, Called(c) PROVE OneAtATime'
    <2> DEFINE q == request[c]
               i == Target(q)
    <2>1. q # NoRequest /\ q.calls # <<>> /\ Accepts(q) /\ Perform(q) /\ Progress(q) \in Nat
      BY <1>3 DEF Called, RoutesAreSound, Sound
    <2>2. i \in Id /\ (i = made + 1 \/ i = q.id)
      BY <2>1, PerformFacts
    <2>3. request'[c].id = i /\ \A d \in Caller : d # c => request'[d] = request[d]
      BY <1>3, <2>1, <2>2, MovesOn, RequestSteps
    <2>4. ASSUME NEW d \in Caller, d # c, request[d] # NoRequest, request[d].id = i, i # Unknown
          PROVE  i \in disturbed'
      <3>1. request[d].id <= made
        BY <2>4 DEF RoutesAreSound, Sound
      <3>2. i = q.id
        <4> HIDE DEF i
        <4> QED BY <1>0, <2>2, <2>4, <3>1
      <3> QED BY <1>d, <2>1, <2>4, <3>2 DEF OneAtATime
    <2> HIDE DEF i
    <2> QED BY <1>1, <2>3, <2>4
  <1>4. ASSUME NEW c \in Caller, Refused(c) \/ Fails(c) \/ Audited(c) PROVE OneAtATime'
    BY <1>1, <1>4, RequestSteps
  <1>5. CASE UNCHANGED adminVars
    BY <1>5 DEF adminVars, OneAtATime
  <1> QED BY <1>2, <1>3, <1>4, <1>5, StepKinds

\* What a request in hand stands for, given what the records make of its account.
Due(q, u) == Stages(u, q.record, q.name)[Progress(q)]

LEMMA RebuiltSaid ==
  ASSUME AdminTypeOK, NEW i
  PROVE  Rebuilt(i) \in Said
  <1>1. trail \in Seq(Record) /\ Len(trail) \in 0..Len(trail)
    BY DEF AdminTypeOK
  <1>2. Versions(trail, i) \in [0..Len(trail) -> Said]
    BY <1>1, VersionsFacts
  <1> QED BY <1>1, <1>2 DEF Rebuilt

(* Before its first call a route has made nothing of the account, and each *)
(* call makes of it what it does.                                          *)
LEMMA DueAtFirst ==
  ASSUME NEW q \in RouteOf, Progress(q) = 0, NEW u \in Said
  PROVE  Due(q, u) = u
  BY StagesFacts DEF Due, RouteOf

LEMMA DueNext ==
  ASSUME NEW q \in RouteOf, NEW r \in RouteOf, NEW u \in Said, r.record = q.record,
         r.name = q.name, Progress(q) \in Nat, Progress(r) = Progress(q) + 1,
         Progress(q) + 1 \in 1..Len(q.record)
  PROVE  Due(r, u) = After(Due(q, u), q.record[Progress(q) + 1], q.name)
  <1>1. q.record \in Seq(CallOf) /\ q.name \in Name \cup {NoRole}
    BY DEF RouteOf
  <1> DEFINE f == Stages(u, q.record, q.name)
             k == Progress(q) + 1
  <1>2. \A j \in 1..Len(q.record) : f[j] = After(f[j - 1], q.record[j], q.name)
    BY <1>1, StagesFacts
  <1>3. k - 1 = Progress(q)
    <2> DEFINE p == Progress(q)
    <2>1. p \in Nat
      OBVIOUS
    <2> HIDE DEF p
    <2>2. (p + 1) - 1 = p
      BY <2>1
    <2> QED BY <2>2 DEF p
  <1>4. f[k] = After(f[k - 1], q.record[k], q.name)
    BY <1>2
  <1> QED BY <1>3, <1>4 DEF Due

LEMMA NoOthers ==
  ASSUME OneAtATime, NEW c \in Caller, request[c] # NoRequest, request[c].id # Unknown,
         request[c].id \notin disturbed, NEW d \in Caller, d # c, request[d] # NoRequest
  PROVE  request[d].id # request[c].id
  BY DEF OneAtATime

LEMMA TrailIsKept ==
  ASSUME AdminInv, AdminTypeOK', OneAtATime', [AdminNext]_adminVars
  PROVE  InStep' /\ TrailRebuildsUsers'
  <1>0. /\ AdminTypeOK /\ RoutesAreSound /\ NobodyYet /\ RoomForTheRest /\ OneAtATime
        /\ InStep /\ TrailRebuildsUsers
        /\ made \in Nat /\ trail \in Seq(Record) /\ Id \subseteq Nat /\ Unknown \notin Id
    BY DEF AdminInv, AdminTypeOK, Id, Unknown
  <1>s. ASSUME NEW c \in Caller, request[c] # NoRequest, request[c].id \in Id \ disturbed
        PROVE  users[request[c].id] = Due(request[c], Rebuilt(request[c].id))
    BY <1>0, <1>s DEF InStep, Due
  <1>t. ASSUME NEW i \in Id \ disturbed, ~Busy(i) PROVE users[i] = Rebuilt(i)
    BY <1>0, <1>t DEF TrailRebuildsUsers, Rebuilt
  <1>d. disturbed \subseteq disturbed'
    BY <1>0, StepKinds DEF Receive, Called, Refused, Fails, Audited, adminVars
  \* It is enough to look at each account by itself.
  <1>g. ASSUME \A i \in Id \ disturbed' :
                 /\ \A d \in Caller : request'[d] # NoRequest /\ request'[d].id = i =>
                      users'[i] = Due(request'[d], Rebuilt(i)')
                 /\ ~(\E d \in Caller : request'[d] # NoRequest /\ request'[d].id = i) =>
                      users'[i] = Rebuilt(i)'
        PROVE  InStep' /\ TrailRebuildsUsers'
    BY <1>g DEF InStep, TrailRebuildsUsers, Due, Rebuilt, Busy, Progress
  <1>u. ASSUME NEW i \in Id, UNCHANGED trail PROVE Rebuilt(i)' = Rebuilt(i)
    BY <1>u DEF Rebuilt
  <1> HIDE DEF AdminInv
  <1>1. ASSUME NEW c \in Caller, NEW by \in Asker, NEW id, NEW name, NEW calls,
               Receive(c, by, id, name, calls),
               Orders(by, id, name, calls)
        PROVE  InStep' /\ TrailRebuildsUsers'
    <2> DEFINE r == request'[c]
    <2>1. /\ r = [at |-> "calls", by |-> by, id |-> id, name |-> name, calls |-> calls, record |-> calls]
          /\ r # NoRequest
          /\ \A d \in Caller : d # c => request'[d] = request[d]
      BY <1>0, <1>1, RequestSteps
    <2>2. UNCHANGED <<users, trail>> /\ request[c] = NoRequest
      BY <1>1 DEF Receive
    <2>3. r \in RouteOf /\ r.id = id /\ Progress(r) = 0
      <3>1. calls \in Seq(CallOf) /\ Len(calls) \in Nat
        BY <1>1 DEF Orders
      <3>2. r.id = id /\ r.calls = calls /\ r.record = calls
        <4> HIDE DEF r
        <4> QED BY <2>1
      <3>3. r \in RouteOf
        BY <2>1 DEF AdminTypeOK
      <3> HIDE DEF r
      <3> QED BY <3>1, <3>2, <3>3 DEF Progress
    <2>4. ASSUME NEW i \in Id \ disturbed'
          PROVE  /\ \A d \in Caller : request'[d] # NoRequest /\ request'[d].id = i =>
                      users'[i] = Due(request'[d], Rebuilt(i)')
                 /\ ~(\E d \in Caller : request'[d] # NoRequest /\ request'[d].id = i) =>
                      users'[i] = Rebuilt(i)'
      <3>1. i \in Id \ disturbed /\ Rebuilt(i)' = Rebuilt(i) /\ Rebuilt(i) \in Said
        BY <1>0, <1>d, <1>u, <2>2, <2>4, RebuiltSaid
      <3>2. CASE i = id
        <4>1. ~Busy(i)
          BY <1>0, <1>1, <2>4, <3>2 DEF Receive
        <4>2. users'[i] = Rebuilt(i)
          BY <1>t, <2>2, <3>1, <4>1
        <4>3. \A d \in Caller : request'[d] # NoRequest /\ request'[d].id = i => d = c
          BY <2>1, <4>1 DEF Busy
        <4>4. Due(r, Rebuilt(i)) = Rebuilt(i)
          <5> HIDE DEF r
          <5> QED BY <2>3, <3>1, DueAtFirst
        <4> QED BY <3>1, <4>2, <4>3, <4>4
      <3>3. CASE i # id
        <4>1. \A d \in Caller : request'[d] # NoRequest /\ request'[d].id = i =>
                d # c /\ request[d] = request'[d]
          BY <2>1, <2>3, <3>3
        <4>2. ~(\E d \in Caller : request'[d] # NoRequest /\ request'[d].id = i) => ~Busy(i)
          BY <2>1, <2>2 DEF Busy
        <4> QED BY <1>s, <1>t, <2>2, <3>1, <4>1, <4>2
      <3> QED BY <3>2, <3>3
    <2> QED BY <1>g, <2>4
  <1>2. ASSUME NEW c \in Caller, Called(c) PROVE InStep' /\ TrailRebuildsUsers'
    <2> DEFINE q == request[c]
               r == request'[c]
               t == Target(q)
               k == Progress(q) + 1
    <2>1. /\ q # NoRequest /\ q.calls # <<>> /\ Accepts(q) /\ Perform(q) /\ Progress(q) \in Nat
          /\ UNCHANGED <<trail, disturbed>>
      BY <1>0, <1>2 DEF Called, RoutesAreSound, Sound
    <2>2. /\ k \in 1..Len(q.record) /\ t \in Id
          /\ users' = [users EXCEPT ![t] = After(users[t], q.record[k], q.name)]
          /\ \/ q.id = Unknown /\ t = made + 1 /\ users[t] = NoUser /\ k = 1
             \/ q.id = t
      BY <1>0, <2>1, PerformFacts
    <2>3. /\ r \in RouteOf /\ r # NoRequest /\ r.id = t /\ r.name = q.name
          /\ r.record = q.record /\ Progress(r) = k
      BY <1>0, <1>2, <2>1, <2>2, MovesOn, RequestSteps
    <2>4. \A d \in Caller : d # c => request'[d] = request[d]
      BY <1>0, <1>2, RequestSteps
    <2>5. q \in RouteOf
      BY <1>0, <2>1, RouteFacts
    <2>6. t \notin disturbed => users[t] = Due(q, Rebuilt(t))
      <3>1. CASE q.id = t
        BY <1>s, <2>1, <2>2, <3>1
      <3>2. CASE q.id = Unknown /\ t = made + 1 /\ users[t] = NoUser /\ k = 1
        <4>1. Rebuilt(t) = NoUser
          <5>1. \A n \in DOMAIN trail : trail[n].id \in 1..made
            BY <1>0 DEF NobodyYet
          <5>2. \A n \in DOMAIN trail : trail[n].id # t
            <6> HIDE DEF t
            <6> QED BY <1>0, <3>2, <5>1
          <5> HIDE DEF t
          <5> QED BY <1>0, <5>2, NoRecordNoAccount DEF Rebuilt
        <4>2. Progress(q) = 0
          <5> DEFINE p == Progress(q)
          <5>1. p \in Nat /\ p + 1 = 1
            BY <2>1, <3>2
          <5> HIDE DEF p
          <5>2. p = 0
            BY <5>1
          <5> QED BY <5>2 DEF p
        <4>3. NoUser \in Said
          BY DEF Said
        <4>4. Due(q, NoUser) = NoUser
          <5> HIDE DEF q
          <5> QED BY <2>5, <4>2, <4>3, DueAtFirst
        <4> QED BY <3>2, <4>1, <4>4
      <3> QED BY <2>2, <3>1, <3>2
    <2>7. ASSUME NEW i \in Id \ disturbed'
          PROVE  /\ \A d \in Caller : request'[d] # NoRequest /\ request'[d].id = i =>
                      users'[i] = Due(request'[d], Rebuilt(i)')
                 /\ ~(\E d \in Caller : request'[d] # NoRequest /\ request'[d].id = i) =>
                      users'[i] = Rebuilt(i)'
      <3>1. i \in Id \ disturbed /\ Rebuilt(i)' = Rebuilt(i) /\ Rebuilt(i) \in Said
        BY <1>0, <1>u, <2>1, <2>7, RebuiltSaid
      <3>2. CASE i = t
        <4>1. users'[i] = After(Due(q, Rebuilt(i)), q.record[k], q.name)
          BY <1>0, <2>2, <2>6, <3>1, <3>2 DEF AdminTypeOK
        <4>2. Due(r, Rebuilt(i)) = After(Due(q, Rebuilt(i)), q.record[k], q.name)
          <5> HIDE DEF q, r
          <5> QED BY <2>1, <2>2, <2>3, <2>5, <3>1, DueNext
        <4>3. ASSUME NEW d \in Caller, request'[d] # NoRequest, request'[d].id = i PROVE d = c
          BY <1>0, <2>3, <2>7, <3>2, <4>3 DEF OneAtATime
        <4> QED BY <2>3, <3>1, <3>2, <4>1, <4>2, <4>3
      <3>3. CASE i # t
        <4>1. users'[i] = users[i]
          BY <1>0, <2>2, <3>1, <3>3 DEF AdminTypeOK
        <4>2. \A d \in Caller : request'[d] # NoRequest /\ request'[d].id = i =>
                d # c /\ request[d] = request'[d]
          BY <2>3, <2>4, <3>3
        <4>3. ~(\E d \in Caller : request'[d] # NoRequest /\ request'[d].id = i) => ~Busy(i)
          BY <1>0, <2>2, <2>3, <2>4, <3>1, <3>3 DEF Busy
        <4> QED BY <1>s, <1>t, <3>1, <4>1, <4>2, <4>3
      <3> QED BY <3>2, <3>3
    <2> QED BY <1>g, <2>7
  <1>3. ASSUME NEW c \in Caller, Refused(c) \/ Fails(c) PROVE InStep' /\ TrailRebuildsUsers'
    <2> DEFINE q == request[c]
    <2>1. /\ q # NoRequest /\ q.calls # <<>> /\ trail' = trail
          /\ request'[c] = NoRequest /\ \A d \in Caller : d # c => request'[d] = request[d]
      BY <1>0, <1>3, RequestSteps DEF Refused, Fails
    <2>2. q \in RouteOf /\ Sound(q, made) /\ Len(q.record) \in Nat
      BY <1>0, <2>1, RouteFacts DEF RoutesAreSound
    <2>3. ASSUME NEW i \in Id \ disturbed'
          PROVE  /\ users'[i] = users[i]
                 /\ q.id = i => q.calls = q.record
      <3>1. CASE Refused(c)
        BY <2>3, <3>1 DEF Refused
      <3>2. CASE Fails(c)
        <4>1. q.id # i
          BY <1>0, <2>3, <3>2 DEF Fails
        <4>2. CASE users' = users
          BY <4>1, <4>2
        <4>3. CASE Accepts(q) /\ Perform(q)
          <5>1. /\ users' = [users EXCEPT ![Target(q)] = After(users[Target(q)], Head(q.calls), q.name)]
                /\ Target(q) \in Id
                /\ \/ q.id = Target(q)
                   \/ Target(q) = made + 1 /\ made' = made + 1
            BY <1>0, <2>1, <4>3, PerformFacts
          <5>2. Target(q) # i
            <6>1. CASE q.id = Target(q)
              BY <4>1, <6>1
            <6>2. CASE Target(q) = made + 1 /\ made' = made + 1
              <7>1. made + 1 \in (1..made') \ (1..made)
                BY <1>0, <6>2
              <7> QED BY <2>3, <3>2, <6>2, <7>1 DEF Fails
            <6> QED BY <5>1, <6>1, <6>2
          <5> QED BY <1>0, <2>3, <4>1, <5>1, <5>2 DEF AdminTypeOK
        <4> QED BY <3>2, <4>2, <4>3 DEF Fails
      <3> QED BY <1>3, <3>1, <3>2
    <2>4. ASSUME NEW i \in Id \ disturbed'
          PROVE  /\ \A d \in Caller : request'[d] # NoRequest /\ request'[d].id = i =>
                      users'[i] = Due(request'[d], Rebuilt(i)')
                 /\ ~(\E d \in Caller : request'[d] # NoRequest /\ request'[d].id = i) =>
                      users'[i] = Rebuilt(i)'
      <3>1. i \in Id \ disturbed /\ Rebuilt(i)' = Rebuilt(i) /\ Rebuilt(i) \in Said
        BY <1>0, <1>d, <1>u, <2>1, <2>4, RebuiltSaid
      <3>2. \A d \in Caller : request'[d] # NoRequest /\ request'[d].id = i =>
              d # c /\ request[d] = request'[d]
        BY <2>1
      <3>3. CASE q.id = i
        <4>1. Progress(q) = 0
          <5>1. q.calls = q.record
            BY <2>3, <3>3
          <5> QED BY <2>2, <5>1 DEF Progress
        <4>2. users[i] = Rebuilt(i)
          <5>1. users[i] = Due(q, Rebuilt(i))
            BY <1>s, <2>1, <3>1, <3>3
          <5>2. Due(q, Rebuilt(i)) = Rebuilt(i)
            <6> HIDE DEF q
            <6> QED BY <2>2, <3>1, <4>1, DueAtFirst
          <5> QED BY <5>1, <5>2
        <4> QED BY <1>s, <2>3, <3>1, <3>2, <4>2
      <3>4. CASE q.id # i
        <4>1. ~(\E d \in Caller : request'[d] # NoRequest /\ request'[d].id = i) => ~Busy(i)
          BY <2>1, <3>4 DEF Busy
        <4> QED BY <1>s, <1>t, <2>3, <3>1, <3>2, <4>1
      <3> QED BY <3>3, <3>4
    <2> QED BY <1>g, <2>4
  <1>4. ASSUME NEW c \in Caller, Audited(c) PROVE InStep' /\ TrailRebuildsUsers'
    <2> DEFINE q == request[c]
               rec == [id |-> q.id, name |-> q.name, calls |-> q.record]
    <2>1. /\ q # NoRequest /\ q.calls = <<>> /\ trail' = Append(trail, rec)
          /\ UNCHANGED <<users, disturbed>>
          /\ request'[c] = NoRequest /\ \A d \in Caller : d # c => request'[d] = request[d]
      BY <1>0, <1>4, RequestSteps DEF Audited
    <2>2. q \in RouteOf /\ Len(q.record) \in Nat
      BY <1>0, <2>1, RouteFacts
    <2>3. rec \in Record /\ rec.id = q.id /\ rec.name = q.name /\ rec.calls = q.record
      <3>1. q.id \in Id \cup {Unknown} /\ q.name \in Name \cup {NoRole} /\ q.record \in Seq(CallOf)
        BY <1>0, <2>1, RouteFacts
      <3> HIDE DEF q
      <3> QED BY <3>1 DEF Record
    <2>4. Progress(q) = Len(q.record)
      BY <2>1, <2>2 DEF Progress
    <2>5. ASSUME NEW i PROVE Rebuilt(i)' = IF q.id = i THEN Due(q, Rebuilt(i)) ELSE Rebuilt(i)
      <3>1. Rebuilt(i)' = Told(Rebuilt(i), rec, i)
        <4> HIDE DEF rec
        <4>1. Rebuilt(i)' = Versions(Append(trail, rec), i)[Len(Append(trail, rec))]
          BY <2>1 DEF Rebuilt
        <4> QED BY <1>0, <2>3, <4>1, OneRecordMore DEF Rebuilt
      <3> HIDE DEF q, rec
      <3> QED BY <2>3, <2>4, <3>1 DEF Told, Due
    <2>6. ASSUME NEW i \in Id \ disturbed'
          PROVE  /\ \A d \in Caller : request'[d] # NoRequest /\ request'[d].id = i =>
                      users'[i] = Due(request'[d], Rebuilt(i)')
                 /\ ~(\E d \in Caller : request'[d] # NoRequest /\ request'[d].id = i) =>
                      users'[i] = Rebuilt(i)'
      <3>1. i \in Id \ disturbed
        BY <2>1, <2>6
      <3>2. \A d \in Caller : request'[d] # NoRequest /\ request'[d].id = i =>
              d # c /\ request[d] = request'[d]
        BY <2>1
      <3>3. CASE q.id = i
        <4>1. users'[i] = Rebuilt(i)'
          BY <1>s, <2>1, <2>5, <3>1, <3>3
        <4>2. ~(\E d \in Caller : request'[d] # NoRequest /\ request'[d].id = i)
          BY <1>0, <2>1, <3>1, <3>2, <3>3 DEF OneAtATime
        <4> QED BY <4>1, <4>2
      <3>4. CASE q.id # i
        <4>1. ~(\E d \in Caller : request'[d] # NoRequest /\ request'[d].id = i) => ~Busy(i)
          BY <2>1, <3>4 DEF Busy
        <4>2. Rebuilt(i)' = Rebuilt(i)
          BY <2>5, <3>4
        <4> QED BY <1>s, <1>t, <2>1, <3>1, <3>2, <4>1, <4>2
      <3> QED BY <3>3, <3>4
    <2> QED BY <1>g, <2>6
  <1>5. CASE UNCHANGED adminVars
    BY <1>0, <1>5 DEF adminVars, InStep, TrailRebuildsUsers, Rebuilt, Busy
  <1> QED BY <1>0, <1>1, <1>2, <1>3, <1>4, <1>5, StepKinds

(* A role comes with the call of an administrator's route that assigns it. *)
LEMMA RolesAreKept ==
  ASSUME AdminInv, AdminTypeOK', [AdminNext]_adminVars
  PROVE  RolesComeFromAdministrators'
  <1>0. AdminTypeOK /\ RoutesAreSound /\ NobodyYet /\ RoomForTheRest /\ RolesComeFromAdministrators
    BY DEF AdminInv
  <1>1. CASE users' = users /\ granted' = granted
    BY <1>0, <1>1 DEF RolesComeFromAdministrators, There
  <1>2. ASSUME NEW c \in Caller, request[c] # NoRequest, request[c].calls # <<>>,
               Accepts(request[c]), Perform(request[c])
        PROVE  RolesComeFromAdministrators'
    <2> DEFINE q == request[c]
               i == Target(q)
               k == Progress(q) + 1
               act == q.record[k]
    <2>1. /\ k \in 1..Len(q.record) /\ Head(q.calls) = act /\ i \in Id
          /\ users' = [users EXCEPT ![i] = After(users[i], act, q.name)]
          /\ \/ act.what = "create"
             \/ act.what # "create" /\ users[i] \in User /\ users[i].there
      BY <1>0, <1>2, PerformFacts
    <2>2. q.record \in Seq(CallOf) /\ Sound(q, made)
      BY <1>0, <1>2, RouteFacts DEF RoutesAreSound
    <2>3. act \in CallOf /\ (act.what = "assign" => q.by = "administrator")
      BY <2>1, <2>2 DEF Sound
    <2>4. granted' = granted \cup Grants(q)
      BY <1>2 DEF Perform
    <2>5. ASSUME act.what = "assign" PROVE <<i, act.role>> \in granted'
      <3>1. act.role \in Role /\ act = Do("assign", act.role)
        <4> HIDE DEF act
        <4> QED BY <2>3, <2>5 DEF CallOf, Do
      <3>2. <<i, act.role>> \in Grants(q)
        BY <2>1, <2>3, <2>5, <3>1 DEF Grants
      <3> QED BY <2>4, <3>2
    <2>6. ASSUME NEW j \in Id, j # i, users'[j].there, NEW r \in users'[j].roles
          PROVE  <<j, r>> \in granted'
      <3>1. users'[j] = users[j]
        BY <1>0, <2>1, <2>6 DEF AdminTypeOK
      <3> QED BY <1>0, <2>4, <2>6, <3>1 DEF RolesComeFromAdministrators, There
    <2>7. users'[i] = After(users[i], act, q.name)
      BY <1>0, <2>1 DEF AdminTypeOK
    <2>8. ASSUME users'[i].there, NEW r \in users'[i].roles
          PROVE  <<i, r>> \in granted'
      <3> HIDE DEF act, i, q
      <3>1. CASE act.what = "create"
        BY <2>7, <2>8, <3>1 DEF After
      <3>2. CASE act.what = "assign"
        <4>1. r \in users[i].roles \/ r = act.role
          BY <2>1, <2>7, <2>8, <3>2 DEF After, User
        <4> QED BY <1>0, <2>1, <2>4, <2>5, <3>2, <4>1 DEF RolesComeFromAdministrators, There
      <3>3. CASE act.what = "delete"
        BY <2>7, <2>8, <3>3 DEF After, NoUser
      <3>4. CASE act.what \in {"remove", "enable", "disable", "reset"}
        <4> DEFINE u == users[i]
                   n == q.name
        <4>1. u \in User /\ users'[i] = After(u, act, n)
          BY <2>1, <2>7, <3>4
        <4> HIDE DEF u, n
        <4>2. act.what = "remove" => After(u, act, n).roles \subseteq u.roles
          BY <4>1 DEF After, User
        <4>3. act.what = "enable" => After(u, act, n).roles \subseteq u.roles
          BY <4>1 DEF After, User
        <4>4. act.what = "disable" => After(u, act, n).roles \subseteq u.roles
          BY <4>1 DEF After, User
        <4>5. act.what = "reset" => After(u, act, n).roles \subseteq u.roles
          BY <4>1 DEF After, User
        <4>6. r \in users[i].roles
          <5>1. r \in u.roles
            BY <2>8, <3>4, <4>1, <4>2, <4>3, <4>4, <4>5
          <5> QED BY <5>1 DEF u
        <4> QED BY <1>0, <2>1, <2>4, <3>4, <4>6 DEF RolesComeFromAdministrators, There
      <3> QED BY <2>3, <3>1, <3>2, <3>3, <3>4 DEF CallOf
    <2>9. ASSUME NEW j \in Id, users'[j].there, NEW r \in users'[j].roles
          PROVE  <<j, r>> \in granted'
      <3> HIDE DEF i
      <3> QED BY <2>6, <2>8, <2>9
    <2> QED BY <2>9 DEF RolesComeFromAdministrators, There
  <1> QED
    BY <1>0, <1>1, <1>2, StepKinds DEF Receive, Called, Refused, Fails, Audited, adminVars

-----------------------------------------------------------------------------
(* The invariant, and what it is for.                                      *)

LEMMA AdminInvAtStart == AdminInit => AdminInv
  <1> SUFFICES ASSUME AdminInit PROVE AdminInv
    OBVIOUS
  <1>1. AdminTypeOK
    BY AdminAssumption DEF AdminInit, AdminTypeOK, Id
  <1>2. \A c \in Caller : request[c] = NoRequest
    BY DEF AdminInit
  <1>3. RoutesAreSound /\ OneAtATime /\ InStep
    BY <1>2 DEF RoutesAreSound, OneAtATime, InStep
  <1>4. trail = <<>> /\ made = 0 /\ \A i \in Id : users[i] = NoUser
    BY DEF AdminInit
  <1>5. NobodyYet
    BY <1>4 DEF NobodyYet
  <1>6. RoomForTheRest
    <2>1. Creating = {}
      BY <1>2 DEF Creating
    <2> QED BY <1>4, <2>1, AdminAssumption, FS_EmptySet DEF RoomForTheRest
  <1>7. TrailRebuildsUsers
    <2>1. trail \in Seq(Record) /\ DOMAIN trail = {}
      BY <1>1, <1>4 DEF AdminTypeOK
    <2>2. ASSUME NEW i \in Id PROVE Versions(trail, i)[Len(trail)] = NoUser
      BY <2>1, NoRecordNoAccount
    <2> QED BY <1>4, <2>2 DEF TrailRebuildsUsers
  <1>8. RolesComeFromAdministrators
    BY <1>4 DEF RolesComeFromAdministrators, There, NoUser
  <1> QED BY <1>1, <1>3, <1>5, <1>6, <1>7, <1>8 DEF AdminInv

LEMMA AdminInvIsKept == AdminInv /\ [AdminNext]_adminVars => AdminInv'
  <1> SUFFICES ASSUME AdminInv, [AdminNext]_adminVars PROVE AdminInv'
    OBVIOUS
  <1>0. /\ AdminTypeOK /\ RoutesAreSound /\ NobodyYet /\ RoomForTheRest /\ OneAtATime
    BY DEF AdminInv
  <1>1. AdminTypeOK'
    BY <1>0, AdminTypesAreKept
  <1>2. RoutesAreSound' /\ NobodyYet' /\ RoomForTheRest' /\ OneAtATime'
    BY <1>0, <1>1, RoutesAreKept, NobodyYetIsKept, RoomIsKept, OneAtATimeIsKept
  <1>3. InStep' /\ TrailRebuildsUsers'
    BY <1>1, <1>2, TrailIsKept
  <1>4. RolesComeFromAdministrators'
    BY <1>1, RolesAreKept
  <1> QED BY <1>1, <1>2, <1>3, <1>4 DEF AdminInv

LEMMA AdminInvHolds == AdminSpec => []AdminInv
  BY AdminInvAtStart, AdminInvIsKept, PTL DEF AdminSpec

\* The accounts as Accounts sees them.
Shown(u) == IF u.there THEN [there |-> TRUE, roles |-> u.roles, enabled |-> u.enabled] ELSE NoUser
Accounted == [i \in Id |-> IF users[i].there
                           THEN [there |-> TRUE, roles |-> users[i].roles,
                                 enabled |-> users[i].enabled]
                           ELSE NoUser]

(* A call Keycloak accepts is one change of one account, or none.          *)
LEMMA PerformIsAChange ==
  ASSUME AdminInv, NEW c \in Caller, request[c] # NoRequest, request[c].calls # <<>>,
         Accepts(request[c]), Perform(request[c])
  PROVE  (\E i \in Id : Directory!Change(i)) \/ Accounted' = Accounted
  <1>0. AdminTypeOK /\ RoutesAreSound /\ NobodyYet /\ RoomForTheRest
    BY DEF AdminInv
  <1>1. PICK i \in Id, act \in CallOf, n \in Name \cup {NoRole} :
          /\ act.what \in {"assign", "remove"} => act.role \in ASSIGNABLE_ROLES
          /\ users' = [users EXCEPT ![i] = After(users[i], act, n)]
          /\ \/ act.what = "create" /\ users[i] = NoUser
             \/ act.what # "create" /\ users[i] \in User /\ users[i].there
    <2> DEFINE q == request[c]
               k == Progress(q) + 1
    <2>1. /\ k \in 1..Len(q.record) /\ Target(q) \in Id
          /\ users' = [users EXCEPT ![Target(q)] = After(users[Target(q)], q.record[k], q.name)]
          /\ \/ q.record[k].what = "create" /\ users[Target(q)] = NoUser
             \/ q.record[k].what # "create" /\ users[Target(q)] \in User /\ users[Target(q)].there
      BY <1>0, PerformFacts
    <2>2. q.record \in Seq(CallOf) /\ q.name \in Name \cup {NoRole} /\ Sound(q, made)
      BY <1>0, RouteFacts DEF RoutesAreSound
    <2>3. q.record[k].what \in {"assign", "remove"} => q.record[k].role \in ASSIGNABLE_ROLES
      BY <2>1, <2>2 DEF Sound
    <2>4. q.record[k] \in CallOf
      BY <2>1, <2>2
    <2> HIDE DEF q, k
    <2> QED BY <2>1, <2>2, <2>3, <2>4
  <1> DEFINE u == users[i]
             v == After(u, act, n)
  <1>3. /\ Accounted \in [Id -> {Shown(users[j]) : j \in Id}]
        /\ Accounted[i] = Shown(u)
        /\ Accounted' = [Accounted EXCEPT ![i] = Shown(v)]
    <2>1. Accounted = [j \in Id |-> Shown(users[j])] /\ Accounted' = [j \in Id |-> Shown(users'[j])]
      BY DEF Accounted, Shown
    <2>2. users'[i] = v /\ \A j \in Id : j # i => users'[j] = users[j]
      BY <1>0, <1>1 DEF AdminTypeOK
    <2> HIDE DEF v, u
    <2> QED BY <1>1, <2>1, <2>2 DEF u
  <1> HIDE DEF u, v
  <1>4. CASE act.what = "create"
    <2>1. Shown(u) = [there |-> FALSE] /\ Shown(v) = [there |-> TRUE, roles |-> {}, enabled |-> TRUE]
      <3>1. u = [there |-> FALSE]
        BY <1>1, <1>4 DEF u, NoUser
      <3>2. v.there /\ v.roles = {} /\ v.enabled = TRUE
        BY <1>4 DEF v, After
      <3> QED BY <3>1, <3>2 DEF Shown, NoUser
    <2>2. Directory!Make(i)
      BY <1>3, <2>1
         DEF Directory!Make, Directory!Gone, Directory!Become, Directory!Made, Accounted, NoUser
    <2> QED BY <1>1, <2>2 DEF Directory!Change
  <1>5. CASE act.what # "create"
    <2>1. u \in User /\ u.there
      BY <1>1, <1>5 DEF u
    <2>2. /\ Shown(u) = [there |-> TRUE, roles |-> u.roles, enabled |-> u.enabled]
          /\ Shown(u).there /\ Shown(u).roles = u.roles /\ Shown(u).enabled = u.enabled
      BY <2>1 DEF Shown
    <2>3. CASE act.what = "assign"
      <3>1. Shown(v) = [there |-> TRUE, roles |-> u.roles \cup {act.role}, enabled |-> u.enabled]
        BY <2>1, <2>3 DEF Shown, After, v, User
      <3>2. /\ Accounted[i].there
            /\ Accounted' = [Accounted EXCEPT ![i] =
                 [there |-> TRUE, roles |-> Accounted[i].roles \cup {act.role}, enabled |-> Accounted[i].enabled]]
        BY <1>3, <2>2, <3>1
      <3>3. Directory!Grant(i, act.role)
        BY <3>2 DEF Directory!Grant, Directory!Become, Directory!Made, Accounted
      <3> QED BY <1>1, <2>3, <3>3 DEF Directory!Change
    <2>4. CASE act.what = "remove"
      <3>1. Shown(v) = [there |-> TRUE, roles |-> u.roles \ {act.role}, enabled |-> u.enabled]
        BY <2>1, <2>4 DEF Shown, After, v, User
      <3>2. /\ Accounted[i].there
            /\ Accounted' = [Accounted EXCEPT ![i] =
                 [there |-> TRUE, roles |-> Accounted[i].roles \ {act.role}, enabled |-> Accounted[i].enabled]]
        BY <1>3, <2>2, <3>1
      <3>3. Directory!Withdraw(i, act.role)
        BY <3>2 DEF Directory!Withdraw, Directory!Become, Directory!Made, Accounted
      <3> QED BY <1>1, <2>4, <3>3 DEF Directory!Change
    <2>5. CASE act.what \in {"enable", "disable"}
      <3>1. PICK on \in BOOLEAN : on = (act.what = "enable")
        OBVIOUS
      <3>2. Shown(v) = [there |-> TRUE, roles |-> u.roles, enabled |-> on]
        BY <2>1, <2>5, <3>1 DEF Shown, After, v, User
      <3>3. /\ Accounted[i].there
            /\ Accounted' = [Accounted EXCEPT ![i] =
                 [there |-> TRUE, roles |-> Accounted[i].roles, enabled |-> on]]
        BY <1>3, <2>2, <3>2
      <3>4. Directory!Switch(i, on)
        BY <3>3 DEF Directory!Switch, Directory!Become, Directory!Made, Accounted
      <3> QED BY <1>1, <3>4 DEF Directory!Change
    <2>6. CASE act.what = "reset"
      <3>1. Shown(v) = Shown(u)
        BY <2>1, <2>6 DEF Shown, After, v, User
      <3>2. Accounted' = Accounted
        BY <1>1, <1>3, <3>1
      <3> QED BY <3>2
    <2>7. CASE act.what = "delete"
      <3>1. Shown(v) = [there |-> FALSE]
        BY <2>7 DEF Shown, After, v, NoUser
      <3>2. Directory!Remove(i)
        BY <1>3, <2>2, <3>1 DEF Directory!Remove, Directory!Become, Directory!Gone, Accounted
      <3> QED BY <1>1, <3>2 DEF Directory!Change
    <2> QED BY <1>1, <1>5, <2>3, <2>4, <2>5, <2>6, <2>7 DEF CallOf
  <1> QED BY <1>4, <1>5

LEMMA AdminStepIsAChange ==
  ASSUME AdminInv, [AdminNext]_adminVars
  PROVE  [\E i \in Id : Directory!Change(i)]_Accounted
  <1>1. AdminTypeOK
    BY DEF AdminInv
  <1>2. CASE users' = users
    BY <1>2 DEF Accounted
  <1>3. ASSUME NEW c \in Caller, Called(c) \/ Fails(c), users' # users
        PROVE  (\E i \in Id : Directory!Change(i)) \/ Accounted' = Accounted
    BY <1>3, PerformIsAChange DEF Called, Fails
  <1> QED BY <1>1, <1>2, <1>3, StepKinds DEF Receive, Refused, Audited, adminVars

-----------------------------------------------------------------------------
(* The records and the accounts agree: whatever routes run side by side,   *)
(* are refused, fail or lose an answer, an account that no two of them     *)
(* worked on at once, and none was cut short on, is exactly what the audit *)
(* records about it add up to, in the order they were written.             *)
THEOREM RecordsRebuildUsers == AdminSpec => []TrailRebuildsUsers
  <1>1. AdminInv => TrailRebuildsUsers
    BY DEF AdminInv
  <1> QED BY <1>1, AdminInvHolds, PTL

(* The routes of admin.py and enrolment implement Accounts: any            *)
(* interleaving of their calls to Keycloak, with calls that fail or whose  *)
(* answers are lost, changes the accounts only one thing at a time, and    *)
(* grants and withdraws none but ASSIGNABLE_ROLES.                         *)
THEOREM AdminImplementsAccounts == AdminSpec => DirectorySpec
  <1>1. AdminInit => Accounted = [i \in Id |-> NoUser]
    BY DEF AdminInit, Accounted, NoUser
  <1>2. AdminInv /\ [AdminNext]_adminVars => [\E i \in Id : Directory!Change(i)]_Accounted
    BY AdminStepIsAChange
  <1> QED
    BY AdminInvHolds, <1>1, <1>2, PTL DEF AdminSpec, DirectorySpec, Directory!AccountsSpec, Accounted

(* Enrolment gives no role: however many routes run side by side, are      *)
(* refused, fail or lose an answer, every role of every account is one     *)
(* that an administrator's request assigned to that very account.          *)
THEOREM RolesAreGiven == AdminSpec => []RolesComeFromAdministrators
  <1>1. AdminInv => RolesComeFromAdministrators
    BY DEF AdminInv
  <1> QED BY <1>1, AdminInvHolds, PTL
=============================================================================
