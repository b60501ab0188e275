----------------------------- MODULE Delegation -----------------------------
(***************************************************************************)
(* Whose authority a tool call carries, from the browser to the vendor.    *)
(*                                                                         *)
(* A person's browser holds a token for the agent (app/api/auth.py). The   *)
(* agent keeps it with the run (app/agent/service.py, _runs) and exchanges *)
(* it for one for the tool server at every call (app/agent/live.py). The   *)
(* tool server verifies that one, decides on the roles in it               *)
(* (app/tools/enforcement.py) and exchanges it again for one the vendor    *)
(* takes (app/tools/backends.py); the vendor believes the token, not the   *)
(* header (app/sandbox/app.py). Managers decide with the browser's token   *)
(* (app/api/authz.py). All the while administrators change the accounts.   *)
(*                                                                         *)
(* Left out: what a call asks for and its approvals (AgentRun), renewal in *)
(* the browser (Session), workload identity (Hop, Revocation). Keycloak is *)
(* external: it reads the account whenever it issues a token and refuses   *)
(* a person who is gone or disabled and a subject token that has run out.  *)
(***************************************************************************)
EXTENDS Accounts, Policy

CONSTANTS
  Thread,         \* thread ids
  Tool,           \* the tools the model chooses from
  TenantOf,       \* TenantOf[p]: the tenant attribute of p's account
  NoOne, NoToken,
  Life,           \* an access token's lifetime
  SandboxAuth,    \* SANDBOX_AUDIENCE is set
  MaxTime, MaxSignIns, MaxCalls, MaxChanges, MaxRestarts   \* bounds

ASSUME DelegationAssumption ==
  /\ NoOne \notin Account
  /\ Seed \in [Account -> {Gone} \cup [there : {TRUE}, roles : SUBSET Assignable,
                                      enabled : BOOLEAN]]
  /\ Life \in Nat \ {0}
  /\ Tool \subseteq Catalogue
  /\ SandboxAuth \in BOOLEAN
  /\ {MaxTime, MaxSignIns, MaxCalls, MaxChanges, MaxRestarts} \subseteq Nat

VARIABLES
  now,       \* the clock
  browser,   \* browser[p]: the access token p is signed in with
  runs,      \* runs[t]: the token of the agent kept in _runs, or NoToken
  plan,      \* plan[t]: the tool thread t is about to call (its checkpoint)
  call,      \* call[t]: how far the request on thread t has got
  subject,   \* subject[t]: _subject_token of the handler of t's call
  lately,    \* history: when p was last enabled, or entitled to something
  bounds     \* [signins, calls, changes, restarts] spent so far

vars == <<account, now, browser, runs, plan, call, subject, lately, bounds>>

NoTool == "no tool"
Idle == [at |-> "idle", token |-> NoToken, for |-> NoOne, seen |-> FALSE]

Usable(p) == account[p].there /\ account[p].enabled

\* A workload's question to the policy about p's roles.
Allows(p, roles, tool) ==
  decision([agent |-> TrustedAgent, tenant |-> TenantOf[p], roles |-> roles,
            tool |-> tool, amount |-> NoAmount]) # "deny"

\* What p stands for with the account a.
Entitles(a, p, what) ==
  /\ a.there
  /\ CASE what = "enabled" -> a.enabled
       [] what = "manager" -> "manager" \in a.roles
       [] OTHER -> Allows(p, a.roles, what)

Holds(p, what) == Entitles(account[p], p, what)

Standing == {"enabled", "manager"} \cup Tool
Never == 0 - 3 * Life
Observe == lately' = [p \in Account |-> [w \in Standing |->
                        IF Entitles(account'[p], p, w) THEN now' ELSE lately[p][w]]]

-----------------------------------------------------------------------------
(* Tokens.                                                                 *)

\* The services a client's tokens are for, from the realm's mappers.
AudienceOf(client) ==
  CASE client = "portal" -> {"agent", "tools"}
    [] client = "agent"  -> {"tools"}
    [] client = "tools"  -> {"sandbox"}

\* Keycloak issues a token to a client: the roles are the account's.
Issue(p, client) ==
  [sub |-> p, roles |-> account[p].roles, client |-> client, exp |-> now + Life]

\* Slip: an expired token is a token.
verify_Slip(token, audience, azp) ==
  /\ token # NoToken
  /\ audience \in AudienceOf(token.client)
  /\ token.client \in azp

\* TokenVerifier.verify: the audience, the lifetime and the client.
verify(token, audience, azp) ==
  /\ token # NoToken
  /\ audience \in AudienceOf(token.client)
  /\ now < token.exp
  /\ token.client \in azp

Anyone == {"portal", "agent", "tools"}

\* Keycloak exchanges a live token that is for the client that asks.
Exchanges(token, client) ==
  /\ token # NoToken
  /\ client \in AudienceOf(token.client)
  /\ now < token.exp
  /\ Usable(token.sub)

-----------------------------------------------------------------------------
(* People, administrators and time.                                        *)

\* /auth/login and /auth/refresh.
SignIn(p) ==
  /\ Usable(p)
  /\ bounds.signins < MaxSignIns
  /\ bounds' = [bounds EXCEPT !.signins = @ + 1]
  /\ browser' = [browser EXCEPT ![p] = Issue(p, "portal")]
  /\ UNCHANGED <<account, now, runs, plan, call, subject, lately>>

\* A call in hand has had an entitled person behind it if it has one now.
Witness(t) ==
  LET p == call[t].for IN p # NoOne /\ Entitles(account'[p], p, plan[t])

AccountChanges(p) ==
  /\ bounds.changes < MaxChanges
  /\ Change(p) /\ account' # account
  /\ bounds' = [bounds EXCEPT !.changes = @ + 1]
  /\ UNCHANGED <<now, browser, runs, plan, subject>>
  /\ call' = [t \in Thread |-> [call[t] EXCEPT !.seen = @ \/ Witness(t)]]
  /\ Observe

Tick ==
  /\ now < MaxTime
  /\ now' = now + 1
  /\ UNCHANGED <<account, browser, runs, plan, call, subject, bounds>>
  /\ Observe

\* decide_approval's gate: require_roles reads the token, not the account.
MayDecide(p) == verify(browser[p], "tools", Anyone) /\ "manager" \in browser[p].roles

-----------------------------------------------------------------------------
(* The agent.                                                              *)

Begin(t, p, tool) ==
  /\ call[t] = Idle
  /\ bounds.calls < MaxCalls
  /\ bounds' = [bounds EXCEPT !.calls = @ + 1]
  /\ call' = [call EXCEPT ![t] = [at |-> "agent", token |-> NoToken, for |-> p,
                                  seen |-> Holds(p, tool)]]

\* /run: the token is kept for the thread and its roles make the offer.
Run(t, p, tool) ==
  /\ verify(browser[p], "agent", Anyone)
  /\ tool \in tools_for_roles(TenantOf[p], browser[p].roles)
  /\ Begin(t, p, tool)
  /\ runs' = [runs EXCEPT ![t] = browser[p]]
  /\ plan' = [plan EXCEPT ![t] = tool]
  /\ UNCHANGED <<account, now, browser, subject, lately>>

\* /resume: a run this process knows goes on with the token it was started
\* with, whatever the caller sends; any other with the caller's.
Resume(t, p) ==
  LET token == IF runs[t] # NoToken THEN runs[t] ELSE browser[p]
  IN  /\ plan[t] # NoTool
      /\ runs[t] = NoToken => verify(browser[p], "agent", Anyone)
      /\ Begin(t, token.sub, plan[t])
      /\ runs' = [runs EXCEPT ![t] = token]
      /\ UNCHANGED <<account, now, browser, plan, subject, lately>>

Advance(t, place, token) ==
  call' = [call EXCEPT ![t] = [@ EXCEPT !.at = place, !.token = token]]

Ends(t) == call' = [call EXCEPT ![t] = Idle]

\* Slip: the token of the last call is used while there is one.
ToolToken_Slip(t) ==
  /\ call[t].at = "agent"
  /\ \/ runs[t].client = "portal" /\ Exchanges(runs[t], "agent")
        /\ runs' = [runs EXCEPT ![t] = Issue(runs[t].sub, "agent")]
        /\ Advance(t, "tools", Issue(runs[t].sub, "agent"))
     \/ runs[t].client = "agent" /\ Advance(t, "tools", runs[t]) /\ UNCHANGED runs
  /\ UNCHANGED <<account, now, browser, plan, subject, lately, bounds>>

\* _tool_token, at every call.
ToolToken(t) ==
  /\ call[t].at = "agent"
  /\ Exchanges(runs[t], "agent")
  /\ Advance(t, "tools", Issue(runs[t].sub, "agent"))
  /\ UNCHANGED <<account, now, browser, runs, plan, subject, lately, bounds>>

\* The exchange is refused, or Keycloak cannot be reached: a reported error.
NoToolToken(t) ==
  /\ call[t].at = "agent"
  /\ Ends(t)
  /\ UNCHANGED <<account, now, browser, runs, plan, subject, lately, bounds>>

\* The agent restarts: _runs is gone, and what it had not yet sent.
Restart ==
  /\ bounds.restarts < MaxRestarts
  /\ bounds' = [bounds EXCEPT !.restarts = @ + 1]
  /\ runs' = [t \in Thread |-> NoToken]
  /\ call' = [t \in Thread |-> IF call[t].at = "agent" THEN Idle ELSE call[t]]
  /\ UNCHANGED <<account, now, browser, plan, subject, lately>>

-----------------------------------------------------------------------------
(* The tool server and the vendor.                                         *)

\* ToolEnforcer.call as far as the decision.
Admits(t) ==
  LET token == call[t].token
  IN  verify(token, "tools", {"agent"}) /\ Allows(token.sub, token.roles, plan[t])

\* Slip: the token is kept in a variable of the module.
set_subject_token_Slip(t, token) == subject' = [u \in Thread |-> token]

\* A context variable: each handler has its own.
set_subject_token(t, token) == subject' = [subject EXCEPT ![t] = token]

Enforce(t) ==
  /\ call[t].at = "tools"
  /\ Admits(t)
  /\ set_subject_token(t, call[t].token)
  /\ call' = [call EXCEPT ![t] = [@ EXCEPT !.at = "backend", !.for = call[t].token.sub]]
  /\ UNCHANGED <<account, now, browser, runs, plan, lately, bounds>>

Denied(t) ==
  /\ call[t].at = "tools"
  /\ ~Admits(t)
  /\ Ends(t)
  /\ UNCHANGED <<account, now, browser, runs, plan, subject, lately, bounds>>

\* _downstream_token: the subject token, exchanged for one for the vendor.
DownstreamToken(t) ==
  /\ call[t].at = "backend"
  /\ Exchanges(subject[t], "tools")
  /\ Advance(t, "vendor", Issue(subject[t].sub, "tools"))
  /\ UNCHANGED <<account, now, browser, runs, plan, subject, lately, bounds>>

\* The exchange fails: the call goes out with the static token, no person's.
FallBack(t) ==
  /\ call[t].at = "backend"
  /\ Advance(t, "vendor", NoToken)
  /\ UNCHANGED <<account, now, browser, runs, plan, subject, lately, bounds>>

\* Slip: the signature is checked and the lifetime is not.
sandbox_verify_Slip(token) == token # NoToken /\ "sandbox" \in AudienceOf(token.client)

\* sandbox/auth.py: any client's token, as long as it is for the sandbox.
sandbox_verify(token) ==
  token # NoToken /\ "sandbox" \in AudienceOf(token.client) /\ now < token.exp

\* The person and the tenant the vendor acts for: the token's, and only without
\* verification the header's.
Identity(t) ==
  IF SandboxAuth
  THEN [user |-> call[t].token.sub, tenant |-> TenantOf[call[t].token.sub]]
  ELSE [user |-> NoOne, tenant |-> TenantOf[call[t].for]]

\* The request passes _identify: what the vendor does now it does as Identity(t).
VendorAccepts(t) ==
  /\ call[t].at = "vendor"
  /\ SandboxAuth => sandbox_verify(call[t].token)

\* The vendor does it, or answers 401, which the tool server reports as an
\* error; in either case the handler is done.
Vendor(t) ==
  /\ call[t].at = "vendor"
  /\ set_subject_token(t, NoToken)
  /\ Ends(t)
  /\ UNCHANGED <<account, now, browser, runs, plan, lately, bounds>>

-----------------------------------------------------------------------------

Init ==
  /\ account = Seed
  /\ now = 0
  /\ browser = [p \in Account |-> NoToken]
  /\ runs = [t \in Thread |-> NoToken]
  /\ plan = [t \in Thread |-> NoTool]
  /\ call = [t \in Thread |-> Idle]
  /\ subject = [t \in Thread |-> NoToken]
  /\ lately = [p \in Account |-> [w \in Standing |-> IF Holds(p, w) THEN 0 ELSE Never]]
  /\ bounds = [signins |-> 0, calls |-> 0, changes |-> 0, restarts |-> 0]

Next ==
  \/ \E p \in Account : SignIn(p) \/ AccountChanges(p)
  \/ Tick \/ Restart
  \/ \E t \in Thread, p \in Account : \/ \E tool \in Tool : Run(t, p, tool)
                                     \/ Resume(t, p)
  \/ \E t \in Thread : \/ ToolToken(t) \/ NoToolToken(t) \/ Enforce(t) \/ Denied(t)
                       \/ DownstreamToken(t) \/ FallBack(t) \/ Vendor(t)

Spec == Init /\ [][Next]_vars

-----------------------------------------------------------------------------
(* The type of every variable.                                             *)
TokenType == {NoToken} \cup [sub : Account, roles : SUBSET Assignable, client : Anyone,
                             exp : Nat]
TypeOK ==
  /\ account \in [Account -> {Gone} \cup [there : {TRUE}, roles : SUBSET Assignable,
                                         enabled : BOOLEAN]]
  /\ now \in 0..MaxTime
  /\ browser \in [Account -> TokenType] /\ runs \in [Thread -> TokenType]
  /\ plan \in [Thread -> Tool \cup {NoTool}]
  /\ call \in [Thread -> [at : {"idle", "agent", "tools", "backend", "vendor"},
                          token : TokenType, for : Account \cup {NoOne}, seen : BOOLEAN]]
  /\ subject \in [Thread -> TokenType]
  /\ lately \in [Account -> [Standing -> Never..MaxTime]]

(* The vendor sees the person the tool server decided about, and works in  *)
(* that person's tenant, however many calls the tool server serves at      *)
(* once: never somebody else, never nobody (S28, set_subject_token).       *)
VendorActsAsDecided ==
  \A t \in Thread : VendorAccepts(t) =>
    Identity(t) = [user |-> call[t].for, tenant |-> TenantOf[call[t].for]]

\* How long ago p last was enabled, or entitled to something.
Age(p, what) == now - lately[p][what]

(* A disabled or deleted account stops acting within one token lifetime,   *)
(* at the vendor as in the approval queue, whatever tokens, runs and calls *)
(* were under way: each exchange asks Keycloak again, and a token somebody *)
(* accepts was issued to an enabled account less than a lifetime ago.      *)
DisablingTakesHold ==
  /\ \A p \in Account : MayDecide(p) => Age(p, "enabled") < Life
  /\ \A t \in Thread : VendorAccepts(t) => Age(call[t].for, "enabled") < Life

(* A role counts for less than one token lifetime after it was taken away, *)
(* where somebody decides on it: a manager's approvals (require_roles) and *)
(* the tool server's decision about a call (ToolEnforcer.call).            *)
RoleChangesLag ==
  /\ \A p \in Account : MayDecide(p) => Age(p, "manager") < Life
  /\ \A t \in Thread : call[t].at = "tools" /\ Admits(t) =>
       Age(call[t].token.sub, plan[t]) < Life

(* What the vendor does rests on two tokens, the second issued while the   *)
(* first lived and not read for roles: a call that takes long is less than *)
(* two lifetimes behind, and no more (a token issued in one tick lives     *)
(* Life - 1 more).                                                         *)
VendorLagIsBounded ==
  \A t \in Thread : VendorAccepts(t) => Age(call[t].for, plan[t]) <= 2 * (Life - 1)

(* "Changes lag by up to one token lifetime (5 minutes)"                   *)
(* (docs/roles-and-tools.md:120), at the vendor too: what it does, it does *)
(* for a person who was entitled to the tool at most a lifetime ago.       *)
VendorLagsByALifetime ==
  \A t \in Thread : VendorAccepts(t) => Age(call[t].for, plan[t]) <= Life

(* However old the run and the token kept with it, a call is carried out   *)
(* only if its person was entitled to the tool at some moment since this   *)
(* call was asked for: "exchanges the user's token for an audience-scoped  *)
(* one per call".                                                          *)
EachCallReadsTheRoles ==
  \A t \in Thread : call[t].at \in {"backend", "vendor"} => call[t].seen
=============================================================================
