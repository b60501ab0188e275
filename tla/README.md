# A TLA+ model of the agent identity platform

The platform lets a language-model agent act for a person: it picks a tool for
a task, a policy decides whether the call is allowed, refused or held for a
manager, and a tool server carries it out against a vendor's systems. What it
promises is about authority: the agent never does more than the person may, a
held action happens only under the approval given for it, and a resumed one does
not happen again.

This directory holds TLA+ modules of those parts, TLC configurations that check
them on small instances, and TLAPS proofs of the central properties for
instances of any size. `PROJECT.json` lists components, runs, the source lines
each definition stands for, findings, hazards and theorems.

## The system: an inventory

| Part | State | Operations | Talks to | What is hard | What makes it correct |
|---|---|---|---|---|---|
| Policy (`policy/authz.rego`, `sdk/agentnhi/policy.py`) | none | `decision`, `reason`, `tools_for_roles` | asked by agent and tool server | boundaries, null and absent values, no answer | limits, held personal data, offer and decision agree |
| Approval store (`app/approvals/store.py`, routes in `app/api/main.py`) | the rows | create, decide, verify | agent creates, manager decides, tool server verifies | two deciders at once, tenants | separation of duties, decisions taken once |
| Agent graph and service (`app/agent/graph.py`, `service.py`, `live.py`) | checkpoints (durable), `_runs` (per replica) | `/run`, `/resume`, five nodes, five routers | model, tool server, approval store | pauses of hours, overlapping resumes, restarts between an effect and its checkpoint | held calls approved, budget, every request answered |
| Tool decision (`app/agent/llm.py`, `guardrails.py`) | none | `decide_tool`, `resolve_identifiers` | gateway | a model that says anything | only offered tools, no invented identifiers |
| Tool server (`app/tools/*`) | none | `ToolEnforcer.call` | policy, approvals, vendor | one of three calls failing | the order of its checks |
| Vendor sandbox (`app/sandbox/*`, `app/simulators/*`) | refunds, drafts, one snapshot file | issue, draft, save, load, restore | called by tool server | worker threads without a lock, restarts, storage that fails | a key sent again keeps its refund, nothing answered is lost, no number twice |
| Revocation (`app/common/revocation.py`, `app/api/revocations.py`) | the api's set, a cached copy per service | revoke, restore, `is_revoked` | every hop | staleness, racing threads, outages | bounded lag, a revocation takes hold |
| Gateway and limits (`app/gateway/*`) | counters per caller | check, charge | agent calls, provider called | replicas, window boundaries, calls in flight | rate and budget |
| Audit trail (`app/audit/store.py`, `app/common/audit_forward.py`) | queue, rows | record, forward, query | every service to the api | a full queue, a post given up on, records about forwarding itself | stored once, each thread's rows in order, the backends agree, the forwarder comes to rest |
| Workload identity (`app/common/hop.py`, `server.py`) | cached tokens, the served certificate | fetch, send, serve, restart before expiry | SPIRE | expiry against caching, threads that fetch together | tokens re-fetched in time, no expired certificate served |
| User delegation (`sdk/agentnhi/tokens.py`, `exchange.py`, `app/agent/live.py`, `app/tools/backends.py`, `app/sandbox/auth.py`) | the token kept with a run, the token of the call in hand | sign in, verify, exchange twice, fall back | Keycloak, from the browser to the vendor | tokens that outlive a grant or an account, runs resumed hours later, calls served together | the vendor acts as the person who was decided about; changes take hold in bounded time |
| Browser session (`app/api/auth.py`, `app/web/src/api.ts`, `App.tsx`) | the page's state, sessionStorage, the renewal in flight, Keycloak's newest refresh token | login, call, renew, reload, sign out | api, Keycloak | rotation under parallel calls, a timer, lost answers | one renewal at a time, storage and page agree, nobody signed out needlessly |
| Admin (`app/api/admin.py`, `identity.py`) | Keycloak's users | enrol, create, grant, revoke, enable, reset, delete | Keycloak, the audit trail | several calls, one of which fails or overlaps another's | roles come from administrators; undisturbed accounts can be rebuilt from the trail; accounts change one thing at a time |

Web pages, telemetry, database access, test doubles and deployment are listed
in `PROJECT.json`; see "Not modelled" for the reasons.

## Modules

| Module | Models | Extends |
|---|---|---|
| `Policy` | the Rego rules, the policy client, as operators | |
| `PolicyQuery` | a caller asking for an offer and for decisions | `Policy` |
| `Approvals` | the approval store: what it promises its users | |
| `HeldAction` | abstract: approvals and what was done under them | `Approvals` |
| `AgentRun` | the agent run end to end; instantiates `HeldAction` | `Policy`, `Approvals` |
| `AgentRunProofs` | theorems of the store and of the run: types, authority, the refinement of `HeldAction`, holds, receipts and the queue | `AgentRun` |
| `Accounts` | abstract: the people in Keycloak, as the platform may expect them | |
| `Delegation` | whose authority a call carries, from the browser to the vendor | `Accounts`, `Policy` |
| `DelegationProofs` | its theorems, and those of `Admin` | `Delegation`, `Admin` |
| `Revocation` | the denylist and a service's copy of it | |
| `RevocationProofs` | its theorem | `Revocation` |
| `Sandbox` | the vendor's refund and draft routes and their snapshot | |
| `SandboxProofs` | its theorems | `Sandbox` |
| `ToolDecision` | how a call gets its tool and its arguments | `Policy` |
| `ToolDecisionProofs` | its theorems, and those of `PolicyQuery` | `ToolDecision`, `PolicyQuery` |
| `Gateway` | the limits on calls to a model, both backends | |
| `GatewayProofs` | its theorems | `Gateway` |
| `Session` | a browser tab's session, its calls and its renewals | |
| `SessionProofs` | its theorems | `Session` |
| `Hop` | a service's tokens and its certificate | |
| `AuditTrail` | a service's records, their forwarding, the api's store | `Hop` |
| `AuditTrailProofs` | theorems of the trail and of the hop | `AuditTrail` |
| `Admin` | enrolment and user administration over Keycloak; instantiates `Accounts` | |
| `MCPolicyQuery`, `MCAgentRun`, `MCRevocation`, `MCSandbox`, `MCToolDecision`, `MCGateway`, `MCSession`, `MCAuditTrail`, `MCAdmin`, `MCDelegation` | values for TLC | |

Operators named `..._Slip` (or after the slip they make) are plausible bugs:
each stands in for the definition it precedes when a property is tested for
whether it can fail at all. No specification uses them.

### Policy and PolicyQuery

An input document is a record. Two facts of Rego matter and are kept: a key
that holds `null` satisfies `input.tenant` while an absent one does not, and a
string compares greater than every number. An amount is a number, a text that
spells one, or nothing usable. `reason` is kept as the outcome its wording
announces (denied, requires approval, allowed), since that it agrees with
`decision` is the property; the sentences are left out. `PolicyClientDecide` is
the client's fail-closed reading of whatever OPA sends.

### Approvals

`approvals[id]` is the row or `NoApproval`. `Create`, `Decide` and `Verify` are
one step each: the in-memory backend takes a lock, the Postgres one decides in a
single UPDATE. `Decide` includes its route's manager check. The specification
`ApprovalsSpec` is the store by itself; its theorems are in `AgentRunProofs`. The
run's own steps are these operations with the agent's requests, so that the store's
state changes as they allow is no property of its own.

### AgentRun

`exec[r]` is the request replica `r` is working on, with its copy of the graph
state; `ckpt[t]` the thread's latest checkpoint; `runs[r][t]` whose token the
cached agent acts with; `refunds` and `seq` the vendor's ledger; `vendor` the
refunds its workers are about to issue. `performed` is a history of the held calls
that were let through, `contended` of the approvals two workers served at once.

One action per node of the graph. `call_tool` and `create_approval` are two
steps each, the effect and the return, because a replica may stop between them
(`Restart`) and the answer may be lost (`Fault`). Every node's step ends in
`Advance`, which applies the router and writes the checkpoint, as the graph
library does; at a pause or at END the request is answered. `Resume` re-enters
at the checkpoint's next node, with the cached token if this replica has one and
the caller's if not. The graph library has no lock on a thread, so a second
request may load a checkpoint somebody is still working from (`MaxOverlaps`).
A resume answer that comes when the thread is at no pause is lost.

The model is a set of proposals: decisions after `decide_tool`'s own checks,
complete or with gaps. Values a person types are texts (`Text(n)`), and
`coerce_args` makes numbers of them at the tool server and nowhere else, as in
the code. An `Id` stands for any record identifier.

A refund takes two steps at the vendor, as `app/simulators/payments.py` takes no
lock: `CallVendor` is the call as far as a worker that did not find the key,
`issue_refund` the rest. Between them the replica may stop or give up waiting
(`CallTimesOut`, `Orphaned`); the worker goes on. `Sandbox` opens the vendor up
further.

### HeldAction

The abstract specification of what holding a call is for: a store of approvals,
`carried` (what was done, under which approval, for which arguments and tenant),
`going` (what a worker of the vendor's has begun) and `times` (how often anything
was done, since a set would not show a second refund that looks like the first).
`Begin` is possible when an approval was given and nothing has been done under it;
`CarryOut` does what was begun. Those that began before anything was done may both
carry it out, as the code's may; nobody begins afterwards. `AgentRun` maps `carried`
to the refunds above the automatic limit in the vendor's ledger; its property
`HeldSpec` is checked and proved.

### Revocation

Time is kept as ages so that the state space is finite: the age of `_cached_at`,
of the `now` a thread took, and `since[w]`, how long a workload has been revoked
while the api could be asked. `revoked_ids` is split where the interpreter may
switch threads: taking `now`, the api's answer, `_cache = ...`, `_cached_at =
now`. `FetchTime` stands for the http client's timeout.

### Sandbox

`records` are the vendor's refunds and drafts, `seq` a counter for each kind,
`disk` the one file both are saved to. The routes run on worker threads without a
lock, so a request is a sequence of steps others come between: it looks its key up
(`LookupFinds`, `LookupMisses`), takes a number, files the record, reads the refunds
and then the drafts for the snapshot, renames it into place and answers; `Restart`
comes between any two. `Refused` is the 404 or 400 for an order or a ticket that is
not the tenant's, or an amount that is not positive: nothing is numbered or saved.
Storage may fail: `SaveFails` forgets the snapshot, `RestartUnread` starts from
nothing and the next write replaces the file. Three histories name what the
properties have to leave out: `unsaved` (what storage lost), `raced` (keys two
requests found missing before either filed), `overtaken` (what was in the file when
an older snapshot was renamed over it). Amounts, texts and reads are left out.

### ToolDecision

What `AgentRun` takes for granted about a decision is made here: `Decide` is
`decide_tool` over any reply of a model, with the gaps filled from the task, the
values coerced, and identifiers nobody has shown replaced or removed. The loop
around it is the graph's, because what was called and returned on one step
counts as seen on the next. Texts are reduced to identifiers, other words,
blanks, zero and numbers. `shown` is a history of what the task, the records a
call returned and people's answers have named; `Drafted` what earlier drafts had as
their text.

### Gateway

A request takes `now`, is counted and tested, calls the provider, and is charged
with what that used. In memory the test is one step under the lock; with the
database counting, testing the budget and charging are three transactions, with
`now` and the day of the charge taken before them. The clock counts half seconds
because Retry-After is truncated to whole ones. A limit of 0 (no limit) is left
out. `passed` and `promise` are histories: when a caller's requests passed, in
order, and when a caller that was refused was told to come back.

### Session

The page is one thread, so a step is what happens between two awaits, and when a
renewal's promise settles everybody who shares it goes on in that step
(`Renewed`, `RenewalFailed`). `ui` is React's state, `store` sessionStorage,
`renewal` is `renewalInFlight` with how far its call got, `request[r]` a call of
`request`: sent, waiting for a renewal, or retried. `timer` is the effect's
timeout: armed, and whether a callback waits. A session is a login and a
generation; generation g carries the g-th refresh token. The provider accepts a
refresh token once: the realm may be laxer, but that is what the comment at
`app/web/src/api.ts:177` counts on. An answer may be lost (the network, a 502
after the rotation, a reload), which `losses` counts. `left` and `hurried` are
histories.

### Hop and AuditTrail

`Hop` is one service: `tokens` is the cached JWT-SVID for the api (its age since
`now` was taken, and what is left of its life), `hop[t]` where thread `t` is in
`workload_token` and the call after it, `serving` the certificate in use and the
watcher's sleep. `Look` (the age is tested), `Issue`, `Keep` and `Send` (the client
has connected) are the points between which threads interleave and time passes. A
token's end is in whole seconds, so `Issue` may cut up to `Grain` from its life.
`Tick` lets time pass up to the timeouts.

`AuditTrail` puts the forwarder on top of it. A handler thread writes a record to
stdout (`audit`) and offers it to `queue` a step later (`Enqueue`); `Take`,
`ingest_audit`, `PostFails` and `GiveUp` are the worker's loop, which never tries a
record again; `IngestLate` is the api finishing a call the worker gave up on, or one
whose process is gone; `IngestElsewhere` stores a record of another process; `Exits`
is `os._exit`, which loses the queue and leaves the api the post it was sent. A
thread that gets a token writes `svid.issued` into the same queue
(`fetch_jwt_svid`): those records are followed through the queue and not into the
store. `store` has the newest row first; both backends' queries are operators on it,
each with its own filter (`matches`, `where`), the in-memory one on its first
`MaxInMemory` rows.

### Admin

A route is a record with the calls it still has to make, the account and the
record it will write. `Called`, `Refused` and `Fails` are the answers of Keycloak,
`Fails` with or without the call having taken effect; `Audited` ends a route that
made all its calls. Bodies name any roles, a role outside the closed set
included, which `create_user` drops (`Assigns`). A request is an administrator's, as
`require_admin` sees to, or anybody's (`enroll`). `disturbed` and `granted` are
histories: the accounts on which requests overlapped or were cut short, and the
roles administrators' requests assigned. Looking up a role before it is assigned
and the token of the service account are part of the call.

`Accounts` is what the rest of the platform may expect of the result: an account
appears enabled and without roles, then changes one thing at a time, and only
roles of the closed set come and go. `Admin` implements it (`DirectorySpec`, with
names, callers and half-done requests hidden), and `Delegation` starts from it.

### Delegation

`browser[p]` is the access token a person is signed in with, `runs[t]` the token
kept with a run in `_runs`, `call[t]` how far the call on thread `t` has got and
with which token, `subject[t]` the context variable of its handler in the tool
server. A token is its subject, the roles it was issued with, the client it was
issued to and when it runs out. A call passes the agent (exchange, `ToolToken`),
the tool server (`Enforce` verifies and asks the policy with the token's roles),
the backend (second exchange, `DownstreamToken`, or `FallBack` to the static
token) and the vendor (`VendorAccepts`, `Identity`). Meanwhile tokens run out
(`Tick`), accounts change by any step of `Accounts`, and the agent restarts.
A request makes one call here; a later call of the same run is like the one of a
resumed run, since every call makes its own exchange.

Keycloak is external and is taken to behave as the code relies on: it reads the
account when it issues or exchanges a token, and refuses somebody who is gone or
disabled and a subject token that has run out. `lately` and `seen` are histories:
when a person last was enabled or entitled to something, and whether that was so
at some moment of the call.

## Runs

| Run | Checks | Bounds, and why they are enough |
|---|---|---|
| `policy` | `RiskyCallsAreHeld`, `OfferedIsCallable` | amounts on both sides of 0, 50 and 500 in every format; role sets of one and two; both kinds of tenant, null and absent; the policy is a function of one input, so the boundaries are all that matters |
| `agent_run` | `NoTwinInTheQueue`, `HoldNamesItsApproval`, `ReceiptMatchesCall`, `EveryRequestIsAnswered`, `ApprovedHoldIsCarriedOut` | one thread, two approvals, three steps, two amounts that are held, an order somebody has to fill in, managers of two tenants, two workers at the vendor, every fault; one run and no restart: a second run or a lost checkpoint may ask for the same approval again |
| `agent_run_overlap` | `HeldCallsAreApproved`, `ResumedApprovalPaysOnce`, `HeldSpec` | two replicas, two workers at the vendor, one overlap, one restart, gaps, and `/run` twice on one thread, so that a run starts on the state of another; the approvals and replicas are symmetric; the theorems cover every size |
| `delegation` | `VendorActsAsDecided`, `DisablingTakesHold`, `RoleChangesLag`, `VendorLagIsBounded`, `EachCallReadsTheRoles` | two people of two tenants, two threads, a token lifetime of two in three ticks, so that a token runs out during a call; two calls, one change of an account, one restart; threads are symmetric; the theorems cover every lifetime |
| `revocation` | `StalenessIsBounded`, `RevocationTakesHold` | two threads, which is what the race takes; reuse time 3 and fetch time 2 keep the order 5 s to 3 s of the code; the bound is tight |
| `sandbox` | `RetriedKeyKeepsItsRefund`, `AnsweredIsKept`, `NumbersAreUnique` | two workers, a key and no key, two refunds and a draft, one restart with the file read or not: the races take two workers; the theorems cover any number |
| `tool_decision` | `GuessesComeAsDrafts`, `CallIsComplete` | two steps, which is what carrying something over takes; an order, a customer and a ticket; a tool that lists, one that acts and the one that takes free text; the theorems cover every size |
| `gateway` | `RateHolds`, `OvershootIsBounded`, `RetryAfterIsEnough` | both backends, two callers, two workers, three requests, one restart; a clock of half seconds, a window of two seconds and a day of one window, so that two windows and two midnights are crossed; a limit of one request and one token; the bound on the budget is tight; the theorems cover every size |
| `session` | `NoTokenIsSpentTwice`, `StoreFollowsUi`, `SignOutIsFinal`, `SomebodyRenews`, `NobodyWaitsInVain`, `StaysSignedIn` | two calls at a time and three in all, two logins, two expiries, two mishaps (reloads or lost answers), revocation and window at any time: a call can find its own renewal overtaken, and a retry its fresh token expired; the theorems cover every size |
| `audit_trail` | `StoredOnce`, `NewestFirst`, `BackendsAgree`, `NoExpiredCertificate`, `TokenIsFreshWhenSent`, `QueueDrains` | a thread that writes, a handler that calls and the forwarder, which fetch tokens together; a token that lives as long as it is reused, as in the code, and dies within one process, its end cut by up to one unit; fetches, connections and calls of one unit; a certificate of four with a margin of one and a watcher that would look every three; one restart; a queue and a memory of two with three records, one of them from elsewhere, so that both overflow; records and calls of the process together at most two (`MaxWork`), since two threads that race take one each; the theorems cover every size |
| `admin` | `TrailRebuildsUsers`, `RolesComeFromAdministrators`, `DirectorySpec` | two requests at a time and three in all, two accounts, two roles that may be granted and one that may not, two of them in a body, one fault; the theorems cover every size |

Five safety properties are proved and not checked again: `DecisionIsFinal` and
`DecidedBySomebodyElse` of the store, `ToolIsChosen` and `LargeRefundsAreApproved` of
the run, and `ReasonAgreesWithDecision` of the policy. Types are proved where there is a proof module.

Where a run does not check for deadlock the system may really stop: every run is
over, or the bounds are used up.

The run `agent_run_clarified` is expected to fail. It shows a disagreement between
the code and what it says of itself, which `findings` in `PROJECT.json` quotes:
`ApprovedHoldIsCarriedOut` does not hold when an amount was typed by a person. The
approval is stored over the text and verified over the number, so the approved call
is held for ever.

Where a property had to be stated for less than the code's own comments claim, the
full claim is a definition beside it, and a configuration of its own reproduces the
counterexample (`tlc -config X.cfg M`):

| Configuration, module | Claim | Where it is made | What happens |
|---|---|---|---|
| `AgentRunRace`, `MCAgentRun` | `OneRefundPerApproval` | `app/tools/enforcement.py:97` "the same approval resumed twice must issue one refund, not two" | the vendor looks a key up and files the refund without a lock (`app/simulators/payments.py:40`); a replica stops while its call is served, the run is resumed, and both calls pay |
| `SandboxRace`, `MCSandbox` | `OneRefundPerKey` | `app/sandbox/app.py:170` "instead of issuing a second one" | two requests with one key find it missing before either has filed |
| `SandboxSnapshots`, `MCSandbox` | `AnsweredSurvives` | `app/sandbox/persistence.py:5` "enough to stop a pod restart resetting every refund and draft" | snapshots are renamed into place in another order than they were taken, and a restart loses what was answered |
| `AgentRunKept`, `MCAgentRun` | `EveryHoldNamesItsApproval` | `app/agent/graph.py:111` "any approval from an earlier step belongs to that step, not this one" | planning with a gap does not clear the earlier approval id (`graph.py:84`), so a second step that is held waits on a decision about the first |
| `ToolDecisionDraft`, `MCToolDecision` | `NoGuessReachesACall` | `app/agent/guardrails.py:89` "never let it invent one" | an observation holds the call's arguments, so an identifier the model wrote into a draft's body counts as seen on the next step (`app/agent/llm.py:142`) |
| `HopExpired`, `MCAuditTrail` | `TokenIsLiveWhenSent` | `app/common/hop.py:19` "re-fetch well inside that" | tokens live five minutes and are reused for five; with their end in whole seconds and the time to connect, an expired one is sent, refused, and its record lost |
| `AuditFilters`, `MCAuditTrail` | `SameSemantics` | `app/audit/store.py:113` "Same semantics as `AuditStore`" | an empty filter is none in memory and is matched literally in the database |
| `AdminCutShort`, `MCAdmin` | `MutationsAreAudited` | `app/api/admin.py:4` "every mutation is audited" | a role cannot be assigned after the account was made: the account is in no record |
| `DelegationLag`, `MCDelegation` | `VendorLagsByALifetime` | `docs/roles-and-tools.md:120` "Changes lag by up to one token lifetime" | the vendor accepts a second token, exchanged while the first lived, so a call held up at both places lags by nearly two; it takes a call that waits for minutes, with hops that time out in seconds |

The passing runs check what does hold, and there is a theorem for each:
`ResumedApprovalPaysOnce`, `RetriedKeyKeepsItsRefund`, `AnsweredIsKept`,
`HoldNamesItsApproval`, `GuessesComeAsDrafts`, `TokenIsFreshWhenSent`,
`BackendsAgree`, `TrailRebuildsUsers` and `VendorLagIsBounded`.

Some restrictions of the passing runs are there because the property fails
without them:

- `HoldNamesItsApproval` and `ReceiptMatchesCall` except runs in which somebody was
  asked a question (`asks` above 0), for the reason `AgentRunKept.cfg` shows: a later
  refund may also be sent under the earlier one's key and be reported as done.
- `ApprovedHoldIsCarriedOut` is about holds whose approval was given for the call
  they wait to make; one that waits on another's (`AgentRunKept.cfg`) waits for ever.
- `ResumedApprovalPaysOnce` excepts approvals two calls were at the vendor under at
  once (`contended`); `RetriedKeyKeepsItsRefund`, `AnsweredIsKept` and
  `NumbersAreUnique` except `raced` keys, `overtaken` records and what storage failed
  to write or to read back.
- `delegation` does not say that an old hold can be resumed: on the process that
  knows the run `/resume` goes on with the token kept in `_runs`, whatever the
  caller sends (`app/agent/service.py:166`). When that has run out, after five
  minutes, the exchange fails and the run ends in an error, where
  `docs/decisions/ADR-0004-langgraph-human-in-the-loop.md:10` has it resumed
  "potentially minutes or hours later". After a restart the caller's token is used
  and the run goes on.
- `policy` says nothing of callers without a tenant: the agent sends `null`, which
  Rego takes for a tenant, and the caller gets the default matrix, where the
  comments at `policy/authz.rego:132` say it resolves no tools at all.
- `agent_run` does not say that no call is made twice: the guard at
  `app/agent/graph.py:120` compares with the last call only.
- `revocation` does not say that a set is obtained in the end: with
  `REVOCATION_FAIL_CLOSED` the refusal at `app/common/revocation.py:108` comes
  before the fetch, so a service that starts without a set never asks for one,
  where `docs/revocation.md` has it refuse only while the api is unreachable.
- `StoreFollowsUi`, `SignOutIsFinal` and `StaysSignedIn` are about pages on which
  nobody signs in or out while a call or a renewal is outstanding (`hurried`).
  After a hurried sign-out the renewal's answer is stored and the timer's callback
  puts it back into the state (`App.tsx:133`), so the session returns; if somebody
  else has signed in by then, theirs is replaced, or cleared when the renewal
  fails. `NoTokenIsSpentTwice`, `SomebodyRenews` and `NobodyWaitsInVain` hold for
  hurried people too.
- `StaysSignedIn` exempts lost answers: a renewal that fails in transit ends the
  session like one that is refused, where the comment at `App.tsx:123` names only
  a window that passed and a revocation.
- `RateHolds` counts requests that were counted while their window was open. One
  that took `now`, then waited past the end of the minute, may find its row
  cleaned up and pass as the first of that minute.
- `RetryAfterIsEnough` is, with the database, about requests that were refused in
  the minute they came in. The wait is computed from `now`, which was taken before
  the row was counted (`app/gateway/limits.py:140`): a request held up past its
  minute is told to come back when that minute ends, which it has, and may find the
  next one full. The attempt to prove the property without this restriction showed
  the case.
- `NewestFirst` is about the rows of one thread: threads queue in another order than
  they write, and processes share the store. It excepts records the worker gave up on
  or died with: the api may finish those after the next.
- `audit_trail` does not say that every record arrives: a full queue, a failed
  post and a restart lose records, the service's own `svid_restart` among them.
  They are on stdout.
- `TrailRebuildsUsers` exempts accounts a request was cut short on
  (`AdminCutShort.cfg`), and accounts on which requests overlap, as records may come in
  the other order than the changes.

### Fairness

`FairSpec` of `AgentRun` asks that a replica with a request in hand goes on with
it, and a worker of the vendor's with its refund: every call has a timeout, and a
process that is not stopped runs.
Nothing is asked of people, except in `PatientSpec`, where somebody keeps
pressing Resume with the approval: the property is about what that achieves. It
also asks, as strong fairness, that a tool call that is made again and again is
once made without a fault: a store or a policy that never answers again holds the
call for good, and should.
`FairSpec` of `Revocation` asks that time passes, that a call that has begun
ends (the client's timeout), and that workloads keep calling: strong fairness,
since whether the call finds a fresh set changes back and forth.
`FairSpec` of `AuditTrail` asks that the worker goes on (every call has a
timeout), that a thread in a call goes on with it and comes back, and that a stopped process is started again. Nothing makes handlers call or time
pass; restarts are bounded, and with the last certificate time ends, so
`QueueDrains` speaks of that long.

## Proofs

Assumptions are the named ASSUMEs on the constants, which TLC evaluates on the
instances: people have tenants, managers are people, a request names its own
user's tenant, the model's amounts are numbers.

- `AgentRunProofs`, the store: `StoreTypeOK`, `SeparationOfDuties`,
  `DecisionsAreFinal`. The types are inductive; separation of duties is, given the
  types; finality is an action property from the guards of `Create` and `Decide`.
- `AgentRunProofs`, the run: `AgentRunTypeOK` and `ChosenTool`. They need each other: a
  call is only typed if the state has a tool, and that is only known from the
  routers. `RunInv` is their conjunction, proved per action.
- `AgentRunProofs`, authority: `HeldIsApproved`, `LedgerAgreesWithStore` and
  `ApprovalPaysOnce`, from `SafeInv`, which adds the three properties to `RunInv` and
  the store's invariant. The argument: past the policy with an amount above the
  automatic limit a call is past `Verify`, whose answer is about the very request; a
  decision is final, so what held when the call went out holds when a worker issues
  the refund, however late (`CallsAreApproved`); and what a worker is about to issue
  is unpaid unless another worker has taken the same key on, which `contended`
  records (`UncontendedIsUnpaid`). A replica that waits has one call at the vendor
  (`CallersWait`), so the answer goes where it belongs.

- `AgentRunProofs`, the refinement: `RunImplementsHeldAction`, from `LedgerInv`, which
  adds to `SafeInv` that the ledger is finite, so that its refunds can be counted.
  Refunds up to the limit are not seen. Above it, `CallVendor` is `Begin` of the
  approval the call carries, by the vendor's test of the key; `issue_refund` is
  `CarryOut`, and `SafeInv` makes the refund the approved one. Every other step is a
  step of the store, or none.

- `AgentRunProofs`, what a run says of itself: `HoldsAreNamed` and
  `ReceiptsAreTrue`. Every step of the graph but two finishes a node; `Moves` says
  what such a step may do to the approval id, the questions and the observations,
  and each action is shown to be one. `HoldInv` says that from a plan to the answer
  to its call the id is empty or that of a stored request for this very call, in
  the checkpoint and in each invocation for itself, so overlaps and restarts do not
  matter. `ReceiptInv` needs more: a receipt may be the refund the vendor had under
  the key, which is the right one only if nobody else paid under that key. So an
  approval is named by one thread (`KeysAreApart`), a new one by none
  (`NewKeysAreFresh`), and what was paid under a key is what its row asks for
  (`PaidAsAsked`). The last holds only while one invocation at a time works on a
  thread, so `ReceiptsAreTrue` assumes `MaxOverlaps = 0`. The assumption cannot be
  dropped: with two overlaps TLC finds a resume of an approved refund of 200 during
  which a second `/run` on the thread asks a question, keeps the approval's id
  (`PlanClarify`), and pays 20 under it first; the resume's receipt is then that 20.

- `AgentRunProofs`, the queue: `QueueHasNoTwin`, for one run that no replica loses
  and nobody resumes while it is worked on (`MaxRuns = 1`, `MaxRestarts = 0`,
  `MaxOverlaps = 0`), on any number of replicas and with any number of resumes, by
  whomever. The property alone is not inductive; `QueueInv` says that at most one row
  is pending and which one, for every place the run can be at (`Tidy`): none where a
  plan is made or an approval is about to be asked for. A run leaves a hold for the
  next plan only when the tool server let the call through, which for a call the
  policy holds takes an approval, and whether it holds depends on tool and amount
  alone (`IsHeld`, `HeldByThePolicy`), so resuming as somebody else makes no
  difference. Two runs may ask for the same thing, and both requests belong in the
  queue; a replica that stops after the row is written and before the checkpoint is
  leaves a twin behind, and so do two resumes at once: hence the three conditions.

- `ToolDecisionProofs`: `DecisionTypeOK`, `CallsAreComplete` and
  `OnlyDraftsLetGuessesIn`. The second needs that whatever is still blank is in
  `missing` while a question is open; the third that everything the code counts as
  seen is in `shown` or was the text of a draft, the arguments of earlier calls
  included, which is what carries it from step to step (`Provenance`).
  The module also holds the theorems of the policy, `RiskIsHeld`, `ReasonsAreTrue`
  and `OffersAreMeant`, about `PolicyQuery`: for all amounts, role sets, tools and
  tenants, where the run looks at the boundaries. `ReasonsAreTrue` is a fact about
  the two rule chains; the others need that what is enforced is the answer to the
  last question, or a refusal, and that the offer is the caller's (`QueryInv`).

- `SessionProofs`: the six properties of the run, for any number of calls, logins
  and mishaps. None is inductive. What carries them is `NewestIsStored` (while no
  answer was lost the storage holds the newest token, except between a grant and
  its arrival, and a renewal is refused only when its session ended),
  `RenewalIsOurs` (while nobody hurried, the renewal under a shown session carries
  the storage's own token) and `LoginsInOrder` (a new login has a number and a
  token nobody had). `StaysSignedIn` then follows action by action.

- `RevocationProofs`: `StalenessBound`, for any number of threads. The cached set
  and its timestamp are written in two steps, by threads that overlap, so a set may
  be older than its timestamp says. `StaleInv` bounds by how much, in each place an
  answer may be on its way (fetched, stored, failed, stamped): by one fetch. It
  assumes that a fetch is shorter than the reuse time, 3 s against 5 s in the code;
  otherwise the stamp of a failed fetch could outlive the set.

- `SandboxProofs`: `KeyPaysOnce`, `AnswersAreKept` and `NumbersIdentify`, for any
  number of workers. `SandInv` says that what was answered and not excepted is in
  memory and on disk, that both are sound (one record per key and per number), and
  what a request may rely on at each of its steps whatever the others do: its key is
  free or raced for (`KeyIsFree`), its number is its own (`RecordIsNew`), its snapshot
  has all that the file has unless it is stale (`SnapshotIsGood`). The counter's
  restart needs that a set of numbers has a largest one, proved from the
  well-foundedness of the naturals.

- `DelegationProofs`: `VendorActsForTheUser`, `DisabledStopActing`,
  `RolesLagByATokensLife`, `VendorLagsByTwoTokens` and `CallsReadTheRoles`; those
  about the vendor assume one that checks tokens (`SandboxAuth`). Two things are
  followed along a call. Who: the token of every hop is about the person the call is
  for (`IsFor`), the handler's own variable included. When: a token says nothing that
  was not so a lifetime before it runs out (`Young`), and the vendor's token was
  issued while the tool server's lived (`IsRecent`), which is where the second
  lifetime comes from.
  The module also holds the theorems of `Admin`, whose accounts these are:
  `RecordsRebuildUsers`, `RolesAreGiven` and `AdminImplementsAccounts`. `AdminInv`
  follows each route: its remaining calls are the rest of its record and none is about a role that may
  not be granted (`Sound`), two routes on one account disturb it (`OneAtATime`), and
  an undisturbed account under a route is what the records and the calls made since
  say (`InStep`), which becomes `TrailRebuildsUsers` when the record is written. That
  every route finds an id for the account it makes needs counting
  (`RoomForTheRest`). The refinement is a case per call: each is one change of one
  account, and receiving, refusing and recording change none. `RolesAreGiven` needs that
  an assignment is only ever in the calls of an administrator's request.

- `GatewayProofs`: `GatewayTypeOK`, `RateIsHeld`, `BudgetOvershoot` and
  `RetryAfterSuffices`, for both backends and all limits. None of the three
  properties is inductive. The budget: whoever may still be charged to a day without
  another test holds back the largest charge, and spent and held back together stay
  within the bound (`WithinReserve`); requests tested for the day before count too,
  which is how a call over midnight is covered. The rate in the database: all but the
  last so many passes as the row counts are of earlier minutes (`RowHasPassed`), which
  a late count or a clean-up of older rows keeps. The rate in memory: `now` is taken
  outside the lock, so the deque is not in order and a pop may take more or less than
  what is old; what stays true is that the young passes are in it, in order
  (`DequeHasPassed`, `Places`), so that RPM passes later is another window
  (`PassedApart`). Retry-After: whoever holds a promise has nothing on its way, and
  its counter has room from then on (`PromiseIsKept`).

- `AuditTrailProofs`, the hop: `CertificateIsValid`, `SentTokensAreFresh` and
  `WellInsideIsLive`. A token's age and what is left of it add up to its lifetime, but
  for the rounding, because the time kept with it was taken before it was asked for
  (`AgesAddUp`); so what a connecting thread has in hand is short of the lifetime by
  less than the reuse time and how long it has been connecting (`InHand`).
  `WellInsideIsLive` says by how much the reuse time would have to be shorter than the
  lifetime for no expired token to be sent. A watcher that sleeps wakes with the
  margin left (`WakesInTime`). This needs that half a certificate's life is not
  nothing (`Span > 1`; an hour in the code).
  The trail: `TrailTypeOK`, `RecordsAreStoredOnce` and `RowsAreInOrder`. What one
  thread writes stays in order on its way: what is stored or late precedes what the
  worker has, which precedes what is queued, which precedes what is still to be queued
  (`InOrder`, `PastIsApart`), so no record is in two places; what is late was given up
  on (`LateIsGivenUp`).
  The queries: `BackendsAnswerAlike`. A filter over the first rows finds what the
  filter over all of them has found by then (`FilterIsUnique`), and keeps what it has
  found (`FoundIsKept`), so the memory's answer is the beginning of the database's;
  cutting both to the limit keeps that.

What a recursive function computes (`Matching`, `Assigns`, `Stages`, `Versions`) is
proved without an induction rule: the recursive function exists and is unique on
`0..N`, and has a property throughout, since otherwise there would be a least number
at which it does not (`SmallestOne`, from the well-foundedness of the naturals, with
`RunExists`, `RunIsUnique` and `StaysIn` in `DelegationProofs` and `FilterExists`,
`FilterIsUnique` and `FoundIsKept` in `AuditTrailProofs`).

Only model-checked:

- liveness (`EveryRequestIsAnswered`, `ApprovedHoldIsCarriedOut`,
  `RevocationTakesHold`, `QueueDrains`): fairness and ENABLED are out of the
  prover's reach.

Every invariant and every safety property of the passing runs is stated by a theorem.

## Not modelled

- The web pages: rendering; the calls they make are actions of `AgentRun` and
  `Session`, and the one page with state of its own over time, the session, is
  modelled.
- Telemetry and metrics: output only; nothing reads them back.
- Database access (`app/common/db.py`): one connection per operation and no state;
  each store's operations are modelled with the atomicity it gives them.
- The provider stub and the evals: a canned model for tests, and offline scoring.
  Any reply of a model is a behaviour of `ToolDecision`.
- Deployment and scripts: manifests, image builds, checks of the documentation.
- Reads that change nothing: listings, quotes, the privacy page.

## Plan

The components were modelled in the order of the module table, and each was
model-checked before it was proved about. Every component with a model has its
properties proved, liveness apart. What could be added: the hold that outlives its
token (see `delegation` above) once the code has an answer to it, and models of the
vendor's reads if they come to change something.
