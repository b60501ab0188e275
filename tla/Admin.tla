-------------------------------- MODULE Admin -------------------------------
(***************************************************************************)
(* Enrolment and user administration (app/api/admin.py, auth.py) over      *)
(* Keycloak's admin API (app/api/identity.py).                             *)
(*                                                                         *)
(* A route is a sequence of calls to Keycloak, any of which may fail or    *)
(* lose its answer, and an audit record at the end. Routes of several      *)
(* people run side by side. Who may call them is decided by require_admin, *)
(* before anything here happens. Profile fields and the passwords         *)
(* themselves are left out.                                                *)
(***************************************************************************)
EXTENDS Integers, Sequences, FiniteSets

CONSTANTS
  Caller,        \* requests in hand at the same time
  Name,          \* user names
  Role,          \* the realm's roles
  ASSIGNABLE_ROLES,                   \* the ones administrators may grant
  MaxUsers, MaxRequests, MaxFaults,   \* bounds
  MaxRoles                            \* bound: the roles a body names

ASSUME AdminAssumption ==
  /\ IsFiniteSet(Caller)
  /\ ASSIGNABLE_ROLES \subseteq Role
  /\ {MaxUsers, MaxRequests, MaxFaults, MaxRoles} \subseteq Nat

VARIABLES
  users,       \* Keycloak: the account of each id
  request,     \* request[c]: the calls still to make and the record to write
  trail,       \* the audit records, in the order they were written
  disturbed,   \* history: accounts two requests overlapped on, or one was cut short on
  granted,     \* history: the roles administrators' requests assigned, with the account
  made, started, faults

adminVars == <<users, request, trail, disturbed, granted, made, started, faults>>

Id == 1..MaxUsers
NoUser == [there |-> FALSE]
NoRequest == [at |-> "none"]
Unknown == 0        \* the id of an account still to be made

Do(what, role) == [what |-> what, role |-> role]
NoRole == "no role"
CallOf == [what : {"create", "enable", "disable", "reset", "delete"}, role : {NoRole}]
            \cup [what : {"assign", "remove"}, role : Role]

Asker == {"administrator", "anybody"}   \* the caller of /admin, of /enroll
User == [there : {TRUE}, name : Name, roles : SUBSET Role, enabled : BOOLEAN, reset : BOOLEAN]
RouteOf == [at : {"calls"}, by : Asker, id : Id \cup {Unknown}, name : Name \cup {NoRole},
            calls : Seq(CallOf), record : Seq(CallOf)]
Record == [id : Id \cup {Unknown}, name : Name \cup {NoRole}, calls : Seq(CallOf)]

AdminTypeOK ==
  /\ users \in [Id -> {NoUser} \cup User]
  /\ request \in [Caller -> {NoRequest} \cup RouteOf]
  /\ trail \in Seq(Record)
  /\ disturbed \subseteq Id
  /\ granted \subseteq Id \X Role
  /\ made \in 0..MaxUsers /\ started \in 0..MaxRequests /\ faults \in 0..MaxFaults

AdminInit ==
  /\ users = [i \in Id |-> NoUser]
  /\ request = [c \in Caller |-> NoRequest]
  /\ trail = <<>> /\ disturbed = {} /\ granted = {}
  /\ made = 0 /\ started = 0 /\ faults = 0

-----------------------------------------------------------------------------
(* Keycloak.                                                               *)

There(i) == i \in Id /\ users[i].there
Taken(n) == \E i \in Id : There(i) /\ users[i].name = n

\* Whether Keycloak does what it is asked: 409 for a name that is taken, 404
\* for an account that is gone.
Accepts(q) == IF Head(q.calls).what = "create" THEN ~Taken(q.name) ELSE There(q.id)

\* An account after a call.
After(user, call, name) ==
  CASE call.what = "create" -> [there |-> TRUE, name |-> name, roles |-> {}, enabled |-> TRUE,
                                reset |-> FALSE]
    [] call.what = "assign" -> [user EXCEPT !.roles = @ \cup {call.role}]
    [] call.what = "remove" -> [user EXCEPT !.roles = @ \ {call.role}]
    [] call.what = "enable" -> [user EXCEPT !.enabled = TRUE]
    [] call.what = "disable" -> [user EXCEPT !.enabled = FALSE]
    [] call.what = "reset" -> [user EXCEPT !.reset = TRUE]
    [] call.what = "delete" -> NoUser

\* The account a call is about; a new one gets the next id.
Target(q) == IF Head(q.calls).what = "create" THEN made + 1 ELSE q.id

\* What a call adds to the roles administrators gave.
Grants(q) ==
  {<<Target(q), r>> : r \in {r \in Role : q.by = "administrator" /\ Head(q.calls) = Do("assign", r)}}

Perform(q) ==
  LET i == Target(q)  call == Head(q.calls)
  IN  /\ users' = [users EXCEPT ![i] = After(@, call, q.name)]
      /\ made' = IF call.what = "create" THEN i ELSE made
      /\ granted' = granted \cup Grants(q)

-----------------------------------------------------------------------------
(* The routes.                                                             *)

\* A route at work on account i.
Busy(i) == \E c \in Caller : request[c] # NoRequest /\ request[c].id = i

Receive(c, by, id, name, calls) ==
  /\ request[c] = NoRequest
  /\ started < MaxRequests
  /\ started' = started + 1
  /\ disturbed' = disturbed \cup {i \in {id} : i # Unknown /\ Busy(i)}
  /\ request' = [request EXCEPT ![c] =
       [at |-> "calls", by |-> by, id |-> id, name |-> name, calls |-> calls, record |-> calls]]
  /\ UNCHANGED <<users, trail, granted, made, faults>>

\* A route of /admin, on an account there is.
ByAdministrator(c, id, calls) == Receive(c, "administrator", id, NoRole, calls)

\* Bound: no more accounts than there are ids.
RoomForAnother ==
  made + Cardinality({c \in Caller : request[c] # NoRequest /\ request[c].id = Unknown}) < MaxUsers

\* Slip: the roles are not filtered.
Assigns_Slip(roles) == [k \in 1..Len(roles) |-> Do("assign", roles[k])]

\* One assignment for every role, in order; the ones that may not be granted are
\* dropped.
Assigns(roles) ==
  LET f[n \in 0..Len(roles)] ==
        IF n = 0 THEN <<>>
        ELSE IF roles[n] \in ASSIGNABLE_ROLES THEN Append(f[n - 1], Do("assign", roles[n]))
        ELSE f[n - 1]
  IN  f[Len(roles)]

create_user(c, n, roles) ==
  /\ RoomForAnother
  /\ Receive(c, "administrator", Unknown, n, <<Do("create", NoRole)>> \o Assigns(roles))

\* Slip: enrolment takes roles from the request, as create_user does.
enroll_Slip(c, n, roles) ==
  /\ RoomForAnother
  /\ Receive(c, "anybody", Unknown, n, <<Do("create", NoRole)>> \o Assigns(roles))

\* enroll: whatever roles the body names.
enroll(c, n, roles) ==
  /\ RoomForAnother
  /\ Receive(c, "anybody", Unknown, n, <<Do("create", NoRole)>>)

\* grant_role and revoke_role refuse a role that may not be granted.
grant_role(c, i, r) == r \in ASSIGNABLE_ROLES /\ ByAdministrator(c, i, <<Do("assign", r)>>)
revoke_role(c, i, r) == r \in ASSIGNABLE_ROLES /\ ByAdministrator(c, i, <<Do("remove", r)>>)

set_enabled(c, i, on) ==
  ByAdministrator(c, i, <<Do(IF on THEN "enable" ELSE "disable", NoRole)>>)

reset_password(c, i) == ByAdministrator(c, i, <<Do("reset", NoRole)>>)

delete_user(c, i) == ByAdministrator(c, i, <<Do("delete", NoRole)>>)

\* The next call, answered.
Called(c) ==
  /\ request[c] # NoRequest /\ request[c].calls # <<>>
  /\ Accepts(request[c])
  /\ Perform(request[c])
  /\ request' = [request EXCEPT ![c].id = Target(request[c]), ![c].calls = Tail(@)]
  /\ UNCHANGED <<trail, disturbed, started, faults>>

\* The next call, refused: the route ends, its earlier calls stand.
Refused(c) ==
  /\ request[c] # NoRequest /\ request[c].calls # <<>>
  /\ ~Accepts(request[c])
  /\ request' = [request EXCEPT ![c] = NoRequest]
  /\ disturbed' = disturbed \cup
       {i \in {request[c].id} : request[c].calls # request[c].record}
  /\ UNCHANGED <<users, trail, granted, made, started, faults>>

\* The call fails, or it is done and its answer lost: the route ends.
Fails(c) ==
  /\ faults < MaxFaults
  /\ faults' = faults + 1
  /\ request[c] # NoRequest /\ request[c].calls # <<>>
  /\ \/ Accepts(request[c]) /\ Perform(request[c])
     \/ UNCHANGED <<users, granted, made>>
  /\ request' = [request EXCEPT ![c] = NoRequest]
  /\ disturbed' = disturbed \cup (((1..made') \ (1..made)) \cup ({request[c].id} \ {Unknown}))
  /\ UNCHANGED <<trail, started>>

\* Slip: a route without a record, as for a user an administrator makes.
Audited_Not(c) ==
  /\ request[c] # NoRequest /\ request[c].calls = <<>>
  /\ trail' = IF Len(request[c].record) > 1 THEN trail
              ELSE Append(trail, [id |-> request[c].id, name |-> request[c].name, calls |-> request[c].record])
  /\ request' = [request EXCEPT ![c] = NoRequest]
  /\ UNCHANGED <<users, disturbed, granted, made, started, faults>>

\* The route has made its calls: the record is written and the answer given.
Audited(c) ==
  /\ request[c] # NoRequest /\ request[c].calls = <<>>
  /\ trail' = Append(trail, [id |-> request[c].id, name |-> request[c].name, calls |-> request[c].record])
  /\ request' = [request EXCEPT ![c] = NoRequest]
  /\ UNCHANGED <<users, disturbed, granted, made, started, faults>>

\* The roles a body may name, in order.
Bodies == UNION {[1..n -> Role] : n \in 0..MaxRoles}

AdminNext == \E c \in Caller :
  \/ \E n \in Name, roles \in Bodies : create_user(c, n, roles) \/ enroll(c, n, roles)
  \/ \E i \in 1..made : \/ \E r \in Role : grant_role(c, i, r) \/ revoke_role(c, i, r)
                        \/ \E on \in BOOLEAN : set_enabled(c, i, on)
                        \/ reset_password(c, i) \/ delete_user(c, i)
  \/ Called(c) \/ Refused(c) \/ Fails(c) \/ Audited(c)

AdminSpec == AdminInit /\ [][AdminNext]_adminVars

-----------------------------------------------------------------------------
(* What administration promises.                                           *)

\* The accounts as the rest of the platform sees them: names and passwords apart.
Directory == INSTANCE Accounts WITH
  Account <- Id,
  Assignable <- ASSIGNABLE_ROLES,
  Seed <- [i \in Id |-> NoUser],
  account <- [i \in Id |-> IF users[i].there
                           THEN [there |-> TRUE, roles |-> users[i].roles,
                                 enabled |-> users[i].enabled]
                           ELSE NoUser]

(* However the routes' calls to Keycloak interleave, fail or lose their    *)
(* answers, the accounts only ever change as Accounts promises: one thing  *)
(* at a time, roles after the account they are for, and never a role that  *)
(* may not be granted (ASSIGNABLE_ROLES).                                  *)
DirectorySpec == Directory!AccountsSpec

(* An account's roles are ones an administrator's request gave it: nobody  *)
(* enrols with a role, whatever the body names (enroll, auth.py), and a    *)
(* request that is cut short, or whose answer is lost, leaves no role to   *)
(* another account.                                                        *)
RolesComeFromAdministrators ==
  \A i \in Id : There(i) => \A r \in users[i].roles : <<i, r>> \in granted

\* What an account was before, between and after calls that were made on it.
Stages(user, calls, name) ==
  LET f[k \in 0..Len(calls)] ==
        IF k = 0 THEN user ELSE After(f[k - 1], calls[k], name)
  IN  f

\* What account i was after each of the records.
Versions(records, i) ==
  LET f[n \in 0..Len(records)] ==
        IF n = 0 THEN NoUser
        ELSE LET rec == records[n]
             IN  IF rec.id = i THEN Stages(f[n - 1], rec.calls, rec.name)[Len(rec.calls)]
                 ELSE f[n - 1]
  IN  f

\* The routes' records and the accounts agree: an account no two routes worked on at once and
\* none was cut short on is what the records about it say, whatever went on
\* around it (the routes of admin.py, enroll).
TrailRebuildsUsers ==
  \A i \in Id \ disturbed : ~Busy(i) => users[i] = Versions(trail, i)[Len(trail)]

\* "every mutation is audited" (app/api/admin.py:4): an account nobody is at work
\* on is one that some record tells of.
MutationsAreAudited ==
  \A i \in Id : There(i) /\ ~Busy(i) => \E n \in DOMAIN trail : trail[n].id = i
=============================================================================
