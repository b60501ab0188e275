------------------------------ MODULE Accounts ------------------------------
(***************************************************************************)
(* What the rest of the platform may expect of the people in Keycloak,     *)
(* whoever administers them: accounts are made without roles and enabled,  *)
(* and then change one thing at a time, and only roles that may be granted *)
(* come and go.                                                            *)
(*                                                                         *)
(* Admin (the routes of app/api/admin.py and auth.py) is shown to          *)
(* implement this; Delegation starts from it.                              *)
(***************************************************************************)
CONSTANTS
  Account,       \* account ids
  Assignable,    \* ASSIGNABLE_ROLES
  Seed           \* the accounts the realm was imported with

VARIABLE account \* account[i]: the account with id i, or Gone

Gone == [there |-> FALSE]
Made(roles, enabled) == [there |-> TRUE, roles |-> roles, enabled |-> enabled]

Become(i, a) == account' = [account EXCEPT ![i] = a]

Make(i) == account[i] = Gone /\ Become(i, Made({}, TRUE))

Grant(i, r) ==
  /\ account[i].there
  /\ Become(i, Made(account[i].roles \cup {r}, account[i].enabled))

Withdraw(i, r) ==
  /\ account[i].there
  /\ Become(i, Made(account[i].roles \ {r}, account[i].enabled))

Switch(i, on) == account[i].there /\ Become(i, Made(account[i].roles, on))

Remove(i) == account[i].there /\ Become(i, Gone)

Change(i) ==
  \/ Make(i) \/ Remove(i)
  \/ \E r \in Assignable : Grant(i, r) \/ Withdraw(i, r)
  \/ \E on \in BOOLEAN : Switch(i, on)

AccountsSpec == account = Seed /\ [][\E i \in Account : Change(i)]_account
=============================================================================
