---------------------------- MODULE AccountState ----------------------------
(***************************************************************************)
(* The two stores that an account is in, Postgres' users table and         *)
(* Keycloak, with the calls of auth-service that write to them, and what   *)
(* must hold of them; Accounts says how they change.                       *)
(***************************************************************************)
EXTENDS Faults

CONSTANTS Call,       \* calls of the service; a users row is named by its call
          Company, Username, Email,
          Invite,     \* invitation tokens
          Nothing     \* no invitation, no form

ASSUME NothingIsNoInvite == Nothing \notin Invite

VARIABLES
  companies, \* rows of companies
  users,     \* rows of users
  invites,   \* rows of invites, with the company and email they are for
  used,      \* invitations with accepted_at set
  accounts,  \* Keycloak's users, with the call that made them
  call,      \* [Call -> ...], where the call is
  form       \* [Call -> ...], what it was asked for

HasAccount(r) == \E a \in accounts : a.by = r.by

-----------------------------------------------------------------------------
\* Whoever can sign in is known here: every Keycloak account has the users row it
\* was made for, although rows are taken back and answers are lost.
AccountsHaveRows ==
  \A a \in accounts : \E r \in users : r.by = a.by /\ r.username = a.username

\* A row without an account that no call is working on was left by a fault, and
\* each fault leaves one at most.
DriftIsBounded ==
  Cardinality({r \in users : call[r.by] = "done" /\ ~HasAccount(r)}) <= faults

\* Two people who accept one invitation at the same time both pass the check that
\* it is unused; still at most one of them becomes a user.
InvitesAreSingleUse ==
  \A r, s \in users :
    form[r.by].invite = form[s.by].invite /\ form[r.by].invite # Nothing => r = s

\* An invitation is marked accepted only for a user that is in both stores.
AcceptedIsMember ==
  \A i \in used : \E r \in users : form[r.by].invite = i /\ HasAccount(r)
=============================================================================
