------------------------------ MODULE Accounts ------------------------------
(***************************************************************************)
(* How auth-service makes an account (services/auth-service/app): a        *)
(* registration, an admin's new user or an accepted invitation inserts a   *)
(* row into Postgres' users table and then asks Keycloak for the account   *)
(* that owns the password.  The connection commits every statement by      *)
(* itself (db.py: autocommit), so the steps of concurrent calls mix and a  *)
(* call that dies leaves what it has done.  Roles, deactivation, passwords *)
(* and tokens are left out, and an expired invitation is one that nobody   *)
(* accepts.                                                                *)
(***************************************************************************)
EXTENDS AccountState

vars == <<companies, users, invites, used, accounts, call, form, faults>>

Form == [company : Company, username : Username, email : Email, invite : Invite \cup {Nothing}]
At == {"idle", "begun", "checked", "inserted", "refused", "created", "done"}

TypeOK ==
  /\ companies \in SUBSET Company
  /\ users \in SUBSET [by : Call, company : Company, username : Username, email : Email]
  /\ invites \in SUBSET [token : Invite, company : Company, email : Email]
  /\ used \in SUBSET Invite
  /\ accounts \in SUBSET [by : Call, username : Username, email : Email]
  /\ call \in [Call -> At]
  /\ form \in [Call -> Form \cup {Nothing}]
  /\ \A c \in Call : call[c] # "idle" => form[c] \in Form
  /\ faults \in 0..MaxFaults

\* The forms of idle calls mean nothing; one company is there to begin with.
Init ==
  /\ \E k \in Company : companies = {k}
  /\ users = {}
  /\ invites = {}
  /\ used = {}
  /\ accounts = {}
  /\ call = [c \in Call |-> "idle"]
  /\ form = [c \in Call |-> Nothing]
  /\ faults = 0

-----------------------------------------------------------------------------
(***************************************************************************)
(* The three ways in, and the invitation.                                  *)
(***************************************************************************)

\* create_user is entered; a call whose input it refuses leaves nothing behind.
Enters(c, f) ==
  /\ call[c] = "idle"
  /\ form' = [form EXCEPT ![c] = f]
  /\ call' = [call EXCEPT ![c] = "begun"]

\* register_company commits the company before create_user looks at its input,
\* and the company stays when that refuses it.
Register(c, f) ==
  /\ f.invite = Nothing
  /\ f.company \notin companies
  /\ companies' = companies \cup {f.company}
  /\ \/ Enters(c, f)
     \/ /\ call[c] = "idle"
        /\ form' = [form EXCEPT ![c] = f]
        /\ call' = [call EXCEPT ![c] = "done"]
  /\ UNCHANGED <<users, invites, used, accounts, faults>>

CreateUser(c, f) ==
  /\ f.invite = Nothing
  /\ f.company \in companies
  /\ Enters(c, f)
  /\ UNCHANGED <<companies, users, invites, used, accounts, faults>>

\* The token is fresh; nothing asks whether the email has an account already.
CreateInvite(i, k, e) ==
  /\ \A v \in invites : v.token # i
  /\ k \in companies
  /\ invites' = invites \cup {[token |-> i, company |-> k, email |-> e]}
  /\ UNCHANGED <<companies, users, used, accounts, call, form, faults>>

\* Company and email are the invitation's, which must not be used yet.
AcceptInvite(c, f) ==
  /\ f.invite \in Invite \ used
  /\ [token |-> f.invite, company |-> f.company, email |-> f.email] \in invites
  /\ Enters(c, f)
  /\ UNCHANGED <<companies, users, invites, used, accounts, faults>>

-----------------------------------------------------------------------------
(***************************************************************************)
(* create_user.                                                            *)
(***************************************************************************)

SameName(r, f) == r.company = f.company /\ r.username = f.username

Check(c) ==
  /\ call[c] = "begun"
  /\ call' = [call EXCEPT ![c] = IF \E r \in users : SameName(r, form[c])
                                   THEN "done" ELSE "checked"]
  /\ UNCHANGED <<companies, users, invites, used, accounts, form, faults>>

Row(c) == [by |-> c, company |-> form[c].company, username |-> form[c].username,
           email |-> form[c].email]

\* Mutant of Taken: the table without its UNIQUE email.
TakenByName(f) == \E r \in users : SameName(r, f)

\* The UNIQUE constraints of users: the email, and the name within a company.
Taken(f) == \E r \in users : SameName(r, f) \/ r.email = f.email

InsertRow(c) ==
  /\ call[c] = "checked"
  /\ IF Taken(form[c]) THEN /\ call' = [call EXCEPT ![c] = "done"]
                            /\ UNCHANGED users
                       ELSE /\ call' = [call EXCEPT ![c] = "inserted"]
                            /\ users' = users \cup {Row(c)}
  /\ UNCHANGED <<companies, invites, used, accounts, form, faults>>

Account(c) == [by |-> c, username |-> form[c].username, email |-> form[c].email]

\* Keycloak's usernames and emails are unique in the realm, whatever the company.
Free(f) == \A a \in accounts : a.username # f.username /\ a.email # f.email

\* Mutant of Provision: the invitation is marked when Keycloak is called.
ProvisionAccepting(c) ==
  /\ call[c] = "inserted"
  /\ used' = used \cup ({form[c].invite} \ {Nothing})
  /\ \/ /\ Free(form[c])
        /\ accounts' = accounts \cup {Account(c)}
        /\ call' = [call EXCEPT ![c] = "created"]
     \/ /\ call' = [call EXCEPT ![c] = "refused"]
        /\ UNCHANGED accounts
  /\ UNCHANGED <<companies, users, invites, form, faults>>

\* Keycloak answers 201, or something else, which is a KeycloakError.
Provision(c) ==
  /\ call[c] = "inserted"
  /\ \/ /\ Free(form[c])
        /\ accounts' = accounts \cup {Account(c)}
        /\ call' = [call EXCEPT ![c] = "created"]
     \/ /\ call' = [call EXCEPT ![c] = "refused"]
        /\ UNCHANGED accounts
  /\ UNCHANGED <<companies, users, invites, used, form, faults>>

\* Mutant of ProvisionLost: any exception takes the row back.
ProvisionLostUndone(c) ==
  /\ call[c] = "inserted"
  /\ Fault
  /\ \E made \in BOOLEAN :
       /\ made => Free(form[c])
       /\ accounts' = IF made THEN accounts \cup {Account(c)} ELSE accounts
  /\ call' = [call EXCEPT ![c] = "refused"]
  /\ UNCHANGED <<companies, users, invites, used, form>>

\* No connection, or no answer in time: httpx raises, which is no KeycloakError,
\* so the call ends with the row in place, and the account may be there or not.
ProvisionLost(c) ==
  /\ call[c] = "inserted"
  /\ Fault
  /\ \E made \in BOOLEAN :
       /\ made => Free(form[c])
       /\ accounts' = IF made THEN accounts \cup {Account(c)} ELSE accounts
  /\ call' = [call EXCEPT ![c] = "done"]
  /\ UNCHANGED <<companies, users, invites, used, form>>

\* Mutant of Undo: the error is passed on and the row stays.
UndoNothing(c) ==
  /\ call[c] = "refused"
  /\ call' = [call EXCEPT ![c] = "done"]
  /\ UNCHANGED <<companies, users, invites, used, accounts, form, faults>>

\* On a KeycloakError the row is deleted, by its id.
Undo(c) ==
  /\ call[c] = "refused"
  /\ users' = users \ {Row(c)}
  /\ call' = [call EXCEPT ![c] = "done"]
  /\ UNCHANGED <<companies, invites, used, accounts, form, faults>>

\* The caller has its account; accept_invite then marks the invitation.
Return(c) ==
  /\ call[c] = "created"
  /\ used' = used \cup ({form[c].invite} \ {Nothing})
  /\ call' = [call EXCEPT ![c] = "done"]
  /\ UNCHANGED <<companies, users, invites, accounts, form, faults>>

\* The process stops or Postgres is lost in the middle of a call.
Dies(c) ==
  /\ call[c] \notin {"idle", "done"}
  /\ Fault
  /\ call' = [call EXCEPT ![c] = "done"]
  /\ UNCHANGED <<companies, users, invites, used, accounts, form>>

-----------------------------------------------------------------------------
Next ==
  \/ \E c \in Call :
       \/ \E f \in Form : Register(c, f) \/ CreateUser(c, f) \/ AcceptInvite(c, f)
       \/ Check(c)
       \/ InsertRow(c)
       \/ Provision(c)
       \/ ProvisionLost(c)
       \/ Undo(c)
       \/ Return(c)
       \/ Dies(c)
  \/ \E i \in Invite, k \in Company, e \in Email : CreateInvite(i, k, e)

Spec == Init /\ [][Next]_vars
=============================================================================
