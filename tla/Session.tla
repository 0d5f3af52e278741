------------------------------ MODULE Session -------------------------------
(***************************************************************************)
(* Signing in to the web app and staying signed in (apps/web): the tabs of *)
(* one browser, which share the it_session cookie (auth.ts, server/jwt.ts, *)
(* app/api), the session each tab has copied from it (lib/role.tsx) with   *)
(* the timer that renews it, and what a role is shown and allowed to do.   *)
(* Requests take time and are lost, timers run late, tabs are reloaded in  *)
(* the middle of anything.  Every time is kept as what is left of it, so   *)
(* the clock needs no bound.  REQUIRE_AUTH is set; whom auth-service lets  *)
(* in is left open (Accounts says whom); companies are left out.           *)
(***************************************************************************)
EXTENDS Faults

CONSTANTS Tab, User,
          RoleOf,      \* the role in each user's row, which nothing changes
          TTL,         \* how long a token lives
          Lead,        \* how long before its end a tab renews it
          Trip,        \* how long a request takes when nothing is wrong
          None         \* no token or request

Role == {"finance_user", "approver", "admin"}

ASSUME Roles == RoleOf \in [User -> Role]
ASSUME Times ==
  /\ {TTL, Lead, Trip} \subseteq Nat
  /\ Trip > 0 /\ Lead > 2 * Trip /\ TTL > Lead

VARIABLES
  cookie,  \* the browser's it_session
  tab,     \* [Tab -> Page], the page, its session and its timer
  refresh, \* [Tab -> ...], the /api/refresh it waits for
  logout   \* [Tab -> BOOLEAN], whether it waits for /api/logout

vars == <<cookie, tab, refresh, logout, faults>>

\* What signHS256 signs, as a user and what is left until exp; the browser drops
\* the cookie with the token.
Token == [user : User, left : 1..TTL]

\* claims: what /api/session has seen for a page that loads; armed: the timer is
\* set; sure: history, its session has had Lead ahead of it.
Page == [at : {"closed", "reading", "ready", "keycloak"}, claims : Token \cup {None},
         user : User \cup {None}, role : Role \cup {None}, left : 0..TTL,
         armed : BOOLEAN, sure : BOOLEAN]
Asked == [from : Token \cup {None}, age : 0..(Trip + MaxFaults)]

ASSUME NoneIsNothing == None \notin Token \cup User \cup Role \cup Asked

TypeOK ==
  /\ cookie \in Token \cup {None}
  /\ tab \in [Tab -> Page]
  /\ refresh \in [Tab -> Asked \cup {None}]
  /\ logout \in [Tab -> BOOLEAN]
  /\ faults \in 0..MaxFaults

Blank(at) ==
  [at |-> at, claims |-> None, user |-> None, role |-> None, left |-> 0, armed |-> FALSE,
   sure |-> FALSE]

Init ==
  /\ cookie = None
  /\ tab = [t \in Tab |-> Blank("closed")]
  /\ refresh = [t \in Tab |-> None]
  /\ logout = [t \in Tab |-> FALSE]
  /\ faults = 0

-----------------------------------------------------------------------------
(***************************************************************************)
(* What a role may do: the controls it is shown, the roles the resolver    *)
(* asks for, the roles Hasura lets write the row.                          *)
(***************************************************************************)

Can(r) ==
  CASE r = "finance_user" ->
         {"viewDashboard", "recordPayment", "addInvoices", "deleteInvoice", "manageSettings"}
    [] r = "approver" -> {"approve"}
    [] r = "admin" ->
         {"viewDashboard", "approve", "recordPayment", "viewAdminStats", "manageUsers",
          "manageSettings", "deleteInvoice"}

\* The controls of each page, with the capabilities of which one shows them; with
\* none, everybody who sees the page sees them.
PayableControls ==
  [approve |-> {"approve"}, deleteInvoice |-> {"deleteInvoice"},
   recordPayment |-> {"recordPayment"}, reviewDuplicate |-> {}]
ReceivableControls ==
  [resend |-> {"addInvoices"}, deleteInvoice |-> {"deleteInvoice"},
   collection |-> {"addInvoices", "recordPayment"}, recordPayment |-> {"recordPayment"}]
EntryControls ==
  [createInvoice |-> {"addInvoices"}, generateAndSend |-> {"addInvoices"},
   importInvoices |-> {"addInvoices"}, reviewQueue |-> {"addInvoices"}]
CustomerControls ==
  [customerEmail |-> {"manageUsers", "addInvoices", "manageSettings"},
   customerTax |-> {"manageUsers"}]
VendorControls == [vendorEmail |-> {"manageUsers"}]
PartyControls == [addParty |-> {"manageUsers", "addInvoices", "manageSettings"}]
AdminControls == [leads |-> {"viewAdminStats"}, users |-> {"manageUsers"}]

\* /settings is open to a role whose bar lists it.
SettingsControls ==
  [companyName |-> {"manageUsers"}, companyTax |-> {"manageSettings"},
   companyImages |-> {"manageSettings"}, models |-> {"manageUsers"}]

Controls ==
  {PayableControls, ReceivableControls, EntryControls, CustomerControls, VendorControls,
   PartyControls, AdminControls, SettingsControls}

ShownOn(page, r) == {c \in DOMAIN page : page[c] = {} \/ page[c] \cap Can(r) # {}}

\* Mutant of Shown: a role that may record payments is shown the entry forms too.
ShownByPayment(r) ==
  UNION {ShownOn(page, r) : page \in Controls}
    \cup (IF "recordPayment" \in Can(r) THEN DOMAIN EntryControls ELSE {})

Shown(r) == UNION {ShownOn(page, r) : page \in Controls}

\* The bar's pages with the capability that lists them, and those AppLayout bounces
\* a role without the capability from.
Nav ==
  [dashboard |-> {"viewDashboard"}, invoices |-> {}, receivables |-> {}, vendors |-> {},
   customers |-> {}, vendorHistory |-> {"viewDashboard"}, forecast |-> {"viewDashboard"},
   upload |-> {"addInvoices"}, users |-> {"manageUsers"},
   demoRequests |-> {"manageUsers"}, settings |-> {"manageSettings"}]
Gated ==
  [upload |-> {"addInvoices"}, users |-> {"manageUsers"}, forecast |-> {"viewDashboard"},
   dashboard |-> {"viewDashboard"}]

Listed(r) == {p \in DOMAIN Nav : Nav[p] \subseteq Can(r)}
Bounced(r) == {p \in DOMAIN Gated : ~(Gated[p] \subseteq Can(r))}
Landing(r) == IF "viewDashboard" \in Can(r) THEN "dashboard" ELSE "invoices"

\* requireRole, at the top of each resolver.
Requires(c) ==
  CASE c \in {"createInvoice", "importInvoices"} -> {"finance_user"}
    [] c = "approve" -> {"approver", "admin"}
    [] c \in {"vendorEmail", "customerEmail", "companyName", "models", "leads", "users"} ->
         {"admin"}
    [] c = "reviewDuplicate" -> Role
    [] OTHER -> {"finance_user", "admin"}

\* The roles with the insert, update or delete permissions the resolver's mutation
\* needs, as Hasura's metadata grants them; an admin is its company_admin.  The README's
\* table of roles gives less: no deletes, and an approver its own approvals only.
Grants(c) ==
  CASE c \in {"approve", "reviewDuplicate", "models", "users"} -> Role
    [] c \in {"companyName", "leads"} -> {"admin"}
    [] OTHER -> {"finance_user", "admin"}

Allowed(c) == Requires(c) \cap Grants(c)

-----------------------------------------------------------------------------
(***************************************************************************)
(* The server.                                                             *)
(***************************************************************************)

Minted(u) == [user |-> u, left |-> TTL]

Older(c, d) == IF c # None /\ c.left > d THEN [c EXCEPT !.left = @ - d] ELSE None

\* verifyHS256: there is no session in a token that has expired.
Verified(c) == c # None

\* POST /api/graphql refuses a call without a session.
Refused(c) == ~Verified(c)

\* POST /api/refresh, w after it was asked: auth-service signs the claims again,
\* whatever the user's row says by now, unless the token has expired.
Renewal(q, w) ==
  IF Older(q.from, w) = None THEN None
  ELSE Older(Minted(q.from.user), q.age - w)

-----------------------------------------------------------------------------
(***************************************************************************)
(* A tab.                                                                  *)
(***************************************************************************)

SignedIn(t) == tab[t].user # None

Session(p, u, c) ==
  [at |-> "ready", claims |-> None, user |-> u, role |-> RoleOf[c.user], left |-> c.left,
   armed |-> p.armed \/ c.left # p.left, sure |-> p.sure \/ c.left >= Lead]

\* A page that loads has no session yet and asks for it with cookie c; what the tab
\* waited for is gone.
Loaded(t, c) ==
  /\ tab' = [tab EXCEPT ![t] =
       [Blank("reading") EXCEPT !.claims = IF Verified(c) THEN c ELSE None]]
  /\ refresh' = [refresh EXCEPT ![t] = None]
  /\ logout' = [logout EXCEPT ![t] = FALSE]

Load(t) == Loaded(t, cookie) /\ UNCHANGED <<cookie, faults>>

Close(t) ==
  /\ tab[t].at # "closed"
  /\ tab' = [tab EXCEPT ![t] = Blank("closed")]
  /\ refresh' = [refresh EXCEPT ![t] = None]
  /\ logout' = [logout EXCEPT ![t] = FALSE]
  /\ UNCHANGED <<cookie, faults>>

\* The answer to /api/session, or its loss, which reads as signed out.
Read(t) ==
  /\ tab[t].at = "reading"
  /\ \/ faults' = faults /\ tab[t].claims # None
        /\ tab' = [tab EXCEPT ![t] = Session(Blank("ready"), @.claims.user, @.claims)]
     \/ faults' = faults /\ tab[t].claims = None /\ tab' = [tab EXCEPT ![t] = Blank("ready")]
     \/ Fault
        /\ tab' = [tab EXCEPT ![t] = Blank("ready")]
  /\ UNCHANGED <<cookie, refresh, logout>>

\* "Log in": the tab goes to Keycloak's page.
LogIn(t) ==
  /\ tab[t].at = "ready" /\ ~SignedIn(t)
  /\ tab' = [tab EXCEPT ![t] = Blank("keycloak")]
  /\ refresh' = [refresh EXCEPT ![t] = None]
  /\ logout' = [logout EXCEPT ![t] = FALSE]
  /\ UNCHANGED <<cookie, faults>>

\* It comes back: the callback looks the user up, mints the cookie and goes to "/"; one
\* who is not active, or whom auth-service does not find, is sent back without.
SignIn(t, u) ==
  /\ tab[t].at = "keycloak"
  /\ cookie' \in {Minted(u), cookie}
  /\ Loaded(t, cookie')
  /\ UNCHANGED faults

\* The answer to a form brings the cookie and the session.  One that is refused, or
\* does not come, leaves the form as it is.
Welcomed(t, u) ==
  /\ tab[t].at = "ready" /\ ~SignedIn(t)
  /\ cookie' = Minted(u)
  /\ tab' = [tab EXCEPT ![t] = Session(@, u, Minted(u))]
  /\ UNCHANGED <<refresh, logout, faults>>

\* /register makes the first user of a company, its admin; /accept-invite a teammate.
Register(t, u) == RoleOf[u] = "admin" /\ Welcomed(t, u)
AcceptInvite(t, u) == Welcomed(t, u)

\* Anything a signed-in page asks of the BFF and is refused, by the cookie of that
\* moment: lib/apollo.ts signs out.  A call that is answered changes nothing here.
CallRefused(t) ==
  /\ SignedIn(t) /\ Refused(cookie)
  /\ ~logout[t]
  /\ logout' = [logout EXCEPT ![t] = TRUE]
  /\ UNCHANGED <<cookie, tab, refresh, faults>>

Forgotten(p) == [p EXCEPT !.user = None, !.role = None, !.left = 0, !.armed = FALSE,
                          !.sure = FALSE]

\* "Sign out" forgets the session before it asks.
Logout(t) ==
  /\ SignedIn(t)
  /\ tab' = [tab EXCEPT ![t] = Forgotten(@)]
  /\ logout' = [logout EXCEPT ![t] = TRUE]
  /\ UNCHANGED <<cookie, refresh, faults>>

\* The answer to it deletes the cookie, and going to Keycloak and back to /login
\* loads the page again; without an answer the tab goes to /login all the same.
LoggedOut(t) ==
  /\ logout[t]
  /\ \/ cookie' = None /\ faults' = faults
     \/ cookie' = cookie /\ Fault
  /\ Loaded(t, cookie')

\* Mutant of Due: the timer is set for the end of the token.
DueAtTheEnd(p) == p.armed /\ p.left = 0

\* The timer of the effect on session.exp, which only another exp sets again.
Due(p) == p.armed /\ p.left <= Lead

TimerFires(t) ==
  /\ Due(tab[t])
  /\ tab' = [tab EXCEPT ![t].armed = FALSE]
  /\ refresh' = [refresh EXCEPT ![t] = [from |-> cookie, age |-> 0]]
  /\ UNCHANGED <<cookie, logout, faults>>

\* Mutant of Renewed: an answer without a session leaves the tab as it is.
RenewedOrKept(t, c) ==
  tab' = [tab EXCEPT ![t] = IF c = None \/ @.user = None THEN @ ELSE Session(@, @.user, c)]

\* A refresh that is refused signs the tab out; one that comes keeps the name the
\* tab shows and takes the role and the end, unless the tab is signed out by now.
Renewed(t, c) ==
  tab' = [tab EXCEPT ![t] = IF c = None THEN Forgotten(@)
                            ELSE IF @.user = None THEN @
                            ELSE Session(@, @.user, c)]

\* The answer to a refresh, with the cookie it sets or, where there was one that has
\* expired, takes away.
Refreshed(t) ==
  /\ refresh[t] # None
  /\ refresh' = [refresh EXCEPT ![t] = None]
  /\ \E w \in 0..refresh[t].age :
       LET c == Renewal(refresh[t], w) IN
         /\ Renewed(t, c)
         /\ cookie' = IF c = None /\ refresh[t].from = None THEN cookie ELSE c
  /\ UNCHANGED <<logout, faults>>

\* The fetch throws, before the server has seen it or after, and is not tried again;
\* or auth-service does not answer and /api/refresh says 503.
RefreshFails(t) ==
  /\ refresh[t] # None
  /\ Fault
  /\ refresh' = [refresh EXCEPT ![t] = None]
  /\ UNCHANGED tab \/ tab' = [tab EXCEPT ![t] = Forgotten(@)]
  /\ UNCHANGED <<cookie, logout>>

-----------------------------------------------------------------------------
\* Nothing is late: timers have fired and refreshes have come back.
InTime == \A t \in Tab : ~Due(tab[t]) /\ (refresh[t] # None => refresh[t].age < Trip)

\* The clock moves.  A tick that does not wait (a slow network, a laptop asleep) is
\* a fault.
Tick ==
  /\ faults' = IF InTime THEN faults ELSE faults + 1
  /\ faults' <= MaxFaults
  /\ cookie' = Older(cookie, 1)
  /\ tab' = [t \in Tab |-> [tab[t] EXCEPT !.claims = Older(@, 1),
                                          !.left = IF @ = 0 THEN 0 ELSE @ - 1]]
  /\ refresh' = [t \in Tab |-> IF refresh[t] = None THEN None
                               ELSE [refresh[t] EXCEPT !.age = @ + 1]]
  /\ UNCHANGED logout

Next ==
  \/ \E t \in Tab :
       \/ Load(t) \/ Close(t) \/ Read(t) \/ CallRefused(t) \/ Logout(t) \/ LoggedOut(t)
       \/ TimerFires(t) \/ Refreshed(t) \/ RefreshFails(t)
       \/ LogIn(t)
       \/ \E u \in User : SignIn(t, u) \/ Register(t, u) \/ AcceptInvite(t, u)
  \/ Tick

Spec == Init /\ [][Next]_vars

-----------------------------------------------------------------------------
(***************************************************************************)
(* What signing in promises.                                               *)
(***************************************************************************)

\* A refresh asked so late that its token may expire on the way.
TooLate(q) == q # None /\ q.from # None /\ q.from.left <= Trip

\* The silent refresh works: a browser with a tab that has seen its session with Lead to
\* go loses the session only to a sign-out that one of its tabs asked for, in whatever
\* order the refreshes of its tabs come back and whichever tabs are opened and closed
\* meanwhile; as long as no call has been lost or late, for none is tried again, and no
\* tab's refresh was asked so late that its token runs out on the way.
StaysSignedIn ==
  [][ (/\ faults' = 0 /\ cookie # None
       /\ \E t \in Tab : tab[t].sure
       /\ \A t \in Tab : ~TooLate(refresh[t]))
      => cookie' # None \/ (\E t \in Tab : logout[t] /\ ~logout'[t]) ]_vars

\* No such tab shows a session that is over, although it knows only what it was told
\* when it last asked, and another tab may have signed out since, or in as somebody
\* else.
NoTabIsStale == faults = 0 => \A t \in Tab : tab[t].sure => tab[t].left > 0

\* The session a tab shows is the one it acts under, as far as its role goes.
ActsAsShown(t) == SignedIn(t) /\ cookie # None /\ tab[t].role = RoleOf[cookie.user]

\* Such a tab offers nothing that the resolvers or Hasura's permissions would refuse
\* but a customer's e-mail address, and no page it would be sent away from: the four
\* tables of roles are written and changed apart.
OnlyTheEmailIsRefused ==
  \A t \in Tab : ActsAsShown(t) =>
    /\ \A c \in Shown(tab[t].role) \ {"customerEmail"} : tab[t].role \in Allowed(c)
    /\ Landing(tab[t].role) \in Listed(tab[t].role)
    /\ Listed(tab[t].role) \cap Bounced(tab[t].role) = {}
=============================================================================
