---------------------------- MODULE IdentityProofs ----------------------------
(***************************************************************************)
(* Who is in: what holds of the browser's session for any number of tabs   *)
(* and users and any times (Session), and of the making of accounts for    *)
(* any number of concurrent calls, companies, names, emails, invitations   *)
(* and faults (Accounts, here as A).                                       *)
(***************************************************************************)
EXTENDS Session, AccountState, FiniteSetTheorems, TLAPS

\* Both have a Next of their own, and count their own faults.
A == INSTANCE Accounts

-----------------------------------------------------------------------------
\* A tab that shows nobody has nothing left of a session.
OutIsBlank(p) == p.user = None => p.left = 0 /\ ~p.armed /\ ~p.sure

\* What a tab's timer has let pass: while it is set, nothing; then the time its
\* refresh has taken.
Passed(p, q) == IF p.armed THEN 0 ELSE q.age

\* A tab p, the refresh q it waits for and the cookie k, while nothing was late: the
\* tab has a timer or a refresh on its way; what it is sure of was renewed with less
\* than Trip wasted; and the cookie lives as long, less the trip of the answer that
\* may have replaced it since.
Sound(p, q, k) ==
  /\ q # None => q.age <= Trip
  /\ p.user # None => p.armed \/ (q # None /\ (p.left = 0 \/ p.left + q.age <= Lead))
  /\ p.sure => p.left + Passed(p, q) + Trip > Lead
  /\ k # None => /\ k.left + Trip >= p.left
                 /\ p.claims # None => k.left + Trip >= p.claims.left
                 /\ p.sure => k.left + Passed(p, q) + Trip >= Lead

IInv ==
  /\ TypeOK
  /\ \A t \in Tab : refresh[t] # None => refresh[t].age <= Trip + faults
  /\ \A t \in Tab : OutIsBlank(tab[t])
  /\ faults = 0 => \A t \in Tab : Sound(tab[t], refresh[t], cookie)

-----------------------------------------------------------------------------
\* The constants, without the set they are given in.
LEMMA Numbers ==
  /\ TTL \in Nat /\ Lead \in Nat /\ Trip \in Nat /\ MaxFaults \in Nat
  /\ Trip > 0 /\ Lead > 2 * Trip /\ TTL > Lead
BY Times, MaxFaultsIsNatural

\* A token that is minted lives TTL.
LEMMA MintedIsToken ==
  ASSUME NEW u \in User
  PROVE  Minted(u) \in Token /\ Minted(u) # None /\ Minted(u).left = TTL /\ Minted(u).user = u
<1>1. Minted(u) \in Token
  BY Numbers DEF Minted, Token
<1> QED
  BY <1>1, NoneIsNothing DEF Minted

\* A token d later, unless it has expired.
LEMMA OlderToken ==
  ASSUME NEW c \in Token \cup {None}, NEW d \in Nat
  PROVE  /\ Older(c, d) \in Token \cup {None}
         /\ Older(c, d) # None <=> c # None /\ c.left > d
         /\ Older(c, d) # None => Older(c, d).left = c.left - d /\ Older(c, d).user = c.user
<1>1. CASE c # None /\ c.left > d
  <2>1. c \in Token /\ c.left \in 1..TTL /\ TTL \in Nat
    BY <1>1, Numbers DEF Token
  <2> DEFINE o == [c EXCEPT !.left = c.left - d]
  <2>2. c.left - d \in 1..TTL
    BY <1>1, <2>1
  <2>3. o \in Token /\ o.left = c.left - d /\ o.user = c.user
    BY <2>1, <2>2 DEF Token
  <2>4. Older(c, d) = o
    BY <1>1 DEF Older
  <2> QED
    BY <1>1, <2>3, <2>4, NoneIsNothing
<1>2. CASE ~(c # None /\ c.left > d)
  BY <1>2 DEF Older
<1> QED
  BY <1>1, <1>2

\* What /api/refresh answers: a token that is younger than the request, or none if
\* the one it was asked with has expired.
LEMMA RenewalToken ==
  ASSUME NEW q \in Asked, NEW w \in 0..q.age
  PROVE  /\ Renewal(q, w) \in Token \cup {None}
         /\ Renewal(q, w) # None => q.from # None /\ Renewal(q, w).left = TTL - (q.age - w)
         /\ q.age < TTL /\ q.from # None /\ q.from.left > w => Renewal(q, w) # None
<1>1. q.from \in Token \cup {None} /\ q.age \in Nat /\ w \in Nat /\ q.age - w \in Nat
  BY Numbers DEF Asked
<1>2. Older(q.from, w) # None <=> q.from # None /\ q.from.left > w
  BY <1>1, OlderToken
<1>3. CASE Older(q.from, w) = None
  BY <1>2, <1>3 DEF Renewal
<1>4. CASE Older(q.from, w) # None
  <2> DEFINE m == Minted(q.from.user)
  <2>1. q.from.user \in User
    BY <1>1, <1>2, <1>4 DEF Token
  <2>2. m \in Token /\ m # None /\ m.left = TTL
    BY <2>1, MintedIsToken
  <2>3. Renewal(q, w) = Older(m, q.age - w)
    BY <1>4 DEF Renewal
  <2> HIDE DEF m
  <2>4. /\ Older(m, q.age - w) \in Token \cup {None}
        /\ Older(m, q.age - w) # None <=> TTL > q.age - w
        /\ Older(m, q.age - w) # None => Older(m, q.age - w).left = TTL - (q.age - w)
    BY <1>1, <2>2, OlderToken
  <2>5. q.age < TTL => TTL > q.age - w
    BY <1>1, Numbers
  <2> QED
    BY <1>2, <1>4, <2>3, <2>4, <2>5
<1> QED
  BY <1>3, <1>4

-----------------------------------------------------------------------------
\* The pages that the tab's steps make.
LEMMA BlankPage ==
  ASSUME NEW at \in {"closed", "reading", "ready", "keycloak"}, NEW c \in Token \cup {None}
  PROVE  /\ [Blank(at) EXCEPT !.claims = c] \in Page /\ Blank(at) \in Page
         /\ OutIsBlank([Blank(at) EXCEPT !.claims = c]) /\ OutIsBlank(Blank(at))
         /\ [Blank(at) EXCEPT !.claims = c].claims = c /\ Blank(at).claims = None
         /\ [Blank(at) EXCEPT !.claims = c].user = None /\ Blank(at).user = None
         /\ [Blank(at) EXCEPT !.claims = c].left = 0
<1>1. 0 \in 0..TTL /\ FALSE \in BOOLEAN
  BY Numbers
<1> DEFINE b == [at |-> at, claims |-> None, user |-> None, role |-> None, left |-> 0,
                 armed |-> FALSE, sure |-> FALSE]
<1>2. Blank(at) = b
  BY Zenon DEF Blank
<1>3. b \in Page /\ b.claims = None /\ b.user = None /\ b.left = 0 /\ ~b.armed /\ ~b.sure
  BY <1>1 DEF Page
<1> HIDE DEF b
<1>4. /\ [b EXCEPT !.claims = c] \in Page /\ [b EXCEPT !.claims = c].claims = c
      /\ [b EXCEPT !.claims = c].user = None /\ [b EXCEPT !.claims = c].left = 0
      /\ ~[b EXCEPT !.claims = c].armed /\ ~[b EXCEPT !.claims = c].sure
  BY <1>3 DEF Page
<1> QED
  BY <1>2, <1>3, <1>4 DEF OutIsBlank

\* A page that forgets its session is a signed-out one.
LEMMA ForgottenPage ==
  ASSUME NEW p \in Page
  PROVE  /\ Forgotten(p) \in Page /\ OutIsBlank(Forgotten(p))
         /\ Forgotten(p).claims = p.claims
         /\ Forgotten(p).user = None
<1>1. 0 \in 0..TTL /\ FALSE \in BOOLEAN
  BY Numbers
<1> DEFINE f == Forgotten(p)
<1>2. f \in [at : {"closed", "reading", "ready", "keycloak"}, claims : Token \cup {None},
              user : User \cup {None}, role : Role \cup {None}, left : 0..TTL,
              armed : BOOLEAN, sure : BOOLEAN]
  BY <1>1 DEF Forgotten, Page
<1>3. f.claims = p.claims /\ f.user = None /\ f.left = 0 /\ ~f.armed /\ ~f.sure
  BY DEF Forgotten, Page
<1> QED
  BY <1>2, <1>3 DEF OutIsBlank, Page

\* A page that takes up a session has that one, and its timer armed.
LEMMA SessionPage ==
  ASSUME NEW p \in Page, NEW u \in User, NEW c \in Token
  PROVE  /\ Session(p, u, c) \in Page
         /\ OutIsBlank(Session(p, u, c))
         /\ Session(p, u, c).left = c.left
         /\ Session(p, u, c).user = u
         /\ Session(p, u, c).claims = None
         /\ Session(p, u, c).armed <=> p.armed \/ c.left # p.left
         /\ Session(p, u, c).sure <=> p.sure \/ c.left >= Lead
<1>1. c.user \in User /\ c.left \in 1..TTL /\ c.left \in 0..TTL
  BY Numbers DEF Token
<1>2. RoleOf[c.user] \in Role
  BY <1>1, Roles
<1>3. (p.armed \/ c.left # p.left) \in BOOLEAN /\ (p.sure \/ c.left >= Lead) \in BOOLEAN
  BY Zenon
<1> DEFINE armed == p.armed \/ c.left # p.left
           sure == p.sure \/ c.left >= Lead
<1>4. Session(p, u, c) =
        [at |-> "ready", claims |-> None, user |-> u, role |-> RoleOf[c.user], left |-> c.left,
         armed |-> armed, sure |-> sure]
  BY Zenon DEF Session
<1>5. armed \in BOOLEAN /\ sure \in BOOLEAN
  BY <1>3, Zenon
<1>6. u # None
  BY NoneIsNothing
<1> HIDE DEF armed, sure
<1>7. /\ Session(p, u, c) \in Page
      /\ Session(p, u, c).left = c.left
      /\ Session(p, u, c).user = u
      /\ Session(p, u, c).claims = None
      /\ Session(p, u, c).armed = armed
      /\ Session(p, u, c).sure = sure
  BY <1>1, <1>2, <1>4, <1>5 DEF Page
<1> QED
  BY <1>6, <1>7 DEF OutIsBlank, armed, sure

\* The numbers of a page, for arithmetic.
LEMMA PageNumbers ==
  ASSUME NEW p \in Page
  PROVE  p.left \in 0..TTL /\ p.left \in Nat /\ p.left <= TTL
         /\ p.claims \in Token \cup {None} /\ p.user \in User \cup {None}
BY Numbers DEF Page

\* A token is still good for a while.
LEMMA TokenNumbers ==
  ASSUME NEW c \in Token
  PROVE  c.left \in Nat /\ 0 < c.left /\ c.left <= TTL /\ c.user \in User /\ c # None
BY Numbers, NoneIsNothing DEF Token

\* A refresh that was asked for has an age.
LEMMA AskedNumbers ==
  ASSUME NEW q \in Asked
  PROVE  q.age \in Nat /\ q.from \in Token \cup {None} /\ q # None
BY Numbers, NoneIsNothing DEF Asked

-----------------------------------------------------------------------------
\* A page without a session is sound, with what it has claimed.
LEMMA SoundWithoutSession ==
  ASSUME NEW p \in Page, NEW q \in Asked \cup {None}, NEW k \in Token \cup {None},
         p.user = None, OutIsBlank(p), q # None => q.age <= Trip,
         k # None /\ p.claims # None => k.left + Trip >= p.claims.left
  PROVE  Sound(p, q, k)
BY Numbers, TokenNumbers DEF Sound, OutIsBlank

\* The cookie goes, or a younger one comes.
LEMMA SoundWithNewCookie ==
  ASSUME NEW p \in Page, NEW q \in Asked \cup {None}, NEW k, NEW l \in Token \cup {None},
         Sound(p, q, k), OutIsBlank(p), l # None /\ l # k => l.left + Trip >= TTL
  PROVE  Sound(p, q, l)
<1>1. CASE l = k
  BY <1>1
<1>2. CASE l = None
  BY <1>2 DEF Sound
<1>3. CASE l # None /\ l # k
  <2>1. l.left \in Nat /\ l.left + Trip >= TTL
    BY <1>3, TokenNumbers
  <2>2. p.left \in Nat /\ p.left <= TTL
    BY PageNumbers
  <2>3. p.claims # None => p.claims.left \in Nat /\ p.claims.left <= TTL
    BY PageNumbers, TokenNumbers
  <2>4. p.sure => Passed(p, q) \in Nat
    BY AskedNumbers DEF Sound, OutIsBlank, Passed
  <2> QED
    BY <2>1, <2>2, <2>3, <2>4, Numbers DEF Sound
<1> QED
  BY <1>1, <1>2, <1>3

\* A page reads the session it has claimed.
LEMMA SoundOnceRead ==
  ASSUME NEW p \in Page, NEW q \in Asked \cup {None}, NEW k \in Token \cup {None},
         Sound(p, q, k), p.claims # None
  PROVE  Sound(Session(Blank("ready"), p.claims.user, p.claims), q, k)
<1> DEFINE r == Session(Blank("ready"), p.claims.user, p.claims)
<1>1. p.claims \in Token /\ p.claims.left \in Nat /\ 0 < p.claims.left /\ p.claims.user \in User
  BY PageNumbers, TokenNumbers
<1>2. Blank("ready") \in Page /\ Blank("ready").left = 0 /\ ~Blank("ready").sure
  BY BlankPage DEF Blank
<1>3. /\ r.left = p.claims.left /\ r.claims = None /\ r.armed
      /\ r.sure => p.claims.left >= Lead
  BY <1>1, <1>2, SessionPage
<1> SUFFICES Sound(r, q, k)
  OBVIOUS
<1> HIDE DEF r
<1>4. k # None => k.left \in Nat /\ k.left + Trip >= p.claims.left
  BY TokenNumbers DEF Sound
<1> QED
  BY <1>1, <1>3, <1>4, Numbers DEF Sound, Passed

\* A form is answered with a new session.
LEMMA SoundOnceWelcomed ==
  ASSUME NEW p \in Page, NEW q \in Asked \cup {None}, NEW u \in User,
         OutIsBlank(p), p.user = None, q # None => q.age <= Trip
  PROVE  Sound(Session(p, u, Minted(u)), q, Minted(u))
<1> DEFINE r == Session(p, u, Minted(u))
<1>1. Minted(u) \in Token /\ Minted(u) # None /\ Minted(u).left = TTL
  BY MintedIsToken
<1>2. p.left = 0
  BY DEF OutIsBlank
<1>3. r.left = TTL /\ r.claims = None /\ r.armed
  BY <1>1, <1>2, SessionPage, Numbers
<1> SUFFICES Sound(r, q, Minted(u))
  OBVIOUS
<1> HIDE DEF r
<1> QED
  BY <1>1, <1>3, Numbers DEF Sound, Passed

\* The timer fires.
LEMMA SoundOnceFired ==
  ASSUME NEW p \in Page, NEW q \in Asked \cup {None}, NEW k \in Token \cup {None},
         Sound(p, q, k), Due(p)
  PROVE  Sound([p EXCEPT !.armed = FALSE], [from |-> k, age |-> 0], k)
<1> DEFINE r == [p EXCEPT !.armed = FALSE]
           a == [from |-> k, age |-> 0]
<1>1. /\ r.left = p.left /\ r.claims = p.claims /\ r.user = p.user /\ r.sure = p.sure
      /\ ~r.armed
  BY DEF Page
<1>2. a \in Asked /\ a.age = 0 /\ a # None
  BY Numbers, NoneIsNothing DEF Asked
<1> SUFFICES Sound(r, a, k)
  OBVIOUS
<1> HIDE DEF r, a
<1>3. p.armed /\ p.left <= Lead /\ p.left \in Nat
  BY PageNumbers DEF Due
<1>4. k # None => k.left \in Nat
  BY TokenNumbers
<1> QED
  BY <1>1, <1>2, <1>3, <1>4, Numbers DEF Sound, Passed

\* The refresh comes back with a token: the page has a timer again, for that token
\* ends later than the one it had.
LEMMA SoundOnceRenewed ==
  ASSUME NEW p \in Page, NEW q \in Asked, NEW k \in Token \cup {None}, NEW c \in Token,
         Sound(p, q, k), OutIsBlank(p), p.user # None, c.left <= TTL, c.left >= TTL - q.age
  PROVE  Sound(Session(p, p.user, c), None, c)
<1> DEFINE r == Session(p, p.user, c)
<1>1. /\ p.left \in Nat /\ p.user \in User /\ q.age \in Nat /\ q # None
      /\ c.left \in Nat /\ 0 < c.left
  BY PageNumbers, AskedNumbers, TokenNumbers
<1>2. q.age <= Trip /\ (p.armed \/ p.left = 0 \/ p.left + q.age <= Lead)
  BY <1>1 DEF Sound
<1>3. /\ r.left = c.left /\ r.claims = None /\ r.user = p.user
      /\ r.armed <=> p.armed \/ c.left # p.left
  BY <1>1, SessionPage
<1> SUFFICES Sound(r, None, c)
  OBVIOUS
<1> HIDE DEF r
<1>4. r.armed
  BY <1>1, <1>2, <1>3, Numbers
<1> QED
  BY <1>1, <1>2, <1>3, <1>4, Numbers DEF Sound, Passed

\* A tick in time passes no timer that is due and no refresh that should be back.
LEMMA SoundOneLater ==
  ASSUME NEW p \in Page, NEW r \in Page, NEW q \in Asked \cup {None},
         NEW a \in Asked \cup {None}, NEW k \in Token \cup {None},
         Sound(p, q, k), OutIsBlank(p), ~Due(p), q # None => q.age < Trip,
         r.user = p.user, r.armed = p.armed, r.sure = p.sure,
         r.claims = Older(p.claims, 1), r.left = IF p.left = 0 THEN 0 ELSE p.left - 1,
         a = None <=> q = None, q # None => a.age = q.age + 1
  PROVE  Sound(r, a, Older(k, 1))
<1>1. p.left \in Nat /\ r.left \in Nat
  BY PageNumbers
<1>2. /\ Older(k, 1) # None => k # None /\ k.left \in Nat /\ Older(k, 1).left = k.left - 1
      /\ r.claims # None =>
           p.claims # None /\ p.claims.left \in Nat /\ r.claims.left = p.claims.left - 1
  BY OlderToken, TokenNumbers, PageNumbers
<1>3. q # None => q.age \in Nat /\ a.age \in Nat
  BY AskedNumbers
<1>4. p.armed => p.left > Lead
  BY <1>1, Numbers DEF Due
<1>5. p.sure => p.user # None
  BY DEF OutIsBlank
<1>6. a # None => a.age <= Trip
  BY <1>3, Numbers
<1>7. r.user # None => r.armed \/ (a # None /\ (r.left = 0 \/ r.left + a.age <= Lead))
  BY <1>1, <1>3, Numbers DEF Sound
<1>8. ASSUME r.sure
      PROVE  /\ r.left + Passed(r, a) + Trip > Lead
             /\ Older(k, 1) # None => Older(k, 1).left + Passed(r, a) + Trip >= Lead
  <2>1. CASE p.armed
    BY <1>1, <1>2, <1>4, <1>8, <2>1, Numbers DEF Sound, Passed
  <2>2. CASE ~p.armed
    <3>1. q # None /\ a # None /\ a.age = q.age + 1 /\ Passed(r, a) = a.age /\ Passed(p, q) = q.age
      BY <1>5, <1>8, <2>2 DEF Sound, Passed
    <3>2. p.left + q.age + Trip > Lead
      BY <1>8, <3>1 DEF Sound
    <3>3. p.left > 0
      BY <1>1, <1>3, <3>1, <3>2, Numbers
    <3>4. r.left + a.age + Trip > Lead
      BY <1>1, <1>3, <3>1, <3>2, <3>3, Numbers
    <3>5. Older(k, 1) # None => Older(k, 1).left + a.age + Trip >= Lead
      BY <1>2, <1>3, <1>8, <3>1, Numbers DEF Sound
    <3> QED
      BY <3>1, <3>4, <3>5
  <2> QED
    BY <2>1, <2>2
<1>9. Older(k, 1) # None =>
        /\ Older(k, 1).left + Trip >= r.left
        /\ r.claims # None => Older(k, 1).left + Trip >= r.claims.left
  BY <1>1, <1>2, Numbers DEF Sound
<1> QED
  BY <1>6, <1>7, <1>8, <1>9 DEF Sound

-----------------------------------------------------------------------------
\* What a step of one tab owes the rest: a cookie that is as it was, gone, or new.
LEMMA StepOfOneTab ==
  ASSUME IInv, NEW t \in Tab, NEW p \in Page, NEW q \in Asked \cup {None},
         tab' = [tab EXCEPT ![t] = p], refresh' = [refresh EXCEPT ![t] = q],
         logout' \in [Tab -> BOOLEAN], faults' \in {faults, faults + 1}, faults' <= MaxFaults,
         cookie' \in Token \cup {None},
         OutIsBlank(p), q # None => q.age <= Trip + faults',
         faults' = 0 /\ cookie' # None /\ cookie' # cookie => cookie'.left + Trip >= TTL,
         faults' = 0 => Sound(p, q, cookie')
  PROVE  IInv'
<1>1. faults \in Nat /\ faults' \in Nat /\ faults' \in 0..MaxFaults /\ faults <= faults'
      /\ (faults' = 0 => faults = 0)
  BY Numbers DEF IInv, TypeOK
<1>2. tab' \in [Tab -> Page] /\ refresh' \in [Tab -> Asked \cup {None}]
  BY DEF IInv, TypeOK
<1>3. TypeOK'
  BY <1>1, <1>2 DEF TypeOK
<1>4. \A s \in Tab : /\ tab'[s] = IF s = t THEN p ELSE tab[s]
                     /\ refresh'[s] = IF s = t THEN q ELSE refresh[s]
  BY DEF IInv, TypeOK
<1>5. \A s \in Tab : OutIsBlank(tab'[s])
  BY <1>4 DEF IInv
<1>6. ASSUME NEW s \in Tab, refresh'[s] # None PROVE refresh'[s].age <= Trip + faults'
  <2>1. CASE s = t
    BY <1>4, <1>6, <2>1
  <2>2. CASE s # t
    <3>1. refresh[s] \in Asked /\ refresh'[s] = refresh[s]
      BY <1>4, <1>6, <2>2 DEF IInv, TypeOK
    <3>2. refresh[s].age <= Trip + faults /\ refresh[s].age \in Nat
      BY <1>6, <3>1, AskedNumbers DEF IInv
    <3> QED
      BY <1>1, <3>1, <3>2, Numbers
  <2> QED
    BY <2>1, <2>2
<1>7. ASSUME faults' = 0, NEW s \in Tab PROVE Sound(tab'[s], refresh'[s], cookie')
  <2>1. CASE s = t
    BY <1>4, <1>7, <2>1
  <2>2. CASE s # t
    <3>1. /\ Sound(tab[s], refresh[s], cookie) /\ OutIsBlank(tab[s])
          /\ tab[s] \in Page /\ refresh[s] \in Asked \cup {None}
      BY <1>1, <1>7 DEF IInv, TypeOK
    <3>2. Sound(tab[s], refresh[s], cookie')
      BY <1>7, <3>1, SoundWithNewCookie
    <3> QED
      BY <1>4, <2>2, <3>2
  <2> QED
    BY <2>1, <2>2
<1> QED
  BY <1>3, <1>5, <1>6, <1>7 DEF IInv

\* A page that starts over.
LEMMA StartingOver ==
  ASSUME IInv, NEW t \in Tab, NEW at \in {"closed", "reading", "ready", "keycloak"},
         NEW c \in Token \cup {None},
         \/ tab' = [tab EXCEPT ![t] = [Blank(at) EXCEPT !.claims = c]] /\ c \in {None, cookie'}
         \/ tab' = [tab EXCEPT ![t] = Blank(at)],
         refresh' = [refresh EXCEPT ![t] = None] \/ refresh' = refresh,
         logout' \in [Tab -> BOOLEAN], faults' \in {faults, faults + 1}, faults' <= MaxFaults,
         cookie' \in {cookie, None} \/ \E u \in User : cookie' = Minted(u)
  PROVE  IInv'
<1>1. PICK p : /\ p \in Page /\ OutIsBlank(p) /\ p.user = None
               /\ tab' = [tab EXCEPT ![t] = p]
               /\ p.claims \in {None, cookie'}
  <2> DEFINE b == Blank(at)
             d == [Blank(at) EXCEPT !.claims = c]
  <2>1. /\ b \in Page /\ OutIsBlank(b) /\ b.user = None /\ b.claims = None
        /\ d \in Page /\ OutIsBlank(d) /\ d.user = None /\ d.claims = c
    BY BlankPage
  <2>2. \/ tab' = [tab EXCEPT ![t] = d] /\ c \in {None, cookie'}
        \/ tab' = [tab EXCEPT ![t] = b]
    OBVIOUS
  <2> HIDE DEF b, d
  <2> QED
    BY <2>1, <2>2
<1>2. PICK q \in {None, refresh[t]} : refresh' = [refresh EXCEPT ![t] = q]
  BY DEF IInv, TypeOK
<1>3. q \in Asked \cup {None}
  BY <1>2 DEF IInv, TypeOK
<1>4. faults \in Nat /\ faults' \in Nat /\ faults <= faults' /\ (faults' = 0 => faults = 0)
  BY Numbers DEF IInv, TypeOK
<1>5. q # None => q.age <= Trip + faults /\ q.age \in Nat
  BY <1>2, <1>3, AskedNumbers DEF IInv
<1>6. q # None => q.age <= Trip + faults'
  BY <1>4, <1>5, Numbers
<1>7. /\ cookie' \in Token \cup {None}
      /\ cookie' # None /\ cookie' # cookie => cookie'.left + Trip >= TTL
  BY MintedIsToken, Numbers DEF IInv, TypeOK
<1>8. ASSUME faults' = 0 PROVE Sound(p, q, cookie')
  <2>1. q # None => q.age <= Trip
    BY <1>4, <1>5, <1>8, Numbers
  <2>2. p.claims # None => cookie'.left + Trip >= p.claims.left
    BY <1>1, <1>7, TokenNumbers, Numbers
  <2> QED
    BY <1>1, <1>3, <1>7, <2>1, <2>2, SoundWithoutSession
<1> QED
  BY <1>1, <1>2, <1>3, <1>6, <1>7, <1>8, StepOfOneTab

\* Each step of Session keeps its invariant: a page that loads,
LEMMA LoadingKeeps ==
  ASSUME IInv, NEW t \in Tab, Loaded(t, cookie'),
         faults' \in {faults, faults + 1}, faults' <= MaxFaults,
         cookie' \in {cookie, None} \/ \E u \in User : cookie' = Minted(u)
  PROVE  IInv'
<1>1. PICK c \in {None, cookie'} :
         tab' = [tab EXCEPT ![t] = [Blank("reading") EXCEPT !.claims = c]]
  BY DEF Loaded
<1>2. c \in Token \cup {None}
  BY <1>1, MintedIsToken DEF IInv, TypeOK
<1>3. logout' \in [Tab -> BOOLEAN]
  BY DEF Loaded, IInv, TypeOK
<1> QED
  BY <1>1, <1>2, <1>3, StartingOver DEF Loaded

\* reads its session,
LEMMA ReadingKeeps ==
  ASSUME IInv, NEW t \in Tab, Read(t)
  PROVE  IInv'
<1>1. logout' \in [Tab -> BOOLEAN] /\ cookie' = cookie /\ refresh' = refresh
      /\ faults \in Nat /\ faults <= MaxFaults
  BY Numbers DEF Read, Fault, IInv, TypeOK
<1>2. CASE tab' = [tab EXCEPT ![t] = Blank("ready")]
  <2>1. faults' \in {faults, faults + 1} /\ faults' <= MaxFaults
    BY <1>1, Numbers DEF Read, Fault
  <2> QED
    BY <1>1, <1>2, <2>1, StartingOver
<1>3. CASE /\ faults' = faults /\ tab[t].claims # None
           /\ tab' = [tab EXCEPT ![t] = Session(Blank("ready"), tab[t].claims.user, tab[t].claims)]
  <2> DEFINE p == Session(Blank("ready"), tab[t].claims.user, tab[t].claims)
  <2>1. tab[t] \in Page /\ refresh[t] \in Asked \cup {None} /\ cookie \in Token \cup {None}
    BY DEF IInv, TypeOK
  <2>2. tab[t].claims \in Token /\ tab[t].claims.user \in User
    BY <1>3, <2>1, PageNumbers, TokenNumbers
  <2>3. p \in Page /\ OutIsBlank(p)
    BY <2>2, BlankPage, SessionPage
  <2>4. faults = 0 => Sound(p, refresh[t], cookie)
    BY <1>3, <2>1, SoundOnceRead DEF IInv
  <2>5. refresh' = [refresh EXCEPT ![t] = refresh[t]]
    BY <1>1 DEF IInv, TypeOK
  <2>6. refresh[t] # None => refresh[t].age <= Trip + faults
    BY DEF IInv
  <2> HIDE DEF p
  <2> QED
    BY <1>1, <1>3, <2>1, <2>3, <2>4, <2>5, <2>6, StepOfOneTab DEF p
<1> QED
  BY <1>2, <1>3 DEF Read, Fault, IInv, TypeOK

\* signs somebody in,
LEMMA WelcomeKeeps ==
  ASSUME IInv, NEW t \in Tab, NEW u \in User, Welcomed(t, u)
  PROVE  IInv'
<1> DEFINE p == Session(tab[t], u, Minted(u))
<1>1. /\ tab[t] \in Page /\ refresh[t] \in Asked \cup {None}
      /\ tab[t].user = None /\ OutIsBlank(tab[t])
  BY DEF IInv, TypeOK, Welcomed, SignedIn
<1>2. tab' = [tab EXCEPT ![t] = p] /\ logout' \in [Tab -> BOOLEAN] /\ faults' = faults
      /\ faults \in Nat /\ faults <= MaxFaults /\ cookie' = Minted(u)
  BY Numbers DEF IInv, TypeOK, Welcomed
<1>3. refresh' = [refresh EXCEPT ![t] = refresh[t]]
  BY DEF IInv, TypeOK, Welcomed
<1>4. p \in Page /\ OutIsBlank(p)
  BY <1>1, MintedIsToken, SessionPage
<1>5. refresh[t] # None => refresh[t].age <= Trip + faults /\ refresh[t].age \in Nat
  BY <1>1, AskedNumbers DEF IInv
<1>6. faults = 0 => Sound(p, refresh[t], Minted(u))
  BY <1>1, <1>5, SoundOnceWelcomed, Numbers
<1>7. Minted(u) \in Token /\ Minted(u).left + Trip >= TTL
  BY MintedIsToken, Numbers
<1> HIDE DEF p
<1> QED
  BY <1>1, <1>2, <1>3, <1>4, <1>5, <1>6, <1>7, StepOfOneTab

\* whose timer fires,
LEMMA FiringKeeps ==
  ASSUME IInv, NEW t \in Tab, TimerFires(t)
  PROVE  IInv'
<1> DEFINE p == [tab[t] EXCEPT !.armed = FALSE]
           q == [from |-> cookie, age |-> 0]
<1>1. tab[t] \in Page /\ refresh[t] \in Asked \cup {None} /\ cookie \in Token \cup {None}
      /\ OutIsBlank(tab[t]) /\ Due(tab[t])
  BY DEF IInv, TypeOK, TimerFires
<1>2. tab' = [tab EXCEPT ![t] = p] /\ refresh' = [refresh EXCEPT ![t] = q]
  BY DEF TimerFires
<1>3. cookie' = cookie /\ faults' = faults /\ logout' \in [Tab -> BOOLEAN]
      /\ faults \in Nat /\ faults <= MaxFaults
  BY Numbers DEF IInv, TypeOK, TimerFires
<1>4. FALSE \in BOOLEAN
  OBVIOUS
<1>5. p \in Page /\ OutIsBlank(p)
  BY <1>1, <1>4 DEF Page, OutIsBlank
<1>6. q \in Asked /\ q.age <= Trip + faults
  BY <1>1, <1>3, Numbers DEF Asked
<1>7. faults = 0 => Sound(p, q, cookie)
  BY <1>1, SoundOnceFired DEF IInv
<1> HIDE DEF p, q
<1> QED
  BY <1>1, <1>2, <1>3, <1>5, <1>6, <1>7, StepOfOneTab

\* What a refresh brings while nothing is late.
LEMMA RefreshBrings ==
  ASSUME IInv, NEW t \in Tab, refresh[t] # None, NEW w \in 0..refresh[t].age
  PROVE  LET c == Renewal(refresh[t], w) IN
           /\ c \in Token \cup {None}
           /\ c # None => /\ refresh[t].from # None
                          /\ faults = 0 => c.left + Trip >= TTL /\ c.left >= TTL - refresh[t].age
                                           /\ c.left <= TTL
           /\ faults = 0 /\ refresh[t].from # None /\ ~TooLate(refresh[t]) => c # None
<1> DEFINE c == Renewal(refresh[t], w)
<1>1. refresh[t] \in Asked /\ refresh[t].age \in Nat /\ w \in Nat /\ w <= refresh[t].age
      /\ refresh[t].from \in Token \cup {None}
      /\ (faults = 0 => refresh[t].age <= Trip)
  <2>1. refresh[t] \in Asked /\ refresh[t].age <= Trip + faults
    BY DEF IInv, TypeOK
  <2> QED
    BY <2>1, AskedNumbers, Numbers
<1>2. /\ c \in Token \cup {None}
      /\ c # None => refresh[t].from # None /\ c.left = TTL - (refresh[t].age - w)
      /\ refresh[t].age < TTL /\ refresh[t].from # None /\ refresh[t].from.left > w => c # None
  BY <1>1, RenewalToken
<1>3. refresh[t].from # None => refresh[t].from.left \in Nat
  BY <1>1, TokenNumbers
<1> HIDE DEF c
<1>4. faults = 0 /\ refresh[t].from # None /\ ~TooLate(refresh[t]) => c # None
  BY <1>1, <1>2, <1>3, Numbers DEF TooLate
<1>5. c # None => /\ refresh[t].from # None
                  /\ faults = 0 => c.left + Trip >= TTL /\ c.left >= TTL - refresh[t].age
                                   /\ c.left <= TTL
  BY <1>1, <1>2, Numbers
<1> QED
  BY <1>2, <1>4, <1>5 DEF c

\* and whose refresh is answered.
LEMMA RefreshKeeps ==
  ASSUME IInv, NEW t \in Tab, Refreshed(t)
  PROVE  IInv'
<1>1. PICK w \in 0..refresh[t].age :
        LET c == Renewal(refresh[t], w) IN
          /\ Renewed(t, c)
          /\ cookie' = IF c = None /\ refresh[t].from = None THEN cookie ELSE c
  BY DEF Refreshed
<1> DEFINE c == Renewal(refresh[t], w)
<1>2. refresh[t] # None /\ refresh' = [refresh EXCEPT ![t] = None] /\ faults' = faults
      /\ logout' \in [Tab -> BOOLEAN] /\ faults \in Nat /\ faults <= MaxFaults
      /\ tab[t] \in Page /\ refresh[t] \in Asked /\ cookie \in Token \cup {None}
      /\ OutIsBlank(tab[t])
  BY Numbers DEF Refreshed, IInv, TypeOK
<1>3. /\ c \in Token \cup {None}
      /\ c # None => /\ refresh[t].from # None
                     /\ faults = 0 => c.left + Trip >= TTL /\ c.left >= TTL - refresh[t].age
                                      /\ c.left <= TTL
  BY <1>2, RefreshBrings
<1>4. Renewed(t, c) /\ cookie' = IF c = None /\ refresh[t].from = None THEN cookie ELSE c
  BY <1>1
<1> HIDE DEF c
<1>5. cookie' \in Token \cup {None}
      /\ (faults' = 0 /\ cookie' # None /\ cookie' # cookie => cookie'.left + Trip >= TTL)
  BY <1>2, <1>3, <1>4
<1>6. faults = 0 => Sound(tab[t], refresh[t], cookie)
  BY DEF IInv
<1>7. CASE c = None
  <2>1. tab' = [tab EXCEPT ![t] = Forgotten(tab[t])]
    BY <1>4, <1>7 DEF Renewed
  <2>2. Forgotten(tab[t]) \in Page /\ OutIsBlank(Forgotten(tab[t]))
        /\ Forgotten(tab[t]).claims = tab[t].claims /\ Forgotten(tab[t]).user = None
    BY <1>2, ForgottenPage
  <2>3. ASSUME faults = 0 PROVE Sound(Forgotten(tab[t]), None, cookie')
    <3>1. cookie' # None => cookie' = cookie
      BY <1>4, <1>7
    <3>2. cookie' # None /\ Forgotten(tab[t]).claims # None
            => cookie'.left + Trip >= Forgotten(tab[t]).claims.left
      BY <1>6, <2>2, <2>3, <3>1 DEF Sound
    <3> QED
      BY <1>5, <2>2, <3>2, SoundWithoutSession
  <2> QED
    BY <1>2, <1>5, <2>1, <2>2, <2>3, StepOfOneTab
<1>8. CASE c # None /\ tab[t].user = None
  <2>1. tab' = [tab EXCEPT ![t] = tab[t]]
    BY <1>4, <1>8 DEF Renewed
  <2>2. cookie' = c
    BY <1>4, <1>8
  <2>3. ASSUME faults = 0 PROVE Sound(tab[t], None, cookie')
    <3>1. tab[t].claims # None => cookie'.left + Trip >= tab[t].claims.left
      <4>1. tab[t].claims # None => tab[t].claims.left \in Nat /\ tab[t].claims.left <= TTL
        BY <1>2, PageNumbers, TokenNumbers
      <4>2. c.left \in Nat /\ c.left + Trip >= TTL
        BY <1>3, <1>8, <2>3, TokenNumbers
      <4> QED
        BY <2>2, <4>1, <4>2, Numbers
    <3> QED
      BY <1>2, <1>5, <1>8, <3>1, SoundWithoutSession
  <2> QED
    BY <1>2, <1>5, <2>1, <2>3, StepOfOneTab
<1>9. CASE c # None /\ tab[t].user # None
  <2> DEFINE p == Session(tab[t], tab[t].user, c)
  <2>1. tab' = [tab EXCEPT ![t] = p] /\ cookie' = c /\ c \in Token /\ tab[t].user \in User
    BY <1>2, <1>3, <1>4, <1>9, PageNumbers DEF Renewed
  <2>2. p \in Page /\ OutIsBlank(p)
    BY <1>2, <2>1, SessionPage
  <2>3. faults = 0 => Sound(p, None, cookie')
    BY <1>2, <1>3, <1>6, <1>9, <2>1, SoundOnceRenewed
  <2> HIDE DEF p
  <2> QED
    BY <1>2, <1>5, <2>1, <2>2, <2>3, StepOfOneTab
<1> QED
  BY <1>7, <1>8, <1>9

\* A tick: in time, everything is a little later; out of time, a fault has been counted.
LEMMA TickKeeps ==
  ASSUME IInv, Tick
  PROVE  IInv'
<1>1. faults \in Nat /\ faults' \in Nat /\ faults' <= MaxFaults
      /\ (faults' = 0 => faults = 0 /\ InTime)
      /\ (InTime => faults' = faults) /\ (~InTime => faults' = faults + 1)
      /\ cookie \in Token \cup {None} /\ logout' \in [Tab -> BOOLEAN]
  <2>1. faults \in Nat /\ cookie \in Token \cup {None} /\ logout \in [Tab -> BOOLEAN]
    BY Numbers DEF IInv, TypeOK
  <2>2. faults' <= MaxFaults /\ logout' = logout
    BY Zenon DEF Tick
  <2>3. (InTime => faults' = faults) /\ (~InTime => faults' = faults + 1)
    BY Zenon DEF Tick
  <2> QED
    BY <2>1, <2>2, <2>3
<1>2. ASSUME NEW t \in Tab
      PROVE  /\ tab'[t] \in Page
             /\ tab'[t].user = tab[t].user /\ tab'[t].armed = tab[t].armed
             /\ tab'[t].sure = tab[t].sure /\ tab'[t].claims = Older(tab[t].claims, 1)
             /\ tab'[t].left = IF tab[t].left = 0 THEN 0 ELSE tab[t].left - 1
  <2> DEFINE p == tab[t]
             o == Older(p.claims, 1)
             l == IF p.left = 0 THEN 0 ELSE p.left - 1
             r == [p EXCEPT !.claims = o, !.left = l]
  <2>1. p \in Page /\ p.left \in 0..TTL /\ p.claims \in Token \cup {None}
    BY PageNumbers DEF IInv, TypeOK
  <2>2. o \in Token \cup {None} /\ l \in 0..TTL
    BY <2>1, OlderToken, Numbers
  <2>3. tab'[t] = r
    BY DEF Tick
  <2> HIDE DEF p, o, l
  <2>4. /\ r \in Page /\ r.user = p.user /\ r.armed = p.armed /\ r.sure = p.sure
        /\ r.claims = o /\ r.left = l
    BY <2>1, <2>2 DEF Page
  <2> QED
    BY <2>3, <2>4 DEF p, o, l
<1>3. ASSUME NEW t \in Tab
      PROVE  /\ refresh'[t] \in Asked \cup {None} /\ (refresh'[t] = None <=> refresh[t] = None)
             /\ refresh[t] # None => /\ refresh'[t].age = refresh[t].age + 1
                                     /\ refresh'[t].age <= Trip + faults'
                                     /\ InTime => refresh[t].age < Trip
  <2>1. CASE refresh[t] = None
    BY <2>1 DEF Tick
  <2>2. CASE refresh[t] # None
    <3> DEFINE a == [refresh[t] EXCEPT !.age = refresh[t].age + 1]
    <3>1. refresh[t] \in Asked /\ refresh[t].age <= Trip + faults
      BY <2>2 DEF IInv, TypeOK
    <3>2. refresh[t].age \in Nat /\ refresh[t].from \in Token \cup {None}
      BY <3>1, AskedNumbers
    <3>3. InTime => refresh[t].age < Trip
      BY <2>2 DEF InTime
    <3>4. refresh[t].age + 1 <= Trip + faults' /\ refresh[t].age + 1 \in 0..(Trip + MaxFaults)
      BY <1>1, <3>1, <3>2, <3>3, Numbers
    <3>5. a \in Asked /\ a.age = refresh[t].age + 1
      BY <3>1, <3>2, <3>4 DEF Asked
    <3>6. refresh'[t] = a
      BY <2>2 DEF Tick
    <3> HIDE DEF a
    <3> QED
      BY <2>2, <3>3, <3>4, <3>5, <3>6, AskedNumbers
  <2> QED
    BY <2>1, <2>2
<1>4. cookie' = Older(cookie, 1) /\ cookie' \in Token \cup {None}
  BY <1>1, OlderToken DEF Tick
<1>5. TypeOK'
  <2>1. tab' \in [Tab -> Page]
    BY <1>2 DEF Tick
  <2>2. refresh' \in [Tab -> Asked \cup {None}]
    BY <1>3 DEF Tick
  <2>3. faults' \in 0..MaxFaults
    BY <1>1, Numbers
  <2> QED
    BY <1>1, <1>4, <2>1, <2>2, <2>3 DEF TypeOK
<1>6. \A t \in Tab : refresh'[t] # None => refresh'[t].age <= Trip + faults'
  BY <1>3
<1>7. ASSUME NEW t \in Tab PROVE OutIsBlank(tab'[t])
  <2>1. OutIsBlank(tab[t])
    BY DEF IInv
  <2> QED
    BY <1>2, <2>1 DEF OutIsBlank
<1>8. ASSUME faults' = 0, NEW t \in Tab PROVE Sound(tab'[t], refresh'[t], cookie')
  <2>1. /\ Sound(tab[t], refresh[t], cookie) /\ OutIsBlank(tab[t])
        /\ tab[t] \in Page /\ refresh[t] \in Asked \cup {None}
    BY <1>1, <1>8 DEF IInv, TypeOK
  <2>2. ~Due(tab[t]) /\ (refresh[t] # None => refresh[t].age < Trip)
    BY <1>1, <1>8 DEF InTime
  <2> QED
    BY <1>1, <1>2, <1>3, <1>4, <2>1, <2>2, SoundOneLater
<1> QED
  BY <1>5, <1>6, <1>7, <1>8 DEF IInv

\* IInv is inductive: whatever the tabs of a browser do, in any order.
THEOREM Safety == Spec => []IInv
<1>1. Init => IInv
  <2> SUFFICES ASSUME Init PROVE IInv
    OBVIOUS
  <2>1. \A t \in Tab : tab[t] = Blank("closed") /\ refresh[t] = None
    BY DEF Init
  <2>2. /\ Blank("closed") \in Page /\ OutIsBlank(Blank("closed"))
        /\ Blank("closed").user = None /\ Blank("closed").claims = None
    BY BlankPage
  <2>3. TypeOK
    <3>1. logout \in [Tab -> BOOLEAN]
      BY Zenon DEF Init
    <3>2. faults \in 0..MaxFaults
      BY Numbers DEF Init
    <3> QED
      BY <2>2, <3>1, <3>2 DEF Init, TypeOK
  <2>4. \A t \in Tab : Sound(tab[t], refresh[t], cookie)
    <3>1. Sound(Blank("closed"), None, None)
      BY <2>2, SoundWithoutSession
    <3> QED
      BY <2>1, <3>1 DEF Init
  <2> QED
    BY <2>1, <2>2, <2>3, <2>4 DEF IInv
<1>2. IInv /\ [Next]_vars => IInv'
  <2> SUFFICES ASSUME IInv, [Next]_vars PROVE IInv'
    OBVIOUS
  <2>0. /\ faults \in Nat /\ faults <= MaxFaults
        /\ cookie \in Token \cup {None} /\ tab \in [Tab -> Page] /\ logout \in [Tab -> BOOLEAN]
        /\ refresh \in [Tab -> Asked \cup {None}]
    BY Numbers DEF IInv, TypeOK
  <2>1. ASSUME NEW t \in Tab, Load(t) PROVE IInv'
    BY <2>0, <2>1, LoadingKeeps DEF Load
  <2>2. ASSUME NEW t \in Tab, Close(t) \/ LogIn(t) PROVE IInv'
    <3>1. PICK at \in {"closed", "reading", "ready", "keycloak"} :
            tab' = [tab EXCEPT ![t] = Blank(at)]
      BY <2>2 DEF Close, LogIn
    <3>2. logout' \in [Tab -> BOOLEAN] /\ refresh' = [refresh EXCEPT ![t] = None]
          /\ cookie' = cookie /\ faults' = faults
      BY <2>0, <2>2 DEF Close, LogIn
    <3> QED
      BY <2>0, <3>1, <3>2, StartingOver
  <2>3. ASSUME NEW t \in Tab, Read(t) PROVE IInv'
    BY <2>3, ReadingKeeps
  <2>4. ASSUME NEW t \in Tab, CallRefused(t) PROVE IInv'
    BY <2>0, <2>4 DEF CallRefused, IInv, TypeOK
  <2>5. ASSUME NEW t \in Tab, Logout(t) PROVE IInv'
    <3> DEFINE p == Forgotten(tab[t])
    <3>1. tab' = [tab EXCEPT ![t] = p] /\ cookie' = cookie /\ faults' = faults
          /\ refresh' = [refresh EXCEPT ![t] = refresh[t]] /\ logout' \in [Tab -> BOOLEAN]
      BY <2>0, <2>5 DEF Logout
    <3>2. tab[t] \in Page /\ refresh[t] \in Asked \cup {None}
      BY <2>0
    <3>3. p \in Page /\ OutIsBlank(p) /\ p.claims = tab[t].claims /\ p.user = None
      BY <3>2, ForgottenPage
    <3> HIDE DEF p
    <3>4. faults = 0 => Sound(p, refresh[t], cookie)
      <4> SUFFICES ASSUME faults = 0 PROVE Sound(p, refresh[t], cookie)
        OBVIOUS
      <4>1. Sound(tab[t], refresh[t], cookie)
        BY DEF IInv
      <4>2. /\ refresh[t] # None => refresh[t].age <= Trip
            /\ cookie # None /\ p.claims # None => cookie.left + Trip >= p.claims.left
        BY <3>3, <4>1 DEF Sound
      <4> QED
        BY <2>0, <3>2, <3>3, <4>2, SoundWithoutSession
    <3>5. refresh[t] # None => refresh[t].age <= Trip + faults
      BY DEF IInv
    <3> QED
      BY <2>0, <3>1, <3>2, <3>3, <3>4, <3>5, StepOfOneTab
  <2>6. ASSUME NEW t \in Tab, LoggedOut(t) PROVE IInv'
    <3>1. faults' \in {faults, faults + 1} /\ faults' <= MaxFaults /\ cookie' \in {cookie, None}
      BY <2>0, <2>6, Numbers DEF LoggedOut, Fault
    <3> QED
      BY <2>6, <3>1, LoadingKeeps DEF LoggedOut, Fault
  <2>7. ASSUME NEW t \in Tab, TimerFires(t) PROVE IInv'
    BY <2>7, FiringKeeps
  <2>8. ASSUME NEW t \in Tab, Refreshed(t) PROVE IInv'
    BY <2>8, RefreshKeeps
  <2>9. ASSUME NEW t \in Tab, RefreshFails(t) PROVE IInv'
    <3>1. PICK p \in {tab[t], Forgotten(tab[t])} : tab' = [tab EXCEPT ![t] = p]
      BY <2>0, <2>9 DEF RefreshFails, Fault
    <3>2. p \in Page /\ OutIsBlank(p)
      BY <2>0, <3>1, ForgottenPage DEF IInv
    <3>3. /\ refresh' = [refresh EXCEPT ![t] = None] /\ cookie' = cookie
          /\ logout' \in [Tab -> BOOLEAN]
          /\ faults' = faults + 1 /\ faults' <= MaxFaults /\ faults' # 0
      BY <2>0, <2>9, Numbers DEF RefreshFails, Fault
    <3> QED
      BY <2>0, <3>1, <3>2, <3>3, StepOfOneTab
  <2>10. ASSUME NEW t \in Tab, NEW u \in User, SignIn(t, u) PROVE IInv'
    BY <2>0, <2>10, LoadingKeeps DEF SignIn
  <2>11. ASSUME NEW t \in Tab, NEW u \in User, Register(t, u) \/ AcceptInvite(t, u) PROVE IInv'
    BY <2>11, WelcomeKeeps DEF Register, AcceptInvite
  <2>12. CASE Tick
    BY <2>12, TickKeeps
  <2>13. CASE UNCHANGED vars
    BY <2>13 DEF vars, IInv, TypeOK
  <2> QED
    BY <2>1, <2>2, <2>3, <2>4, <2>5, <2>6, <2>7, <2>8, <2>9, <2>10, <2>11, <2>12, <2>13 DEF Next
<1> QED
  BY <1>1, <1>2, PTL DEF Spec

\* The cookie and the tabs keep their types, for any tabs, users and times.
THEOREM TypeCorrect == Spec => []TypeOK
<1>1. IInv => TypeOK
  BY DEF IInv
<1> QED
  BY <1>1, Safety, PTL

\* No tab that has seen its session with Lead to go shows one that is over.
THEOREM NoTabStaysStale == Spec => []NoTabIsStale
<1>1. IInv => NoTabIsStale
  <2> SUFFICES ASSUME IInv, faults = 0, NEW t \in Tab, tab[t].sure PROVE tab[t].left > 0
    BY DEF NoTabIsStale
  <2>1. /\ Sound(tab[t], refresh[t], cookie) /\ OutIsBlank(tab[t])
        /\ tab[t] \in Page /\ refresh[t] \in Asked \cup {None}
    BY DEF IInv, TypeOK
  <2>2. /\ tab[t].left \in Nat
        /\ refresh[t] # None => refresh[t].age \in Nat /\ refresh[t].age <= Trip
    BY <2>1, PageNumbers, AskedNumbers DEF Sound
  <2>3. tab[t].armed \/ refresh[t] # None
    BY <2>1 DEF Sound, OutIsBlank
  <2>4. tab[t].left + Passed(tab[t], refresh[t]) + Trip > Lead
    BY <2>1 DEF Sound
  <2> QED
    BY <2>2, <2>3, <2>4, Numbers DEF Passed
<1> QED
  BY <1>1, Safety, PTL

\* While nothing is lost or late, and no refresh was asked too late, the browser of
\* such a tab loses its cookie to nothing but a sign-out one of its tabs has asked for.
THEOREM TheBrowserStaysSignedIn == Spec => StaysSignedIn
<1> DEFINE Promise ==
      (/\ faults' = 0 /\ cookie # None
       /\ \E t \in Tab : tab[t].sure
       /\ \A t \in Tab : ~TooLate(refresh[t]))
      => cookie' # None \/ (\E t \in Tab : logout[t] /\ ~logout'[t])
<1>1. IInv /\ [Next]_vars => [Promise]_vars
  <2> SUFFICES ASSUME IInv, [Next]_vars, faults' = 0, cookie # None, NEW s \in Tab, tab[s].sure,
                      \A t \in Tab : ~TooLate(refresh[t])
               PROVE  cookie' # None \/ (\E t \in Tab : logout[t] /\ ~logout'[t])
    OBVIOUS
  <2>0. faults \in Nat /\ cookie \in Token /\ cookie.left \in Nat
    BY Numbers, TokenNumbers DEF IInv, TypeOK
  <2>1. ASSUME cookie' = cookie PROVE cookie' # None
    BY <2>1
  <2>2. ASSUME NEW t \in Tab, LoggedOut(t) PROVE logout[t] /\ ~logout'[t]
    BY <2>2 DEF LoggedOut, Fault, Loaded, IInv, TypeOK
  <2>3. ASSUME NEW t \in Tab, Refreshed(t) PROVE cookie' # None
    <3>1. PICK w \in 0..refresh[t].age :
            cookie' = IF Renewal(refresh[t], w) = None /\ refresh[t].from = None
                      THEN cookie ELSE Renewal(refresh[t], w)
      BY <2>3 DEF Refreshed
    <3>2. refresh[t] # None /\ faults = 0
      BY <2>3 DEF Refreshed
    <3>3. refresh[t].from # None => Renewal(refresh[t], w) # None
      BY <3>2, RefreshBrings
    <3> QED
      BY <3>1, <3>3
  <2>4. ASSUME NEW t \in Tab, NEW u \in User,
               SignIn(t, u) \/ Register(t, u) \/ AcceptInvite(t, u)
        PROVE  cookie' # None
    BY <2>4, MintedIsToken DEF SignIn, Register, AcceptInvite, Welcomed
  <2>5. ASSUME Tick PROVE cookie' # None
    <3>1. faults = 0 /\ InTime
      <4>1. (InTime => faults' = faults) /\ (~InTime => faults' = faults + 1)
        BY <2>5, Zenon DEF Tick
      <4> QED
        BY <2>0, <4>1
    <3>2. /\ Sound(tab[s], refresh[s], cookie) /\ OutIsBlank(tab[s])
          /\ tab[s] \in Page /\ refresh[s] \in Asked \cup {None}
      BY <3>1 DEF IInv, TypeOK
    <3>3. ~Due(tab[s]) /\ (refresh[s] # None => refresh[s].age < Trip)
      BY <3>1 DEF InTime
    <3>4. tab[s].left \in Nat /\ (refresh[s] # None => refresh[s].age \in Nat)
      BY <3>2, PageNumbers, AskedNumbers
    <3>5. tab[s].armed \/ refresh[s] # None
      BY <3>2 DEF Sound, OutIsBlank
    <3>6. cookie.left + Trip >= tab[s].left
          /\ cookie.left + Passed(tab[s], refresh[s]) + Trip >= Lead
      BY <3>2 DEF Sound
    <3>7. cookie.left > 1
      BY <2>0, <3>3, <3>4, <3>5, <3>6, Numbers DEF Due, Passed
    <3>8. cookie' = Older(cookie, 1)
      BY <2>5 DEF Tick
    <3> QED
      BY <2>0, <3>7, <3>8, OlderToken
  <2>6. CASE UNCHANGED vars
    BY <2>1, <2>6 DEF vars
  <2>7. ASSUME NEW t \in Tab,
               Load(t) \/ Close(t) \/ Read(t) \/ CallRefused(t) \/ Logout(t) \/ TimerFires(t)
                 \/ RefreshFails(t) \/ LogIn(t)
        PROVE  cookie' # None
    BY <2>1, <2>7 DEF Load, Close, Read, Fault, CallRefused, Logout, TimerFires, RefreshFails,
                      Fault, LogIn
  <2> QED
    BY <2>2, <2>3, <2>4, <2>5, <2>6, <2>7 DEF Next
<1> QED
  BY <1>1, Safety, PTL DEF Spec, StaysSignedIn
-----------------------------------------------------------------------------
(***************************************************************************)
(* The tables of roles.                                                    *)
(***************************************************************************)

\* What lib/rbac.ts allows each role.
LEMMA WhatRolesCan ==
  /\ Can("finance_user") =
       {"viewDashboard", "recordPayment", "addInvoices", "deleteInvoice", "manageSettings"}
  /\ Can("approver") = {"approve"}
  /\ Can("admin") = {"viewDashboard", "approve", "recordPayment", "viewAdminStats", "manageUsers",
                     "manageSettings", "deleteInvoice"}
BY DEF Can

\* A control that is shown for one of the capabilities of a role.
OnlyRefusals(page) ==
  \A r \in Role : \A c \in ShownOn(page, r) \ {"customerEmail"} : r \in Allowed(c)

\* Page by page, what is shown to a role is what it may do.
LEMMA ControlsAgree == \A page \in Controls : OnlyRefusals(page)
<1> USE WhatRolesCan DEF OnlyRefusals, ShownOn, Allowed, Requires, Grants, Role
<1>1. OnlyRefusals(PayableControls)
  BY DEF PayableControls
<1>2. OnlyRefusals(ReceivableControls)
  BY DEF ReceivableControls
<1>3. OnlyRefusals(EntryControls)
  BY DEF EntryControls
<1>4. OnlyRefusals(CustomerControls)
  BY DEF CustomerControls
<1>5. OnlyRefusals(VendorControls)
  BY DEF VendorControls
<1>6. OnlyRefusals(PartyControls)
  BY DEF PartyControls
<1>7. OnlyRefusals(AdminControls)
  BY DEF AdminControls
<1>8. OnlyRefusals(SettingsControls)
  BY DEF SettingsControls
<1> QED
  BY <1>1, <1>2, <1>3, <1>4, <1>5, <1>6, <1>7, <1>8 DEF Controls

\* A role lands on a page that its bar lists, and that does not send it away.
LEMMA NavAgrees ==
  \A r \in Role : Landing(r) \in Listed(r) /\ Listed(r) \cap Bounced(r) = {}
BY WhatRolesCan DEF Landing, Listed, Bounced, Role, Nav, Gated

\* Whichever user signs in, on whichever tab: nothing a role is shown would be refused
\* but the e-mail address of a customer, and no page it is listed sends it away.
THEOREM NothingElseIsRefused == Spec => []OnlyTheEmailIsRefused
<1>1. TypeOK => OnlyTheEmailIsRefused
  <2> SUFFICES ASSUME TypeOK, NEW t \in Tab, ActsAsShown(t)
               PROVE  /\ \A c \in Shown(tab[t].role) \ {"customerEmail"} :
                           tab[t].role \in Allowed(c)
                      /\ Landing(tab[t].role) \in Listed(tab[t].role)
                      /\ Listed(tab[t].role) \cap Bounced(tab[t].role) = {}
    BY DEF OnlyTheEmailIsRefused
  <2>1. cookie.user \in User /\ tab[t].role = RoleOf[cookie.user]
    BY DEF TypeOK, ActsAsShown, Token
  <2>2. tab[t].role \in Role
    BY <2>1, Roles
  <2> QED
    BY <2>2, ControlsAgree, NavAgrees DEF OnlyRefusals, Shown
<1> QED
  BY <1>1, TypeCorrect, PTL
-----------------------------------------------------------------------------
(***************************************************************************)
(* The accounts.                                                           *)
(***************************************************************************)

\* A row and an account are what their call asked for, and are there only from
\* the step of the call that made them.
MadeByCalls ==
  /\ \A r \in users : r = A!Row(r.by) /\ call[r.by] \in {"inserted", "refused", "created", "done"}
  /\ \A a \in accounts : a = A!Account(a.by) /\ call[a.by] \in {"created", "done"}

\* A call's row stays until the call is over, and for good when it has an account.
RowsStay ==
  /\ \A c \in Call : call[c] \in {"inserted", "refused", "created"} => A!Row(c) \in users
  /\ \A a \in accounts : A!Row(a.by) \in users

\* A call that was told of its account has it.
CreatedHaveAccounts == \A c \in Call : call[c] = "created" => A!Account(c) \in accounts

\* The UNIQUE email, and what ties an invitation to one email.
EmailsAreUnique == \A r, s \in users : r.email = s.email => r = s

InvitesNameOneEmail ==
  /\ \A v, w \in invites : v.token = w.token => v = w
  /\ \A c \in Call : call[c] # "idle" /\ form[c].invite # Nothing
       => [token |-> form[c].invite, company |-> form[c].company, email |-> form[c].email]
            \in invites

AccountsInv ==
  /\ A!TypeOK
  /\ MadeByCalls
  /\ RowsStay
  /\ CreatedHaveAccounts
  /\ EmailsAreUnique
  /\ InvitesNameOneEmail
  /\ AcceptedIsMember

\* AccountsInv is inductive: no interleaving of calls, refusal, lost answer or death of a
\* call breaks any part of it.
THEOREM AccountsSafety == A!Spec => []AccountsInv
<1> USE MaxFaultsIsNatural
<1> USE DEF AccountsInv, A!TypeOK, A!At, A!Form, A!Row, A!Account, MadeByCalls, RowsStay,
            CreatedHaveAccounts, EmailsAreUnique, InvitesNameOneEmail, AcceptedIsMember,
            HasAccount
<1>1. A!Init => AccountsInv
  BY DEF A!Init
<1>2. AccountsInv /\ [A!Next]_(A!vars) => AccountsInv'
  <2> SUFFICES ASSUME AccountsInv, [A!Next]_(A!vars) PROVE AccountsInv'
    OBVIOUS
  <2>1. ASSUME NEW c \in Call, NEW f \in A!Form, A!Register(c, f) PROVE AccountsInv'
    BY <2>1 DEF A!Register, A!Enters
  <2>2. ASSUME NEW c \in Call, NEW f \in A!Form, A!CreateUser(c, f) PROVE AccountsInv'
    BY <2>2 DEF A!CreateUser, A!Enters
  <2>3. ASSUME NEW c \in Call, NEW f \in A!Form, A!AcceptInvite(c, f) PROVE AccountsInv'
    BY <2>3 DEF A!AcceptInvite, A!Enters
  <2>4. ASSUME NEW i \in Invite, NEW k \in Company, NEW e \in Email, A!CreateInvite(i, k, e)
        PROVE AccountsInv'
    BY <2>4 DEF A!CreateInvite
  <2>5. ASSUME NEW c \in Call, A!Check(c) PROVE AccountsInv'
    BY <2>5 DEF A!Check
  <2>6. ASSUME NEW c \in Call, A!InsertRow(c) PROVE AccountsInv'
    BY <2>6 DEF A!InsertRow, A!Taken
  <2>7. ASSUME NEW c \in Call, A!Provision(c) PROVE AccountsInv'
    BY <2>7 DEF A!Provision
  <2>8. ASSUME NEW c \in Call, A!ProvisionLost(c) PROVE AccountsInv'
    BY <2>8 DEF A!ProvisionLost, A!Fault
  <2>9. ASSUME NEW c \in Call, A!Undo(c) PROVE AccountsInv'
    BY <2>9 DEF A!Undo
  <2>10. ASSUME NEW c \in Call, A!Return(c) PROVE AccountsInv'
    <3>1. (A!TypeOK /\ MadeByCalls /\ RowsStay /\ CreatedHaveAccounts)'
      BY <2>10 DEF A!Return
    <3>2. (EmailsAreUnique /\ InvitesNameOneEmail)'
      BY <2>10 DEF A!Return
    <3>3. AcceptedIsMember'
      <4>1. A!Row(c) \in users /\ HasAccount(A!Row(c))
        BY <2>10 DEF A!Return
      <4>2. users' = users /\ form' = form /\ accounts' = accounts
        BY <2>10 DEF A!Return
      <4>3. \A i \in used' : i \in used \/ i = form[A!Row(c).by].invite
        BY <2>10 DEF A!Return
      <4> QED
        BY <4>1, <4>2, <4>3
    <3> QED
      BY <3>1, <3>2, <3>3
  <2>11. ASSUME NEW c \in Call, A!Dies(c) PROVE AccountsInv'
    BY <2>11 DEF A!Dies, A!Fault
  <2>12. CASE UNCHANGED A!vars
    BY <2>12 DEF A!vars
  <2> HIDE DEF AccountsInv
  <2> QED
    BY <2>1, <2>2, <2>3, <2>4, <2>5, <2>6, <2>7, <2>8, <2>9, <2>10, <2>11, <2>12 DEF A!Next
<1> QED
  BY <1>1, <1>2, PTL DEF A!Spec

\* Every state has its type.
THEOREM AccountsTypeCorrect == A!Spec => []A!TypeOK
BY AccountsSafety, PTL DEF AccountsInv

\* Every Keycloak account has the users row it was made for.
THEOREM AccountsAreKnown == A!Spec => []AccountsHaveRows
<1>1. AccountsInv => AccountsHaveRows
  <2> SUFFICES ASSUME AccountsInv, NEW a \in accounts
               PROVE A!Row(a.by).by = a.by /\ A!Row(a.by).username = a.username
    BY DEF AccountsInv, RowsStay, AccountsHaveRows
  <2>1. a = A!Account(a.by)
    BY DEF AccountsInv, MadeByCalls
  <2> QED
    BY <2>1 DEF A!Row, A!Account
<1> QED
  BY <1>1, AccountsSafety, PTL

\* An invitation makes one user at most.
THEOREM InvitesMakeOneUser == A!Spec => []InvitesAreSingleUse
<1>1. AccountsInv => InvitesAreSingleUse
  <2> SUFFICES ASSUME AccountsInv, NEW r \in users, NEW s \in users,
                      form[r.by].invite = form[s.by].invite, form[r.by].invite # Nothing
               PROVE r.email = s.email
    BY DEF AccountsInv, EmailsAreUnique, InvitesAreSingleUse
  <2>1. r.by \in Call /\ s.by \in Call /\ call[r.by] # "idle" /\ call[s.by] # "idle"
    BY DEF AccountsInv, A!TypeOK, MadeByCalls
  <2>2. form[r.by].email = form[s.by].email
    BY <2>1 DEF AccountsInv, InvitesNameOneEmail
  <2> QED
    BY <2>1, <2>2 DEF AccountsInv, MadeByCalls, A!Row
<1> QED
  BY <1>1, AccountsSafety, PTL

\* An invitation marked accepted is that of a user in both stores.
THEOREM AcceptedInvitesHaveMembers == A!Spec => []AcceptedIsMember
BY AccountsSafety, PTL DEF AccountsInv

-----------------------------------------------------------------------------
\* Rows whose call is over and that have no account.
Drifted == {r \in users : call[r.by] = "done" /\ ~HasAccount(r)}

DriftBudget == IsFiniteSet(Drifted) /\ Cardinality(Drifted) <= faults

\* Only a fault lets a row drift, and only the row of its call.
LEMMA DriftIsKept == AccountsInv /\ DriftBudget /\ [A!Next]_(A!vars) => DriftBudget'
<1> SUFFICES ASSUME AccountsInv, DriftBudget, [A!Next]_(A!vars) PROVE DriftBudget'
  OBVIOUS
<1> USE MaxFaultsIsNatural
<1> USE DEF AccountsInv, A!TypeOK
<1>1. IsFiniteSet(Drifted) /\ Cardinality(Drifted) \in Nat /\ Cardinality(Drifted) <= faults
  BY FS_CardinalityType DEF DriftBudget
<1>2. ASSUME Drifted' \subseteq Drifted, faults' = faults
      PROVE DriftBudget'
  <2>1. /\ IsFiniteSet(Drifted')
        /\ Cardinality(Drifted') <= Cardinality(Drifted)
        /\ Cardinality(Drifted') \in Nat
    BY <1>1, <1>2, FS_Subset, FS_CardinalityType
  <2> QED
    BY <1>1, <1>2, <2>1 DEF DriftBudget
<1>3. ASSUME NEW c \in Call, Drifted' \subseteq Drifted \cup {A!Row(c)}, faults' = faults + 1
      PROVE DriftBudget'
  <2> DEFINE D == Drifted \cup {A!Row(c)}
  <2>1. IsFiniteSet(D) /\ Cardinality(D) <= Cardinality(Drifted) + 1 /\ Cardinality(D) \in Nat
    <3>1. /\ IsFiniteSet(D)
          /\ Cardinality(D) = Cardinality(Drifted) \/ Cardinality(D) = Cardinality(Drifted) + 1
      BY <1>1, FS_AddElement, Zenon
    <3> QED
      BY <1>1, <3>1
  <2>2. /\ IsFiniteSet(Drifted')
        /\ Cardinality(Drifted') <= Cardinality(D)
        /\ Cardinality(Drifted') \in Nat
    BY <1>3, <2>1, FS_Subset, FS_CardinalityType
  <2> QED
    BY <1>1, <1>3, <2>1, <2>2 DEF DriftBudget
<1> USE DEF Drifted, HasAccount, MadeByCalls, A!Form
<1>4. ASSUME NEW c \in Call, NEW f \in A!Form,
             A!Register(c, f) \/ A!CreateUser(c, f) \/ A!AcceptInvite(c, f)
      PROVE DriftBudget'
  <2>1. call[c] = "idle" /\ users' = users /\ accounts' = accounts /\ faults' = faults
    BY <1>4 DEF A!Register, A!CreateUser, A!AcceptInvite, A!Enters
  <2>2. \A d \in Call \ {c} : call'[d] = call[d]
    BY <1>4 DEF A!Register, A!CreateUser, A!AcceptInvite, A!Enters
  <2>3. Drifted' \subseteq Drifted
    BY <2>1, <2>2
  <2> QED
    BY <1>2, <2>1, <2>3
<1>5. ASSUME NEW c \in Call,
             A!Check(c) \/ A!InsertRow(c) \/ A!Provision(c) \/ A!Undo(c) \/ A!Return(c)
      PROVE DriftBudget'
  <2>1. faults' = faults
    BY <1>5 DEF A!Check, A!InsertRow, A!Provision, A!Undo, A!Return
  <2>2. Drifted' \subseteq Drifted
    <3>1. CASE A!Check(c)
      BY <3>1 DEF A!Check
    <3>2. CASE A!InsertRow(c)
      BY <3>2 DEF A!InsertRow, A!Row
    <3>3. CASE A!Provision(c)
      BY <3>3 DEF A!Provision
    <3>4. CASE A!Undo(c)
      BY <3>4 DEF A!Undo
    <3>5. CASE A!Return(c)
      BY <3>5 DEF A!Return, CreatedHaveAccounts, A!Account
    <3> QED
      BY <1>5, <3>1, <3>2, <3>3, <3>4, <3>5
  <2> QED
    BY <1>2, <2>1, <2>2
<1>6. ASSUME NEW c \in Call, A!ProvisionLost(c) \/ A!Dies(c)
      PROVE DriftBudget'
  <2>1. faults' = faults + 1
    BY <1>6 DEF A!ProvisionLost, A!Dies, A!Fault
  <2>2. Drifted' \subseteq Drifted \cup {A!Row(c)}
    BY <1>6 DEF A!ProvisionLost, A!Dies, A!Fault
  <2> QED
    BY <1>3, <2>1, <2>2
<1>7. ASSUME NEW i \in Invite, NEW k \in Company, NEW e \in Email, A!CreateInvite(i, k, e)
      PROVE DriftBudget'
  BY <1>2, <1>7 DEF A!CreateInvite
<1>8. CASE UNCHANGED A!vars
  BY <1>2, <1>8 DEF A!vars
<1> HIDE DEF AccountsInv
<1> QED
  BY <1>4, <1>5, <1>6, <1>7, <1>8 DEF A!Next

\* Each fault leaves one row without an account at most.
THEOREM DriftNeedsFaults == A!Spec => []DriftIsBounded
<1>1. A!Init => DriftBudget
  BY FS_EmptySet DEF A!Init, DriftBudget, Drifted
<1>2. DriftBudget => DriftIsBounded
  BY DEF DriftBudget, Drifted, DriftIsBounded
<1> QED
  BY <1>1, <1>2, DriftIsKept, AccountsSafety, PTL DEF A!Spec

=============================================================================
