----------------------------- MODULE SignInSessions -----------------------------
(***************************************************************************)
(* What the sign-in pages of the identity provider promise to the parts    *)
(* that only see the session cookie (StepUpAuthorization): which claims a  *)
(* cookie can carry, given which accounts are linked to a person.  Pages,  *)
(* requests and tables are in SwiyuIdentityLink, which implements this     *)
(* (SessionRefinement).                                                    *)
(***************************************************************************)
EXTENDS AssuranceClaims

CONSTANTS
  User,      \* the accounts
  Browser    \* browsers, each with one identity cookie

ASSUME NoneIsNoUser == None \notin User

VARIABLES
  linked,    \* the accounts that have a SwiyuIdentity row
  cookie,    \* the identity cookie of each browser
  managing   \* the cookies with which account pages in progress were requested

sessionVars == <<linked, cookie, managing>>

SessionClaims ==
  [user : User \union {None}, loa : Loa, loi : Loi, amr : Amr]

NoCookie == [user |-> None, loa |-> Absent, loi |-> Absent, amr |-> Absent]

SessionsTypeOK ==
  /\ linked \subseteq User
  /\ cookie \in [Browser -> SessionClaims]
  /\ managing \in [Browser -> SUBSET SessionClaims]

\* The cookie of account u with the given claims.
CookieOf(u, claims) ==
  [user |-> u, loa |-> claims.loa, loi |-> claims.loi, amr |-> claims.amr]

\* SignInWithClaimsAsync: browser b is signed in as u.
SignIn(b, u, claims) ==
  /\ cookie' = [cookie EXCEPT ![b] = CookieOf(u, claims)]
  /\ UNCHANGED <<linked, managing>>

\* Swiyu/Register: account u is tied to a person, for good.
LinkAccount(u) ==
  /\ linked' = linked \union {u}
  /\ UNCHANGED <<cookie, managing>>

\* Account/Register.
SignUp(b, u) == SignIn(b, u, NewAccountClaims)

\* Account/Login.  Of the person only matters whether there is one: u stands for
\* the person it is tied to.
SignInLocally(b, u) ==
  LET person == IF u \in linked THEN u ELSE None IN
  \E method \in {<<LOA_100, Pwd>>, <<LOA_400, Pop>>} :
    SignIn(b, u, LocalLoginClaims(person, method[1], method[2]))

\* Swiyu/Login.
SignInWithWallet(b, u) ==
  /\ u \in linked
  /\ SignIn(b, u, SwiyuLoginClaims(u))

\* Account/LoginWith2fa and Account/LoginWithRecoveryCode.
SignInWithSecondFactor(b, u) == SignIn(b, u, SecondFactorClaims)

\* An account page that will refresh the sign-in is requested.
OpenAccountPage(b) ==
  /\ cookie[b].user # None
  /\ managing' = [managing EXCEPT ![b] = @ \union {cookie[b]}]
  /\ UNCHANGED <<linked, cookie>>

\* RefreshSignInAsync answers with a new cookie for the one the request came
\* with, whatever the browser's cookie is by now.  Another request may have come
\* with the same one.
RefreshSignIn(b) ==
  /\ \E c \in managing[b] :
       /\ cookie' = [cookie EXCEPT ![b] = CookieOf(c.user, RefreshedClaims(c))]
       /\ \E rest \in {managing[b], managing[b] \ {c}} :
            managing' = [managing EXCEPT ![b] = rest]
  /\ UNCHANGED linked

\* The page ends without a refresh.
LeaveAccountPage(b) ==
  /\ \E c \in managing[b] : managing' = [managing EXCEPT ![b] = @ \ {c}]
  /\ UNCHANGED <<linked, cookie>>

\* Logout, expiry or deletion of the account.
SignOut(b) ==
  /\ cookie' = [cookie EXCEPT ![b] = NoCookie]
  /\ UNCHANGED <<linked, managing>>

\* The host restarts: pages in progress are gone, cookies are not.
RestartPages ==
  /\ managing' = [b \in Browser |-> {}]
  /\ UNCHANGED <<linked, cookie>>

SessionsInit ==
  /\ linked = {}
  /\ cookie = [b \in Browser |-> NoCookie]
  /\ managing = [b \in Browser |-> {}]

SignInPages(b) ==
  \E u \in User :
    \/ SignUp(b, u)
    \/ SignInLocally(b, u)
    \/ SignInWithWallet(b, u)
    \/ SignInWithSecondFactor(b, u)

SessionsNext ==
  \/ \E u \in User : LinkAccount(u)
  \/ \E b \in Browser :
       \/ SignInPages(b)
       \/ OpenAccountPage(b)
       \/ RefreshSignIn(b)
       \/ LeaveAccountPage(b)
       \/ SignOut(b)
  \/ RestartPages

SessionsSpec == SessionsInit /\ [][SessionsNext]_sessionVars
================================================================================
