--------------------------- MODULE SwiyuIdentityLink ---------------------------
(***************************************************************************)
(* How an account of the identity provider is tied to a swiyu identity and *)
(* how the tie is used to sign in: the pages Swiyu/Register and            *)
(* Swiyu/Login, the SwiyuIdentity table, the accounts they read, the       *)
(* session cookies they are posted with and issue, and the account pages   *)
(* that change what they read (registration, login, e-mail change, account *)
(* deletion, logout).                                                      *)
(*                                                                         *)
(* A posted form is a request: a thread of the web server.  The database   *)
(* is shared by all of them, and every query and every save is a step of   *)
(* its own, because each is awaited and nothing locks.                     *)
(***************************************************************************)
EXTENDS Naturals, SwiyuVerifier

CONSTANTS
  User,      \* ids of the accounts that are ever created
  Email,     \* e-mail addresses, which are also user names
  Browser,   \* browsers, each with one identity cookie
  Request,   \* POSTs the server handles at the same time
  MaxStamp   \* bound on the changes of one account made by its own pages

ASSUME NoneIsNull ==
  None \notin User \union Email \union Browser \union Verification

ASSUME MaxStampIsNat == MaxStamp \in Nat

VARIABLES
  account,        \* AspNetUsers
  swiyuIdentity,  \* the rows of table SwiyuIdentity
  lastId,         \* its identity column
  session,        \* the identity cookie of each browser
  request         \* the POSTs in flight

linkVars == <<account, swiyuIdentity, lastId>>
vars == <<verification, account, swiyuIdentity, lastId, session, request>>

--------------------------------------------------------------------------------
(***************************************************************************)
(* Types                                                                   *)
(***************************************************************************)

\* ConcurrencyStamp is a fresh GUID on every update Identity makes; a count
\* tells the same values apart.  SwiyuIdentityId starts as NULL and is only
\* ever given the id of a row that is not saved yet, which is 0.
Account ==
  [status           : {"none", "active", "deleted"},
   email            : Email \union {None},
   userName         : Email \union {None},
   concurrencyStamp : Nat,
   swiyuIdentityId  : {"NULL", "0"}]

\* via is a history field: the verification that justified the row.
SwiyuIdentityRow ==
  [Id : Nat, person : Person, UserId : User, Email : Email, via : Verification]

Session ==
  [user   : User \union {None},
   email  : Email \union {None},
   loa    : Loa,
   loi    : Loi,
   amr    : Amr,
   person : Person \union {None}]

\* pc names the step the request takes next.
Step ==
  {"idle",
   "registerPoll", "lookup", "findUser", "recheck", "save",
   "removeClaims",                           \* Swiyu/Register
   "loginPoll", "loginLookup", "signIn",     \* Swiyu/Login
   "setUserName",                            \* ConfirmEmailChange
   "answered"}

\* The steps in which a request asks for the result of its verification.
Polling == {"registerPoll", "loginPoll"}

Outcome ==
  {"none", "page", "identityCheckComplete", "badRequest", "unauthorized",
   "redirect", "emailChanged", "userNameError"}

\* cookie is the cookie the request arrived with.  user, email, stamp and
\* tracked are what the request has read: for a registration the account as the
\* EF context tracks it, for a login the UserId and Email of the row.
RequestRecord ==
  [pc           : Step,
   browser      : Browser \union {None},
   cookie       : Session,
   verification : Verification \union {None},
   person       : Person \union {None},
   user         : User \union {None},
   email        : Email \union {None},
   stamp        : Nat,
   tracked      : {"NULL", "0"},
   outcome      : Outcome]

TypeOK ==
  /\ VerifierTypeOK
  /\ account \in [User -> Account]
  /\ swiyuIdentity \in SUBSET SwiyuIdentityRow
  /\ lastId \in Nat
  /\ session \in [Browser -> Session]
  /\ request \in [Request -> RequestRecord]

NoSession ==
  [user |-> None, email |-> None, loa |-> Absent, loi |-> Absent,
   amr |-> Absent, person |-> None]

IdleRequest ==
  [pc |-> "idle", browser |-> None, cookie |-> NoSession, verification |-> None,
   person |-> None, user |-> None, email |-> None, stamp |-> 0,
   tracked |-> "NULL", outcome |-> "none"]

--------------------------------------------------------------------------------
(***************************************************************************)
(* Queries and helpers                                                     *)
(***************************************************************************)

Active(u) == account[u].status = "active"

\* UserManager.FindByEmailAsync reads with SingleOrDefault: nobody is null, and
\* two accounts with the same address are an exception.  Identity only keeps
\* user names unique here (RequireUniqueEmail is off).
AccountsWithEmail(e) == {u \in User : Active(u) /\ account[u].email = e}

\* Mutant of RowsOfPerson: the query joins the accounts and so loses the rows of
\* deleted ones.
RowsOfPersonJoined(p) == {row \in swiyuIdentity : row.person = p /\ Active(row.UserId)}

\* The query over names, birth date and birth place; FirstOrDefault without an
\* order may return any of the rows.
RowsOfPerson(p) == {row \in swiyuIdentity : row.person = p}
RowsOfUser(u)   == {row \in swiyuIdentity : row.UserId = u}

\* Mutant of LinkedPersons: the row is found by the address of the account.
LinkedPersonsByEmail(u) ==
  LET rows == {row \in swiyuIdentity : row.Email = account[u].email} IN
  IF rows = {} THEN {None} ELSE {row.person : row \in rows}

\* The person whose row the login page finds for account u: None if no row.
LinkedPersons(u) ==
  IF RowsOfUser(u) = {} THEN {None} ELSE {row.person : row \in RowsOfUser(u)}

\* SignInWithClaimsAsync: a cookie for account u with the given extra claims.
Cookie(u, claims) ==
  [user |-> u, email |-> account[u].email, loa |-> claims.loa,
   loi |-> claims.loi, amr |-> claims.amr, person |-> claims.person]

\* Of the cookie the two swiyu handlers read only whose it is.
Principal(cookie) ==
  [NoSession EXCEPT !.user = cookie.user, !.email = cookie.email]

Free(r) == request[r].pc \in {"idle", "answered"}

GoTo(r, step) == request' = [request EXCEPT ![r].pc = step]

\* The response: of a finished request only its outcome is remembered.
Answer(r, outcome) ==
  request' = [request EXCEPT ![r] =
    [IdleRequest EXCEPT !.pc = "answered", !.outcome = outcome]]

--------------------------------------------------------------------------------
(***************************************************************************)
(* The account pages                                                       *)
(***************************************************************************)

\* Account/Register OnPost: CreateAsync refuses a user name that is taken;
\* success signs the new account in.
CreateAccount(b, u, e) ==
  /\ account[u].status = "none"
  /\ \A w \in User : Active(w) => account[w].userName # e
  /\ account' = [account EXCEPT ![u] =
       [status |-> "active", email |-> e, userName |-> e,
        concurrencyStamp |-> 0, swiyuIdentityId |-> "NULL"]]
  /\ session' = [session EXCEPT ![b] =
       [user |-> u, email |-> e, loa |-> NewAccountClaims.loa,
        loi |-> NewAccountClaims.loi, amr |-> NewAccountClaims.amr,
        person |-> NewAccountClaims.person]]
  /\ UNCHANGED <<verification, swiyuIdentity, lastId, request>>

\* Account/Login OnPost, the password and the passkey branch: the account's row,
\* if any, decides the level of identification.
LocalLogin(b, u) ==
  /\ Active(u)
  /\ \E method \in {<<LOA_100, Pwd>>, <<LOA_400, Pop>>}, p \in LinkedPersons(u) :
       session' = [session EXCEPT ![b] =
         Cookie(u, LocalLoginClaims(p, method[1], method[2]))]
  /\ UNCHANGED <<verification, account, swiyuIdentity, lastId, request>>

\* Logout; also the end of a cookie that expires or whose security stamp no
\* longer matches when it is revalidated.
Logout(b) ==
  /\ session[b].user # None
  /\ session' = [session EXCEPT ![b] = NoSession]
  /\ UNCHANGED <<verification, account, swiyuIdentity, lastId, request>>

\* DeletePersonalData OnPost: the account goes, the SwiyuIdentity rows stay.
DeletePersonalData(b) ==
  LET u == session[b].user IN
  /\ u # None
  /\ Active(u)
  /\ account' = [account EXCEPT ![u].status = "deleted"]
  /\ session' = [session EXCEPT ![b] = NoSession]
  /\ UNCHANGED <<verification, swiyuIdentity, lastId, request>>

\* ConfirmEmailChange OnGet, first save: the link that was mailed to the new
\* address e is opened in browser b.  A link whose token is no longer valid
\* changes nothing and is left out.
ChangeEmail(r, b, u, e) ==
  /\ Free(r)
  /\ Active(u)
  /\ e # account[u].email
  /\ account[u].concurrencyStamp < MaxStamp
  /\ account' = [account EXCEPT ![u].email = e, ![u].concurrencyStamp = @ + 1]
  /\ request' = [request EXCEPT ![r] =
       [IdleRequest EXCEPT !.pc = "setUserName", !.browser = b,
                           !.cookie = session[b], !.user = u, !.email = e,
                           !.stamp = account[u].concurrencyStamp + 1]]
  /\ UNCHANGED <<verification, swiyuIdentity, lastId, session>>

\* ConfirmEmailChange OnGet, second save: the user name follows, unless another
\* account has it or this account was updated in between.  Then the sign-in is
\* refreshed if the cookie of this request belongs to the account.
SetUserName(r) ==
  LET u == request[r].user
      e == request[r].email IN
  /\ request[r].pc = "setUserName"
  /\ IF /\ Active(u)
        /\ account[u].concurrencyStamp = request[r].stamp
        /\ \A w \in User \ {u} : Active(w) => account[w].userName # e
     THEN /\ account' = [account EXCEPT ![u].userName = e,
                                        ![u].concurrencyStamp = @ + 1]
          /\ session' =
               IF request[r].cookie.user = u
               THEN [session EXCEPT ![request[r].browser] =
                       Cookie(u, RefreshedClaims(request[r].cookie))]
               ELSE session
          /\ Answer(r, "emailChanged")
     ELSE /\ Answer(r, "userNameError")
          /\ UNCHANGED <<account, session>>
  /\ UNCHANGED <<verification, swiyuIdentity, lastId>>

--------------------------------------------------------------------------------
(***************************************************************************)
(* Opening and posting the two swiyu pages                                 *)
(***************************************************************************)

\* Swiyu/Register OnGet: an account that already has a row is sent to
\* IdentityAlreadyVerified; otherwise the page is shown with a new verification.
RegisterOnGet(b, v) ==
  /\ session[b].user # None
  /\ \E u \in User : /\ AccountsWithEmail(session[b].email) = {u}
                     /\ RowsOfUser(u) = {}
  /\ CreateVerification(v)
  /\ UNCHANGED <<account, swiyuIdentity, lastId, session, request>>

\* Swiyu/Login OnGet: anybody may ask for a verification.
LoginOnGet(b, v) ==
  /\ CreateVerification(v)
  /\ UNCHANGED <<account, swiyuIdentity, lastId, session, request>>

\* verifier-swiyu.js posts the form of a page, and a user may post it again.  The
\* verification id is a hidden field of it.  The server keeps no record of the ids
\* it gave out: any id the verifier knows or knew may be posted, whichever page
\* asked for it, in whichever browser, for whichever account, and as often as
\* wanted (THREAT-MODEL.md, F2).  Antiforgery ties the form to the account that is
\* signed in, and does not look at the id.
Post(r, b, v, step) ==
  /\ Free(r)
  /\ verification[v].state # "none"
  /\ request' = [request EXCEPT ![r] =
       [IdleRequest EXCEPT !.pc = step, !.browser = b,
                           !.cookie = Principal(session[b]), !.verification = v]]
  /\ UNCHANGED <<verification, account, swiyuIdentity, lastId, session>>

\* Swiyu/Register OnPost needs a signed-in user; that the account has a row
\* already, which OnGet looks at, does not matter to it.
RegisterOnPost(r, b, v) ==
  /\ session[b].user # None
  /\ Post(r, b, v, "registerPoll")

LoginOnPost(r, b, v) == Post(r, b, v, "loginPoll")

\* The step after the poll, of the page the form was posted to.
AfterPoll(r) == IF request[r].pc = "registerPoll" THEN "lookup" ELSE "loginLookup"

\* Mutant of PollSuccess: missing credential data is taken for a person.
PollSuccessUnchecked(r) ==
  LET v == request[r].verification IN
  /\ request[r].pc \in Polling
  /\ verification[v].state = "SUCCESS"
  /\ request' = [request EXCEPT ![r].person = verification[v].claims,
                                ![r].pc     = AfterPoll(r)]
  /\ UNCHANGED <<verification, account, swiyuIdentity, lastId, session>>

\* Mutant of PollSuccess: the service, shared by the requests, hands out the
\* answer of whichever verification succeeded.
PollSuccessMixedUp(r) ==
  /\ request[r].pc \in Polling
  /\ \E v \in Verification :
       /\ verification[v].state = "SUCCESS"
       /\ verification[v].claims # None
       /\ request' = [request EXCEPT ![r].person = verification[v].claims,
                                     ![r].pc     = AfterPoll(r)]
  /\ UNCHANGED <<verification, account, swiyuIdentity, lastId, session>>

\* RequestSwiyuClaimsAsync and GetVerifiedClaims: the loop ends when the verifier
\* reports SUCCESS; PENDING and FAILED are asked again after a second, forever.
\* Credential data that is not usable is an exception.  (GetVerificationStatus
\* looks for the text FAILED in the whole response: a person whose data contains
\* it would be asked about forever, and is not among Person.)
PollSuccess(r) ==
  LET v == request[r].verification
      p == verification[v].claims IN
  /\ request[r].pc \in Polling
  /\ verification[v].state = "SUCCESS"
  /\ IF p = None
     THEN Answer(r, "badRequest")
     ELSE request' = [request EXCEPT ![r].person = p, ![r].pc = AfterPoll(r)]
  /\ UNCHANGED <<verification, account, swiyuIdentity, lastId, session>>

\* Mutant of PollRemoved: the error is taken for "not yet" and asked again.
PollRemovedRetries(r) ==
  /\ request[r].pc \in Polling
  /\ verification[request[r].verification].state = "removed"
  /\ UNCHANGED vars

\* The verifier does not know the verification any more: an HTTP error, thrown.
PollRemoved(r) ==
  /\ request[r].pc \in Polling
  /\ verification[request[r].verification].state = "removed"
  /\ Answer(r, "badRequest")
  /\ UNCHANGED <<verification, account, swiyuIdentity, lastId, session>>

\* A call to the verifier, its token endpoint or the database fails at whatever
\* point the request has reached: both handlers catch it and answer 400.
CallFails(r) ==
  /\ request[r].pc \notin {"idle", "answered", "setUserName"}
  /\ Answer(r, "badRequest")
  /\ UNCHANGED <<verification, account, swiyuIdentity, lastId, session>>

--------------------------------------------------------------------------------
(***************************************************************************)
(* Swiyu/Register OnPost after the verification                            *)
(***************************************************************************)

\* Is the person registered?  If so the page is shown again, or the request
\* fails because the account of that row is gone (which decides nothing but the
\* answer, so that query is no step of its own).
RegisterLookup(r) ==
  LET rows == RowsOfPerson(request[r].person) IN
  /\ request[r].pc = "lookup"
  /\ \/ rows = {} /\ GoTo(r, "findUser")
     \/ \E row \in rows :
          Answer(r, IF Active(row.UserId) THEN "page" ELSE "badRequest")
  /\ UNCHANGED <<verification, account, swiyuIdentity, lastId, session>>

\* Mutant of RegisterFindUser: the address is that of whoever is signed in to the
\* browser by now.
RegisterFindUserLate(r) ==
  LET found == AccountsWithEmail(session[request[r].browser].email) IN
  /\ request[r].pc = "findUser"
  /\ \E u \in found :
       request' = [request EXCEPT
         ![r].pc = "recheck",
         ![r].user = u,
         ![r].email = account[u].email,
         ![r].stamp = account[u].concurrencyStamp,
         ![r].tracked = account[u].swiyuIdentityId]
  /\ UNCHANGED <<verification, account, swiyuIdentity, lastId, session>>

\* ConnectAccountWithIdentity: the account is found by the e-mail address in the
\* cookie; nobody is null, two accounts are an exception.
RegisterFindUser(r) ==
  LET found == AccountsWithEmail(request[r].cookie.email) IN
  /\ request[r].pc = "findUser"
  /\ \/ found = {} /\ GoTo(r, "recheck")
     \/ \E u \in found :
          /\ found = {u}
          /\ request' = [request EXCEPT
               ![r].pc = "recheck",
               ![r].user = u,
               ![r].email = account[u].email,
               ![r].stamp = account[u].concurrencyStamp,
               ![r].tracked = account[u].swiyuIdentityId]
     \/ /\ \E u, w \in found : u # w
        /\ Answer(r, "badRequest")
  /\ UNCHANGED <<verification, account, swiyuIdentity, lastId, session>>

\* The second query for the person.  Without an account nothing is saved and the
\* user is still sent to IdentityCheckComplete.  SwiyuIdentityId is never above
\* 0, so the test on it lets every account through.
RegisterRecheck(r) ==
  /\ request[r].pc = "recheck"
  /\ \/ /\ RowsOfPerson(request[r].person) # {}
        /\ Answer(r, "badRequest")
     \/ /\ RowsOfPerson(request[r].person) = {}
        /\ IF request[r].user = None
           THEN Answer(r, "identityCheckComplete")
           ELSE GoTo(r, "save")
  /\ UNCHANGED <<verification, account, swiyuIdentity, lastId, session>>

\* Mutant of RegisterSave: the account has no concurrency token.
RegisterSaveUnguarded(r) ==
  LET u == request[r].user IN
  /\ request[r].pc = "save"
  /\ lastId' = lastId + 1
  /\ swiyuIdentity' = swiyuIdentity \union
       {[Id |-> lastId + 1, person |-> request[r].person, UserId |-> u,
         Email |-> request[r].email, via |-> request[r].verification]}
  /\ account' = [account EXCEPT ![u].swiyuIdentityId = "0"]
  /\ GoTo(r, "removeClaims")
  /\ UNCHANGED <<verification, session>>

\* SaveChangesAsync: one transaction inserts the row and, if the tracked
\* SwiyuIdentityId was NULL, updates it to 0 where the concurrency stamp is the
\* one that was read.  An account that changed in between fails the transaction.
\* With a tracked 0 nothing but the row is written and nothing is compared.
RegisterSave(r) ==
  LET u       == request[r].user
      updates == request[r].tracked = "NULL"
      fresh   == Active(u) /\ account[u].concurrencyStamp = request[r].stamp IN
  /\ request[r].pc = "save"
  /\ IF updates /\ ~fresh
     THEN /\ Answer(r, "badRequest")
          /\ UNCHANGED linkVars
     ELSE /\ lastId' = lastId + 1
          /\ swiyuIdentity' = swiyuIdentity \union
               {[Id |-> lastId + 1, person |-> request[r].person, UserId |-> u,
                 Email |-> request[r].email, via |-> request[r].verification]}
          /\ account' = IF updates
                        THEN [account EXCEPT ![u].swiyuIdentityId = "0"]
                        ELSE account
          /\ GoTo(r, "removeClaims")
  /\ UNCHANGED <<verification, session>>

\* RemoveClaimsAsync updates the account, which renews its concurrency stamp if
\* the account is still the one that was read; a failed result is ignored.
RegisterRemoveClaims(r) ==
  LET u == request[r].user IN
  /\ request[r].pc = "removeClaims"
  /\ account' = IF Active(u) /\ account[u].concurrencyStamp = request[r].stamp
                THEN [account EXCEPT ![u].concurrencyStamp = @ + 1]
                ELSE account
  /\ Answer(r, "identityCheckComplete")
  /\ UNCHANGED <<verification, swiyuIdentity, lastId, session>>

--------------------------------------------------------------------------------
(***************************************************************************)
(* Swiyu/Login OnPost after the verification                               *)
(***************************************************************************)

\* Mutant of LoginLookup: any row will do.
LoginLookupAnyone(r) ==
  /\ request[r].pc = "loginLookup"
  /\ \/ Answer(r, "page")
     \/ \E row \in swiyuIdentity :
          request' = [request EXCEPT ![r].pc = "signIn",
                                     ![r].user = row.UserId,
                                     ![r].email = row.Email]
  /\ UNCHANGED <<verification, account, swiyuIdentity, lastId, session>>

\* The person's row.  A form that was opened without a return URL is not valid,
\* and a person without a row has no account: the page is shown again.
LoginLookup(r) ==
  LET rows == RowsOfPerson(request[r].person) IN
  /\ request[r].pc = "loginLookup"
  /\ \/ Answer(r, "page")
     \/ \E row \in rows :
          request' = [request EXCEPT ![r].pc = "signIn",
                                     ![r].user = row.UserId,
                                     ![r].email = row.Email]
  /\ UNCHANGED <<verification, account, swiyuIdentity, lastId, session>>

\* The account of the row signs in.  A request that was signed in already is
\* refused when the account's address is not the one stored in the row.
LoginSignIn(r) ==
  LET u == request[r].user IN
  /\ request[r].pc = "signIn"
  /\ \/ /\ ~Active(u)
        /\ Answer(r, "badRequest")
        /\ UNCHANGED session
     \/ /\ Active(u)
        /\ request[r].cookie.user # None
        /\ account[u].email # request[r].email
        /\ Answer(r, "unauthorized")
        /\ UNCHANGED session
     \/ /\ Active(u)
        /\ request[r].cookie.user = None \/ account[u].email = request[r].email
        /\ session' = [session EXCEPT ![request[r].browser] =
             Cookie(u, SwiyuLoginClaims(request[r].person))]
        /\ Answer(r, "redirect")
  /\ UNCHANGED <<verification, account, swiyuIdentity, lastId>>

--------------------------------------------------------------------------------
(***************************************************************************)
(* The specification                                                       *)
(***************************************************************************)

Init ==
  /\ VerifierInit
  /\ account = [u \in User |->
       [status |-> "none", email |-> None, userName |-> None,
        concurrencyStamp |-> 0, swiyuIdentityId |-> "NULL"]]
  /\ swiyuIdentity = {}
  /\ lastId = 0
  /\ session = [b \in Browser |-> NoSession]
  /\ request = [r \in Request |-> IdleRequest]

\* The wallet and the verifier act on their own.
External ==
  /\ VerifierNext
  /\ UNCHANGED <<account, swiyuIdentity, lastId, session, request>>

\* The host stops and starts again: requests are gone, cookies, the database and
\* the verifier are not.
Restart ==
  /\ \E r \in Request : ~Free(r)
  /\ request' = [r \in Request |-> IdleRequest]
  /\ UNCHANGED <<verification, account, swiyuIdentity, lastId, session>>

UserActs ==
  \E b \in Browser :
    \/ \E u \in User, e \in Email : CreateAccount(b, u, e)
    \/ \E u \in User : LocalLogin(b, u)
    \/ Logout(b)
    \/ DeletePersonalData(b)
    \/ \E v \in Verification : RegisterOnGet(b, v) \/ LoginOnGet(b, v)

UserRequests ==
  \E r \in Request :
    \/ \E b \in Browser, v \in Verification :
         RegisterOnPost(r, b, v) \/ LoginOnPost(r, b, v)
    \/ \E b \in Browser, u \in User, e \in Email : ChangeEmail(r, b, u, e)

\* The next step of a request that the server is handling.
Handle(r) ==
  \/ PollSuccess(r)
  \/ PollRemoved(r)
  \/ RegisterLookup(r)
  \/ RegisterFindUser(r)
  \/ RegisterRecheck(r)
  \/ RegisterSave(r)
  \/ RegisterRemoveClaims(r)
  \/ LoginLookup(r)
  \/ LoginSignIn(r)
  \/ SetUserName(r)

Next ==
  \/ External
  \/ UserActs
  \/ UserRequests
  \/ \E r \in Request : Handle(r) \/ CallFails(r)
  \/ Restart

Spec == Init /\ [][Next]_vars

\* The server schedules its threads.  Nothing is assumed of users, wallets or
\* the verifier.
FairSpec == Spec /\ \A r \in Request : WF_vars(Handle(r))

--------------------------------------------------------------------------------
(***************************************************************************)
(* Properties                                                              *)
(***************************************************************************)

\* Every row of SwiyuIdentity names exactly the person whose credential was
\* presented to the verification its request was posted with: no mix-up between
\* requests of the two pages, retries, restarts or late answers puts anybody else
\* into the table (Register.cshtml.cs, OnPost).
RowsAreProven ==
  \A row \in swiyuIdentity : Presented(row.via, row.person)

\* A cookie that claims loi.400 belongs to an account that has a row for exactly
\* the person whose name the cookie carries, whichever way the user signed in and
\* whatever has happened to the account since (both GetAdditionalClaims, and
\* RefreshSignInAsync, which must not keep the level).
IdentifiedSessionIsLinked ==
  \A b \in Browser :
    session[b].loi = LOI_400 =>
      \E row \in RowsOfUser(session[b].user) : row.person = session[b].person

\* Whoever is signed in with a wallet is the person whose credential was presented
\* to the verification that was posted in that browser (Login.cshtml.cs, OnPost):
\* a slow answer never signs in with the result of another request.
WalletSignInIsPresented ==
  [][\A b \in Browser :
       ( /\ session'[b] # session[b]
         /\ session'[b].amr = Mca
         /\ session'[b].loi = LOI_400 )
       => \E r \in Request :
            /\ request[r].browser = b
            /\ Presented(request[r].verification, session'[b].person)]_vars

\* A new row goes to the account that was signed in when the form was posted,
\* unless that account has since been changed or deleted: the account is found by
\* the address in the cookie, not by its id (Register.cshtml.cs:146).
RowGoesToPoster ==
  [][\A row \in swiyuIdentity' \ swiyuIdentity :
       \E r \in Request :
         LET u == request[r].cookie.user IN
         /\ request[r].pc = "save"
         /\ request'[r].pc = "removeClaims"
         /\ \/ row.UserId = u
            \/ account[u].status = "deleted"
            \/ account[u].concurrencyStamp > 0]_vars

\* The first row of an account is saved with the address the account has at that
\* moment and never for an account that is gone, although the account was read
\* two queries earlier: the concurrency stamp protects it (Register.cshtml.cs:174).
FirstLinkIsFresh ==
  [][\A row \in swiyuIdentity' \ swiyuIdentity :
       RowsOfUser(row.UserId) = {} =>
         Active(row.UserId) /\ account[row.UserId].email = row.Email]_vars

\* A person is connected to at most one account, once ("swiyu already in use and
\* connected to an account...", Register.cshtml.cs:156).
OneRowPerPerson ==
  \A r1, r2 \in swiyuIdentity : r1.person = r2.person => r1 = r2

\* An account has at most one swiyu identity (IdentityAlreadyVerified.cshtml:
\* "You cannot add a new one.").
OneRowPerAccount ==
  \A r1, r2 \in swiyuIdentity : r1.UserId = r2.UserId => r1 = r2

\* A request is answered once the verifier has a result or has forgotten the
\* verification, whatever else the server is doing (RequestSwiyuClaimsAsync and
\* the two handlers after it).
RequestIsAnswered ==
  \A r \in Request :
    /\ ~Free(r)
    /\ request[r].pc \in Polling =>
         verification[request[r].verification].state \in {"SUCCESS", "removed"}
    ~> Free(r)

================================================================================
