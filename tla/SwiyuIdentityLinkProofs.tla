------------------------- MODULE SwiyuIdentityLinkProofs -------------------------
(***************************************************************************)
(* What holds of SwiyuIdentityLink for every set of accounts, people,      *)
(* browsers, verifications and concurrent requests.                        *)
(***************************************************************************)
EXTENDS SwiyuIdentityLink, TLAPS

(***************************************************************************)
(* Type correctness.  TypeOK is not inductive alone: a request that is     *)
(* about to save must have an account and its address, and an account in   *)
(* use must have an address.                                               *)
(***************************************************************************)

\* The data each step of a request relies on.
Registering == {"lookup", "findUser", "recheck", "save", "removeClaims"}
LoggingIn   == {"loginLookup", "signIn"}

HasData(q) ==
  /\ q.pc \in Polling \union Registering \union LoggingIn =>
       q.verification \in Verification /\ q.browser \in Browser
  /\ q.pc \in {"registerPoll"} \union Registering => q.cookie.user \in User
  /\ q.pc \in Polling \union {"lookup", "findUser"} => q.user = None
  /\ q.pc = "recheck" /\ q.user # None => q.email \in Email
  /\ q.pc \in {"save", "removeClaims"} => q.user \in User /\ q.email \in Email
  /\ q.pc \in Registering \union LoggingIn => q.person \in Person
  /\ q.pc = "signIn" => q.user \in User
  /\ q.pc = "setUserName" =>
       q.user \in User /\ q.email \in Email /\ q.browser \in Browser

RequestsHaveData == \A r \in Request : HasData(request[r])

ActiveHaveEmail == \A u \in User : Active(u) => account[u].email \in Email

TypeInv ==
  /\ TypeOK
  /\ RequestsHaveData
  /\ ActiveHaveEmail

\* The assurance levels a sign-in uses belong to the vocabulary.
LEMMA Vocabulary ==
  /\ {LOA_100, LOA_200, LOA_400, Absent} \subseteq Loa
  /\ {LOI_100, LOI_400, Absent} \subseteq Loi
  /\ {Pop, Mca, Pwd, Absent} \subseteq Amr
  BY DEF Loa, Loi, Amr

LEMMA NoSessionTyped == NoSession \in Session
  BY Vocabulary DEF NoSession, Session

LEMMA IdleRequestTyped == IdleRequest \in RequestRecord
  BY NoSessionTyped DEF IdleRequest, RequestRecord, Step, Outcome

\* A cookie issued with well-typed claims is well-typed.
LEMMA CookieTyped ==
  ASSUME account \in [User -> Account], NEW u \in User, NEW claims,
         claims.loa \in Loa, claims.loi \in Loi, claims.amr \in Amr,
         claims.person \in Person \union {None}
  PROVE  Cookie(u, claims) \in Session
  BY DEF Cookie, Session, Account

\* What is kept of a cookie is a cookie of the same account.
LEMMA PrincipalTyped ==
  ASSUME NEW cookie \in Session
  PROVE  /\ Principal(cookie) \in Session
         /\ Principal(cookie).user = cookie.user
         /\ Principal(cookie).email = cookie.email
  BY NoSessionTyped DEF Principal, Session

\* A request that is answered is idle but for its outcome; the others go on.
LEMMA AnswerTyped ==
  ASSUME request \in [Request -> RequestRecord], NEW r \in Request,
         NEW o \in Outcome, Answer(r, o)
  PROVE  /\ request' \in [Request -> RequestRecord]
         /\ \A q \in Request : q # r => request'[q] = request[q]
         /\ request'[r] = [IdleRequest EXCEPT !.pc = "answered", !.outcome = o]
         /\ request'[r].pc = "answered"
  <1>1. [IdleRequest EXCEPT !.pc = "answered", !.outcome = o] \in RequestRecord
    BY IdleRequestTyped DEF RequestRecord, Step
  <1>2. [IdleRequest EXCEPT !.pc = "answered", !.outcome = o].pc = "answered"
    BY IdleRequestTyped DEF RequestRecord
  <1> QED
    BY <1>1, <1>2 DEF Answer

\* A request that moves on changes nothing but its step.
LEMMA GoToTyped ==
  ASSUME request \in [Request -> RequestRecord], NEW r \in Request,
         NEW step \in Step, GoTo(r, step)
  PROVE  /\ request' \in [Request -> RequestRecord]
         /\ \A q \in Request : q # r => request'[q] = request[q]
         /\ request'[r].pc = step
         /\ request'[r].browser = request[r].browser
         /\ request'[r].cookie = request[r].cookie
         /\ request'[r].verification = request[r].verification
         /\ request'[r].person = request[r].person
         /\ request'[r].user = request[r].user
         /\ request'[r].email = request[r].email
  BY DEF GoTo, RequestRecord

\* The program starts in a typed state.
LEMMA InitTypeInv == Init => TypeInv
  <1> SUFFICES ASSUME Init PROVE TypeInv
    OBVIOUS
  <1>1. TypeOK
    BY NoSessionTyped, IdleRequestTyped DEF Init, TypeOK, VerifierTypeOK, VerifierInit,
       VerificationRecord, VerificationState, Account
  <1>2. RequestsHaveData
    BY DEF Init, RequestsHaveData, HasData, IdleRequest, Polling, Registering, LoggingIn
  <1> QED
    BY <1>1, <1>2 DEF Init, TypeInv, ActiveHaveEmail, Active

\* A step of request r leaves the data of the others alone.
LEMMA OthersHaveData ==
  ASSUME RequestsHaveData, NEW r \in Request,
         \A q \in Request : q # r => request'[q] = request[q],
         HasData(request[r])'
  PROVE  RequestsHaveData'
  <1> SUFFICES ASSUME NEW q \in Request, q # r PROVE HasData(request[q])'
    BY DEF RequestsHaveData
  <1>1. HasData(request[q]) /\ request'[q] = request[q]
    BY DEF RequestsHaveData
  <1> QED
    BY <1>1 DEF HasData

\* A request that is not being handled relies on nothing.
LEMMA FreeHasData ==
  ASSUME NEW r \in Request, request'[r].pc \in {"idle", "answered"}
  PROVE  HasData(request[r])'
  BY DEF HasData, Polling, Registering, LoggingIn

LEMMA DataStays ==
  ASSUME RequestsHaveData, UNCHANGED request
  PROVE  RequestsHaveData'
  BY DEF RequestsHaveData, HasData

\* Every step keeps the types.
LEMMA NextTypeInv == TypeInv /\ [Next]_vars => TypeInv'
  <1> SUFFICES ASSUME TypeInv, [Next]_vars PROVE TypeInv'
    OBVIOUS
  <1> USE DEF TypeInv, TypeOK, VerifierTypeOK
  <1>1. CASE External
    <2>1. verification' \in [Verification -> VerificationRecord]
      BY <1>1 DEF External, VerifierNext, WalletPresents, WalletFails, VerifierRemoves,
                  VerificationRecord, VerificationState
    <2> QED
      BY <1>1, <2>1, DataStays DEF External, ActiveHaveEmail, Active
  <1>2. ASSUME NEW b \in Browser, NEW u \in User, NEW e \in Email, CreateAccount(b, u, e)
        PROVE  TypeInv'
    <2>1. account' \in [User -> Account] /\ ActiveHaveEmail'
      BY <1>2 DEF CreateAccount, Account, ActiveHaveEmail, Active
    <2>2. session' \in [Browser -> Session]
      BY <1>2, Vocabulary DEF CreateAccount, Session, NewAccountClaims
    <2> QED
      BY <1>2, <2>1, <2>2, DataStays DEF CreateAccount
  <1>3. ASSUME NEW b \in Browser, NEW u \in User, LocalLogin(b, u)
        PROVE  TypeInv'
    <2>1. PICK method \in {<<LOA_100, Pwd>>, <<LOA_400, Pop>>}, p \in LinkedPersons(u) :
            session' = [session EXCEPT ![b] =
              Cookie(u, LocalLoginClaims(p, method[1], method[2]))]
      BY <1>3 DEF LocalLogin
    <2>2. p \in Person \union {None}
      BY DEF LinkedPersons, RowsOfUser, SwiyuIdentityRow
    <2>3. Cookie(u, LocalLoginClaims(p, method[1], method[2])) \in Session
      BY <2>2, CookieTyped, Vocabulary DEF LocalLoginClaims
    <2> QED
      BY <1>3, <2>1, <2>3, DataStays DEF LocalLogin, ActiveHaveEmail, Active
  <1>4. ASSUME NEW b \in Browser, Logout(b)
        PROVE  TypeInv'
    BY <1>4, NoSessionTyped, DataStays DEF Logout, ActiveHaveEmail, Active
  <1>5. ASSUME NEW b \in Browser, DeletePersonalData(b)
        PROVE  TypeInv'
    <2>1. session[b].user \in User
      BY <1>5 DEF DeletePersonalData, Session
    <2>2. account' = [account EXCEPT ![session[b].user].status = "deleted"]
      BY <1>5 DEF DeletePersonalData
    <2>3. account' \in [User -> Account] /\ ActiveHaveEmail'
      BY <2>1, <2>2 DEF Account, ActiveHaveEmail, Active
    <2> QED
      BY <1>5, <2>3, NoSessionTyped, DataStays DEF DeletePersonalData
  <1>6. ASSUME NEW b \in Browser, NEW v \in Verification, RegisterOnGet(b, v) \/ LoginOnGet(b, v)
        PROVE  TypeInv'
    <2>1. verification' \in [Verification -> VerificationRecord]
      BY <1>6 DEF RegisterOnGet, LoginOnGet, CreateVerification, VerificationRecord, VerificationState
    <2> QED
      BY <1>6, <2>1, DataStays DEF RegisterOnGet, LoginOnGet, ActiveHaveEmail, Active
  \* The steps that answer a request, and those that only move one on.
  <1>7. ASSUME NEW r \in Request, NEW o \in Outcome, Answer(r, o),
               UNCHANGED <<verification, swiyuIdentity, lastId>>,
               account' \in [User -> Account], ActiveHaveEmail',
               session' \in [Browser -> Session]
        PROVE  TypeInv'
    <2>1. request' \in [Request -> RequestRecord] /\ RequestsHaveData'
      BY <1>7, AnswerTyped, FreeHasData, OthersHaveData
    <2> QED
      BY <1>7, <2>1
  <1>8. ASSUME NEW r \in Request, request' \in [Request -> RequestRecord],
               \A q \in Request : q # r => request'[q] = request[q],
               HasData(request[r])',
               UNCHANGED <<verification, account, swiyuIdentity, lastId, session>>
        PROVE  TypeInv'
    BY <1>8, OthersHaveData DEF ActiveHaveEmail, Active
  <1>9. ASSUME NEW r \in Request, NEW b \in Browser, NEW v \in Verification,
               RegisterOnPost(r, b, v) \/ LoginOnPost(r, b, v)
        PROVE  TypeInv'
    <2>1. PICK step \in Polling : /\ Post(r, b, v, step)
                                  /\ step = "registerPoll" => session[b].user # None
      BY <1>9 DEF RegisterOnPost, LoginOnPost, Polling
    <2>2. Principal(session[b]) \in Session /\ Principal(session[b]).user = session[b].user
      BY PrincipalTyped
    <2>3. request' \in [Request -> RequestRecord]
      BY <2>1, <2>2, IdleRequestTyped DEF Post, RequestRecord, Step, Polling
    <2>4. /\ request'[r].pc = step
          /\ request'[r].verification = v
          /\ request'[r].browser = b
          /\ request'[r].user = None
          /\ request'[r].cookie.user = session[b].user
      BY <2>1, <2>2, IdleRequestTyped DEF Post, RequestRecord, IdleRequest
    <2>5. step = "registerPoll" => session[b].user \in User
      BY <2>1 DEF Session
    <2>6. HasData(request[r])'
      BY <2>4, <2>5 DEF HasData, Polling, Registering, LoggingIn
    <2>7. \A q \in Request : q # r => request'[q] = request[q]
      BY <2>1 DEF Post
    <2> QED
      BY <1>8, <2>1, <2>3, <2>6, <2>7 DEF Post
  <1>10. ASSUME NEW r \in Request, NEW b \in Browser, NEW u \in User, NEW e \in Email,
                ChangeEmail(r, b, u, e)
         PROVE  TypeInv'
    <2>1. account' \in [User -> Account] /\ ActiveHaveEmail'
      BY <1>10 DEF ChangeEmail, Account, ActiveHaveEmail, Active
    <2>2. request' \in [Request -> RequestRecord]
      BY <1>10, IdleRequestTyped DEF ChangeEmail, RequestRecord, Step, Account
    <2>3. /\ request'[r].pc = "setUserName"
          /\ request'[r].user = u
          /\ request'[r].email = e
          /\ request'[r].browser = b
      BY <1>10, IdleRequestTyped DEF ChangeEmail, RequestRecord
    <2>4. HasData(request[r])'
      BY <2>3 DEF HasData, Polling, Registering, LoggingIn
    <2>5. \A q \in Request : q # r => request'[q] = request[q]
      BY <1>10 DEF ChangeEmail
    <2> QED
      BY <1>10, <2>1, <2>2, <2>4, <2>5, OthersHaveData DEF ChangeEmail
  <1>11. ASSUME NEW r \in Request, SetUserName(r)
         PROVE  TypeInv'
    <2>1. request[r].cookie \in Session /\ request[r].user \in User /\ request[r].browser \in Browser
          /\ request[r].email \in Email
      BY <1>11 DEF SetUserName, RequestRecord, RequestsHaveData, HasData
    <2>2. account' \in [User -> Account] /\ ActiveHaveEmail'
      BY <1>11, <2>1 DEF SetUserName, Account, ActiveHaveEmail, Active
    <2>3. Cookie(request[r].user, RefreshedClaims(request[r].cookie)) \in Session
      BY <2>1, CookieTyped, Vocabulary DEF RefreshedClaims, Session
    <2>4. session' \in [Browser -> Session]
      BY <1>11, <2>1, <2>3 DEF SetUserName
    <2> QED
      BY <1>7, <1>11, <2>2, <2>4 DEF SetUserName, Outcome
  <1>12. ASSUME NEW r \in Request, PollSuccess(r)
         PROVE  TypeInv'
    <2>1. CASE Answer(r, "badRequest")
      BY <1>7, <1>12, <2>1 DEF PollSuccess, Outcome, ActiveHaveEmail, Active
    <2>2. CASE ~Answer(r, "badRequest")
      <3> DEFINE v == request[r].verification
                 p == verification[v].claims
                 next == AfterPoll(r)
      <3>1. request[r].pc \in Polling /\ v \in Verification /\ p \in Person
        BY <1>12, <2>2 DEF PollSuccess, RequestsHaveData, HasData, VerificationRecord
      <3>2. request' = [request EXCEPT ![r].person = p, ![r].pc = next]
        BY <1>12, <2>2 DEF PollSuccess
      <3>3. request' \in [Request -> RequestRecord]
        <4>1. next \in Step /\ request[r] \in RequestRecord
          BY DEF AfterPoll, Step
        <4> HIDE DEF next
        <4> QED
          BY <3>1, <3>2, <4>1 DEF RequestRecord
      <3>4. /\ request'[r].pc = next
            /\ request'[r].person = p
            /\ request'[r].verification = v
            /\ request'[r].browser = request[r].browser
            /\ request'[r].user = request[r].user
            /\ request'[r].cookie = request[r].cookie
        BY <3>2 DEF RequestRecord
      <3>5. HasData(request[r])
        BY DEF RequestsHaveData
      <3>6. request[r].user = None /\ request[r].browser \in Browser
        BY <3>1, <3>5 DEF HasData
      <3>7. ASSUME request[r].pc = "registerPoll" PROVE HasData(request[r])'
        <4>1. request[r].cookie.user \in User /\ request'[r].pc = "lookup"
          BY <3>4, <3>5, <3>7 DEF HasData, AfterPoll
        <4> QED
          BY <3>1, <3>4, <3>6, <4>1 DEF HasData, Polling, Registering, LoggingIn
      <3>8. ASSUME request[r].pc = "loginPoll" PROVE HasData(request[r])'
        <4>1. request'[r].pc = "loginLookup"
          BY <3>4, <3>8 DEF AfterPoll
        <4> QED
          BY <3>1, <3>4, <3>6, <4>1 DEF HasData, Polling, Registering, LoggingIn
      <3> QED
        BY <1>8, <1>12, <3>1, <3>2, <3>3, <3>7, <3>8 DEF PollSuccess, Polling
    <2> QED
      BY <2>1, <2>2
  <1>13. ASSUME NEW r \in Request, NEW o \in Outcome, Answer(r, o),
                PollRemoved(r) \/ CallFails(r) \/ RegisterLookup(r) \/ RegisterFindUser(r)
                \/ RegisterRecheck(r) \/ LoginLookup(r)
         PROVE  TypeInv'
    BY <1>7, <1>13 DEF PollRemoved, CallFails, RegisterLookup, RegisterFindUser,
       RegisterRecheck, LoginLookup, ActiveHaveEmail, Active
  <1>14. ASSUME NEW r \in Request, PollRemoved(r) \/ CallFails(r)
         PROVE  TypeInv'
    BY <1>13, <1>14 DEF PollRemoved, CallFails, Outcome
  <1>15. ASSUME NEW r \in Request, RegisterLookup(r)
         PROVE  TypeInv'
    <2>1. CASE GoTo(r, "findUser")
      <3>1. HasData(request[r])'
        BY <1>15, <2>1, GoToTyped DEF RegisterLookup, RequestsHaveData, HasData, Polling,
           Registering, LoggingIn, Step
      <3> QED
        BY <1>8, <1>15, <2>1, <3>1, GoToTyped DEF RegisterLookup, Step
    <2>2. CASE \E row \in RowsOfPerson(request[r].person) :
                 Answer(r, IF Active(row.UserId) THEN "page" ELSE "badRequest")
      BY <1>13, <1>15, <2>2 DEF Outcome
    <2> QED
      BY <1>15, <2>1, <2>2 DEF RegisterLookup
  <1>16. ASSUME NEW r \in Request, RegisterFindUser(r)
         PROVE  TypeInv'
    <2> DEFINE found == AccountsWithEmail(request[r].cookie.email)
    <2>1. CASE found = {} /\ GoTo(r, "recheck")
      <3>1. HasData(request[r])'
        BY <1>16, <2>1, GoToTyped DEF RegisterFindUser, RequestsHaveData, HasData, Polling,
           Registering, LoggingIn, Step
      <3> QED
        BY <1>8, <1>16, <2>1, <3>1, GoToTyped DEF RegisterFindUser, Step
    <2>2. ASSUME NEW u \in found,
                 request' = [request EXCEPT
                   ![r].pc = "recheck",
                   ![r].user = u,
                   ![r].email = account[u].email,
                   ![r].stamp = account[u].concurrencyStamp,
                   ![r].tracked = account[u].swiyuIdentityId]
          PROVE  TypeInv'
      <3>1. u \in User /\ Active(u) /\ account[u] \in Account /\ account[u].email \in Email
        BY DEF AccountsWithEmail, ActiveHaveEmail
      <3>2. request' \in [Request -> RequestRecord]
        <4>1. request[r] \in RequestRecord /\ "recheck" \in Step
          BY DEF Step
        <4> QED
          BY <2>2, <3>1, <4>1 DEF RequestRecord, Account
      <3>3. /\ request'[r].pc = "recheck"
            /\ request'[r].email = account[u].email
            /\ request'[r].person = request[r].person
            /\ request'[r].verification = request[r].verification
            /\ request'[r].browser = request[r].browser
            /\ request'[r].cookie = request[r].cookie
        BY <2>2 DEF RequestRecord
      <3>4. HasData(request[r])'
        BY <1>16, <3>1, <3>3 DEF RegisterFindUser, RequestsHaveData, HasData, Polling, Registering, LoggingIn
      <3> QED
        BY <1>8, <1>16, <2>2, <3>2, <3>4 DEF RegisterFindUser
    <2> QED
      BY <1>13, <1>16, <2>1, <2>2 DEF RegisterFindUser, Outcome
  <1>17. ASSUME NEW r \in Request, RegisterRecheck(r)
         PROVE  TypeInv'
    <2>1. CASE request[r].user # None /\ GoTo(r, "save")
      <3>1. HasData(request[r])'
        <4>1. request[r].user \in User
          BY <2>1 DEF RequestRecord
        <4> QED
        BY <1>17, <2>1, <4>1, GoToTyped DEF RegisterRecheck, RequestsHaveData, HasData, Polling,
           Registering, LoggingIn, Step
      <3> QED
        BY <1>8, <1>17, <2>1, <3>1, GoToTyped DEF RegisterRecheck, Step
    <2> QED
      BY <1>13, <1>17, <2>1 DEF RegisterRecheck, Outcome
  <1>18. ASSUME NEW r \in Request, RegisterSave(r)
         PROVE  TypeInv'
    <2>1. request[r].user \in User /\ request[r].email \in Email /\ request[r].person \in Person
          /\ request[r].verification \in Verification
      BY <1>18 DEF RegisterSave, RequestsHaveData, HasData, Registering
    <2>2. account' \in [User -> Account] /\ ActiveHaveEmail'
      BY <1>18, <2>1 DEF RegisterSave, linkVars, Account, ActiveHaveEmail, Active
    <2>3. CASE Answer(r, "badRequest") /\ UNCHANGED linkVars
      BY <1>7, <1>18, <2>2, <2>3 DEF RegisterSave, linkVars, Outcome
    <2>4. CASE ~(Answer(r, "badRequest") /\ UNCHANGED linkVars)
      <3>1. lastId' \in Nat /\ swiyuIdentity' \in SUBSET SwiyuIdentityRow
        BY <1>18, <2>1, <2>4 DEF RegisterSave, SwiyuIdentityRow
      <3>2. GoTo(r, "removeClaims")
        BY <1>18, <2>4 DEF RegisterSave
      <3>3. HasData(request[r])'
        BY <1>18, <2>1, <3>2, GoToTyped DEF RegisterSave, RequestsHaveData, HasData, Polling,
           Registering, LoggingIn, Step
      <3> QED
        BY <1>18, <2>2, <3>1, <3>2, <3>3, GoToTyped, OthersHaveData
           DEF RegisterSave, Step
    <2> QED
      BY <2>3, <2>4
  <1>19. ASSUME NEW r \in Request, RegisterRemoveClaims(r)
         PROVE  TypeInv'
    <2>1. account' \in [User -> Account] /\ ActiveHaveEmail'
      BY <1>19 DEF RegisterRemoveClaims, Account, ActiveHaveEmail, Active, RequestsHaveData, HasData
    <2> QED
      BY <1>7, <1>19, <2>1 DEF RegisterRemoveClaims, Outcome
  <1>20. ASSUME NEW r \in Request, LoginLookup(r)
         PROVE  TypeInv'
    <2>1. ASSUME NEW row \in RowsOfPerson(request[r].person),
                 request' = [request EXCEPT ![r].pc = "signIn",
                                            ![r].user = row.UserId,
                                            ![r].email = row.Email]
          PROVE  TypeInv'
      <3>1. row.UserId \in User /\ row.Email \in Email
        BY DEF RowsOfPerson, SwiyuIdentityRow
      <3>2. request' \in [Request -> RequestRecord]
        <4>1. request[r] \in RequestRecord /\ "signIn" \in Step
          BY DEF Step
        <4> QED
          BY <2>1, <3>1, <4>1 DEF RequestRecord
      <3>3. /\ request'[r].pc = "signIn"
            /\ request'[r].user = row.UserId
            /\ request'[r].person = request[r].person
            /\ request'[r].verification = request[r].verification
            /\ request'[r].browser = request[r].browser
            /\ request'[r].cookie = request[r].cookie
        BY <2>1 DEF RequestRecord
      <3>4. HasData(request[r])'
        BY <1>20, <3>1, <3>3 DEF LoginLookup, RequestsHaveData, HasData, Polling, Registering, LoggingIn
      <3> QED
        BY <1>8, <1>20, <2>1, <3>2, <3>4 DEF LoginLookup
    <2> QED
      BY <1>13, <1>20, <2>1 DEF LoginLookup, Outcome
  <1>21. ASSUME NEW r \in Request, LoginSignIn(r)
         PROVE  TypeInv'
    <2>1. /\ request[r].user \in User
          /\ request[r].person \in Person
          /\ request[r].browser \in Browser
      BY <1>21 DEF LoginSignIn, RequestsHaveData, HasData, LoggingIn
    <2>2. Cookie(request[r].user, SwiyuLoginClaims(request[r].person)) \in Session
      BY <2>1, CookieTyped, Vocabulary DEF SwiyuLoginClaims
    <2>3. session' \in [Browser -> Session]
      BY <1>21, <2>1, <2>2 DEF LoginSignIn
    <2> QED
      BY <1>7, <1>21, <2>3 DEF LoginSignIn, Outcome, ActiveHaveEmail, Active
  <1>22. CASE Restart
    <2>1. request' \in [Request -> RequestRecord] /\ RequestsHaveData'
      BY <1>22, IdleRequestTyped DEF Restart, RequestsHaveData, HasData, IdleRequest, Polling,
         Registering, LoggingIn
    <2> QED
      BY <1>22, <2>1 DEF Restart, ActiveHaveEmail, Active
  <1>23. CASE UNCHANGED vars
    BY <1>23, DataStays DEF vars, ActiveHaveEmail, Active
  <1> QED
    BY <1>1, <1>2, <1>3, <1>4, <1>5, <1>6, <1>9, <1>10, <1>11, <1>12, <1>14, <1>15, <1>16,
       <1>17, <1>18, <1>19, <1>20, <1>21, <1>22, <1>23
       DEF Next, UserActs, UserRequests, Handle

LEMMA TypeInvariant == Spec => []TypeInv
  BY InitTypeInv, NextTypeInv, PTL DEF Spec

\* All variables stay within their types, for any number of accounts, people,
\* verifications, browsers and requests.
THEOREM TypeCorrect == Spec => []TypeOK
  BY TypeInvariant, PTL DEF TypeInv

(***************************************************************************)
(* Every row of the table and every wallet login goes back to a credential *)
(* that was presented to the verification it was posted with.  The         *)
(* argument follows the evidence: the verifier never changes an answer it  *)
(* has given, a request carries the person of its own verification from    *)
(* the poll to the end, and rows are never removed.                        *)
(***************************************************************************)

(***************************************************************************)
(* What one step does to one request                                       *)
(***************************************************************************)

\* A step leaves request r alone, ends it, starts it or moves it on.
LEMMA RequestStep ==
  ASSUME TypeInv, [Next]_vars, NEW r \in Request
  PROVE  \/ request'[r] = request[r]
         \/ request'[r].pc \in {"idle", "answered"}
         \/ \E b \in Browser, u \in User, e \in Email : ChangeEmail(r, b, u, e)
         \/ \E b \in Browser, v \in Verification : RegisterOnPost(r, b, v) \/ LoginOnPost(r, b, v)
         \/ PollSuccess(r) \/ RegisterLookup(r) \/ RegisterFindUser(r)
         \/ RegisterRecheck(r) \/ RegisterSave(r) \/ LoginLookup(r)
  <1> USE DEF TypeInv, TypeOK
  <1>1. ASSUME NEW q \in Request, NEW o \in Outcome, Answer(q, o)
        PROVE  request'[r] = request[r] \/ request'[r].pc \in {"idle", "answered"}
    BY <1>1, AnswerTyped
  <1>2. ASSUME NEW q \in Request,
               PollRemoved(q) \/ CallFails(q) \/ RegisterRemoveClaims(q)
               \/ LoginSignIn(q) \/ SetUserName(q)
        PROVE  request'[r] = request[r] \/ request'[r].pc \in {"idle", "answered"}
    <2>1. \E o \in Outcome : Answer(q, o)
      BY <1>2 DEF PollRemoved, CallFails, RegisterRemoveClaims, LoginSignIn, SetUserName, Outcome
    <2> QED
      BY <1>1, <2>1
  <1>3. ASSUME Restart
        PROVE  request'[r].pc \in {"idle", "answered"}
    <2>1. request'[r] = IdleRequest
      BY <1>3 DEF Restart
    <2>2. IdleRequest.pc = "idle"
      BY DEF IdleRequest
    <2> QED
      BY <2>1, <2>2
  <1>4. ASSUME UNCHANGED vars \/ External \/ UserActs
        PROVE  request'[r] = request[r]
    BY <1>4 DEF vars, External, UserActs, CreateAccount, LocalLogin, Logout, DeletePersonalData,
       RegisterOnGet, LoginOnGet
  <1>5. ASSUME NEW q \in Request, q # r,
               \/ \E b \in Browser, v \in Verification : RegisterOnPost(q, b, v) \/ LoginOnPost(q, b, v)
               \/ \E b \in Browser, u \in User, e \in Email : ChangeEmail(q, b, u, e)
        PROVE  request'[r] = request[r]
    BY <1>5 DEF RegisterOnPost, LoginOnPost, Post, ChangeEmail
  <1>6. ASSUME NEW q \in Request, q # r,
               PollSuccess(q) \/ RegisterLookup(q) \/ RegisterFindUser(q)
               \/ RegisterRecheck(q) \/ RegisterSave(q) \/ LoginLookup(q)
        PROVE  request'[r] = request[r]
    BY <1>6 DEF PollSuccess, RegisterLookup, RegisterFindUser, RegisterRecheck, RegisterSave,
       LoginLookup, Answer, GoTo
  <1> QED
    BY <1>2, <1>3, <1>4, <1>5, <1>6 DEF Next, UserRequests, Handle

\* A posted form is polled for the verification it names, by the page it was
\* posted to, in the name of whoever is signed in.
LEMMA PostStarts ==
  ASSUME TypeInv, NEW r \in Request, NEW b \in Browser, NEW v \in Verification,
         RegisterOnPost(r, b, v) \/ LoginOnPost(r, b, v)
  PROVE  /\ request'[r].pc \in Polling
         /\ request'[r].pc = "registerPoll" => session[b].user # None
         /\ request'[r].verification = v
         /\ request'[r].user = None
         /\ request'[r].cookie = Principal(session[b])
         /\ UNCHANGED <<verification, account, swiyuIdentity, session>>
  <1>1. PICK step \in Polling : /\ Post(r, b, v, step)
                                /\ step = "registerPoll" => session[b].user # None
    BY DEF RegisterOnPost, LoginOnPost, Polling
  <1> DEFINE q == [IdleRequest EXCEPT !.pc = step, !.browser = b,
                     !.cookie = Principal(session[b]), !.verification = v]
  <1>2. request'[r] = q
    BY <1>1 DEF Post, TypeInv, TypeOK
  <1>3. /\ q.pc = step
        /\ q.verification = v
        /\ q.user = None
        /\ q.cookie = Principal(session[b])
    BY DEF IdleRequest
  <1> QED
    BY <1>1, <1>2, <1>3 DEF Post

LEMMA ChangeEmailStarts ==
  ASSUME TypeInv, NEW r \in Request, NEW b \in Browser, NEW u \in User, NEW e \in Email,
         ChangeEmail(r, b, u, e)
  PROVE  request'[r].pc = "setUserName"
  BY IdleRequestTyped DEF ChangeEmail, RequestRecord, TypeInv, TypeOK

\* The poll hands the person of the request's own verification to the handler of
\* the page the form was posted to.
LEMMA PollSuccessMoves ==
  ASSUME TypeInv, NEW r \in Request, PollSuccess(r)
  PROVE  LET v == request[r].verification IN
         \/ request'[r].pc = "answered"
         \/ /\ v \in Verification
            /\ verification[v].state = "SUCCESS"
            /\ request[r].pc \in Polling
            /\ request'[r].pc = AfterPoll(r)
            /\ request'[r].verification = v
            /\ request'[r].person = verification[v].claims
            /\ request'[r].person \in Person
            /\ request'[r].user = None
            /\ request'[r].cookie = request[r].cookie
  <1> USE DEF TypeInv, TypeOK, VerifierTypeOK
  <1> DEFINE v == request[r].verification
  <1>1. CASE Answer(r, "badRequest")
    BY <1>1, AnswerTyped DEF Outcome
  <1>2. CASE ~Answer(r, "badRequest")
    <2>1. /\ v \in Verification
          /\ verification[v].state = "SUCCESS"
          /\ verification[v].claims \in Person
          /\ request[r].pc \in Polling
          /\ request[r].user = None
      BY <1>2 DEF PollSuccess, RequestsHaveData, HasData, VerificationRecord
    <2>2. request' = [request EXCEPT ![r].person = verification[v].claims,
                                     ![r].pc     = AfterPoll(r)]
      BY <1>2 DEF PollSuccess
    <2> QED
      BY <2>1, <2>2 DEF RequestRecord
  <1> QED
    BY <1>1, <1>2

\* The registration found no account, several, or the one it now tracks.
LEMMA RegisterFindUserMoves ==
  ASSUME TypeInv, NEW r \in Request, RegisterFindUser(r)
  PROVE  LET found == AccountsWithEmail(request[r].cookie.email)
             u     == request'[r].user IN
         \/ request'[r].pc = "answered"
         \/ /\ request[r].pc = "findUser"
            /\ request'[r].pc = "recheck"
            /\ request'[r].verification = request[r].verification
            /\ request'[r].person = request[r].person
            /\ request'[r].cookie = request[r].cookie
            /\ UNCHANGED <<verification, account, swiyuIdentity, session>>
            /\ u # None => /\ found = {u}
                           /\ u \in User
                           /\ Active(u)
                           /\ request'[r].email = account[u].email
                           /\ request'[r].stamp = account[u].concurrencyStamp
                           /\ request'[r].tracked = account[u].swiyuIdentityId
  <1> USE DEF TypeInv, TypeOK
  <1> DEFINE found == AccountsWithEmail(request[r].cookie.email)
  <1>0. request[r].pc = "findUser"
    BY DEF RegisterFindUser
  <1>1. CASE Answer(r, "badRequest")
    BY <1>1, AnswerTyped DEF Outcome
  <1>2. CASE GoTo(r, "recheck")
    <2>1. request[r].user = None
      BY <1>0 DEF RequestsHaveData, HasData
    <2>2. /\ request'[r].pc = "recheck"
          /\ request'[r].user = None
          /\ request'[r].person = request[r].person
          /\ request'[r].verification = request[r].verification
          /\ request'[r].cookie = request[r].cookie
      BY <1>2, <2>1 DEF GoTo, RequestRecord
    <2> QED
      BY <1>0, <2>2 DEF RegisterFindUser
  <1>3. ASSUME NEW w \in found, found = {w},
               request' = [request EXCEPT
                 ![r].pc = "recheck",
                 ![r].user = w,
                 ![r].email = account[w].email,
                 ![r].stamp = account[w].concurrencyStamp,
                 ![r].tracked = account[w].swiyuIdentityId]
        PROVE  /\ request'[r].pc = "recheck"
               /\ request'[r].verification = request[r].verification
               /\ request'[r].person = request[r].person
               /\ request'[r].cookie = request[r].cookie
               /\ request'[r].user = w /\ w \in User /\ Active(w)
               /\ request'[r].email = account[w].email
               /\ request'[r].stamp = account[w].concurrencyStamp
               /\ request'[r].tracked = account[w].swiyuIdentityId
    BY <1>3 DEF RequestRecord, AccountsWithEmail
  <1> QED
    BY <1>0, <1>1, <1>2, <1>3 DEF RegisterFindUser

\* The login took one of the person's rows.
LEMMA LoginLookupMoves ==
  ASSUME TypeInv, NEW r \in Request, LoginLookup(r)
  PROVE  \/ request'[r].pc = "answered"
         \/ /\ request[r].pc = "loginLookup"
            /\ request'[r].pc = "signIn"
            /\ request'[r].verification = request[r].verification
            /\ request'[r].person = request[r].person
            /\ UNCHANGED <<verification, swiyuIdentity>>
            /\ \E row \in RowsOfPerson(request[r].person) : request'[r].user = row.UserId
  <1> USE DEF TypeInv, TypeOK
  <1>1. CASE Answer(r, "page")
    BY <1>1, AnswerTyped DEF Outcome
  <1>2. ASSUME NEW row \in RowsOfPerson(request[r].person),
               request' = [request EXCEPT ![r].pc = "signIn",
                                          ![r].user = row.UserId,
                                          ![r].email = row.Email]
        PROVE  /\ request'[r].pc = "signIn"
               /\ request'[r].verification = request[r].verification
               /\ request'[r].person = request[r].person
               /\ request'[r].user = row.UserId
    BY <1>2 DEF RequestRecord
  <1> QED
    BY <1>1, <1>2 DEF LoginLookup

(***************************************************************************)
(* Evidence only grows                                                     *)
(***************************************************************************)

\* A verification names a person only once it has succeeded.
AnswersAreFinal ==
  \A v \in Verification :
    verification[v].state \in {"none", "PENDING", "FAILED"} => verification[v].claims = None

LEMMA NextAnswersAreFinal ==
  ASSUME TypeInv, AnswersAreFinal, [Next]_vars
  PROVE  AnswersAreFinal'
  <1> USE DEF TypeInv, TypeOK, VerifierTypeOK, VerificationRecord
  <1>1. CASE External
    BY <1>1 DEF External, VerifierNext, WalletPresents, WalletFails, VerifierRemoves, AnswersAreFinal
  <1>2. ASSUME NEW b \in Browser, NEW v \in Verification, RegisterOnGet(b, v) \/ LoginOnGet(b, v)
        PROVE  AnswersAreFinal'
    BY <1>2 DEF RegisterOnGet, LoginOnGet, CreateVerification, AnswersAreFinal
  <1>3. CASE UNCHANGED verification
    BY <1>3 DEF AnswersAreFinal
  <1> QED
    BY <1>1, <1>2, <1>3 DEF Next, UserActs, UserRequests, Handle, Restart, vars, CreateAccount,
       LocalLogin, Logout, DeletePersonalData, RegisterOnPost, LoginOnPost, Post,
       ChangeEmail, PollSuccess, PollRemoved, CallFails, RegisterLookup, RegisterFindUser,
       RegisterRecheck, RegisterSave, RegisterRemoveClaims, LoginLookup, LoginSignIn,
       SetUserName

\* What was presented stays presented.
LEMMA PresentedStays ==
  ASSUME TypeInv, AnswersAreFinal, [Next]_vars,
         NEW v \in Verification, NEW p, Presented(v, p)
  PROVE  Presented(v, p)'
  <1> USE DEF TypeInv, TypeOK, VerifierTypeOK, VerificationRecord
  <1>1. CASE External
    BY <1>1 DEF External, VerifierNext, WalletPresents, WalletFails, VerifierRemoves,
       AnswersAreFinal, Presented
  <1>2. ASSUME NEW b \in Browser, NEW w \in Verification, RegisterOnGet(b, w) \/ LoginOnGet(b, w)
        PROVE  Presented(v, p)'
    BY <1>2 DEF RegisterOnGet, LoginOnGet, CreateVerification, Presented
  <1>3. CASE UNCHANGED verification
    BY <1>3 DEF Presented
  <1> QED
    BY <1>1, <1>2, <1>3 DEF Next, UserActs, UserRequests, Handle, Restart, vars, CreateAccount,
       LocalLogin, Logout, DeletePersonalData, RegisterOnPost, LoginOnPost, Post,
       ChangeEmail, PollSuccess, PollRemoved, CallFails, RegisterLookup, RegisterFindUser,
       RegisterRecheck, RegisterSave, RegisterRemoveClaims, LoginLookup, LoginSignIn,
       SetUserName

\* The row that a save adds.
NewRow(r) ==
  [Id |-> lastId + 1, person |-> request[r].person, UserId |-> request[r].user,
   Email |-> request[r].email, via |-> request[r].verification]

\* The table changes by one new row or not at all.
LEMMA RowsStay ==
  ASSUME [Next]_vars
  PROVE  \/ UNCHANGED swiyuIdentity
         \/ \E r \in Request : /\ RegisterSave(r)
                               /\ swiyuIdentity' = swiyuIdentity \union {NewRow(r)}
  <1>1. ASSUME NEW r \in Request, RegisterSave(r)
        PROVE  UNCHANGED swiyuIdentity \/ swiyuIdentity' = swiyuIdentity \union {NewRow(r)}
    BY <1>1 DEF RegisterSave, linkVars, NewRow
  <1>2. CASE UNCHANGED swiyuIdentity
    BY <1>2
  <1> QED
    BY <1>1, <1>2 DEF Next, External, UserActs, UserRequests, Handle, Restart, vars, CreateAccount,
       LocalLogin, Logout, DeletePersonalData, RegisterOnGet, LoginOnGet, RegisterOnPost,
       LoginOnPost, Post, ChangeEmail, PollSuccess, PollRemoved, CallFails, RegisterLookup,
       RegisterFindUser, RegisterRecheck, RegisterRemoveClaims, LoginLookup, LoginSignIn,
       SetUserName

(***************************************************************************)
(* Requests, rows and sessions are backed by the evidence                  *)
(***************************************************************************)

\* From the poll's answer on, a request is about the person who presented to its
\* verification; a login about to sign in has a row.
IsJustified(q) ==
  /\ q.pc \in Registering \union LoggingIn => Presented(q.verification, q.person)
  /\ q.pc = "signIn" => \E row \in RowsOfUser(q.user) : row.person = q.person

RequestsAreJustified == \A r \in Request : IsJustified(request[r])

Evidence ==
  /\ AnswersAreFinal
  /\ RequestsAreJustified
  /\ RowsAreProven

LEMMA NextRequestsAreJustified ==
  ASSUME TypeInv, Evidence, [Next]_vars
  PROVE  RequestsAreJustified'
  <1> SUFFICES ASSUME NEW r \in Request PROVE IsJustified(request[r])'
    BY DEF RequestsAreJustified
  <1>1. IsJustified(request[r]) /\ HasData(request[r])
    BY DEF Evidence, RequestsAreJustified, TypeInv, RequestsHaveData
  <1>2. ASSUME request[r].pc \in Registering \union LoggingIn,
               NEW v, v = request[r].verification, NEW p, p = request[r].person
        PROVE  Presented(v, p)'
    <2>1. v \in Verification
      BY <1>1, <1>2 DEF HasData
    <2>2. Presented(v, p) /\ AnswersAreFinal
      BY <1>1, <1>2 DEF IsJustified, Evidence
    <2> QED
      BY <2>1, <2>2, PresentedStays
  <1>3. swiyuIdentity \subseteq swiyuIdentity'
    BY RowsStay
  <1>4. CASE request'[r] = request[r]
    <2>1. request[r].pc = "signIn" =>
            (\E row \in RowsOfUser(request[r].user) : row.person = request[r].person)'
      BY <1>1, <1>3, <1>4 DEF IsJustified, RowsOfUser
    <2> QED
      BY <1>1, <1>2, <1>4, <2>1 DEF IsJustified, Presented, Registering, LoggingIn
  <1>5. CASE request'[r].pc \in {"idle", "answered", "setUserName"} \union Polling
    BY <1>5 DEF IsJustified, Polling, Registering, LoggingIn
  <1>6. CASE PollSuccess(r)
    <2>1. CASE request'[r].pc # "answered"
      <3> DEFINE v == request[r].verification
      <3>1. /\ request'[r].pc = AfterPoll(r)
            /\ request'[r].verification = v
            /\ request'[r].person = verification[v].claims
            /\ request'[r].person \in Person
        BY <1>6, <2>1, PollSuccessMoves
      <3>2. verification' = verification
        BY <1>6 DEF PollSuccess
      <3> QED
        BY <3>1, <3>2, NoneIsNoPerson DEF AfterPoll, IsJustified, Presented, Registering, LoggingIn
    <2> QED
      BY <1>5, <2>1
  <1>7. ASSUME NEW step \in Registering, GoTo(r, step), request[r].pc \in Registering
        PROVE  IsJustified(request[r])'
    <2>1. step \in Step /\ request \in [Request -> RequestRecord]
      BY DEF Registering, Step, TypeInv, TypeOK
    <2>2. /\ request'[r].pc = step
          /\ request'[r].verification = request[r].verification
          /\ request'[r].person = request[r].person
      BY <1>7, <2>1, GoToTyped
    <2> QED
      BY <1>1, <1>2, <1>7, <2>2 DEF IsJustified, Registering, LoggingIn
  <1>8. ASSUME NEW o \in Outcome, Answer(r, o)
        PROVE  IsJustified(request[r])'
    BY <1>5, <1>8, AnswerTyped DEF TypeInv, TypeOK
  <1>9. CASE RegisterLookup(r) \/ RegisterRecheck(r) \/ RegisterSave(r)
    BY <1>7, <1>8, <1>9 DEF RegisterLookup, RegisterRecheck, RegisterSave, Registering, Outcome
  <1>10. CASE RegisterFindUser(r)
    BY <1>1, <1>2, <1>5, <1>10, RegisterFindUserMoves DEF IsJustified, Registering, LoggingIn
  <1>11. CASE LoginLookup(r)
    <2>1. CASE request'[r].pc # "answered"
      <3>1. /\ request[r].pc = "loginLookup"
            /\ request'[r].pc = "signIn"
            /\ request'[r].verification = request[r].verification
            /\ request'[r].person = request[r].person
            /\ swiyuIdentity' = swiyuIdentity
            /\ \E row \in RowsOfPerson(request[r].person) : request'[r].user = row.UserId
        BY <1>11, <2>1, LoginLookupMoves
      <3>2. (\E row \in RowsOfUser(request[r].user) : row.person = request[r].person)'
        BY <3>1 DEF RowsOfPerson, RowsOfUser
      <3> QED
        BY <1>1, <1>2, <3>1, <3>2 DEF IsJustified, Registering, LoggingIn
    <2> QED
      BY <1>5, <1>11, <2>1
  <1> QED
    BY <1>4, <1>5, <1>6, <1>9, <1>10, <1>11, RequestStep, PostStarts, ChangeEmailStarts

LEMMA NextRowsAreProven ==
  ASSUME TypeInv, Evidence, [Next]_vars
  PROVE  RowsAreProven'
  <1>1. ASSUME NEW row \in swiyuIdentity
        PROVE  Presented(row.via, row.person)'
    <2>1. row.via \in Verification /\ Presented(row.via, row.person) /\ AnswersAreFinal
      BY DEF TypeInv, TypeOK, SwiyuIdentityRow, Evidence, RowsAreProven
    <2> QED
      BY <2>1, PresentedStays
  <1>2. ASSUME NEW r \in Request, RegisterSave(r), NEW row, row = NewRow(r)
        PROVE  Presented(row.via, row.person)'
    <2>1. /\ request[r].pc = "save"
          /\ IsJustified(request[r])
          /\ verification' = verification
      BY <1>2 DEF RegisterSave, Evidence, RequestsAreJustified
    <2>2. Presented(request[r].verification, request[r].person)
      BY <2>1 DEF IsJustified, Registering
    <2> QED
      BY <1>2, <2>1, <2>2 DEF NewRow, Presented
  <1>3. CASE UNCHANGED swiyuIdentity
    BY <1>1, <1>3 DEF RowsAreProven, Presented
  <1>4. ASSUME NEW r \in Request, RegisterSave(r), swiyuIdentity' = swiyuIdentity \union {NewRow(r)}
        PROVE  RowsAreProven'
    <2> SUFFICES ASSUME NEW row \in swiyuIdentity'
                 PROVE  Presented(row.via, row.person)'
      BY DEF RowsAreProven, Presented
    <2>1. CASE row \in swiyuIdentity
      BY <1>1, <2>1
    <2>2. CASE row = NewRow(r)
      BY <1>2, <1>4, <2>2
    <2> QED
      BY <1>4, <2>1, <2>2
  <1> QED
    BY <1>3, <1>4, RowsStay

LEMMA EvidenceInvariant == Spec => [](TypeInv /\ Evidence)
  <1>1. Init => Evidence
    BY DEF Init, VerifierInit, IdleRequest, Evidence, AnswersAreFinal, RequestsAreJustified,
       IsJustified, Registering, LoggingIn, RowsAreProven
  <1>2. TypeInv /\ Evidence /\ [Next]_vars => Evidence'
    BY NextAnswersAreFinal, NextRequestsAreJustified, NextRowsAreProven DEF Evidence
  <1> QED
    BY <1>1, <1>2, InitTypeInv, NextTypeInv, PTL DEF Spec

\* No row without proof: whatever requests, retries, restarts and changes of
\* accounts are interleaved, and whichever page a verification was created for,
\* each row names the person who presented to the verification it was posted with.
THEOREM RowsProven == Spec => []RowsAreProven
  BY EvidenceInvariant, PTL DEF Evidence

(***************************************************************************)
(* Sessions.  A cookie gets loi.400 in two places: a local login that      *)
(* finds the account's row, and a wallet login that found the person's.    *)
(***************************************************************************)

\* The session invariant, of one browser.
IsLinked(b) ==
  session[b].loi = LOI_400 =>
    \E row \in RowsOfUser(session[b].user) : row.person = session[b].person

\* A step leaves a cookie alone, replaces it by one that is not identified, or
\* is one of the two logins.
LEMMA SessionStep ==
  ASSUME TypeInv, [Next]_vars, NEW b \in Browser
  PROVE  \/ session'[b] = session[b]
         \/ session'[b].loi \in {LOI_100, Absent}
         \/ \E u \in User : LocalLogin(b, u)
         \/ \E r \in Request : LoginSignIn(r) /\ request[r].browser = b
                               /\ session' = [session EXCEPT ![b] =
                                    Cookie(request[r].user, SwiyuLoginClaims(request[r].person))]
  <1> USE DEF TypeInv, TypeOK
  <1>1. ASSUME NEW c \in Browser, NEW u \in User, NEW e \in Email, CreateAccount(c, u, e)
        PROVE  session'[b] = session[b] \/ session'[b].loi = LOI_100
    BY <1>1 DEF CreateAccount, NewAccountClaims
  <1>2. ASSUME NEW c \in Browser, Logout(c) \/ DeletePersonalData(c)
        PROVE  session'[b] = session[b] \/ session'[b].loi = Absent
    BY <1>2 DEF Logout, DeletePersonalData, NoSession
  <1>3. ASSUME NEW c \in Browser, NEW u \in User, LocalLogin(c, u), c # b
        PROVE  session'[b] = session[b]
    BY <1>3 DEF LocalLogin
  <1>4. ASSUME NEW r \in Request, SetUserName(r)
        PROVE  session'[b] = session[b] \/ session'[b].loi = Absent
    BY <1>4 DEF SetUserName, Cookie, RefreshedClaims
  <1>5. ASSUME NEW r \in Request, LoginSignIn(r)
        PROVE  \/ session'[b] = session[b]
               \/ request[r].browser = b
                  /\ session' = [session EXCEPT ![b] =
                       Cookie(request[r].user, SwiyuLoginClaims(request[r].person))]
    BY <1>5 DEF LoginSignIn
  <1>6. CASE UNCHANGED session
    BY <1>6
  <1> QED
    BY <1>1, <1>2, <1>3, <1>4, <1>5, <1>6 DEF Next, External, UserActs, UserRequests, Handle, Restart, vars,
       RegisterOnGet, LoginOnGet, RegisterOnPost, LoginOnPost, Post, ChangeEmail,
       PollSuccess, PollRemoved, CallFails, RegisterLookup, RegisterFindUser,
       RegisterRecheck, RegisterSave, RegisterRemoveClaims, LoginLookup

LEMMA NextIsLinked ==
  ASSUME TypeInv, Evidence, [Next]_vars, NEW b \in Browser, IsLinked(b)
  PROVE  IsLinked(b)'
  <1> USE DEF TypeInv, TypeOK
  <1>1. swiyuIdentity \subseteq swiyuIdentity'
    BY RowsStay
  <1>2. CASE session'[b] = session[b]
    BY <1>1, <1>2 DEF IsLinked, RowsOfUser
  <1>3. CASE session'[b].loi \in {LOI_100, Absent}
    BY <1>3 DEF IsLinked, LOI_100, LOI_400, Absent
  <1>4. ASSUME NEW u \in User, LocalLogin(b, u)
        PROVE  IsLinked(b)'
    <2>1. PICK method \in {<<LOA_100, Pwd>>, <<LOA_400, Pop>>}, p \in LinkedPersons(u) :
            session' = [session EXCEPT ![b] =
              Cookie(u, LocalLoginClaims(p, method[1], method[2]))]
      BY <1>4 DEF LocalLogin
    <2>2. /\ session'[b].user = u
          /\ session'[b].person = p
          /\ session'[b].loi = IF p = None THEN LOI_100 ELSE LOI_400
      BY <2>1 DEF Cookie, LocalLoginClaims
    <2>3. p # None => \E row \in RowsOfUser(u) : row.person = p
      BY DEF LinkedPersons
    <2>4. RowsOfUser(u) = RowsOfUser(u)'
      BY <1>4 DEF LocalLogin, RowsOfUser
    <2> QED
      BY <2>2, <2>3, <2>4 DEF IsLinked, LOI_100, LOI_400
  <1>5. ASSUME NEW r \in Request, LoginSignIn(r),
               session' = [session EXCEPT ![b] =
                 Cookie(request[r].user, SwiyuLoginClaims(request[r].person))]
        PROVE  IsLinked(b)'
    <2>1. request[r].pc = "signIn" /\ IsJustified(request[r])
      BY <1>5 DEF LoginSignIn, Evidence, RequestsAreJustified
    <2>2. PICK row \in RowsOfUser(request[r].user) : row.person = request[r].person
      BY <2>1 DEF IsJustified
    <2>3. /\ session'[b].user = request[r].user
          /\ session'[b].person = request[r].person
      BY <1>5 DEF Cookie, SwiyuLoginClaims
    <2> QED
      BY <1>1, <2>2, <2>3 DEF IsLinked, RowsOfUser
  <1> QED
    BY <1>2, <1>3, <1>4, <1>5, SessionStep

LEMMA SessionInvariant == Spec => [](\A b \in Browser : IsLinked(b))
  <1>1. Init => \A b \in Browser : IsLinked(b)
    BY DEF Init, NoSession, IsLinked, Absent, LOI_400
  <1>2. /\ TypeInv /\ Evidence
        /\ \A b \in Browser : IsLinked(b)
        /\ [Next]_vars
        => (\A b \in Browser : IsLinked(b))'
    BY NextIsLinked
  <1> QED
    BY <1>1, <1>2, EvidenceInvariant, PTL DEF Spec

\* However the account and its row change afterwards, a session of level loi.400
\* belongs to an account that has a row for the person the session names.
THEOREM IdentifiedSessionsLinked == Spec => []IdentifiedSessionIsLinked
  <1>1. (\A b \in Browser : IsLinked(b)) => IdentifiedSessionIsLinked
    BY DEF IsLinked, IdentifiedSessionIsLinked
  <1> QED
    BY <1>1, SessionInvariant, PTL

\* However many forms are posted in a browser, for whichever verifications, it is
\* only ever signed in with the person of the verification that one of them named.
THEOREM WalletSignInsPresented == Spec => WalletSignInIsPresented
  <1> DEFINE SignsIn(b) == /\ session'[b] # session[b]
                           /\ session'[b].amr = Mca
                           /\ session'[b].loi = LOI_400
             OfRequest(b) == \E r \in Request :
                               /\ request[r].browser = b
                               /\ Presented(request[r].verification, session'[b].person)
  <1>1. TypeInv /\ Evidence /\ [Next]_vars => \A b \in Browser : SignsIn(b) => OfRequest(b)
    <2> SUFFICES ASSUME TypeInv, Evidence, [Next]_vars, NEW b \in Browser, SignsIn(b)
                 PROVE  OfRequest(b)
      OBVIOUS
    <2>1. session'[b].loi \notin {LOI_100, Absent}
      BY DEF LOI_100, LOI_400, Absent
    <2>2. ASSUME NEW u \in User, LocalLogin(b, u)
          PROVE  session'[b].amr # Mca
      BY <2>2 DEF LocalLogin, Cookie, LocalLoginClaims, Mca, Pwd, Pop, TypeInv, TypeOK
    <2>3. PICK r \in Request : /\ LoginSignIn(r)
                              /\ request[r].browser = b
                              /\ session' = [session EXCEPT ![b] =
                                   Cookie(request[r].user, SwiyuLoginClaims(request[r].person))]
      BY <2>1, <2>2, SessionStep
    <2>4. Presented(request[r].verification, request[r].person)
      BY <2>3 DEF LoginSignIn, Evidence, RequestsAreJustified, IsJustified, LoggingIn
    <2>5. session'[b].person = request[r].person
      BY <2>3 DEF Cookie, SwiyuLoginClaims, TypeInv, TypeOK
    <2> QED
      BY <2>3, <2>4, <2>5
  <1> QED
    BY <1>1, EvidenceInvariant, PTL DEF Spec, WalletSignInIsPresented

--------------------------------------------------------------------------------
(***************************************************************************)
(* Which account a row is written for.  A registration reads the account   *)
(* two queries before it saves; the concurrency stamp tells it whether the *)
(* account is still the one it read.                                       *)
(***************************************************************************)

(***************************************************************************)
(* What one step does to one account                                       *)
(***************************************************************************)

\* An account is created once, its address changes only with its stamp, stamps
\* grow, SwiyuIdentityId only changes with a new row, and deletion is final.
AccountStep(u) ==
  \/ account'[u] = account[u]
  \/ /\ account[u].status = "none"
     /\ account'[u].status = "active"
     /\ account'[u].concurrencyStamp = 0
     /\ account'[u].swiyuIdentityId = "NULL"
     /\ \E b \in Browser, e \in Email : CreateAccount(b, u, e)
  \/ /\ account[u].status # "none"
     /\ account'[u] = [account[u] EXCEPT !.status = "deleted"]
  \/ /\ account[u].status = "active"
     /\ account'[u].status = "active"
     /\ account'[u].concurrencyStamp = account[u].concurrencyStamp + 1
     /\ account'[u].swiyuIdentityId = account[u].swiyuIdentityId
  \/ /\ account[u].status = "active"
     /\ account'[u] = [account[u] EXCEPT !.swiyuIdentityId = "0"]
     /\ \E r \in Request : RegisterSave(r) /\ request[r].user = u
                           /\ swiyuIdentity' = swiyuIdentity \union {NewRow(r)}

LEMMA NextAccountStep ==
  ASSUME TypeInv, [Next]_vars, NEW u \in User
  PROVE  AccountStep(u)
  <1> USE DEF TypeInv, TypeOK
  <1>1. ASSUME NEW b \in Browser, NEW w \in User, NEW e \in Email, CreateAccount(b, w, e)
        PROVE  AccountStep(u)
    BY <1>1 DEF CreateAccount, AccountStep
  <1>2. ASSUME NEW b \in Browser, DeletePersonalData(b)
        PROVE  AccountStep(u)
    BY <1>2 DEF DeletePersonalData, AccountStep, Active, Account, Session
  <1>3. ASSUME NEW r \in Request, NEW b \in Browser, NEW w \in User, NEW e \in Email,
               ChangeEmail(r, b, w, e)
        PROVE  AccountStep(u)
    BY <1>3 DEF ChangeEmail, AccountStep, Active, Account
  <1>4. ASSUME NEW r \in Request, SetUserName(r)
        PROVE  AccountStep(u)
    BY <1>4 DEF SetUserName, AccountStep, Active, Account
  <1>5. ASSUME NEW r \in Request, RegisterRemoveClaims(r)
        PROVE  AccountStep(u)
    BY <1>5 DEF RegisterRemoveClaims, AccountStep, Active, Account
  <1>6. ASSUME NEW r \in Request, RegisterSave(r)
        PROVE  AccountStep(u)
    BY <1>6 DEF RegisterSave, linkVars, NewRow, AccountStep, Active, Account
  <1>7. CASE UNCHANGED account
    BY <1>7 DEF AccountStep
  <1> QED
    BY <1>1, <1>2, <1>3, <1>4, <1>5, <1>6, <1>7 DEF Next, External, UserActs, UserRequests, Handle,
       Restart, vars, LocalLogin, Logout, RegisterOnGet, LoginOnGet, RegisterOnPost,
       LoginOnPost, Post, PollSuccess, PollRemoved, CallFails, RegisterLookup,
       RegisterFindUser, RegisterRecheck, LoginLookup, LoginSignIn

\* An existing account keeps its address as long as it keeps its stamp, and
\* never gets an older one; a deleted account stays deleted.
LEMMA AccountAges ==
  ASSUME TypeInv, [Next]_vars, NEW u \in User, account[u].status # "none"
  PROVE  /\ account'[u].status # "none"
         /\ account'[u].concurrencyStamp >= account[u].concurrencyStamp
         /\ account'[u].concurrencyStamp = account[u].concurrencyStamp =>
              account'[u].email = account[u].email
         /\ account[u].status = "deleted" => account'[u].status = "deleted"
  <1>1. AccountStep(u) /\ account[u] \in Account
    BY NextAccountStep DEF TypeInv, TypeOK
  <1>2. CASE account'[u] = account[u]
    BY <1>1, <1>2 DEF Account
  <1>3. CASE account'[u] = [account[u] EXCEPT !.status = "deleted"]
    BY <1>1, <1>3 DEF Account
  <1>4. CASE /\ account[u].status = "active"
             /\ account'[u].status = "active"
             /\ account'[u].concurrencyStamp = account[u].concurrencyStamp + 1
    BY <1>1, <1>4 DEF Account
  <1>5. CASE account'[u] = [account[u] EXCEPT !.swiyuIdentityId = "0"]
    BY <1>1, <1>5 DEF Account
  <1> QED
    BY <1>1, <1>2, <1>3, <1>4, <1>5 DEF AccountStep

(***************************************************************************)
(* What a registration has read of the account                             *)
(***************************************************************************)

\* Only an account that has a row loses its NULL; an account that is not created
\* yet has never changed.
AccountsAreLinkedByRows ==
  \A u \in User :
    /\ RowsOfUser(u) = {} => account[u].swiyuIdentityId = "NULL"
    /\ account[u].status = "none" => account[u].concurrencyStamp = 0

\* What the registration has read is old, or still true.
IsTracking(q) ==
  q.pc \in {"recheck", "save"} /\ q.user # None =>
    /\ q.user \in User
    /\ account[q.user].status # "none"
    /\ q.stamp <= account[q.user].concurrencyStamp
    /\ q.stamp = account[q.user].concurrencyStamp => q.email = account[q.user].email
    /\ RowsOfUser(q.user) = {} => q.tracked = "NULL"

Tracking == AccountsAreLinkedByRows /\ \A r \in Request : IsTracking(request[r])

LEMMA RowsOfUserGrow ==
  ASSUME [Next]_vars, NEW u
  PROVE  RowsOfUser(u)' = {} => RowsOfUser(u) = {}
  <1>1. swiyuIdentity \subseteq swiyuIdentity'
    BY RowsStay
  <1> QED
    BY <1>1 DEF RowsOfUser

LEMMA NextAccountsAreLinkedByRows ==
  ASSUME TypeInv, AccountsAreLinkedByRows, [Next]_vars
  PROVE  AccountsAreLinkedByRows'
  <1> SUFFICES ASSUME NEW u \in User
               PROVE  /\ RowsOfUser(u)' = {} => account'[u].swiyuIdentityId = "NULL"
                      /\ account'[u].status = "none" => account'[u].concurrencyStamp = 0
    BY DEF AccountsAreLinkedByRows
  <1>1. /\ AccountStep(u)
        /\ account[u] \in Account
        /\ RowsOfUser(u)' = {} => RowsOfUser(u) = {}
    BY NextAccountStep, RowsOfUserGrow DEF TypeInv, TypeOK
  <1>2. ASSUME NEW r \in Request, request[r].user = u,
               swiyuIdentity' = swiyuIdentity \union {NewRow(r)}
        PROVE  RowsOfUser(u)' # {}
    <2>1. NewRow(r).UserId = u /\ NewRow(r) \in swiyuIdentity'
      BY <1>2 DEF NewRow
    <2> QED
      BY <2>1 DEF RowsOfUser
  <1>3. /\ RowsOfUser(u) = {} => account[u].swiyuIdentityId = "NULL"
        /\ account[u].status = "none" => account[u].concurrencyStamp = 0
    BY DEF AccountsAreLinkedByRows
  <1>4. RowsOfUser(u)' = {} => account'[u].swiyuIdentityId = "NULL"
    <2> SUFFICES ASSUME RowsOfUser(u)' = {} PROVE account'[u].swiyuIdentityId = "NULL"
      OBVIOUS
    <2>1. account[u].swiyuIdentityId = "NULL"
      BY <1>1, <1>3
    <2>2. CASE account'[u] = [account[u] EXCEPT !.status = "deleted"]
      BY <1>1, <2>1, <2>2 DEF Account
    <2> QED
      BY <1>1, <1>2, <2>1, <2>2 DEF AccountStep
  <1>5. account'[u].status = "none" => account'[u].concurrencyStamp = 0
    <2>1. CASE account[u].status = "none"
      BY <1>1, <1>3, <2>1 DEF AccountStep
    <2>2. CASE account[u].status # "none"
      BY <2>2, AccountAges
    <2> QED
      BY <2>1, <2>2
  <1> QED
    BY <1>4, <1>5

LEMMA NextIsTracking ==
  ASSUME TypeInv, TypeInv', AccountsAreLinkedByRows, [Next]_vars,
         NEW r \in Request, IsTracking(request[r])
  PROVE  IsTracking(request[r])'
  <1> USE DEF TypeInv, TypeOK
  \* What was read in an earlier step stays old or true.
  <1>1. ASSUME NEW q, q.user \in User, q.stamp \in Nat,
               account[q.user].status # "none",
               q.stamp <= account[q.user].concurrencyStamp,
               q.stamp = account[q.user].concurrencyStamp => q.email = account[q.user].email,
               RowsOfUser(q.user) = {} => q.tracked = "NULL"
        PROVE  /\ account'[q.user].status # "none"
               /\ q.stamp <= account'[q.user].concurrencyStamp
               /\ q.stamp = account'[q.user].concurrencyStamp => q.email = account'[q.user].email
               /\ RowsOfUser(q.user)' = {} => q.tracked = "NULL"
    <2>1. account[q.user] \in Account /\ account'[q.user] \in Account
      BY <1>1
    <2>2. RowsOfUser(q.user)' = {} => RowsOfUser(q.user) = {}
      BY RowsStay DEF RowsOfUser
    <2>3. /\ account'[q.user].status # "none"
          /\ account'[q.user].concurrencyStamp >= account[q.user].concurrencyStamp
          /\ account'[q.user].concurrencyStamp = account[q.user].concurrencyStamp =>
               account'[q.user].email = account[q.user].email
      BY <1>1, AccountAges
    <2>4. account[q.user].concurrencyStamp \in Nat /\ account'[q.user].concurrencyStamp \in Nat
      BY <2>1 DEF Account
    <2> QED
      BY <1>1, <2>2, <2>3, <2>4
  <1>2. CASE request'[r] = request[r]
    BY <1>1, <1>2 DEF IsTracking, RequestRecord
  <1>3. CASE request'[r].pc \notin {"recheck", "save"}
    BY <1>3 DEF IsTracking
  <1>4. CASE request[r].pc = "recheck" /\ request[r].user # None /\ GoTo(r, "save")
    <2>1. /\ request'[r].user = request[r].user
          /\ request'[r].email = request[r].email
          /\ request'[r].stamp = request[r].stamp
          /\ request'[r].tracked = request[r].tracked
      BY <1>4 DEF GoTo, RequestRecord
    <2>2. /\ request[r].user \in User
          /\ request[r].stamp \in Nat
          /\ account[request[r].user].status # "none"
          /\ request[r].stamp <= account[request[r].user].concurrencyStamp
          /\ request[r].stamp = account[request[r].user].concurrencyStamp
               => request[r].email = account[request[r].user].email
          /\ RowsOfUser(request[r].user) = {} => request[r].tracked = "NULL"
      BY <1>4 DEF IsTracking, RequestRecord
    <2>3. ASSUME NEW q, q = request[r]
          PROVE  /\ account'[q.user].status # "none"
                 /\ q.stamp <= account'[q.user].concurrencyStamp
                 /\ q.stamp = account'[q.user].concurrencyStamp => q.email = account'[q.user].email
                 /\ RowsOfUser(q.user)' = {} => q.tracked = "NULL"
      BY <1>1, <2>2, <2>3
    <2>4. ASSUME NEW u, u = request[r].user
          PROVE  RowsOfUser(u)' = {} => request[r].tracked = "NULL"
      BY <2>3, <2>4
    <2> QED
      BY <2>1, <2>2, <2>3, <2>4 DEF IsTracking
  <1>5. CASE RegisterRecheck(r)
    BY <1>3, <1>4, <1>5, AnswerTyped DEF RegisterRecheck, Outcome
  <1>6. CASE RegisterFindUser(r)
    <2>1. CASE request'[r].pc = "recheck" /\ request'[r].user # None
      <3> DEFINE u == request'[r].user
      <3>1. /\ UNCHANGED <<account, swiyuIdentity>>
            /\ u \in User
            /\ Active(u)
            /\ request'[r].email = account[u].email
            /\ request'[r].stamp = account[u].concurrencyStamp
            /\ request'[r].tracked = account[u].swiyuIdentityId
        BY <1>6, <2>1, RegisterFindUserMoves
      <3>2. account[u].concurrencyStamp \in Nat /\ account[u].status # "none"
        BY <3>1 DEF Account, Active
      <3>3. RowsOfUser(u) = {} => account[u].swiyuIdentityId = "NULL"
        BY <3>1 DEF AccountsAreLinkedByRows
      <3> QED
        BY <3>1, <3>2, <3>3 DEF IsTracking, RowsOfUser
    <2>2. CASE request'[r].pc # "recheck" \/ request'[r].user = None
      BY <1>6, <2>2, RegisterFindUserMoves DEF IsTracking
    <2> QED
      BY <2>1, <2>2
  <1>7. CASE RegisterLookup(r)
    <2>1. request'[r].pc \in {"findUser", "answered"}
      BY <1>7, GoToTyped, AnswerTyped DEF RegisterLookup, Step, Outcome
    <2> QED
      BY <1>3, <2>1
  <1>8. CASE RegisterSave(r)
    <2>1. request'[r].pc \in {"removeClaims", "answered"}
      BY <1>8, GoToTyped, AnswerTyped DEF RegisterSave, Step, Outcome
    <2> QED
      BY <1>3, <2>1
  <1>9. CASE PollSuccess(r) \/ LoginLookup(r)
    <2>1. request'[r].pc \in {"lookup", "loginLookup", "signIn", "answered"}
      BY <1>9, PollSuccessMoves, LoginLookupMoves DEF AfterPoll
    <2> QED
      BY <1>3, <2>1
  <1> QED
    BY <1>2, <1>3, <1>5, <1>6, <1>7, <1>8, <1>9, RequestStep, PostStarts, ChangeEmailStarts DEF Polling

LEMMA TrackingInvariant == Spec => []Tracking
  <1>1. Init => Tracking
    BY DEF Init, Tracking, AccountsAreLinkedByRows, IsTracking, IdleRequest
  <1>2. TypeInv /\ TypeInv' /\ Tracking /\ [Next]_vars => Tracking'
    BY NextAccountsAreLinkedByRows, NextIsTracking DEF Tracking
  <1> QED
    BY <1>1, <1>2, TypeInvariant, PTL DEF Spec

\* The first row of an account is saved while the account is active and carries
\* the address the account has then, however long ago the account was read.
THEOREM FirstLinksFresh == Spec => FirstLinkIsFresh
  <1> DEFINE Fresh ==
        \A row \in swiyuIdentity' \ swiyuIdentity :
          RowsOfUser(row.UserId) = {} =>
            Active(row.UserId) /\ account[row.UserId].email = row.Email
  <1>1. TypeInv /\ Tracking /\ [Next]_vars => Fresh
    <2> SUFFICES ASSUME TypeInv, Tracking, [Next]_vars,
                        NEW row \in swiyuIdentity' \ swiyuIdentity,
                        RowsOfUser(row.UserId) = {}
                 PROVE  Active(row.UserId) /\ account[row.UserId].email = row.Email
      OBVIOUS
    <2>1. PICK r \in Request : RegisterSave(r) /\ swiyuIdentity' = swiyuIdentity \union {NewRow(r)}
      BY RowsStay
    <2>2. row = NewRow(r)
      BY <2>1
    <2>3. row.UserId = request[r].user /\ row.Email = request[r].email
      BY <2>2 DEF NewRow
    <2>4. request[r].pc = "save" /\ request[r].user \in User
      BY <2>1 DEF RegisterSave, TypeInv, RequestsHaveData, HasData
    <2>5. /\ request[r].tracked = "NULL"
          /\ request[r].stamp = account[request[r].user].concurrencyStamp
               => request[r].email = account[request[r].user].email
      BY <2>3, <2>4, NoneIsNull DEF Tracking, IsTracking
    <2> QED
      BY <2>1, <2>3, <2>5 DEF RegisterSave, linkVars
  <1> QED
    BY <1>1, TypeInvariant, TrackingInvariant, PTL DEF Spec, FirstLinkIsFresh

(***************************************************************************)
(* The account that gets a row is the one that posted the form.  The page  *)
(* finds it by the address in the cookie, which is right as long as the    *)
(* account has neither changed nor gone.                                   *)
(***************************************************************************)

\* Account u has been changed or deleted since it was created.
Settled(u) == account[u].status = "deleted" \/ account[u].concurrencyStamp > 0

\* A cookie shows the address of its account, unless that account has changed.
IsCurrent(cookie) ==
  cookie.user # None =>
    /\ account[cookie.user].status # "none"
    /\ cookie.email = account[cookie.user].email \/ Settled(cookie.user)

\* What a registration found by address is the account of its cookie.
IsForPoster(q) ==
  /\ q.pc \in {"registerPoll"} \union Registering => IsCurrent(q.cookie)
  /\ q.pc \in {"recheck", "save"} /\ q.user # None =>
       q.user = q.cookie.user \/ Settled(q.cookie.user)

ForPoster ==
  /\ \A b \in Browser : IsCurrent(session[b])
  /\ \A r \in Request : IsForPoster(request[r])

LEMMA SettledStays ==
  ASSUME TypeInv, AccountsAreLinkedByRows, [Next]_vars, NEW u \in User, Settled(u)
  PROVE  Settled(u)'
  <1>1. account[u].concurrencyStamp \in Nat /\ account'[u].concurrencyStamp \in Nat
    BY NextTypeInv DEF TypeInv, TypeOK, Account
  <1>2. account[u].status # "none"
    BY <1>1 DEF Settled, AccountsAreLinkedByRows
  <1> QED
    BY <1>1, <1>2, AccountAges DEF Settled

\* A cookie that nobody replaces stays current.
LEMMA CurrentStays ==
  ASSUME TypeInv, AccountsAreLinkedByRows, [Next]_vars,
         NEW cookie \in Session, IsCurrent(cookie)
  PROVE  IsCurrent(cookie)'
  <1> SUFFICES ASSUME cookie.user # None PROVE IsCurrent(cookie)'
    BY DEF IsCurrent
  <1> DEFINE u == cookie.user
  <1>1. /\ u \in User
        /\ account[u].status # "none"
        /\ cookie.email = account[u].email \/ Settled(u)
    BY DEF Session, IsCurrent
  <1>2. account[u].concurrencyStamp \in Nat /\ account'[u].concurrencyStamp \in Nat
    BY <1>1, NextTypeInv DEF TypeInv, TypeOK, Account
  <1>3. /\ account'[u].status # "none"
        /\ account'[u].concurrencyStamp >= account[u].concurrencyStamp
        /\ account'[u].concurrencyStamp = account[u].concurrencyStamp =>
             account'[u].email = account[u].email
    BY <1>1, AccountAges
  <1>4. Settled(u) => Settled(u)'
    BY <1>1, SettledStays
  <1> QED
    BY <1>1, <1>2, <1>3, <1>4 DEF IsCurrent, Settled

LEMMA NextSessionsAreCurrent ==
  ASSUME TypeInv, AccountsAreLinkedByRows, [Next]_vars, NEW b \in Browser, IsCurrent(session[b])
  PROVE  IsCurrent(session[b])'
  <1> USE DEF TypeInv, TypeOK
  <1>1. CASE session'[b] = session[b]
    <2>1. ASSUME NEW c, c = session[b] PROVE IsCurrent(c)'
      BY <2>1, CurrentStays
    <2> QED
      BY <1>1, <2>1 DEF IsCurrent
  <1>2. ASSUME NEW u \in User, Active(u), NEW claims, session'[b] = Cookie(u, claims),
               UNCHANGED account
        PROVE  IsCurrent(session[b])'
    BY <1>2 DEF Cookie, IsCurrent, Active
  <1>3. CASE session'[b] = NoSession
    BY <1>3 DEF NoSession, IsCurrent
  <1>4. ASSUME NEW c \in Browser, NEW u \in User, NEW e \in Email, CreateAccount(c, u, e), c = b
        PROVE  IsCurrent(session[b])'
    BY <1>4 DEF CreateAccount, IsCurrent
  <1>5. ASSUME NEW r \in Request, SetUserName(r), session'[b] # session[b]
        PROVE  IsCurrent(session[b])'
    <2> DEFINE u == request[r].user
    <2>1. u \in User /\ account[u] \in Account
      BY <1>5 DEF SetUserName, RequestsHaveData, HasData
    <2>2. /\ session'[b].user = u
          /\ Active(u)
          /\ account' = [account EXCEPT ![u].userName = request[r].email,
                                        ![u].concurrencyStamp = @ + 1]
      BY <1>5, <2>1 DEF SetUserName, Cookie
    <2>3. account'[u].status = "active" /\ account'[u].concurrencyStamp > 0
      BY <2>1, <2>2 DEF Account, Active
    <2> QED
      BY <2>2, <2>3 DEF IsCurrent, Settled
  <1>6. ASSUME NEW r \in Request, LoginSignIn(r), session'[b] # session[b]
        PROVE  IsCurrent(session[b])'
    <2>1. /\ request[r].user \in User
          /\ Active(request[r].user)
          /\ account' = account
          /\ session'[b] = Cookie(request[r].user, SwiyuLoginClaims(request[r].person))
      BY <1>6 DEF LoginSignIn, RequestsHaveData, HasData
    <2> QED
      BY <1>2, <2>1
  <1>7. ASSUME NEW c \in Browser, NEW u \in User, LocalLogin(c, u), session'[b] # session[b]
        PROVE  IsCurrent(session[b])'
    <2>1. Active(u) /\ account' = account /\ \E claims : session'[b] = Cookie(u, claims)
      BY <1>7 DEF LocalLogin
    <2> QED
      BY <1>2, <2>1
  <1>8. ASSUME NEW c \in Browser, Logout(c) \/ DeletePersonalData(c), session'[b] # session[b]
        PROVE  IsCurrent(session[b])'
    BY <1>3, <1>8 DEF Logout, DeletePersonalData
  <1>9. ASSUME NEW c \in Browser, NEW u \in User, NEW e \in Email, CreateAccount(c, u, e),
               session'[b] # session[b]
        PROVE  IsCurrent(session[b])'
    BY <1>4, <1>9 DEF CreateAccount
  <1> QED
    BY <1>1, <1>5, <1>6, <1>7, <1>8, <1>9 DEF Next, External, UserActs, UserRequests, Handle, Restart, vars,
       RegisterOnGet, LoginOnGet, RegisterOnPost, LoginOnPost, Post, ChangeEmail,
       PollSuccess, PollRemoved, CallFails, RegisterLookup, RegisterFindUser,
       RegisterRecheck, RegisterSave, RegisterRemoveClaims, LoginLookup

LEMMA NextIsForPoster ==
  ASSUME TypeInv, Tracking, ForPoster, [Next]_vars, NEW r \in Request
  PROVE  IsForPoster(request[r])'
  <1> USE DEF TypeInv, TypeOK
  \* What the request has read in an earlier step still holds.
  <1>1. ASSUME NEW q, q = request[r], q.pc \in {"registerPoll"} \union Registering
        PROVE  /\ q.cookie.user \in User
               /\ IsCurrent(q.cookie)
               /\ IsCurrent(q.cookie)'
    <2>1. q.cookie \in Session /\ q.cookie.user \in User /\ IsCurrent(q.cookie)
      BY <1>1 DEF RequestsHaveData, HasData, ForPoster, IsForPoster, RequestRecord
    <2> QED
      BY <2>1, CurrentStays DEF Tracking
  <1>2. ASSUME NEW q, q = request[r], q.pc \in {"recheck", "save"}, q.user # None
        PROVE  q.user = q.cookie.user \/ Settled(q.cookie.user)'
    <2>1. q.cookie.user \in User
      BY <1>1, <1>2 DEF Registering
    <2>2. q.user = q.cookie.user \/ Settled(q.cookie.user)
      BY <1>2 DEF ForPoster, IsForPoster
    <2> QED
      BY <2>1, <2>2, SettledStays DEF Tracking
  <1>3. ASSUME request[r].pc \in {"registerPoll"} \union Registering,
               request'[r].cookie = request[r].cookie,
               \A w : /\ w = request[r].cookie.user
                      /\ request'[r].pc \in {"recheck", "save"}
                      /\ request'[r].user # None
                      => request'[r].user = w \/ Settled(w)'
        PROVE  IsForPoster(request[r])'
    <2>1. \A c : c = request[r].cookie => IsCurrent(c)'
      BY <1>1, <1>3
    <2>2. IsCurrent(request[r].cookie)'
      BY <1>3, <2>1 DEF IsCurrent
    <2>3. request'[r].pc \in {"recheck", "save"} /\ request'[r].user # None =>
            (request[r].user = request[r].cookie.user \/ Settled(request[r].cookie.user))'
      BY <1>3 DEF Settled
    <2> QED
      BY <2>2, <2>3 DEF IsForPoster
  <1>4. CASE request'[r].pc \notin {"registerPoll"} \union Registering
    BY <1>4 DEF IsForPoster, Registering
  <1>5. CASE request'[r] = request[r] /\ request'[r].pc \in {"registerPoll"} \union Registering
    BY <1>2, <1>3, <1>5
  <1>6. ASSUME NEW b \in Browser, NEW v \in Verification,
               RegisterOnPost(r, b, v) \/ LoginOnPost(r, b, v)
        PROVE  IsForPoster(request[r])'
    <2>1. /\ request'[r].pc \in Polling
          /\ request'[r].cookie = Principal(session[b])
          /\ UNCHANGED account
      BY <1>6, PostStarts
    <2>2. /\ request'[r].cookie.user = session[b].user
          /\ request'[r].cookie.email = session[b].email
      BY <2>1, PrincipalTyped
    <2>3. IsCurrent(session[b])
      BY DEF ForPoster
    <2>4. IsCurrent(request[r].cookie)'
      BY <2>1, <2>2, <2>3 DEF IsCurrent, Settled
    <2> QED
      BY <2>1, <2>4 DEF IsForPoster, Polling
  <1>7. CASE PollSuccess(r) /\ request'[r].pc \in {"registerPoll"} \union Registering
    <2>1. /\ request[r].pc \in Polling
          /\ request'[r].cookie = request[r].cookie
          /\ request'[r].pc = AfterPoll(r)
      BY <1>7, PollSuccessMoves DEF Registering
    <2>2. request[r].pc = "registerPoll" /\ request'[r].pc = "lookup"
      BY <1>7, <2>1 DEF AfterPoll, Polling, Registering
    <2> QED
      BY <1>3, <2>1, <2>2
  <1>8. ASSUME NEW step \in Step, GoTo(r, step), request[r].pc \in Registering,
               step \in {"findUser", "save", "removeClaims"},
               step = "save" => request[r].pc = "recheck"
        PROVE  IsForPoster(request[r])'
    <2>1. /\ request'[r].pc = step
          /\ request'[r].cookie = request[r].cookie
          /\ request'[r].user = request[r].user
      BY <1>8, GoToTyped
    <2> QED
      BY <1>2, <1>3, <1>8, <2>1
  <1>9. CASE RegisterLookup(r) \/ RegisterRecheck(r) \/ RegisterSave(r)
    <2>1. ASSUME NEW o \in Outcome, Answer(r, o)
          PROVE  IsForPoster(request[r])'
      BY <1>4, <2>1, AnswerTyped DEF Registering
    <2> QED
      BY <1>8, <1>9, <2>1 DEF RegisterLookup, RegisterRecheck, RegisterSave, Step, Outcome, Registering
  <1>10. CASE RegisterFindUser(r) /\ request'[r].pc \in {"registerPoll"} \union Registering
    <2> DEFINE c == request[r].cookie
    <2>1. /\ request[r].pc = "findUser"
          /\ request'[r].cookie = c
          /\ request'[r].pc = "recheck"
          /\ UNCHANGED account
          /\ request'[r].user # None => AccountsWithEmail(c.email) = {request'[r].user}
      BY <1>10, RegisterFindUserMoves DEF Registering
    <2>2. request[r].pc \in {"registerPoll"} \union Registering
      BY <2>1 DEF Registering
    <2>3. c.user \in User /\ IsCurrent(c)
      BY <1>1, <2>2
    <2>4. Settled(c.user) \/ c.user \in AccountsWithEmail(c.email)
      <3>1. c.user # None /\ account[c.user].status \in {"none", "active", "deleted"}
        BY <2>3, NoneIsNull DEF Account
      <3> QED
        BY <2>3, <3>1 DEF IsCurrent, Settled, AccountsWithEmail, Active
    <2>5. ASSUME NEW w, w = request[r].cookie.user, request'[r].user # None
          PROVE  request'[r].user = w \/ Settled(w)'
      BY <2>1, <2>4, <2>5 DEF Settled
    <2> QED
      BY <1>3, <2>1, <2>2, <2>5
  <1>11. CASE LoginLookup(r)
    BY <1>4, <1>11, LoginLookupMoves DEF Registering
  <1> QED
    BY <1>4, <1>5, <1>6, <1>7, <1>9, <1>10, <1>11, RequestStep, ChangeEmailStarts DEF Registering

LEMMA ForPosterInvariant == Spec => []ForPoster
  <1>1. Init => ForPoster
    BY DEF Init, ForPoster, IsCurrent, NoSession, IsForPoster, IdleRequest, Registering
  <1>2. TypeInv /\ Tracking /\ ForPoster /\ [Next]_vars => ForPoster'
    BY NextSessionsAreCurrent, NextIsForPoster DEF ForPoster, Tracking
  <1> QED
    BY <1>1, <1>2, TypeInvariant, TrackingInvariant, PTL DEF Spec

\* A row is written for the account whose cookie the form was posted with, unless
\* that account has been changed or deleted.
THEOREM RowsGoToPosters == Spec => RowGoesToPoster
  <1> DEFINE ToPoster(row) ==
        \E r \in Request :
          LET u == request[r].cookie.user IN
          /\ request[r].pc = "save"
          /\ request'[r].pc = "removeClaims"
          /\ \/ row.UserId = u
             \/ account[u].status = "deleted"
             \/ account[u].concurrencyStamp > 0
  <1>1. TypeInv /\ ForPoster /\ [Next]_vars
          => \A row \in swiyuIdentity' \ swiyuIdentity : ToPoster(row)
    <2> SUFFICES ASSUME TypeInv, ForPoster, [Next]_vars,
                        NEW row \in swiyuIdentity' \ swiyuIdentity
                 PROVE  ToPoster(row)
      OBVIOUS
    <2>1. PICK r \in Request : RegisterSave(r) /\ swiyuIdentity' = swiyuIdentity \union {NewRow(r)}
      BY RowsStay
    <2>2. row.UserId = request[r].user
      BY <2>1 DEF NewRow
    <2>3. request[r].pc = "save" /\ GoTo(r, "removeClaims")
      BY <2>1 DEF RegisterSave, linkVars
    <2>4. request'[r].pc = "removeClaims"
      BY <2>3, GoToTyped DEF Step, TypeInv, TypeOK
    <2>5. request[r].user # None
      BY <2>3, NoneIsNull DEF TypeInv, RequestsHaveData, HasData
    <2>6. request[r].user = request[r].cookie.user \/ Settled(request[r].cookie.user)
      BY <2>3, <2>5 DEF ForPoster, IsForPoster
    <2> QED
      BY <2>2, <2>3, <2>4, <2>6 DEF Settled
  <1> QED
    BY <1>1, TypeInvariant, ForPosterInvariant, PTL DEF Spec, RowGoesToPoster

(***************************************************************************)
(* A person is linked once unless two registrations of that person pass    *)
(* the second query before either of them has saved: nothing else keeps    *)
(* two saves apart, and nothing else can bring them together.              *)
(***************************************************************************)

\* No two requests are about to save a row of the same person.
NoSaveRace ==
  \A q, r \in Request :
    /\ q # r
    /\ request[q].pc = "save"
    /\ request[r].pc = "save"
    => request[q].person # request[r].person

\* A request about to save still finds no row of its person.
SaveIsFirst == \A r \in Request : request[r].pc = "save" => RowsOfPerson(request[r].person) = {}

LEMMA NextSaveIsFirst ==
  ASSUME NoSaveRace, TypeInv, SaveIsFirst, [Next]_vars
  PROVE  SaveIsFirst'
  <1> USE DEF TypeInv, TypeOK
  <1> SUFFICES ASSUME NEW r \in Request, request'[r].pc = "save"
               PROVE  (RowsOfPerson(request[r].person) = {})'
    BY DEF SaveIsFirst
  <1>1. request'[r] = request[r] \/ RegisterRecheck(r)
    <2>1. ASSUME RegisterLookup(r) PROVE request'[r].pc \in {"findUser", "answered"}
      BY <2>1, GoToTyped, AnswerTyped DEF RegisterLookup, Step, Outcome
    <2>2. ASSUME RegisterSave(r) PROVE request'[r].pc \in {"removeClaims", "answered"}
      BY <2>2, GoToTyped, AnswerTyped DEF RegisterSave, Step, Outcome
    <2> QED
      BY <2>1, <2>2, RequestStep, PostStarts, ChangeEmailStarts, PollSuccessMoves,
         RegisterFindUserMoves, LoginLookupMoves DEF Polling, AfterPoll
  <1>2. CASE RegisterRecheck(r)
    <2>1. RowsOfPerson(request[r].person) = {} /\ GoTo(r, "save")
      BY <1>2, AnswerTyped DEF RegisterRecheck, Outcome
    <2>2. request'[r].person = request[r].person
      BY <2>1, GoToTyped DEF Step
    <2> QED
      BY <1>2, <2>1, <2>2 DEF RegisterRecheck, RowsOfPerson
  <1>3. CASE request'[r] = request[r]
    <2>1. RowsOfPerson(request[r].person) = {}
      BY <1>3 DEF SaveIsFirst
    <2>2. CASE swiyuIdentity' = swiyuIdentity
      BY <1>3, <2>1, <2>2 DEF RowsOfPerson
    <2>3. ASSUME NEW q \in Request, RegisterSave(q), swiyuIdentity' = swiyuIdentity \union {NewRow(q)}
          PROVE  (RowsOfPerson(request[r].person) = {})'
      <3>1. q # r
        BY <1>3, <2>3, GoToTyped, AnswerTyped DEF RegisterSave, Step, Outcome
      <3>2. NewRow(q).person # request[r].person
        BY <1>3, <2>3, <3>1 DEF NoSaveRace, RegisterSave, NewRow
      <3> QED
        BY <1>3, <2>1, <2>3, <3>2 DEF RowsOfPerson
    <2> QED
      BY <2>2, <2>3, RowsStay
  <1> QED
    BY <1>1, <1>2, <1>3

LEMMA NextOneRowPerPerson ==
  ASSUME SaveIsFirst, OneRowPerPerson, [Next]_vars
  PROVE  OneRowPerPerson'
  <1>1. ASSUME NEW r \in Request, RegisterSave(r), swiyuIdentity' = swiyuIdentity \union {NewRow(r)}
        PROVE  OneRowPerPerson'
    <2>1. \A row \in swiyuIdentity : row.person # request[r].person
      BY <1>1 DEF RegisterSave, SaveIsFirst, RowsOfPerson
    <2>2. NewRow(r).person = request[r].person
      BY DEF NewRow
    <2> QED
      BY <1>1, <2>1, <2>2 DEF OneRowPerPerson
  <1> QED
    BY <1>1, RowsStay DEF OneRowPerPerson

\* However many requests run, a person gets a second row in no way but one: two
\* requests of that person are between the second query and the save together.
THEOREM OneRowPerPersonUnlessRaced == Spec /\ []NoSaveRace => []OneRowPerPerson
  <1>1. Init => SaveIsFirst /\ OneRowPerPerson
    BY DEF Init, SaveIsFirst, OneRowPerPerson, IdleRequest
  <1>2. TypeInv /\ NoSaveRace /\ SaveIsFirst /\ OneRowPerPerson /\ [Next]_vars
        => SaveIsFirst' /\ OneRowPerPerson'
    BY NextSaveIsFirst, NextOneRowPerPerson
  <1> QED
    BY <1>1, <1>2, TypeInvariant, PTL DEF Spec

OneRequestAtATime == \A q, r \in Request : q = r

\* Handled one at a time, registrations never connect a person twice, whatever
\* fails, is repeated or restarted in between.
THEOREM OneRowPerPersonSequential ==
  ASSUME OneRequestAtATime
  PROVE  Spec => []OneRowPerPerson
  <1>1. NoSaveRace
    BY DEF OneRequestAtATime, NoSaveRace
  <1> QED
    BY <1>1, OneRowPerPersonUnlessRaced, PTL
================================================================================
