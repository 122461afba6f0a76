---------------------- MODULE IdentityLinkRefinementProofs ----------------------
(***************************************************************************)
(* The pages implement the registry of links, for any number of requests.  *)
(* Each step of the program is one step of the registry or none: a wallet  *)
(* that presents proves, a save links, and a new cookie identifies or      *)
(* forgets.                                                                *)
(***************************************************************************)
EXTENDS IdentityLinkRefinement, SessionRefinement, SwiyuIdentityLinkProofs

\* The identity column never repeats an id.
IdsAreUsed == \A row \in swiyuIdentity : row.Id <= lastId

LEMMA NextIdsAreUsed ==
  ASSUME TypeInv, IdsAreUsed, [Next]_vars
  PROVE  IdsAreUsed'
  <1> USE DEF TypeInv, TypeOK, SwiyuIdentityRow
  <1>1. ASSUME NEW r \in Request, RegisterSave(r)
        PROVE  IdsAreUsed'
    BY <1>1 DEF RegisterSave, linkVars, IdsAreUsed
  <1>2. CASE UNCHANGED <<swiyuIdentity, lastId>>
    BY <1>2 DEF IdsAreUsed
  <1> QED
    BY <1>1, <1>2 DEF Next, External, UserActs, UserRequests, Handle, Restart, vars, CreateAccount,
       LocalLogin, Logout, DeletePersonalData, RegisterOnGet, LoginOnGet, RegisterOnPost,
       LoginOnPost, Post, ChangeEmail, PollSuccess, PollRemoved, CallFails, RegisterLookup,
       RegisterFindUser, RegisterRecheck, RegisterRemoveClaims, LoginLookup, LoginSignIn,
       SetUserName

(***************************************************************************)
(* The three ways a step can show in the registry                          *)
(***************************************************************************)

\* Nothing the verifier or a page does unlinks or identifies; at most one more
\* person has proven their identity.
LEMMA VerificationSteps ==
  ASSUME TypeInv, Evidence,
         External \/ (\E b \in Browser, v \in Verification : RegisterOnGet(b, v) \/ LoginOnGet(b, v))
  PROVE  [Registry!RegistryNext]_(Registry!registryVars)
  <1> USE DEF TypeInv, TypeOK, VerifierTypeOK, VerificationRecord
  <1>1. UNCHANGED <<Links, Identified>>
    BY DEF External, RegisterOnGet, LoginOnGet, Links, Identified
  <1>2. ASSUME NEW v \in Verification, NEW p \in Person \union {None}, WalletPresents(v, p)
        PROVE  ProvenPersons' = ProvenPersons
               \/ (p \in Person /\ ProvenPersons' = ProvenPersons \union {p})
    <2>1. verification[v].claims = None
      BY <1>2 DEF WalletPresents, Evidence, AnswersAreFinal
    <2>2. /\ verification'[v].claims = p
          /\ \A w \in Verification : w # v => verification'[w].claims = verification[w].claims
      BY <1>2 DEF WalletPresents
    <2>3. CASE p # None
      BY <1>2, <2>1, <2>2, <2>3 DEF ProvenPersons, Presented
    <2>4. CASE p = None
      BY <1>2, <2>1, <2>2, <2>4 DEF ProvenPersons, Presented
    <2> QED
      BY <2>3, <2>4
  <1>3. ASSUME NEW v \in Verification, WalletFails(v) \/ VerifierRemoves(v)
        PROVE  ProvenPersons' = ProvenPersons
    <2>1. \A w \in Verification : verification'[w].claims = verification[w].claims
      BY <1>3 DEF WalletFails, VerifierRemoves
    <2> QED
      BY <2>1 DEF ProvenPersons, Presented
  <1>4. ASSUME NEW b \in Browser, NEW v \in Verification, RegisterOnGet(b, v) \/ LoginOnGet(b, v)
        PROVE  ProvenPersons' = ProvenPersons
    <2>1. \A w \in Verification : verification'[w].claims = verification[w].claims
      BY <1>4 DEF RegisterOnGet, LoginOnGet, CreateVerification
    <2> QED
      BY <2>1 DEF ProvenPersons, Presented
  <1>5. \/ ProvenPersons' = ProvenPersons
        \/ \E p \in Person : ProvenPersons' = ProvenPersons \union {p}
    BY <1>2, <1>3, <1>4 DEF External, VerifierNext
  <1> QED
    BY <1>1, <1>5 DEF Registry!RegistryNext, Registry!registryVars, Registry!Prove

\* A save adds the link of its row, for a person who has proven their identity.
LEMMA SaveSteps ==
  ASSUME TypeInv, Evidence, IdsAreUsed, NEW r \in Request, RegisterSave(r)
  PROVE  [Registry!RegistryNext]_(Registry!registryVars)
  <1> USE DEF TypeInv, TypeOK
  <1>1. UNCHANGED <<ProvenPersons, Identified>>
    BY DEF RegisterSave, ProvenPersons, Presented, Identified
  <1>2. CASE swiyuIdentity' = swiyuIdentity
    BY <1>1, <1>2 DEF Links, Registry!registryVars
  <1>3. CASE swiyuIdentity' # swiyuIdentity
    <2> DEFINE l == [id |-> lastId + 1, person |-> request[r].person, user |-> request[r].user]
    <2>1. swiyuIdentity' = swiyuIdentity \union {NewRow(r)}
      BY <1>3 DEF RegisterSave, linkVars, NewRow
    <2>2. /\ NewRow(r).Id = lastId + 1
          /\ NewRow(r).person = request[r].person
          /\ NewRow(r).UserId = request[r].user
      BY DEF NewRow
    <2>3. Links' = Links \union {l}
      BY <2>1, <2>2 DEF Links
    <2>4. l \notin Links
      <3>1. \A row \in swiyuIdentity : row.Id \in Nat /\ row.Id <= lastId
        BY DEF IdsAreUsed, SwiyuIdentityRow
      <3>2. \A k \in Links : \E row \in swiyuIdentity : k.id = row.Id
        BY DEF Links
      <3>3. l.id = lastId + 1
        OBVIOUS
      <3> HIDE DEF l
      <3> QED
        BY <3>1, <3>2, <3>3
    <2>5. l.person \in ProvenPersons /\ l.user \in User
      <3>1. request[r].pc = "save" /\ HasData(request[r]) /\ IsJustified(request[r])
        BY DEF RegisterSave, RequestsHaveData, Evidence, RequestsAreJustified
      <3>2. /\ request[r].user \in User
            /\ request[r].person \in Person
            /\ request[r].verification \in Verification
            /\ Presented(request[r].verification, request[r].person)
        BY <3>1 DEF HasData, IsJustified, Registering
      <3> QED
        BY <3>2 DEF ProvenPersons
    <2>6. Registry!Link(l)
      BY <1>1, <2>3, <2>5 DEF Registry!Link
    <2> QED
      BY <2>3, <2>4, <2>6 DEF Registry!RegistryNext
  <1> QED
    BY <1>2, <1>3

\* A new cookie identifies its browser as a link, or forgets it.
LEMMA CookieSteps ==
  ASSUME TypeInv, NEW b \in Browser, NEW s, session' = [session EXCEPT ![b] = s],
         UNCHANGED <<verification, swiyuIdentity>>, IsLinked(b)'
  PROVE  [Registry!RegistryNext]_(Registry!registryVars)
  <1> USE DEF TypeInv, TypeOK
  <1>1. UNCHANGED <<ProvenPersons, Links>>
    BY DEF ProvenPersons, Presented, Links
  <1>2. session'[b] = s /\ \A c \in Browser : c # b => session'[c] = session[c]
    OBVIOUS
  <1>3. CASE s.loi # LOI_400
    <2>1. Identified' = [Identified EXCEPT ![b] = [person |-> None, user |-> None]]
      BY <1>2, <1>3 DEF Identified
    <2> QED
      BY <1>1, <2>1 DEF Registry!RegistryNext, Registry!Forget
  <1>4. CASE s.loi = LOI_400
    <2>1. PICK row \in swiyuIdentity : row.UserId = s.user /\ row.person = s.person
      BY <1>2, <1>4 DEF IsLinked, RowsOfUser
    <2> DEFINE l == [id |-> row.Id, person |-> row.person, user |-> row.UserId]
    <2>2. l \in Links
      BY DEF Links
    <2>3. Identified' = [Identified EXCEPT ![b] = [person |-> l.person, user |-> l.user]]
      BY <1>2, <1>4, <2>1 DEF Identified
    <2>4. Registry!Identify(b, l)
      BY <1>1, <2>2, <2>3 DEF Registry!Identify
    <2> QED
      BY <2>2, <2>4 DEF Registry!RegistryNext
  <1> QED
    BY <1>3, <1>4

LEMMA RegistryStep ==
  ASSUME TypeInv, Evidence, IdsAreUsed, \A b \in Browser : IsLinked(b)', [Next]_vars
  PROVE  [Registry!RegistryNext]_(Registry!registryVars)
  <1>1. CASE UNCHANGED <<verification, swiyuIdentity, session>>
    BY <1>1 DEF Registry!registryVars, ProvenPersons, Presented, Links, Identified
  <1>2. ASSUME NEW b \in Browser, NEW u \in User,
               (\E e \in Email : CreateAccount(b, u, e)) \/ LocalLogin(b, u)
        PROVE  [Registry!RegistryNext]_(Registry!registryVars)
    <2>1. /\ UNCHANGED <<verification, swiyuIdentity>>
          /\ \E s : session' = [session EXCEPT ![b] = s]
      BY <1>2 DEF CreateAccount, LocalLogin
    <2> QED
      BY <2>1, CookieSteps
  <1>3. ASSUME NEW b \in Browser, Logout(b) \/ DeletePersonalData(b)
        PROVE  [Registry!RegistryNext]_(Registry!registryVars)
    BY <1>3, CookieSteps DEF Logout, DeletePersonalData
  <1>4. ASSUME NEW r \in Request, SetUserName(r) \/ LoginSignIn(r)
        PROVE  [Registry!RegistryNext]_(Registry!registryVars)
    <2>1. request[r].browser \in Browser
      BY <1>4 DEF TypeInv, RequestsHaveData, HasData, SetUserName, LoginSignIn, LoggingIn
    <2>2. /\ UNCHANGED <<verification, swiyuIdentity>>
          /\ UNCHANGED session \/ \E s : session' = [session EXCEPT ![request[r].browser] = s]
      BY <1>4 DEF SetUserName, LoginSignIn
    <2> QED
      BY <1>1, <2>1, <2>2, CookieSteps
  <1> QED
    BY <1>1, <1>2, <1>3, <1>4, VerificationSteps, SaveSteps
       DEF Next, UserActs, UserRequests, Handle, Restart, vars, RegisterOnPost, LoginOnPost,
       Post, ChangeEmail, PollSuccess, PollRemoved, CallFails, RegisterLookup,
       RegisterFindUser, RegisterRecheck, RegisterRemoveClaims, LoginLookup

\* However many requests, browsers and accounts there are and however their steps
\* interleave, the program is a registry of proven links that only grows, and
\* identified sessions are sessions of its links.
THEOREM PagesImplementRegistry == Spec => ImplementsRegistry
  <1>1. Init => Registry!RegistryInit
    BY DEF Init, VerifierInit, NoSession, Absent, LOI_400, Registry!RegistryInit, ProvenPersons,
       Presented, Links, Identified
  <1>2. Init => IdsAreUsed
    BY DEF Init, IdsAreUsed
  <1>3. /\ TypeInv /\ Evidence /\ IdsAreUsed
        /\ (\A b \in Browser : IsLinked(b))'
        /\ [Next]_vars
        => IdsAreUsed' /\ [Registry!RegistryNext]_(Registry!registryVars)
    BY NextIdsAreUsed, RegistryStep
  <1> QED
    BY <1>1, <1>2, <1>3, EvidenceInvariant, SessionInvariant, PTL
       DEF Spec, ImplementsRegistry, Registry!RegistrySpec

(***************************************************************************)
(* The exclusive registry                                                  *)
(***************************************************************************)

\* A step of the registry after which no person has two rows links nobody who is
\* linked already.
LEMMA ExclusiveStep ==
  ASSUME OneRowPerPerson', [Registry!RegistryNext]_(Registry!registryVars)
  PROVE  [ExclusiveRegistry!RegistryNext]_(ExclusiveRegistry!registryVars)
  <1>1. ASSUME NEW l \in Links' \ Links, Registry!Link(l)
        PROVE  ExclusiveRegistry!Link(l)
    <2>1. ASSUME NEW k \in Links, k.person = l.person
          PROVE  FALSE
      <3>1. k \in Links'
        BY <1>1 DEF Registry!Link
      <3>2. PICK row \in swiyuIdentity' :
              k = [id |-> row.Id, person |-> row.person, user |-> row.UserId]
        BY <3>1 DEF Links
      <3>3. PICK new \in swiyuIdentity' :
              l = [id |-> new.Id, person |-> new.person, user |-> new.UserId]
        BY DEF Links
      <3>4. row = new
        BY <2>1, <3>2, <3>3 DEF OneRowPerPerson
      <3> QED
        BY <3>2, <3>3, <3>4
    <2> QED
      BY <1>1, <2>1 DEF Registry!Link, ExclusiveRegistry!Link
  <1> QED
    BY <1>1 DEF Registry!RegistryNext, ExclusiveRegistry!RegistryNext, Registry!registryVars,
       ExclusiveRegistry!registryVars, Registry!Prove, ExclusiveRegistry!Prove, Registry!Forget,
       ExclusiveRegistry!Forget, Registry!Identify, ExclusiveRegistry!Identify

\* The pages implement the registry that the error text of Register.cshtml.cs:156
\* promises, in which nobody is linked twice, in every behaviour in which no two
\* requests are about to save a row of the same person.
THEOREM PagesImplementExclusiveRegistry ==
  Spec /\ []NoSaveRace => ImplementsExclusiveRegistry
  <1>1. Registry!RegistryInit => ExclusiveRegistry!RegistryInit
    BY DEF Registry!RegistryInit, ExclusiveRegistry!RegistryInit
  <1>2. OneRowPerPerson' /\ [Registry!RegistryNext]_(Registry!registryVars)
        => [ExclusiveRegistry!RegistryNext]_(ExclusiveRegistry!registryVars)
    BY ExclusiveStep
  <1> QED
    BY <1>1, <1>2, PagesImplementRegistry, OneRowPerPersonUnlessRaced, PTL
       DEF ImplementsRegistry, ImplementsExclusiveRegistry, Registry!RegistrySpec,
           ExclusiveRegistry!RegistrySpec

\* With one request at a time they implement it without reservation.
THEOREM SequentialPagesImplementExclusiveRegistry ==
  ASSUME OneRequestAtATime
  PROVE  Spec => ImplementsExclusiveRegistry
  <1>1. NoSaveRace
    BY DEF OneRequestAtATime, NoSaveRace
  <1> QED
    BY <1>1, PagesImplementExclusiveRegistry, PTL

(***************************************************************************)
(* The cookies of SignInSessions                                           *)
(***************************************************************************)

\* Claims are the same constants on both sides.
LEMMA SameClaims ==
  /\ Sessions!NewAccountClaims = NewAccountClaims
  /\ \A person, loa, amr :
       Sessions!LocalLoginClaims(person, loa, amr) = LocalLoginClaims(person, loa, amr)
  /\ \A person : Sessions!SwiyuLoginClaims(person) = SwiyuLoginClaims(person)
  /\ \A c : Sessions!RefreshedClaims(c) = RefreshedClaims(c)
  /\ Sessions!NoCookie = ClaimsOf(NoSession)
  BY DEF Sessions!NewAccountClaims, NewAccountClaims, Sessions!LocalLoginClaims, LocalLoginClaims,
     Sessions!SwiyuLoginClaims, SwiyuLoginClaims, Sessions!RefreshedClaims, RefreshedClaims,
     Sessions!NoCookie, ClaimsOf, NoSession, Sessions!LOA_100, LOA_100, Sessions!LOA_200, LOA_200,
     Sessions!LOI_100, LOI_100, Sessions!LOI_400, LOI_400, Sessions!Absent, Absent,
     Sessions!Mca, Mca, Sessions!Pwd, Pwd

\* A new cookie shows in the claims of its browser only.
LEMMA NewCookie ==
  ASSUME TypeInv, NEW b \in Browser, NEW s, session' = [session EXCEPT ![b] = s]
  PROVE  CookieClaims' = [CookieClaims EXCEPT ![b] = ClaimsOf(s)]
  BY DEF TypeInv, TypeOK, CookieClaims

\* The requests in which an e-mail change is half done are all that counts.
LEMMA OtherRequests ==
  ASSUME \A r \in Request :
           \/ request'[r] = request[r]
           \/ request[r].pc # "setUserName" /\ request'[r].pc # "setUserName"
  PROVE  UNCHANGED ManagedClaims
  <1>1. ASSUME NEW b \in Browser, NEW r \in Request
        PROVE  /\ Refreshing(r, b)' <=> Refreshing(r, b)
               /\ Refreshing(r, b) => request'[r] = request[r]
    BY DEF Refreshing
  <1>2. ASSUME NEW b \in Browser
        PROVE  {ClaimsOf(request'[r].cookie) : r \in {r \in Request : Refreshing(r, b)'}}
               = {ClaimsOf(request[r].cookie) : r \in {r \in Request : Refreshing(r, b)}}
    BY <1>1
  <1> QED
    BY <1>2 DEF ManagedClaims

\* An e-mail change that ends takes its cookie with it, unless another one came
\* with the same claims.
LEMMA RequestEnds ==
  ASSUME NEW r \in Request, request[r].pc = "setUserName", request'[r].pc # "setUserName",
         \A q \in Request : q # r => request'[q] = request[q]
  PROVE  \/ UNCHANGED ManagedClaims
         \/ LET b == request[r].browser
                c == ClaimsOf(request[r].cookie)
            IN  /\ Refreshing(r, b)
                /\ ManagedClaims' = [ManagedClaims EXCEPT ![b] = @ \ {c}]
  <1> DEFINE c == ClaimsOf(request[r].cookie)
             M(b) == {ClaimsOf(request[q].cookie) : q \in {q \in Request : Refreshing(q, b)}}
             N(b) == {ClaimsOf(request'[q].cookie) : q \in {q \in Request : Refreshing(q, b)'}}
  <1>1. ASSUME NEW b \in Browser, NEW q \in Request
        PROVE  /\ Refreshing(q, b)' <=> Refreshing(q, b) /\ q # r
               /\ q # r => request'[q] = request[q]
    BY DEF Refreshing
  <1>2. ASSUME NEW b \in Browser, ~Refreshing(r, b)
        PROVE  N(b) = M(b)
    BY <1>1, <1>2
  <1>3. ASSUME NEW b \in Browser
        PROVE  N(b) = M(b) \/ N(b) = M(b) \ {c}
    <2>1. M(b) \ {c} \subseteq N(b) /\ N(b) \subseteq M(b)
      BY <1>1
    <2> HIDE DEF M, N, c
    <2> QED
      BY <2>1
  <1>4. /\ ManagedClaims = [b \in Browser |-> M(b)]
        /\ ManagedClaims' = [b \in Browser |-> N(b)]
    BY DEF ManagedClaims
  <1>5. \A b \in Browser : Refreshing(r, b) => b = request[r].browser
    BY DEF Refreshing
  <1> HIDE DEF M, N, c
  <1>6. CASE Refreshing(r, request[r].browser)
    <2>1. \A b \in Browser : b # request[r].browser => N(b) = M(b)
      BY <1>2, <1>5
    <2>2. CASE request[r].browser \in Browser /\ N(request[r].browser) # M(request[r].browser)
      <3>1. N(request[r].browser) = M(request[r].browser) \ {c}
        BY <1>3, <2>2
      <3>2. ManagedClaims' = [ManagedClaims EXCEPT ![request[r].browser] = @ \ {c}]
        BY <1>4, <2>1, <2>2, <3>1
      <3> QED
        BY <1>6, <3>2 DEF c
    <2>3. CASE \A b \in Browser : N(b) = M(b)
      BY <1>4, <2>3
    <2> QED
      BY <2>1, <2>2, <2>3
  <1>7. CASE ~Refreshing(r, request[r].browser)
    BY <1>2, <1>4, <1>5, <1>7
  <1> QED
    BY <1>6, <1>7

\* The pages that sign in or out issue the cookies of SignInSessions.
LEMMA SignInSteps ==
  ASSUME TypeInv, NEW b \in Browser,
         \/ \E u \in User, e \in Email : CreateAccount(b, u, e)
         \/ \E u \in User : LocalLogin(b, u)
         \/ Logout(b) \/ DeletePersonalData(b)
  PROVE  Sessions!SessionsNext
  <1>1. UNCHANGED <<LinkedAccounts, ManagedClaims>>
    BY DEF CreateAccount, LocalLogin, Logout, DeletePersonalData, LinkedAccounts, ManagedClaims, Refreshing
  <1>2. ASSUME NEW u \in User, NEW e \in Email, CreateAccount(b, u, e)
        PROVE  Sessions!SignUp(b, u)
    <2> DEFINE s == [user |-> u, email |-> e, loa |-> NewAccountClaims.loa,
                     loi |-> NewAccountClaims.loi, amr |-> NewAccountClaims.amr,
                     person |-> NewAccountClaims.person]
    <2>1. session' = [session EXCEPT ![b] = s]
      BY <1>2 DEF CreateAccount
    <2>2. ClaimsOf(s) = Sessions!CookieOf(u, Sessions!NewAccountClaims)
      BY SameClaims DEF ClaimsOf, Sessions!CookieOf
    <2> QED
      BY <1>1, <2>1, <2>2, NewCookie DEF Sessions!SignUp, Sessions!SignIn
  <1>3. ASSUME NEW u \in User, LocalLogin(b, u)
        PROVE  Sessions!SignInLocally(b, u)
    <2>1. PICK method \in {<<LOA_100, Pwd>>, <<LOA_400, Pop>>}, p \in LinkedPersons(u) :
            session' = [session EXCEPT ![b] = Cookie(u, LocalLoginClaims(p, method[1], method[2]))]
      BY <1>3 DEF LocalLogin
    <2> DEFINE q == IF u \in LinkedAccounts THEN u ELSE None
    <2>2. p = None <=> q = None
      <3>1. u \in LinkedAccounts <=> RowsOfUser(u) # {}
        BY DEF LinkedAccounts, RowsOfUser
      <3>2. \A row \in RowsOfUser(u) : row.person \in Person
        BY DEF RowsOfUser, TypeInv, TypeOK, SwiyuIdentityRow
      <3>3. u # None
        BY NoneIsNull
      <3> QED
        BY <2>1, <3>1, <3>2, <3>3, NoneIsNoPerson DEF LinkedPersons
    <2>3. ClaimsOf(Cookie(u, LocalLoginClaims(p, method[1], method[2])))
          = Sessions!CookieOf(u, Sessions!LocalLoginClaims(q, method[1], method[2]))
      BY <2>2, SameClaims DEF ClaimsOf, Cookie, LocalLoginClaims, Sessions!CookieOf
    <2>4. Sessions!SignIn(b, u, Sessions!LocalLoginClaims(q, method[1], method[2]))
      BY <1>1, <2>1, <2>3, NewCookie DEF Sessions!SignIn
    <2>5. method \in {<<Sessions!LOA_100, Sessions!Pwd>>, <<Sessions!LOA_400, Sessions!Pop>>}
      BY <2>1 DEF Sessions!LOA_100, LOA_100, Sessions!LOA_400, LOA_400, Sessions!Pwd, Pwd,
         Sessions!Pop, Pop
    <2> QED
      BY <2>4, <2>5 DEF Sessions!SignInLocally
  <1>4. ASSUME Logout(b) \/ DeletePersonalData(b)
        PROVE  Sessions!SignOut(b)
    BY <1>1, <1>4, NewCookie, SameClaims DEF Logout, DeletePersonalData, Sessions!SignOut
  <1> QED
    BY <1>2, <1>3, <1>4 DEF Sessions!SessionsNext, Sessions!SignInPages

\* The wallet signs in an account that has a row.
LEMMA WalletSignInSteps ==
  ASSUME TypeInv, Evidence, NEW r \in Request, LoginSignIn(r)
  PROVE  [Sessions!SessionsNext]_(Sessions!sessionVars)
  <1> DEFINE b == request[r].browser
             u == request[r].user
             s == Cookie(u, SwiyuLoginClaims(request[r].person))
  <1>1. request[r].pc = "signIn" /\ b \in Browser /\ u \in User /\ u \in LinkedAccounts
    <2>1. request[r].pc = "signIn" /\ HasData(request[r]) /\ IsJustified(request[r])
      BY DEF LoginSignIn, TypeInv, RequestsHaveData, Evidence, RequestsAreJustified
    <2>2. b \in Browser /\ u \in User
      BY <2>1 DEF HasData, LoggingIn
    <2> QED
      BY <2>1, <2>2 DEF IsJustified, RowsOfUser, LinkedAccounts
  <1>2. UNCHANGED <<LinkedAccounts, ManagedClaims>>
    <2>1. \E o \in Outcome : Answer(r, o)
      BY DEF LoginSignIn, Outcome
    <2> QED
      BY <1>1, <2>1, AnswerTyped, OtherRequests DEF LoginSignIn, LinkedAccounts, TypeInv, TypeOK
  <1>3. CASE session' = [session EXCEPT ![b] = s]
    <2>1. ClaimsOf(s) = Sessions!CookieOf(u, Sessions!SwiyuLoginClaims(u))
      BY SameClaims DEF ClaimsOf, Cookie, SwiyuLoginClaims, Sessions!CookieOf
    <2>2. Sessions!SignInWithWallet(b, u)
      BY <1>1, <1>2, <1>3, <2>1, NewCookie DEF Sessions!SignInWithWallet, Sessions!SignIn
    <2> QED
      BY <1>1, <2>2 DEF Sessions!SessionsNext, Sessions!SignInPages
  <1>4. CASE UNCHANGED session
    BY <1>2, <1>4 DEF Sessions!sessionVars, CookieClaims
  <1> QED
    BY <1>3, <1>4 DEF LoginSignIn

\* An e-mail change opens an account page in the browser if that is signed in to
\* the account.
LEMMA ChangeEmailSteps ==
  ASSUME TypeInv, NEW r \in Request, NEW b \in Browser, NEW u \in User, NEW e \in Email,
         ChangeEmail(r, b, u, e)
  PROVE  [Sessions!SessionsNext]_(Sessions!sessionVars)
  <1> DEFINE c == ClaimsOf(session[b])
             M(d) == {ClaimsOf(request[q].cookie) : q \in {q \in Request : Refreshing(q, d)}}
             N(d) == {ClaimsOf(request'[q].cookie) : q \in {q \in Request : Refreshing(q, d)'}}
  <1>1. UNCHANGED <<LinkedAccounts, CookieClaims>>
    BY DEF ChangeEmail, LinkedAccounts, CookieClaims
  <1>2. /\ request[r].pc # "setUserName"
        /\ request'[r].pc = "setUserName"
        /\ request'[r].browser = b
        /\ request'[r].cookie = session[b]
        /\ request'[r].user = u
        /\ \A q \in Request : q # r => request'[q] = request[q]
    BY IdleRequestTyped DEF ChangeEmail, Free, TypeInv, TypeOK, RequestRecord
  <1>3. \A d \in Browser, q \in Request :
          /\ q # r => request'[q] = request[q] /\ (Refreshing(q, d)' <=> Refreshing(q, d))
          /\ ~Refreshing(r, d)
          /\ Refreshing(r, d)' <=> d = b /\ session[b].user = u
    BY <1>2 DEF Refreshing
  <1>4. /\ ManagedClaims = [d \in Browser |-> M(d)]
        /\ ManagedClaims' = [d \in Browser |-> N(d)]
    BY DEF ManagedClaims
  <1>5. \A d \in Browser : d # b \/ session[b].user # u => N(d) = M(d)
    BY <1>3
  <1>6. session[b].user = u => N(b) = M(b) \union {c}
    BY <1>2, <1>3
  <1>7. CookieClaims[b] = c /\ c.user = session[b].user
    BY DEF CookieClaims, ClaimsOf
  <1> HIDE DEF M, N, c
  <1>8. CASE session[b].user = u
    <2>1. ManagedClaims' = [ManagedClaims EXCEPT ![b] = @ \union {CookieClaims[b]}]
      BY <1>4, <1>5, <1>6, <1>7, <1>8
    <2>2. CookieClaims[b].user # None
      BY <1>7, <1>8, NoneIsNull
    <2> QED
      BY <1>1, <2>1, <2>2 DEF Sessions!OpenAccountPage, Sessions!SessionsNext
  <1>9. CASE session[b].user # u
    BY <1>1, <1>4, <1>5, <1>9 DEF Sessions!sessionVars
  <1> QED
    BY <1>8, <1>9

\* The second save refreshes the sign-in that came with the request, or leaves.
LEMMA SetUserNameSteps ==
  ASSUME TypeInv, NEW r \in Request, SetUserName(r)
  PROVE  [Sessions!SessionsNext]_(Sessions!sessionVars)
  <1> DEFINE b == request[r].browser
             c == ClaimsOf(request[r].cookie)
             s == Cookie(request[r].user, RefreshedClaims(request[r].cookie))
  <1>1. request[r].pc = "setUserName" /\ b \in Browser
    BY DEF SetUserName, TypeInv, RequestsHaveData, HasData
  <1>2. UNCHANGED LinkedAccounts
    BY DEF SetUserName, LinkedAccounts
  <1>3. \/ UNCHANGED ManagedClaims
        \/ Refreshing(r, b) /\ ManagedClaims' = [ManagedClaims EXCEPT ![b] = @ \ {c}]
    <2>1. \E o \in Outcome : Answer(r, o)
      BY DEF SetUserName, Outcome
    <2> QED
      BY <1>1, <2>1, AnswerTyped, RequestEnds DEF TypeInv, TypeOK
  <1>4. Refreshing(r, b) => c \in ManagedClaims[b]
    BY <1>1 DEF ManagedClaims
  <1>5. CASE UNCHANGED session
    <2>1. UNCHANGED CookieClaims
      BY <1>5 DEF CookieClaims
    <2> HIDE DEF b, c
    <2>2. CASE UNCHANGED ManagedClaims
      BY <1>2, <2>1, <2>2 DEF Sessions!sessionVars
    <2>3. CASE Refreshing(r, b) /\ ManagedClaims' = [ManagedClaims EXCEPT ![b] = @ \ {c}]
      BY <1>1, <1>2, <1>4, <2>1, <2>3 DEF Sessions!LeaveAccountPage, Sessions!SessionsNext
    <2> QED
      BY <1>3, <2>2, <2>3
  <1>6. CASE session' = [session EXCEPT ![b] = s] /\ request[r].cookie.user = request[r].user
    <2>1. Refreshing(r, b)
      BY <1>1, <1>6 DEF Refreshing
    <2>2. ClaimsOf(s) = Sessions!CookieOf(c.user, Sessions!RefreshedClaims(c))
      BY <1>6, SameClaims DEF ClaimsOf, Cookie, RefreshedClaims, Sessions!CookieOf
    <2>3. CookieClaims' = [CookieClaims EXCEPT ![b] = Sessions!CookieOf(c.user, Sessions!RefreshedClaims(c))]
      BY <1>1, <1>6, <2>2, NewCookie
    <2>4. \E rest \in {ManagedClaims[b], ManagedClaims[b] \ {c}} :
            ManagedClaims' = [ManagedClaims EXCEPT ![b] = rest]
      <3>1. ManagedClaims = [ManagedClaims EXCEPT ![b] = ManagedClaims[b]]
        BY DEF ManagedClaims
      <3> HIDE DEF b, c
      <3> QED
        BY <1>3, <3>1
    <2> HIDE DEF b, c
    <2>5. Sessions!RefreshSignIn(b)
      BY <1>2, <1>4, <2>1, <2>3, <2>4 DEF Sessions!RefreshSignIn
    <2> QED
      BY <1>1, <2>5 DEF Sessions!SessionsNext
  <1> QED
    BY <1>5, <1>6 DEF SetUserName

\* A saved row links its account; no other step of a request shows.
LEMMA SaveLinks ==
  ASSUME TypeInv, NEW r \in Request, RegisterSave(r)
  PROVE  [Sessions!SessionsNext]_(Sessions!sessionVars)
  <1>1. request[r].pc = "save" /\ request[r].user \in User
    BY DEF RegisterSave, TypeInv, RequestsHaveData, HasData
  <1>2. UNCHANGED <<CookieClaims, ManagedClaims>>
    <2>1. request'[r].pc # "setUserName" /\ \A q \in Request : q # r => request'[q] = request[q]
      BY GoToTyped, AnswerTyped DEF RegisterSave, Step, Outcome, TypeInv, TypeOK
    <2> QED
      BY <1>1, <2>1, OtherRequests DEF RegisterSave, CookieClaims
  <1>3. CASE swiyuIdentity' = swiyuIdentity \union {NewRow(r)}
    <2>1. NewRow(r).UserId = request[r].user
      BY DEF NewRow
    <2>2. LinkedAccounts' = LinkedAccounts \union {request[r].user}
      BY <1>3, <2>1 DEF LinkedAccounts
    <2> QED
      BY <1>1, <1>2, <2>2 DEF Sessions!LinkAccount, Sessions!SessionsNext
  <1>4. CASE UNCHANGED swiyuIdentity
    BY <1>2, <1>4 DEF Sessions!sessionVars, LinkedAccounts
  <1> QED
    BY <1>3, <1>4 DEF RegisterSave, linkVars, NewRow

LEMMA RestartSteps ==
  ASSUME Restart
  PROVE  Sessions!SessionsNext
  <1>1. UNCHANGED <<LinkedAccounts, CookieClaims>>
    BY DEF Restart, LinkedAccounts, CookieClaims
  <1>2. \A r \in Request, b \in Browser : ~Refreshing(r, b)'
    BY DEF Restart, IdleRequest, Refreshing
  <1>3. ManagedClaims' = [b \in Browser |-> {}]
    BY <1>2 DEF ManagedClaims
  <1> QED
    BY <1>1, <1>3 DEF Sessions!RestartPages, Sessions!SessionsNext

\* The wallet, the GETs, and the queries of the two swiyu pages do not show.
LEMMA HiddenSteps ==
  ASSUME TypeInv,
         \/ External
         \/ \E b \in Browser, v \in Verification : RegisterOnGet(b, v) \/ LoginOnGet(b, v)
         \/ \E r \in Request, b \in Browser, v \in Verification :
              RegisterOnPost(r, b, v) \/ LoginOnPost(r, b, v)
         \/ \E r \in Request :
              \/ PollSuccess(r) \/ PollRemoved(r) \/ CallFails(r)
              \/ RegisterLookup(r) \/ RegisterFindUser(r) \/ RegisterRecheck(r)
              \/ RegisterRemoveClaims(r) \/ LoginLookup(r)
         \/ UNCHANGED vars
  PROVE  UNCHANGED Sessions!sessionVars
  <1> USE DEF TypeInv, TypeOK
  <1>1. UNCHANGED <<LinkedAccounts, CookieClaims>>
    BY DEF External, RegisterOnGet, LoginOnGet, RegisterOnPost, LoginOnPost, Post,
       PollSuccess, PollRemoved, CallFails, RegisterLookup, RegisterFindUser,
       RegisterRecheck, RegisterRemoveClaims, LoginLookup, vars, LinkedAccounts,
       CookieClaims
  <1>2. ASSUME NEW r \in Request, request[r].pc # "setUserName", request'[r].pc # "setUserName",
               \A q \in Request : q # r => request'[q] = request[q]
        PROVE  UNCHANGED ManagedClaims
    BY <1>2, OtherRequests
  <1>3. ASSUME NEW r \in Request, NEW b \in Browser, NEW v \in Verification,
               RegisterOnPost(r, b, v) \/ LoginOnPost(r, b, v)
        PROVE  UNCHANGED ManagedClaims
    <2>1. request[r].pc # "setUserName" /\ request'[r].pc # "setUserName"
      BY <1>3, PostStarts DEF RegisterOnPost, LoginOnPost, Post, Free, Polling
    <2>2. \A q \in Request : q # r => request'[q] = request[q]
      BY <1>3 DEF RegisterOnPost, LoginOnPost, Post
    <2> QED
      BY <1>2, <2>1, <2>2
  <1>4. ASSUME NEW r \in Request, NEW o \in Outcome, Answer(r, o), request[r].pc # "setUserName"
        PROVE  UNCHANGED ManagedClaims
    BY <1>2, <1>4, AnswerTyped
  <1>5. ASSUME NEW r \in Request, NEW step \in Step \ {"setUserName"}, GoTo(r, step),
               request[r].pc # "setUserName"
        PROVE  UNCHANGED ManagedClaims
    BY <1>2, <1>5, GoToTyped
  <1>6. ASSUME NEW r \in Request,
               PollRemoved(r) \/ CallFails(r) \/ RegisterLookup(r) \/ RegisterRecheck(r)
               \/ RegisterRemoveClaims(r)
        PROVE  UNCHANGED ManagedClaims
    BY <1>4, <1>5, <1>6 DEF PollRemoved, CallFails, RegisterLookup, RegisterRecheck,
       RegisterRemoveClaims, Polling, Step, Outcome
  <1>7. ASSUME NEW r \in Request, PollSuccess(r) \/ RegisterFindUser(r) \/ LoginLookup(r)
        PROVE  UNCHANGED ManagedClaims
    <2>1. /\ request[r].pc # "setUserName"
          /\ \A q \in Request : q # r => request'[q] = request[q]
      BY <1>7 DEF PollSuccess, RegisterFindUser, LoginLookup, Answer, GoTo, Polling
    <2>2. request'[r].pc # "setUserName"
      BY <1>7, PollSuccessMoves, RegisterFindUserMoves, LoginLookupMoves DEF AfterPoll
    <2> QED
      BY <1>2, <2>1, <2>2
  <1>8. ASSUME UNCHANGED request
        PROVE  UNCHANGED ManagedClaims
    BY <1>8, OtherRequests
  <1>9. UNCHANGED ManagedClaims
    BY <1>3, <1>6, <1>7, <1>8 DEF External, RegisterOnGet, LoginOnGet, vars
  <1> QED
    BY <1>1, <1>9 DEF Sessions!sessionVars

\* The cookies that the pages leave in the browsers, with stale cookies, changing
\* addresses and restarts in any order, are those of SignInSessions, which is all
\* that the step-up flows of StepUpAuthorization assume of them.
THEOREM PagesImplementSessions == Spec => ImplementsSessions
  <1>1. Init => Sessions!SessionsInit
    <2> SUFFICES ASSUME Init PROVE Sessions!SessionsInit
      OBVIOUS
    <2>1. LinkedAccounts = {}
      BY DEF Init, LinkedAccounts
    <2>2. CookieClaims = [b \in Browser |-> Sessions!NoCookie]
      BY SameClaims DEF Init, CookieClaims
    <2>3. ManagedClaims = [b \in Browser |-> {}]
      BY DEF Init, ManagedClaims, Refreshing, IdleRequest
    <2> QED
      BY <2>1, <2>2, <2>3 DEF Sessions!SessionsInit
  <1>2. TypeInv /\ Evidence /\ [Next]_vars => [Sessions!SessionsNext]_(Sessions!sessionVars)
    BY SignInSteps, WalletSignInSteps, ChangeEmailSteps, SetUserNameSteps, SaveLinks, RestartSteps,
       HiddenSteps DEF Next, UserActs, UserRequests, Handle
  <1> QED
    BY <1>1, <1>2, EvidenceInvariant, PTL DEF Spec, ImplementsSessions, Sessions!SessionsSpec
================================================================================
