-------------------------- MODULE TwoFactorPagesProofs --------------------------
(***************************************************************************)
(* The properties of TwoFactorPages for every number of browsers, requests,*)
(* keys and codes.  The argument: while no save has come in between, the   *)
(* account still is what a request has seen of it (Current); a save that   *)
(* is not lost therefore acts on what was checked.                         *)
(***************************************************************************)
EXTENDS SecondFactorRefinement, TLAPS

\* What a request whose stamp is still good knows of the account at each step,
\* and that only an answered request has an outcome.
Current(q) ==
  /\ q.pc # "answered" => q.outcome = "none"
  /\ q.fresh =>
       /\ q.pc = "firstKey" => account.key = None
       /\ q.pc = "enable" => account.key \in proven
       /\ q.pc \in {"count", "generate"} => account.twoFactor
       /\ q.pc = "resetKey" => ~account.twoFactor
       /\ q.pc = "redeem" => q.codes = account.codes /\ q.code \in q.codes

TwoFactorInv ==
  /\ TypeOK
  /\ TwoFactorKeyIsProven
  /\ account.codes \intersect retired = {}
  /\ \A r \in Request : Current(request[r])

LEMMA IdleIsCurrent ==
  IdleRequest \in RequestRecord /\ IdleRequest.pc = "idle" /\ ~IdleRequest.fresh
    /\ Current(IdleRequest)
  BY DEF IdleRequest, RequestRecord, Step, Current

\* An answer knows nothing of the account.
LEMMA AnswersAreCurrent ==
  ASSUME NEW outcome \in {"page", "verified", "codes", "disabled", "reset", "signedIn", "error"}
  PROVE  /\ Answered(outcome) \in RequestRecord
         /\ Answered(outcome).outcome = outcome
         /\ Current(Answered(outcome))
         /\ Current(Answered(outcome))'
  BY DEF Answered, IdleRequest, RequestRecord, Step, Current

LEMMA SignedInCookies ==
  ASSUME NEW c \in Cookies
  PROVE  SignedIn(c) \in Cookies
  BY DEF SignedIn, Cookies

LEMMA TwoFactorInit == Init => TwoFactorInv
  BY IdleIsCurrent DEF Init, TwoFactorInv, TypeOK, TwoFactorKeyIsProven, Account, Cookies

\* Browsers come and go without the account: only their cookies change.
LEMMA CookiesOnly ==
  ASSUME TwoFactorInv, browser' \in [Browser -> Cookies],
         UNCHANGED <<account, app, proven, retired, request>>
  PROVE  TwoFactorInv'
  BY DEF TwoFactorInv, TypeOK, TwoFactorKeyIsProven, Current

\* One request goes on to a record q and the account is not saved; keys may
\* become proven.
LEMMA RequestMoves ==
  ASSUME TwoFactorInv, NEW r \in Request, NEW q \in RequestRecord,
         request' = [request EXCEPT ![r] = q],
         Current(q)',
         app' \subseteq Key, proven' \subseteq Key, proven \subseteq proven',
         browser' \in [Browser -> Cookies],
         UNCHANGED <<account, retired>>
  PROVE  TwoFactorInv'
<1>1. \A s \in Request : request'[s] = IF s = r THEN q ELSE request[s]
  BY DEF TwoFactorInv, TypeOK
<1>2. \A s \in Request : Current(request[s])'
  BY <1>1 DEF TwoFactorInv, Current
<1>3. TypeOK'
  BY DEF TwoFactorInv, TypeOK
<1> QED
  BY <1>2, <1>3 DEF TwoFactorInv, TwoFactorKeyIsProven

\* One request saves the account and goes on to q: every other request has lost
\* its stamp.
LEMMA AccountSaved ==
  ASSUME TwoFactorInv, NEW r \in Request, NEW q \in RequestRecord, NEW a \in Account,
         Save(r, a, q),
         Current(q)',
         app' \subseteq Key, UNCHANGED proven, retired' \subseteq Code,
         browser' \in [Browser -> Cookies],
         TwoFactorKeyIsProven', account'.codes \intersect retired' = {}
  PROVE  TwoFactorInv'
<1>1. \A s \in Request :
        request'[s] = IF s = r THEN q ELSE [request[s] EXCEPT !.fresh = FALSE]
  BY DEF Save
<1>2. \A s \in Request : [request[s] EXCEPT !.fresh = FALSE] \in RequestRecord
  BY DEF TwoFactorInv, TypeOK, RequestRecord
<1>3. ASSUME NEW s \in Request, NEW p, p = [request[s] EXCEPT !.fresh = FALSE]
      PROVE  Current(p)'
  <2>1. request[s] \in RequestRecord /\ Current(request[s])
    BY DEF TwoFactorInv, TypeOK
  <2>2. ~p.fresh /\ p.pc = request[s].pc /\ p.outcome = request[s].outcome
    BY <1>3, <2>1 DEF RequestRecord
  <2> QED
    BY <2>1, <2>2 DEF Current
<1>4. TypeOK'
  BY <1>2 DEF TwoFactorInv, TypeOK, Save
<1>5. \A s \in Request : Current(request[s])'
  BY <1>1, <1>3
<1> QED
  BY <1>4, <1>5 DEF TwoFactorInv

--------------------------------------------------------------------------------
(***************************************************************************)
(* One lemma for each kind of step                                         *)
(***************************************************************************)

\* The first step of a post reads the account.
LEMMA PostsKeepInv ==
  ASSUME TwoFactorInv, NEW r \in Request, NEW b \in Browser,
         NEW step \in {"loadKey", "verify", "generate", "disableForReset", "disable"},
         step = "generate" => account.twoFactor,
         ReadUser(r, b, step),
         UNCHANGED <<account, app, proven, retired, browser>>
  PROVE  TwoFactorInv'
<1> DEFINE q == [IdleRequest EXCEPT !.pc = step, !.browser = b, !.fresh = TRUE]
<1>1. q \in RequestRecord
  BY DEF IdleRequest, RequestRecord, Step
<1>2. Current(q)'
  BY DEF IdleRequest, Current
<1>3. request' = [request EXCEPT ![r] = q]
  BY DEF ReadUser
<1> HIDE DEF q
<1> QED
  BY <1>1, <1>2, <1>3, RequestMoves DEF TwoFactorInv, TypeOK

\* A request is answered and the account is not saved.
LEMMA AnswersKeepInv ==
  ASSUME TwoFactorInv, NEW r \in Request,
         NEW outcome \in {"page", "verified", "codes", "disabled", "reset", "signedIn", "error"},
         Answer(r, outcome), app' \subseteq Key, browser' \in [Browser -> Cookies],
         UNCHANGED <<account, proven, retired>>
  PROVE  TwoFactorInv'
  BY AnswersAreCurrent, RequestMoves DEF Answer, TwoFactorInv, TypeOK

\* A request goes on with the next step, knowing what Current says of it.
LEMMA GoingOnKeepsInv ==
  ASSUME TwoFactorInv, NEW r \in Request,
         NEW step \in Step \ {"idle", "answered", "redeem"},
         request[r].pc \notin {"idle", "answered"},
         GoTo(r, step),
         request[r].fresh =>
           /\ step = "firstKey" => account.key = None
           /\ step = "enable" => account.key \in proven'
           /\ step \in {"count", "generate"} => account.twoFactor
           /\ step = "resetKey" => ~account.twoFactor,
         proven' \subseteq Key, proven \subseteq proven',
         UNCHANGED <<account, app, retired, browser>>
  PROVE  TwoFactorInv'
<1>q. PICK q : q = [request[r] EXCEPT !.pc = step]
  OBVIOUS
<1>0. request[r] \in RequestRecord /\ Current(request[r])
  BY DEF TwoFactorInv, TypeOK
<1>1. q \in RequestRecord
  BY <1>q, <1>0 DEF RequestRecord
<1>2. q.pc = step /\ q.fresh = request[r].fresh /\ q.outcome = request[r].outcome
  BY <1>q, <1>0 DEF RequestRecord
<1>3. request' = [request EXCEPT ![r] = q]
  BY <1>q DEF GoTo, TwoFactorInv, TypeOK
<1>4. Current(q)'
  BY <1>0, <1>2 DEF Current, Step
<1> QED
  BY <1>1, <1>3, <1>4, RequestMoves DEF TwoFactorInv, TypeOK

\* SetTwoFactorEnabledAsync saved, with the step that follows.
LEMMA FlagSavesKeepInv ==
  ASSUME TwoFactorInv, NEW r \in Request, NEW flag \in BOOLEAN,
         NEW step \in {"count", "resetKey"}, step = "count" <=> flag,
         request[r].pc \notin {"idle", "answered"},
         flag => account.key \in proven,
         Save(r, [account EXCEPT !.twoFactor = flag], [request[r] EXCEPT !.pc = step]),
         UNCHANGED <<app, proven, retired, browser>>
  PROVE  TwoFactorInv'
<1>q. PICK q : q = [request[r] EXCEPT !.pc = step]
  OBVIOUS
<1>a. PICK a : a = [account EXCEPT !.twoFactor = flag]
  OBVIOUS
<1>0. request[r] \in RequestRecord /\ Current(request[r]) /\ account \in Account
  BY DEF TwoFactorInv, TypeOK
<1>1. q \in RequestRecord /\ q.pc = step /\ q.outcome = request[r].outcome
  BY <1>q, <1>0 DEF RequestRecord, Step
<1>2. a \in Account /\ a.twoFactor = flag /\ a.key = account.key /\ a.codes = account.codes
  BY <1>a, <1>0 DEF Account
<1>3. Save(r, a, q)
  BY <1>q, <1>a
<1>4. account' = a
  BY <1>3 DEF Save
<1>5. Current(q)'
  BY <1>0, <1>1, <1>2, <1>4 DEF Current
<1>6. TwoFactorKeyIsProven' /\ account'.codes \intersect retired' = {}
  BY <1>2, <1>4 DEF TwoFactorKeyIsProven, TwoFactorInv
<1> QED
  BY <1>1, <1>2, <1>3, <1>5, <1>6, AccountSaved DEF TwoFactorInv, TypeOK

\* The last save of a page.
LEMMA LastSavesKeepInv ==
  ASSUME TwoFactorInv, NEW r \in Request, NEW a \in Account,
         NEW outcome \in {"page", "verified", "codes", "disabled", "reset", "signedIn", "error"},
         Save(r, a, Answered(outcome)),
         a.twoFactor => a.key \in proven,
         a.codes \intersect retired' = {}, retired' \subseteq Code,
         app' \subseteq Key, browser' \in [Browser -> Cookies], UNCHANGED proven
  PROVE  TwoFactorInv'
<1>1. account' = a
  BY DEF Save
<1> QED
  BY <1>1, AnswersAreCurrent, AccountSaved DEF TwoFactorKeyIsProven

--------------------------------------------------------------------------------
(***************************************************************************)
(* The steps                                                               *)
(***************************************************************************)

LEMMA UserActsKeepInv == TwoFactorInv /\ UserActs => TwoFactorInv'
<1> SUFFICES ASSUME TwoFactorInv, NEW b \in Browser,
                    \/ ForgetBrowser(b)
                    \/ PasswordSignIn(b)
                    \/ PasskeySignIn(b)
                    \/ LoginWith2fa(b)
                    \/ SignOut(b)
                    \/ \E r \in Request :
                         \/ OpenEnableAuthenticator(r, b)
                         \/ PostEnableAuthenticator(r, b)
                         \/ PostGenerateRecoveryCodes(r, b)
                         \/ PostDisable2fa(r, b)
                         \/ PostResetAuthenticator(r, b)
                         \/ \E c \in Code : PostRecoveryCode(r, b, c)
             PROVE  TwoFactorInv'
  BY DEF UserActs
<1> browser \in [Browser -> Cookies]
  BY DEF TwoFactorInv, TypeOK
<1>1. CASE ForgetBrowser(b) \/ PasswordSignIn(b) \/ PasskeySignIn(b) \/ LoginWith2fa(b) \/ SignOut(b)
  <2>1. UNCHANGED <<account, app, proven, retired, request>>
    BY <1>1 DEF ForgetBrowser, PasswordSignIn, PasskeySignIn, LoginWith2fa, SignOut
  <2>2. browser' \in [Browser -> Cookies]
    <3>1. CASE ForgetBrowser(b) \/ SignOut(b)
      <4>1. /\ [browser[b] EXCEPT !.remembered = FALSE] \in Cookies
            /\ [browser[b] EXCEPT !.signedIn = FALSE, !.pending = FALSE, !.answer = "none"]
                 \in Cookies
        BY DEF Cookies
      <4> QED
        BY <3>1, <4>1 DEF ForgetBrowser, SignOut
    <3>2. CASE PasswordSignIn(b)
      <4>1. [browser[b] EXCEPT !.pending = TRUE, !.answer = "invalidCredentials"] \in Cookies
        BY DEF Cookies
      <4> QED
        BY <3>2, <4>1, SignedInCookies DEF PasswordSignIn
    <3>3. CASE PasskeySignIn(b)
      BY <3>3, SignedInCookies DEF PasskeySignIn
    <3>4. CASE LoginWith2fa(b)
      <4>1. [browser[b] EXCEPT !.remembered = TRUE] \in Cookies
        BY DEF Cookies
      <4> QED
        BY <3>4, <4>1, SignedInCookies DEF LoginWith2fa
    <3> QED
      BY <1>1, <3>1, <3>2, <3>3, <3>4
  <2> QED
    BY <2>1, <2>2, CookiesOnly
<1>2. ASSUME NEW r \in Request,
             \/ OpenEnableAuthenticator(r, b)
             \/ PostEnableAuthenticator(r, b)
             \/ PostDisable2fa(r, b)
             \/ PostResetAuthenticator(r, b)
      PROVE  TwoFactorInv'
  BY <1>2, PostsKeepInv DEF OpenEnableAuthenticator, PostEnableAuthenticator,
                            PostDisable2fa, PostResetAuthenticator
<1>3. ASSUME NEW r \in Request, PostGenerateRecoveryCodes(r, b)
      PROVE  TwoFactorInv'
  <2>1. CASE account.twoFactor
    BY <1>3, <2>1, PostsKeepInv DEF PostGenerateRecoveryCodes
  <2>2. CASE ~account.twoFactor
    BY <1>3, <2>2, AnswersKeepInv DEF PostGenerateRecoveryCodes, TwoFactorInv, TypeOK
  <2> QED
    BY <2>1, <2>2
<1>4. ASSUME NEW r \in Request, NEW c \in Code, PostRecoveryCode(r, b, c)
      PROVE  TwoFactorInv'
  <2>1. PICK q : q = [IdleRequest EXCEPT !.pc = "readCodes", !.browser = b,
                                         !.fresh = TRUE, !.code = c]
    OBVIOUS
  <2>2. q \in RequestRecord
    BY <2>1 DEF IdleRequest, RequestRecord, Step
  <2>3. Current(q)'
    BY <2>1 DEF IdleRequest, Current
  <2>4. request' = [request EXCEPT ![r] = q]
    BY <1>4, <2>1 DEF PostRecoveryCode
  <2> QED
    BY <1>4, <2>2, <2>3, <2>4, RequestMoves DEF PostRecoveryCode, TwoFactorInv, TypeOK
<1> QED
  BY <1>1, <1>2, <1>3, <1>4

LEMMA HandlersKeepInv ==
  ASSUME TwoFactorInv, NEW r \in Request, Handle(r)
  PROVE  TwoFactorInv'
<1>0. /\ request[r] \in RequestRecord
      /\ Current(request[r])
      /\ account \in Account
      /\ app \subseteq Key
      /\ proven \subseteq Key
      /\ retired \subseteq Code
      /\ browser \in [Browser -> Cookies]
  BY DEF TwoFactorInv, TypeOK
<1>1. CASE LoadKey(r)
  <2>1. CASE account.key = None
    BY <1>0, <1>1, <2>1, GoingOnKeepsInv DEF LoadKey, Step
  <2>2. CASE account.key # None
    <3>1. app' \subseteq Key
      BY <1>0, <1>1, <2>2 DEF LoadKey, Account
    <3> QED
      BY <1>0, <1>1, <2>2, <3>1, AnswersKeepInv DEF LoadKey
  <2> QED
    BY <2>1, <2>2
<1>2. CASE FirstKey(r)
  <2>1. ASSUME NEW k \in Key, request[r].fresh, request[r].pc = "firstKey",
               Save(r, [account EXCEPT !.key = k], Answered("page")),
               app' = app \union {k}, UNCHANGED <<proven, retired, browser>>
        PROVE  TwoFactorInv'
    <3>1. PICK a : a = [account EXCEPT !.key = k]
      OBVIOUS
    <3>2. a \in Account /\ a.twoFactor = account.twoFactor /\ a.codes = account.codes
      BY <1>0, <3>1 DEF Account
    <3>3. ~account.twoFactor
      BY <1>0, <2>1, NoneIsNoKey DEF Current, TwoFactorInv, TwoFactorKeyIsProven
    <3>4. Save(r, a, Answered("page")) /\ app' \subseteq Key
      BY <1>0, <2>1, <3>1
    <3>5. a.codes \intersect retired' = {}
      BY <2>1, <3>2 DEF TwoFactorInv
    <3> QED
      BY <1>0, <2>1, <3>2, <3>3, <3>4, <3>5, LastSavesKeepInv
  <2>2. ASSUME Answer(r, "page") \/ Answer(r, "error"), app' \subseteq Key,
               UNCHANGED <<account, proven, retired, browser>>
        PROVE  TwoFactorInv'
    BY <1>0, <2>2, AnswersKeepInv
  <2> QED
    BY <1>0, <1>2, <2>1, <2>2 DEF FirstKey, NewKey
<1>3. CASE VerifyCode(r)
  <2>1. CASE account.key \in app /\ proven' = proven \union {account.key} /\ GoTo(r, "enable") /\ UNCHANGED app
    BY <1>0, <1>3, <2>1, GoingOnKeepsInv DEF VerifyCode, Step
  <2>2. CASE account.key # None /\ app' = app \union {account.key} /\ Answer(r, "page") /\ UNCHANGED proven
    <3>1. app' \subseteq Key
      BY <1>0, <2>2 DEF Account
    <3> QED
      BY <1>0, <1>3, <2>2, <3>1, AnswersKeepInv DEF VerifyCode
  <2>3. CASE account.key = None /\ GoTo(r, "firstKey") /\ UNCHANGED <<app, proven>>
    BY <1>0, <1>3, <2>3, GoingOnKeepsInv DEF VerifyCode, Step
  <2> QED
    BY <1>3, <2>1, <2>2, <2>3 DEF VerifyCode
<1>4. CASE EnableTwoFactor(r)
  <2>1. CASE request[r].fresh
    BY <1>0, <1>4, <2>1, FlagSavesKeepInv DEF EnableTwoFactor, Current
  <2>2. CASE ~request[r].fresh
    BY <1>0, <1>4, <2>2, GoingOnKeepsInv DEF EnableTwoFactor, Step
  <2> QED
    BY <2>1, <2>2
<1>5. CASE CountCodes(r)
  <2>1. CASE account.codes = {}
    BY <1>0, <1>5, <2>1, GoingOnKeepsInv DEF CountCodes, Current, Step
  <2>2. CASE account.codes # {}
    BY <1>0, <1>5, <2>2, AnswersKeepInv DEF CountCodes
  <2> QED
    BY <2>1, <2>2
<1>6. CASE GenerateCodes(r)
  <2>1. CASE request[r].fresh
    <3>1. PICK new \in NewCodes : Save(r, [account EXCEPT !.codes = new], Answered("codes"))
      BY <1>6, <2>1 DEF GenerateCodes
    <3>2. PICK a : a = [account EXCEPT !.codes = new]
      OBVIOUS
    <3>3. new \subseteq Code \ (retired \union account.codes)
      BY DEF NewCodes
    <3>4. /\ a \in Account /\ a.twoFactor = account.twoFactor
          /\ a.key = account.key /\ a.codes = new
      BY <1>0, <3>2, <3>3 DEF Account
    <3>5. retired' = retired \union account.codes /\ UNCHANGED <<app, proven, browser>>
      BY <1>6, <2>1 DEF GenerateCodes
    <3>6. a.codes \intersect retired' = {} /\ retired' \subseteq Code
      BY <1>0, <3>3, <3>4, <3>5 DEF Account
    <3>7. a.twoFactor => a.key \in proven
      BY <3>4 DEF TwoFactorInv, TwoFactorKeyIsProven
    <3>8. Save(r, a, Answered("codes"))
      BY <3>1, <3>2
    <3> QED
      BY <1>0, <3>4, <3>5, <3>6, <3>7, <3>8, LastSavesKeepInv
  <2>2. CASE ~request[r].fresh
    BY <1>0, <1>6, <2>2, AnswersKeepInv DEF GenerateCodes
  <2> QED
    BY <2>1, <2>2
<1>7. CASE DisableTwoFactor(r)
  <2>1. CASE request[r].fresh
    <3>1. PICK a : a = [account EXCEPT !.twoFactor = FALSE]
      OBVIOUS
    <3>2. a \in Account /\ ~a.twoFactor /\ a.codes = account.codes
      BY <1>0, <3>1 DEF Account
    <3>3. Save(r, a, Answered("disabled")) /\ UNCHANGED <<app, proven, retired, browser>>
      BY <1>7, <2>1, <3>1 DEF DisableTwoFactor
    <3>4. a.codes \intersect retired' = {}
      BY <3>2, <3>3 DEF TwoFactorInv
    <3> QED
      BY <1>0, <3>2, <3>3, <3>4, LastSavesKeepInv
  <2>2. CASE ~request[r].fresh
    BY <1>0, <1>7, <2>2, AnswersKeepInv DEF DisableTwoFactor
  <2> QED
    BY <2>1, <2>2
<1>8. CASE DisableForReset(r)
  <2>1. CASE request[r].fresh
    BY <1>0, <1>8, <2>1, FlagSavesKeepInv DEF DisableForReset
  <2>2. CASE ~request[r].fresh
    BY <1>0, <1>8, <2>2, GoingOnKeepsInv DEF DisableForReset, Step
  <2> QED
    BY <2>1, <2>2
<1>9. CASE ResetKey(r)
  <2>0. browser' \in [Browser -> Cookies]
    BY <1>0, <1>9 DEF ResetKey, Cookies
  <2>1. CASE request[r].fresh
    <3>1. PICK k \in NewKey : Save(r, [account EXCEPT !.key = k], Answered("reset"))
      BY <1>9, <2>1 DEF ResetKey
    <3>2. PICK a : a = [account EXCEPT !.key = k]
      OBVIOUS
    <3>3. a \in Account /\ a.twoFactor = account.twoFactor /\ a.codes = account.codes
      BY <1>0, <3>2 DEF Account, NewKey
    <3>4. ~a.twoFactor
      BY <1>0, <1>9, <2>1, <3>3 DEF ResetKey, Current
    <3>5. Save(r, a, Answered("reset")) /\ UNCHANGED <<app, proven, retired>>
      BY <1>9, <3>1, <3>2 DEF ResetKey
    <3>6. a.codes \intersect retired' = {}
      BY <3>3, <3>5 DEF TwoFactorInv
    <3> QED
      BY <1>0, <2>0, <3>3, <3>4, <3>5, <3>6, LastSavesKeepInv
  <2>2. CASE ~request[r].fresh
    BY <1>0, <1>9, <2>0, <2>2, AnswersKeepInv DEF ResetKey
  <2> QED
    BY <2>1, <2>2
<1>10. CASE ReadCodes(r)
  <2>1. CASE request[r].code \in account.codes
    <3>1. PICK q : q = [request[r] EXCEPT !.pc = "redeem", !.codes = account.codes]
      OBVIOUS
    <3>2. /\ q \in RequestRecord /\ q.pc = "redeem" /\ q.codes = account.codes
          /\ q.code = request[r].code /\ q.outcome = request[r].outcome
      BY <1>0, <3>1 DEF RequestRecord, Step, Account
    <3>3. request' = [request EXCEPT ![r] = q] /\ UNCHANGED <<account, app, proven, retired, browser>>
      BY <1>10, <2>1, <3>1 DEF ReadCodes, TwoFactorInv, TypeOK
    <3>4. Current(q)'
      BY <1>0, <1>10, <2>1, <3>2, <3>3 DEF ReadCodes, Current
    <3> QED
      BY <1>0, <3>2, <3>3, <3>4, RequestMoves
  <2>2. CASE request[r].code \notin account.codes
    BY <1>0, <1>10, <2>2, AnswersKeepInv DEF ReadCodes
  <2> QED
    BY <2>1, <2>2
<1>11. CASE Redeem(r)
  <2>1. CASE request[r].fresh
    <3> DEFINE left == request[r].codes \ {request[r].code}
    <3>1. PICK a : a = [account EXCEPT !.codes = left]
      OBVIOUS
    <3>2. /\ a \in Account /\ a.twoFactor = account.twoFactor
          /\ a.key = account.key /\ a.codes = left
      BY <1>0, <3>1 DEF Account, RequestRecord
    <3>3. PICK outcome \in {"signedIn", "error"} :
            /\ Save(r, a, Answered(outcome)) /\ UNCHANGED <<app, proven>>
            /\ retired' = retired \union {request[r].code}
            /\ browser' = IF outcome = "signedIn"
                          THEN [browser EXCEPT ![request[r].browser] = SignedIn(@)]
                          ELSE browser
      BY <1>11, <2>1, <3>1 DEF Redeem
    <3>4. request[r].codes = account.codes /\ request[r].code \in account.codes
      BY <1>0, <1>11, <2>1 DEF Redeem, Current
    <3>5. a.codes \intersect retired' = {} /\ retired' \subseteq Code
      BY <1>0, <3>2, <3>3, <3>4 DEF TwoFactorInv, Account
    <3>6. browser' \in [Browser -> Cookies]
      <4>1. PICK c : c = SignedIn(browser[request[r].browser])
        OBVIOUS
      <4>2. request[r].browser \in Browser => c \in Cookies
        BY <1>0, <4>1, SignedInCookies
      <4>3. browser' \in {browser, [browser EXCEPT ![request[r].browser] = c]}
        BY <3>3, <4>1
      <4> QED
        BY <1>0, <4>2, <4>3
    <3>7. a.twoFactor => a.key \in proven
      BY <3>2 DEF TwoFactorInv, TwoFactorKeyIsProven
    <3> QED
      BY <1>0, <3>2, <3>3, <3>5, <3>6, <3>7, LastSavesKeepInv
  <2>2. CASE ~request[r].fresh
    BY <1>0, <1>11, <2>2, AnswersKeepInv DEF Redeem
  <2> QED
    BY <2>1, <2>2
<1> QED
  BY <1>1, <1>2, <1>3, <1>4, <1>5, <1>6, <1>7, <1>8, <1>9, <1>10, <1>11 DEF Handle

LEMMA TwoFactorNext == TwoFactorInv /\ [Next]_vars => TwoFactorInv'
<1> SUFFICES ASSUME TwoFactorInv, [Next]_vars PROVE TwoFactorInv'
  OBVIOUS
<1>1. CASE UserActs
  BY <1>1, UserActsKeepInv
<1>2. ASSUME NEW r \in Request, Handle(r)
      PROVE  TwoFactorInv'
  BY <1>2, HandlersKeepInv
<1>3. CASE OtherUpdate
  <2>1. ASSUME NEW s \in Request, NEW p, p = [request[s] EXCEPT !.fresh = FALSE]
        PROVE  p \in RequestRecord /\ Current(p)'
    <3>1. request[s] \in RequestRecord /\ Current(request[s])
      BY DEF TwoFactorInv, TypeOK
    <3>2. /\ p \in RequestRecord /\ ~p.fresh
          /\ p.pc = request[s].pc /\ p.outcome = request[s].outcome
      BY <2>1, <3>1 DEF RequestRecord
    <3> QED
      BY <3>1, <3>2 DEF Current
  <2>2. request' = [s \in Request |-> [request[s] EXCEPT !.fresh = FALSE]]
    BY <1>3 DEF OtherUpdate
  <2>3. \A s \in Request : request'[s] \in RequestRecord /\ Current(request[s])'
    BY <2>1, <2>2
  <2> QED
    BY <1>3, <2>2, <2>3 DEF OtherUpdate, TwoFactorInv, TypeOK, TwoFactorKeyIsProven
<1>4. CASE Restart
  <2>1. PICK q : q = IdleRequest
    OBVIOUS
  <2>2. q \in RequestRecord /\ Current(q)'
    BY <2>1 DEF IdleRequest, RequestRecord, Step, Current
  <2> QED
    BY <1>4, <2>1, <2>2 DEF Restart, TwoFactorInv, TypeOK, TwoFactorKeyIsProven
<1>5. CASE UNCHANGED vars
  BY <1>5 DEF vars, TwoFactorInv, TypeOK, TwoFactorKeyIsProven, Current
<1> QED
  BY <1>1, <1>2, <1>3, <1>4, <1>5 DEF Next

LEMMA TwoFactorInvariant == Spec => []TwoFactorInv
  BY TwoFactorInit, TwoFactorNext, PTL DEF Spec

--------------------------------------------------------------------------------
\* Accounts, cookies and requests keep their types, whatever posts are in flight and
\* whichever of their saves are lost (the pages under Pages/Account/Manage).
THEOREM TwoFactorTypes == Spec => []TypeOK
<1>1. TwoFactorInv => TypeOK
  BY DEF TwoFactorInv
<1> QED
  BY <1>1, TwoFactorInvariant, PTL

\* For any number of browsers and posts at once, two-factor sign-in is on only with
\* a key of which the user has entered a code, although ResetAuthenticator.cshtml.cs
\* and EnableAuthenticator.cshtml.cs ignore saves that fail.
THEOREM TwoFactorKeysAreProven == Spec => []TwoFactorKeyIsProven
<1>1. TwoFactorInv => TwoFactorKeyIsProven
  BY DEF TwoFactorInv
<1> QED
  BY <1>1, TwoFactorInvariant, PTL

\* Only the save of Redeem answers a recovery code with a sign-in.
LEMMA OnlyRedeemAccepts ==
  ASSUME TwoFactorInv, [Next]_vars, NEW r \in Request,
         request[r].pc = "redeem", request'[r].outcome = "signedIn"
  PROVE  request[r].fresh
<1>0. request[r] \in RequestRecord /\ request[r].outcome = "none"
      /\ request \in [Request -> RequestRecord]
  BY DEF TwoFactorInv, TypeOK, Current
<1>1. request'[r] \notin {request[r], [request[r] EXCEPT !.fresh = FALSE], IdleRequest}
  BY <1>0 DEF RequestRecord, IdleRequest
<1>2. ~UserActs
  BY <1>0, <1>1 DEF UserActs, ForgetBrowser, PasswordSignIn, PasskeySignIn, LoginWith2fa,
     SignOut, OpenEnableAuthenticator, PostEnableAuthenticator, PostGenerateRecoveryCodes,
     PostDisable2fa, PostResetAuthenticator, PostRecoveryCode, Free, ReadUser, Answer
<1>3. ~OtherUpdate /\ ~Restart /\ ~UNCHANGED vars
  BY <1>1 DEF OtherUpdate, Restart, vars
<1>4. PICK s \in Request : Handle(s)
  BY <1>2, <1>3 DEF Next
<1>5. s = r
  BY <1>0, <1>1, <1>4 DEF Handle, LoadKey, FirstKey, VerifyCode, EnableTwoFactor,
     CountCodes, GenerateCodes, DisableTwoFactor, DisableForReset, ResetKey, ReadCodes,
     Redeem, Save, Answer, GoTo
<1>6. Redeem(r)
  BY <1>4, <1>5 DEF Handle, LoadKey, FirstKey, VerifyCode, EnableTwoFactor, CountCodes,
     GenerateCodes, DisableTwoFactor, DisableForReset, ResetKey, ReadCodes
<1>7. ~request[r].fresh => request'[r].outcome = "error"
  BY <1>0, <1>6 DEF Redeem, Answer, Answered, IdleRequest
<1> QED
  BY <1>7

\* A recovery code that was redeemed or replaced is never stored and never accepted
\* again, whatever the posts in flight had read
\* (LoginWithRecoveryCode.cshtml.cs:65, GenerateRecoveryCodes.cshtml.cs:60).
THEOREM RetiredCodesStayDead == Spec => RetiredCodesAreDead
<1> DEFINE Accepted ==
             \A r \in Request :
               request[r].pc = "redeem" /\ request'[r].outcome = "signedIn" =>
                 request[r].code \notin retired
<1>1. ASSUME TwoFactorInv, TwoFactorInv', [Next]_vars
      PROVE  [account'.codes \intersect retired' = {} /\ Accepted]_vars
  <2>1. account'.codes \intersect retired' = {}
    BY <1>1 DEF TwoFactorInv
  <2>2. ASSUME NEW r \in Request, request[r].pc = "redeem", request'[r].outcome = "signedIn"
        PROVE  request[r].code \notin retired
    <3>1. request[r].fresh
      BY <1>1, <2>2, OnlyRedeemAccepts
    <3> QED
      BY <1>1, <2>2, <3>1 DEF TwoFactorInv, Current
  <2> QED
    BY <2>1, <2>2
<1> QED
  BY <1>1, TwoFactorInvariant, PTL DEF Spec, RetiredCodesAreDead

\* New recovery codes are only stored while two-factor sign-in is on, whatever is
\* switched on and off by other posts (GenerateRecoveryCodes.cshtml.cs:53,
\* EnableAuthenticator.cshtml.cs:91-99).
THEOREM NewCodesNeedTwoFactor == Spec => CodesNeedTwoFactor
<1>1. ASSUME TwoFactorInv, [Next]_vars
      PROVE  [~(account'.codes \subseteq account.codes) => account.twoFactor]_vars
  <2> SUFFICES ASSUME ~(account'.codes \subseteq account.codes), ~account.twoFactor
               PROVE  FALSE
    OBVIOUS
  <2>0. account' # account /\ account \in Account
    BY <1>1 DEF TwoFactorInv, TypeOK
  <2>1. PICK r \in Request : Handle(r)
    BY <1>1, <2>0 DEF Next, UserActs, ForgetBrowser, PasswordSignIn, PasskeySignIn,
       LoginWith2fa, SignOut, OpenEnableAuthenticator, PostEnableAuthenticator,
       PostGenerateRecoveryCodes, PostDisable2fa, PostResetAuthenticator,
       PostRecoveryCode, OtherUpdate, Restart, vars
  <2>2. Current(request[r])
    BY <1>1 DEF TwoFactorInv
  <2>3. CASE GenerateCodes(r)
    BY <2>0, <2>2, <2>3 DEF GenerateCodes, Current
  <2>4. CASE Redeem(r)
    <3>1. request[r].fresh /\ request[r].codes = account.codes
      BY <2>0, <2>2, <2>4 DEF Redeem, Current
    <3>2. account' = [account EXCEPT !.codes = request[r].codes \ {request[r].code}]
      BY <2>4, <3>1 DEF Redeem, Save
    <3> QED
      BY <2>0, <3>1, <3>2 DEF Account
  <2>5. CASE FirstKey(r) \/ ResetKey(r)
    BY <2>0, <2>5 DEF FirstKey, ResetKey, Save, Account
  <2>6. CASE EnableTwoFactor(r) \/ DisableTwoFactor(r) \/ DisableForReset(r)
    BY <2>0, <2>6 DEF EnableTwoFactor, DisableTwoFactor, DisableForReset, Save, Account
  <2>7. CASE LoadKey(r) \/ VerifyCode(r) \/ CountCodes(r) \/ ReadCodes(r)
    BY <2>0, <2>7 DEF LoadKey, VerifyCode, CountCodes, ReadCodes
  <2> QED
    BY <2>1, <2>3, <2>4, <2>5, <2>6, <2>7 DEF Handle
<1> QED
  BY <1>1, TwoFactorInvariant, PTL DEF Spec, CodesNeedTwoFactor

--------------------------------------------------------------------------------
(***************************************************************************)
(* The pages implement SecondFactor                                        *)
(***************************************************************************)

\* A user can only enter a code of a key the app was given: a new key is unproven.
ProvenKeysWereGiven == proven \subseteq app

LEMMA KeysAreGivenFirst == Spec => []ProvenKeysWereGiven
<1>1. Init => ProvenKeysWereGiven
  BY DEF Init, ProvenKeysWereGiven
<1>2. ProvenKeysWereGiven /\ [Next]_vars => ProvenKeysWereGiven'
  BY DEF ProvenKeysWereGiven, Next, UserActs, ForgetBrowser, PasswordSignIn, PasskeySignIn,
     LoginWith2fa, SignOut, OpenEnableAuthenticator, PostEnableAuthenticator,
     PostGenerateRecoveryCodes, PostDisable2fa, PostResetAuthenticator, PostRecoveryCode,
     Handle, LoadKey, FirstKey, VerifyCode, EnableTwoFactor, CountCodes, GenerateCodes,
     DisableTwoFactor, DisableForReset, ResetKey, ReadCodes, Redeem, OtherUpdate, Restart, vars
<1> QED
  BY <1>1, <1>2, PTL DEF Spec

\* Only the handlers' saves and an accepted authenticator code show.
LEMMA HiddenFromFactor ==
  ASSUME \/ UserActs
         \/ OtherUpdate
         \/ Restart
         \/ \E r \in Request : LoadKey(r) \/ CountCodes(r) \/ ReadCodes(r)
         \/ UNCHANGED vars
  PROVE  UNCHANGED Factor!factorVars
  BY DEF UserActs, ForgetBrowser, PasswordSignIn, PasskeySignIn, LoginWith2fa, SignOut,
     OpenEnableAuthenticator, PostEnableAuthenticator, PostGenerateRecoveryCodes,
     PostDisable2fa, PostResetAuthenticator, PostRecoveryCode, OtherUpdate, Restart,
     LoadKey, CountCodes, ReadCodes, vars, Factor!factorVars

\* The key that EnableAuthenticator accepts a code of is the account's.
LEMMA VerifyProves ==
  ASSUME TypeOK, NEW r \in Request, VerifyCode(r)
  PROVE  [Factor!FactorNext]_(Factor!factorVars)
<1>1. CASE proven' = proven \union {account.key} /\ account.key \in app
  BY <1>1, NoneIsNoKey DEF TypeOK, VerifyCode, Factor!ProveKey, Factor!FactorNext
<1>2. CASE UNCHANGED proven
  BY <1>2 DEF VerifyCode, Factor!factorVars
<1> QED
  BY <1>1, <1>2 DEF VerifyCode

\* A save of the flag: switching on keeps to the key that was proven.
LEMMA FlagSteps ==
  ASSUME TwoFactorInv, NEW r \in Request,
         EnableTwoFactor(r) \/ DisableTwoFactor(r) \/ DisableForReset(r)
  PROVE  [Factor!FactorNext]_(Factor!factorVars)
<1>0. Current(request[r])
  BY DEF TwoFactorInv
<1>1. CASE EnableTwoFactor(r) /\ request[r].fresh
  BY <1>0, <1>1 DEF EnableTwoFactor, Save, Current, Factor!SwitchOn, Factor!FactorNext
<1>2. CASE (DisableTwoFactor(r) \/ DisableForReset(r)) /\ request[r].fresh
  BY <1>2 DEF DisableTwoFactor, DisableForReset, Save, Factor!SwitchOff, Factor!FactorNext
<1>3. CASE ~request[r].fresh
  BY <1>3 DEF EnableTwoFactor, DisableTwoFactor, DisableForReset, Factor!factorVars
<1> QED
  BY <1>1, <1>2, <1>3

\* A save of the key: the second factor is off, because the account has no key yet
\* or because this very request has switched it off.
LEMMA KeySteps ==
  ASSUME TwoFactorInv, ProvenKeysWereGiven, NEW r \in Request, FirstKey(r) \/ ResetKey(r)
  PROVE  [Factor!FactorNext]_(Factor!factorVars)
<1>0. Current(request[r])
  BY DEF TwoFactorInv
<1>1. request[r].fresh => ~account.twoFactor
  <2>1. proven \subseteq Key
    BY DEF TwoFactorInv, TypeOK
  <2> QED
    BY <1>0, <2>1, NoneIsNoKey DEF FirstKey, ResetKey, Current, TwoFactorInv, TwoFactorKeyIsProven
<1>2. ASSUME NEW k \in NewKey, account' = [account EXCEPT !.key = k],
             UNCHANGED <<proven, retired>>, request[r].fresh
      PROVE  Factor!FactorNext
  <2>1. k \in Key \ (proven \union {account.key})
    BY DEF NewKey, ProvenKeysWereGiven
  <2> QED
    BY <1>1, <1>2, <2>1 DEF Factor!ChangeKey, Factor!FactorNext
<1>3. CASE UNCHANGED account
  BY <1>3 DEF FirstKey, ResetKey, Factor!factorVars
<1> QED
  BY <1>2, <1>3 DEF FirstKey, ResetKey, Save

\* A save of the codes: a whole new set while the factor is on, or the stored set
\* without the code that was entered.
LEMMA CodeSteps ==
  ASSUME TwoFactorInv, NEW r \in Request, GenerateCodes(r) \/ Redeem(r)
  PROVE  [Factor!FactorNext]_(Factor!factorVars)
<1>0. Current(request[r]) /\ account \in Account
  BY DEF TwoFactorInv, TypeOK
<1>1. CASE GenerateCodes(r) /\ request[r].fresh
  <2>1. PICK new \in NewCodes : account' = [account EXCEPT !.codes = new]
    BY <1>1 DEF GenerateCodes, Save
  <2>2. /\ new \in {set \in SUBSET Code : Cardinality(set) = CodesPerSet}
        /\ new \intersect (retired \union account.codes) = {}
    BY DEF NewCodes
  <2>3. account.twoFactor
    BY <1>0, <1>1 DEF GenerateCodes, Current
  <2>4. Factor!ReplaceCodes(new)
    BY <1>1, <2>1, <2>2, <2>3 DEF GenerateCodes, Factor!ReplaceCodes
  <2> QED
    BY <2>2, <2>4 DEF Factor!FactorNext
<1>2. CASE Redeem(r) /\ request[r].fresh
  <2>1. request[r].codes = account.codes /\ request[r].code \in account.codes
    BY <1>0, <1>2 DEF Redeem, Current
  <2>2. account' = [account EXCEPT !.codes = @ \ {request[r].code}]
    BY <1>2, <2>1 DEF Redeem, Save
  <2>3. Factor!RedeemCode(request[r].code)
    BY <1>2, <2>1, <2>2 DEF Redeem, Factor!RedeemCode
  <2>4. request[r].code \in Code
    BY <1>0, <2>1 DEF Account
  <2> QED
    BY <2>3, <2>4 DEF Factor!FactorNext
<1>3. CASE ~request[r].fresh
  BY <1>3 DEF GenerateCodes, Redeem, Factor!factorVars
<1> QED
  BY <1>1, <1>2, <1>3

\* For any number of posts at once and whichever saves they lose, each save of the
\* pages under Pages/Account/Manage and of LoginWithRecoveryCode is one step of the
\* abstract second factor on the account as it is.
THEOREM PagesImplementSecondFactor == Spec => ImplementsSecondFactor
<1>1. Init => Factor!FactorInit
  BY DEF Init, Factor!FactorInit
<1>2. TwoFactorInv /\ ProvenKeysWereGiven /\ [Next]_vars
        => [Factor!FactorNext]_(Factor!factorVars)
  <2> SUFFICES ASSUME TwoFactorInv, ProvenKeysWereGiven, [Next]_vars
               PROVE  [Factor!FactorNext]_(Factor!factorVars)
    OBVIOUS
  <2>1. ASSUME NEW r \in Request, Handle(r)
        PROVE  [Factor!FactorNext]_(Factor!factorVars)
    BY <2>1, HiddenFromFactor, VerifyProves, FlagSteps, KeySteps, CodeSteps
       DEF Handle, TwoFactorInv
  <2> QED
    BY <2>1, HiddenFromFactor DEF Next
<1> QED
  BY <1>1, <1>2, TwoFactorInvariant, KeysAreGivenFirst, PTL
     DEF Spec, ImplementsSecondFactor, Factor!FactorSpec

================================================================================
