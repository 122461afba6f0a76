------------------------------ MODULE TwoFactorPages ------------------------------
(***************************************************************************)
(* Two-factor authentication of one account: the pages that switch it on   *)
(* and off and change the authenticator key and the recovery codes, and    *)
(* the sign-ins that ask for them.  Accounts share nothing here, so one is *)
(* enough.                                                                 *)
(*                                                                         *)
(* A handler reads the account and saves it later, once or twice.  Every   *)
(* save compares the account's concurrency stamp with the one that was     *)
(* read; a save that loses changes nothing, and most handlers ignore that  *)
(* it did.  fresh stands for the comparison: the account is still as the   *)
(* request has read (or last saved) it.                                    *)
(***************************************************************************)
EXTENDS FiniteSets, AssuranceClaims

CONSTANTS
  Browser,      \* the user's browsers
  Request,      \* posts the server handles at the same time
  Key,          \* authenticator keys; a bound on how many are generated
  Code,         \* recovery codes; a bound on how many are generated
  CodesPerSet   \* how many are generated at a time: 10 in the code

ASSUME NoneIsNoKey == None \notin Key \union Code \union Browser

VARIABLES
  account,   \* the account's second factor in the database
  app,       \* the keys the user's authenticator app was given
  proven,    \* history: the keys EnableAuthenticator has accepted a code of
  retired,   \* history: the recovery codes that were redeemed or replaced
  browser,   \* the cookies of each browser, and the login page's last answer
  request    \* the posts in flight

vars == <<account, app, proven, retired, browser, request>>

Account == [twoFactor : BOOLEAN, key : Key \union {None}, codes : SUBSET Code]

\* pending is the cookie that says who has given the right password, remembered
\* the one that spares this browser the second factor.
Cookies ==
  [signedIn   : BOOLEAN,
   pending    : BOOLEAN,
   remembered : BOOLEAN,
   answer     : {"none", "redirect", "invalidCredentials"}]

Step ==
  {"idle", "answered",
   "loadKey", "firstKey",                  \* EnableAuthenticator OnGet
   "verify", "enable", "count",            \* EnableAuthenticator OnPost
   "generate",                             \* and GenerateRecoveryCodes OnPost
   "disableForReset", "resetKey",          \* ResetAuthenticator OnPost
   "disable",                              \* Disable2fa OnPost
   "readCodes", "redeem"}                  \* LoginWithRecoveryCode OnPost

\* code and codes are what LoginWithRecoveryCode was given and has read.
RequestRecord ==
  [pc      : Step,
   browser : Browser \union {None},
   fresh   : BOOLEAN,
   code    : Code \union {None},
   codes   : SUBSET Code,
   outcome : {"none", "page", "verified", "codes", "disabled", "reset",
              "signedIn", "error"}]

TypeOK ==
  /\ account \in Account
  /\ app \subseteq Key
  /\ proven \subseteq Key
  /\ retired \subseteq Code
  /\ browser \in [Browser -> Cookies]
  /\ request \in [Request -> RequestRecord]

IdleRequest ==
  [pc |-> "idle", browser |-> None, fresh |-> FALSE, code |-> None, codes |-> {},
   outcome |-> "none"]

--------------------------------------------------------------------------------
(***************************************************************************)
(* Reading and saving the account                                          *)
(***************************************************************************)

Free(r) == request[r].pc \in {"idle", "answered"}

GoTo(r, step) == request' = [request EXCEPT ![r].pc = step]

Answered(outcome) == [IdleRequest EXCEPT !.pc = "answered", !.outcome = outcome]

Answer(r, outcome) == request' = [request EXCEPT ![r] = Answered(outcome)]

\* GetUserAsync, or GetTwoFactorAuthenticationUserAsync: request r of browser b has
\* read the account and continues with the given step.
ReadUser(r, b, step) ==
  request' = [request EXCEPT ![r] =
    [IdleRequest EXCEPT !.pc = step, !.browser = b, !.fresh = TRUE]]

\* r saves the account: every other request in flight has read an older one.
\* next is the record of r after it.
Save(r, new, next) ==
  /\ account' = new
  /\ request' = [q \in Request |->
       IF q = r THEN next ELSE [request[q] EXCEPT !.fresh = FALSE]]

\* Generated values are new.
NewKey == Key \ (app \union {account.key})
NewCodes ==
  {new \in SUBSET (Code \ (retired \union account.codes)) :
     Cardinality(new) = CodesPerSet}

--------------------------------------------------------------------------------
(***************************************************************************)
(* Manage/EnableAuthenticator                                              *)
(***************************************************************************)

OpenEnableAuthenticator(r, b) ==
  /\ Free(r)
  /\ browser[b].signedIn
  /\ ReadUser(r, b, "loadKey")
  /\ UNCHANGED <<account, app, proven, retired, browser>>

\* Mutant of LoadKey: an account without a key shows the page all the same.
LoadKeyUnchecked(r) ==
  /\ request[r].pc = "loadKey"
  /\ app' = app \union {account.key}
  /\ Answer(r, "page")
  /\ UNCHANGED <<account, proven, retired, browser>>

\* LoadSharedKeyAndQrCodeUriAsync: the key is shown, and scanned by the user; an
\* account without one gets one first.
LoadKey(r) ==
  /\ request[r].pc = "loadKey"
  /\ \/ /\ account.key # None
        /\ app' = app \union {account.key}
        /\ Answer(r, "page")
     \/ /\ account.key = None
        /\ GoTo(r, "firstKey")
        /\ UNCHANGED app
  /\ UNCHANGED <<account, proven, retired, browser>>

\* Mutant of FirstKey: the save compares no stamp.
FirstKeyUnguarded(r) ==
  /\ request[r].pc = "firstKey"
  /\ \E k \in NewKey :
       /\ app' = app \union {k}
       /\ Save(r, [account EXCEPT !.key = k], Answered("page"))
  /\ UNCHANGED <<proven, retired, browser>>

\* ResetAuthenticatorKeyAsync.  The result is ignored and the page shows the key
\* of this request even if it was not saved, unless inserting a second key for
\* the account is an exception.
FirstKey(r) ==
  /\ request[r].pc = "firstKey"
  /\ \/ \E k \in NewKey :
          /\ app' = app \union {k}
          /\ IF request[r].fresh
             THEN Save(r, [account EXCEPT !.key = k], Answered("page"))
             ELSE Answer(r, "page") /\ UNCHANGED account
     \/ /\ ~request[r].fresh
        /\ account.key # None
        /\ Answer(r, "error")
        /\ UNCHANGED <<account, app>>
  /\ UNCHANGED <<proven, retired, browser>>

PostEnableAuthenticator(r, b) ==
  /\ Free(r)
  /\ browser[b].signedIn
  /\ ReadUser(r, b, "verify")
  /\ UNCHANGED <<account, app, proven, retired, browser>>

\* VerifyTwoFactorTokenAsync reads the key.  The user can only enter a code of a
\* key the app has; any other code, and a malformed one, shows the page again.
VerifyCode(r) ==
  /\ request[r].pc = "verify"
  /\ \/ /\ account.key \in app
        /\ proven' = proven \union {account.key}
        /\ GoTo(r, "enable")
        /\ UNCHANGED app
     \/ /\ account.key # None
        /\ app' = app \union {account.key}
        /\ Answer(r, "page")
        /\ UNCHANGED proven
     \/ /\ account.key = None
        /\ GoTo(r, "firstKey")
        /\ UNCHANGED <<app, proven>>
  /\ UNCHANGED <<account, retired, browser>>

\* SetTwoFactorEnabledAsync(user, true), whose result is ignored.
EnableTwoFactor(r) ==
  /\ request[r].pc = "enable"
  /\ IF request[r].fresh
     THEN Save(r, [account EXCEPT !.twoFactor = TRUE], [request[r] EXCEPT !.pc = "count"])
     ELSE GoTo(r, "count") /\ UNCHANGED account
  /\ UNCHANGED <<app, proven, retired, browser>>

CountCodes(r) ==
  /\ request[r].pc = "count"
  /\ IF account.codes = {} THEN GoTo(r, "generate") ELSE Answer(r, "verified")
  /\ UNCHANGED <<account, app, proven, retired, browser>>

--------------------------------------------------------------------------------
(***************************************************************************)
(* Manage/GenerateRecoveryCodes, Manage/Disable2fa, Manage/Reset-          *)
(* Authenticator, Manage/TwoFactorAuthentication                           *)
(***************************************************************************)

\* The account that was read must have two-factor sign-in on.
PostGenerateRecoveryCodes(r, b) ==
  /\ Free(r)
  /\ browser[b].signedIn
  /\ IF account.twoFactor THEN ReadUser(r, b, "generate") ELSE Answer(r, "error")
  /\ UNCHANGED <<account, app, proven, retired, browser>>

\* Mutant of GenerateCodes: the save compares no stamp.
GenerateCodesUnguarded(r) ==
  /\ request[r].pc = "generate"
  /\ \E new \in NewCodes : Save(r, [account EXCEPT !.codes = new], Answered("codes"))
  /\ retired' = retired \union account.codes
  /\ UNCHANGED <<app, proven, browser>>

\* GenerateNewTwoFactorRecoveryCodesAsync returns null when the save fails, which
\* is an exception (the ! of the code).
GenerateCodes(r) ==
  /\ request[r].pc = "generate"
  /\ IF request[r].fresh
     THEN /\ \E new \in NewCodes :
               Save(r, [account EXCEPT !.codes = new], Answered("codes"))
          /\ retired' = retired \union account.codes
     ELSE /\ Answer(r, "error")
          /\ UNCHANGED <<account, retired>>
  /\ UNCHANGED <<app, proven, browser>>

PostDisable2fa(r, b) ==
  /\ Free(r)
  /\ browser[b].signedIn
  /\ ReadUser(r, b, "disable")
  /\ UNCHANGED <<account, app, proven, retired, browser>>

DisableTwoFactor(r) ==
  /\ request[r].pc = "disable"
  /\ IF request[r].fresh
     THEN Save(r, [account EXCEPT !.twoFactor = FALSE], Answered("disabled"))
     ELSE Answer(r, "error") /\ UNCHANGED account
  /\ UNCHANGED <<app, proven, retired, browser>>

PostResetAuthenticator(r, b) ==
  /\ Free(r)
  /\ browser[b].signedIn
  /\ ReadUser(r, b, "disableForReset")
  /\ UNCHANGED <<account, app, proven, retired, browser>>

\* The first of two saves whose results are ignored.
DisableForReset(r) ==
  /\ request[r].pc = "disableForReset"
  /\ IF request[r].fresh
     THEN Save(r, [account EXCEPT !.twoFactor = FALSE], [request[r] EXCEPT !.pc = "resetKey"])
     ELSE GoTo(r, "resetKey") /\ UNCHANGED account
  /\ UNCHANGED <<app, proven, retired, browser>>

\* Mutant of ResetKey: the save compares no stamp.
ResetKeyUnguarded(r) ==
  /\ request[r].pc = "resetKey"
  /\ \E k \in NewKey : Save(r, [account EXCEPT !.key = k], Answered("reset"))
  /\ browser' = [browser EXCEPT ![request[r].browser].signedIn = TRUE]
  /\ UNCHANGED <<app, proven, retired>>

\* The second.  Whether it is saved or not, the sign-in is refreshed and the user
\* is told that the key has been reset.
ResetKey(r) ==
  /\ request[r].pc = "resetKey"
  /\ IF request[r].fresh
     THEN \E k \in NewKey : Save(r, [account EXCEPT !.key = k], Answered("reset"))
     ELSE Answer(r, "reset") /\ UNCHANGED account
  /\ browser' = [browser EXCEPT ![request[r].browser].signedIn = TRUE]
  /\ UNCHANGED <<app, proven, retired>>

\* ForgetTwoFactorClientAsync; also the end of that cookie when it is revalidated
\* after the security stamp has changed.
ForgetBrowser(b) ==
  /\ browser[b].remembered
  /\ browser' = [browser EXCEPT ![b].remembered = FALSE]
  /\ UNCHANGED <<account, app, proven, retired, request>>

--------------------------------------------------------------------------------
(***************************************************************************)
(* Signing in                                                              *)
(***************************************************************************)

SignedIn(c) == [c EXCEPT !.signedIn = TRUE, !.pending = FALSE, !.answer = "redirect"]

\* Account/Login OnPost with the right password.  PasswordSignInAsync wants the
\* second factor of an account that has it on, unless the browser is remembered;
\* the page has no answer of its own to that and shows the error it shows for a
\* wrong password.
PasswordSignIn(b) ==
  /\ browser' = [browser EXCEPT ![b] =
       IF account.twoFactor /\ ~@.remembered
       THEN [@ EXCEPT !.pending = TRUE, !.answer = "invalidCredentials"]
       ELSE SignedIn(@)]
  /\ UNCHANGED <<account, app, proven, retired, request>>

\* Account/Login OnPost with a passkey and Swiyu/Login want no second factor.
PasskeySignIn(b) ==
  /\ browser' = [browser EXCEPT ![b] = SignedIn(@)]
  /\ UNCHANGED <<account, app, proven, retired, request>>

\* LoginWith2fa OnPost with a code of the account's key.  Nothing links to this
\* page; a user can open it by its address.
LoginWith2fa(b) ==
  /\ browser[b].pending
  /\ account.key \in app
  /\ \E c \in {browser[b], [browser[b] EXCEPT !.remembered = TRUE]} :
       browser' = [browser EXCEPT ![b] = SignedIn(c)]
  /\ UNCHANGED <<account, app, proven, retired, request>>

\* LoginWithRecoveryCode OnPost, TwoFactorRecoveryCodeSignInAsync: the account,
PostRecoveryCode(r, b, c) ==
  /\ Free(r)
  /\ browser[b].pending
  /\ request' = [request EXCEPT ![r] =
       [IdleRequest EXCEPT !.pc = "readCodes", !.browser = b, !.fresh = TRUE, !.code = c]]
  /\ UNCHANGED <<account, app, proven, retired, browser>>

\* its codes,
ReadCodes(r) ==
  /\ request[r].pc = "readCodes"
  /\ IF request[r].code \in account.codes
     THEN request' = [request EXCEPT ![r].pc = "redeem", ![r].codes = account.codes]
     ELSE Answer(r, "error")
  /\ UNCHANGED <<account, app, proven, retired, browser>>

\* Mutant of Redeem: the save compares no stamp.
RedeemUnguarded(r) ==
  /\ request[r].pc = "redeem"
  /\ Save(r, [account EXCEPT !.codes = request[r].codes \ {request[r].code}],
          Answered("signedIn"))
  /\ retired' = retired \union {request[r].code}
  /\ browser' = [browser EXCEPT ![request[r].browser] = SignedIn(@)]
  /\ UNCHANGED <<app, proven>>

\* and the codes that are left are saved.  Then the count of failed sign-ins is
\* reset, a save of its own if there were any: when that one fails the code is used
\* up and the user is told that it was invalid.
Redeem(r) ==
  /\ request[r].pc = "redeem"
  /\ IF request[r].fresh
     THEN \E outcome \in {"signedIn", "error"} :
            /\ Save(r, [account EXCEPT !.codes = request[r].codes \ {request[r].code}],
                    Answered(outcome))
            /\ retired' = retired \union {request[r].code}
            /\ browser' = IF outcome = "signedIn"
                          THEN [browser EXCEPT ![request[r].browser] = SignedIn(@)]
                          ELSE browser
     ELSE /\ Answer(r, "error")
          /\ UNCHANGED <<account, retired, browser>>
  /\ UNCHANGED <<app, proven>>

\* Logout, or a cookie that expires or does not pass revalidation.
SignOut(b) ==
  /\ browser' = [browser EXCEPT ![b].signedIn = FALSE, ![b].pending = FALSE,
                                ![b].answer = "none"]
  /\ UNCHANGED <<account, app, proven, retired, request>>

--------------------------------------------------------------------------------
(***************************************************************************)
(* The specification                                                       *)
(***************************************************************************)

Init ==
  /\ account = [twoFactor |-> FALSE, key |-> None, codes |-> {}]
  /\ app = {}
  /\ proven = {}
  /\ retired = {}
  /\ browser = [b \in Browser |->
       [signedIn |-> FALSE, pending |-> FALSE, remembered |-> FALSE, answer |-> "none"]]
  /\ request = [r \in Request |-> IdleRequest]

\* Any other update of the account renews its stamp: a failed sign-in is counted,
\* a profile, an address or a password changes, swiyu is linked.
OtherUpdate ==
  /\ \E r \in Request : request[r].fresh
  /\ request' = [r \in Request |-> [request[r] EXCEPT !.fresh = FALSE]]
  /\ UNCHANGED <<account, app, proven, retired, browser>>

\* The host restarts: requests are gone.
Restart ==
  /\ \E r \in Request : ~Free(r)
  /\ request' = [r \in Request |-> IdleRequest]
  /\ UNCHANGED <<account, app, proven, retired, browser>>

UserActs ==
  \E b \in Browser :
    \/ ForgetBrowser(b)
    \/ PasswordSignIn(b)
    \/ PasskeySignIn(b)
    \/ LoginWith2fa(b)
    \/ SignOut(b)
    \/ \E r \in Request :
         \/ OpenEnableAuthenticator(r, b)
         \/ PostEnableAuthenticator(r, b)
         \/ PostGenerateRecoveryCodes(r, b)
         \/ PostDisable2fa(r, b)
         \/ PostResetAuthenticator(r, b)
         \/ \E c \in Code : PostRecoveryCode(r, b, c)

Handle(r) ==
  \/ LoadKey(r)
  \/ FirstKey(r)
  \/ VerifyCode(r)
  \/ EnableTwoFactor(r)
  \/ CountCodes(r)
  \/ GenerateCodes(r)
  \/ DisableTwoFactor(r)
  \/ DisableForReset(r)
  \/ ResetKey(r)
  \/ ReadCodes(r)
  \/ Redeem(r)

Next ==
  \/ UserActs
  \/ \E r \in Request : Handle(r)
  \/ OtherUpdate
  \/ Restart

Spec == Init /\ [][Next]_vars

--------------------------------------------------------------------------------
(***************************************************************************)
(* Properties                                                              *)
(***************************************************************************)

\* Two-factor sign-in is on only with a key of which the user has entered a code,
\* although ResetAuthenticator changes flag and key in two saves and both pages
\* ignore failed saves ("This process disables 2FA until you verify your
\* authenticator app", ResetAuthenticator.cshtml:16).
TwoFactorKeyIsProven == account.twoFactor => account.key \in proven

\* A recovery code that was redeemed or replaced is dead: a handler that read the
\* codes earlier never writes it back and never signs in with it
\* (LoginWithRecoveryCode.cshtml.cs:65, GenerateRecoveryCodes.cshtml.cs:60).
RetiredCodesAreDead ==
  [][/\ account'.codes \intersect retired' = {}
     /\ \A r \in Request :
          request[r].pc = "redeem" /\ request'[r].outcome = "signedIn" =>
            request[r].code \notin retired]_vars

\* New recovery codes are only stored while two-factor sign-in is on, although the
\* pages look at the flag one or two steps earlier, or not at all after switching
\* it on (GenerateRecoveryCodes.cshtml.cs:53, EnableAuthenticator.cshtml.cs:91-99).
CodesNeedTwoFactor ==
  [][~(account'.codes \subseteq account.codes) => account.twoFactor]_vars

================================================================================
