--------------------------- MODULE StepUpAuthorization ---------------------------
(***************************************************************************)
(* How the web application gets a token good enough for the weather API.   *)
(* The API wants loa.400 and loi.400; the web page offers a step-up when   *)
(* they are missing; the identity server sends a browser back to its login *)
(* page until the session satisfies the requested acr; the token carries   *)
(* the claims of the session that satisfied it.                            *)
(*                                                                         *)
(* One browser may have several flows open (tabs), and each step of a flow *)
(* is a request of its own: sessions of SignInSessions change in between.  *)
(***************************************************************************)
EXTENDS Naturals, FiniteSets, SignInSessions

CONSTANTS
  Flow,             \* authorization flows that are open at the same time
  MaxAccountPages   \* bound on the account pages a browser has in progress

VARIABLES
  flow,    \* the authorization flows
  web      \* the session of each browser with the web application

vars == <<linked, cookie, managing, flow, web>>

Acr == {"none", "phr", "mfa"}

\* pushed: at the authorize endpoint with a pushed request.  login: sent to the
\* login page.  code: has a code, issued for claims.
FlowRecord ==
  [step    : {"idle", "pushed", "login", "code"},
   browser : Browser \union {None},
   acr     : Acr,
   claims  : SessionClaims]

\* The tokens are saved in the web application's cookie: claims is what they say.
\* acr is a history field, the acr of the flow that brought them.
WebSession == [signedIn : BOOLEAN, claims : SessionClaims, acr : Acr]

TypeOK ==
  /\ SessionsTypeOK
  /\ flow \in [Flow -> FlowRecord]
  /\ web \in [Browser -> WebSession]

IdleFlow == [step |-> "idle", browser |-> None, acr |-> "none", claims |-> NoCookie]

NoWebSession == [signedIn |-> FALSE, claims |-> NoCookie, acr |-> "none"]

--------------------------------------------------------------------------------
(***************************************************************************)
(* The weather API and the page that calls it                              *)
(***************************************************************************)

\* Mutant of LoaHandler: only the lowest level is refused.
LoaHandlerNotLowest(claims) == claims.loa # LOA_100

LoaHandler(claims) == claims.loa = LOA_400
LoiHandler(claims) == claims.loi = LOI_400

\* The levels the 401 answer names as insufficient, which are also the step-up
\* buttons Weather.razor shows.  An expired token is a 401 that names nothing.
Insufficient(claims) ==
  {level \in {"loa", "loi"} :
     \/ level = "loa" /\ ~LoaHandler(claims)
     \/ level = "loi" /\ ~LoiHandler(claims)}

\* /weatherforecast answers browser b's token with a forecast.
Forecast(b) == web[b].signedIn /\ Insufficient(web[b].claims) = {}

--------------------------------------------------------------------------------
(***************************************************************************)
(* The authorization flows                                                 *)
(***************************************************************************)

\* /login, /stepuploa?loa=loa.400 and /stepuploa: an authorization request is
\* pushed, with acr_values none, phr or mfa, and the browser goes to authorize.
Challenge(b, f, acr) ==
  /\ flow[f].step = "idle"
  /\ flow' = [flow EXCEPT ![f] =
       [step |-> "pushed", browser |-> b, acr |-> acr, claims |-> NoCookie]]
  /\ UNCHANGED <<sessionVars, web>>

AuthenticatedWithPasskeys(c) == c.amr = Pop
AuthenticatedWithMfa(c)      == c.amr \in {Pop, Mfa}

\* Mutant of LoginRequired: a step-up always asks for a fresh login.
LoginRequiredAlways(acr, c) == c.user = None \/ acr # "none"

\* ProcessLoginAsync: must this session log in (again) for this acr?  The branch
\* for a user who declined is unreachable, nothing sets declined_mfa.
LoginRequired(acr, c) ==
  \/ c.user = None
  \/ acr = "phr" /\ ~AuthenticatedWithPasskeys(c)
  \/ acr = "mfa" /\ ~AuthenticatedWithMfa(c)

\* The authorize endpoint: to the login page, or a code for the session's claims.
Authorize(f) ==
  LET c == cookie[flow[f].browser] IN
  /\ flow[f].step = "pushed"
  /\ flow' = [flow EXCEPT
       ![f].step   = IF LoginRequired(flow[f].acr, c) THEN "login" ELSE "code",
       ![f].claims = IF LoginRequired(flow[f].acr, c) THEN NoCookie ELSE c]
  /\ UNCHANGED <<sessionVars, web>>

\* The user signs in at the page flow f was sent to, or at the registration or
\* wallet page it links to, and is redirected back to authorize.
SignInForFlow(f) ==
  /\ flow[f].step = "login"
  /\ SignInPages(flow[f].browser)
  /\ flow' = [flow EXCEPT ![f].step = "pushed"]
  /\ UNCHANGED web

\* The user opens the authorize URL again, after signing in in another tab or
\* without.
ReturnToAuthorize(f) ==
  /\ flow[f].step = "login"
  /\ flow' = [flow EXCEPT ![f].step = "pushed"]
  /\ UNCHANGED <<sessionVars, web>>

\* Mutant of Redeem: the tokens carry the claims of the session at the exchange.
RedeemCurrentSession(f) ==
  /\ flow[f].step = "code"
  /\ web' = [web EXCEPT ![flow[f].browser] =
       [signedIn |-> TRUE, claims |-> cookie[flow[f].browser], acr |-> flow[f].acr]]
  /\ flow' = [flow EXCEPT ![f] = IdleFlow]
  /\ UNCHANGED sessionVars

\* /signin-oidc: the code is exchanged for tokens, which replace whatever session
\* the browser has with the web application.
Redeem(f) ==
  /\ flow[f].step = "code"
  /\ web' = [web EXCEPT ![flow[f].browser] =
       [signedIn |-> TRUE, claims |-> flow[f].claims, acr |-> flow[f].acr]]
  /\ flow' = [flow EXCEPT ![f] = IdleFlow]
  /\ UNCHANGED sessionVars

\* The user cancels or leaves, the request or its code expires, the exchange
\* fails: the web application's session stays what it was.
FlowEnds(f) ==
  /\ flow[f].step # "idle"
  /\ flow' = [flow EXCEPT ![f] = IdleFlow]
  /\ UNCHANGED <<sessionVars, web>>

\* POST /logout of the web application.  The browser is sent to the identity
\* server's logout page, a step of its own it need not reach.
WebLogout(b) ==
  /\ web[b].signedIn
  /\ web' = [web EXCEPT ![b] = NoWebSession]
  /\ UNCHANGED <<sessionVars, flow>>

\* The identity server's logout page, whose front-channel request ends the
\* session with the web application too, if it is that session's and arrives.
Logout(b) ==
  /\ cookie[b].user # None
  /\ SignOut(b)
  /\ web' \in {web, [web EXCEPT ![b] = NoWebSession]}
  /\ UNCHANGED flow

\* The pages of the identity server, outside any flow.
Elsewhere ==
  /\ \/ \E u \in User : LinkAccount(u)
     \/ \E b \in Browser :
          \/ SignInPages(b)
          \/ Cardinality(managing[b]) < MaxAccountPages /\ OpenAccountPage(b)
          \/ RefreshSignIn(b)
          \/ LeaveAccountPage(b)
     \/ RestartPages
  /\ UNCHANGED <<flow, web>>

Init ==
  /\ SessionsInit
  /\ flow = [f \in Flow |-> IdleFlow]
  /\ web = [b \in Browser |-> NoWebSession]

Next ==
  \/ Elsewhere
  \/ \E b \in Browser :
       \/ \E f \in Flow, acr \in Acr : Challenge(b, f, acr)
       \/ WebLogout(b)
       \/ Logout(b)
  \/ \E f \in Flow :
       \/ Authorize(f)
       \/ SignInForFlow(f)
       \/ ReturnToAuthorize(f)
       \/ Redeem(f)
       \/ FlowEnds(f)

Spec == Init /\ [][Next]_vars

\* The servers answer a browser that was redirected to them.  Users are free.
FairSpec == Spec /\ \A f \in Flow : WF_vars(Authorize(f)) /\ WF_vars(Redeem(f))

--------------------------------------------------------------------------------
(***************************************************************************)
(* Properties                                                              *)
(***************************************************************************)

\* A token the weather API answers with a forecast was issued to an account that
\* is linked to a person and for a session opened with a passkey, whatever was
\* refreshed, switched or signed out while the flow was open (LoaHandler.cs and
\* LoiHandler.cs see only the levels).
ForecastIsEarned ==
  \A b \in Browser :
    Forecast(b) =>
      /\ web[b].claims.user \in linked
      /\ AuthenticatedWithPasskeys(web[b].claims)

\* Tokens that came from a step-up say that the requested method was used, even
\* if the browser signed in in another way while the flow was open
\* (StepUpInteractionResponseGenerator.cs).
StepUpIsHonoured ==
  \A b \in Browser :
    /\ web[b].acr = "phr" => AuthenticatedWithPasskeys(web[b].claims)
    /\ web[b].acr = "mfa" => AuthenticatedWithMfa(web[b].claims)

\* A flow at the authorize endpoint of a browser signed in with a passkey does
\* not go back and forth between authorize and login: it ends, unless the session
\* changes first (StepUpInteractionResponseGenerator.cs:26).
PasskeyEndsStepUp ==
  \A f \in Flow, b \in Browser :
    /\ flow[f].step = "pushed"
    /\ flow[f].browser = b
    /\ cookie[b].user # None
    /\ AuthenticatedWithPasskeys(cookie[b])
    ~> \/ flow[f].step = "idle"
       \/ ~AuthenticatedWithPasskeys(cookie[b])

\* Whoever has stepped up with a passkey is not told to step up again ("Lets
\* require passkeys to use this API", LoaHandler.cs:16).
StepUpIsEnough ==
  \A b \in Browser : web[b].acr = "phr" => "loa" \notin Insufficient(web[b].claims)

================================================================================
