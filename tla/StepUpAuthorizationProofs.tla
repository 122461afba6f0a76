------------------------ MODULE StepUpAuthorizationProofs ------------------------
(***************************************************************************)
(* What holds of StepUpAuthorization for every set of accounts, browsers   *)
(* and flows.  The argument: only a sign-in with a passkey puts loa.400    *)
(* into a cookie and only a sign-in of a linked account puts loi.400 there *)
(* (Earned), an account never stops being linked, and authorize hands out  *)
(* a code only for claims that satisfy the acr (CodesAreHonoured); cookies *)
(* are copied to account pages, codes and tokens and not changed there.    *)
(***************************************************************************)
EXTENDS StepUpAuthorization, TLAPS

\* What a level in a cookie says about the account and the sign-in.
Earned(c) ==
  /\ c.loi = LOI_400 => c.user \in linked
  /\ c.loa = LOA_400 => c.amr = Pop

CookiesEarned ==
  /\ \A b \in Browser : Earned(cookie[b])
  /\ \A f \in Flow : Earned(flow[f].claims)
  /\ \A b \in Browser : Earned(web[b].claims)

\* The claims satisfy the acr that was asked for.
Satisfies(c, acr) ==
  /\ acr = "phr" => AuthenticatedWithPasskeys(c)
  /\ acr = "mfa" => AuthenticatedWithMfa(c)

CodesAreHonoured ==
  \A f \in Flow : flow[f].step = "code" => Satisfies(flow[f].claims, flow[f].acr)

\* A flow that was started has a browser.
FlowsHaveBrowsers ==
  \A f \in Flow : flow[f].step # "idle" => flow[f].browser \in Browser

StepUpInv ==
  /\ TypeOK
  /\ FlowsHaveBrowsers
  /\ CookiesEarned
  /\ CodesAreHonoured
  /\ StepUpIsHonoured

\* The levels and methods that occur are different values of the vocabulary.
LEMMA Vocabulary ==
  /\ {LOA_100, LOA_200, LOA_400, Absent} \subseteq Loa
  /\ {LOI_100, LOI_400, Absent} \subseteq Loi
  /\ {Pop, Mca, Mfa, Pwd, Absent} \subseteq Amr
  /\ LOI_400 \notin {LOI_100, Absent}
  /\ LOA_400 \notin {LOA_100, LOA_200, Absent}
  BY DEF Loa, Loi, Amr, LOA_100, LOA_200, LOA_400, LOI_100, LOI_400, Pop, Mca, Mfa, Pwd, Absent

LEMMA NoCookieEarned == NoCookie \in SessionClaims /\ Earned(NoCookie)
  BY Vocabulary DEF NoCookie, SessionClaims, Earned

\* Any sign-in leaves an earned cookie in its browser and changes nothing else.
LEMMA SignInsEarned ==
  ASSUME TypeOK, NEW b \in Browser, SignInPages(b)
  PROVE  /\ UNCHANGED <<linked, managing>>
         /\ \E c \in SessionClaims :
              c.user \in User /\ Earned(c) /\ cookie' = [cookie EXCEPT ![b] = c]
<1>1. PICK u \in User : \/ SignUp(b, u)
                       \/ SignInLocally(b, u)
                       \/ SignInWithWallet(b, u)
                       \/ SignInWithSecondFactor(b, u)
  BY DEF SignInPages
<1>2. CASE SignUp(b, u)
  <2> DEFINE c == CookieOf(u, NewAccountClaims)
  <2>1. c \in SessionClaims /\ c.user \in User /\ Earned(c)
    BY Vocabulary DEF CookieOf, NewAccountClaims, SessionClaims, Earned
  <2> QED
    BY <1>2, <2>1 DEF SignUp, SignIn
<1>3. CASE SignInLocally(b, u)
  <2>1. PICK method \in {<<LOA_100, Pwd>>, <<LOA_400, Pop>>} :
          SignIn(b, u, LocalLoginClaims(IF u \in linked THEN u ELSE None, method[1], method[2]))
    BY <1>3 DEF SignInLocally
  <2> DEFINE c == CookieOf(u, LocalLoginClaims(IF u \in linked THEN u ELSE None, method[1], method[2]))
  <2>2. c.user = u /\ c.loa = method[1] /\ c.amr = method[2]
    BY DEF CookieOf, LocalLoginClaims
  <2>3. c.loi = IF u \in linked THEN LOI_400 ELSE LOI_100
    BY NoneIsNoUser DEF CookieOf, LocalLoginClaims
  <2>4. c \in SessionClaims
    BY <2>2, <2>3, Vocabulary DEF CookieOf, SessionClaims
  <2>5. Earned(c)
    BY <2>2, <2>3, Vocabulary DEF Earned
  <2> QED
    BY <2>1, <2>2, <2>4, <2>5 DEF SignIn
<1>4. CASE SignInWithWallet(b, u)
  <2> DEFINE c == CookieOf(u, SwiyuLoginClaims(u))
  <2>1. c \in SessionClaims /\ c.user \in User /\ Earned(c)
    BY <1>4, Vocabulary DEF SignInWithWallet, CookieOf, SwiyuLoginClaims, SessionClaims, Earned
  <2> QED
    BY <1>4, <2>1 DEF SignInWithWallet, SignIn
<1>5. CASE SignInWithSecondFactor(b, u)
  <2> DEFINE c == CookieOf(u, SecondFactorClaims)
  <2>1. c \in SessionClaims /\ c.user \in User /\ Earned(c)
    BY Vocabulary DEF CookieOf, SecondFactorClaims, SessionClaims, Earned
  <2> QED
    BY <1>5, <2>1 DEF SignInWithSecondFactor, SignIn
<1> QED
  BY <1>1, <1>2, <1>3, <1>4, <1>5

\* Identity pages outside any flow keep the sessions typed and earned.
LEMMA ElsewhereKeepsSessions ==
  ASSUME StepUpInv, Elsewhere
  PROVE  /\ SessionsTypeOK'
         /\ linked \subseteq linked'
         /\ \A b \in Browser : Earned(cookie[b])'
<1> USE DEF StepUpInv, TypeOK, SessionsTypeOK, CookiesEarned
<1>1. CASE \E u \in User : LinkAccount(u)
  BY <1>1 DEF LinkAccount, Earned
<1>2. ASSUME NEW b \in Browser, SignInPages(b)
      PROVE  /\ SessionsTypeOK'
             /\ linked \subseteq linked'
             /\ \A a \in Browser : Earned(cookie[a])'
  BY <1>2, SignInsEarned DEF Earned
<1>3. CASE \E b \in Browser : OpenAccountPage(b)
  BY <1>3 DEF OpenAccountPage, Earned
<1>4. ASSUME NEW b \in Browser, RefreshSignIn(b)
      PROVE  /\ SessionsTypeOK'
             /\ linked \subseteq linked'
             /\ \A a \in Browser : Earned(cookie[a])'
  <2>1. PICK c \in managing[b] :
          /\ cookie' = [cookie EXCEPT ![b] = CookieOf(c.user, RefreshedClaims(c))]
          /\ \E rest \in {managing[b], managing[b] \ {c}} :
               managing' = [managing EXCEPT ![b] = rest]
    BY <1>4 DEF RefreshSignIn
  <2> DEFINE d == CookieOf(c.user, RefreshedClaims(c))
  <2>2. c \in SessionClaims
    BY <2>1
  <2>3. d \in SessionClaims /\ Earned(d)
    BY <2>2, Vocabulary DEF CookieOf, RefreshedClaims, SessionClaims, Earned
  <2>4. UNCHANGED linked
    BY <1>4 DEF RefreshSignIn
  <2> QED
    BY <2>1, <2>3, <2>4 DEF Earned
<1>5. CASE \E b \in Browser : LeaveAccountPage(b)
  BY <1>5 DEF LeaveAccountPage, Earned
<1>6. CASE RestartPages
  BY <1>6 DEF RestartPages, Earned
<1> QED
  BY <1>1, <1>2, <1>3, <1>4, <1>5, <1>6 DEF Elsewhere

\* Flows and web sessions that do not change keep what was shown of them while
\* accounts become linked.
LEMMA UnchangedFlowsAndWeb ==
  ASSUME StepUpInv, SessionsTypeOK', linked \subseteq linked',
         \A b \in Browser : Earned(cookie[b])', UNCHANGED <<flow, web>>
  PROVE  StepUpInv'
  BY DEF StepUpInv, TypeOK, FlowsHaveBrowsers, CookiesEarned, CodesAreHonoured,
         StepUpIsHonoured, Earned, Satisfies, AuthenticatedWithPasskeys,
         AuthenticatedWithMfa

LEMMA StepUpInit == Init => StepUpInv
  BY NoCookieEarned DEF Init, SessionsInit, StepUpInv, TypeOK, SessionsTypeOK,
     FlowRecord, WebSession, IdleFlow, NoWebSession, Acr, FlowsHaveBrowsers,
     CookiesEarned, CodesAreHonoured, StepUpIsHonoured

\* One flow moves to a state g and nothing else but the sessions changes.
LEMMA FlowMoves ==
  ASSUME StepUpInv, SessionsTypeOK', linked \subseteq linked',
         \A b \in Browser : Earned(cookie[b])', UNCHANGED web,
         NEW f \in Flow, NEW g \in FlowRecord,
         flow' = [flow EXCEPT ![f] = g],
         g.step # "idle" => g.browser \in Browser,
         Earned(g.claims),
         g.step = "code" => Satisfies(g.claims, g.acr)
  PROVE  StepUpInv'
<1>1. \A e \in Flow : flow'[e] = IF e = f THEN g ELSE flow[e]
  BY DEF StepUpInv, TypeOK
<1>2. TypeOK'
  BY DEF StepUpInv, TypeOK
<1>3. FlowsHaveBrowsers' /\ CodesAreHonoured'
  BY <1>1 DEF StepUpInv, FlowsHaveBrowsers, CodesAreHonoured, Satisfies,
     AuthenticatedWithPasskeys, AuthenticatedWithMfa
<1>4. CookiesEarned'
  BY <1>1 DEF StepUpInv, CookiesEarned, Earned
<1>5. StepUpIsHonoured'
  BY DEF StepUpInv, StepUpIsHonoured, AuthenticatedWithPasskeys, AuthenticatedWithMfa
<1> QED
  BY <1>2, <1>3, <1>4, <1>5 DEF StepUpInv

\* authorize hands out a code only for claims that satisfy the acr.
LEMMA NoLoginMeansSatisfied ==
  ASSUME NEW acr, NEW c, ~LoginRequired(acr, c)
  PROVE  Satisfies(c, acr)
  BY DEF LoginRequired, Satisfies

LEMMA StepUpNext == StepUpInv /\ [Next]_vars => StepUpInv'
<1> SUFFICES ASSUME StepUpInv, [Next]_vars PROVE StepUpInv'
  OBVIOUS
<1> USE DEF StepUpInv, TypeOK, SessionsTypeOK
<1>1. CASE UNCHANGED vars
  <2>1. SessionsTypeOK' /\ linked \subseteq linked' /\ \A b \in Browser : Earned(cookie[b])'
    BY <1>1 DEF vars, sessionVars, CookiesEarned, Earned
  <2> QED
    BY <1>1, <2>1, UnchangedFlowsAndWeb DEF vars
<1>2. CASE Elsewhere
  <2>1. UNCHANGED <<flow, web>>
    BY <1>2 DEF Elsewhere
  <2> QED
    BY <1>2, <2>1, ElsewhereKeepsSessions, UnchangedFlowsAndWeb
<1>3. ASSUME UNCHANGED sessionVars
      PROVE  SessionsTypeOK' /\ linked \subseteq linked' /\ \A b \in Browser : Earned(cookie[b])'
  BY <1>3 DEF sessionVars, CookiesEarned, Earned
<1>4. ASSUME NEW b \in Browser, NEW f \in Flow, NEW acr \in Acr, Challenge(b, f, acr)
      PROVE  StepUpInv'
  <2> DEFINE g == [step |-> "pushed", browser |-> b, acr |-> acr, claims |-> NoCookie]
  <2>1. g \in FlowRecord
    BY NoCookieEarned DEF FlowRecord, Acr
  <2>2. flow' = [flow EXCEPT ![f] = g] /\ UNCHANGED <<sessionVars, web>>
    BY <1>4 DEF Challenge
  <2> QED
    BY <1>3, <2>1, <2>2, NoCookieEarned, FlowMoves
<1>5. ASSUME NEW b \in Browser, WebLogout(b) \/ Logout(b)
      PROVE  StepUpInv'
  <2>1. SessionsTypeOK' /\ UNCHANGED <<linked, flow>> /\ \A a \in Browser : Earned(cookie[a])'
    BY <1>5, NoCookieEarned DEF WebLogout, Logout, SignOut, sessionVars, CookiesEarned, Earned
  <2>2. web' \in {web, [web EXCEPT ![b] = NoWebSession]}
    BY <1>5 DEF WebLogout, Logout
  <2>3. NoWebSession \in WebSession
    BY NoCookieEarned DEF NoWebSession, WebSession, Acr
  <2>4. \A a \in Browser : Earned(web[a].claims)'
    BY <2>1, <2>2, NoCookieEarned DEF NoWebSession, CookiesEarned, Earned
  <2>5. StepUpIsHonoured'
    BY <2>2 DEF NoWebSession, StepUpIsHonoured, AuthenticatedWithPasskeys, AuthenticatedWithMfa
  <2>6. TypeOK' /\ FlowsHaveBrowsers'
    BY <2>1, <2>2, <2>3 DEF FlowsHaveBrowsers
  <2>7. CodesAreHonoured'
    BY <2>1 DEF CodesAreHonoured, Satisfies, AuthenticatedWithPasskeys, AuthenticatedWithMfa
  <2>8. CookiesEarned'
    BY <2>1, <2>4 DEF CookiesEarned, Earned
  <2> QED
    BY <2>5, <2>6, <2>7, <2>8
<1>6. ASSUME NEW f \in Flow, Authorize(f)
      PROVE  StepUpInv'
  <2> DEFINE c     == cookie[flow[f].browser]
             again == LoginRequired(flow[f].acr, c)
             s     == IF again THEN "login" ELSE "code"
             k     == IF again THEN NoCookie ELSE c
             g     == [flow[f] EXCEPT !.step = s, !.claims = k]
  <2>1. flow[f].step = "pushed" /\ UNCHANGED <<sessionVars, web>>
    BY <1>6 DEF Authorize
  <2>2. flow[f].browser \in Browser /\ c \in SessionClaims /\ Earned(c)
    BY <2>1 DEF FlowsHaveBrowsers, CookiesEarned
  <2>3. k \in SessionClaims /\ Earned(k)
    BY <2>2, NoCookieEarned
  <2>4. flow' = [flow EXCEPT ![f] = g]
    BY <1>6 DEF Authorize
  <2>5. s = "code" => Satisfies(k, flow[f].acr)
    BY NoLoginMeansSatisfied
  <2>6. s \in {"login", "code"}
    OBVIOUS
  <2> HIDE DEF c, again, s, k
  <2>7. g \in FlowRecord
    BY <2>3, <2>6 DEF FlowRecord
  <2>8. g.step = s /\ g.claims = k /\ g.browser = flow[f].browser /\ g.acr = flow[f].acr
    BY DEF FlowRecord
  <2> HIDE DEF g
  <2> QED
    BY <1>3, <2>1, <2>2, <2>3, <2>4, <2>5, <2>7, <2>8, FlowMoves
<1>7. ASSUME NEW f \in Flow, SignInForFlow(f) \/ ReturnToAuthorize(f)
      PROVE  StepUpInv'
  <2> DEFINE g == [flow[f] EXCEPT !.step = "pushed"]
  <2>1. /\ flow[f].step = "login"
        /\ flow' = [flow EXCEPT ![f] = g]
        /\ UNCHANGED web
    BY <1>7 DEF SignInForFlow, ReturnToAuthorize
  <2>2. flow[f].browser \in Browser /\ g \in FlowRecord /\ g.browser = flow[f].browser
    BY <2>1 DEF FlowsHaveBrowsers, FlowRecord
  <2>3. g.claims = flow[f].claims /\ g.step = "pushed"
    BY DEF FlowRecord
  <2>4. Earned(g.claims)
    BY <2>3 DEF CookiesEarned
  <2>5. SessionsTypeOK' /\ linked \subseteq linked' /\ \A b \in Browser : Earned(cookie[b])'
    <3>1. CASE SignInForFlow(f)
      BY <2>2, <3>1, SignInsEarned DEF SignInForFlow, CookiesEarned, Earned
    <3>2. CASE ReturnToAuthorize(f)
      BY <1>3, <3>2 DEF ReturnToAuthorize
    <3> QED
      BY <1>7, <3>1, <3>2
  <2> HIDE DEF g
  <2> QED
    BY <2>1, <2>2, <2>3, <2>4, <2>5, FlowMoves
<1>8. ASSUME NEW f \in Flow, FlowEnds(f)
      PROVE  StepUpInv'
  <2>1. IdleFlow \in FlowRecord /\ Earned(IdleFlow.claims)
    BY NoCookieEarned DEF IdleFlow, FlowRecord, Acr
  <2>2. flow' = [flow EXCEPT ![f] = IdleFlow] /\ UNCHANGED <<sessionVars, web>>
    BY <1>8 DEF FlowEnds
  <2>3. IdleFlow.step = "idle"
    BY DEF IdleFlow
  <2> QED
    BY <1>3, <2>1, <2>2, <2>3, FlowMoves
<1>9. ASSUME NEW f \in Flow, Redeem(f)
      PROVE  StepUpInv'
  <2> DEFINE b == flow[f].browser
             w == [signedIn |-> TRUE, claims |-> flow[f].claims, acr |-> flow[f].acr]
  <2>1. /\ flow[f].step = "code"
        /\ web' = [web EXCEPT ![b] = w]
        /\ flow' = [flow EXCEPT ![f] = IdleFlow]
        /\ UNCHANGED sessionVars
    BY <1>9 DEF Redeem
  <2>2. IdleFlow \in FlowRecord /\ Earned(IdleFlow.claims)
    BY NoCookieEarned DEF IdleFlow, FlowRecord, Acr
  <2>3. w \in WebSession /\ Earned(w.claims) /\ Satisfies(w.claims, w.acr)
    BY <2>1 DEF WebSession, FlowRecord, CookiesEarned, CodesAreHonoured
  <2>4. TypeOK'
    BY <1>3, <2>1, <2>2, <2>3
  <2>5. FlowsHaveBrowsers' /\ CodesAreHonoured'
    BY <2>1 DEF IdleFlow, FlowsHaveBrowsers, CodesAreHonoured, Satisfies,
       AuthenticatedWithPasskeys, AuthenticatedWithMfa
  <2> HIDE DEF w
  <2>6. CookiesEarned'
    BY <1>3, <2>1, <2>2, <2>3 DEF CookiesEarned, Earned
  <2>7. StepUpIsHonoured'
    BY <2>1, <2>3 DEF StepUpIsHonoured, Satisfies, AuthenticatedWithPasskeys, AuthenticatedWithMfa
  <2> QED
    BY <2>4, <2>5, <2>6, <2>7
<1> QED
  BY <1>1, <1>2, <1>4, <1>5, <1>6, <1>7, <1>8, <1>9 DEF Next

LEMMA StepUpInvariant == Spec => []StepUpInv
  BY StepUpInit, StepUpNext, PTL DEF Spec

\* Sessions, flows and tokens keep their types, for any number of accounts and tabs
\* (the cookies of SignInSessions, WebSession and the flows of the client).
THEOREM StepUpTypes == Spec => []TypeOK
<1>1. StepUpInv => TypeOK
  BY DEF StepUpInv
<1> QED
  BY <1>1, StepUpInvariant, PTL

\* For any number of accounts, browsers and flows, a token the weather API answers
\* with a forecast was issued to a linked account that had signed in with a
\* passkey: the levels the API looks at (LoaHandler.cs, LoiHandler.cs) say what
\* they are meant to say.
THEOREM ForecastsAreEarned == Spec => []ForecastIsEarned
<1>1. StepUpInv => ForecastIsEarned
  BY DEF StepUpInv, CookiesEarned, Earned, ForecastIsEarned, Forecast, Insufficient,
     LoaHandler, LoiHandler, AuthenticatedWithPasskeys
<1> QED
  BY <1>1, StepUpInvariant, PTL

\* Tokens that came from a step-up say that the requested method was used, for any
\* number of tabs and whatever happened to the session in between
\* (StepUpInteractionResponseGenerator.cs).
THEOREM StepUpsAreHonoured == Spec => []StepUpIsHonoured
<1>1. StepUpInv => StepUpIsHonoured
  BY DEF StepUpInv
<1> QED
  BY <1>1, StepUpInvariant, PTL

================================================================================
