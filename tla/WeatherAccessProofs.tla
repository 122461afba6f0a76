-------------------------- MODULE WeatherAccessProofs --------------------------
(***************************************************************************)
(* From the wallet to the weather API: the identity provider and the       *)
(* weather application together.  The sessions on which the authorization  *)
(* flows of StepUpAuthorization rely are the cookies that the pages of     *)
(* SwiyuIdentityLink leave in the browsers.  A step of the system is a     *)
(* step of the pages, of the flows, or of both at once, when the user      *)
(* signs in at the page a flow was sent to.  What is proved of the pages   *)
(* and of the flows, each on its own, holds of what they make together.    *)
(***************************************************************************)
EXTENDS IdentityLinkRefinementProofs

CONSTANTS
  Flow,             \* authorization flows that are open at the same time
  MaxAccountPages   \* bound on the account pages a browser has in progress

VARIABLES
  flow,    \* the authorization flows
  web      \* the session of each browser with the web application

Access == INSTANCE StepUpAuthorizationProofs
  WITH linked   <- LinkedAccounts,
       cookie   <- CookieClaims,
       managing <- ManagedClaims

SystemSpec == Spec /\ Access!Spec

\* Whoever gets a weather forecast has an account that is tied to a person whose
\* credential a wallet presented, to some verification, and has signed in to it
\* with a passkey: the two levels that LoaHandler.cs and LoiHandler.cs compare
\* stand for this, and for no more (the verification may have been asked for by
\* another page or browser).
ForecastIsProven ==
  \A b \in Browser :
    Access!Forecast(b) =>
      /\ web[b].claims.amr = Pop
      /\ \E row \in RowsOfUser(web[b].claims.user) : Presented(row.via, row.person)

\* No forecast without proof: for any number of accounts, wallets, browsers, tabs
\* and requests, a token the weather API answers belongs to an account that has a
\* row written for a presented credential, and to a sign-in with a passkey.
THEOREM ForecastsAreProven == SystemSpec => []ForecastIsProven
  <1>1. Access!Spec => []Access!ForecastIsEarned
    BY Access!ForecastsAreEarned, NoneIsNull
  <1>2. Access!ForecastIsEarned /\ RowsAreProven => ForecastIsProven
    <2> SUFFICES ASSUME Access!ForecastIsEarned, RowsAreProven, NEW b \in Browser, Access!Forecast(b)
                 PROVE  /\ web[b].claims.amr = Pop
                        /\ \E row \in RowsOfUser(web[b].claims.user) :
                             Presented(row.via, row.person)
      BY DEF ForecastIsProven
    <2>1. web[b].claims.user \in LinkedAccounts /\ web[b].claims.amr = Pop
      BY DEF Access!ForecastIsEarned, Access!AuthenticatedWithPasskeys, Access!Pop, Pop
    <2>2. \E row \in swiyuIdentity : row.UserId = web[b].claims.user
      BY <2>1 DEF LinkedAccounts
    <2> QED
      BY <2>1, <2>2 DEF RowsAreProven, RowsOfUser
  <1> QED
    BY <1>1, <1>2, RowsProven, PTL DEF SystemSpec
================================================================================
