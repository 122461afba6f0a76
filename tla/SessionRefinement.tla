--------------------------- MODULE SessionRefinement ---------------------------
(***************************************************************************)
(* SwiyuIdentityLink implements SignInSessions: an account is linked when  *)
(* the table has a row for it, and the account pages in progress are the   *)
(* e-mail changes that were opened in a browser signed in to the account.  *)
(***************************************************************************)
EXTENDS SwiyuIdentityLink

ClaimsOf(s) == [user |-> s.user, loa |-> s.loa, loi |-> s.loi, amr |-> s.amr]

Refreshing(r, b) ==
  /\ request[r].pc = "setUserName"
  /\ request[r].browser = b
  /\ request[r].cookie.user = request[r].user

LinkedAccounts == {row.UserId : row \in swiyuIdentity}

CookieClaims == [b \in Browser |-> ClaimsOf(session[b])]

ManagedClaims ==
  [b \in Browser |->
     {ClaimsOf(request[r].cookie) : r \in {r \in Request : Refreshing(r, b)}}]

Sessions == INSTANCE SignInSessions
  WITH linked   <- LinkedAccounts,
       cookie   <- CookieClaims,
       managing <- ManagedClaims

\* Whatever the two swiyu pages, the account pages and the wallets do, at the same
\* time and with stale cookies, the cookies they leave in the browsers are those
\* of SignInSessions: loi.400 exactly for accounts that are linked at sign-in,
\* loa.400 only from a passkey, and neither after RefreshSignInAsync.
ImplementsSessions == Sessions!SessionsSpec
================================================================================
