---------------------------- MODULE AssuranceClaims ----------------------------
(***************************************************************************)
(* The assurance vocabulary of the identity provider (Consts.cs, Amr.cs,   *)
(* RFC8485.cs) and the claims each kind of sign-in puts into the session   *)
(* cookie.  Everything here is a constant operator.                        *)
(***************************************************************************)

CONSTANT None   \* no user, no person, no e-mail address, no request: a null

\* Consts.cs: level of authentication
LOA_400 == "loa.400"
LOA_300 == "loa.300"
LOA_200 == "loa.200"
LOA_100 == "loa.100"

\* Consts.cs: level of identification
LOI_500 == "loi.500"
LOI_400 == "loi.400"
LOI_300 == "loi.300"
LOI_200 == "loi.200"
LOI_100 == "loi.100"

\* A claim type the session does not carry.
Absent == "absent"

Loa == {LOA_400, LOA_300, LOA_200, LOA_100, Absent}
Loi == {LOI_500, LOI_400, LOI_300, LOI_200, LOI_100, Absent}

\* Amr.cs: the values a sign-in of this application can produce.
Pop == "pop"
Mca == "mca"
Mfa == "mfa"
Pwd == "pwd"
Amr == {Pop, Mca, Mfa, Pwd, Absent}

(***************************************************************************)
(* The claims a sign-in adds to the principal: loa, loi, amr and, when the *)
(* account is linked, the person's name, birth date and birth place, which *)
(* are one value here (person).  The vot claim is a function of loi, loa   *)
(* and amr (VectorOfTrust.tla) and is left out of the session.             *)
(***************************************************************************)

\* Mutant of LocalLoginClaims: the two string arguments are swapped.
LocalLoginClaimsSwapped(person, loa, amr) ==
  [loa    |-> amr,
   loi    |-> IF person = None THEN LOI_100 ELSE LOI_400,
   amr    |-> loa,
   person |-> person]

\* GetAdditionalClaims of the login page: password and passkey sign-in.
LocalLoginClaims(person, loa, amr) ==
  [loa    |-> loa,
   loi    |-> IF person = None THEN LOI_100 ELSE LOI_400,
   amr    |-> amr,
   person |-> person]

\* GetAdditionalClaims of the swiyu login page.
SwiyuLoginClaims(person) ==
  [loa |-> LOA_200, loi |-> LOI_400, amr |-> Mca, person |-> person]

\* The claims given to a freshly registered account; it sets no amr claim and
\* the identity server supplies pwd.
NewAccountClaims ==
  [loa |-> LOA_100, loi |-> LOI_100, amr |-> Pwd, person |-> None]

\* TwoFactorAuthenticatorSignInAsync and TwoFactorRecoveryCodeSignInAsync know
\* nothing of levels: the principal has the method only.
SecondFactorClaims ==
  [loa |-> Absent, loi |-> Absent, amr |-> Mfa, person |-> None]

\* RefreshSignInAsync builds the principal anew from the account and carries
\* over nothing but the authentication method.
RefreshedClaims(session) ==
  [loa |-> Absent, loi |-> Absent, amr |-> session.amr, person |-> None]
================================================================================
