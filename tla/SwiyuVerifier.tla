----------------------------- MODULE SwiyuVerifier -----------------------------
(***************************************************************************)
(* The swiyu generic verifier, a container the application talks to over   *)
(* HTTP (it is not part of the repository).  It is modelled from how       *)
(* VerificationService.cs uses it: a verification is created, the user's   *)
(* wallet answers it or not, and GET .../verifications/{id} reports its    *)
(* state and, after success, the credential data of the person who         *)
(* presented.                                                              *)
(***************************************************************************)
EXTENDS AssuranceClaims

CONSTANTS
  Person,         \* what identifies a person: names, birth date and place
  Verification    \* verification ids; a bound on how many are ever created

ASSUME NoneIsNoPerson == None \notin Person

VARIABLE
  verification    \* the verifier's record of each verification

VerificationState == {"none", "PENDING", "SUCCESS", "FAILED", "removed"}

\* claims is the person whose credential was presented; it stays None when the
\* wallet's answer has no usable credential_subject_data.
VerificationRecord ==
  [state : VerificationState, claims : Person \union {None}]

VerifierTypeOK == verification \in [Verification -> VerificationRecord]

VerifierInit ==
  verification = [v \in Verification |-> [state |-> "none", claims |-> None]]

\* POST .../verifications: a new verification waits for a wallet.
CreateVerification(v) ==
  /\ verification[v].state = "none"
  /\ verification' = [verification EXCEPT ![v].state = "PENDING"]

\* A wallet presents a credential, of person p or (None) of another shape.
WalletPresents(v, p) ==
  /\ verification[v].state = "PENDING"
  /\ verification' = [verification EXCEPT ![v] = [state |-> "SUCCESS", claims |-> p]]

\* The holder declines or the presentation does not verify.
WalletFails(v) ==
  /\ verification[v].state = "PENDING"
  /\ verification' = [verification EXCEPT ![v].state = "FAILED"]

\* The verifier drops a verification; asking for it is an HTTP error from then
\* on.  claims is kept: it is the history the invariants speak about.
VerifierRemoves(v) ==
  /\ verification[v].state \in {"PENDING", "SUCCESS", "FAILED"}
  /\ verification' = [verification EXCEPT ![v].state = "removed"]

VerifierNext ==
  \E v \in Verification :
    \/ \E p \in Person \union {None} : WalletPresents(v, p)
    \/ WalletFails(v)
    \/ VerifierRemoves(v)

\* Somebody presented person p's credential to verification v.
Presented(v, p) == p # None /\ verification[v].claims = p
================================================================================
