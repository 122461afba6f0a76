-------------------------------- MODULE MCPasskeys --------------------------------
(***************************************************************************)
(* Model-checking instances of PasskeyPages.                               *)
(***************************************************************************)
EXTENDS PasskeyPages, TLC

\* Flows, accounts and passkeys are only compared for equality.
PasskeySymmetry ==
  Permutations(Flow) \union Permutations(Account) \union Permutations(Credential)

================================================================================
