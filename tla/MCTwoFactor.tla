------------------------------- MODULE MCTwoFactor -------------------------------
(***************************************************************************)
(* Model-checking instances of TwoFactorPages and of the abstract second   *)
(* factor it implements.                                                   *)
(***************************************************************************)
EXTENDS SecondFactorRefinement, TLC

\* Keys, codes and requests are only compared for equality.
TwoFactorSymmetry ==
  Permutations(Key) \union Permutations(Code) \union Permutations(Request)

================================================================================
