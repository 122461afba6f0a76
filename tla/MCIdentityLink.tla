----------------------------- MODULE MCIdentityLink -----------------------------
(***************************************************************************)
(* Model-checking instances of SwiyuIdentityLink and of the abstract       *)
(* specifications it implements: the symmetry of the safety runs.          *)
(***************************************************************************)
EXTENDS IdentityLinkRefinement, SessionRefinement, TLC

\* Ids are only compared for equality, so any of them may be exchanged.
IdSymmetry ==
  Permutations(User) \union Permutations(Email) \union Permutations(Person)
    \union Permutations(Verification) \union Permutations(Browser)
    \union Permutations(Request)

================================================================================
