------------------------- MODULE SecondFactorRefinement -------------------------
(***************************************************************************)
(* TwoFactorPages implements SecondFactor: the account in the database is  *)
(* the second factor.  What the pages read, what they decide from it and   *)
(* the saves they lose do not show.                                        *)
(***************************************************************************)
EXTENDS TwoFactorPages

Factor == INSTANCE SecondFactor
  WITH CodeSets <- {new \in SUBSET Code : Cardinality(new) = CodesPerSet},
       NoKey    <- None,
       factor   <- account

\* Although the pages check the account one or two steps before they save it and
\* ignore that a save was lost, each save is one step of SecondFactor on the
\* account as it is: no page switches on with a key that was replaced meanwhile
\* (EnableAuthenticator.cshtml.cs:81-91), replaces a key that is in use
\* (ResetAuthenticator.cshtml.cs:46-47, EnableAuthenticator.cshtml.cs:115), makes
\* codes for a factor that is off, or brings back codes of an older set.
ImplementsSecondFactor == Factor!FactorSpec
================================================================================
