------------------------------ MODULE TokenVectors ------------------------------
(***************************************************************************)
(* The vector of trust in the tokens of StepUpAuthorization.  Every sign-in *)
(* page that gives a level of identification gives the vector computed     *)
(* from it and the method, RefreshSignInAsync drops both, and              *)
(* ProfileService passes both on: the vector of a token is the one of its  *)
(* levels, and a token without a level has none.                           *)
(***************************************************************************)
EXTENDS StepUpAuthorization

\* The claims in browser b's token, as the arguments of RFC8485.cs.
Vector(b) == INSTANCE VectorOfTrust
  WITH MaxMethods <- 1,
       loi        <- web[b].claims.loi,
       amrs       <- <<web[b].claims.amr>>

HasVector(b) == web[b].claims.loi # Absent

TokenVector(b) == Vector(b)!VoTOfOne(web[b].claims.loi, web[b].claims.amr)

\* A token says the same whichever overload of BuildVoTFromLoiLoaAmr computes its
\* vector: their copies of the table differ for loi.200 (RFC8485.cs:206 and :262),
\* and no sign-in, refresh or switch of accounts ever puts that level into a token.
TokenVectorsAgree ==
  \A b \in Browser : HasVector(b) => Vector(b)!vot = TokenVector(b)


================================================================================
