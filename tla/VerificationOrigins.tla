-------------------------- MODULE VerificationOrigins --------------------------
(***************************************************************************)
(* SwiyuIdentityLink with a memory the code does not have: for which page  *)
(* and which browser each verification was created.  The history variable  *)
(* constrains nothing; it is there to state what the result of a           *)
(* verification should be good for.                                        *)
(***************************************************************************)
EXTENDS SwiyuIdentityLink

VARIABLE
  origin   \* the GET that created each verification

Unknown == [page |-> "none", browser |-> None]

OriginsInit ==
  /\ Init
  /\ origin = [v \in Verification |-> Unknown]

\* Both OnGets put the id of a new verification into the page they render.
OnGet ==
  \E b \in Browser, v \in Verification :
    \/ /\ RegisterOnGet(b, v)
       /\ origin' = [origin EXCEPT ![v] = [page |-> "register", browser |-> b]]
    \/ /\ LoginOnGet(b, v)
       /\ origin' = [origin EXCEPT ![v] = [page |-> "login", browser |-> b]]

\* Every other step of the pages, after which the same verifications are unknown.
OtherStep ==
  /\ Next
  /\ \A v \in Verification :
       verification[v].state = "none" => verification'[v].state = "none"
  /\ UNCHANGED origin

OriginsSpec == OriginsInit /\ [][OnGet \/ OtherStep]_<<vars, origin>>

\* A wallet session rests on a verification that a login page of that very browser
\* had asked for ("a valid result from another browser/purpose/account is
\* rejected", THREAT-MODEL.md:315).
WalletSessionIsOfItsForm ==
  \A b \in Browser :
    session[b].amr = Mca /\ session[b].loi = LOI_400 =>
      \E v \in Verification :
        /\ origin[v] = [page |-> "login", browser |-> b]
        /\ Presented(v, session[b].person)

================================================================================
