------------------------ MODULE IdentityLinkRefinement ------------------------
(***************************************************************************)
(* SwiyuIdentityLink implements LinkRegistry.  A person has proven their   *)
(* identity once the verifier has been shown their credential, for         *)
(* whichever page: the server does not remember which one asked.  The      *)
(* links are the rows of the table, and a browser is identified when its   *)
(* cookie says loi.400.                                                    *)
(***************************************************************************)
EXTENDS SwiyuIdentityLink

ProvenPersons ==
  {p \in Person : \E v \in Verification : Presented(v, p)}

Links ==
  {[id |-> row.Id, person |-> row.person, user |-> row.UserId] : row \in swiyuIdentity}

Identified ==
  [b \in Browser |->
     IF session[b].loi = LOI_400
     THEN [person |-> session[b].person, user |-> session[b].user]
     ELSE [person |-> None, user |-> None]]

Registry == INSTANCE LinkRegistry
  WITH Exclusive  <- FALSE,
       Nobody     <- [person |-> None, user |-> None],
       proven     <- ProvenPersons,
       links      <- Links,
       identified <- Identified

ExclusiveRegistry == INSTANCE LinkRegistry
  WITH Exclusive  <- TRUE,
       Nobody     <- [person |-> None, user |-> None],
       proven     <- ProvenPersons,
       links      <- Links,
       identified <- Identified

\* However many requests run at once, the pages implement a registry of proven
\* links in which only linked accounts sign in as identified persons.
ImplementsRegistry == Registry!RegistrySpec

\* With one request at a time they implement the exclusive registry the error
\* text of Register.cshtml.cs:156 describes: a person is linked once.
ImplementsExclusiveRegistry == ExclusiveRegistry!RegistrySpec
================================================================================
