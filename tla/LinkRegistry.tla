------------------------------ MODULE LinkRegistry ------------------------------
(***************************************************************************)
(* What linking accounts to swiyu identities promises, without pages,      *)
(* requests or a database: a registry of links that only grows, each       *)
(* justified by a proof of the person's identity, and browsers that are    *)
(* identified only as the person and the account of one of the links.      *)
(***************************************************************************)
CONSTANTS
  Person,
  User,
  Browser,
  Exclusive,   \* a Boolean: a person has at most one link
  Nobody       \* the identity of a browser that is not identified

VARIABLES
  proven,      \* the people who have proven their identity
  links,       \* the registry: records [id, person, user]
  identified   \* [person, user] for each browser, or Nobody

registryVars == <<proven, links, identified>>

RegistryInit ==
  /\ proven = {}
  /\ links = {}
  /\ identified = [b \in Browser |-> Nobody]

\* Person p proves their identity, to be linked or to sign in.
Prove(p) ==
  /\ proven' = proven \union {p}
  /\ UNCHANGED <<links, identified>>

\* Link l is added: a proven person is linked to an account.
Link(l) ==
  /\ l.person \in proven
  /\ l.user \in User
  /\ Exclusive => \A k \in links : k.person # l.person
  /\ links' = links \union {l}
  /\ UNCHANGED <<proven, identified>>

\* Browser b signs in as the account and the person of a link.
Identify(b, l) ==
  /\ l \in links
  /\ identified' = [identified EXCEPT ![b] = [person |-> l.person, user |-> l.user]]
  /\ UNCHANGED <<proven, links>>

\* Browser b is no longer identified.
Forget(b) ==
  /\ identified' = [identified EXCEPT ![b] = Nobody]
  /\ UNCHANGED <<proven, links>>

RegistryNext ==
  \/ \E p \in Person : Prove(p)
  \/ \E l \in links' \ links : Link(l)
  \/ \E b \in Browser : Forget(b) \/ \E l \in links : Identify(b, l)

RegistrySpec == RegistryInit /\ [][RegistryNext]_registryVars
================================================================================
