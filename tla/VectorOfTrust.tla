------------------------------ MODULE VectorOfTrust ------------------------------
(***************************************************************************)
(* RFC8485.cs: the vector of trust computed from the level of              *)
(* identification and the authentication methods.  A vector is a record    *)
(* of its four components; credential usage is a sequence, as the text     *)
(* form "P3.Cf.Cc.Ma.Ac" allows several.                                   *)
(***************************************************************************)
EXTENDS Naturals, Sequences, SequencesExt

CONSTANT MaxMethods    \* bound on the number of methods of one sign-in

Levels == {"loi.500", "loi.400", "loi.300", "loi.200", "loi.100", "other"}

\* Amr.cs: one value of each class the code distinguishes, both values that
\* stand for a passkey, and two it does not mention.
Methods == {"pop", "hwk", "swk", "pwd", "otp", "face", "mfa", "mca", "wia"}

\* BuildVoT, both overloads.
BuildVoT(p, c, m, a) == [P |-> p, C |-> c, M |-> m, A |-> a]

IdentityProofing(loi) ==
  CASE loi \in {"loi.500", "loi.400"} -> "P3"
    [] loi = "loi.300"                -> "P2"
    [] OTHER                          -> "P1"

\* Mutant of IdentityProofingOfMany: the copy of the table knows no loi.400.
IdentityProofingOfManyOld(loi) ==
  CASE loi = "loi.500"              -> "P3"
    [] loi \in {"loi.300", "loi.200"} -> "P2"
    [] OTHER                        -> "P1"

\* The array overload has a table of its own.
IdentityProofingOfMany(loi) ==
  CASE loi \in {"loi.500", "loi.400"} -> "P3"
    [] loi \in {"loi.300", "loi.200"} -> "P2"
    [] OTHER                          -> "P1"


CredentialUsage(amr) ==
  CASE amr \in {"pop", "hwk", "mfa"} -> "Cf"
    [] amr = "swk"                   -> "Ce"
    [] amr = "face"                  -> "Cg"
    [] OTHER                         -> "Cc"

CredentialManagement(loi) == IF loi \in {"loi.500", "loi.400"} THEN "Mc" ELSE "Ma"

\* The positions at which an element occurs for the first time, and how many of
\* them there are up to position i.
Firsts(s)  == {i \in DOMAIN s : \A j \in 1..(i - 1) : s[j] # s[i]}
Rank(s, i) == Cardinality({j \in Firsts(s) : j <= i})

\* Linq's Distinct: the first occurrence of each element, in order.
Distinct(s) ==
  [k \in 1..Cardinality(Firsts(s)) |-> s[CHOOSE i \in Firsts(s) : Rank(s, i) = k]]

\* BuildVoTFromLoiLoaAmr(loi, loa, amr); loa is not used.
VoTOfOne(loi, amr) ==
  BuildVoT(IdentityProofing(loi), <<CredentialUsage(amr)>>, CredentialManagement(loi), "Ac")

\* BuildVoTFromLoiLoaAmr(loi, loa, amrValues).
VoTOfMany(loi, amrs) ==
  BuildVoT(IdentityProofingOfMany(loi),
           Distinct([i \in DOMAIN amrs |-> CredentialUsage(amrs[i])]),
           CredentialManagement(loi), "Ac")

--------------------------------------------------------------------------------
(***************************************************************************)
(* A sign-in: at some level, one method after the other.                   *)
(***************************************************************************)
VARIABLES
  loi,     \* the level of identification
  amrs     \* the methods used so far, in order

vars == <<loi, amrs>>

Init == loi \in Levels /\ amrs = << >>

Authenticate(amr) ==
  /\ Len(amrs) < MaxMethods
  /\ amrs' = Append(amrs, amr)
  /\ UNCHANGED loi

Next == \E amr \in Methods : Authenticate(amr)

Spec == Init /\ [][Next]_vars

vot == VoTOfMany(loi, amrs)

--------------------------------------------------------------------------------
(***************************************************************************)
(* Properties                                                              *)
(***************************************************************************)

\* One more method adds its component at the end or changes nothing: the vector
\* never loses, repeats or reorders what earlier methods gave, so that readers may
\* compare vectors by prefix (RFC8485.cs, the Select and Distinct of the array
\* overload).
MethodsAccumulate ==
  [][LET c == CredentialUsage(amrs'[Len(amrs')]) IN
       vot'.C = IF Contains(vot.C, c) THEN vot.C ELSE Append(vot.C, c)]_vars

\* The two overloads agree on a single method, at every level but loi.200, where
\* their copies of the table differ (RFC8485.cs:206 and :262).
OverloadsAgree ==
  Len(amrs) = 1 /\ loi # "loi.200" => vot = VoTOfOne(loi, amrs[1])

================================================================================
