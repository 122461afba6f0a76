------------------------------ MODULE SecondFactor ------------------------------
(***************************************************************************)
(* What the second factor of an account promises, without pages, requests  *)
(* or saves that are lost: a flag that a proven key switches on, a key     *)
(* that only changes while the flag is off, and recovery codes that are    *)
(* made while it is on and die one by one or all together.                 *)
(***************************************************************************)
CONSTANTS
  Key,
  Code,
  CodeSets,     \* the sets of codes that are made at a time
  NoKey         \* the key of an account that never had one

VARIABLES
  factor,       \* the second factor: [twoFactor, key, codes]
  proven,       \* the keys the user has entered a code of
  retired       \* the recovery codes that were redeemed or replaced

factorVars == <<factor, proven, retired>>

FactorInit ==
  /\ factor = [twoFactor |-> FALSE, key |-> NoKey, codes |-> {}]
  /\ proven = {}
  /\ retired = {}

\* The user enters a code of the account's key.
ProveKey ==
  /\ factor.key # NoKey
  /\ proven' = proven \union {factor.key}
  /\ UNCHANGED <<factor, retired>>

SwitchOn ==
  /\ factor.key \in proven
  /\ factor' = [factor EXCEPT !.twoFactor = TRUE]
  /\ UNCHANGED <<proven, retired>>

SwitchOff ==
  /\ factor' = [factor EXCEPT !.twoFactor = FALSE]
  /\ UNCHANGED <<proven, retired>>

\* A first or another key, which has to be proven in its turn.
ChangeKey(k) ==
  /\ ~factor.twoFactor
  /\ k \in Key \ (proven \union {factor.key})
  /\ factor' = [factor EXCEPT !.key = k]
  /\ UNCHANGED <<proven, retired>>

\* A set of codes nobody has seen; those it replaces die.
ReplaceCodes(new) ==
  /\ factor.twoFactor
  /\ new \intersect (retired \union factor.codes) = {}
  /\ factor' = [factor EXCEPT !.codes = new]
  /\ retired' = retired \union factor.codes
  /\ UNCHANGED proven

\* Exactly one code dies when it is redeemed.
RedeemCode(c) ==
  /\ c \in factor.codes
  /\ factor' = [factor EXCEPT !.codes = @ \ {c}]
  /\ retired' = retired \union {c}
  /\ UNCHANGED proven

FactorNext ==
  \/ ProveKey
  \/ SwitchOn
  \/ SwitchOff
  \/ \E k \in Key : ChangeKey(k)
  \/ \E new \in CodeSets : ReplaceCodes(new)
  \/ \E c \in Code : RedeemCode(c)

FactorSpec == FactorInit /\ [][FactorNext]_factorVars
================================================================================
