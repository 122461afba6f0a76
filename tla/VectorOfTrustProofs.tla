-------------------------- MODULE VectorOfTrustProofs --------------------------
(***************************************************************************)
(* What holds of the vector of trust for every number of methods.  Its     *)
(* usages are the first occurrences in a sequence that grows at the end,   *)
(* so the argument goes along with the sign-in: each method adds one more  *)
(* first occurrence, behind all the others, or none.                       *)
(***************************************************************************)
EXTENDS VectorOfTrust, FiniteSetTheorems, TLAPS

(***************************************************************************)
(* First occurrences                                                       *)
(***************************************************************************)

LEMMA FirstsArePositions ==
  ASSUME NEW T, NEW s \in Seq(T)
  PROVE  /\ Firsts(s) \subseteq 1..Len(s)
         /\ IsFiniteSet(Firsts(s))
         /\ Cardinality(Firsts(s)) \in Nat
  <1>1. Firsts(s) \in SUBSET (1..Len(s)) /\ Len(s) \in Nat
    BY DEF Firsts
  <1>2. IsFiniteSet(1..Len(s))
    BY <1>1, FS_Interval
  <1>3. IsFiniteSet(Firsts(s))
    BY <1>1, <1>2, FS_Subset
  <1> QED
    BY <1>1, <1>3, FS_CardinalityType

\* A first occurrence has a rank that no other one has.
LEMMA RanksDiffer ==
  ASSUME NEW T, NEW s \in Seq(T), NEW i \in Firsts(s), NEW j \in Firsts(s)
  PROVE  /\ Rank(s, i) \in 1..Cardinality(Firsts(s))
         /\ Rank(s, i) = Rank(s, j) => i = j
  <1> DEFINE F == Firsts(s)
             U(k) == {l \in F : l <= k}
  <1>1. F \subseteq Nat /\ IsFiniteSet(F) /\ Cardinality(F) \in Nat
    BY FirstsArePositions
  <1>2. \A k \in F : /\ U(k) \in SUBSET F
                     /\ k \in U(k)
                     /\ Rank(s, k) = Cardinality(U(k))
    BY <1>1 DEF Rank
  <1> HIDE DEF F
  <1>3. \A k \in F : IsFiniteSet(U(k)) /\ Cardinality(U(k)) <= Cardinality(F)
    <2> HIDE DEF U
    <2> QED
      BY <1>1, <1>2, FS_Subset
  <1>4. \A k \in F : Cardinality(U(k)) \in Nat /\ Cardinality(U(k)) # 0
    <2> HIDE DEF U
    <2> QED
      BY <1>2, <1>3, FS_CardinalityType, FS_EmptySet
  <1>5. ASSUME NEW k \in F, NEW l \in F, k < l
        PROVE  Rank(s, k) # Rank(s, l)
    <2>1. U(k) \in SUBSET U(l) /\ l \notin U(k) /\ l \in U(l)
      <3>1. k \in Nat /\ l \in Nat /\ ~(l <= k) /\ l <= l
        BY <1>1, <1>5
      <3>2. \A x \in F : x <= k => x <= l
        BY <1>1, <1>5, <3>1
      <3> QED
        BY <3>1, <3>2
    <2> HIDE DEF U
    <2>2. U(k) # U(l)
      BY <2>1
    <2> QED
      BY <1>2, <1>3, <2>1, <2>2, FS_Subset
  <1>6. i \in F /\ j \in F
    BY DEF F
  <1>7. Rank(s, i) \in 1..Cardinality(F)
    <2> HIDE DEF U
    <2> QED
      BY <1>1, <1>2, <1>3, <1>4, <1>6
  <1>8. i < j \/ j < i \/ i = j
    BY <1>1, <1>6
  <1> QED
    BY <1>5, <1>6, <1>7, <1>8 DEF F

\* Every element has a first occurrence, and the ranks leave no gap.
Enumerated(s) ==
  /\ \A i \in DOMAIN s : \E f \in Firsts(s) : s[f] = s[i]
  /\ \A k \in 1..Cardinality(Firsts(s)) : \E f \in Firsts(s) : Rank(s, f) = k

\* Distinct puts each first occurrence at the place of its rank.
LEMMA DistinctPlaces ==
  ASSUME NEW T, NEW s \in Seq(T), Enumerated(s)
  PROVE  /\ Distinct(s) \in Seq(T)
         /\ Len(Distinct(s)) = Cardinality(Firsts(s))
         /\ \A f \in Firsts(s) : Distinct(s)[Rank(s, f)] = s[f]
         /\ \A k \in 1..Len(Distinct(s)) : \E f \in Firsts(s) : Rank(s, f) = k
  <1> DEFINE At(k) == CHOOSE i \in Firsts(s) : Rank(s, i) = k
             n == Cardinality(Firsts(s))
  <1>1. n \in Nat /\ \A f \in Firsts(s) : s[f] \in T
    BY FirstsArePositions
  <1>2. ASSUME NEW k \in 1..n
        PROVE  At(k) \in Firsts(s) /\ Rank(s, At(k)) = k
    BY DEF Enumerated
  <1>3. \A f \in Firsts(s) : Rank(s, f) \in 1..n /\ At(Rank(s, f)) = f
    BY <1>2, RanksDiffer
  <1>4. Distinct(s) = [k \in 1..n |-> s[At(k)]]
    BY DEF Distinct
  <1> HIDE DEF At, n
  <1>5. Distinct(s) \in Seq(T) /\ Len(Distinct(s)) = n
    BY <1>1, <1>2, <1>4
  <1>6. \A f \in Firsts(s) : Distinct(s)[Rank(s, f)] = s[f]
    BY <1>3, <1>4
  <1>7. \A k \in 1..n : \E f \in Firsts(s) : Rank(s, f) = k
    BY <1>2
  <1> QED
    BY <1>5, <1>6, <1>7 DEF n

LEMMA EmptyIsEnumerated == Enumerated(<< >>) /\ Firsts(<< >>) = {}
  <1>1. Firsts(<< >>) = {}
    BY DEF Firsts
  <1> QED
    BY <1>1, FS_EmptySet DEF Enumerated

\* The first occurrences after one more element.
LEMMA FirstsAppend ==
  ASSUME NEW T, NEW s \in Seq(T), NEW c \in T, Enumerated(s)
  PROVE  LET t == Append(s, c)
             n == Len(s) + 1
         IN  /\ t \in Seq(T) /\ Len(t) = n /\ t[n] = c
             /\ \A i \in DOMAIN s : t[i] = s[i]
             /\ Firsts(t) = IF \E f \in Firsts(s) : s[f] = c THEN Firsts(s) ELSE Firsts(s) \union {n}
             /\ \A f \in Firsts(s) : Rank(t, f) = Rank(s, f)
  <1> DEFINE t == Append(s, c)
             n == Len(s) + 1
  <1>1. /\ t \in Seq(T) /\ Len(t) = n /\ t[n] = c
        /\ \A i \in 1..Len(s) : t[i] = s[i]
        /\ Len(s) \in Nat
        /\ DOMAIN s = 1..Len(s) /\ DOMAIN t = 1..n
    OBVIOUS
  <1>2. Firsts(s) \subseteq 1..Len(s)
    BY FirstsArePositions
  <1> HIDE DEF t
  <1>3. \A i \in 1..Len(s) : i \in Firsts(t) <=> i \in Firsts(s)
    BY <1>1 DEF Firsts
  <1>4. n \in Firsts(t) <=> \A i \in 1..Len(s) : s[i] # c
    BY <1>1 DEF Firsts
  <1>5. (\A i \in 1..Len(s) : s[i] # c) <=> ~ \E f \in Firsts(s) : s[f] = c
    BY <1>1, <1>2 DEF Enumerated
  <1>6. Firsts(t) \subseteq 1..n
    BY <1>1, FirstsArePositions
  <1>7. Firsts(t) = IF \E f \in Firsts(s) : s[f] = c THEN Firsts(s) ELSE Firsts(s) \union {n}
    <2>1. n \notin 1..Len(s) /\ 1..n = 1..Len(s) \union {n}
      BY <1>1
    <2> HIDE DEF n
    <2>2. \A i \in Firsts(t) : i # n => i \in Firsts(s)
      BY <1>3, <1>6, <2>1
    <2>3. Firsts(s) \subseteq Firsts(t) /\ n \notin Firsts(s)
      BY <1>2, <1>3, <2>1
    <2>4. CASE \E f \in Firsts(s) : s[f] = c
      <3>1. n \notin Firsts(t)
        BY <1>4, <1>5, <2>4
      <3>2. Firsts(t) = Firsts(s)
        BY <2>2, <2>3, <3>1
      <3> QED
        BY <2>4, <3>2
    <2>5. CASE ~ \E f \in Firsts(s) : s[f] = c
      <3>1. n \in Firsts(t)
        BY <1>4, <1>5, <2>5
      <3>2. Firsts(t) = Firsts(s) \union {n}
        BY <2>2, <2>3, <3>1
      <3> QED
        BY <2>5, <3>2
    <2> QED
      BY <2>4, <2>5
  <1>8. ASSUME NEW f \in Firsts(s)
        PROVE  Rank(t, f) = Rank(s, f)
    <2>1. {j \in Firsts(t) : j <= f} = {j \in Firsts(s) : j <= f}
      BY <1>1, <1>2, <1>7
    <2> QED
      BY <2>1 DEF Rank
  <1> QED
    BY <1>1, <1>7, <1>8 DEF t

\* One more element is put at the end, unless it occurs already.
LEMMA DistinctAppend ==
  ASSUME NEW T, NEW s \in Seq(T), NEW c \in T, Enumerated(s)
  PROVE  LET t == Append(s, c) IN
         /\ Enumerated(t)
         /\ Distinct(t) = IF Contains(Distinct(s), c) THEN Distinct(s) ELSE Append(Distinct(s), c)
  <1> DEFINE t == Append(s, c)
             n == Len(s) + 1
             m == Cardinality(Firsts(s))
  <1>1. /\ t \in Seq(T) /\ Len(t) = n /\ t[n] = c
        /\ \A i \in DOMAIN s : t[i] = s[i]
        /\ Firsts(t) = IF \E f \in Firsts(s) : s[f] = c THEN Firsts(s) ELSE Firsts(s) \union {n}
        /\ \A f \in Firsts(s) : Rank(t, f) = Rank(s, f)
    BY FirstsAppend
  <1>2. /\ Firsts(s) \subseteq 1..Len(s) /\ IsFiniteSet(Firsts(s)) /\ m \in Nat /\ Len(s) \in Nat
        /\ DOMAIN s = 1..Len(s) /\ DOMAIN t = 1..n
    BY <1>1, FirstsArePositions
  <1>3. /\ Distinct(s) \in Seq(T)
        /\ Len(Distinct(s)) = m
        /\ \A f \in Firsts(s) : Rank(s, f) \in 1..m /\ Distinct(s)[Rank(s, f)] = s[f]
        /\ \A k \in 1..m : \E f \in Firsts(s) : Rank(s, f) = k
    BY DistinctPlaces, RanksDiffer
  <1>4. Contains(Distinct(s), c) <=> \E f \in Firsts(s) : s[f] = c
    BY <1>3 DEF Contains
  <1> HIDE DEF t, m
  <1>5. \A i \in DOMAIN s : \E f \in Firsts(s) : t[f] = t[i]
    BY <1>1, <1>2 DEF Enumerated
  <1>6. CASE \E f \in Firsts(s) : s[f] = c
    <2>1. Firsts(t) = Firsts(s)
      BY <1>1, <1>6
    <2>2. \A i \in DOMAIN t : \E f \in Firsts(t) : t[f] = t[i]
      <3>1. \A i \in 1..n : i \in DOMAIN s \/ i = n
        BY <1>2
      <3>2. PICK f \in Firsts(s) : s[f] = c
        BY <1>6
      <3>3. t[f] = t[n]
        BY <1>1, <1>2, <3>2
      <3> HIDE DEF n
      <3> QED
        BY <1>2, <1>5, <2>1, <3>1, <3>3
    <2>3. \A k \in 1..Cardinality(Firsts(t)) : \E f \in Firsts(t) : Rank(t, f) = k
      BY <1>1, <1>3, <2>1 DEF m
    <2>4. Enumerated(t)
      BY <2>2, <2>3 DEF Enumerated
    <2>5. /\ Distinct(t) \in Seq(T)
          /\ Len(Distinct(t)) = m
          /\ \A f \in Firsts(s) : Distinct(t)[Rank(s, f)] = s[f]
      BY <1>1, <1>2, <2>1, <2>4, DistinctPlaces DEF m
    <2>6. \A k \in 1..m : Distinct(t)[k] = Distinct(s)[k]
      BY <1>3, <2>5
    <2>7. Distinct(t) = Distinct(s)
      BY <1>2, <1>3, <2>5, <2>6
    <2> QED
      BY <1>4, <1>6, <2>4, <2>7 DEF t
  <1>7. CASE ~ \E f \in Firsts(s) : s[f] = c
    <2>1. Firsts(t) = Firsts(s) \union {n} /\ n \notin Firsts(s) /\ n \in Firsts(t)
      BY <1>1, <1>2, <1>7
    <2>2. Cardinality(Firsts(t)) = m + 1
      BY <1>2, <2>1, FS_AddElement DEF m
    <2>3. Rank(t, n) = m + 1
      <3>1. {j \in Firsts(t) : j <= n} = Firsts(t)
        BY <1>2, <2>1
      <3> QED
        BY <2>2, <3>1 DEF Rank
    <2>4. \A i \in DOMAIN t : \E f \in Firsts(t) : t[f] = t[i]
      <3>1. \A i \in 1..n : i \in DOMAIN s \/ i = n
        BY <1>2
      <3> HIDE DEF n
      <3> QED
        BY <1>2, <1>5, <2>1, <3>1
    <2>5. \A k \in 1..(m + 1) : \E f \in Firsts(t) : Rank(t, f) = k
      BY <1>1, <1>2, <1>3, <2>1, <2>3
    <2>6. Enumerated(t)
      BY <2>2, <2>4, <2>5 DEF Enumerated
    <2>7. /\ Distinct(t) \in Seq(T)
          /\ Len(Distinct(t)) = m + 1
          /\ \A f \in Firsts(t) : Distinct(t)[Rank(t, f)] = t[f]
      BY <1>1, <2>2, <2>6, DistinctPlaces
    <2>8. \A k \in 1..m : Distinct(t)[k] = Distinct(s)[k]
      <3> SUFFICES ASSUME NEW k \in 1..m PROVE Distinct(t)[k] = Distinct(s)[k]
        OBVIOUS
      <3>1. PICK f \in Firsts(s) : Rank(s, f) = k
        BY <1>3
      <3>2. Distinct(s)[k] = s[f]
        BY <1>3, <3>1
      <3>3. Distinct(t)[k] = t[f]
        BY <1>1, <2>1, <2>7, <3>1
      <3>4. t[f] = s[f]
        BY <1>1, <1>2
      <3> QED
        BY <3>2, <3>3, <3>4
    <2>9. Distinct(t)[m + 1] = c
      BY <1>1, <2>1, <2>3, <2>7
    <2>10. Distinct(t) = Append(Distinct(s), c)
      BY <1>2, <1>3, <2>7, <2>8, <2>9
    <2> QED
      BY <1>4, <1>7, <2>6, <2>10 DEF t
  <1> QED
    BY <1>6, <1>7

(***************************************************************************)
(* The vector of a sign-in                                                 *)
(***************************************************************************)

Usages == [i \in DOMAIN amrs |-> CredentialUsage(amrs[i])]

VectorInv ==
  /\ loi \in Levels
  /\ amrs \in Seq(Methods)
  /\ Enumerated(Usages)

LEMMA UsagesTyped ==
  ASSUME VectorInv
  PROVE  /\ Usages \in Seq({"Cf", "Ce", "Cg", "Cc"})
         /\ Len(Usages) = Len(amrs)
         /\ vot.C = Distinct(Usages)
  <1>1. Len(amrs) \in Nat /\ DOMAIN amrs = 1..Len(amrs)
    BY DEF VectorInv
  <1>2. \A m : CredentialUsage(m) \in {"Cf", "Ce", "Cg", "Cc"}
    BY DEF CredentialUsage
  <1>3. vot.C = Distinct(Usages)
    BY DEF vot, VoTOfMany, BuildVoT, Usages
  <1> QED
    BY <1>1, <1>2, <1>3 DEF Usages

\* One more method is one more usage at the end.
LEMMA AuthenticateAppends ==
  ASSUME VectorInv, NEW m \in Methods, Authenticate(m)
  PROVE  /\ loi' = loi
         /\ amrs' \in Seq(Methods)
         /\ amrs'[Len(amrs')] = m
         /\ Usages' = Append(Usages, CredentialUsage(m))
  <1>1. /\ amrs' = Append(amrs, m) /\ loi' = loi
        /\ amrs \in Seq(Methods) /\ Len(amrs) \in Nat /\ DOMAIN amrs = 1..Len(amrs)
    BY DEF Authenticate, VectorInv
  <1>2. /\ amrs' \in Seq(Methods)
        /\ Len(amrs') = Len(amrs) + 1
        /\ amrs'[Len(amrs) + 1] = m
        /\ \A i \in 1..Len(amrs) : amrs'[i] = amrs[i]
        /\ DOMAIN amrs' = 1..(Len(amrs) + 1)
    BY <1>1
  <1>3. Usages = [i \in 1..Len(amrs) |-> CredentialUsage(amrs[i])]
    BY <1>1 DEF Usages
  <1>4. Usages' = [i \in 1..(Len(amrs) + 1) |-> CredentialUsage(amrs'[i])]
    BY <1>2 DEF Usages
  <1>5. Usages' = Append(Usages, CredentialUsage(m))
    <2> DEFINE U == {"Cf", "Ce", "Cg", "Cc"}
               t == Append(Usages, CredentialUsage(m))
               n == Len(amrs) + 1
    <2>1. Usages \in Seq(U) /\ Len(Usages) = Len(amrs) /\ CredentialUsage(m) \in U
      BY UsagesTyped DEF CredentialUsage
    <2> HIDE DEF U
    <2>2. /\ t \in Seq(U)
          /\ Len(t) = n
          /\ t[n] = CredentialUsage(m)
          /\ \A i \in 1..Len(amrs) : t[i] = Usages[i]
          /\ \A i \in 1..n : i # n => i \in 1..Len(amrs)
      BY <1>1, <2>1
    <2> HIDE DEF t
    <2>3. \A i \in 1..n : t[i] = CredentialUsage(amrs'[i])
      BY <1>2, <1>3, <2>2
    <2>4. t = [i \in 1..n |-> t[i]]
      BY <1>1, <2>2
    <2> QED
      BY <1>4, <2>3, <2>4 DEF t
  <1> QED
    BY <1>1, <1>2, <1>5

\* A step adds a usage to the vector's, or leaves the vector as it is.
LEMMA VectorStep ==
  ASSUME VectorInv, [Next]_vars
  PROVE  /\ VectorInv'
         /\ UNCHANGED vars
            \/ LET c == CredentialUsage(amrs'[Len(amrs')]) IN
               vot'.C = IF Contains(vot.C, c) THEN vot.C ELSE Append(vot.C, c)
  <1>1. CASE UNCHANGED vars
    BY <1>1 DEF vars, VectorInv, Usages
  <1>2. ASSUME NEW m \in Methods, Authenticate(m)
        PROVE  /\ VectorInv'
               /\ LET c == CredentialUsage(amrs'[Len(amrs')]) IN
                  vot'.C = IF Contains(vot.C, c) THEN vot.C ELSE Append(vot.C, c)
    <2> DEFINE c == CredentialUsage(m)
    <2>1. /\ loi' = loi
          /\ amrs' \in Seq(Methods)
          /\ amrs'[Len(amrs')] = m
          /\ Usages' = Append(Usages, c)
      BY <1>2, AuthenticateAppends
    <2>2. c \in {"Cf", "Ce", "Cg", "Cc"}
      BY DEF CredentialUsage
    <2>3. Usages \in Seq({"Cf", "Ce", "Cg", "Cc"}) /\ vot.C = Distinct(Usages) /\ Enumerated(Usages)
      BY UsagesTyped DEF VectorInv
    <2> HIDE DEF c
    <2>4. /\ Enumerated(Append(Usages, c))
          /\ Distinct(Append(Usages, c))
             = IF Contains(Distinct(Usages), c) THEN Distinct(Usages) ELSE Append(Distinct(Usages), c)
      BY <2>2, <2>3, DistinctAppend
    <2>5. Enumerated(Usages)' /\ Distinct(Usages)' = Distinct(Append(Usages, c))
      BY <2>1, <2>4
    <2>6. VectorInv'
      BY <2>1, <2>5 DEF VectorInv
    <2>7. vot'.C = Distinct(Usages)'
      BY DEF vot, VoTOfMany, BuildVoT, Usages
    <2> QED
      BY <2>1, <2>3, <2>4, <2>5, <2>6, <2>7 DEF c
  <1> QED
    BY <1>1, <1>2 DEF Next

LEMMA VectorInit == Init => VectorInv
  <1> SUFFICES ASSUME Init PROVE VectorInv
    OBVIOUS
  <1>1. Usages = << >>
    BY DEF Init, Usages
  <1> QED
    BY <1>1, EmptyIsEnumerated DEF Init, VectorInv

LEMMA VectorInvariant == Spec => []VectorInv
  BY VectorInit, VectorStep, PTL DEF Spec

\* However many methods a sign-in uses, one more of them adds its component at the
\* end of the vector or changes nothing (RFC8485.cs, array overload).
THEOREM VectorsAccumulate == Spec => MethodsAccumulate
  <1> DEFINE Adds == LET c == CredentialUsage(amrs'[Len(amrs')]) IN
                     vot'.C = IF Contains(vot.C, c) THEN vot.C ELSE Append(vot.C, c)
  <1>1. VectorInv /\ [Next]_vars => [Adds]_vars
    BY VectorStep
  <1> QED
    BY <1>1, VectorInvariant, PTL DEF Spec, MethodsAccumulate

\* The two overloads give one method the same vector, but at loi.200.
THEOREM VectorsAgree == Spec => []OverloadsAgree
  <1>1. VectorInv => OverloadsAgree
    <2> SUFFICES ASSUME VectorInv, Len(amrs) = 1, loi # "loi.200"
                 PROVE  vot = VoTOfOne(loi, amrs[1])
      BY DEF OverloadsAgree
    <2> DEFINE c == CredentialUsage(amrs[1])
    <2>1. DOMAIN amrs = {1}
      BY DEF VectorInv
    <2>2. Usages = Append(<< >>, c) /\ << >> \in Seq({c}) /\ c \in {c}
      BY <2>1 DEF Usages
    <2>3. Distinct(<< >>) = << >>
      BY EmptyIsEnumerated, FS_EmptySet DEF Distinct
    <2>4. ~Contains(<< >>, c)
      BY DEF Contains
    <2> HIDE DEF c
    <2>5. Distinct(Append(<< >>, c)) = Append(Distinct(<< >>), c)
      <3>1. Distinct(Append(<< >>, c))
            = IF Contains(Distinct(<< >>), c) THEN Distinct(<< >>) ELSE Append(Distinct(<< >>), c)
        BY <2>2, EmptyIsEnumerated, DistinctAppend
      <3> QED
        BY <2>3, <2>4, <3>1
    <2>6. Distinct(Usages) = <<c>>
      <3>1. Append(<< >>, c) = <<c>>
        OBVIOUS
      <3> QED
        BY <2>2, <2>3, <2>5, <3>1
    <2>7. IdentityProofingOfMany(loi) = IdentityProofing(loi)
      <3>1. CASE loi \in {"loi.500", "loi.400"}
        BY <3>1 DEF IdentityProofingOfMany, IdentityProofing
      <3>2. CASE loi = "loi.300"
        BY <3>2 DEF IdentityProofingOfMany, IdentityProofing
      <3>3. CASE loi \notin {"loi.500", "loi.400", "loi.300"}
        BY <3>3 DEF IdentityProofingOfMany, IdentityProofing
      <3> QED
        BY <3>1, <3>2, <3>3
    <2> QED
      BY <2>6, <2>7 DEF vot, VoTOfMany, VoTOfOne, BuildVoT, Usages, c
  <1> QED
    BY <1>1, VectorInvariant, PTL
================================================================================
