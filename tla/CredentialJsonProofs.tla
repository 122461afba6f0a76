-------------------------- MODULE CredentialJsonProofs --------------------------
(***************************************************************************)
(* The JSON that passkey-submit.js makes by hand is the one of a working   *)
(* toJSON for binary fields of any bytes and any length: what is left of   *)
(* btoa's text after the three replacements is the base64url text of       *)
(* RFC 4648.  Symbol 4g + p of btoa's text is cut out of the g-th group    *)
(* of three bytes, that of RFC 4648 is put together of six bits; the       *)
(* proof compares them for p in 1..4 (SymbolsAgree), and the lengths.      *)
(***************************************************************************)
EXTENDS CredentialJson, SequenceTheorems, TLAPS

Octet == 0..255

(***************************************************************************)
(* Numbers: six bits of three bytes                                        *)
(***************************************************************************)

\* The pairs of bits of a byte, written as Bit cuts them out, are its digits to the
\* base four.
LEMMA BitPairs ==
  ASSUME NEW a \in Octet
  PROVE  /\ a % 4 = 2 * ((a \div 2) % 2) + ((a \div 1) % 2)
         /\ (a \div 4) % 4 = 2 * ((a \div 8) % 2) + ((a \div 4) % 2)
         /\ (a \div 16) % 4 = 2 * ((a \div 32) % 2) + ((a \div 16) % 2)
         /\ a \div 64 = 2 * ((a \div 128) % 2) + ((a \div 64) % 2)
<1>1. a % 4 = 2 * ((a \div 2) % 2) + ((a \div 1) % 2)
  BY DEF Octet
<1>2. (a \div 4) % 4 = 2 * ((a \div 8) % 2) + ((a \div 4) % 2)
  BY DEF Octet
<1>3. (a \div 16) % 4 = 2 * ((a \div 32) % 2) + ((a \div 16) % 2)
  BY DEF Octet
<1>4. a \div 64 = 2 * ((a \div 128) % 2) + ((a \div 64) % 2)
  BY DEF Octet
<1> QED
  BY <1>1, <1>2, <1>3, <1>4

\* They make up its upper six bits, its lower two, and so on.
LEMMA UpperBits ==
  ASSUME NEW a \in Octet
  PROVE  /\ a \div 4 = 32 * ((a \div 128) % 2) + 16 * ((a \div 64) % 2)
                       + 8 * ((a \div 32) % 2) + 4 * ((a \div 16) % 2)
                       + 2 * ((a \div 8) % 2) + ((a \div 4) % 2)
         /\ a \div 16 = 8 * ((a \div 128) % 2) + 4 * ((a \div 64) % 2)
                        + 2 * ((a \div 32) % 2) + ((a \div 16) % 2)
         /\ a \div 64 = 2 * ((a \div 128) % 2) + ((a \div 64) % 2)
<1>1. a \div 16 = 4 * (a \div 64) + ((a \div 16) % 4)
  BY DEF Octet
<1>2. a \div 4 = 4 * (a \div 16) + ((a \div 4) % 4)
  BY DEF Octet
<1> QED
  BY <1>1, <1>2, BitPairs DEF Octet

LEMMA LowerBits ==
  ASSUME NEW a \in Octet
  PROVE  /\ a % 4 = 2 * ((a \div 2) % 2) + ((a \div 1) % 2)
         /\ a % 16 = 8 * ((a \div 8) % 2) + 4 * ((a \div 4) % 2)
                     + 2 * ((a \div 2) % 2) + ((a \div 1) % 2)
         /\ a % 64 = 32 * ((a \div 32) % 2) + 16 * ((a \div 16) % 2)
                     + 8 * ((a \div 8) % 2) + 4 * ((a \div 4) % 2)
                     + 2 * ((a \div 2) % 2) + ((a \div 1) % 2)
<1>1. a % 16 = 4 * ((a \div 4) % 4) + (a % 4)
  BY DEF Octet
<1>2. a % 64 = 16 * ((a \div 16) % 4) + (a % 16)
  BY DEF Octet
<1> QED
  BY <1>1, <1>2, BitPairs DEF Octet

\* The four symbols of a group of three bytes.
IsGroup(n, a, b, c) == n = a * 65536 + b * 256 + c

SymbolsOf(n, a, b, c) ==
  /\ (n \div 262144) % 64 = a \div 4
  /\ (n \div 4096) % 64 = 16 * (a % 4) + (b \div 16)
  /\ (n \div 64) % 64 = 4 * (b % 16) + (c \div 64)
  /\ (n \div 1) % 64 = c % 64

LEMMA SymbolsOfGroup ==
  ASSUME NEW a \in Octet, NEW b \in Octet, NEW c \in Octet,
         NEW n \in Nat, IsGroup(n, a, b, c)
  PROVE  SymbolsOf(n, a, b, c)
<1>1. (n \div 262144) % 64 = a \div 4
  <2>1. n \div 262144 = a \div 4
    BY DEF IsGroup, Octet
  <2> QED
    BY <2>1 DEF Octet
<1>2. (n \div 4096) % 64 = 16 * (a % 4) + (b \div 16)
  <2>1. n \div 4096 = 16 * a + (b \div 16) /\ b \div 16 \in 0..15
    BY DEF IsGroup, Octet
  <2> QED
    BY <2>1 DEF Octet
<1>3. (n \div 64) % 64 = 4 * (b % 16) + (c \div 64)
  <2>1. n \div 64 = 1024 * a + 4 * b + (c \div 64) /\ c \div 64 \in 0..3
    BY DEF IsGroup, Octet
  <2> QED
    BY <2>1 DEF Octet
<1>4. (n \div 1) % 64 = c % 64
  <2>1. n \div 1 = 64 * (1024 * a + 4 * b) + c
    BY DEF IsGroup, Octet
  <2> QED
    BY <2>1 DEF Octet
<1> QED
  BY <1>1, <1>2, <1>3, <1>4 DEF SymbolsOf

\* s is the shift of the p-th of them.
LEMMA ShiftedSymbol ==
  ASSUME NEW x \in Nat, NEW p \in 1..4, NEW s \in Nat,
         p = 1 => s = 262144,
         p = 2 => s = 4096,
         p = 3 => s = 64,
         p = 4 => s = 1
  PROVE  /\ p = 1 => (x \div s) % 64 = (x \div 262144) % 64
         /\ p = 2 => (x \div s) % 64 = (x \div 4096) % 64
         /\ p = 3 => (x \div s) % 64 = (x \div 64) % 64
         /\ p = 4 => (x \div s) % 64 = (x \div 1) % 64
<1>1. CASE p = 1
  <2>1. s = 262144
    BY <1>1
  <2> QED
    BY <1>1, <2>1
<1>2. CASE p = 2
  <2>1. s = 4096
    BY <1>2
  <2> QED
    BY <1>2, <2>1
<1>3. CASE p = 3
  <2>1. s = 64
    BY <1>3
  <2> QED
    BY <1>3, <2>1
<1>4. CASE p = 4
  <2>1. s = 1
    BY <1>4
  <2> QED
    BY <1>4, <2>1
<1> QED
  BY <1>1, <1>2, <1>3, <1>4

\* The i-th symbol is the p-th of the group g.
LEMMA GroupOf ==
  ASSUME NEW i \in Nat \ {0}
  PROVE  \E g \in Nat, p \in 1..4 :
           i = 4 * g + p /\ (i - 1) \div 4 = g /\ ((i - 1) % 4) + 1 = p
  OBVIOUS

--------------------------------------------------------------------------------
(***************************************************************************)
(* Symbols: btoa's are those of RFC 4648                                   *)
(***************************************************************************)

\* A text of bytes, as ByteSequences has them.
Bytes(bytes) == bytes \in Seq(Octet)

LEMMA ByteSequencesAreBytes ==
  ASSUME NEW bytes \in ByteSequences
  PROVE  Bytes(bytes)
<1>1. PICK n \in 0..MaxBytes : bytes \in [1..n -> Byte]
  BY DEF ByteSequences
<1>2. n \in Nat
  BY BytesAreBytes
<1>3. Byte \subseteq Octet
  BY BytesAreBytes DEF Octet
<1>4. bytes \in [1..n -> Octet]
  BY <1>1, <1>3
<1>5. bytes \in Seq(Octet)
  BY <1>2, <1>4, IsASeq
<1> QED
  BY <1>5 DEF Bytes

LEMMA BytesAt ==
  ASSUME NEW bytes, Bytes(bytes), NEW k \in Nat \ {0}
  PROVE  ByteAt(bytes, k) \in Octet
<1>1. bytes \in Seq(Octet)
  BY DEF Bytes
<1>2. Len(bytes) \in Nat
  BY <1>1, LenProperties
<1>3. CASE k <= Len(bytes)
  <2>1. k \in 1..Len(bytes)
    BY <1>2, <1>3
  <2>2. bytes[k] \in Octet
    BY <1>1, <2>1, ElementOfSeq
  <2> QED
    BY <1>3, <2>2 DEF ByteAt
<1>4. CASE ~(k <= Len(bytes))
  BY <1>4 DEF ByteAt, Octet
<1> QED
  BY <1>3, <1>4

\* The bits of the k-th byte of a text, in the order of their weights; beyond the
\* text there are zeros on both sides.
LEMMA BitOfByte ==
  ASSUME NEW bytes, Bytes(bytes), NEW k \in Nat \ {0}, NEW j \in 1..8
  PROVE  Bit(bytes, 8 * (k - 1) + j) = (ByteAt(bytes, k) \div Weight[j]) % 2
<1>1. PICK i \in Nat : i = 8 * (k - 1) + j
  OBVIOUS
<1>2. ((i - 1) \div 8) + 1 = k /\ ((i - 1) % 8) + 1 = j
  BY <1>1
<1>3. Len(bytes) \in Nat
  BY LenProperties DEF Bytes
<1>4. i > 8 * Len(bytes) <=> k > Len(bytes)
  BY <1>1, <1>3
<1>5. CASE k <= Len(bytes)
  <2>1. ~(i > 8 * Len(bytes))
    BY <1>3, <1>4, <1>5
  <2>2. Bit(bytes, i) = (bytes[k] \div Weight[j]) % 2
    BY <1>2, <2>1 DEF Bit
  <2>3. ByteAt(bytes, k) = bytes[k]
    BY <1>5 DEF ByteAt
  <2> QED
    BY <1>1, <2>2, <2>3
<1>6. CASE k > Len(bytes)
  <2>1. Bit(bytes, i) = 0
    BY <1>4, <1>6 DEF Bit
  <2>2. ByteAt(bytes, k) = 0
    BY <1>3, <1>6 DEF ByteAt
  <2>3. Weight[j] \in {128, 64, 32, 16, 8, 4, 2, 1}
    BY DEF Weight
  <2>4. (0 \div Weight[j]) % 2 = 0
    BY <2>3
  <2> QED
    BY <1>1, <2>1, <2>2, <2>4
<1> QED
  BY <1>3, <1>5, <1>6

\* The eight bits after bit z are those of byte a.
HasByte(bytes, z, a) ==
  /\ Bit(bytes, z + 1) = (a \div 128) % 2
  /\ Bit(bytes, z + 2) = (a \div 64) % 2
  /\ Bit(bytes, z + 3) = (a \div 32) % 2
  /\ Bit(bytes, z + 4) = (a \div 16) % 2
  /\ Bit(bytes, z + 5) = (a \div 8) % 2
  /\ Bit(bytes, z + 6) = (a \div 4) % 2
  /\ Bit(bytes, z + 7) = (a \div 2) % 2
  /\ Bit(bytes, z + 8) = (a \div 1) % 2

LEMMA BitsOfByte ==
  ASSUME NEW bytes, Bytes(bytes), NEW k \in Nat \ {0},
         NEW a \in Octet, a = ByteAt(bytes, k),
         NEW z \in Nat, z = 8 * (k - 1)
  PROVE  HasByte(bytes, z, a)
<1>1. /\ Bit(bytes, z + 1) = (a \div Weight[1]) % 2
      /\ Bit(bytes, z + 2) = (a \div Weight[2]) % 2
      /\ Bit(bytes, z + 3) = (a \div Weight[3]) % 2
      /\ Bit(bytes, z + 4) = (a \div Weight[4]) % 2
      /\ Bit(bytes, z + 5) = (a \div Weight[5]) % 2
      /\ Bit(bytes, z + 6) = (a \div Weight[6]) % 2
      /\ Bit(bytes, z + 7) = (a \div Weight[7]) % 2
      /\ Bit(bytes, z + 8) = (a \div Weight[8]) % 2
  BY BitOfByte
<1>2. /\ Weight[1] = 128 /\ Weight[2] = 64 /\ Weight[3] = 32 /\ Weight[4] = 16
      /\ Weight[5] = 8 /\ Weight[6] = 4 /\ Weight[7] = 2 /\ Weight[8] = 1
  BY DEF Weight
<1> QED
  BY <1>1, <1>2 DEF HasByte

\* What six bits make, when they are the upper six of a byte,
LEMMA FirstSixBits ==
  ASSUME NEW bytes, NEW i \in Nat, NEW x \in Nat,
         NEW a \in Octet,
         HasByte(bytes, x, a), 6 * i = x + 6
  PROVE  SixBits(bytes, i) = a \div 4
<1>1. /\ 6*i - 5 = x + 1 /\ 6*i - 4 = x + 2 /\ 6*i - 3 = x + 3
      /\ 6*i - 2 = x + 4 /\ 6*i - 1 = x + 5 /\ 6*i = x + 6
  OBVIOUS
<1>2. /\ Bit(bytes, x + 1) = (a \div 128) % 2
      /\ Bit(bytes, x + 2) = (a \div 64) % 2
      /\ Bit(bytes, x + 3) = (a \div 32) % 2
      /\ Bit(bytes, x + 4) = (a \div 16) % 2
      /\ Bit(bytes, x + 5) = (a \div 8) % 2
      /\ Bit(bytes, x + 6) = (a \div 4) % 2
  BY DEF HasByte
<1>3. SixBits(bytes, i) = 32 * ((a \div 128) % 2) + 16 * ((a \div 64) % 2)
                       + 8 * ((a \div 32) % 2) + 4 * ((a \div 16) % 2)
                       + 2 * ((a \div 8) % 2) + ((a \div 4) % 2)
  BY <1>1, <1>2 DEF SixBits, Octet
<1> QED
  BY <1>3, UpperBits

\* the lower two of one and the upper four of the next,
LEMMA SecondSixBits ==
  ASSUME NEW bytes, NEW i \in Nat, NEW x \in Nat, NEW y \in Nat,
         NEW a \in Octet, NEW b \in Octet,
         HasByte(bytes, x, a), HasByte(bytes, y, b), y = x + 8, 6 * i = x + 12
  PROVE  SixBits(bytes, i) = 16 * (a % 4) + (b \div 16)
<1>1. /\ 6*i - 5 = x + 7 /\ 6*i - 4 = x + 8 /\ 6*i - 3 = y + 1
      /\ 6*i - 2 = y + 2 /\ 6*i - 1 = y + 3 /\ 6*i = y + 4
  OBVIOUS
<1>2. /\ Bit(bytes, x + 7) = (a \div 2) % 2
      /\ Bit(bytes, x + 8) = (a \div 1) % 2
      /\ Bit(bytes, y + 1) = (b \div 128) % 2
      /\ Bit(bytes, y + 2) = (b \div 64) % 2
      /\ Bit(bytes, y + 3) = (b \div 32) % 2
      /\ Bit(bytes, y + 4) = (b \div 16) % 2
  BY DEF HasByte
<1>3. SixBits(bytes, i) = 32 * ((a \div 2) % 2) + 16 * ((a \div 1) % 2)
                       + 8 * ((b \div 128) % 2) + 4 * ((b \div 64) % 2)
                       + 2 * ((b \div 32) % 2) + ((b \div 16) % 2)
  BY <1>1, <1>2 DEF SixBits, Octet
<1>4. a % 4 = 2 * ((a \div 2) % 2) + ((a \div 1) % 2)
  BY LowerBits
<1>5. b \div 16 = 8 * ((b \div 128) % 2) + 4 * ((b \div 64) % 2)
                  + 2 * ((b \div 32) % 2) + ((b \div 16) % 2)
  BY UpperBits
<1> QED
  BY <1>3, <1>4, <1>5 DEF Octet

\* the lower four of one and the upper two of the next,
LEMMA ThirdSixBits ==
  ASSUME NEW bytes, NEW i \in Nat, NEW y \in Nat, NEW z \in Nat,
         NEW b \in Octet, NEW c \in Octet,
         HasByte(bytes, y, b), HasByte(bytes, z, c), z = y + 8, 6 * i = y + 10
  PROVE  SixBits(bytes, i) = 4 * (b % 16) + (c \div 64)
<1>1. /\ 6*i - 5 = y + 5 /\ 6*i - 4 = y + 6 /\ 6*i - 3 = y + 7
      /\ 6*i - 2 = y + 8 /\ 6*i - 1 = z + 1 /\ 6*i = z + 2
  OBVIOUS
<1>2. /\ Bit(bytes, y + 5) = (b \div 8) % 2
      /\ Bit(bytes, y + 6) = (b \div 4) % 2
      /\ Bit(bytes, y + 7) = (b \div 2) % 2
      /\ Bit(bytes, y + 8) = (b \div 1) % 2
      /\ Bit(bytes, z + 1) = (c \div 128) % 2
      /\ Bit(bytes, z + 2) = (c \div 64) % 2
  BY DEF HasByte
<1>3. SixBits(bytes, i) = 32 * ((b \div 8) % 2) + 16 * ((b \div 4) % 2)
                       + 8 * ((b \div 2) % 2) + 4 * ((b \div 1) % 2)
                       + 2 * ((c \div 128) % 2) + ((c \div 64) % 2)
  BY <1>1, <1>2 DEF SixBits, Octet
<1>4. b % 16 = 8 * ((b \div 8) % 2) + 4 * ((b \div 4) % 2)
               + 2 * ((b \div 2) % 2) + ((b \div 1) % 2)
  BY LowerBits
<1>5. c \div 64 = 2 * ((c \div 128) % 2) + ((c \div 64) % 2)
  BY UpperBits
<1> QED
  BY <1>3, <1>4, <1>5 DEF Octet

\* and the lower six of one.
LEMMA FourthSixBits ==
  ASSUME NEW bytes, NEW i \in Nat, NEW z \in Nat,
         NEW c \in Octet,
         HasByte(bytes, z, c), 6 * i = z + 8
  PROVE  SixBits(bytes, i) = c % 64
<1>1. /\ 6*i - 5 = z + 3 /\ 6*i - 4 = z + 4 /\ 6*i - 3 = z + 5
      /\ 6*i - 2 = z + 6 /\ 6*i - 1 = z + 7 /\ 6*i = z + 8
  OBVIOUS
<1>2. /\ Bit(bytes, z + 3) = (c \div 32) % 2
      /\ Bit(bytes, z + 4) = (c \div 16) % 2
      /\ Bit(bytes, z + 5) = (c \div 8) % 2
      /\ Bit(bytes, z + 6) = (c \div 4) % 2
      /\ Bit(bytes, z + 7) = (c \div 2) % 2
      /\ Bit(bytes, z + 8) = (c \div 1) % 2
  BY DEF HasByte
<1>3. SixBits(bytes, i) = 32 * ((c \div 32) % 2) + 16 * ((c \div 16) % 2)
                       + 8 * ((c \div 8) % 2) + 4 * ((c \div 4) % 2)
                       + 2 * ((c \div 2) % 2) + ((c \div 1) % 2)
  BY <1>1, <1>2 DEF SixBits, Octet
<1> QED
  BY <1>3, LowerBits

\* A symbol of btoa's text before its padding.
Symbol(bytes, i) == (Group(bytes, (i - 1) \div 4) \div Shift[((i - 1) % 4) + 1]) % 64

LEMMA SymbolsAgree ==
  ASSUME NEW bytes, Bytes(bytes), NEW i \in Nat \ {0}
  PROVE  /\ Symbol(bytes, i) = SixBits(bytes, i)
         /\ SixBits(bytes, i) \in 0..63
<1>1. PICK g \in Nat, p \in 1..4 :
        i = 4 * g + p /\ (i - 1) \div 4 = g /\ ((i - 1) % 4) + 1 = p
  BY GroupOf
<1>x. PICK x \in Nat : x = 24 * g
  OBVIOUS
<1>y. PICK y \in Nat : y = 24 * g + 8
  OBVIOUS
<1>z. PICK z \in Nat : z = 24 * g + 16
  OBVIOUS
<1>u. PICK k \in Nat \ {0} : k = 3*g + 1
  OBVIOUS
<1>v. PICK l \in Nat \ {0} : l = 3*g + 2
  OBVIOUS
<1>w. PICK m \in Nat \ {0} : m = 3*g + 3
  OBVIOUS
<1>2. x = 8 * (k - 1) /\ y = 8 * (l - 1) /\ z = 8 * (m - 1)
  BY <1>u, <1>v, <1>w, <1>x, <1>y, <1>z
<1>a. PICK a \in Octet : a = ByteAt(bytes, k)
  BY BytesAt
<1>b. PICK b \in Octet : b = ByteAt(bytes, l)
  BY BytesAt
<1>c. PICK c \in Octet : c = ByteAt(bytes, m)
  BY BytesAt
\* What btoa makes of the group.
<1>3. PICK n \in Nat : IsGroup(n, a, b, c)
  BY DEF IsGroup, Octet
<1>4. Group(bytes, g) = n
  BY <1>u, <1>v, <1>w, <1>a, <1>b, <1>c, <1>3 DEF Group, IsGroup
<1>5. PICK s \in Nat : s = Shift[p]
  BY DEF Shift
<1>6. Symbol(bytes, i) = (n \div s) % 64
  BY <1>1, <1>4, <1>5 DEF Symbol
<1>7. /\ p = 1 => s = 262144
      /\ p = 2 => s = 4096
      /\ p = 3 => s = 64
      /\ p = 4 => s = 1
  BY <1>5 DEF Shift
<1>8. /\ p = 1 => Symbol(bytes, i) = (n \div 262144) % 64
      /\ p = 2 => Symbol(bytes, i) = (n \div 4096) % 64
      /\ p = 3 => Symbol(bytes, i) = (n \div 64) % 64
      /\ p = 4 => Symbol(bytes, i) = (n \div 1) % 64
  BY <1>6, <1>7, ShiftedSymbol
<1>9. SymbolsOf(n, a, b, c)
  BY <1>3, SymbolsOfGroup
<1>10. /\ p = 1 => Symbol(bytes, i) = a \div 4
       /\ p = 2 => Symbol(bytes, i) = 16 * (a % 4) + (b \div 16)
       /\ p = 3 => Symbol(bytes, i) = 4 * (b % 16) + (c \div 64)
       /\ p = 4 => Symbol(bytes, i) = c % 64
  BY <1>8, <1>9 DEF SymbolsOf
\* And what its bits make.
<1>h. HasByte(bytes, x, a) /\ HasByte(bytes, y, b) /\ HasByte(bytes, z, c)
  BY <1>2, <1>a, <1>b, <1>c, BitsOfByte
<1>i. y = x + 8 /\ z = y + 8
  BY <1>x, <1>y, <1>z
<1>11. ASSUME p = 1
       PROVE  SixBits(bytes, i) = a \div 4
  <2>1. 6 * i = x + 6
    BY <1>1, <1>11, <1>x
  <2> QED
    BY <2>1, <1>h, FirstSixBits
<1>12. ASSUME p = 2
       PROVE  SixBits(bytes, i) = 16 * (a % 4) + (b \div 16)
  <2>1. 6 * i = x + 12
    BY <1>1, <1>12, <1>x
  <2> QED
    BY <2>1, <1>h, <1>i, SecondSixBits
<1>13. ASSUME p = 3
       PROVE  SixBits(bytes, i) = 4 * (b % 16) + (c \div 64)
  <2>1. 6 * i = y + 10
    BY <1>1, <1>13, <1>y
  <2> QED
    BY <2>1, <1>h, <1>i, ThirdSixBits
<1>14. ASSUME p = 4
       PROVE  SixBits(bytes, i) = c % 64
  <2>1. 6 * i = z + 8
    BY <1>1, <1>14, <1>z
  <2> QED
    BY <2>1, <1>h, FourthSixBits
<1>15. /\ a \div 4 \in 0..63
       /\ 16 * (a % 4) + (b \div 16) \in 0..63
       /\ 4 * (b % 16) + (c \div 64) \in 0..63
       /\ c % 64 \in 0..63
  BY DEF Octet
<1>16. p = 1 \/ p = 2 \/ p = 3 \/ p = 4
  OBVIOUS
<1> QED
  BY <1>10, <1>11, <1>12, <1>13, <1>14, <1>15, <1>16

--------------------------------------------------------------------------------
(***************************************************************************)
(* Texts: the three replacements                                           *)
(***************************************************************************)

\* How many symbols a text of n bytes has, without padding and with it.
UrlLength(n) == (8 * n + 5) \div 6
Base64Length(n) == 4 * ((n + 2) \div 3)

LEMMA Lengths ==
  ASSUME NEW n \in Nat
  PROVE  /\ UrlLength(n) \in Nat /\ Base64Length(n) \in Nat
         /\ UrlLength(n) <= Base64Length(n)
         /\ n # 0 => UrlLength(n) # 0
         /\ \A i \in Nat \ {0} : 6 * (i - 1) >= 8 * n <=> ~(i <= UrlLength(n))
  BY DEF UrlLength, Base64Length

LEMMA UnpaddedLengthIs ==
  ASSUME NEW text, Len(text) \in Nat, NEW n \in 0..Len(text),
         \A i \in (n + 1)..Len(text) : text[i] = Pad,
         n # 0 => text[n] # Pad
  PROVE  UnpaddedLength(text) = n
<1> DEFINE Is(m) == /\ \A i \in (m + 1)..Len(text) : text[i] = Pad
                    /\ m # 0 => text[m] # Pad
<1>1. Is(n)
  OBVIOUS
<1>2. ASSUME NEW m \in 0..Len(text), Is(m)
      PROVE  m = n
  <2>1. ~(m < n)
    <3> SUFFICES ASSUME m < n PROVE FALSE
      OBVIOUS
    <3>1. n \in (m + 1)..Len(text) /\ n # 0
      OBVIOUS
    <3> QED
      BY <1>2, <3>1
  <2>2. ~(n < m)
    <3> SUFFICES ASSUME n < m PROVE FALSE
      OBVIOUS
    <3>1. m \in (n + 1)..Len(text) /\ m # 0
      OBVIOUS
    <3> QED
      BY <1>2, <3>1
  <2> QED
    BY <2>1, <2>2
<1> HIDE DEF Is
<1>3. n = CHOOSE m \in 0..Len(text) : Is(m)
  BY <1>1, <1>2
<1> QED
  BY <1>3 DEF UnpaddedLength, Is

\* btoa's text: symbols, then the padding.
LEMMA BtoaText ==
  ASSUME NEW bytes, Bytes(bytes)
  PROVE  /\ Len(bytes) \in Nat
         /\ Len(Btoa(bytes)) = Base64Length(Len(bytes))
         /\ \A i \in 1..UrlLength(Len(bytes)) : Btoa(bytes)[i] = SixBits(bytes, i)
         /\ \A i \in (UrlLength(Len(bytes)) + 1)..Base64Length(Len(bytes)) :
              Btoa(bytes)[i] = Pad
<1>0. Len(bytes) \in Nat
  BY LenProperties DEF Bytes
<1>1. PICK n \in Nat : n = Len(bytes)
  BY <1>0
<1>2. PICK m \in Nat : m = Base64Length(n)
  BY Lengths
<1>3. PICK u \in Nat : u = UrlLength(n)
  BY Lengths
<1>4. u <= m /\ \A i \in Nat \ {0} : 6 * (i - 1) >= 8 * n <=> ~(i <= u)
  BY <1>2, <1>3, Lengths
<1>5. Btoa(bytes) = [i \in 1..m |-> IF 6 * (i - 1) >= 8 * n THEN Pad ELSE Symbol(bytes, i)]
  BY <1>1, <1>2 DEF Btoa, Symbol, Base64Length
<1>6. \A i \in 1..u : Btoa(bytes)[i] = SixBits(bytes, i)
  <2>1. ASSUME NEW i \in 1..u
        PROVE  Btoa(bytes)[i] = SixBits(bytes, i)
    <3>1. i \in 1..m /\ i \in Nat \ {0} /\ ~(6 * (i - 1) >= 8 * n)
      BY <1>4
    <3>2. Btoa(bytes)[i] = Symbol(bytes, i)
      BY <1>5, <3>1
    <3> QED
      BY <3>1, <3>2, SymbolsAgree
  <2> QED
    BY <2>1
<1>7. \A i \in (u + 1)..m : Btoa(bytes)[i] = Pad
  <2>1. ASSUME NEW i \in (u + 1)..m
        PROVE  Btoa(bytes)[i] = Pad
    <3>1. i \in 1..m /\ i \in Nat \ {0} /\ ~(i <= u)
      OBVIOUS
    <3>2. 6 * (i - 1) >= 8 * n
      BY <1>4, <3>1
    <3> QED
      BY <1>5, <3>1, <3>2
  <2> QED
    BY <2>1
<1>8. Len(Btoa(bytes)) = m
  <2>1. DOMAIN Btoa(bytes) = 1..m
    BY <1>5
  <2> DEFINE All == {Btoa(bytes)[i] : i \in 1..m}
  <2>2. Btoa(bytes) \in [1..m -> All]
    BY <1>5
  <2> HIDE DEF All
  <2> QED
    BY <2>1, <2>2, LenProperties
<1> QED
  BY <1>0, <1>1, <1>2, <1>3, <1>6, <1>7, <1>8

\* The text of RFC 4648: without padding and without the two replaced symbols.
LEMMA UrlText ==
  ASSUME NEW bytes, Bytes(bytes)
  PROVE  /\ Len(Base64Url(bytes)) = UrlLength(Len(bytes))
         /\ DOMAIN Base64Url(bytes) = 1..UrlLength(Len(bytes))
         /\ \A i \in 1..UrlLength(Len(bytes)) :
              /\ Base64Url(bytes)[i] = CASE SixBits(bytes, i) = 62 -> Minus
                                         [] SixBits(bytes, i) = 63 -> Underscore
                                         [] OTHER -> SixBits(bytes, i)
              /\ Base64Url(bytes)[i] \in Nat \ {Plus, Slash, Pad}
<1>0. Len(bytes) \in Nat
  BY LenProperties DEF Bytes
<1>1. PICK u \in Nat : u = UrlLength(Len(bytes))
  BY <1>0, Lengths
<1> DEFINE Symb(i) == CASE SixBits(bytes, i) = 62 -> Minus
                        [] SixBits(bytes, i) = 63 -> Underscore
                        [] OTHER -> SixBits(bytes, i)
<1>2. Base64Url(bytes) = [i \in 1..u |-> Symb(i)]
  BY <1>1 DEF Base64Url, UrlLength
<1>3. ASSUME NEW i \in 1..u
      PROVE  Symb(i) \in Nat \ {Plus, Slash, Pad}
  <2>1. SixBits(bytes, i) \in 0..63
    BY SymbolsAgree
  <2> QED
    BY <2>1 DEF Minus, Underscore, Plus, Slash, Pad
<1> HIDE DEF Symb
<1>4. Base64Url(bytes) \in [1..u -> Nat]
  BY <1>2, <1>3
<1>5. Len(Base64Url(bytes)) = u /\ DOMAIN Base64Url(bytes) = 1..u
  BY <1>2, <1>4, LenProperties
<1>6. \A i \in 1..u : Base64Url(bytes)[i] = Symb(i)
  BY <1>2
<1> QED
  BY <1>1, <1>3, <1>5, <1>6 DEF Symb

LEMMA Base64IsConverted ==
  ASSUME NEW bytes, Bytes(bytes)
  PROVE  ToBase64Url(Btoa(bytes)) = Base64Url(bytes)
<1>1. PICK n \in Nat : n = Len(bytes)
  BY BtoaText
<1>2. PICK u \in Nat : u = UrlLength(n)
  BY Lengths
<1>3. PICK m \in Nat : m = Base64Length(n)
  BY Lengths
<1>4. u <= m
  BY <1>2, <1>3, Lengths
<1>t. PICK text : text = Btoa(bytes)
  OBVIOUS
<1>5. Len(text) = m
  BY <1>1, <1>3, <1>t, BtoaText
<1>6. \A i \in 1..u : text[i] = SixBits(bytes, i) /\ SixBits(bytes, i) \in 0..63
  BY <1>1, <1>2, <1>t, BtoaText, SymbolsAgree
<1>7. \A i \in (u + 1)..m : text[i] = Pad
  BY <1>1, <1>2, <1>3, <1>t, BtoaText
<1>8. UnpaddedLength(text) = u
  <2>1. u # 0 => text[u] # Pad
    BY <1>6 DEF Pad
  <2> QED
    BY <1>4, <1>5, <1>7, <2>1, UnpaddedLengthIs
<1>9. ToBase64Url(text) =
        [i \in 1..u |-> CASE text[i] = Plus -> Minus
                           [] text[i] = Slash -> Underscore
                           [] OTHER -> text[i]]
  BY <1>8 DEF ToBase64Url
<1>10. \A i \in 1..u : ToBase64Url(text)[i] = Base64Url(bytes)[i]
  BY <1>1, <1>2, <1>6, <1>9, UrlText DEF Plus, Slash
<1>11. DOMAIN Base64Url(bytes) = 1..u
  BY <1>1, <1>2, UrlText
<1>12. Base64Url(bytes) = [i \in 1..u |-> Base64Url(bytes)[i]]
  BY <1>11 DEF Base64Url
<1> QED
  BY <1>9, <1>10, <1>12, <1>t

LEMMA Base64UrlStays ==
  ASSUME NEW bytes, Bytes(bytes)
  PROVE  ToBase64Url(Base64Url(bytes)) = Base64Url(bytes)
<1>t. PICK text : text = Base64Url(bytes)
  OBVIOUS
<1>1. PICK n \in Nat : n = Len(bytes)
  BY BtoaText
<1>2. PICK u \in Nat : u = UrlLength(n)
  BY Lengths
<1>3. Len(text) = u /\ DOMAIN text = 1..u
  BY <1>1, <1>2, <1>t, UrlText
<1>4. \A i \in 1..u : text[i] \notin {Plus, Slash, Pad}
  BY <1>1, <1>2, <1>t, UrlText
<1>5. UnpaddedLength(text) = u
  <2>1. u # 0 => text[u] # Pad
    BY <1>4
  <2>2. (u + 1)..u = {}
    OBVIOUS
  <2> QED
    BY <1>3, <2>1, <2>2, UnpaddedLengthIs
<1>6. ToBase64Url(text) = [i \in 1..u |-> text[i]]
  BY <1>4, <1>5 DEF ToBase64Url
<1>7. text = [i \in 1..u |-> text[i]]
  BY <1>3, <1>t DEF Base64Url
<1> QED
  BY <1>6, <1>7, <1>t

--------------------------------------------------------------------------------
(***************************************************************************)
(* The JSON                                                                *)
(***************************************************************************)

\* The texts of at least one byte are none of the values that are not texts.
LEMMA TextsAreTexts ==
  ASSUME NEW bytes, Bytes(bytes), bytes # << >>
  PROVE  /\ Btoa(bytes) # << >> /\ Base64Url(bytes) # << >>
         /\ Base64Url(bytes) \notin {Undefined, Thrown}
<1>1. PICK n \in Nat \ {0} : n = Len(bytes)
  BY LenProperties, EmptySeq DEF Bytes
<1>2. PICK u \in Nat \ {0} : u = UrlLength(n)
  BY Lengths
<1>3. Len(Btoa(bytes)) # 0 /\ Len(Base64Url(bytes)) = u
  BY <1>1, <1>2, Lengths, BtoaText, UrlText
<1>4. Base64Url(bytes)[1] \in Nat
  BY <1>1, <1>2, UrlText
<1>5. Undefined[1] \notin Nat /\ Thrown[1] \notin Nat
  BY DEF Undefined, Thrown
<1>6. Btoa(bytes) # << >> /\ Base64Url(bytes) # << >>
  BY <1>3
<1>7. Base64Url(bytes) # Undefined /\ Base64Url(bytes) # Thrown
  BY <1>4, <1>5
<1> QED
  BY <1>6, <1>7

\* However an authenticator holds some bytes, convertToBase64 makes their text of
\* it or throws.
LEMMA HeldBytesConverted ==
  ASSUME NEW bytes, Bytes(bytes), bytes # << >>, NEW o \in Holding(bytes),
         ConvertToBase64(o) # Thrown
  PROVE  ConvertToBase64(o) = Base64Url(bytes)
<1>1. CASE o.kind \in {"array", "arrayBuffer", "uint8Array"} /\ o.value = bytes
  <2>1. ConvertToBase64(o) = ToBase64Url(Btoa(bytes))
    BY <1>1 DEF ConvertToBase64
  <2> QED
    BY <2>1, Base64IsConverted
<1>2. CASE o.kind = "text" /\ o.value \in {Btoa(bytes), Base64Url(bytes)}
  <2>1. ConvertToBase64(o) = ToBase64Url(o.value)
    BY <1>2, TextsAreTexts DEF ConvertToBase64
  <2> QED
    BY <1>2, <2>1, Base64IsConverted, Base64UrlStays
<1>3. CASE o.kind = "otherView"
  BY <1>3 DEF ConvertToBase64
<1> QED
  BY <1>1, <1>2, <1>3 DEF Holding

\* The JSON made by hand of a credential with bytes in its id and one other field.
LEMMA JsonAgrees ==
  ASSUME NEW bytes \in ByteSequences, bytes # << >>,
         NEW f \in Field, f # "rawId",
         NEW id \in Holding(IdBytes), NEW o \in Holding(bytes),
         NEW c, c = CredentialOf(id, f, o), ~ManualJsonThrows(c)
  PROVE  ManualJson(c) =
           NativeJson([g \in {"rawId", f} |-> IF g = f THEN bytes ELSE IdBytes])
<1>1. Bytes(bytes) /\ Bytes(IdBytes) /\ bytes # << >> /\ IdBytes # << >>
  BY ByteSequencesAreBytes DEF Bytes, Octet, IdBytes
<1>2. /\ c["rawId"] = id /\ c[f] = o
      /\ \A g \in Field \ {"rawId", f} : c[g] = Missing
  BY DEF CredentialOf, Field
<1>3. \A g \in Field : ConvertToBase64(c[g]) # Thrown
  BY DEF ManualJsonThrows
<1>4. ConvertToBase64(id) = Base64Url(IdBytes) /\ ConvertToBase64(o) = Base64Url(bytes)
  <2>1. ConvertToBase64(id) # Thrown /\ ConvertToBase64(o) # Thrown
    BY <1>2, <1>3 DEF Field
  <2> QED
    BY <1>1, <2>1, HeldBytesConverted
<1>5. ConvertToBase64(Missing) = Undefined
  BY DEF ConvertToBase64, Missing
<1>6. {g \in Field : ConvertToBase64(c[g]) # Undefined} = {"rawId", f}
  <2>1. ConvertToBase64(id) # Undefined /\ ConvertToBase64(o) # Undefined
    BY <1>1, <1>4, TextsAreTexts
  <2> QED
    BY <1>2, <1>5, <2>1 DEF Field
<1>7. ManualJson(c) = [g \in {"rawId", f} |-> ConvertToBase64(c[g])]
  BY <1>6 DEF ManualJson
<1>8. \A g \in {"rawId", f} :
        ConvertToBase64(c[g]) = Base64Url(IF g = f THEN bytes ELSE IdBytes)
  BY <1>2, <1>4
<1>9. NativeJson([g \in {"rawId", f} |-> IF g = f THEN bytes ELSE IdBytes]) =
        [g \in {"rawId", f} |-> Base64Url(IF g = f THEN bytes ELSE IdBytes)]
  BY DEF NativeJson
<1> QED
  BY <1>7, <1>8, <1>9

\* For binary fields of any bytes and any length and every way to hold them, the
\* JSON that passkey-submit.js makes by hand is the one of a working toJSON
\* (passkey-submit.js:109-125), unless a value it does not know ends it.
THEOREM ManualJsonsAreNative == ManualJsonIsNative
<1> USE DEF ManualJsonIsNative
<1> TAKE bytes \in ByteSequences \ {<< >>}, f \in Field \ {"rawId"}
<1> TAKE id \in Holding(IdBytes), o \in Holding(bytes)
<1> HAVE ~ManualJsonThrows(CredentialOf(id, f, o))
<1> QED
  BY JsonAgrees

================================================================================
