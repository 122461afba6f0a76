------------------------------ MODULE CredentialJson ------------------------------
(***************************************************************************)
(* What passkey-submit.js posts of a credential: its JSON, made by the     *)
(* browser's JSON.stringify or, when a password manager's toJSON is        *)
(* broken, field by field.  The binary fields of that JSON are base64url   *)
(* text, which the server reads and base64 text is not.                    *)
(*                                                                         *)
(* A text is a sequence of symbols: 0..61 are the letters and digits both  *)
(* alphabets share, the others have names.                                 *)
(***************************************************************************)
EXTENDS Integers, Sequences

CONSTANTS
  Byte,       \* the bytes that occur: a sample of 0..255
  MaxBytes    \* bound on the length of a binary field

ASSUME BytesAreBytes == Byte \subseteq 0..255 /\ MaxBytes \in Nat

Plus == 62
Slash == 63
Pad == 64
Minus == 65
Underscore == 66

\* Not a text: a field that is left out, and an exception.
Undefined == <<-1>>
Thrown == <<-2>>

ByteSequences == UNION {[1..n -> Byte] : n \in 0..MaxBytes}

--------------------------------------------------------------------------------
(***************************************************************************)
(* convertToBase64                                                         *)
(***************************************************************************)

\* window.btoa: three bytes become four symbols, the last group is padded.
ByteAt(bytes, k) == IF k <= Len(bytes) THEN bytes[k] ELSE 0

Group(bytes, g) ==
  ByteAt(bytes, 3*g + 1) * 65536 + ByteAt(bytes, 3*g + 2) * 256 + ByteAt(bytes, 3*g + 3)

Shift == <<262144, 4096, 64, 1>>

Btoa(bytes) ==
  [i \in 1..(4 * ((Len(bytes) + 2) \div 3)) |->
     IF 6 * (i - 1) >= 8 * Len(bytes) THEN Pad
     ELSE (Group(bytes, (i - 1) \div 4) \div Shift[((i - 1) % 4) + 1]) % 64]

\* Mutant of ToBase64Url: the padding stays.
ToBase64UrlPadded(text) ==
  [i \in DOMAIN text |->
     CASE text[i] = Plus -> Minus [] text[i] = Slash -> Underscore [] OTHER -> text[i]]

\* The length of a text without the padding at its end.
UnpaddedLength(text) ==
  CHOOSE n \in 0..Len(text) :
    /\ \A i \in (n + 1)..Len(text) : text[i] = Pad
    /\ n # 0 => text[n] # Pad

\* The three replacements.
ToBase64Url(text) ==
  [i \in 1..UnpaddedLength(text) |->
     CASE text[i] = Plus -> Minus [] text[i] = Slash -> Underscore [] OTHER -> text[i]]

\* The kinds of value the function tells apart.  The value of a text is a text,
\* that of the others the bytes they hold.
Kind == {"missing", "array", "arrayBuffer", "uint8Array", "text", "otherView"}

ConvertToBase64(o) ==
  CASE o.kind = "missing"                                -> Undefined
    [] o.kind = "text" /\ o.value = << >>                -> Undefined
    [] o.kind = "text" /\ o.value # << >>                -> ToBase64Url(o.value)
    [] o.kind \in {"array", "arrayBuffer", "uint8Array"} -> ToBase64Url(Btoa(o.value))
    [] OTHER                                             -> Thrown

--------------------------------------------------------------------------------
(***************************************************************************)
(* The JSON of a credential                                                *)
(***************************************************************************)

\* The binary fields.  Those a ceremony does not have are missing.
Field == {"rawId", "attestationObject", "authenticatorData", "clientDataJSON",
          "publicKey", "signature", "userHandle"}

Missing == [kind |-> "missing", value |-> << >>]

\* RFC 4648, section 5, without padding: the bits of the bytes, six at a time.
Weight == <<128, 64, 32, 16, 8, 4, 2, 1>>

Bit(bytes, i) ==
  IF i > 8 * Len(bytes) THEN 0
  ELSE (bytes[((i - 1) \div 8) + 1] \div Weight[((i - 1) % 8) + 1]) % 2

SixBits(bytes, i) ==
  32 * Bit(bytes, 6*i - 5) + 16 * Bit(bytes, 6*i - 4) + 8 * Bit(bytes, 6*i - 3)
    + 4 * Bit(bytes, 6*i - 2) + 2 * Bit(bytes, 6*i - 1) + Bit(bytes, 6*i)

Base64Url(bytes) ==
  [i \in 1..((8 * Len(bytes) + 5) \div 6) |->
     LET value == SixBits(bytes, i)
     IN  CASE value = 62 -> Minus [] value = 63 -> Underscore [] OTHER -> value]

\* JSON.stringify with a toJSON that works.
NativeJson(bytesOf) == [f \in DOMAIN bytesOf |-> Base64Url(bytesOf[f])]

\* A field that throws ends it all; one that is undefined is not in the JSON.
ManualJsonThrows(credential) ==
  \E f \in Field : ConvertToBase64(credential[f]) = Thrown

ManualJson(credential) ==
  [f \in {g \in Field : ConvertToBase64(credential[g]) # Undefined} |->
     ConvertToBase64(credential[f])]

\* toJSON works, throws a TypeError, which is caught, or something else, which is
\* not.  Otherwise there is a text to post.
Serialises(toJSON, credential) ==
  \/ toJSON = "works"
  \/ toJSON = "typeError" /\ ~ManualJsonThrows(credential)

--------------------------------------------------------------------------------
(***************************************************************************)
(* Every authenticator's way to hand over its binary fields                *)
(***************************************************************************)

\* Ways to hold the same bytes; a password manager may use base64 text, padded or
\* not, or a view the function does not know.
Holding(bytes) ==
  {[kind |-> k, value |-> bytes] : k \in {"array", "arrayBuffer", "uint8Array", "otherView"}}
  \union {[kind |-> "text", value |-> t] : t \in {Btoa(bytes), Base64Url(bytes)}}

\* A byte whose text has a symbol in which the alphabets differ.
IdBytes == <<255>>

\* A credential with the bytes in its id and one other field.
CredentialOf(id, f, o) ==
  [g \in Field |-> IF g = "rawId" THEN id ELSE IF g = f THEN o ELSE Missing]

SampleCredentials ==
  UNION {{CredentialOf(id, f, o) :
            id \in Holding(IdBytes), o \in Holding(bytes), f \in Field \ {"rawId"}} :
         bytes \in ByteSequences}

\* Whether a credential can be posted at all depends on both.
SerialisationResults ==
  {Serialises(toJSON, credential) :
     toJSON \in {"works", "typeError", "otherError"}, credential \in SampleCredentials}

\* The JSON made by hand of any of these is the one a working toJSON makes.
ManualJsonIsNative ==
  \A bytes \in ByteSequences \ {<< >>}, f \in Field \ {"rawId"} :
    \A id \in Holding(IdBytes), o \in Holding(bytes) :
      ~ManualJsonThrows(CredentialOf(id, f, o)) =>
        ManualJson(CredentialOf(id, f, o)) =
          NativeJson([g \in {"rawId", f} |-> IF g = f THEN bytes ELSE IdBytes])

================================================================================
