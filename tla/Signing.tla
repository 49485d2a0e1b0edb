------------------------------- MODULE Signing -------------------------------
(***************************************************************************)
(* SecretKey, PublicKey, Digest and Signature (src/crypto), the way        *)
(* Agent::sendData and signContent use them: every value passes from one   *)
(* class to the next as hexadecimal text, which ByteSet checks and decodes.*)
(*                                                                         *)
(* External: SHA-512 and the curve yield any bytes; the curve rejects      *)
(* secrets that are no scalars.                                            *)
(***************************************************************************)
EXTENDS Integers, SequencesExt

CONSTANTS
  Bytes,    \* values of a byte that occur
  Secrets,  \* texts the configuration may give as a secret
  Half,     \* the bytes of a secret, a digest, r, s or a coordinate: 32
  Scalars   \* the secrets the curve accepts

\* What is assumed of the constants.
SigningAssumption ==
  /\ Bytes \subseteq 0..255 /\ Half \in Nat \ {0}
  /\ Secrets \subseteq Seq(STRING)
  /\ Scalars \subseteq [1..Half -> 0..255]

\* _hexes, and the digits a stream writes with and without std::uppercase.
hexes == <<"0", "1", "2", "3", "4", "5", "6", "7", "8", "9", "A", "B", "C", "D", "E", "F">>
lowercase == <<"0", "1", "2", "3", "4", "5", "6", "7", "8", "9", "a", "b", "c", "d", "e", "f">>

\* Some number of bytes.
Blob(n) == [1..n -> Bytes]

VARIABLES
  secret,     \* the text of the secret
  secretKey,  \* the SecretKey
  digest,     \* the Digest of what is signed
  buf,        \* the text built by sign or deriveFromSecretKey
  blob,       \* the Signature or PublicKey made of it
  text,       \* what is sent or printed
  pc,         \* "secret", "digest", "sign", "signature", "derive", "public", "print",
              \* "done" or "threw"
  made        \* history: what the curve made

vars == <<secret, secretKey, digest, buf, blob, text, pc, made>>

Init ==
  /\ secret \in Secrets
  /\ secretKey = <<>> /\ digest = <<>> /\ buf = <<>>
  /\ blob = <<>> /\ text = <<>> /\ made = <<>>
  /\ pc = "secret"

-----------------------------------------------------------------------------
(* ByteSet.  Definitions named ...Mutant are bugs this code does not have.   *)

\* Mutant: small bytes are not filled up to two digits.
HexMutant(bytes, digits) ==
  FlattenSeq([i \in DOMAIN bytes |->
    IF bytes[i] < 16 THEN <<digits[bytes[i] + 1]>>
    ELSE <<digits[(bytes[i] \div 16) + 1], digits[(bytes[i] % 16) + 1]>>])

\* Two digits a byte: setw(2) and setfill('0'), HexEncoder.
Hex(bytes, digits) ==
  [i \in 1..2 * Len(bytes) |->
     LET b == bytes[(i + 1) \div 2]
     IN  digits[1 + (IF i % 2 = 1 THEN b \div 16 ELSE b % 16)]]

\* The checks of hexToBytes for a ByteSet<n>.
Accepts(n, str) ==
  /\ Len(str) % 2 = 0
  /\ Len(str) \div 2 = n
  /\ \A i \in DOMAIN str : Contains(hexes, str[i])

\* HexDecoder.
Value(c) == (CHOOSE i \in DOMAIN hexes : hexes[i] = c) - 1
Decoded(str) == [i \in 1..Len(str) \div 2 |-> 16 * Value(str[2 * i - 1]) + Value(str[2 * i])]

\* The constructor: target becomes the ByteSet<n> of str, and next follows.
Construct(n, str, target, next) ==
  IF Accepts(n, str) THEN target = Decoded(str) /\ pc' = next
  ELSE pc' = "threw" /\ target = <<>>

-----------------------------------------------------------------------------
(* The keys, the digest and the signature                                    *)

\* SecretKey(secret).
MakeSecretKey ==
  /\ pc = "secret"
  /\ \E next \in {"digest", "derive"} : Construct(Half, secret, secretKey', next)
  /\ UNCHANGED <<secret, digest, buf, blob, text, made>>

\* Digest(msg): the hash, cut to size.
MakeDigest ==
  /\ pc = "digest"
  /\ \E h \in Blob(Half) : Construct(Half, Hex(h, hexes), digest', "sign")
  /\ UNCHANGED <<secret, secretKey, buf, blob, text, made>>

\* Signature::sign: r and s, and v behind them, written as a number of its own.
Sign ==
  /\ pc = "sign"
  /\ \/ secretKey \notin Scalars /\ pc' = "threw" /\ UNCHANGED <<buf, made>>
     \/ /\ secretKey \in Scalars
        /\ \E rs \in Blob(2 * Half), v \in 0..3 :
             /\ made' = Append(rs, v + 27)
             /\ buf' = Hex(rs, hexes) \o Hex(<<v + 27>>, hexes)
        /\ pc' = "signature"
  /\ UNCHANGED <<secret, secretKey, digest, blob, text>>

\* PublicKey::deriveFromSecretKey: the serialised point without its first byte.
Derive ==
  /\ pc = "derive"
  /\ \/ secretKey \notin Scalars /\ pc' = "threw" /\ UNCHANGED <<buf, made>>
     \/ /\ secretKey \in Scalars
        /\ \E xy \in Blob(2 * Half) :
             /\ made' = xy
             /\ buf' = Hex(Tail(<<4>> \o xy), hexes)
        /\ pc' = "public"
  /\ UNCHANGED <<secret, secretKey, digest, blob, text>>

\* Signature(sig) or PublicKey(str).
MakeBlob ==
  /\ \/ pc = "signature" /\ Construct(2 * Half + 1, buf, blob', "print")
     \/ pc = "public" /\ Construct(2 * Half, buf, blob', "print")
  /\ UNCHANGED <<secret, secretKey, digest, buf, text, made>>

\* operator<<: toHex.
Stream ==
  /\ pc = "print"
  /\ text' = Hex(blob, lowercase)
  /\ pc' = "done"
  /\ UNCHANGED <<secret, secretKey, digest, buf, blob, made>>

Next == MakeSecretKey \/ MakeDigest \/ Sign \/ Derive \/ MakeBlob \/ Stream

Spec == Init /\ [][Next]_vars

-----------------------------------------------------------------------------
(* Properties *)

\* The secret is the upper-case text of a scalar.
IsKey == \E k \in Scalars : secret = Hex(k, hexes)

\* What a reader of hexadecimal digits of either case makes of a text.
Digit(c) == CHOOSE n \in 0..15 : c \in {hexes[n + 1], lowercase[n + 1]}
Read(str) == [i \in 1..Len(str) \div 2 |-> 16 * Digit(str[2 * i - 1]) + Digit(str[2 * i])]

\* Only the secret decides: for the upper-case text of a scalar every conversion on the
\* way succeeds and what is printed reads as what the curve made, for any other text
\* nothing is printed.  The texts are written by three different encoders and read by
\* one that knows a single case and a single length (byteset.hpp:26-69,
\* signature.cpp:29-57, keys.cpp:22-48, digest.cpp:10-29).
KeyDecides ==
  /\ pc = "threw" => ~IsKey
  /\ pc = "done" => IsKey /\ Read(text) = made
=============================================================================
