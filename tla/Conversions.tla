---------------------------- MODULE Conversions ----------------------------
(***************************************************************************)
(* The conversions of text side by side: Base64, and next to it, without   *)
(* any state in common, delSpaces, which Config calls for every name and   *)
(* key, and the hexadecimal texts of keys, digests and signatures.         *)
(***************************************************************************)
EXTENDS Base64

CONSTANTS Letters, MaxLength, Bytes, Half, Secrets, Scalars

VARIABLES
  string, str, outer, inner, trimPc,
  secret, secretKey, digest, buf, blob, printed, keyPc, made

T == INSTANCE DelSpaces WITH text <- string, j <- outer, i <- inner, pc <- trimPc
K == INSTANCE Signing WITH text <- printed, pc <- keyPc

ASSUME ConversionsAssumption == T!DelSpacesAssumption /\ K!SigningAssumption

-----------------------------------------------------------------------------
(* Properties *)

\* DelSpaces: the result is the string without its outer blanks, with single inner
\* ones (config.cpp:22-39).
IsTrimmed == T!IsTrimmed

\* Signing: only the secret decides whether a signature or a key is printed
\* (byteset.hpp:26-69, signature.cpp:29-57, keys.cpp:22-48, digest.cpp:10-29).
KeyDecides == K!KeyDecides
=============================================================================
