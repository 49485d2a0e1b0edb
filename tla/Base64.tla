------------------------------- MODULE Base64 -------------------------------
(***************************************************************************)
(* crypto/base64.cpp: Config decodes the validator token with it.  decode  *)
(* runs over its input one character at a time, into a buffer that         *)
(* base64_decode has sized beforehand; its scratch array c4 starts         *)
(* uninitialised.  Characters and octets are numbers below 256.            *)
(***************************************************************************)
EXTENDS Integers, Sequences

CONSTANTS
  Texts,     \* what may be given to decode
  Messages,  \* what may be given to encode
  Garbage    \* what an uninitialised octet may hold

Octet == 0..255
Sextet == 0..63

ASSUME Base64Assumption ==
  /\ Texts \subseteq Seq(Octet)
  /\ Messages \subseteq Seq(Octet)
  /\ Garbage \subseteq Octet

VARIABLES
  text,  \* the input
  read,  \* characters consumed, in - src
  i,     \* characters of the current group in c4
  c4,    \* the current group
  dest,  \* octets written, out - dest of them
  pc     \* "loop", "tail" or "done"

vars == <<text, read, i, c4, dest, pc>>

Pad == 61  \* '='

\* get_alphabet.
get_alphabet(v) ==
  CASE v < 26 -> v + 65
    [] v \in 26..51 -> v + 71
    [] v \in 52..61 -> v - 4
    [] v = 62 -> 43
    [] OTHER -> 47

\* get_inverse.
get_inverse(c) ==
  CASE c \in 65..90 -> c - 65
    [] c \in 97..122 -> c - 71
    [] c \in 48..57 -> c + 4
    [] c = 43 -> 62
    [] c = 47 -> 63
    [] OTHER -> -1

encoded_size(n) == 4 * ((n + 2) \div 3)
decoded_size(n) == 3 * (n \div 4) + 2

-----------------------------------------------------------------------------
(* encode                                                                   *)

\* The octet at offset p, zero after the end.
At(s, p) == IF p < Len(s) THEN s[p + 1] ELSE 0

\* Mutant: a message that is one octet too long for a group ends in one '='.
EncodedCharMutant(s, k) ==
  LET g == 3 * (k \div 4)
  IN  CASE k % 4 = 0 -> get_alphabet(At(s, g) \div 4)
        [] k % 4 = 1 -> get_alphabet((16 * (At(s, g) % 4)) + (At(s, g + 1) \div 16))
        [] k % 4 = 2 -> get_alphabet((4 * (At(s, g + 1) % 16)) + (At(s, g + 2) \div 64))
        [] OTHER -> IF g + 2 < Len(s) THEN get_alphabet(At(s, g + 2) % 64) ELSE Pad

\* The character at offset k: four for three octets, the last group filled up
\* with '='.
EncodedChar(s, k) ==
  LET g == 3 * (k \div 4)
  IN  CASE k % 4 = 0 -> get_alphabet(At(s, g) \div 4)
        [] k % 4 = 1 -> get_alphabet((16 * (At(s, g) % 4)) + (At(s, g + 1) \div 16))
        [] k % 4 = 2 -> IF g + 1 < Len(s)
                        THEN get_alphabet((4 * (At(s, g + 1) % 16)) + (At(s, g + 2) \div 64))
                        ELSE Pad
        [] OTHER -> IF g + 2 < Len(s) THEN get_alphabet(At(s, g + 2) % 64) ELSE Pad

Encode(s) == [k \in 1..encoded_size(Len(s)) |-> EncodedChar(s, k - 1)]

-----------------------------------------------------------------------------
(* decode                                                                   *)

Init ==
  /\ text \in Texts
  /\ read = 0
  /\ i = 0
  /\ c4 \in [0..3 -> Garbage]
  /\ dest = <<>>
  /\ pc = "loop"

\* c3, computed from a group in unsigned chars.
Group(c) ==
  << (4 * c[0] + ((c[1] \div 16) % 4)) % 256,
     (16 * (c[1] % 16) + ((c[2] \div 4) % 16)) % 256,
     (64 * (c[2] % 4) + c[3]) % 256 >>

\* The loop reads on: there is a character and it belongs to the alphabet.
Readable == read < Len(text) /\ get_inverse(text[read + 1]) # -1

\* Mutant: the group is kept after it has been written.
TakeMutant ==
  /\ pc = "loop"
  /\ Readable
  /\ LET group == [c4 EXCEPT ![i] = get_inverse(text[read + 1])]
     IN  /\ c4' = group
         /\ IF i = 3
            THEN i' = 1 /\ dest' = dest \o Group(group)
            ELSE i' = i + 1 /\ UNCHANGED dest
  /\ read' = read + 1
  /\ UNCHANGED <<text, pc>>

\* A character goes into the group; the fourth completes it.
Take ==
  /\ pc = "loop"
  /\ Readable
  /\ LET group == [c4 EXCEPT ![i] = get_inverse(text[read + 1])]
     IN  /\ c4' = group
         /\ IF i = 3
            THEN i' = 0 /\ dest' = dest \o Group(group)
            ELSE i' = i + 1 /\ UNCHANGED dest
  /\ read' = read + 1
  /\ UNCHANGED <<text, pc>>

\* '=', a character outside the alphabet, or the end.
Stop ==
  /\ pc = "loop"
  /\ ~Readable
  /\ pc' = "tail"
  /\ UNCHANGED <<text, read, i, c4, dest>>

\* Mutant: as many octets as characters are left.
FlushMutant ==
  /\ pc = "tail"
  /\ dest' = IF i = 0 THEN dest ELSE dest \o SubSeq(Group(c4), 1, i)
  /\ pc' = "done"
  /\ UNCHANGED <<text, read, i, c4>>

\* What an unfinished group determines: one octet less than characters.
Flush ==
  /\ pc = "tail"
  /\ dest' = IF i = 0 THEN dest ELSE dest \o SubSeq(Group(c4), 1, i - 1)
  /\ pc' = "done"
  /\ UNCHANGED <<text, read, i, c4>>

Next == Take \/ Stop \/ Flush

Spec == Init /\ [][Next]_vars

-----------------------------------------------------------------------------
(* Properties *)

\* Every variable stays in its range, the index of the group included
\* (base64.cpp:190-223).
TypeOK ==
  /\ text \in Seq(Octet)
  /\ read \in 0..Len(text)
  /\ i \in 0..3
  /\ c4 \in [0..3 -> Octet]
  /\ dest \in Seq(Octet)
  /\ pc \in {"loop", "tail", "done"}

\* decode writes no more than base64_decode has made room for, whatever the text
\* and wherever it breaks off (base64.cpp:117-121, 178-179, 243).
WritesInBounds == Len(dest) <= decoded_size(Len(text))

\* The six bits of the character of t at offset p.
SextetAt(t, p) == get_inverse(t[p + 1])

\* The eight bits at offset 8 * k of the sextets laid end to end.
OctetAt(t, k) ==
  LET s == (8 * k) \div 6
      below == CASE (8 * k) % 6 = 0 -> 16 [] (8 * k) % 6 = 2 -> 4 [] OTHER -> 1
  IN  ((64 * SextetAt(t, s) + SextetAt(t, s + 1)) \div below) % 256

\* The result is the bit stream of the characters read, cut to whole octets.
\* No bit of it comes from the uninitialised part of c4 (base64.cpp:190, 215-223).
DecodesStream ==
  pc = "done" =>
    /\ Len(dest) = (6 * read) \div 8
    /\ \A k \in 1..Len(dest) : dest[k] = OctetAt(text, k - 1)

Encodings == {<<m, Encode(m)>> : m \in Messages}

\* What has been encoded decodes to itself, the three endings of a text included
\* (base64.cpp:135-227).
RoundTrip ==
  pc = "done" => \A e \in Encodings : e[2] = text => dest = e[1]

\* Why the above hold, as an inductive invariant: where the characters read so
\* far are, in octets written or in the group.
Collected ==
  /\ \A p \in 0..read - 1 : SextetAt(text, p) \in Sextet
  /\ \A k \in 1..Len(dest) : dest[k] = OctetAt(text, k - 1)
  /\ \A k \in 0..i - 1 : c4[k] = SextetAt(text, read - i + k)
  /\ i = read % 4
  /\ pc # "done" => Len(dest) = 3 * (read \div 4)
  /\ pc = "done" => Len(dest) = (6 * read) \div 8
  /\ pc # "loop" => ~Readable

\* The invariant the theorems of ConversionsProofs rest on (base64.cpp:185-227).
IndInv == TypeOK /\ Collected
=============================================================================
