---------------------------- MODULE MCConversions ----------------------------
(* The conversions of text, one at a time: they are calls that share no state. *)
(*                                                                             *)
(* Base64: every text of at most five characters out of two of the alphabet,   *)
(* '=' and a blank, and the encodings of every message of at most five octets. *)
(* DelSpaces: all strings of two letters and blanks, long enough for runs of   *)
(* blanks at the front, at the end and between words of two letters at once.   *)
(* Signing: blobs of a byte or two, with bytes that need a zero in front, have *)
(* letters or digits only; secrets of every length up to twice that of a key,  *)
(* in both cases.                                                              *)
EXTENDS Conversions

Seqs == INSTANCE SequencesExt

Characters == {47, 82, 61, 32}
MCMessages == Seqs!BoundedSeq({0, 77, 255}, 5)
MCTexts == Seqs!BoundedSeq(Characters, 5) \cup {Encode(m) : m \in MCMessages}
MCGarbage == {0, 255}

MCSecrets == Seqs!BoundedSeq({"0", "1", "A", "a", "g"}, 4)
MCScalars == {<<1>>, <<10>>, <<161>>}

VARIABLE conversion  \* the one that runs

trim == <<string, str, outer, inner, trimPc>>
sign == <<secret, secretKey, digest, buf, blob, printed, keyPc, made>>

NoText ==
  /\ text = <<>> /\ read = 0 /\ i = 0 /\ c4 = <<>> /\ dest = <<>> /\ pc = "idle"
NoString == string = <<>> /\ str = <<>> /\ outer = 0 /\ inner = 0 /\ trimPc = "idle"
NoKey ==
  /\ secret = <<>> /\ secretKey = <<>> /\ digest = <<>> /\ buf = <<>>
  /\ blob = <<>> /\ printed = <<>> /\ made = <<>> /\ keyPc = "idle"

MCInit ==
  \/ conversion = "base64" /\ Init /\ NoString /\ NoKey
  \/ conversion = "delSpaces" /\ NoText /\ T!Init /\ NoKey
  \/ conversion = "sign" /\ NoText /\ NoString /\ K!Init

MCNext ==
  /\ UNCHANGED conversion
  /\ \/ conversion = "base64" /\ Next /\ UNCHANGED <<trim, sign>>
     \/ conversion = "delSpaces" /\ T!Next /\ UNCHANGED <<vars, sign>>
     \/ conversion = "sign" /\ K!Next /\ UNCHANGED <<vars, trim>>

MCSpec == MCInit /\ [][MCNext]_<<conversion, vars, trim, sign>>
=============================================================================
