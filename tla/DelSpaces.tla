------------------------------ MODULE DelSpaces ------------------------------
(***************************************************************************)
(* delSpaces (src/common/config.cpp): the blanks around and between the    *)
(* words of a configuration line, erased in place while two loops run over *)
(* the positions the string had at first.                                  *)
(***************************************************************************)
EXTENDS Integers, SequencesExt

CONSTANTS
  Letters,   \* the characters other than a blank
  MaxLength  \* bound: the longest string

Blank == " "
Nul == "NUL"  \* the terminator

\* What is assumed of the constants.
DelSpacesAssumption == Blank \notin Letters /\ Nul \notin Letters /\ MaxLength \in Nat

Strings == UNION {[1..n -> Letters \cup {Blank}] : n \in 0..MaxLength}

VARIABLES
  text,  \* the string as it was given
  str,   \* the string as it is now
  j, i,  \* the loop variables
  pc     \* "loop" or "done"

vars == <<text, str, j, i, pc>>

size == Len(text)

\* str[k], k from 0.  Past its end a string that has shrunk is all terminators up to
\* the place of its first one; the byte before it is the high byte of its length.
Byte(k) == IF k + 1 \in 1..Len(str) THEN str[k + 1] ELSE Nul

Init ==
  /\ text \in Strings
  /\ str = text
  /\ j = 0
  /\ i = 0
  /\ pc = "loop"

\* Mutant: the blank at the end is not looked for.
TrailingMutant == FALSE

Doubled == Byte(i) = Blank /\ Byte(i + 1) = Blank
Leading == ~Doubled /\ Byte(0) = Blank
Trailing == ~Doubled /\ ~Leading /\ Byte(i) = Nul /\ Byte(i - 1) = Blank

\* One turn of the inner loop: at most one character is erased.
Erase ==
  str' = CASE Doubled  -> RemoveAt(str, i + 1)
           [] Leading  -> Tail(str)
           [] Trailing -> Front(str)
           [] OTHER    -> str

\* The positions in the order the loops visit them.
Advance ==
  IF i < j THEN i' = i + 1 /\ UNCHANGED <<j, pc>>
  ELSE IF j < size THEN j' = j + 1 /\ i' = 0 /\ UNCHANGED pc
  ELSE pc' = "done" /\ UNCHANGED <<i, j>>

Turn ==
  /\ pc = "loop"
  /\ Erase
  /\ Advance
  /\ UNCHANGED text

Next == Turn

Spec == Init /\ [][Next]_vars

-----------------------------------------------------------------------------
(* Properties *)

\* What trimming and collapsing blanks keeps of a string, in one look: its letters,
\* and of each gap between two of them the last blank.
Kept(t) ==
  {k \in 1..Len(t) :
     \/ t[k] # Blank
     \/ /\ k < Len(t) /\ t[k + 1] # Blank
        /\ \E m \in 1..k : t[m] # Blank}
\* How many of some positions are up to one of them.
Rank(k, positions) == Cardinality({m \in positions : m <= k})

Trimmed(t) ==
  [n \in 1..Cardinality(Kept(t)) |-> t[CHOOSE k \in Kept(t) : Rank(k, Kept(t)) = n]]

\* Erasing while the loops run skips characters, yet the passes are enough: what is
\* returned is the string without its outer blanks and with single inner ones, which
\* the section names and keys are compared as (config.cpp:22-39, 73-120).
IsTrimmed == pc = "done" => str = Trimmed(text)
=============================================================================
