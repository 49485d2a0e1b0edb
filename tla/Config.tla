------------------------------- MODULE Config -------------------------------
(***************************************************************************)
(* The constructor of Config (src/common/config.cpp): the agent's own file,*)
(* then the validator's file it names, then the token found there.         *)
(*                                                                         *)
(* A line is a record.  "skip" is a blank line or a comment, "section" a   *)
(* line that begins with '[' and ends with ']', "text" any other; what     *)
(* stands before and after its first '=' is its name and value, trimmed as *)
(* DelSpaces shows, and a line without '=' is both at once.  A header with *)
(* a blank after its bracket is "text".                                    *)
(***************************************************************************)
EXTENDS Integers, Sequences, FiniteSets

CONSTANTS
  Lines,   \* the lines files are made of
  Disks,   \* path -> the lines of the file, or Missing
  Missing, \* what a path leads to that cannot be opened
  Number,  \* atoi: a value as an integer, 0 if it is none
  Secrets  \* token -> its validation_secret_key, "" if it has none

Values == {l.value : l \in Lines}

ASSUME LinesAssumption ==
  /\ Lines \subseteq [kind : {"skip", "section", "text"}, name : STRING, value : STRING]
  /\ Number \in [Values -> Int]

ASSUME DisksAssumption ==
  \A d \in Disks : \A p \in DOMAIN d : d[p] # Missing => d[p] \in Seq(Lines)

ASSUME SecretsAssumption ==
  \A t \in DOMAIN Secrets : t \in Seq(Lines) /\ t # <<>>

VARIABLES
  pc,       \* "open", "own", "named", "theirs", "done" or "threw"
  disk,     \* the files
  cfgFile,  \* the path the constructor was given
  own,      \* what has been opened as the agent's file
  theirs,   \* what has been opened as the validator's file
  at,       \* lines consumed of the file being read
  heartbeat_interval,
  server_url,
  validator_config_path,
  strSection,      \* the section the next line is in
  validatorToken,  \* the lines of the token
  validator_rpc_ip,
  validator_rpc_port,
  validation_secret_key

files == <<disk, cfgFile, own, theirs>>
properties == <<heartbeat_interval, server_url, validator_config_path>>
rpc == <<validator_rpc_ip, validator_rpc_port>>
vars == <<pc, files, at, properties, strSection, validatorToken, rpc, validation_secret_key>>

VALIDATOR_TOKEN_SECTION == "validator_token"
VALIDATOR_RPC_SECTION == "port_rpc_admin_local"

\* What opening a path gives.
Content(path) == IF path \in DOMAIN disk THEN disk[path] ELSE Missing

\* The members as the constructor sets them first.
Defaults ==
  /\ own = Missing
  /\ theirs = Missing
  /\ at = 0
  /\ heartbeat_interval = 5
  /\ server_url = ""
  /\ validator_config_path = ""
  /\ strSection = ""
  /\ validatorToken = <<>>
  /\ validator_rpc_ip = "127.0.0.1"
  /\ validator_rpc_port = "5005"
  /\ validation_secret_key = ""

Init ==
  /\ pc = "open"
  /\ disk \in Disks
  /\ cfgFile \in DOMAIN disk
  /\ Defaults

-----------------------------------------------------------------------------
Throw == pc' = "threw"

\* configFileStream.
Open ==
  /\ pc = "open"
  /\ own' = Content(cfgFile)
  /\ IF own' = Missing THEN Throw ELSE pc' = "own"
  /\ UNCHANGED <<disk, cfgFile, theirs, at, properties, strSection, validatorToken, rpc,
                 validation_secret_key>>

\* v if the line is text and named name, old otherwise.
Assign(line, name, v, old) == IF line.kind = "text" /\ line.name = name THEN v ELSE old

\* One line of the agent's file.
ReadOwn ==
  /\ pc = "own" /\ at < Len(own)
  /\ LET l == own[at + 1]
     IN  /\ heartbeat_interval' = Assign(l, "heartbeat_interval", Number[l.value], heartbeat_interval)
         /\ server_url' = Assign(l, "server_url", l.value, server_url)
         /\ validator_config_path' = Assign(l, "validator_config", l.value, validator_config_path)
  /\ at' = at + 1
  /\ UNCHANGED <<pc, files, strSection, validatorToken, rpc, validation_secret_key>>

\* Mutant: one mandatory property is enough.
ValidateMutant ==
  /\ pc = "own" /\ at = Len(own)
  /\ IF server_url = "" /\ validator_config_path = "" THEN Throw ELSE pc' = "named"
  /\ UNCHANGED <<files, at, properties, strSection, validatorToken, rpc, validation_secret_key>>

\* validateProperties.
Validate ==
  /\ pc = "own" /\ at = Len(own)
  /\ IF server_url = "" \/ validator_config_path = "" THEN Throw ELSE pc' = "named"
  /\ UNCHANGED <<files, at, properties, strSection, validatorToken, rpc, validation_secret_key>>

\* validatorConfigFileStream.
OpenValidator ==
  /\ pc = "named"
  /\ theirs' = Content(validator_config_path)
  /\ at' = 0
  /\ IF theirs' = Missing THEN Throw ELSE pc' = "theirs"
  /\ UNCHANGED <<disk, cfgFile, own, properties, strSection, validatorToken, rpc,
                 validation_secret_key>>

\* Mutant: ip and port are taken from any section.
ReadTheirsMutant ==
  /\ pc = "theirs" /\ at < Len(theirs)
  /\ LET l == theirs[at + 1]
     IN  /\ strSection' = IF l.kind = "section" THEN l.name ELSE strSection
         /\ validatorToken' = IF l.kind = "text" /\ strSection = VALIDATOR_TOKEN_SECTION
                              THEN Append(validatorToken, l) ELSE validatorToken
         /\ validator_rpc_ip' = Assign(l, "ip", l.value, validator_rpc_ip)
         /\ validator_rpc_port' = Assign(l, "port", l.value, validator_rpc_port)
  /\ at' = at + 1
  /\ UNCHANGED <<pc, files, properties, validation_secret_key>>

\* Mutant: a section starts the token anew.
ReadTheirsAnewMutant ==
  /\ pc = "theirs" /\ at < Len(theirs)
  /\ LET l == theirs[at + 1]
     IN  /\ strSection' = IF l.kind = "section" THEN l.name ELSE strSection
         /\ validatorToken' =
              CASE l.kind = "section" /\ l.name = VALIDATOR_TOKEN_SECTION -> <<>>
                [] l.kind = "text" /\ strSection = VALIDATOR_TOKEN_SECTION -> Append(validatorToken, l)
                [] OTHER -> validatorToken
  /\ at' = at + 1
  /\ UNCHANGED <<pc, files, properties, rpc, validation_secret_key>>

\* One line of the validator's file.
ReadTheirs ==
  /\ pc = "theirs" /\ at < Len(theirs)
  /\ LET l == theirs[at + 1]
     IN  /\ strSection' = IF l.kind = "section" THEN l.name ELSE strSection
         /\ validatorToken' = IF l.kind = "text" /\ strSection = VALIDATOR_TOKEN_SECTION
                              THEN Append(validatorToken, l) ELSE validatorToken
         /\ IF strSection = VALIDATOR_RPC_SECTION
            THEN /\ validator_rpc_ip' = Assign(l, "ip", l.value, validator_rpc_ip)
                 /\ validator_rpc_port' = Assign(l, "port", l.value, validator_rpc_port)
            ELSE UNCHANGED rpc
  /\ at' = at + 1
  /\ UNCHANGED <<pc, files, properties, validation_secret_key>>

\* The tokens that lines, decoded, begin with: decoding stops at the first
\* character that is not base64, and the parser at the end of the object.
Parses(tokenLines) ==
  {t \in DOMAIN Secrets : Len(t) <= Len(tokenLines) /\ SubSeq(tokenLines, 1, Len(t)) = t}

\* base64_decode and the parser.
Decode ==
  /\ pc = "theirs" /\ at = Len(theirs)
  /\ IF Parses(validatorToken) = {}
     THEN Throw /\ UNCHANGED validation_secret_key
     ELSE /\ pc' = "done"
          /\ \E t \in Parses(validatorToken) : validation_secret_key' = Secrets[t]
  /\ UNCHANGED <<files, at, properties, strSection, validatorToken, rpc>>

Construct == Open \/ ReadOwn \/ Validate \/ OpenValidator \/ ReadTheirs \/ Decode

Next == Construct

Spec == Init /\ [][Next]_vars

-----------------------------------------------------------------------------
(* Properties *)

\* What a string may be: a default, or what a file holds.
Words ==
  {"", "127.0.0.1", "5005"} \cup Values \cup {l.name : l \in Lines}
    \cup {Secrets[t] : t \in DOMAIN Secrets}

\* Every variable stays in its range (config.hpp:28-34, config.cpp:43-162).
TypeOK ==
  /\ pc \in {"open", "own", "named", "theirs", "done", "threw"}
  /\ \A p \in DOMAIN disk : disk[p] # Missing => disk[p] \in Seq(Lines)
  /\ pc \in {"own", "named", "theirs", "done"} => own \in Seq(Lines)
  /\ pc \in {"theirs", "done"} => theirs \in Seq(Lines)
  /\ at \in Nat
  /\ pc = "own" => at <= Len(own)
  /\ pc = "theirs" => at <= Len(theirs)
  /\ heartbeat_interval \in Int
  /\ {server_url, validator_config_path, strSection} \subseteq Words
  /\ {validator_rpc_ip, validator_rpc_port, validation_secret_key} \subseteq Words
  /\ validatorToken \in Seq(Lines)

Latest(S) == CHOOSE k \in S : \A m \in S : m <= k

\* The first n lines of ls that give a property, and what the last of them says.
Givers(ls, n, name) == {k \in 1..n : ls[k].kind = "text" /\ ls[k].name = name}
Given(S, ls, default) == IF S = {} THEN default ELSE ls[Latest(S)].value

\* The section the lines after line n are in.
Heads(ls, n) == {k \in 1..n : ls[k].kind = "section"}
SectionAfter(ls, n) == IF Heads(ls, n) = {} THEN "" ELSE ls[Latest(Heads(ls, n))].name

GiversIn(ls, n, section, name) ==
  {k \in Givers(ls, n, name) : SectionAfter(ls, k - 1) = section}

\* The members are what the first n lines of the agent's file say.
OwnAsWritten(n) ==
  /\ heartbeat_interval =
       LET S == Givers(own, n, "heartbeat_interval")
       IN  IF S = {} THEN 5 ELSE Number[own[Latest(S)].value]
  /\ server_url = Given(Givers(own, n, "server_url"), own, "")
  /\ validator_config_path = Given(Givers(own, n, "validator_config"), own, "")

\* The address is what the first n lines of the validator's file say.
TheirsAsWritten(n) ==
  /\ validator_rpc_ip =
       Given(GiversIn(theirs, n, VALIDATOR_RPC_SECTION, "ip"), theirs, "127.0.0.1")
  /\ validator_rpc_port =
       Given(GiversIn(theirs, n, VALIDATOR_RPC_SECTION, "port"), theirs, "5005")

\* A property has the value its last line gives it, an address only from lines
\* under the section of the RPC port, and the default without any
\* (config.cpp:45-86, 101-142).
PropertiesAsWritten ==
  /\ pc \in {"named", "theirs", "done"} => OwnAsWritten(Len(own))
  /\ pc = "done" => TheirsAsWritten(Len(theirs))

\* The lines of the token among the first n: text under the headers of its section.
TokenPlaces(ls, n) ==
  {k \in 1..n : ls[k].kind = "text" /\ SectionAfter(ls, k - 1) = VALIDATOR_TOKEN_SECTION}

\* The j-th of some numbers.
Place(S, j) == CHOOSE k \in {i \in S : Cardinality({m \in S : m <= i}) = j} : TRUE

TokenLines(ls, n) ==
  LET S == TokenPlaces(ls, n)
  IN  [j \in 1..Cardinality(S) |-> ls[Place(S, j)]]

\* The token is all the text of its section in the order of the file, also when
\* other sections stand between, and the secret is that token's
\* (config.cpp:107-120, 147-161).
TokenAsWritten ==
  pc = "done" =>
    /\ validatorToken = TokenLines(theirs, Len(theirs))
    /\ \E t \in Parses(validatorToken) : validation_secret_key = Secrets[t]

\* The files are complete: both mandatory properties, a validator file and a token in it
\* that parses.  Of the secret in the token nothing is asked, not even that there is one:
\* whoever signs with it finds out.
FilesComplete ==
  /\ Content(cfgFile) # Missing
  /\ LET ls == Content(cfgFile)
         path == Given(Givers(ls, Len(ls), "validator_config"), ls, "")
     IN  /\ Given(Givers(ls, Len(ls), "server_url"), ls, "") # ""
         /\ path # ""
         /\ Content(path) # Missing
         /\ Parses(TokenLines(Content(path), Len(Content(path)))) # {}

\* The constructor throws for files that are not complete, in whatever order their lines
\* stand and sections interleave, and for no others: a token without a secret, or with one
\* that is no key, is accepted (config.cpp:53, 90-95, 154-161, 187-194).
RejectsTheIncomplete ==
  /\ pc = "done" => FilesComplete
  /\ pc = "threw" => ~FilesComplete

\* Why PropertiesAsWritten holds, as an inductive invariant: the members are what
\* the lines consumed so far say.
ReadSoFar ==
  /\ pc \in {"open", "own"} =>
       OwnAsWritten(IF pc = "own" THEN at ELSE 0)
  /\ pc \in {"named", "theirs", "done"} => OwnAsWritten(Len(own))
  /\ pc = "theirs" => TheirsAsWritten(at) /\ strSection = SectionAfter(theirs, at)
  /\ pc = "done" => TheirsAsWritten(Len(theirs))
  /\ pc \in {"open", "own", "named"} =>
       validator_rpc_ip = "127.0.0.1" /\ validator_rpc_port = "5005" /\ strSection = ""
  /\ pc = "open" => at = 0

\* The invariant the theorems of MainProofs rest on (config.cpp:56-142).
IndInv == TypeOK /\ ReadSoFar

\* Why the two others hold: the token is what the lines consumed so far say, the files
\* are those the paths lead to, and what has been accepted of them is complete.
TokenSoFar ==
  /\ pc \in {"open", "own", "named"} => validatorToken = <<>>
  /\ pc = "theirs" => validatorToken = TokenLines(theirs, at)
  /\ pc = "done" => validatorToken = TokenLines(theirs, Len(theirs))

AcceptedSoFar ==
  /\ pc \in {"own", "named", "theirs", "done"} => own = Content(cfgFile) /\ own # Missing
  /\ pc \in {"named", "theirs", "done"} => server_url # "" /\ validator_config_path # ""
  /\ pc \in {"theirs", "done"} => theirs = Content(validator_config_path) /\ theirs # Missing
  /\ pc = "done" => \E t \in Parses(validatorToken) : validation_secret_key = Secrets[t]
  /\ pc = "threw" => ~FilesComplete
=============================================================================
