-------------------------------- MODULE Main --------------------------------
(***************************************************************************)
(* main (src/valmond/main.cpp): the arguments one by one, then the         *)
(* configuration, then the agent or a signature.  Loading is Config, step  *)
(* by step; an exception nobody catches ends the process.                  *)
(***************************************************************************)
EXTENDS Config

CONSTANTS
  Starts,  \* pairs of a command line, without the program's name, and the files
  Keys     \* the secrets SecretKey and secp256k1 accept

ASSUME StartsAssumption == \A s \in Starts : s[1] \in Seq(STRING) /\ s[2] \in Disks

VARIABLES
  argv,         \* the command line
  count,        \* the argument looked at next
  arguments,    \* the map built from them
  signMessage,  \* what is to be signed, "" without a request
  step          \* "parse", "load", "choose", "sign", or how it went on: "help",
                \* "signed", "agent", or "aborted" by an exception

command == <<argv, count, arguments, signMessage>>
mainVars == <<vars, command, step>>

DEFAULT_CONFIG_FILE == "/etc/opt/valmond/valmond.cfg"
CONFIG_FILE_PATH_ARGUMENT == "configFilePath"
SIGN_MESSAGE_ARGUMENT == "signCommand"
HELP_ARGUMENT == "help"

\* What init.sh starts the agent with: -pidfile $PIDFILE.
InitArguments == <<"-pidfile", "/var/run/valmond/valmond.pid">>

MainInit ==
  /\ \E s \in Starts : argv = s[1] /\ disk = s[2]
  /\ count = 1
  /\ arguments = <<>>
  /\ signMessage = ""
  /\ step = "parse"
  /\ pc = "open"
  /\ cfgFile = DEFAULT_CONFIG_FILE
  /\ Defaults

\* Mutant: a later value replaces an earlier one.
InsertMutant(map, key, value) ==
  [k \in DOMAIN map \cup {key} |-> IF k = key THEN value ELSE map[k]]

\* std::map::insert: a key that is there keeps its value.
Insert(map, key, value) ==
  [k \in DOMAIN map \cup {key} |-> IF k \in DOMAIN map THEN map[k] ELSE value]

\* The argument looked at is one of names and another one follows it.
Option(names) == argv[count] \in names /\ count + 1 <= Len(argv)

\* An option and its value.
TakeValue(names, key) ==
  /\ Option(names)
  /\ arguments' = Insert(arguments, key, argv[count + 1])
  /\ count' = count + 2
  /\ UNCHANGED step

TakeHelp ==
  /\ argv[count] \in {"-h", "--help"}
  /\ arguments' = Insert(arguments, HELP_ARGUMENT, "true")
  /\ count' = count + 1
  /\ UNCHANGED step

\* Anything else, a last option without its value too: USAGE_MESSAGE is thrown.
Usage ==
  /\ argv[count] \notin {"-h", "--help"}
  /\ ~Option({"-c", "--config", "sign"})
  /\ step' = "aborted"
  /\ UNCHANGED <<count, arguments>>

\* One argument.
Parse ==
  /\ step = "parse" /\ count <= Len(argv)
  /\ \/ TakeValue({"-c", "--config"}, CONFIG_FILE_PATH_ARGUMENT)
     \/ TakeValue({"sign"}, SIGN_MESSAGE_ARGUMENT)
     \/ TakeHelp
     \/ Usage
  /\ UNCHANGED <<vars, argv, signMessage>>

\* v unless the map has a value for the key.
ValueOr(key, v) == IF key \in DOMAIN arguments THEN arguments[key] ELSE v

\* All arguments have been looked at.
Parsed ==
  /\ step = "parse" /\ count > Len(argv)
  /\ IF HELP_ARGUMENT \in DOMAIN arguments
     THEN step' = "help" /\ UNCHANGED <<signMessage, cfgFile>>
     ELSE /\ step' = "load"
          /\ cfgFile' = ValueOr(CONFIG_FILE_PATH_ARGUMENT, cfgFile)
          /\ signMessage' = ValueOr(SIGN_MESSAGE_ARGUMENT, signMessage)
  /\ UNCHANGED <<argv, count, arguments, pc, disk, own, theirs, at, properties, strSection,
                 validatorToken, rpc, validation_secret_key>>

\* Config::getInstance: a step of the constructor.
Load ==
  /\ step = "load"
  /\ Construct
  /\ step' = CASE pc' = "done" -> "choose" [] pc' = "threw" -> "aborted" [] OTHER -> step
  /\ UNCHANGED command

\* A signature if there is something to sign, the agent if not.
Choose ==
  /\ step = "choose"
  /\ step' = IF signMessage = "" THEN "agent" ELSE "sign"
  /\ UNCHANGED <<vars, command>>

\* signContent.
SignContent ==
  /\ step = "sign"
  /\ step' = IF validation_secret_key \in Keys THEN "signed" ELSE "aborted"
  /\ UNCHANGED <<vars, command>>

MainNext == Parse \/ Parsed \/ Load \/ Choose \/ SignContent

MainSpec == MainInit /\ [][MainNext]_mainVars

-----------------------------------------------------------------------------
(* Properties *)

\* Where, among the first n places, an argument stands for itself: in front, behind
\* one that takes no value, and behind an option and its value.
Stands(P, n) ==
  /\ P \subseteq 1..n
  /\ \A k \in 1..n :
       k \in P <=> \/ k = 1
                   \/ k - 1 \in P /\ argv[k - 1] \in {"-h", "--help"}
                   \/ k - 2 \in P /\ argv[k - 2] \in {"-c", "--config", "sign"}

\* All those places; that behind the last argument is one of them unless the command
\* line ends in the middle of an option.
Standing == CHOOSE P \in SUBSET (1..Len(argv) + 1) : Stands(P, Len(argv) + 1)

\* Where the options called one of names stand, with their values behind them.
Uses(names) == {k \in Standing \cap 1..Len(argv) - 1 : argv[k] \in names}

\* The value of the first of them.
First(S) == CHOOSE k \in S : \A m \in S : k <= m

FirstValue(names, default) ==
  IF Uses(names) = {} THEN default ELSE argv[First(Uses(names)) + 1]

\* Whatever runs in the end runs with the file of the first -c or --config, signs
\* the content of the first sign, and does so with files that are complete; a word
\* that is the value of an option is never taken for an option
\* (main.cpp:85-150, config.cpp:169-179).
RunsAsAsked ==
  step \in {"choose", "sign", "signed", "agent"} =>
    /\ cfgFile = FirstValue({"-c", "--config"}, DEFAULT_CONFIG_FILE)
    /\ signMessage = FirstValue({"sign"}, "")
    /\ step = "agent" => signMessage = ""
    /\ FilesComplete

\* "if it's not sign start the agent": a request to sign never starts it
\* (main.cpp:140-148).
SignRequestNeverStartsAgent == step = "agent" => Uses({"sign"}) = {}

\* "valmond process was started": with the arguments of init.sh the agent starts if its
\* files are complete (init.sh:152-157).
InitScriptStartsAgent == argv = InitArguments /\ FilesComplete => step # "aborted"

\* Why RunsAsAsked holds: the map has the options that stand before the argument looked
\* at, which is one that stands for itself.
InMap(P, key, names) ==
  LET S == {k \in P : k < count /\ argv[k] \in names}
  IN  /\ key \in DOMAIN arguments <=> S # {}
      /\ S # {} => \E k \in S : (\A m \in S : k <= m) /\ arguments[key] = argv[k + 1]

ParsedSoFar ==
  \E P \in SUBSET (1..count) :
    /\ \A Q \in SUBSET (1..count) : Stands(Q, count) <=> Q = P
    /\ count \in P
    /\ count - 1 \in P => argv[count - 1] \in {"-h", "--help"}
    /\ InMap(P, CONFIG_FILE_PATH_ARGUMENT, {"-c", "--config"})
    /\ InMap(P, SIGN_MESSAGE_ARGUMENT, {"sign"})

\* The invariant of main, beside that of the constructor (main.cpp:80-150).
MainInv ==
  /\ argv \in Seq(STRING)
  /\ step \in {"parse", "load", "choose", "sign", "help", "signed", "agent", "aborted"}
  /\ step = "parse" =>
       /\ count \in 1..Len(argv) + 1
       /\ ParsedSoFar
       /\ pc = "open" /\ cfgFile = DEFAULT_CONFIG_FILE /\ signMessage = ""
  /\ step \in {"load", "choose", "sign", "signed", "agent"} =>
       /\ cfgFile = FirstValue({"-c", "--config"}, DEFAULT_CONFIG_FILE)
       /\ signMessage = FirstValue({"sign"}, "")
  /\ step \in {"choose", "sign", "signed", "agent"} => pc = "done"
  /\ step = "agent" => signMessage = ""
=============================================================================
