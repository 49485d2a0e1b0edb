------------------------------- MODULE MCMain -------------------------------
(* Command lines: every one of at most four words, with a good file at the    *)
(* default path, a good one, one with a secret that is no key and an          *)
(* incomplete one elsewhere.  Files: every agent's file of at most three      *)
(* lines with a few validator's files, and every validator's file of at most  *)
(* four lines, and some longer ones, with one agent's file.                   *)
EXTENDS Main, SequencesExt

CONSTANT MCMissing

Skip == [kind |-> "skip", name |-> "", value |-> ""]
Header(name) == [kind |-> "section", name |-> name, value |-> ""]
Text(name, value) == [kind |-> "text", name |-> name, value |-> value]
Word(w) == Text(w, w)
Server == Text("server_url", "u")
Validator(path) == Text("validator_config", path)

\* The files for the command lines.
Token(w) == <<Header("validator_token"), Word(w)>>
GoodDisk ==
  (DEFAULT_CONFIG_FILE :> <<Server, Validator("v")>>)
    @@ ("good" :> <<Validator("v"), Server>>)
    @@ ("sign" :> <<Server, Validator("k")>>)
    @@ ("v" :> Token("t")) @@ ("k" :> Token("b"))
CommandDisks ==
  {GoodDisk,
   (DEFAULT_CONFIG_FILE :> <<Server>>) @@ ("good" :> <<Server, Validator("v")>>)
     @@ ("v" :> Token("t")) @@ ("sign" :> MCMissing)}

\* The other files.
OwnLines ==
  {Skip, Text("heartbeat_interval", "60"), Text("heartbeat_interval", "x"),
   Server, Text("server_url", ""), Word("server_url"), Validator("v"), Validator("w")}
TheirLines ==
  {Header("validator_token"), Header("port_rpc_admin_local"),
   Word("[port_rpc_admin_local] "), Word("t1"), Word("t2"), Text("ip", "a"),
   Text("port", "p")}
Own1 == <<Server, Validator("v")>>
Theirs1 == <<Header("validator_token"), Word("t1"), Word("t2")>>
Interleaved ==
  <<Header("validator_token"), Word("t1"), Header("port_rpc_admin_local"), Text("ip", "a"),
    Header("validator_token"), Word("t2"), Text("ip", "b")>>
FileDisks ==
  {[c |-> o, v |-> t] : o \in BoundedSeq(OwnLines, 3), t \in {Theirs1, <<>>, MCMissing}}
    \cup {[c |-> Own1, v |-> t] : t \in BoundedSeq(TheirLines, 4) \cup {Interleaved}}
    \cup {[c |-> MCMissing]}

MCDisks == CommandDisks \cup FileDisks
MCLines ==
  OwnLines \cup TheirLines \cup {Text("ip", "b"), Validator("k"), Word("t"), Word("b")}
MCNumber == [v \in {l.value : l \in MCLines} |-> IF v = "60" THEN 60 ELSE 0]
MCSecrets ==
  (<<Word("t")>> :> "key") @@ (<<Word("b")>> :> "bad")
    @@ (<<Word("t1"), Word("t2")>> :> "key") @@ (<<Word("t2")>> :> "")

MCCommands == BoundedSeq({"-c", "--config", "sign", "-h", "good", ""}, 4) \X CommandDisks
MCStarts == MCCommands \cup ({<<"-c", "c">>} \X FileDisks)

\* The ways the two services start the agent, with good files.
MCServices == {<<>>, InitArguments} \X {GoodDisk}
=============================================================================
