---------------------------- MODULE TracingSetup ----------------------------
(***************************************************************************)
(* `traces setup' and its subcommands claude and codex                     *)
(* (internal/cmd/setup.go, setup_claude.go, setup_codex.go): the key, the  *)
(* endpoint and the project are resolved, the user confirms, and they are  *)
(* merged into the JSON file of each agent, which is read, changed and     *)
(* written as a whole; then the agent's plugin is installed. Runs may      *)
(* overlap and be killed. In user scope a file is written in place, in a   *)
(* project it is replaced by a rename. config.toml is in CodexToml, which  *)
(* credentials are resolved in CredentialUse.                              *)
(***************************************************************************)
EXTENDS Integers, Sequences

CONSTANTS
  SetupRuns,   \* runs of the command
  SetupInputs  \* what they are given: see SetupInput

VARIABLES
  agents,  \* the JSON file of each agent in the scope the runs use
  traces,  \* each run
  place    \* whether that scope is a project, and the files hold something of the user

traceVars == <<agents, traces, place>>

Agents == {"claude", "codex"}

DefaultEndpoint == "default"

\* What is not given, or not in a file.
NoValue == ""

\* The arguments KEY and URL (NoValue when not given), the flags --api-key and
\* --api-url, what environment and profile resolve to without them, whether the
\* profile only refers to its key, the agents and --yes.
SetupInput ==
  [keyArg : STRING, urlArg : STRING, keyFlag : STRING, urlFlag : STRING, key : STRING, url : STRING,
   refers : BOOLEAN, agents : {<<"claude">>, <<"codex">>, <<"claude", "codex">>}, yes : BOOLEAN]

ASSUME TracingAssumption == SetupInputs \subseteq SetupInput

\* The members of the file that setup owns, and one of the user.
Settings(key, endpoint, mine) == [state |-> "ok", key |-> key, endpoint |-> endpoint, mine |-> mine]

NoJSON == [state |-> "absent", key |-> NoValue, endpoint |-> NoValue, mine |-> FALSE]

Truncated == [NoJSON EXCEPT !.state = "empty"]

HalfWritten == [NoJSON EXCEPT !.state = "torn"]

NotRun == [pc |-> "start", todo |-> <<>>, key |-> NoValue, endpoint |-> NoValue, doc |-> NoJSON, wrote |-> {}]

TraceInit ==
  /\ place \in [project : BOOLEAN, mine : BOOLEAN]
  /\ agents = [a \in Agents |-> IF place.mine THEN Settings(NoValue, NoValue, TRUE) ELSE NoJSON]
  /\ traces = [r \in SetupRuns |-> NotRun]

-----------------------------------------------------------------------------
\* resolveSetupOptions: a positional argument and its flag exclude each other;
\* a profile that keeps its key out of files needs the key spelled out.

SetupGiven(arg, flag, other) == IF arg # NoValue THEN arg ELSE IF flag # NoValue THEN flag ELSE other

RefusesOptions(in) ==
  \/ in.keyArg # NoValue /\ in.keyFlag # NoValue
  \/ in.urlArg # NoValue /\ in.urlFlag # NoValue
  \/ in.refers /\ in.keyArg = NoValue /\ in.keyFlag = NoValue
  \/ SetupGiven(in.keyArg, in.keyFlag, in.key) = NoValue

\* The confirmation, which --yes gives; without a terminal it is refused.
ResolveSetup(r, in) ==
  /\ traces[r].pc = "start"
  /\ IF RefusesOptions(in)
     THEN traces' = [traces EXCEPT ![r].pc = "failed"]
     ELSE \E confirmed \in {TRUE, in.yes} :
            traces' = [traces EXCEPT ![r] =
              IF confirmed
              THEN [pc |-> "read", todo |-> in.agents, key |-> SetupGiven(in.keyArg, in.keyFlag, in.key),
                    endpoint |-> SetupGiven(in.urlArg, in.urlFlag, in.url), doc |-> NoJSON, wrote |-> {}]
              ELSE [NotRun EXCEPT !.pc = "failed"]]
  /\ UNCHANGED <<agents, place>>

-----------------------------------------------------------------------------
\* mergeJSONFile.

Agent(r) == Head(traces[r].todo)

\* The next agent, or the end; one agent's failure does not stop the other.
NextAgent(r, wrote) ==
  LET rest == Tail(traces[r].todo)
      next == IF rest = <<>> THEN [NotRun EXCEPT !.pc = IF wrote = {} THEN "failed" ELSE "done"]
              ELSE [traces[r] EXCEPT !.pc = "read", !.todo = rest, !.doc = NoJSON, !.wrote = wrote]
  IN  traces' = [traces EXCEPT ![r] = next]

\* An empty file is an empty document; one that does not parse is an error, and
\* so is a symbolic link in a project.
ReadSettings(r) ==
  /\ traces[r].pc = "read"
  /\ \/ /\ agents[Agent(r)].state # "torn"
        /\ traces' = [traces EXCEPT ![r].pc = "merge", ![r].doc = agents[Agent(r)]]
     \/ NextAgent(r, traces[r].wrote)
  /\ UNCHANGED <<agents, place>>

\* writeClaudeSettings and writeCodexCredentials: the default endpoint is stored
\* as none, which takes an earlier one away.
StoredEndpoint(endpoint) == IF endpoint = DefaultEndpoint THEN NoValue ELSE endpoint

Merged(doc, key, endpoint) == Settings(key, StoredEndpoint(endpoint), doc.mine)

\* writeConfigFile: os.WriteFile truncates, then writes, which may fail half
\* way; what another run wrote in between may be longer and stick out.
\* atomicWriteFile renames a whole file over the old one.
WriteSettings(r) ==
  LET run == traces[r]
      merged == Merged(run.doc, run.key, run.endpoint)
  IN  /\ \/ /\ run.pc = "merge" /\ ~place.project
            /\ agents' = [agents EXCEPT ![Agent(r)] = Truncated]
            /\ traces' = [traces EXCEPT ![r].pc = "write"]
         \/ /\ run.pc = "write" \/ (run.pc = "merge" /\ place.project)
            /\ \/ agents' = [agents EXCEPT ![Agent(r)] = merged]
               \/ ~place.project /\ agents[Agent(r)].state # "empty" /\ agents' = [agents EXCEPT ![Agent(r)] = HalfWritten]
            /\ traces' = [traces EXCEPT ![r].pc = "install"]
         \/ /\ run.pc \in {"merge", "write"}
            /\ \/ UNCHANGED agents
               \/ run.pc = "write" /\ agents' = [agents EXCEPT ![Agent(r)] = HalfWritten]
            /\ NextAgent(r, run.wrote)
      /\ UNCHANGED place

\* config.toml (codex) and the agent's own install; its failure is reported only.
Install(r) ==
  /\ traces[r].pc = "install"
  /\ NextAgent(r, traces[r].wrote \cup {Agent(r)})
  /\ UNCHANGED <<agents, place>>

Killed(r) ==
  /\ traces[r].pc \in {"read", "merge", "write", "install"}
  /\ traces' = [traces EXCEPT ![r] = [NotRun EXCEPT !.pc = "failed"]]
  /\ UNCHANGED <<agents, place>>

TraceNext ==
  \E r \in SetupRuns :
    \/ \E in \in SetupInputs : ResolveSetup(r, in)
    \/ ReadSettings(r) \/ WriteSettings(r) \/ Install(r) \/ Killed(r)

TraceSpec == TraceInit /\ [][TraceNext]_traceVars

-----------------------------------------------------------------------------
\* Properties.

TraceTypeOK ==
  /\ \A a \in Agents : agents[a].state \in {"ok", "absent", "empty", "torn"} /\ agents[a].mine \in BOOLEAN
  /\ \A r \in SetupRuns : traces[r].pc \in {"start", "read", "merge", "write", "install", "done", "failed"}

\* The endpoints that some input pairs the key with.
EndpointsOf(key) ==
  {StoredEndpoint(SetupGiven(in.urlArg, in.urlFlag, in.url)) :
     in \in {i \in SetupInputs : ~RefusesOptions(i) /\ SetupGiven(i.keyArg, i.keyFlag, i.key) = key}}

(***************************************************************************)
(* The agent is never told to send the key of one run to the endpoint of   *)
(* another, and in a project, whose files are replaced at once, what the   *)
(* user had in them stays, with runs that overlap and runs that are killed *)
(* (mergeJSONFile, writeConfigFile).                                       *)
(***************************************************************************)
KeyGoesToItsEndpoint ==
  \A a \in Agents :
    /\ agents[a].state = "ok" /\ agents[a].key # NoValue => agents[a].endpoint \in EndpointsOf(agents[a].key)
    /\ place.project /\ place.mine => agents[a].state = "ok" /\ agents[a].mine
=============================================================================
