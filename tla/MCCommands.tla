------------------------------ MODULE MCCommands ------------------------------
(***************************************************************************)
(* The commands beside login and `apps dev', for TLC: one part of the      *)
(* command-line tool at a time is active, and has its own instance; the    *)
(* others rest in one of their initial states. The parts share nothing but *)
(* the client and its credentials (CredentialUse), so one run explores     *)
(* them side by side.                                                      *)
(***************************************************************************)
EXTENDS AppsSync, SshConfig, SshAgentForward, Sandboxes, CodexToml, TracingSetup, ConnectorService,
        RunQueries, Evaluators, HubRepos, Datasets, Insights, ThreadMessages, Issues, TraceStats, RawApi,
        SpecCache, SelfUpdate, GeneratedCommands

CONSTANTS
  Parts,        \* the parts to explore
  r1, r2, r3,   \* runs of the commands of one part
  u1, u2, d1, d2

VARIABLE active \* the part that is explored

AllParts == {"apps", "ssh", "agent", "boxes", "toml", "tracing", "connector", "queries", "lookups", "evaluators", "hub", "datasets",
             "insights", "messages", "thread", "issues", "stats", "api", "spec", "update",
             "generated"}

ASSUME PartsAssumption == Parts \subseteq AllParts

TwoRuns == {r1, r2}

ThreeRuns == {r1, r2, r3}

RunSymmetry == Permutations(TwoRuns)

-----------------------------------------------------------------------------
\* Apps: two developers in one of two workspaces, who make and push apps with an
\* answer lost, pull them with one or with a process killed, pull what others
\* delete, share and claim, and clone a directory.
MCBudget(init, push, pull, manage, fault, clone) ==
  [init |-> init, push |-> push, pull |-> pull, manage |-> manage, fault |-> fault, clone |-> clone]

MCSyncBudgets ==
  {MCBudget(1, 3, 0, 0, 1, 0), MCBudget(1, 2, 1, 0, 1, 0), MCBudget(1, 1, 1, 1, 0, 0), MCBudget(1, 1, 0, 3, 0, 0),
   MCBudget(1, 2, 0, 0, 0, 1)}

\* Sandboxes: each command on one name, and creations with a console.
MCBox(cmd) ==
  [cmd |-> cmd, name |-> "b1", console |-> FALSE, snapshot |-> Unset, snapshotId |-> Unset, memory |-> Unset,
   rootfs |-> Unset, proxy |-> Unset, vcpus |-> Unset, delegate |-> FALSE, permissions |-> {}, port |-> 22, localPort |-> 0,
   expires |-> Unset, access |-> Unset, disposition |-> Unset, image |-> "v2", capacity |-> "4gb", command |-> <<"ls">>,
   env |-> {}, local |-> {"TERM"}, forward |-> FALSE, tag |-> ""]

MCBoxInputs ==
  {MCBox(cmd) : cmd \in {"start", "stop", "delete", "exec", "console", "tunnel", "service-url", "download-url", "capture",
                         "build", "delete snapshot", "update", "create"}}
  \cup {[MCBox("create") EXCEPT !.console = TRUE], [MCBox("create") EXCEPT !.console = TRUE, !.forward = TRUE],
        [MCBox("create") EXCEPT !.name = ""], [MCBox("update") EXCEPT !.memory = "4gb"],
        [MCBox("build") EXCEPT !.tag = "latest"]}

\* config.toml: every file of up to three lines, and two tables of a line or two.
MCTomlKeys == {"hooks", "enabled", "inline"} \X {"true", "false"}

MCTables ==
  {<<TableLine(name), key>> : name \in {"features", "plugins", "ref", "other"}, key \in MCTomlKeys}
    \cup {<<TableLine(name), <<"comment", "">>, key>> : name \in {"features#", "ref#", "features"}, key \in MCTomlKeys}

MCTomlFiles ==
  UNION {[1 .. n -> TomlLines] : n \in 0 .. 3} \cup {first \o second : first, second \in MCTables}

\* Tracing setup: a login's key and one that is given, for both agents or one.
MCSetup(key, url) ==
  [keyArg |-> "", urlArg |-> "", keyFlag |-> "", urlFlag |-> "", key |-> key, url |-> url, refers |-> FALSE,
   agents |-> <<"claude", "codex">>, yes |-> TRUE]

MCSetupInputs ==
  {MCSetup("k1", "self"), [MCSetup("k1", "self") EXCEPT !.keyArg = "k2", !.urlArg = "default"],
   [MCSetup("k3", "other") EXCEPT !.refers = TRUE],
   [MCSetup("k3", "other") EXCEPT !.refers = TRUE, !.keyFlag = "k4", !.agents = <<"codex">>],
   [MCSetup("k1", "self") EXCEPT !.agents = <<"claude">>, !.yes = FALSE]}

\* Queries: traces that differ in their own tokens, names and threads.
MCKind(own, total, fed, name, thread) == [own |-> own, total |-> total, fed |-> fed, name |-> name, thread |-> thread]

MCRootKinds == {MCKind(FALSE, TRUE, TRUE, "x", "s"), MCKind(TRUE, TRUE, FALSE, "y", "t")}

MCQuery(cmd, limit, min, window, lookup, pattern) ==
  [cmd |-> cmd, limit |-> limit, min |-> min, window |-> window, lookup |-> lookup, pattern |-> pattern, offset |-> 0]

MCQueryInputs ==
  {MCQuery("trace list", 2, min, window, FALSE, "id") : min \in BOOLEAN, window \in BOOLEAN}
  \cup {MCQuery("run list", limit, TRUE, FALSE, lookup, "id") : limit \in {1, 2}, lookup \in BOOLEAN}
  \cup {MCQuery("trace export", 3, FALSE, FALSE, FALSE, "id"), MCQuery("trace export", 2, TRUE, FALSE, FALSE, "name"),
        MCQuery("run export", 2, TRUE, FALSE, FALSE, "id"), MCQuery("thread list", 1, FALSE, FALSE, FALSE, "id"),
        MCQuery("thread list", 0, FALSE, FALSE, FALSE, "id"), MCQuery("thread get", 2, FALSE, FALSE, FALSE, "id")}
  \cup {[MCQuery("hub list", 3, FALSE, FALSE, FALSE, "id") EXCEPT !.offset = offset] : offset \in {0, 1}}
  \cup {MCQuery("prompt list", 2, FALSE, FALSE, FALSE, "id"), MCQuery("prompt list", 0, FALSE, FALSE, FALSE, "id"),
        MCQuery("prompt commits", 3, FALSE, FALSE, FALSE, "id")}

\* Lookups: a trace in the project asked for, in another or in none, its runs in
\* and out of every window.
MCLookupInputs == {in \in LookupInput : in.run \in {1, 2}}

\* Evaluators: the same code given twice, with and without --replace, another one
\* by a model, and both ways to delete.
MCEval(cmd, name, target, replace, yes, rate, filter) ==
  [cmd |-> cmd, name |-> name, target |-> target, replace |-> replace, yes |-> yes, rate |-> rate, traceFilter |-> filter,
   code |-> name, byId |-> FALSE, deleteRules |-> FALSE]

MCEvalInputs ==
  {MCEval("upload", "m", "project", FALSE, FALSE, "unset", "new"), MCEval("upload", "m", "project", TRUE, FALSE, "unset", "unset"),
   MCEval("create-llm", "n", "project", TRUE, TRUE, "new", "off"),
   [MCEval("delete rule", "m", "project", FALSE, FALSE, "unset", "unset") EXCEPT !.byId = TRUE],
   MCEval("delete rule", "m", "project", FALSE, FALSE, "unset", "unset"),
   [MCEval("delete evaluator", "m", "project", FALSE, FALSE, "unset", "unset") EXCEPT !.deleteRules = TRUE],
   MCEval("delete evaluator", "m", "project", FALSE, FALSE, "unset", "unset")}

\* The prompt hub: one directory and one repository.
MCHub(cmd, public, ref, yes) == [cmd |-> cmd, public |-> public, ref |-> ref, yes |-> yes]

MCHubInputs ==
  {MCHub(cmd, "unset", "", FALSE) : cmd \in {"init", "pull", "push", "delete", "create prompt", "push prompt", "tag"}}
  \cup {MCHub("init", "unset", "", TRUE), MCHub("pull", "unset", "tag", FALSE), MCHub("push", "yes", "", FALSE)}

\* Datasets: two names, a file with items that are no examples, and an empty one.
MCData(cmd, name, limit, example) == [cmd |-> cmd, name |-> name, limit |-> limit, example |-> example]

MCDataInputs ==
  {MCData(cmd, "a", 0, Example("p", "q", "none")) : cmd \in {"upload", "export", "create", "delete example", "delete"}}
  \cup {MCData("upload", "b", 0, Example("p", "q", "none")), MCData("export", "b", 1, Example("p", "q", "none")),
        MCData("create example", "a", 0, Example("p", "none", "s"))}

MCUserFiles == {<<Item("p", "q"), NoObject, Item("none", "q"), Item("i", "text")>>, <<>>}

\* Insights: a configuration that is saved, run, changed in each of its parts and
\* deleted.
MCConfig ==
  [name |-> "n", analysis |-> "p", model |-> "unset", clusterModel |-> "unset", summaryModel |-> "unset", start |-> 0, end |-> 0,
   hasHours |-> FALSE, hours |-> 0, hasSample |-> FALSE, sample |-> 0, description |-> "unset", schedule |-> "unset"]

MCInsight(cmd, change, wait) == [cmd |-> cmd, file |-> change, config |-> 1, wait |-> wait, yes |-> FALSE, answer |-> "y"]

MCInsightInputs ==
  {MCInsight("create", [MCConfig EXCEPT !.schedule = "daily"], TRUE),
   MCInsight("create", [MCConfig EXCEPT !.schedule = "null", !.description = "d"], FALSE),
   MCInsight("run", MCConfig, TRUE), MCInsight("update", [MCConfig EXCEPT !.schedule = "null"], FALSE),
   MCInsight("update", [MCConfig EXCEPT !.hasHours = TRUE, !.hours = 24, !.end = 2], FALSE),
   MCInsight("delete", MCConfig, FALSE), [MCInsight("delete", MCConfig, FALSE) EXCEPT !.answer = "n"]}

\* Messages: limits around the pages of both servers, and a thread of four turns.
MCMessageInputs == [limit : {0, 1, 3, 4, 5, 7}, since : BOOLEAN, paged : BOOLEAN]

MCToolTrace ==
  <<Group("message", "human", "text", <<>>),
    Group("tool_interaction", "ai", "block", <<ToolCall("a", "failure"), ToolCall("b", "text")>>),
    Group("message", "ai", "text", <<>>)>>

MCOddTrace == <<Group("message", "human", "none", <<>>), Group("other", "none", "text", <<>>)>>

MCConversations ==
  {<<>>, <<MCToolTrace>>, <<MCToolTrace, MCOddTrace, MCToolTrace>>,
   <<MCOddTrace, MCToolTrace, MCToolTrace, MCOddTrace, MCToolTrace, MCOddTrace>>}

MCThreadInputs == {[limit |-> 0, trace |-> 0], [limit |-> 1, trace |-> 2], [limit |-> 3, trace |-> 0]}

MCThread == <<<<1, 2>>, <<3>>, <<4>>, <<5, 6>>>>

\* Issues: updates of one issue and of another, evidence with and without a comment.
MCUpdate(id) == IssueInput("update", id)

MCSuggestion == [type |-> "llm", named |-> TRUE, session |-> "", rate |-> "0.5"]

MCAssertion(comment, key) == [split |-> TRUE, key |-> key, comment |-> comment]

MCLink == [IssueInput("runs add", 1) EXCEPT !.run = "r", !.at = "t"]

MCPropose == [IssueInput("examples propose", 1) EXCEPT !.run = "r", !.assertions = <<MCAssertion("c", "k")>>]

MCIssueInputs ==
  {[MCUpdate(1) EXCEPT !.name = "n"], [MCUpdate(1) EXCEPT !.status = "ignored", !.reason = "why"],
   [MCUpdate(2) EXCEPT !.description = "d", !.evaluator = MCSuggestion], [MCUpdate(2) EXCEPT !.reason = "why"],
   [MCUpdate(1) EXCEPT !.evaluator = [MCSuggestion EXCEPT !.named = FALSE]],
   MCLink, [MCLink EXCEPT !.comment = "c"], [IssueInput("runs remove", 1) EXCEPT !.run = "r"],
   MCPropose, [MCPropose EXCEPT !.at = "t", !.assertions = <<MCAssertion("c", "k"), MCAssertion("d", "k")>>]}

\* Statistics: names that are repeated, empty and unknown, and windows with and
\* without ends, one of them not a time.
MCOverviewKeys == <<"run_count", "total_tokens">>

MCStatsInputs ==
  {StatsInput(select, since, before, 0, cmp[1], cmp[2], cmp[3], pretty) :
     select \in {<<>>, <<"total_tokens", "", "total_tokens">>, <<"bogus">>, <<"feedback_stats", "run_count">>},
     since \in {-1, 3}, before \in {-1, 4}, cmp \in {<<0, 0, 0>>, <<2, 3, 0>>, <<2, 0, 0>>, <<0, 0, 2>>, <<-1, 0, 0>>}, pretty \in BOOLEAN}
  \cup {StatsInput(<<>>, since, 0, last, 0, 0, 2, FALSE) : since \in {0, 2}, last \in {0, 1}}

\* Raw requests: nested fields, fields that empty an array, that contradict each
\* other, that come from the standard input, next to a body and without one.
MCFields ==
  {<<>>,
   <<Field(<<"a", "", "b">>, "1", TRUE), Field(<<"a", "", "b">>, "2", FALSE), Field(<<"a", "", "c">>, "3", TRUE)>>,
   <<Field(<<"t", "">>, "x", FALSE), Field(<<"t", "">>, "", FALSE)>>,
   <<Field(<<"a", "", "b">>, "null", TRUE), Field(<<"a", "", "b">>, "1", TRUE)>>,
   <<Field(<<"m", "k">>, "@-", TRUE), Field(<<"m", "l">>, "y", FALSE), Field(<<"m">>, "z", TRUE)>>,
   <<Field(<<"m", "k">>, "@-", TRUE), Field(<<"m", "l">>, "y", FALSE)>>}

MCApiInputs ==
  {ApiInput(method, url, route, from[1], from[2], fields) :
     method \in {"", "GET", "DELETE"}, url \in {"own", "other"}, route \in {"sessions", "sessions/id", "datasets"},
     from \in {<<"", "">>, <<"-", "">>, <<"", "-">>, <<"x", "-">>}, fields \in MCFields}
  \cup {[ApiInput("", "own", "datasets", "", "", <<>>) EXCEPT !.include = include, !.jq = TRUE] : include \in BOOLEAN}

\* Specifications: two servers, of two releases each.
MCSpec(cmd, url, refresh, tag, method, name) ==
  [cmd |-> cmd, url |-> url, refresh |-> refresh, tag |-> tag, method |-> method, path |-> [name |-> name, absolute |-> FALSE]]

MCSpecInputs ==
  {MCSpec("ls", "a", FALSE, "run", "", ""), MCSpec("ls", "b", TRUE, "", "", ""), MCSpec("info", "a", FALSE, "", "GET", "sessions")}

MCReleases ==
  LET read == Operation("sessions", "GET", "run", "known component")
  IN  {{read}, {read, Operation("sessions", "parameters", "", "plain")}}

\* The connector: settings from the file and the environment, that agree, are
\* missing, or contradict each other.
MCFile(id, key, keyFile) == [id |-> id, key |-> key, keyFile |-> keyFile, relay |-> key = "file", rules |-> id]

MCConnectorFiles ==
  {MCFile("file", "file", ""), MCFile("file", "", "file"), MCFile("", " ", ""), MCFile("file", "file", "file")}

MCEnv(id, key, keyFile, relay, rest) ==
  [id |-> id, key |-> key, keyFile |-> keyFile, relay |-> relay, rules |-> id, targets |-> rest]

MCConnectorEnvs ==
  {MCEnv("", "", "", "", "one"), MCEnv("env", "env", "", "true", ""), MCEnv("env", "", "env", "false", "one"),
   MCEnv("", "env", "env", "", "one"), MCEnv("", " ", "", "maybe", ""), MCEnv("", "", "", "true", "twice")}

\* Self-update: one update among two installs, two updates after one, and three
\* installs alone on each kind of machine.
MCMachine(windows, lock, custom, n, runs) ==
  [windows |-> windows, lock |-> lock, custom |-> custom, installs |-> n, runs |-> runs]

MCUpdaters == {u1, u2}

MCStarts ==
  {MCMachine(FALSE, FALSE, FALSE, 2, {u1}), MCMachine(TRUE, FALSE, FALSE, 1, {u1}), MCMachine(FALSE, FALSE, FALSE, 1, {u1, u2}),
   MCMachine(FALSE, FALSE, FALSE, 3, {}), MCMachine(FALSE, TRUE, FALSE, 3, {}), MCMachine(FALSE, FALSE, TRUE, 3, {}),
   MCMachine(TRUE, TRUE, TRUE, 3, {})}

\* Generated commands: four trees, of which one clashes; and arguments with flags in
\* every place before and after an operation that deletes, for one with a project,
\* and for a list that is filtered.
MCResource(path, ops) == [path |-> path, ops |-> [n \in DOMAIN ops |-> [name |-> ops[n], aliases |-> {}]]]

MCOperations ==
  [list   |-> GenOperation(FALSE, TRUE, {"--url"}, <<>>, "", FALSE, <<>>),
   delete |-> GenOperation(TRUE, FALSE, {"--id"}, <<"--id">>, "", FALSE, <<>>),
   show   |-> GenOperation(FALSE, FALSE, {"--session-id"}, <<"--session-id">>, "--session-id", TRUE, <<>>),
   share  |-> GenOperation(FALSE, FALSE, {"--run-id", "--session-id"}, <<"--run-id", "--session-id">>, "--session-id", TRUE,
                           [r \in {"--run"} |-> "--run-id"]),
   query  |-> GenOperation(FALSE, FALSE, {"--project-id"}, <<>>, "--project-id", TRUE, <<>>),
   spend  |-> GenOperation(FALSE, FALSE, {"--session-id"}, <<>>, "--session-id", FALSE, <<>>),
   delete_share |-> GenOperation(TRUE, FALSE, {"--run-id", "--session-id"}, <<"--run-id">>, "--session-id", TRUE, <<>>)]

MCTrees ==
  LET projects == {Node(<<"projects">>, {"project", "sessions"}, ByHand), Node(<<"projects", "list">>, {}, ByHand)}
  IN  {Tree(projects, {MCResource(<<"sessions">>, <<"list", "create">>), MCResource(<<"sessions", "insights">>, <<"list">>),
                       MCResource(<<"datasets", "versions">>, <<"diff">>)}),
       Tree(projects, {[path |-> <<"sessions">>, ops |-> <<[name |-> "remove", aliases |-> {"rm"}]>>],
                       MCResource(<<"sessions", "insights", "configs">>, <<"create">>), MCResource(<<"info">>, SetToSeq(DOMAIN MCOperations))}),
       Tree({}, {MCResource(<<"queues">>, <<"queues", "retrieve-queues", "update">>), MCResource(<<"queues", "items">>, <<"list">>)}),
       Tree({}, {MCResource(<<"queues">>, <<"items">>), MCResource(<<"queues", "items">>, <<"list">>)})}

MCInvoked == <<"info">>

MCRootValues == {"--base-url", "--format", "--transform", "--api-key", "--tenant-id"}

MCPlain == {"list", "delete", "show", "share", "query", "spend", "delete_share", "x", "p", "e", "i"}

MCProjectIds == [p |-> "i", e |-> "j", list |-> "k"]

MCWord(name) == Arg(name, "")

MCGenInputs ==
  {GenInput(args, "", FALSE) : args \in
     SeqOf({MCWord(name) : name \in {"list", "delete", "x", "--transform", "--debug", "--unknown", "--yes", "--", "--help"}}, 3)
     \cup SeqOf({MCWord(name) : name \in {"list", "delete", "--transform", "--unknown", "--yes", "--"}}, 4)}
  \cup {GenInput(<<MCWord(op)>> \o FlattenSeq(args), env, piped) :
          op \in {"show", "share", "query", "spend", "delete_share"}, env \in {"", "e"}, piped \in BOOLEAN,
          args \in SeqOf({<<MCWord("x")>>, <<Arg("--run", "x")>>, <<MCWord("--project"), MCWord("p")>>, <<Arg("--project-id", "i")>>,
                           <<Arg("--session-id", "i")>>, <<MCWord("--tenant-id"), MCWord("x")>>}, 2)}
  \cup {GenInput(FlattenSeq(args), "", FALSE) :
          args \in SeqOf({<<MCWord("list")>>, <<MCWord("show"), MCWord("i")>>, <<MCWord("--jq"), MCWord("x")>>, <<Arg("--format", "x")>>}, 3)}
  \cup {GenInput(FlattenSeq(args), "", FALSE) :
          args \in SeqOf({<<MCWord("list")>>, <<MCWord("delete_share")>>, <<MCWord("x")>>, <<MCWord("--yes")>>,
                          <<MCWord("--project"), MCWord("p")>>, <<MCWord("--project"), MCWord("list")>>}, 3)}
  \cup {GenInput(<<MCWord(first), MCWord(second), MCWord("show"), MCWord(third), MCWord("delete_share")>>, "", FALSE) :
          first, second, third \in {"--format", "--project", "--jq", "--debug", "p"}}

-----------------------------------------------------------------------------
\* Every part that is not active is in one of its initial states, and stays there.

CommandsInit ==
  /\ active \in Parts
  /\ \/ active = "apps"
     \/ (left = CHOOSE b \in SyncBudgets : TRUE) /\ member = [d \in Devs |-> CHOOSE w \in Workspaces : TRUE]
  /\ SyncInit
  /\ (active = "ssh" \/ config = CHOOSE c \in StartingConfigs : TRUE) /\ SshInit
  /\ AgentInit
  /\ BoxInit
  /\ (active = "tracing" \/ place = [project |-> FALSE, mine |-> FALSE]) /\ TraceInit
  /\ (active = "connector" \/ given = [file |-> CHOOSE f \in ConnectorFiles : TRUE, env |-> CHOOSE e \in ConnectorEnvs : TRUE]) /\ ConnectorInit
  /\ active = "queries" \/ (roots = MaxRoots /\ kind = [n \in Roots |-> CHOOSE k \in RootKinds : TRUE])
  /\ active = "queries" \/ deployment = "v1" \/ (active = "lookups" /\ deployment = "v2")
  /\ QueryInit /\ LookupInit
  /\ EvalInit
  /\ (active = "hub" \/ dir = NoFiles) /\ HubInit
  /\ (active = "datasets" \/ dataFile = File("missing", <<>>, FALSE)) /\ DataInit
  /\ InsightInit
  /\ (active = "messages" \/ matches = <<>>) /\ MessageInit
  /\ ThreadInit
  /\ (active = "issues" \/ board = <<>>) /\ IssueInit
  /\ (active = "stats" \/ (clock = Week + 1 /\ started = {})) /\ StatsInit
  /\ ApiInit
  /\ (active = "spec" \/ release = [url \in Servers |-> CHOOSE spec \in Releases : TRUE]) /\ SpecInit
  /\ (active = "update" \/ host = [windows |-> TRUE, lock |-> TRUE, custom |-> TRUE]) /\ Init
  /\ (active = "generated" \/ catalog = CHOOSE t \in Trees : TRUE) /\ GenInit
  /\ (active = "toml" \/ toml = <<>>) /\ TomlInit

OthersRest ==
  /\ UNCHANGED active
  /\ active = "apps" \/ UNCHANGED syncVars
  /\ active = "ssh" \/ UNCHANGED sshVars
  /\ active = "agent" \/ UNCHANGED agentVars
  /\ active = "boxes" \/ UNCHANGED boxVars
  /\ active = "toml" \/ UNCHANGED tomlVars
  /\ active = "tracing" \/ UNCHANGED traceVars
  /\ active = "connector" \/ UNCHANGED connectorVars
  /\ active = "queries" \/ UNCHANGED queryVars
  /\ active = "lookups" \/ UNCHANGED sought
  /\ active = "evaluators" \/ UNCHANGED evalVars
  /\ active = "hub" \/ UNCHANGED hubVars
  /\ active = "datasets" \/ UNCHANGED dataVars
  /\ active = "insights" \/ UNCHANGED insightVars
  /\ active = "messages" \/ UNCHANGED messageVars
  /\ active = "thread" \/ UNCHANGED threadVars
  /\ active = "issues" \/ UNCHANGED issueVars
  /\ active = "stats" \/ UNCHANGED statsVars
  /\ active = "api" \/ UNCHANGED apiVars
  /\ active = "spec" \/ UNCHANGED specVars
  /\ active = "update" \/ UNCHANGED vars
  /\ active = "generated" \/ UNCHANGED genVars

CommandsNext ==
  \/ active = "apps" /\ SyncNext /\ OthersRest
  \/ active = "ssh" /\ SshNext /\ OthersRest
  \/ active = "agent" /\ AgentNext /\ OthersRest
  \/ active = "boxes" /\ BoxNext /\ OthersRest
  \/ active = "toml" /\ TomlNext /\ OthersRest
  \/ active = "tracing" /\ TraceNext /\ OthersRest
  \/ active = "connector" /\ ConnectorNext /\ OthersRest
  \/ active = "queries" /\ QueryNext /\ OthersRest
  \/ active = "lookups" /\ LookupNext /\ OthersRest
  \/ active = "evaluators" /\ EvalNext /\ OthersRest
  \/ active = "hub" /\ HubNext /\ OthersRest
  \/ active = "datasets" /\ DataNext /\ OthersRest
  \/ active = "insights" /\ InsightNext /\ OthersRest
  \/ active = "messages" /\ MessageNext /\ OthersRest
  \/ active = "thread" /\ ThreadNext /\ OthersRest
  \/ active = "issues" /\ IssueNext /\ OthersRest
  \/ active = "stats" /\ StatsNext /\ OthersRest
  \/ active = "api" /\ ApiNext /\ OthersRest
  \/ active = "spec" /\ SpecNext /\ OthersRest
  \/ active = "update" /\ Next /\ OthersRest
  \/ active = "generated" /\ GenNext /\ OthersRest

CommandsVars ==
  <<active, syncVars, sshVars, agentVars, boxVars, tomlVars, traceVars, connectorVars, queryVars, sought, evalVars, hubVars, dataVars,
    insightVars, messageVars, threadVars, issueVars, statsVars, apiVars, specVars, vars, genVars>>

CommandsSpec == CommandsInit /\ [][CommandsNext]_CommandsVars

\* The state of every part keeps its types and its shape; and a run of self-update
\* that was not killed has removed its temporary file.
CommandsTypeOK ==
  /\ active \in AllParts
  /\ SyncTypeOK /\ SshTypeOK /\ AgentTypeOK /\ BoxTypeOK /\ TomlTypeOK /\ TraceTypeOK /\ ConnectorTypeOK
  /\ QueryTypeOK /\ EvalTypeOK /\ HubTypeOK /\ DataTypeOK /\ InsightTypeOK /\ MessageTypeOK /\ ThreadTypeOK
  /\ IssueTypeOK /\ StatsTypeOK /\ ApiTypeOK /\ SpecTypeOK /\ UpdateTypeOK /\ GenTypeOK
=============================================================================
