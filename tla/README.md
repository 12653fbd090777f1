# Verification of langsmith-cli

TLA+ models of `langsmith`, the command line of LangSmith, with the TLC runs
that check them and theorems that TLAPS proves. The reference is the Go code
under `src/internal`; every definition that models code has an entry in the
`map` of `PROJECT.json` with the lines it stands for.

- [The system](#the-system): the inventory of components
- [Modules](#modules): which module models which code
- [Runs](#runs): what is checked, within which bounds
- [Proofs](#proofs): what holds for every value of the constants
- [Found on the way](#found-on-the-way): where the code does not do what it says
- [Limits](#limits) and [plan](#plan)

## The system

The CLI has no daemon. Every command is a process of its own, reads
`~/.langsmith/config.json`, talks to LangSmith over HTTP and ends. What makes
it hard lies where that is not the whole story:

- processes share files without a lock of the CLI: the config, `~/.ssh/config`,
  the config files of coding agents, the binary itself;
- OAuth refresh tokens are single-use, and every process may spend one;
- some commands live long: the device flow of `auth login`, `apps dev`, the
  connector, sandbox consoles, waits for reports and boxes;
- commands of several steps (push, pull, upload, self-update) may fail or be
  killed between two of them.

**Profile store** (`config/config.go`, `cmd/profile.go`, `cmd/login.go`).
State: the config document, the temporary files of saves, each process's loaded
copy, the SDK's refresh lock, the tokens of the authorization server.
Operations: `profile create/delete/use/workspace`, `auth login`, a request that
refreshes its token. Interaction: every editing command loads the document,
changes its copy and saves the whole of it (`Config.SaveTo`: create, write,
sync, rename); the SDK rereads the document under a lock, refreshes, and writes
one profile. Hard: saves from stale copies, kills and power losses inside a
save, the token spent by two processes. Correct if: the file is always a whole
document; its current profile exists; what it holds is one command applied to
some version it has held; a refresh token is never presented twice.

**Credential resolution** (`cmd/root.go`, `cmdutil/resolve.go`, `cmd/auth.go`,
`client/client.go`). No state: flags, environment and profile to key, login,
endpoint, workspace and path prefix. The precedence is written three times.
Correct if: the copies agree, and a profile that was asked for is the one used.

**Commands that resolve twice** (`cmd/connect.go`, `cmd/sandbox_ssh.go`,
`cmd/setup.go`). They load the config two to four times while another process
may switch the current profile. Correct if: a key goes to its own profile's
endpoint, and a key that is kept out of files stays out of files.

**Login** (`client/oauth.go`, `cmd/login.go`). State: the candidates asked for a
metadata document and their answers, the poll loop's timers, the profile being
overwritten. Interaction: the deployment, the issuer, the user's browser, the
config. Hard: delegation to another issuer, outages half way, `slow_down`
against the deadline. Correct if: only endpoints the issuer itself confirmed are
used; an outage never turns into the legacy endpoints; polls keep the server's
pace, miss no approval in time and end; the stored login is of one piece.

**Apps dev server** (`cmd/apps_dev.go`, `cmd/apps.go`). State: the files of the
bundle, the watcher's process, the server, the tab's page, the sandboxed frame,
messages both ways, pending calls. Interaction: the build tool rewrites the
bundle while handlers read it; host page and frame talk by `postMessage`; the
host proxies the frame's API calls. Hard: all of it is concurrent. Correct if:
the preview shows a build of this session and catches up with the last one;
calls get their own answer, once; the app comes to know the host's mode and
route; Ctrl+C ends the command.

**Self-update** (`cmd/update.go`, `cmd/install_method.go`,
`cmd/wheel_install.go`). State: the binaries at each path, wheels and their
RECORDs, uv's receipt, the running update. Interaction: package managers and
other updates write the same files; GitHub publishes releases. Hard: telling who
owns a binary from what is on disk, damaged downloads, kills. Correct if: no
binary is ever half written; only a verified newer release is installed; the
upgrade command it names reaches the binary.

**Apps** (`cmd/apps_init/push/pull/claim/share/delete/list/archive.go`,
`cmdutil/resolve.go`). State: a developer's directory with its link file, the
server's apps. Hard: an answer to create or a link that is lost, a pull that clears the
directory before it has a good archive, two developers and two workspaces.
Correct if: an app is only ever overwritten by a version of itself.

**Sandboxes** (`cmd/sandbox_box/snapshot/tunnel/console/ssh.go`). State: boxes by
name, snapshots, the console's table of agent connections, `~/.ssh/config`. Hard:
a box that is deleted and made anew while it is waited for; channels that close
while a callback writes to them; a config that is edited by its lines. Correct
if: what was waited for was ready; no question to the agent is lost; the user's
hosts and those of other boxes stay as they were.

**Connector** (`cmd/connector_config/run.go`). State: settings of two sources, the
backoff. Correct if: one way to the key, and delays that follow the failures.

**Tracing setup** (`cmd/setup*.go`). State: the agents' settings, JSON that is
merged and TOML that is edited by its lines. Hard: two setups, kills. Correct
if: what the user has set stays, and keys go to their own endpoints.

**Queries** (`cmd/paging.go`, `trace*.go`, `run.go`, `thread.go`, `message.go`,
`filters.go`, `helpers.go`, `hub_repo_sdk.go`). State: a walk over pages of one
of five kinds of server, filters on both sides, traces that arrive meanwhile,
streams of events. Correct if: the first n results, each once, whatever the
pages and however calls resume; conversations are told whole and in order.

**Statistics** (`cmd/trace_stats.go`). Two windows in time and a selection of
numbers. Correct if: nothing is shown that was not measured, and what
was measured is of the windows that the flags name.

**Insights, issues, datasets, evaluators, prompt hub** (`cmd/insights*.go`,
`issues.go`, `dataset.go`, `example.go`, `evaluator*.go`, `hub_*.go`,
`prompt.go`). State: the server's, which schedules, agents, people and other runs
change while a command is between two of its requests; the hub's and the
datasets' files on disk. Correct if: a run reports the job it started; what flags leave alone stays;
what was exported can be uploaded again; a pulled directory is the commit.

**Raw requests** (`cmd/api`, `cache/cache.go`). State: a body that can be read
once, attempts, cached specifications that every process may truncate and
remove. Correct if: every attempt sends what was given; what is shown is of the
server that was asked, and fresh.

**Generated commands** (`cmd/generated*.go`). State: the tree of commands, the
arguments of an invocation. Hard: the CLI reads the arguments before the tree
that knows all flags does. Correct if: nothing is deleted unasked, and words
and `--project` fill the parameters they are meant for.

### Not modelled

| Component | Why |
|---|---|
| charts, projects and workspaces | one request per command; deletion asks first |
| `get` and `list` commands of one request, `experiments` | they read and lay out one answer |
| output (`internal/output`, `internal/structured`) | formatting |
| hints and feedback (`auth_hint.go`, `product_feedback.go`) | text |
| `internal/generated` | generated by Stainless; how it reads arguments is external to `GeneratedCommands` |
| install scripts (`scripts/install.sh`, `install.ps1`) | what they leave on disk is in `InstallMethod`; their own download and checks are shell |
| app templates | copied, not run |

The `hazards` of `PROJECT.json` list what is hard to test, at its line, with the
properties about it.

## Modules

### Profile store

- `ProfileConfig`: the config document (`Config`), and as pure operators what
  each command does to the copy it loaded: `Accepts`, its error returns, and
  `Apply`, its edits. Tokens are numbers in the order they are issued, 0 is the
  empty string.
- `TokenServer`: the authorization server and its single-use refresh tokens, as
  comments and tests of the CLI rely on them; external.
- `ProfileStore` EXTENDS both: processes with a program counter. Steps of a save
  are `create`, `write`, `sync`, `rename`; each may fail, each may be the last
  before a kill. A login is in the flow (`poll`, `prompt`) with the copy it
  loaded at its start. A request is `auth`, `lock`, `refresh`, `store`. `disk`
  is the file, `stable` the version a power loss brings back.
- `ProfileRegister`: the abstract specification, one register whose value a
  command replaces in one step, starting from *some* version it has held.
- `MCProfileStore`: values for TLC, and `RequestsSpec`, the steps that are left when
  all commands are requests and nobody is killed. `MCProfileHistory` EXTENDS it with a history
  variable and the refinement `Register == INSTANCE ProfileRegister WITH doc <- disk.doc`.
- `ProfileStoreProofs`: the proofs, that of the refinement last.

### Credentials

- `ApiURL`: endpoints as host and mount; `NormalizeURL`, `DeploymentRoot`,
  `PlatformPrefix`. Used by the login too.
- `Credentials`: `ResolveClientOptions` (root.go), `CmdutilClientOptions`
  (resolve.go), `AuthInfo` (auth.go), `NewWithOptions` (client.go). Keys are
  known by where they were read and whose profile they come from.
- `CredentialUse` EXTENDS it: one action for each load of the config by
  `connect`, `ssh-setup` and `traces setup`, and `UseProfile` of another process.
- `MCCredentials`, `CredentialProofs`.

### Login

- `OAuthDiscovery`: one action for each answer to a request for metadata.
- `DeviceLogin` EXTENDS it: device code, poll loop, timers, deadline, what is
  stored. Time is a number of seconds that requests and timers advance.
- `MCDeviceLogin`, `LoginProofs`.

### Apps dev

- `AppSandbox`: host page, frame, messages, calls and the proxy.
- `AppsDev` EXTENDS it: two files of the app's directory and the tool that
  rewrites them, the command, the HTTP handlers (which read the files one by
  one), the tab and its polls.
- `MCAppsDev`, `AppsDevProofs`.

### Self-update

- `InstallMethod`: what pip, pipx, uv, Homebrew, `go install` and install.sh
  leave on disk (external) and how `findWheelInstall` and `detectInstallMethod`
  read it.
- `SelfUpdate` EXTENDS it: each step of `runUpdate` and `replaceBinary`, with
  the failure of each, kills, and installs in between.
- `SelfUpdateProofs`; `MCCommands` explores it, with the other commands or alone.

### The other commands

Each part is a module of its own, with its variables, `Init`, actions, `Next`,
type invariant and properties; `MCCommands` extends them all and explores one at
a time.

- `AppsSync`: a directory per developer (sources, bundle, link), the server's
  apps by workspace and tier. One action for every step of init, push, pull,
  claim, share and delete, for the answer that is lost, the process that is
  killed and the directory that is cloned.
- `Sandboxes`: boxes by name and life, snapshots by tag; every command's checks,
  its request, and the polls of those that wait. `SshAgentForward`: the
  forwarder's table, the messages both ways, the callback that waits and the
  goroutine that reads, per channel. `SshConfig`: the file as a sequence of
  lines, its block found, replaced or appended as `ensureSSHConfig` does it.
- `ConnectorService`: `resolveConnectorSettings` on a file and an environment, then
  carriers that break after some uptime.
- `TracingSetup`: options, read, merge and write of an agent's settings by two
  runs. `CodexToml`: `config.toml` as a sequence of lines, its reading as TOML
  (external) and its edit by lines.
- `RunQueries`: the operators of `collectPages`; roots that
  arrive, five kinds of server, filters of the server and of the client, the
  fallback, hydration, export, and a chain of calls that resume. Its second
  specification is of `trace get` and `run get`: the project of a trace is found
  first, in a window, and the trace is read after, while runs of it start or it
  is deleted.
- `TraceMessages`: pages of traces with a fallback to smaller ones, and the two
  views of a trace. `ThreadMessages` EXTENDS it: the event stream of a thread, its
  parsing, and calls that resume at cursors.
- `TraceStats`, `Insights`, `Issues`, `Datasets`, `Evaluators`, `HubRepos`: the
  server's part of each as the code's requests use it, the runs of the commands
  with a program counter, and whoever else changes it.
- `RawApi`: fields to an object, bodies, attempts. `SpecCache`: the cached file as
  `cache.go` reads, truncates, writes and removes it, and how `info` finds an
  endpoint in a specification.
- `GeneratedCommands`: the mounting of resources in any order, then one
  invocation from `forwardGenerated` to `jqModel`. Arguments are names with the
  value joined to them, or words; how urfave/cli reads them is external.
- `SandboxProofs` has the proofs about `Sandboxes`, `SshAgentForward`, `SshConfig`
  and `ConnectorService`, `CommandProofs` those about `HubRepos`, `Evaluators`,
  `SpecCache`, `AppsSync`, `Insights`, `TracingSetup`, `CodexToml`,
  `GeneratedCommands`, `RawApi`, `Datasets`, `Issues` and `TraceStats`,
  `QueryProofs` those about `RunQueries`, `ThreadMessages` and `TraceMessages`,
  and the lemmas on numbers and sequences of all three.

A definition whose name ends in `M` is a faulty variant of the definition after
it: a dropped guard, a missing reset, a swapped order. No specification uses it;
`mutants` in `PROJECT.json` pairs it with the property that notices the fault.

## Runs

| Run | Module | Instance | Shows |
|---|---|---|---|
| `store_requests` | `MCProfileStore` | 3 processes, 2 logged-in profiles, 4 tokens, 5 commands, no faults | `NoReplay`, `SessionKept`: however requests interleave and tokens expire, a refresh token is exchanged once and each profile keeps one the server accepts |
| `store_history` | `MCProfileHistory` | 2 processes, 2 names, 2 commands, 2 tokens, 1 kill or power loss, any save fails anywhere | `ConfigIsSound`: the file is whole, its current profile exists, failed saves leave nothing; `TypeOK`; and the refinement `FromSomeVersion` |
| `store_replay` | `MCProfileStore` | `use` against requests | `NoReplay` fails, see below |
| `cred_use` | `MCCredentials` | 2 profiles of 5 kinds, 3 hosts, every precedence of flags and environment, 2 switches | `OneAccount`, `SelectedProfileOnly`, `KeyMatchesEndpoint`, `ReferencedKeyStaysOut` |
| `cred_proxy` | `MCCredentials` | `ssh-setup` with `--profile` only | `ProxyKeepsCredentials` fails |
| `cred_prefix` | `MCCredentials` | one request | `PrefixFollowsEndpoint` fails |
| `login` | `MCDeviceLogin` | 3 hosts (one of them http), 7 documents, 5 approvals, 3 timeouts, latency up to 2 s | `DiscoveryIsSound`, `PollsKeepPace`, `StoredLoginIsWhole`, `PollingEnds` |
| `apps_dev` | `MCAppsDev` | one tab; up to 2 builds, 2 calls, 2 route changes, 1 mode change, 1 accident, 1 interrupt, 2 polls under way | `FirstPageIsFresh`, `AnswersMatch`, `CallsSettleOnce`, `TabFollows`, `InterruptEnds` |
| `apps_reload` | `MCAppsDev` | the same | `PreviewShowsLastBuild` fails |
| `update_atomic` | `MCCommands` | the part of self-update: 2 releases, closing a file may lose data | `BinaryIsWhole` fails |
| `stats_compare` | `MCCommands` | the part of statistics | `ComparesAsHelped` fails |
| `commands` | `MCCommands` | the parts below, one at a time | 21 properties, below |

Parts of `commands`:

| Part | Instance | Property |
|---|---|---|
| apps | 2 developers, 2 workspaces, 3 apps, five budgets of init, push, pull, management, clone and one fault | `AppsStayApart` |
| ssh | 2 setups of 2 boxes, 2 texts of a block, 1 edit of the user | `SetupIsLocal` |
| agent | 2 channels, 4 questions | `NoQuestionIsLost` |
| boxes | 2 names, 2 lives of a name, 2 runs of 18 invocations | `ReadyWasMet` |
| toml | every file of up to 3 lines out of 14, and pairs of tables | `SetupIsSound` |
| tracing | 2 runs of 5 invocations, project and user scope | `SetupIsSound` |
| connector | 4 files, 6 environments, 7 carriers | `ConnectorIsSound` |
| queries | 3 roots of 2 kinds, 5 servers, 17 invocations, 3 calls | `QueriesAreExact` |
| lookups | 27 traces, of one or two runs at 3 times and up to one more, in 2 projects or none; 2 servers, every invocation | `QueriesAreExact` |
| evaluators | 2 runs of 7 invocations, 2 edits by others | `ReplaceKeepsSettings` |
| hub | 2 runs of 10 invocations, 2 commits, 2 edits of the directory | `PullsAreClean` |
| datasets | 3 runs of 8 invocations, 3 examples in pages of 2, a call repeated up to 2 times | `ExamplesSurvive` |
| insights | 2 runs of 7 invocations, 2 configurations, 2 jobs, 2 waits | `InsightsTellTheTruth` |
| messages | 4 lists of traces, pages of 3 or 2, limits around them | `ConversationsAreTold` |
| thread | 4 turns, 2 a request, 4 calls | `ConversationsAreTold` |
| issues | 3 issues, 3 changes, pages of 2 | `BoardIsTrue` |
| stats | traces at no, the first or all times, 2 windows by minutes or a start, with ends that are given, left out or no time | `StatsAreMeasured` |
| api | 6 lists of fields, 4 bodies, 2 hosts, 2 retries | `RequestsAreAsGiven` |
| spec | 2 runs, 2 servers, 2 releases, 1 kill, time | `SpecIsFresh` |
| update | one update among 2 installs, 2 updates after 1, or 3 installs alone; 5 kinds of machine | `BinaryIsWhole`, `InstalledIsVerified`, `UpgradeReachesBinary` |
| generated | 4 trees; all arguments of up to 4 out of 9, and flags for a project around 5 operations, one of which deletes; projects of 3 names, one that of an operation | `GeneratedRunsAsTold` |

`CommandsTypeOK` is the conjunction of the type invariants of all parts.

Why the bounds are enough to be worth something:

- A lost update or a replay takes two processes: one that loads, one that saves
  in between, and `store_history` has both with every pair of commands. The lock
  gets its third process in `store_requests`: one holds it, one waits, one
  reads the token before the refresh. A request that does not take the lock
  is noticed within these bounds.
- Profiles matter by being the same, different, or default: two names do.
  `Names`, `Workspaces` and tokens are never compared otherwise.
- Resolution reads at most two profiles (the one asked for and the current one)
  and an endpoint is the profile's, the environment's, the flag's or the
  default: three hosts and one default tell them apart. `ssh-setup` loads the
  config up to four times; two switches give every pattern of a profile that
  changes and changes back.
- Login: two candidates and one delegation are all that the code asks. Approvals
  and timeouts lie before, at and after the polls of 5, 7 and 12 seconds.
- Apps dev: a stale page, a missed build or a late answer takes one event
  between two steps; two builds give one that is missed and one that follows it.
  Budgets are per start so that unrelated events do not multiply; events that
  could meet are budgeted together.
- Self-update: a wrong owner takes an install over an install; the third is one
  more than any known confusion needs.
- The parts of `commands` share no state, so exploring one at a time loses no
  behaviour of any of them; which runs a part has is symmetric. A wrong answer
  about what others do takes two runs, one between two steps of the other, or a
  run and a change from outside; datasets have a third run, for a dataset that is
  exported and uploaded again needs one that made it. Calls of the SDK that are made
  again twice put an example three times next to itself, once more than it takes to
  tell it from the next. Pages are smaller than the
  lists by one and by half, and limits lie below, at and above them.

Deadlock is not checked in `cred_use`, `cred_proxy`, `cred_prefix`, `apps_dev`,
`apps_reload`, `update_atomic`, `stats_compare` and `commands`: there a command ends, and the
users' budgets are spent. In the other runs every end is a state with a step.

Fairness, where a property needs it:

- `login`: only the process's own timers go off (`WF_vars(Timers)`); nothing is
  assumed of the server or the user, so `PollingEnds` says that the deadline
  alone ends the loop.
- `apps_dev`: the command's own steps, the browser's, the messages between the
  two frames and their timers; a build that was begun is finished. Nothing is
  assumed of users, apps, the API or the life of the watcher.
- The others are safety only. That the commands of the profile store end is not
  claimed: the request for the device code (login.go:164, 472) has no timeout, and
  the prompt for a workspace waits for the user.

## Proofs

All theorems hold for every value of the constants that the modules' named
assumptions allow: any number of processes, profiles, apps, files, retries, page
sizes and so on. The type invariant alone is never inductive enough; the
strengthening is named last.

| Theorem | Module | Says | By |
|---|---|---|---|
| `TypeCorrect`, `CurrentAlwaysExists`, `DiskAlwaysWhole`, `TempsAreRemoved`, `ConfigStaysSound` | `ProfileStoreProofs` | types; the current profile exists; the file is whole and synced; failed saves leave nothing; all three together, which is `ConfigIsSound` | `SaveInv` |
| `RequestsKeepSession`, `SessionsAreKept` | `ProfileStoreProofs` | if all commands are requests and none is killed, `NoReplay` and `SessionKept` | `SessionInv` |
| `SavesAreWholeEdits` | `ProfileStoreProofs` | the refinement `FromSomeVersion`: the shared file is one register, and each save one command applied to some version it has held | `VersionInv` |
| `ResolversAgree`, `SelectionIsKept`, `KeysMatchEndpoints`, `AccountIsOne`, `ReferencesStayOut` | `CredentialProofs` | the copies of the resolver agree; the profile asked for is the one used; keys and endpoints belong together; `OneAccount`; `ReferencedKeyStaysOut` | `CommandInv`, `Undisturbed` |
| `LoginTypeCorrect`, `EndpointsAreVouched`, `PollsKeepTime`, `LoginsAreWhole` | `LoginProofs` | types; `DiscoveryIsSound`: endpoints are the issuer's own word; `PollsKeepPace`; `StoredLoginIsWhole` | `LoginInv` |
| `AppsDevTypes`, `PagesAreFresh`, `AnswersAreTheirs`, `PromisesSettleOnce` | `AppsDevProofs` | types; `FirstPageIsFresh`; `AnswersMatch`; what the app was answered stays | `DevInv` |
| `UpdateTypeCorrect`, `BinariesStayWhole`, `UpdatesAreVerified`, `UpgradesReach` | `SelfUpdateProofs` | types; no half binary if `LossyClose = FALSE`; only verified newer releases are installed; the upgrade reaches the binary | `UpdateInv`, `Owners` |
| `WaitsEndReady` | `SandboxProofs` | `ReadyWasMet` | `WaitInv` |
| `QuestionsAreKept` | `SandboxProofs` | `NoQuestionIsLost` | `AgentInv` |
| `SetupTypesHold`, `SetupStaysLocal` | `SandboxProofs` | types of the ssh files; `SetupIsLocal` | `SshInv` |
| `PullsStayClean` | `CommandProofs` | `PullsAreClean` | `HubInv` |
| `ReplacementsKeepSettings` | `CommandProofs` | `ReplaceKeepsSettings` | `EvalInv` |
| `SpecsStayFresh` | `CommandProofs` | `SpecIsFresh` | `SpecInv` |
| `AppsAreKeptApart` | `CommandProofs` | `AppsStayApart` | `SyncInv` |
| `InsightsAreTold`, `JobsAreOfConfigs` | `CommandProofs` | `InsightsTellTheTruth`; jobs are of saved configurations | `InsightInv` |
| `ConnectorStaysSound` | `SandboxProofs` | `ConnectorIsSound` | `ConnectorInv` |
| `KeysGoHome` | `CommandProofs` | `KeyGoesToItsEndpoint`, half of `SetupIsSound` | `TraceInv` |
| `EditsKeepSettings` | `CommandProofs` | `EditKeepsSettings`, the other half | `TomlInv` |
| `SetupStaysSound` | `CommandProofs` | `SetupIsSound`, of both setups side by side | the two above |
| `DeletesStayConfirmed` | `CommandProofs` | `DeletesAreConfirmed`, a part of `GeneratedRunsAsTold` | `DeletesInv` |
| `RequestsStayOne` | `CommandProofs` | `AttemptsAreOne`, half of `RequestsAreAsGiven` | `ApiInv` |
| `ExamplesAreKept` | `CommandProofs` | `ExamplesSurvive` | `DataInv` |
| `BoardStaysTrue` | `CommandProofs` | `BoardIsTrue` | `BoardInv` |
| `LookupsAreTrue` | `QueryProofs` | `LookupsTellTheTruth`, a part of `QueriesAreExact` | `LookupInv` |
| `ListsAreTrue` | `QueryProofs` | `ListsAreExact` and `OutputsAreWhole`, the other parts | `WalkInv` |
| `QueriesAreTrue` | `QueryProofs` | `QueriesAreExact`, of a list and a lookup side by side | the two above |
| `ThreadsAreTold` | `QueryProofs` | `ThreadIsTold`, a part of `ConversationsAreTold` | `ThreadInv` |
| `MessagesAreTold` | `QueryProofs` | `TracesAreTold`, the other part | `MessageInv` |
| `ConversationsAreTrue` | `QueryProofs` | `ConversationsAreTold`, of `trace messages` and `thread messages` side by side | the two above |
| `StatsAreTrue` | `CommandProofs` | `StatsAreMeasured` | `StatsInv` |

- `SaveInv`. Why is the file whole? Because what is about to be renamed is.
  `SaveShape` says that a temporary file in step `rename` is the process's whole
  copy, synced. Why does the current profile exist, when saves come from stale
  copies? Because every copy is itself consistent: `CopiesConsistent` says so of
  `disk`, of `stable` and of each `snap`, and no command makes a consistent copy
  inconsistent (`ApplyConsistent`).
- `SessionInv`. The holder of the lock is the process between its second reading
  and its write (`LockShape`), so the token it read is still in the config, is
  valid (`SessionKept`) and no other profile's (`DistinctTokens`). That is why
  it is exchanged once. The proof assumes `OnlyRequests`: `store_replay` shows
  that it fails otherwise.
- `VersionInv`. A copy is, from the moment it was loaded until it is renamed
  over the file, what its command makes of some version the file has held
  (`Planned`). Versions are only ever added, so no step of anybody takes that
  away; each step of `ProfileStore` is then one step of `ProfileRegister`, or
  none.
- `CommandInv`. `Selected` follows the profile through the loads of a command,
  `Paired` says that the endpoint at hand is that of the profile whose key is to
  be read from the second load. `ResolversAgree` needs no invariant but the types
  of the inputs; `AccountIsOne` compares `auth info` with the resolvers case by
  case, with its route only while nobody has switched (`Undisturbed`).
- `LoginInv`. `DiscoveryInv` relates the candidates tried to what was `heard`
  and carries `discoveryErr`: if it is not set, nothing that was heard failed.
  `PollInv` says that the interval is the server's plus five seconds for each
  `slow_down` and that the timer was set from the last answer.
- `DevInv`. `SandboxInv` says of a call, by the place it is at, what it has been
  through (`Sound`), that the host's queue asks for each queued call once
  (`Awaited`), and that answers under way are to calls that were answered
  (`Deliverable`). `PreviewInv` carries the entrypoint's age from the disk through
  a page half put together to the page shown (`FreshOK`). `FrameShown` ties the two.
- `UpdateInv`. `Fine(r)` says, step by step, what a run already knows: from
  `extract` on the archive is the one its checksum vouches for, from `stat` on the
  new binary is a whole one of the latest release, at `rename` the temporary file is that
  binary, unless closing may lose data. `Owners`: the wheel that owns a path still
  lists it, by its name or by the hash of what is there.
- `WaitInv`. No sandbox is ready while someone polls it who has not met that.
- `AgentInv`. `Followed` says of each channel who reads its connection, that it is
  closed only after the channel was, and that a reader that ended said so; a
  question is somewhere on the way that `OnItsWay` lists.
- `SshInv`. The lines of boxes are always in blocks of three (`InBlocks`), also when two
  setups and the user write in turns: a block is appended to what the file then holds,
  after an empty line if what was read did not end in one, and once there is a block
  the file does end in one (`GoodConfig`). So the block that is found is a comment, its
  `Host` and its body, and then lines of the user up to the next head (`TheBlock`). What
  is chosen from two parts joined is what is chosen from each (`BothChosen`), so another
  block in its place, or at the end, leaves the others' as they were.
- `HubInv`. `CleanSoFar`: what a pull that nobody disturbed has written is a part
  of the commit, and the directory holds that part and nothing else.
- `EvalInv`. Between the reading of a rule and its replacement, the payload has
  the settings that were read wherever no flag names another.
- `SpecInv`. A whole file is of the server it is named after and as old as its
  time says; a run that reads one knows that it is young enough.
- `SyncInv`. `DevSound`: the link of a directory names the app its source is of,
  unless a pull was cut short (`LinkDecides`), and the app that the last push was
  told of (`MineIsLinked`); a push that is about to patch holds the source of its
  directory and the id of its link (`PatchesTheLinked`).
- `InsightInv`. A wait is for a job of the configuration that the run itself
  started; jobs are never taken up again under the same id.
- `ConnectorInv`. The backoff is the one that follows the failures since the last
  healthy carrier, at each step of the loop.
- `TraceInv`. A run that goes on has the endpoint that belongs to its key, and in
  a project still knows what the user had.
- `TomlInv`. Whatever the lines of a file, an edit takes them in their order to places
  of the new file where the same header is the last above them (`Placed`), so each
  belongs to the table it was in (`TablesStay`), and what is not a key of the two
  settings is set as before (`SettingsStay`). A string that reads like the header may
  take the key instead, but then the file does not say so, and the document is
  marshalled (`SetInString`, `MarshalledIs`); in a plain file the text is enough
  (`TextIsEdited`).
- `DeletesInv`. The arguments in which the CLI looks for an operation (`Asked`) are
  those the tree gets, but for what a project adds. Two readers who know different
  flags see different roles: those of the tree's that are words are, in order, some of
  those of the CLI (`NothingHidden`, `JQKeepsWords`, `ResolvedKeeps`), so the first of
  them is the operation that was asked about, or none was told and no word deletes
  (`FirstDeletesNot`, `NoWordDeletes`). Where this fails is what `ProjectHidesOperation` says.
- `ApiInv`. What has arrived are attempts of the one call, and all but the last
  were answered with something that may be tried again.
- `DataInv`. What an undisturbed export has read is a prefix of the list
  (`ReadSoFar`). What an undisturbed upload has sent and what is left are the
  file, and the examples of its dataset come from the first items in reverse order
  (`CameFrom`), each from the same item as the one after it or the next: so none is
  left out, and one is there twice only where the SDK repeated a call (`SentSoFar`). That a page is the next part of a list is `PageIsNext`;
  that the items of a file which are no objects are dropped, and nothing else, is
  `KeptOfSequence`, by induction.
- `BoardInv`. Ids count from the oldest issue, each issue is what it was last given
  (`GivenIsTrue`), and the reader's rows are a prefix of the issues of its status that
  ends at its offset (`HasRead`), because each page that did not end it was full.
- `LookupInv`. The project in which a trace is read is the one that was named or
  the one it was found in (`ScopeIsMeant`), and no run of a trace starts before its
  root (`RootIsFirst`), so a root that is too old for the window stays so.
- `WalkInv`. What a chain of calls has printed is what there was, when its first
  page was read, between where it began and its cursor (`HasReached`): lists of falling
  numbers are compared as sets, so a page takes an interval off the rest, and what
  arrives later is newer than any place. `CursorsReach` says so of a page by cursor,
  `OffsetsReach` by offset, and of a server that ignores the page size and is resumed
  within a page by a skip cursor; a walk without a cursor is at the end
  (`ReachedIsExact`). That every trace is read before threads are counted is
  `ThreadsAreWhole`.
- `ThreadInv`. What a reader has been told are groups of the turns between the one it
  began with and its cursor, in order, and all of them if every answer was a whole page
  (`ReaderIsTold`); a page that is asked for goes on there (`RunIsNext`), and the stream
  that came is one of the answers of the server to it (`AnswerTold`). What the parser
  makes of a stream, wherever it was cut, is by induction over its lines.
- `MessageInv`. What was told, and in a walk what it has got, are the traces 1, 2, 3, ...
  up to a place (`ListIsTold`, `RunGoesOn`), for each page begins where the last one
  ended, however short it was. That the two views of a trace agree is by induction over
  its groups, and needs that no tool has the name that stands for none (`Groups`).
- `StatsInv`. From the start on, the keys are those that were asked for, each once
  (`KeysAreMeant`); what was read is the count of the traces that the flags name for
  every one of them (`Shows`), because no trace starts after the clock
  (`TimesAreSound`): so an open end and the time of the request are the same. That each name of a list is taken once is `EachOnceIs`, from `KeptAre`.

The assumptions are those of the modules (`...Assumption`): that ids, limits and
budgets are of their types, that the stand-ins for nothing (`None`, `NoProfile`,
`NotYet`, ...) are not values, that there is some input to a command. No assumption speaks of what a
command does, and TLC evaluates them all on the instances of the runs. The two
theorems with a hypothesis are named with it: `OnlyRequests` and `LossyClose = FALSE`.

The proofs found three things about the models. A clause of `AppsStayApart` was false
beyond the budgets of the run: half an archive may be pushed over an app not only
where a pull was cut short, but also where that half was pushed before and pulled
again, whole as an archive (`half` in `AppsSync`). And where the guards of a `CASE`
overlapped, TLC takes the first arm while the definition allows any; those that
proofs met are now nested `IF`s, in the order of the code. `DeletesAreConfirmed` was
false of arguments that the run does not have: it excepted only a project that is
named like an operation, but a project that looks like a flag, or the name of a
project's flag where another flag's value should be, hides an operation as well.

`QueryInput` is what flags give a list, of any limit and offset; 0 is the limit
that takes all.

Only model-checked:

- liveness: `PollingEnds`, `InterruptEnds`, and the parts of
  `CallsSettleOnce` and `TabFollows` that say that something happens. It depends on
  fairness, which is out of the prover's reach.
- what is computed from sequences of any length by filters and folds, whose
  definitions the prover does not see: fields to objects (`FieldsAreSent`, the other half of
  `RequestsAreAsGiven`), and, in `GeneratedRunsAsTold`, how commands are mounted
  (`MountIsSound`), words become parameters (`ProjectIsMeant`) and answers are
  filtered (`FilterSeesWhole`). Where such
  a definition is a recursive function, as `ObjectsOf` of `Datasets`, `OfStatus` of
  `Issues`, `EachOnce` of `TraceStats`, `Wanted` of `RunQueries`, `Parsed` of
  `ThreadMessages`, `Picked` of `TraceMessages`,
  `Bare` of `CodexToml`, `Chosen` of `SshConfig`, and `Roles` and `Those` of `GeneratedCommands`, induction is possible by the least place at
  which the claim fails (`LeastIsThere`), and has been done.
- `CommandsTypeOK`, the conjunction of the type invariants of twenty parts; those of
  the parts with theorems are in their inductive invariants.

## Found on the way

- `store_replay` (profile.go:291): `profile use` saves the copy it loaded. If a
  request of another process has refreshed the token meanwhile, the rotated
  token comes back and is presented by the next refresh, which costs the user
  every session; client.go says that this must not happen.
- `cred_proxy` (sandbox_ssh.go:121): `ssh-setup --profile p` with an OAuth
  profile writes a ProxyCommand that names neither the profile nor a key: the
  tunnel uses whatever profile is current when it is opened.
- `cred_prefix` (root.go:267): the endpoint is normalized before the platform
  prefix is derived from the suffix that normalizing strips.
- `apps_reload` (apps_dev.go:904): the page takes the modification time of its
  first poll for that of the bundle it shows; a rebuild between the two is never
  shown. `PreviewCatchesUp` is what holds in its place.
- `stats_compare` (trace_stats.go:147): `--help` says that the window to compare with
  ends where the first one starts if `--compare-before` is left out, and that
  `--compare-last-n-minutes` are the minutes before that start. The code leaves the end
  open and counts the minutes back from now, so that the traces of the first window are
  counted in both. `StatsAreMeasured` has what holds.
- `update_atomic` (update.go:435): the error of closing the temporary file is
  dropped, and the file is renamed over the binary even if its last bytes could
  not be written. `BinariesStayWhole` assumes that closing loses nothing.

Read, but not run (no property says otherwise, the models do as the code does):

- Self-update: two updates at once may downgrade the binary; the comment that a
  RECORD entry "only counts when its sha256 matches" against the code that accepts
  an entry without a hash at its own path (wheel_install.go:395).
- Login: `--prompt-workspace` asks after the tokens were granted and drops them if
  the prompt fails (login.go:202).
- Apps: `init --force` drops the link of a pushed app; a pull that is killed leaves
  the link of the archive, for `.langsmith` is not in `appsSourceDenyDirs`; the help
  of `push` says that `--name` only matters the first time, the code renames.
- Sandboxes: `create --console` finds out that `--env` names an unset variable
  only after it has created the box; a stopped box is polled for ever.
- Setup: user-scope settings are truncated and written in place, so a kill may lose
  them. Evaluators: `extractJSFunction` cuts `const f = ({a}) =>` before a brace on
  the next line; `extractPythonFunction` takes the statements that follow along.
- Hub: a name that is taken drops the metadata of a new repo, `--public` included;
  `--type` is ignored for an existing repo.
- Datasets: an export of no examples writes `null`, which `upload` refuses; items
  that are no objects are dropped in silence; an upload that failed cannot be
  resumed; the default limit of 100 is still reported as exported. The SDK makes
  a call again whose answer is lost (client.go:304): an upload may make an example
  twice, and still reports the number of the items (dataset.go:411).
- Insights: a report that cannot be started leaves its configuration saved.
- Messages: `thread messages` does not look at the status of the answer
  (thread.go:331), so a refused request is told as "No messages found."; an error
  event without a text is ignored; `trace messages --cursor` with a limit above the
  server's page is always refused, and a server that repeats a cursor with empty
  pages is asked for ever.
- Lookups: without a project on v2, `trace get` says a trace was not found "among
  runs since" a time, though only its root is looked for: a later run of an older
  trace may have started since (trace.go:331).
- Statistics: an invalid `--before` or `--compare-before` is ignored in silence
  (trace_stats.go:148), and the window is open.
- Queries: the totals that `trace list` adds to roots of the runs query are read from
  one page of the traces query (trace_query.go:147). A trace that is not on it shows
  the usage of its root alone, and nothing in the output tells.
- Raw requests: `--body` drops the fields in silence where `--input` refuses them;
  `-F 'a[][b]=null' -F 'a[][b]=1'` crashes (fields.go:177); a POST may be sent twice.
- Issues: the reading rule of the help ends early if `--limit` exceeds what the
  server gives; proposing twice may propose two examples.
- Generated commands: whether an invocation deletes is found out before `--project`
  and `--project-id` are known as flags with a value (generated.go:196 and 355,
  generated_project.go:67). If a project is given before the operation and named
  like another one or like a flag, as in `runs share --project create delete ...`, its name is taken for
  the operation and nothing is asked, though "an unrecognized flag can never skip
  the confirmation" (generated.go:354). TLC shows this if `ProjectHidesOperation`
  is dropped from `DeletesAreConfirmed`.
- Generated commands: `--help`, even as the value of a flag or after `--`, skips the
  question before a deletion, and credentials; a project is appended after a `--`,
  where it is a word; `--yes` is taken out even where it is a flag's value.

## Limits

- The LangSmith SDK and server, the authorization server, GitHub, package
  managers, the build tool, browsers and urfave/cli are modelled from how the
  code uses them.
- Strings are abstracted to what tells them apart. The parsing of flags and of
  JSON is left out, but for a config cut short or unreadable and for the arguments
  of generated commands.
- `disk` has one file of bytes; directory entries are durable once renamed, as
  `SaveTo` relies on. Self-update does not sync; power losses are not in
  `SelfUpdate`, only kills.
- The refresh lock is the SDK's; that it is released on a kill is assumed.
- Two tabs on one `apps dev`, and the lower layers of HTTP, are left out.
- Queries: nothing arrives during a lookup by trace or on a hub that is paged by
  offset, where pages shift; cursors of servers are places in their lists. The
  write errors of `trace export`, which the code ignores, are left out.
- Files whose names differ only in case are different files.

## Plan

1. Abstract specifications for `AppsSync` (a repository of versions in which a push
   is one step) and for the walk over pages (one query of the whole list).
2. The install scripts against self-update.

Components that share no state are checked in one run, in a module that extends
them and chooses one at `Init`, so that their state spaces add.
