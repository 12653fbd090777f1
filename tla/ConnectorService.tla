-------------------------- MODULE ConnectorService --------------------------
(***************************************************************************)
(* `connector run' (internal/cmd/connector_run.go, connector_config.go):   *)
(* its settings come from a YAML file and the environment, then it keeps a *)
(* carrier to LangSmith up for as long as it is not stopped, waiting       *)
(* between two carriers. Times are counted in half seconds.                *)
(***************************************************************************)
EXTENDS Integers, Sequences, FiniteSets, FiniteSetsExt

CONSTANTS
  ConnectorFiles,  \* YAML files, as records (see FileConfig)
  ConnectorEnvs,   \* environments, as records (see Environment)
  Uptimes,         \* how long carriers last
  MaxCarriers      \* bound on the carriers

VARIABLES
  given,     \* the file and the environment the command was started with
  settings,  \* what they resolve to
  service,   \* "load", "carrier", "waiting", "stopped" or "error"
  backoff,   \* the next wait
  history    \* how long each carrier that broke lasted, and the wait after it

connectorVars == <<given, settings, service, backoff, history>>

\* A text that is not given, and one that is of spaces only.
NotGiven == ""

Spaces == " "

\* Lists and mappings are texts, empty ones NotGiven.
FileConfig == [id : {NotGiven, "file"}, key : {NotGiven, "file", Spaces}, keyFile : {NotGiven, "file"}, relay : BOOLEAN,
               rules : {NotGiven, "file"}]

\* relay is the value of LANGSMITH_CONNECTOR_RELAY_MODE, targets that of the list.
Environment == [id : {NotGiven, "env"}, key : {NotGiven, "env", Spaces}, keyFile : {NotGiven, "env"},
                relay : {NotGiven, "true", "false", "maybe"}, rules : {NotGiven, "env"}, targets : {NotGiven, "one", "twice"}]

ASSUME ConnectorAssumption ==
  /\ MaxCarriers \in Nat /\ Uptimes \subseteq Nat
  /\ ConnectorFiles \subseteq FileConfig /\ ConnectorEnvs \subseteq Environment

NoSettings == [id |-> NotGiven, key |-> NotGiven, keyFile |-> NotGiven, relay |-> FALSE, rules |-> NotGiven, targets |-> NotGiven]

InitialBackoff == 1

MaxBackoff == 30

HealthyUptime == 120

ConnectorInit ==
  /\ given \in [file : ConnectorFiles, env : ConnectorEnvs]
  /\ settings = NoSettings
  /\ service = "load"
  /\ backoff = InitialBackoff
  /\ history = <<>>

-----------------------------------------------------------------------------
\* resolveConnectorSettings.

FirstNonEmpty(a, b) == IF a # NotGiven THEN a ELSE b

Trimmed(value) == IF value = Spaces THEN NotGiven ELSE value

\* The key: one of the environment before one of the file; a file with a key
\* before the file's key.
KeySetting(file, env) ==
  IF Trimmed(env.key) # NotGiven THEN [key |-> env.key, keyFile |-> NotGiven]
  ELSE IF env.keyFile # NotGiven THEN [key |-> NotGiven, keyFile |-> env.keyFile]
  ELSE IF Trimmed(file.key) # NotGiven THEN [key |-> file.key, keyFile |-> NotGiven]
  ELSE [key |-> NotGiven, keyFile |-> file.keyFile]

RelaySetting(file, env) == IF env.relay = NotGiven THEN file.relay ELSE env.relay = "true"

SettingsFail(file, env) ==
  \/ FirstNonEmpty(env.id, file.id) = NotGiven
  \/ Trimmed(env.key) # NotGiven /\ env.keyFile # NotGiven
  \/ KeySetting(file, env) = [key |-> NotGiven, keyFile |-> NotGiven]
  \/ env.targets = "twice"
  \/ env.relay = "maybe"
  \/ ~RelaySetting(file, env) /\ FirstNonEmpty(env.rules, file.rules) # NotGiven

ResolvedSettings(file, env) ==
  [id |-> FirstNonEmpty(env.id, file.id), key |-> KeySetting(file, env).key, keyFile |-> KeySetting(file, env).keyFile,
   relay |-> RelaySetting(file, env), rules |-> FirstNonEmpty(env.rules, file.rules), targets |-> env.targets]

LoadConfig ==
  /\ service = "load"
  /\ \/ /\ ~SettingsFail(given.file, given.env)
        /\ settings' = ResolvedSettings(given.file, given.env)
        /\ service' = "carrier"
     \/ service' = "error" /\ UNCHANGED settings
  /\ UNCHANGED <<given, backoff, history>>

-----------------------------------------------------------------------------
\* runConnectorService.

\* The carrier breaks after some time: one that lasted long enough makes the
\* wait short again.
CarrierBreaksM(uptime) ==
  /\ service = "carrier" /\ Len(history) < MaxCarriers
  /\ backoff' = (IF backoff = InitialBackoff /\ uptime >= HealthyUptime THEN InitialBackoff ELSE backoff)
  /\ history' = Append(history, [uptime |-> uptime, wait |-> backoff'])
  /\ service' = "waiting"
  /\ UNCHANGED <<given, settings>>

CarrierBreaks(uptime) ==
  /\ service = "carrier" /\ Len(history) < MaxCarriers
  /\ backoff' = (IF uptime >= HealthyUptime THEN InitialBackoff ELSE backoff)
  /\ history' = Append(history, [uptime |-> uptime, wait |-> backoff'])
  /\ service' = "waiting"
  /\ UNCHANGED <<given, settings>>

Reconnect ==
  /\ service = "waiting"
  /\ backoff' = Min({2 * backoff, MaxBackoff})
  /\ service' = "carrier"
  /\ UNCHANGED <<given, settings, history>>

\* A signal, while the carrier is up or during the wait; or the carrier ends
\* without an error.
StopConnector ==
  /\ service \in {"carrier", "waiting"}
  /\ service' = "stopped"
  /\ UNCHANGED <<given, settings, backoff, history>>

ConnectorNext ==
  LoadConfig \/ (\E uptime \in Uptimes : CarrierBreaks(uptime)) \/ Reconnect \/ StopConnector

ConnectorSpec == ConnectorInit /\ [][ConnectorNext]_connectorVars

-----------------------------------------------------------------------------
\* Properties.

ConnectorTypeOK ==
  /\ service \in {"load", "carrier", "waiting", "stopped", "error"}
  /\ backoff \in InitialBackoff .. MaxBackoff
  /\ Len(history) <= MaxCarriers

\* The carriers up to the n-th that lasted long enough.
Healthy(n) == {i \in 1 .. n : history[i].uptime >= HealthyUptime}

\* How many carriers have failed in a row when the n-th broke: a healthy one starts
\* anew, and so does the service.
FailuresSince(n) == IF Healthy(n) = {} THEN n - 1 ELSE n - Max(Healthy(n))

\* Half a second, 1, 2, 4, 8 and then 15 seconds.
Waits == <<1, 2, 4, 8, 16>>

WaitAfter(failures) == IF failures < Len(Waits) THEN Waits[failures + 1] ELSE MaxBackoff

(***************************************************************************)
(* Each wait is as long as the carriers that broke before it ask for: half *)
(* a second after a healthy one or at the start, then twice as much each   *)
(* time up to fifteen seconds, however healthy and short-lived carriers    *)
(* mix (runConnectorService).                                              *)
(***************************************************************************)
WaitsFollowFailures == \A n \in DOMAIN history : history[n].wait = WaitAfter(FailuresSince(n))

\* The service runs with exactly one way to its key, and not with the file's
\* when the environment has one (resolveConnectorSettings).
OneKey ==
  service \in {"carrier", "waiting", "stopped"} =>
    /\ (settings.key = NotGiven) # (settings.keyFile = NotGiven)
    /\ Trimmed(given.env.key) # NotGiven \/ given.env.keyFile # NotGiven => "file" \notin {settings.key, settings.keyFile}

\* The service connects at the pace its failures ask for, with one way to its key.
ConnectorIsSound == WaitsFollowFailures /\ OneKey
=============================================================================
