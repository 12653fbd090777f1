---------------------------- MODULE CredentialUse ----------------------------
(***************************************************************************)
(* Commands that resolve their credentials more than once, while another   *)
(* process switches the current profile.                                   *)
(*                                                                         *)
(* `relay connect' and `tunnel connect' resolve the options and then load  *)
(* the config again for the API key an OAuth profile also stores.          *)
(* `sandboxes ssh-setup' builds a client, uploads a key through it, and    *)
(* loads the config up to three more times to write the ProxyCommand.      *)
(* `traces setup' checks that the profile stores its key before it         *)
(* resolves the key it writes into the agent's config.                     *)
(***************************************************************************)
EXTENDS Credentials, Naturals

CONSTANTS
  Configs,   \* the configs a run starts with
  Envs,      \* the environments of the process
  FlagSets,  \* the global flags it is given
  Ops,       \* the commands it runs
  MaxUses    \* bound on the switches of the other process

ASSUME InputsAssumption ==
  /\ Configs \subseteq Config \cup {Unreadable}
  /\ Envs \subseteq Env
  /\ FlagSets \subseteq Flags
ASSUME OpsAssumption == Ops \subseteq {"call", "connect", "ssh", "setup"}
ASSUME MaxUsesAssumption == MaxUses \in Nat

VARIABLES
  config,  \* the config file
  env,     \* the process's environment
  flags,   \* its global flags
  arg,     \* whether `traces setup' is given the key as an argument
  pc,      \* where it is
  opts,    \* the options it last resolved
  ref,     \* the profile ssh-setup names in the ProxyCommand
  made,    \* what the command made
  uses     \* switches of the current profile

inputVars == <<env, flags, arg>>
vars == <<config, inputVars, pc, opts, ref, made, uses>>

\* A client to call the API with, a connector, a ProxyCommand or a key
\* written into a coding agent's config.
Nothing == [kind |-> "nothing", key |-> NoKey, login |-> None,
            url |-> DefaultURL, ws |-> None]

Kinds == {"nothing", "client", "connector", "proxy", "agent"}

Made == [kind: Kinds, key: Key, login: Names \cup {None},
         url: URL, ws: Workspaces \cup {None}]

Steps == {"call", "connect", "connectKey", "ssh", "sshRef", "sshKey", "sshURL",
          "setup", "setupKey", "done", "failed"}

Init ==
  /\ config \in Configs
  /\ env \in Envs
  /\ flags \in FlagSets
  /\ arg \in BOOLEAN
  /\ pc \in Ops
  /\ arg => pc = "setup"
  /\ opts = Failed("none")
  /\ ref = None
  /\ made = Nothing
  /\ uses = 0

\* Another process runs `profile use'.
UseProfile(n) ==
  /\ uses < MaxUses
  /\ config # Unreadable
  /\ config.profiles[n] # None
  /\ config' = [config EXCEPT !.current = n]
  /\ uses' = uses + 1
  /\ UNCHANGED <<inputVars, pc, opts, ref, made>>

-----------------------------------------------------------------------------

Goto(step) == pc' = step

Fail == Goto("failed") /\ made' = Nothing

\* Any command that calls the API.
Call ==
  /\ pc = "call"
  /\ LET o == ResolveClientOptions(config, flags, env)
         c == NewWithOptions(o)
     IN /\ opts' = o
        /\ IF o.error # "none" \/ ~HasAuth(o) THEN Fail
           ELSE /\ Goto("done")
                /\ made' = [kind |-> "client", key |-> c.key, login |-> c.login,
                            url |-> c.url, ws |-> c.ws]
  /\ UNCHANGED <<config, inputVars, ref, uses>>

-----------------------------------------------------------------------------
(* relay connect and tunnel connect.                                       *)

Connector(key, url) ==
  [kind |-> "connector", key |-> key, login |-> None,
   url |-> NormalizeURL(url), ws |-> None]

Connect ==
  /\ pc = "connect"
  /\ LET o == ResolveClientOptions(config, flags, env)
     IN /\ opts' = o
        /\ IF o.error # "none" THEN Fail
           ELSE IF o.key = NoKey /\ o.profile = None THEN Fail
           ELSE IF o.key # NoKey THEN Goto("done") /\ made' = Connector(o.key, o.url)
           ELSE Goto("connectKey") /\ made' = made
  /\ UNCHANGED <<config, inputVars, ref, uses>>

ConnectKeyM ==
  /\ pc = "connectKey"
  /\ LET p == ProfileOrNone(Read(config), config.current)
     IN IF p # None /\ p.stored
          THEN /\ Goto("done")
               /\ made' = Connector([from |-> "stored", of |-> config.current], opts.url)
          ELSE Fail
  /\ UNCHANGED <<config, inputVars, opts, ref, uses>>

\* The edge takes API keys only: an OAuth profile's stored key is used.
ConnectKey ==
  /\ pc = "connectKey"
  /\ LET p == ProfileOrNone(Read(config), opts.profile)
     IN IF p # None /\ p.stored
          THEN /\ Goto("done")
               /\ made' = Connector([from |-> "stored", of |-> opts.profile], opts.url)
          ELSE Fail
  /\ UNCHANGED <<config, inputVars, opts, ref, uses>>

-----------------------------------------------------------------------------
(* sandboxes ssh-setup.                                                    *)

\* The client that uploads the public key and reads the host key.
SSHClient ==
  /\ pc = "ssh"
  /\ LET o == CmdutilClientOptions(config, flags, env)
     IN /\ opts' = o
        /\ IF o.error # "none" \/ ~HasAuth(o) THEN Fail
           ELSE Goto("sshRef") /\ made' = made
  /\ UNCHANGED <<config, inputVars, ref, uses>>

RefProfileM ==
  LET name == ResolveProfileName(Read(config), flags.profile, None)
      p    == ProfileOrNone(Read(config), name)
  IN IF /\ ~flags.key /\ ~env.key
        /\ p # None
        /\ p.ref /\ ~p.oauth /\ ~p.stored
       THEN name ELSE None

\* The selected profile, when its key is kept out of the config.
RefProfile ==
  LET name == ResolveProfileName(Read(config), flags.profile, env.profile)
      p    == ProfileOrNone(Read(config), name)
  IN IF /\ ~flags.key /\ ~env.key
        /\ p # None
        /\ p.ref /\ ~p.oauth /\ ~p.stored
       THEN name ELSE None

SSHRef ==
  /\ pc = "sshRef"
  /\ ref' = RefProfile
  /\ Goto(IF ref' = None THEN "sshKey" ELSE "sshURL")
  /\ UNCHANGED <<config, inputVars, opts, made, uses>>

SSHKey ==
  /\ pc = "sshKey"
  /\ opts' = ResolveClientOptions(config, flags, env)
  /\ Goto("sshURL")
  /\ UNCHANGED <<config, inputVars, ref, made, uses>>

\* The ProxyCommand runs the tunnel with --profile or --api-key, or neither,
\* and with --api-url unless it is the default.
SSHURL ==
  /\ pc = "sshURL"
  /\ made' = [kind |-> "proxy",
              key |-> IF ref = None THEN opts.key ELSE NoKey,
              login |-> ref,
              url |-> ResolveClientOptions(config, flags, env).url,
              ws |-> None]
  /\ Goto("done")
  /\ UNCHANGED <<config, inputVars, opts, ref, uses>>

-----------------------------------------------------------------------------
(* traces setup.                                                           *)

SetupCheck ==
  /\ pc = "setup"
  /\ IF ~arg /\ RefProfile # None THEN Fail
     ELSE Goto("setupKey") /\ made' = made
  /\ UNCHANGED <<config, inputVars, opts, ref, uses>>

\* A positional key wins, and needs no readable config.
SetupKey ==
  /\ pc = "setupKey"
  /\ LET o   == ResolveClientOptions(config, flags, env)
         key == IF arg THEN UserKey("arg") ELSE o.key
     IN /\ opts' = [o EXCEPT !.key = key]
        /\ IF (arg /\ flags.key) \/ key = NoKey THEN Fail
           ELSE /\ Goto("done")
                /\ made' = [kind |-> "agent", key |-> key, login |-> None,
                            url |-> o.url, ws |-> None]
  /\ UNCHANGED <<config, inputVars, ref, uses>>

Next ==
  \/ \E n \in Names : UseProfile(n)
  \/ Call
  \/ Connect \/ ConnectKey
  \/ SSHClient \/ SSHRef \/ SSHKey \/ SSHURL
  \/ SetupCheck \/ SetupKey

Spec == Init /\ [][Next]_vars

-----------------------------------------------------------------------------
(* Properties.                                                             *)

TypeOK ==
  /\ config \in Config \cup {Unreadable}
  /\ env \in Env
  /\ flags \in Flags
  /\ arg \in BOOLEAN
  /\ pc \in Steps
  /\ opts \in Options
  /\ ref \in Names \cup {None}
  /\ made \in Made
  /\ uses \in 0..MaxUses

\* The two copies of the resolver agree, on what they return and on when they
\* fail: a command does not change account, endpoint or workspace with the
\* helper its author happened to call.
MirrorsTopLevel ==
  CmdutilClientOptions(config, flags, env) = ResolveClientOptions(config, flags, env)

\* `auth info' reports the key or login the other commands would send, and
\* none when they would send none.
InfoTellsCredentials ==
  LET o == ResolveClientOptions(config, flags, env)
      i == AuthInfo(config, flags, env)
  IN o.error = "none" =>
       /\ i.error = "none"
       /\ i.key = o.key
       /\ i.login = NewWithOptions(o).login

\* A command told which profile to use never falls back to the credentials of
\* another, whatever the config's current profile is or becomes.
SelectedProfileOnly ==
  Asks(flags, env) =>
    {made.key.of, made.login} \subseteq {None, FirstOf(flags.profile, env.profile)}

\* A profile's key is only sent to that profile's endpoint, or to the one the
\* user named, although the connector reads the two from different loads of
\* the config.
KeyMatchesEndpoint ==
  (made.kind \in {"client", "connector"} /\ made.key.of # None) =>
    made.url = NormalizeURL(EndpointOf(config.profiles[made.key.of], flags, env))

\* A key a profile keeps out of the config is never written into another file,
\* ~/.ssh/config or a coding agent's config, by a command during which nobody
\* switches the current profile.
ReferencedKeyStaysOut ==
  (made.kind \in {"proxy", "agent"} /\ uses = 0) => made.key.from # "ref"

\* The client of the tunnel the ProxyCommand starts.
ProxyFlags ==
  [profile |-> made.login, key |-> made.key # NoKey, ws |-> None,
   url |-> IF made.url = DefaultURL THEN None ELSE made.url]

ProxyClient == NewWithOptions(ResolveClientOptions(config, ProxyFlags, env))

\* The ProxyCommand ssh-setup writes tunnels with the credentials it was itself
\* given: resolving its flags gives the same key or login, for the same host.
ProxyKeepsCredentials ==
  made.kind = "proxy" =>
    LET c == NewWithOptions(ResolveClientOptions(config, flags, env))
    IN /\ ProxyClient.url = c.url
       /\ IF made.key # NoKey THEN made.key = c.key
          ELSE ProxyClient.key = c.key /\ ProxyClient.login = c.login

\* The endpoint as the user or the profile gives it.
GivenURL ==
  LET name == ResolveProfileName(Read(config), flags.profile, env.profile)
      p    == ProfileOrNone(Read(config), name)
      overridden == flags.profile # None /\ p # None /\ p.url # None
  IN FirstOf(flags.url,
       IF env.endpoint # None /\ ~overridden THEN env.endpoint
       ELSE IF p # None THEN FirstOf(p.url, DefaultURL) ELSE DefaultURL)

\* The platform service is addressed for the topology the endpoint, as it was
\* given, tells.
PrefixFollowsEndpoint ==
  LET o == ResolveClientOptions(config, flags, env)
  IN made.kind = "client" => NewWithOptions(o).prefix = PlatformPrefix(GivenURL)

\* `auth info' reports the endpoint and the workspace the other commands use,
\* but for the two settings it treats differently: it takes LANGSMITH_ENDPOINT
\* for a profile named by --profile, and it does not read --workspace.
InfoTellsRoute ==
  LET o == ResolveClientOptions(config, flags, env)
      i == AuthInfo(config, flags, env)
  IN (made.kind = "client" /\ uses = 0) =>
       /\ flags.profile = None \/ env.endpoint = None => i.url = NewWithOptions(o).url
       /\ flags.ws = None => i.ws = o.ws

\* The three copies of the precedence between flags, environment and profile make
\* one account: both resolvers use it, and `auth info' tells it.
OneAccount == MirrorsTopLevel /\ InfoTellsCredentials /\ InfoTellsRoute

=============================================================================
