----------------------------- MODULE Credentials -----------------------------
(***************************************************************************)
(* Which credentials, endpoint and workspace a command uses: the global    *)
(* flags, then the environment, then the selected profile of the config.   *)
(* The rules are written three times in the code: for the CLI's own        *)
(* commands (resolveClientOptionsFor), for the helpers that read cobra     *)
(* flags (cmdutil.ResolveClientOptions) and for `auth info'.               *)
(***************************************************************************)
EXTENDS ApiURL

CONSTANTS
  Names,       \* profile names
  Default,     \* the name "default"
  Workspaces,  \* workspace ids
  None,        \* the empty string; in a config, no such profile
  Unreadable   \* a config file that cannot be read or parsed

ASSUME NamesAssumption == Default \in Names /\ None \notin Names
ASSUME NoneAssumption == None \notin URL \cup Workspaces

\* An OAuth login, an API key in the file, and api_key_env or api_key_cmd,
\* which only say where to read one.
Profile == [url: URL \cup {None}, ws: Workspaces \cup {None},
            oauth: BOOLEAN, stored: BOOLEAN, ref: BOOLEAN]

ASSUME NoProfileAssumption == None \notin Profile

Config == [profiles: [Names -> Profile \cup {None}], current: Names \cup {None}]

ASSUME UnreadableAssumption == Unreadable \notin Config

\* `answers' are the profiles whose variable is set or whose command prints.
Env == [profile: Names \cup {None}, endpoint: URL \cup {None},
        tenant: Workspaces \cup {None}, ws: Workspaces \cup {None},
        key: BOOLEAN, answers: SUBSET Names]

Flags == [profile: Names \cup {None}, url: URL \cup {None},
          ws: Workspaces \cup {None}, key: BOOLEAN]

\* An API key, by where it was read: a flag, the environment, a positional
\* argument, or the profile `of' (stored in it, or behind its reference).
Key == [from: {"none", "flag", "env", "arg", "stored", "ref"},
        of: Names \cup {None}]

NoKey == [from |-> "none", of |-> None]

UserKey(from) == [from |-> from, of |-> None]

\* client.Options, and the error the resolver returned with it.
Options == [key: Key, url: URL, ws: Workspaces \cup {None},
            profile: Names \cup {None},
            error: {"none", "config", "profile", "key"}]

EmptyConfig == [profiles |-> [n \in Names |-> None], current |-> None]

Read(config) == IF config = Unreadable THEN EmptyConfig ELSE config

-----------------------------------------------------------------------------
(* The selected profile.                                                   *)

FirstOf(a, b) == IF a # None THEN a ELSE b

ResolveProfileNameM(cfg, flagProfile, envProfile) ==
  FirstOf(flagProfile,
    FirstOf(cfg.current,
      FirstOf(envProfile,
              IF cfg.profiles[Default] # None THEN Default ELSE None)))

ResolveProfileName(cfg, flagProfile, envProfile) ==
  FirstOf(flagProfile,
    FirstOf(envProfile,
      FirstOf(cfg.current,
              IF cfg.profiles[Default] # None THEN Default ELSE None)))

\* The profile of that name, None if there is none.
ProfileOrNone(cfg, name) == IF name = None THEN None ELSE cfg.profiles[name]

HasAPIKey(p) == p.stored \/ p.ref

\* A key in the file is preferred to a reference, which may not answer.
ResolveAPIKey(p, name, env) ==
  IF p.stored THEN [from |-> "stored", of |-> name]
  ELSE IF p.ref /\ name \in env.answers THEN [from |-> "ref", of |-> name]
  ELSE NoKey

Asks(flags, env) == flags.profile # None \/ env.profile # None

-----------------------------------------------------------------------------
(* The CLI's commands (root.go).                                           *)

Failed(error) == [key |-> NoKey, url |-> DefaultURL, ws |-> None,
                  profile |-> None, error |-> error]

\* LANGSMITH_ENDPOINT gives way to the endpoint of a profile named by --profile.
EndpointOf(p, flags, env) ==
  IF flags.url # None THEN NormalizeURL(flags.url)
  ELSE IF env.endpoint # None /\ ~(flags.profile # None /\ p # None /\ p.url # None)
    THEN NormalizeURL(env.endpoint)
  ELSE IF p # None /\ p.url # None THEN p.url
  ELSE DefaultURL

WorkspaceOf(p, flags, env) ==
  FirstOf(flags.ws,
    FirstOf(env.ws, FirstOf(env.tenant, IF p # None THEN p.ws ELSE None)))

\* What is returned once the profile is resolved: p, or None without one.
Resolved(p, flags, env, key, profile, error) ==
  [key |-> key, url |-> EndpointOf(p, flags, env), ws |-> WorkspaceOf(p, flags, env),
   profile |-> profile, error |-> error]

ProfileOptions(p, name, flags, env) ==
  IF p.oauth THEN Resolved(p, flags, env, NoKey, name, "none")
  ELSE IF ~HasAPIKey(p) THEN Resolved(p, flags, env, NoKey, None, "none")
  ELSE IF ResolveAPIKey(p, name, env) = NoKey
    THEN Resolved(p, flags, env, NoKey, None, "key")
  ELSE Resolved(p, flags, env, ResolveAPIKey(p, name, env), name, "none")

ResolveClientOptions(config, flags, env) ==
  LET name == ResolveProfileName(Read(config), flags.profile, env.profile)
      p    == ProfileOrNone(Read(config), name)
  IN IF config = Unreadable /\ Asks(flags, env) THEN Failed("config")
     ELSE IF Asks(flags, env) /\ p = None THEN Failed("profile")
     ELSE IF flags.key THEN Resolved(p, flags, env, UserKey("flag"), None, "none")
     ELSE IF env.key THEN Resolved(p, flags, env, UserKey("env"), None, "none")
     ELSE IF config = Unreadable THEN Resolved(p, flags, env, NoKey, None, "config")
     ELSE IF p = None THEN Resolved(p, flags, env, NoKey, None, "none")
     ELSE ProfileOptions(p, name, flags, env)

HasAuth(opts) == opts.key # NoKey \/ opts.profile # None

\* Credentials of the requests the client sends: its key, else the login of
\* the profile.  The platform prefix is derived from the URL it is given.
NewWithOptions(opts) ==
  [key |-> opts.key,
   login |-> IF opts.key = NoKey THEN opts.profile ELSE None,
   url |-> NormalizeURL(opts.url),
   ws |-> opts.ws,
   prefix |-> PlatformPrefix(opts.url)]

-----------------------------------------------------------------------------
(* The helpers that take a cobra command (cmdutil/resolve.go).             *)

\* The URL, then each setting that overrides it, in the order they are read.
CmdutilURL(p, flags, env) ==
  LET saved    == IF p # None THEN FirstOf(p.url, DefaultURL) ELSE DefaultURL
      ignored  == flags.profile # None /\ p # None /\ p.url # None
      fromEnv  == IF env.endpoint = None \/ ignored
                    THEN saved ELSE NormalizeURL(env.endpoint)
  IN IF flags.url = None THEN fromEnv ELSE NormalizeURL(flags.url)

CmdutilWorkspaceM(p, flags, env) ==
  CASE flags.ws # None -> flags.ws
    [] flags.ws = None /\ env.tenant # None -> env.tenant
    [] flags.ws = None /\ env.tenant = None /\ env.ws # None -> env.ws
    [] OTHER -> IF p = None THEN None ELSE p.ws

CmdutilWorkspace(p, flags, env) ==
  CASE flags.ws # None -> flags.ws
    [] flags.ws = None /\ env.ws # None -> env.ws
    [] flags.ws = None /\ env.ws = None /\ env.tenant # None -> env.tenant
    [] OTHER -> IF p = None THEN None ELSE p.ws

CmdutilClientOptions(config, flags, env) ==
  LET cfg  == Read(config)
      name == ResolveProfileName(cfg, flags.profile, env.profile)
      p    == ProfileOrNone(cfg, name)
      key  == CASE flags.key                      -> UserKey("flag")
                [] env.key /\ ~flags.key          -> UserKey("env")
                [] p # None /\ ~flags.key /\ ~env.key /\ ~p.oauth ->
                     ResolveAPIKey(p, name, env)
                [] OTHER                          -> NoKey
      routed == p # None /\ ~flags.key /\ ~env.key /\ (p.oauth \/ key # NoKey)
      mute   == p # None /\ ~flags.key /\ ~env.key /\ ~p.oauth
                /\ HasAPIKey(p) /\ key = NoKey
  IN IF Asks(flags, env) /\ config = Unreadable THEN Failed("config")
     ELSE IF Asks(flags, env) /\ p = None THEN Failed("profile")
     ELSE [key |-> key,
           url |-> CmdutilURL(p, flags, env),
           ws |-> CmdutilWorkspace(p, flags, env),
           profile |-> IF routed THEN name ELSE None,
           error |-> CASE config = Unreadable /\ key = NoKey -> "config"
                       [] mute -> "key"
                       [] OTHER -> "none"]

-----------------------------------------------------------------------------
(* `langsmith auth info' (auth.go).                                        *)

InfoURL(p, flags, env) ==
  NormalizeURL(FirstOf(flags.url, FirstOf(env.endpoint,
    IF p # None THEN FirstOf(p.url, DefaultURL) ELSE DefaultURL)))

InfoWorkspace(p, env) ==
  FirstOf(env.ws, FirstOf(env.tenant, IF p # None THEN p.ws ELSE None))

InfoKey(p, name, flags, env) ==
  IF flags.key THEN UserKey("flag")
  ELSE IF env.key THEN UserKey("env")
  ELSE IF p # None /\ ~p.oauth THEN ResolveAPIKey(p, name, env)
  ELSE NoKey

AuthInfo(config, flags, env) ==
  LET cfg  == Read(config)
      name == ResolveProfileName(cfg, flags.profile, env.profile)
      p    == ProfileOrNone(cfg, name)
      key  == InfoKey(p, name, flags, env)
      login == p # None /\ p.oauth /\ key = NoKey
  IN [key   |-> key,
      login |-> IF login THEN name ELSE None,
      url   |-> InfoURL(p, flags, env),
      ws    |-> InfoWorkspace(p, env),
      error |-> IF config = Unreadable /\ key = NoKey THEN "config"
                ELSE IF Asks(flags, env) /\ p = None /\ key = NoKey THEN "profile"
                ELSE "none"]

=============================================================================
