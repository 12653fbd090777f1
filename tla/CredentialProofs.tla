--------------------------- MODULE CredentialProofs ---------------------------
(***************************************************************************)
(* Proofs about the resolution of credentials, for any profiles, hosts and *)
(* workspaces, any config, environment and flags, and any number of        *)
(* switches of the current profile.                                        *)
(***************************************************************************)
EXTENDS CredentialUse, TLAPS

USE DefaultHostAssumption, NamesAssumption, NoneAssumption, NoProfileAssumption,
    UnreadableAssumption

\* What the command is given: the domain of every lemma below.
Inputs(c, f, e) == c \in Config \cup {Unreadable} /\ f \in Flags /\ e \in Env

-----------------------------------------------------------------------------
(* The parts of the resolver.                                              *)

\* The profile a resolver works with, and its name.
LEMMA SelectedProfile ==
  ASSUME NEW c, NEW f, NEW e, Inputs(c, f, e)
  PROVE  LET name == ResolveProfileName(Read(c), f.profile, e.profile)
             p    == ProfileOrNone(Read(c), name)
         IN /\ Read(c) \in Config
            /\ name \in Names \cup {None}
            /\ p \in Profile \cup {None}
            /\ p # None => c # Unreadable /\ name # None /\ p = c.profiles[name]
            /\ Asks(f, e) => name = FirstOf(f.profile, e.profile)
<1>1. EmptyConfig \in Config
  BY DEF EmptyConfig, Config
<1>2. Read(c) \in Config
  BY <1>1 DEF Inputs, Read
<1>3. f.profile \in Names \cup {None} /\ e.profile \in Names \cup {None}
  BY DEF Inputs, Flags, Env
<1> DEFINE name == ResolveProfileName(Read(c), f.profile, e.profile)
<1>4. name \in Names \cup {None}
  BY <1>2, <1>3 DEF ResolveProfileName, FirstOf, Config
<1> DEFINE p == ProfileOrNone(Read(c), name)
<1>5. p \in Profile \cup {None}
  BY <1>2, <1>4 DEF ProfileOrNone, Config
<1>6. p # None => c # Unreadable /\ name # None /\ p = c.profiles[name]
  BY <1>4 DEF ProfileOrNone, Read, EmptyConfig
<1>7. Asks(f, e) => name = FirstOf(f.profile, e.profile)
  BY DEF Asks, ResolveProfileName, FirstOf
<1> QED
  BY <1>2, <1>4, <1>5, <1>6, <1>7

LEMMA NormalizeTyped ==
  ASSUME NEW u \in URL  PROVE NormalizeURL(u) \in URL
  BY DEF NormalizeURL, URL, Mounts

LEMMA DefaultURLTyped == DefaultURL \in URL
  BY DEF DefaultURL, URL, Mounts

LEMMA RouteTyped ==
  ASSUME NEW p \in Profile \cup {None}, NEW f \in Flags, NEW e \in Env
  PROVE  /\ EndpointOf(p, f, e) \in URL
         /\ WorkspaceOf(p, f, e) \in Workspaces \cup {None}
<1>1. /\ p # None => p.url \in URL \cup {None} /\ p.ws \in Workspaces \cup {None}
      /\ f.url \in URL \cup {None} /\ f.ws \in Workspaces \cup {None}
      /\ e.endpoint \in URL \cup {None}
      /\ e.ws \in Workspaces \cup {None} /\ e.tenant \in Workspaces \cup {None}
  BY DEF Profile, Flags, Env
<1>2. EndpointOf(p, f, e) \in URL
  BY <1>1, NormalizeTyped, DefaultURLTyped DEF EndpointOf
<1>3. WorkspaceOf(p, f, e) \in Workspaces \cup {None}
  BY <1>1 DEF WorkspaceOf, FirstOf
<1> QED
  BY <1>2, <1>3

LEMMA KeysTyped ==
  /\ NoKey \in Key /\ NoKey.of = None
  /\ \A from \in {"flag", "env", "arg"} :
       UserKey(from) \in Key /\ UserKey(from).of = None /\ UserKey(from) # NoKey
  BY DEF NoKey, UserKey, Key

\* A profile's key is the profile's own.
LEMMA ProfileKey ==
  ASSUME NEW p \in Profile, NEW name \in Names, NEW e \in Env
  PROVE  /\ ResolveAPIKey(p, name, e) \in Key
         /\ ResolveAPIKey(p, name, e) # NoKey => ResolveAPIKey(p, name, e).of = name
  BY DEF ResolveAPIKey, Key, NoKey

LEMMA ResolvedFields ==
  ASSUME NEW p, NEW f, NEW e, NEW k, NEW n, NEW err
  PROVE  LET o == Resolved(p, f, e, k, n, err)
         IN /\ o.key = k /\ o.profile = n /\ o.error = err
            /\ o.url = EndpointOf(p, f, e) /\ o.ws = WorkspaceOf(p, f, e)
  BY DEF Resolved

LEMMA ResolvedTyped ==
  ASSUME NEW p \in Profile \cup {None}, NEW f \in Flags, NEW e \in Env,
         NEW k \in Key, NEW n \in Names \cup {None},
         NEW err \in {"none", "config", "profile", "key"}
  PROVE  Resolved(p, f, e, k, n, err) \in Options
  BY RouteTyped DEF Resolved, Options

LEMMA FailedTyped ==
  ASSUME NEW err \in {"none", "config", "profile", "key"}
  PROVE  /\ Failed(err) \in Options
         /\ Failed(err).key = NoKey /\ Failed(err).profile = None
         /\ Failed(err).error = err /\ Failed(err).url = DefaultURL
  BY KeysTyped, DefaultURLTyped DEF Failed, Options

\* What the resolver returns: a key or a login of a profile comes with that
\* profile's endpoint, and from the profile asked for if one was.
Provenance(o, c, f, e) ==
  \A n \in {o.key.of, o.profile} :
    n # None =>
      /\ n \in Names
      /\ c # Unreadable
      /\ c.profiles[n] # None
      /\ o.url = EndpointOf(c.profiles[n], f, e)
      /\ Asks(f, e) => n = FirstOf(f.profile, e.profile)

LEMMA ResolverReturns ==
  ASSUME NEW c, NEW f, NEW e, Inputs(c, f, e)
  PROVE  /\ ResolveClientOptions(c, f, e) \in Options
         /\ Provenance(ResolveClientOptions(c, f, e), c, f, e)
<1> DEFINE name == ResolveProfileName(Read(c), f.profile, e.profile)
           p    == ProfileOrNone(Read(c), name)
           o    == ResolveClientOptions(c, f, e)
<1>0. f \in Flags /\ e \in Env
  BY DEF Inputs
<1>1. /\ name \in Names \cup {None}
      /\ p \in Profile \cup {None}
      /\ p # None => c # Unreadable /\ name # None /\ p = c.profiles[name]
      /\ Asks(f, e) => name = FirstOf(f.profile, e.profile)
  BY SelectedProfile
<1> HIDE DEF name, p
<1>2. \/ \E err \in {"config", "profile"} : o = Failed(err)
      \/ \E k \in {UserKey("flag"), UserKey("env"), NoKey}, err \in {"none", "config"} :
           o = Resolved(p, f, e, k, None, err)
      \/ p # None /\ o = ProfileOptions(p, name, f, e)
  BY DEF ResolveClientOptions, name, p
<1>3. CASE \E err \in {"config", "profile"} : o = Failed(err)
  BY <1>3, FailedTyped, KeysTyped DEF Provenance
<1>4. CASE \E k \in {UserKey("flag"), UserKey("env"), NoKey}, err \in {"none", "config"} :
             o = Resolved(p, f, e, k, None, err)
  <2>1. PICK k \in {UserKey("flag"), UserKey("env"), NoKey}, err \in {"none", "config"} :
          o = Resolved(p, f, e, k, None, err)
    BY <1>4
  <2>2. k \in Key /\ k.of = None
    BY KeysTyped
  <2>3. o \in Options
    BY <2>1, <2>2, <1>0, <1>1, ResolvedTyped
  <2>4. o.key.of = None /\ o.profile = None
    BY <2>1, <2>2, ResolvedFields
  <2> QED
    BY <2>3, <2>4 DEF Provenance
<1>5. CASE p # None /\ o = ProfileOptions(p, name, f, e)
  <2>1. /\ p \in Profile /\ name \in Names /\ c # Unreadable
        /\ p = c.profiles[name] /\ c.profiles[name] # None
    BY <1>1, <1>5
  <2>2. PICK k \in Key, n \in {None, name}, err \in {"none", "key"} :
          o = Resolved(p, f, e, k, n, err) /\ k.of \in {None, name}
    <3>1. /\ NoKey \in Key /\ NoKey.of = None
          /\ ResolveAPIKey(p, name, e) \in Key
          /\ ResolveAPIKey(p, name, e) # NoKey => ResolveAPIKey(p, name, e).of = name
      BY <2>1, <1>0, KeysTyped, ProfileKey
    <3> QED
      BY <3>1, <1>5 DEF ProfileOptions
  <2>3. o \in Options
    BY <2>1, <2>2, <1>0, ResolvedTyped
  <2>4. o.key.of \in {None, name} /\ o.profile \in {None, name}
        /\ o.url = EndpointOf(p, f, e)
    BY <2>2, ResolvedFields
  <2> QED
    BY <2>1, <2>3, <2>4, <1>1 DEF Provenance
<1> QED
  BY <1>2, <1>3, <1>4, <1>5

-----------------------------------------------------------------------------
(* The commands.                                                           *)

LEMMA InputsTyped == TypeOK => Inputs(config, flags, env)
  BY DEF TypeOK, Inputs

LEMMA RefProfileIsSelected ==
  ASSUME TypeOK
  PROVE  /\ RefProfile \in Names \cup {None}
         /\ Asks(flags, env) => RefProfile \in {None, FirstOf(flags.profile, env.profile)}
<1>1. Inputs(config, flags, env)
  BY InputsTyped
<1> QED
  BY <1>1, SelectedProfile DEF RefProfile

\* The connector made by Connector, and the client a command calls with.
LEMMA ConnectorTyped ==
  ASSUME NEW k \in Key, NEW u \in URL
  PROVE  /\ Connector(k, u) \in Made
         /\ Connector(k, u).kind = "connector" /\ Connector(k, u).key = k
         /\ Connector(k, u).login = None /\ Connector(k, u).url = NormalizeURL(u)
  BY NormalizeTyped DEF Connector, Made, Kinds

LEMMA NothingTyped ==
  Nothing \in Made /\ Nothing.key.of = None /\ Nothing.login = None
                   /\ Nothing.kind = "nothing"
  BY KeysTyped, DefaultURLTyped DEF Nothing, Made, Kinds

\* What holds of every state: the options at hand and what was made of them
\* belong to the profile asked for, and to that profile's endpoint.
Selected ==
  Asks(flags, env) =>
    {made.key.of, made.login, opts.key.of, opts.profile, ref}
      \subseteq {None, FirstOf(flags.profile, env.profile)}

Paired ==
  pc = "connectKey" =>
    /\ opts.profile \in Names
    /\ config # Unreadable
    /\ config.profiles[opts.profile] # None
    /\ opts.url = EndpointOf(config.profiles[opts.profile], flags, env)

CommandInv == TypeOK /\ Selected /\ Paired /\ KeyMatchesEndpoint

\* The command has made nothing yet.
LEMMA CommandInvInit == Init => CommandInv
<1> SUFFICES ASSUME Init  PROVE CommandInv
  OBVIOUS
<1>1. /\ Failed("none") \in Options
      /\ Failed("none").key = NoKey /\ Failed("none").profile = None
  BY FailedTyped
<1>2. TypeOK
  BY <1>1, NothingTyped, InputsAssumption, OpsAssumption, MaxUsesAssumption
  DEF Init, TypeOK, Steps
<1>3. Selected
  BY <1>1, NothingTyped, KeysTyped DEF Init, Selected
<1>4. Paired
  BY OpsAssumption DEF Init, Paired
<1>5. KeyMatchesEndpoint
  BY NothingTyped DEF Init, KeyMatchesEndpoint
<1> QED
  BY <1>2, <1>3, <1>4, <1>5 DEF CommandInv

\* Switching the current profile leaves the profiles alone.
LEMMA UseProfileKeeps ==
  ASSUME CommandInv, NEW n \in Names, UseProfile(n)
  PROVE  CommandInv'
<1>1. /\ config \in Config /\ config' = [config EXCEPT !.current = n]
      /\ config'.profiles = config.profiles /\ config' \in Config
  BY DEF CommandInv, TypeOK, UseProfile, Config
<1>2. config' # Unreadable
  BY <1>1
<1>3. TypeOK'
  BY <1>1, MaxUsesAssumption DEF CommandInv, TypeOK, UseProfile, inputVars
<1>4. Selected'
  BY DEF CommandInv, Selected, UseProfile, inputVars
<1>5. Paired'
  BY <1>1, <1>2 DEF CommandInv, Paired, UseProfile, inputVars
<1>6. KeyMatchesEndpoint'
  BY <1>1 DEF CommandInv, KeyMatchesEndpoint, UseProfile, inputVars
<1> QED
  BY <1>3, <1>4, <1>5, <1>6 DEF CommandInv

\* A step that resolves the options and makes nothing of them, or what `made''
\* says, keeps the invariant if that is typed and comes from the options.
LEMMA ResolvingStep ==
  ASSUME CommandInv,
         UNCHANGED <<config, inputVars, ref, uses>>,
         pc' \in Steps, pc' # "connectKey",
         opts' \in Options, made' \in Made,
         \A n \in {opts'.key.of, opts'.profile, made'.key.of, made'.login} :
           n # None /\ Asks(flags, env) =>
             n = FirstOf(flags.profile, env.profile),
         KeyMatchesEndpoint'
  PROVE  CommandInv'
<1>1. TypeOK'
  BY DEF CommandInv, TypeOK, inputVars
<1>2. Selected'
  BY DEF CommandInv, Selected, inputVars
<1>3. Paired'
  BY DEF Paired
<1> QED
  BY <1>1, <1>2, <1>3 DEF CommandInv

LEMMA ResolveHere ==
  ASSUME CommandInv
  PROVE  LET o == ResolveClientOptions(config, flags, env)
         IN o \in Options /\ Provenance(o, config, flags, env)
  BY InputsTyped, ResolverReturns DEF CommandInv

LEMMA OptionsFields ==
  ASSUME NEW o \in Options
  PROVE  /\ o.key \in Key /\ o.url \in URL /\ o.ws \in Workspaces \cup {None}
         /\ o.profile \in Names \cup {None}
         /\ NormalizeURL(o.url) \in URL
  BY NormalizeTyped DEF Options

\* Making nothing is always allowed.
LEMMA FailStep ==
  ASSUME CommandInv, Fail,
         UNCHANGED <<config, inputVars, ref, uses>>,
         opts' \in Options,
         \A n \in {opts'.key.of, opts'.profile} :
           n # None /\ Asks(flags, env) => n = FirstOf(flags.profile, env.profile)
  PROVE  CommandInv'
<1>1. pc' = "failed" /\ made' = Nothing
  BY DEF Fail, Goto
<1>2. KeyMatchesEndpoint'
  BY <1>1, NothingTyped DEF KeyMatchesEndpoint
<1> QED
  BY <1>1, <1>2, NothingTyped, ResolvingStep DEF Steps

\* A client or a connector with the options' own key and URL.
LEMMA OwnKeyStep ==
  ASSUME CommandInv, NEW o \in Options,
         Provenance(o, config, flags, env),
         UNCHANGED <<config, inputVars, ref, uses>>,
         opts' = o, pc' = "done",
         made' \in Made, made'.key = o.key, made'.login \in {None, o.profile},
         made'.url = NormalizeURL(o.url)
  PROVE  CommandInv'
<1>1. \A n \in {o.key.of, o.profile} :
        n # None /\ Asks(flags, env) => n = FirstOf(flags.profile, env.profile)
  BY DEF Provenance
<1>2. KeyMatchesEndpoint'
  BY DEF Provenance, KeyMatchesEndpoint, inputVars
<1> QED
  BY <1>1, <1>2, ResolvingStep DEF Steps

LEMMA CallKeeps ==
  ASSUME CommandInv, Call  PROVE CommandInv'
<1> DEFINE o == ResolveClientOptions(config, flags, env)
           m == [kind |-> "client", key |-> NewWithOptions(o).key,
                 login |-> NewWithOptions(o).login,
                 url |-> NewWithOptions(o).url, ws |-> NewWithOptions(o).ws]
<1>1. o \in Options /\ Provenance(o, config, flags, env)
  BY ResolveHere
<1>2. UNCHANGED <<config, inputVars, ref, uses>> /\ opts' = o
  BY DEF Call
<1>3. Fail \/ (pc' = "done" /\ made' = m)
  BY DEF Call, Goto
<1> HIDE DEF o
<1>4. /\ NewWithOptions(o).key = o.key
      /\ NewWithOptions(o).login \in {None, o.profile}
      /\ NewWithOptions(o).url = NormalizeURL(o.url)
      /\ NewWithOptions(o).ws = o.ws
  BY DEF NewWithOptions
<1>5. /\ m \in Made /\ m.key = o.key /\ m.login \in {None, o.profile}
      /\ m.url = NormalizeURL(o.url)
  BY <1>1, <1>4, OptionsFields DEF Made, Kinds
<1> HIDE DEF m
<1>6. CASE Fail
  BY <1>1, <1>2, <1>6, FailStep DEF Provenance
<1>7. CASE pc' = "done" /\ made' = m
  BY <1>1, <1>2, <1>5, <1>7, OwnKeyStep
<1> QED
  BY <1>3, <1>6, <1>7

LEMMA ConnectKeeps ==
  ASSUME CommandInv, Connect  PROVE CommandInv'
<1> DEFINE o == ResolveClientOptions(config, flags, env)
<1>1. o \in Options /\ Provenance(o, config, flags, env)
  BY ResolveHere
<1>2. UNCHANGED <<config, inputVars, ref, uses>> /\ opts' = o /\ pc = "connect"
  BY DEF Connect
<1>3. \/ Fail
      \/ pc' = "done" /\ made' = Connector(o.key, o.url)
      \/ o.profile # None /\ pc' = "connectKey" /\ made' = made
  BY DEF Connect, Goto
<1> HIDE DEF o
<1>4. CASE Fail
  BY <1>1, <1>2, <1>4, FailStep DEF Provenance
<1>5. CASE pc' = "done" /\ made' = Connector(o.key, o.url)
  BY <1>1, <1>2, <1>5, OptionsFields, ConnectorTyped, OwnKeyStep
<1>6. CASE o.profile # None /\ pc' = "connectKey" /\ made' = made
  <2>1. TypeOK'
    BY <1>1, <1>2, <1>6 DEF CommandInv, TypeOK, inputVars, Steps
  <2>2. Selected'
    BY <1>1, <1>2, <1>6 DEF CommandInv, Selected, Provenance, inputVars
  <2>3. Paired'
    BY <1>1, <1>2, <1>6 DEF Paired, Provenance, inputVars
  <2>4. KeyMatchesEndpoint'
    BY <1>2, <1>6 DEF CommandInv, KeyMatchesEndpoint, inputVars
  <2> QED
    BY <2>1, <2>2, <2>3, <2>4 DEF CommandInv
<1> QED
  BY <1>3, <1>4, <1>5, <1>6

\* The key read by the second load is of the profile the first one resolved.
LEMMA ConnectKeyKeeps ==
  ASSUME CommandInv, ConnectKey  PROVE CommandInv'
<1> DEFINE k == [from |-> "stored", of |-> opts.profile]
<1>1. /\ pc = "connectKey" /\ opts \in Options
      /\ UNCHANGED <<config, inputVars, ref, uses>> /\ opts' = opts
  BY DEF CommandInv, TypeOK, ConnectKey
<1>2. /\ opts.profile \in Names /\ config.profiles[opts.profile] # None
      /\ opts.url = EndpointOf(config.profiles[opts.profile], flags, env)
  BY <1>1 DEF CommandInv, Paired
<1>3. \A n \in {opts.key.of, opts.profile} :
        n # None /\ Asks(flags, env) => n = FirstOf(flags.profile, env.profile)
  BY DEF CommandInv, Selected
<1>4. Fail \/ (pc' = "done" /\ made' = Connector(k, opts.url))
  BY DEF ConnectKey, Goto
<1>5. k \in Key /\ k.of = opts.profile
  BY <1>2 DEF Key
<1> HIDE DEF k
<1>6. CASE Fail
  BY <1>1, <1>3, <1>6, FailStep
<1>7. CASE pc' = "done" /\ made' = Connector(k, opts.url)
  <2>1. /\ made' \in Made /\ made'.key = k /\ made'.login = None
        /\ made'.url = NormalizeURL(opts.url)
    BY <1>1, <1>5, <1>7, OptionsFields, ConnectorTyped
  <2>2. KeyMatchesEndpoint'
    BY <1>1, <1>2, <1>5, <2>1 DEF KeyMatchesEndpoint, inputVars
  <2> QED
    BY <1>1, <1>3, <1>5, <1>7, <2>1, <2>2, ResolvingStep DEF Steps
<1> QED
  BY <1>4, <1>6, <1>7

LEMMA CmdutilReturns ==
  ASSUME CommandInv
  PROVE  CmdutilClientOptions(config, flags, env) =
         ResolveClientOptions(config, flags, env)
<1> DEFINE c    == config
           f    == flags
           e    == env
           name == ResolveProfileName(Read(c), f.profile, e.profile)
           p    == ProfileOrNone(Read(c), name)
<1>1. Inputs(c, f, e)
  BY InputsTyped DEF CommandInv
<1>2. /\ f.key \in BOOLEAN /\ e.key \in BOOLEAN
      /\ p # None => /\ p \in Profile /\ c # Unreadable /\ name \in Names
                     /\ p.oauth \in BOOLEAN /\ p.stored \in BOOLEAN /\ p.ref \in BOOLEAN
  BY <1>1, SelectedProfile DEF Inputs, Flags, Env, Profile
<1> DEFINE url == EndpointOf(p, f, e)
           ws  == WorkspaceOf(p, f, e)
<1>3. CmdutilURL(p, f, e) = url
  BY DEF CmdutilURL, EndpointOf, FirstOf
<1>4. CmdutilWorkspace(p, f, e) = ws
  BY DEF CmdutilWorkspace, WorkspaceOf, FirstOf
<1>5. /\ UserKey("flag") # NoKey /\ UserKey("env") # NoKey
  BY KeysTyped
<1> HIDE DEF c, f, e, name, p, url, ws
<1> DEFINE own  == ResolveAPIKey(p, name, e)
           result(k, n, err) == [key |-> k, url |-> url, ws |-> ws, profile |-> n, error |-> err]
<1>6. CmdutilClientOptions(c, f, e) =
        IF Asks(f, e) /\ c = Unreadable THEN Failed("config")
        ELSE IF Asks(f, e) /\ p = None THEN Failed("profile")
        ELSE IF f.key THEN result(UserKey("flag"), None, "none")
        ELSE IF e.key THEN result(UserKey("env"), None, "none")
        ELSE IF c = Unreadable THEN result(NoKey, None, "config")
        ELSE IF p = None THEN result(NoKey, None, "none")
        ELSE IF p.oauth THEN result(NoKey, name, "none")
        ELSE IF ~HasAPIKey(p) THEN result(NoKey, None, "none")
        ELSE IF own = NoKey THEN result(NoKey, None, "key")
        ELSE result(own, name, "none")
  <2> DEFINE key == CASE f.key -> UserKey("flag")
                      [] e.key /\ ~f.key -> UserKey("env")
                      [] p # None /\ ~f.key /\ ~e.key /\ ~p.oauth -> own
                      [] OTHER -> NoKey
             routed == p # None /\ ~f.key /\ ~e.key /\ (p.oauth \/ key # NoKey)
             mute   == p # None /\ ~f.key /\ ~e.key /\ ~p.oauth
                       /\ HasAPIKey(p) /\ key = NoKey
             error  == CASE c = Unreadable /\ key = NoKey -> "config"
                         [] mute -> "key"
                         [] OTHER -> "none"
  <2>1. CmdutilClientOptions(c, f, e) =
          IF Asks(f, e) /\ c = Unreadable THEN Failed("config")
          ELSE IF Asks(f, e) /\ p = None THEN Failed("profile")
          ELSE [key |-> key, url |-> url, ws |-> ws,
                profile |-> IF routed THEN name ELSE None, error |-> error]
    BY <1>3, <1>4 DEF CmdutilClientOptions, name, p, url, ws, c, f, e
  <2>2. /\ f.key => key = UserKey("flag") /\ ~routed /\ error = "none"
        /\ ~f.key /\ e.key => key = UserKey("env") /\ ~routed /\ error = "none"
        /\ ~f.key /\ ~e.key /\ c = Unreadable =>
             key = NoKey /\ ~routed /\ error = "config"
        /\ ~f.key /\ ~e.key /\ c # Unreadable /\ p = None =>
             key = NoKey /\ ~routed /\ error = "none"
    BY <1>2, <1>5
  <2>3. ASSUME ~f.key, ~e.key, c # Unreadable, p # None
        PROVE  /\ p.oauth => key = NoKey /\ routed /\ error = "none"
               /\ ~p.oauth /\ own = NoKey /\ HasAPIKey(p) =>
                    key = NoKey /\ ~routed /\ error = "key"
               /\ ~p.oauth /\ own # NoKey => key = own /\ routed /\ error = "none"
               /\ ~p.oauth /\ own = NoKey /\ ~HasAPIKey(p) =>
                    key = NoKey /\ ~routed /\ error = "none"
    BY <1>2, <2>3
  <2>4. p # None /\ ~HasAPIKey(p) => own = NoKey
    BY <1>2 DEF HasAPIKey, ResolveAPIKey
  <2> HIDE DEF key, routed, error, mute, own
  <2> QED
    BY <2>1, <2>2, <2>3, <2>4, <1>2
<1>7. ResolveClientOptions(c, f, e) =
        IF c = Unreadable /\ Asks(f, e) THEN Failed("config")
        ELSE IF Asks(f, e) /\ p = None THEN Failed("profile")
        ELSE IF f.key THEN result(UserKey("flag"), None, "none")
        ELSE IF e.key THEN result(UserKey("env"), None, "none")
        ELSE IF c = Unreadable THEN result(NoKey, None, "config")
        ELSE IF p = None THEN result(NoKey, None, "none")
        ELSE IF p.oauth THEN result(NoKey, name, "none")
        ELSE IF ~HasAPIKey(p) THEN result(NoKey, None, "none")
        ELSE IF own = NoKey THEN result(NoKey, None, "key")
        ELSE result(own, name, "none")
  BY DEF ResolveClientOptions, ProfileOptions, Resolved, name, p, url, ws
<1> HIDE DEF result, own
<1>8. CmdutilClientOptions(c, f, e) = ResolveClientOptions(c, f, e)
  BY <1>6, <1>7
<1> QED
  BY <1>8 DEF c, f, e

LEMMA SSHClientKeeps ==
  ASSUME CommandInv, SSHClient  PROVE CommandInv'
<1> DEFINE o == ResolveClientOptions(config, flags, env)
<1>1. o \in Options /\ Provenance(o, config, flags, env)
  BY ResolveHere
<1>2. UNCHANGED <<config, inputVars, ref, uses>> /\ opts' = o
  BY CmdutilReturns DEF SSHClient
<1>3. Fail \/ (pc' = "sshRef" /\ made' = made)
  BY DEF SSHClient, Goto
<1> HIDE DEF o
<1>4. CASE Fail
  BY <1>1, <1>2, <1>4, FailStep DEF Provenance
<1>5. CASE pc' = "sshRef" /\ made' = made
  <2>1. KeyMatchesEndpoint'
    BY <1>2, <1>5 DEF CommandInv, KeyMatchesEndpoint, inputVars
  <2>2. made \in Made /\ \A n \in {made.key.of, made.login} :
          n # None /\ Asks(flags, env) => n = FirstOf(flags.profile, env.profile)
    BY DEF CommandInv, TypeOK, Selected
  <2> QED
    BY <1>1, <1>2, <1>5, <2>1, <2>2, ResolvingStep DEF Provenance, Steps
<1> QED
  BY <1>3, <1>4, <1>5

LEMMA SSHRefKeeps ==
  ASSUME CommandInv, SSHRef  PROVE CommandInv'
<1>1. /\ UNCHANGED <<config, inputVars, opts, made, uses>>
      /\ ref' = RefProfile /\ pc' \in {"sshKey", "sshURL"}
  BY DEF SSHRef, Goto
<1>2. /\ RefProfile \in Names \cup {None}
      /\ Asks(flags, env) => RefProfile \in {None, FirstOf(flags.profile, env.profile)}
  BY RefProfileIsSelected DEF CommandInv
<1>3. TypeOK'
  BY <1>1, <1>2 DEF CommandInv, TypeOK, inputVars, Steps
<1>4. Selected'
  BY <1>1, <1>2 DEF CommandInv, Selected, inputVars
<1>5. Paired' /\ KeyMatchesEndpoint'
  BY <1>1 DEF CommandInv, Paired, KeyMatchesEndpoint, inputVars
<1> QED
  BY <1>3, <1>4, <1>5 DEF CommandInv

LEMMA SSHKeyKeeps ==
  ASSUME CommandInv, SSHKey  PROVE CommandInv'
<1> DEFINE o == ResolveClientOptions(config, flags, env)
<1>1. o \in Options /\ Provenance(o, config, flags, env)
  BY ResolveHere
<1>2. /\ UNCHANGED <<config, inputVars, ref, uses>> /\ opts' = o
      /\ pc' = "sshURL" /\ made' = made
  BY DEF SSHKey, Goto
<1> HIDE DEF o
<1>3. KeyMatchesEndpoint'
  BY <1>2 DEF CommandInv, KeyMatchesEndpoint, inputVars
<1>4. made \in Made /\ \A n \in {made.key.of, made.login} :
        n # None /\ Asks(flags, env) => n = FirstOf(flags.profile, env.profile)
  BY DEF CommandInv, TypeOK, Selected
<1> QED
  BY <1>1, <1>2, <1>3, <1>4, ResolvingStep DEF Provenance, Steps

LEMMA SSHURLKeeps ==
  ASSUME CommandInv, SSHURL  PROVE CommandInv'
<1> DEFINE k == IF ref = None THEN opts.key ELSE NoKey
           u == ResolveClientOptions(config, flags, env).url
<1>1. /\ opts \in Options /\ ref \in Names \cup {None}
      /\ UNCHANGED <<config, inputVars, opts, ref, uses>> /\ pc' = "done"
      /\ made' = [kind |-> "proxy", key |-> k, login |-> ref, url |-> u, ws |-> None]
  BY DEF CommandInv, TypeOK, SSHURL, Goto
<1>2. k \in Key /\ u \in URL /\ k.of \in {None, opts.key.of}
  BY <1>1, ResolveHere, OptionsFields, KeysTyped
<1> HIDE DEF k, u
<1>3. made' \in Made /\ made'.key = k /\ made'.login = ref /\ made'.kind = "proxy"
  BY <1>1, <1>2 DEF Made, Kinds
<1>4. \A n \in {opts.key.of, opts.profile, ref, k.of} :
        n # None /\ Asks(flags, env) => n = FirstOf(flags.profile, env.profile)
  BY <1>2 DEF CommandInv, Selected
<1>5. KeyMatchesEndpoint'
  BY <1>3 DEF KeyMatchesEndpoint
<1> QED
  BY <1>1, <1>3, <1>4, <1>5, ResolvingStep DEF Steps

LEMMA SetupCheckKeeps ==
  ASSUME CommandInv, SetupCheck  PROVE CommandInv'
<1>1. /\ UNCHANGED <<config, inputVars, opts, ref, uses>> /\ opts \in Options
      /\ Fail \/ (pc' = "setupKey" /\ made' = made)
  BY DEF CommandInv, TypeOK, SetupCheck, Goto
<1>2. \A n \in {opts.key.of, opts.profile, made.key.of, made.login} :
        n # None /\ Asks(flags, env) => n = FirstOf(flags.profile, env.profile)
  BY DEF CommandInv, Selected
<1>3. CASE Fail
  BY <1>1, <1>2, <1>3, FailStep
<1>4. CASE pc' = "setupKey" /\ made' = made
  <2>1. KeyMatchesEndpoint' /\ made \in Made
    BY <1>1, <1>4 DEF CommandInv, TypeOK, KeyMatchesEndpoint, inputVars
  <2> QED
    BY <1>1, <1>2, <1>4, <2>1, ResolvingStep DEF Steps
<1> QED
  BY <1>1, <1>3, <1>4

LEMMA SetupKeyKeeps ==
  ASSUME CommandInv, SetupKey  PROVE CommandInv'
<1> DEFINE o == ResolveClientOptions(config, flags, env)
           k == IF arg THEN UserKey("arg") ELSE o.key
           r == [o EXCEPT !.key = k]
<1>1. o \in Options /\ Provenance(o, config, flags, env)
  BY ResolveHere
<1>2. /\ UNCHANGED <<config, inputVars, ref, uses>> /\ opts' = r
      /\ \/ Fail
         \/ /\ pc' = "done"
            /\ made' = [kind |-> "agent", key |-> k, login |-> None,
                        url |-> o.url, ws |-> None]
  BY DEF SetupKey, Goto
<1>3. k \in Key /\ k.of \in {None, o.key.of}
  BY <1>1, KeysTyped, OptionsFields
<1> HIDE DEF o, k
<1>4. r = [key |-> k, url |-> o.url, ws |-> o.ws, profile |-> o.profile, error |-> o.error]
  BY <1>1 DEF Options
<1>5. r \in Options /\ r.key = k /\ r.profile = o.profile
  BY <1>1, <1>3, <1>4 DEF Options
<1> HIDE DEF r
<1>6. \A n \in {k.of, o.profile} :
        n # None /\ Asks(flags, env) => n = FirstOf(flags.profile, env.profile)
  BY <1>1, <1>3 DEF Provenance
<1>7. CASE Fail
  BY <1>2, <1>5, <1>6, <1>7, FailStep
<1>8. CASE /\ pc' = "done"
           /\ made' = [kind |-> "agent", key |-> k, login |-> None,
                       url |-> o.url, ws |-> None]
  <2>1. made' \in Made /\ made'.key = k /\ made'.login = None /\ made'.kind = "agent"
    BY <1>1, <1>3, <1>8, OptionsFields DEF Made, Kinds
  <2>2. KeyMatchesEndpoint'
    BY <2>1 DEF KeyMatchesEndpoint
  <2> QED
    BY <1>2, <1>5, <1>6, <1>8, <2>1, <2>2, ResolvingStep DEF Steps
<1> QED
  BY <1>2, <1>7, <1>8

LEMMA CommandInvKept == CommandInv /\ [Next]_vars => CommandInv'
<1> SUFFICES ASSUME CommandInv, [Next]_vars  PROVE CommandInv'
  OBVIOUS
<1>1. ASSUME NEW n \in Names, UseProfile(n)  PROVE CommandInv'
  BY <1>1, UseProfileKeeps
<1>2. CASE Call        BY <1>2, CallKeeps
<1>3. CASE Connect     BY <1>3, ConnectKeeps
<1>4. CASE ConnectKey  BY <1>4, ConnectKeyKeeps
<1>5. CASE SSHClient   BY <1>5, SSHClientKeeps
<1>6. CASE SSHRef      BY <1>6, SSHRefKeeps
<1>7. CASE SSHKey      BY <1>7, SSHKeyKeeps
<1>8. CASE SSHURL      BY <1>8, SSHURLKeeps
<1>9. CASE SetupCheck  BY <1>9, SetupCheckKeeps
<1>10. CASE SetupKey   BY <1>10, SetupKeyKeeps
<1>11. CASE UNCHANGED vars
  BY <1>11 DEF vars, inputVars, CommandInv, TypeOK, Selected, Paired,
               KeyMatchesEndpoint
<1> QED
  BY <1>1, <1>2, <1>3, <1>4, <1>5, <1>6, <1>7, <1>8, <1>9, <1>10, <1>11 DEF Next

-----------------------------------------------------------------------------
(* A command during which nobody switches the current profile.             *)

\* The error and the route the resolver returns.
LEMMA ResolverRoute ==
  ASSUME NEW c, NEW f, NEW e, Inputs(c, f, e),
         ResolveClientOptions(c, f, e).error = "none"
  PROVE  LET p == ProfileOrNone(Read(c), ResolveProfileName(Read(c), f.profile, e.profile))
             o == ResolveClientOptions(c, f, e)
         IN o.url = EndpointOf(p, f, e) /\ o.ws = WorkspaceOf(p, f, e)
<1> DEFINE name == ResolveProfileName(Read(c), f.profile, e.profile)
           p    == ProfileOrNone(Read(c), name)
           o    == ResolveClientOptions(c, f, e)
<1>1. \/ \E err \in {"config", "profile"} : o = Failed(err)
      \/ \E k, n, err : o = Resolved(p, f, e, k, n, err)
  BY DEF ResolveClientOptions, ProfileOptions
<1>2. PICK k, n, err : o = Resolved(p, f, e, k, n, err)
  BY <1>1 DEF Failed
<1> HIDE DEF p
<1> QED
  BY <1>2, ResolvedFields DEF p

\* `auth info' tells the endpoint and the workspace of the client, but for the
\* two settings it reads differently.
LEMMA InfoRoute ==
  ASSUME NEW p \in Profile \cup {None}, NEW f \in Flags, NEW e \in Env
  PROVE  /\ f.profile = None \/ e.endpoint = None =>
              InfoURL(p, f, e) = NormalizeURL(EndpointOf(p, f, e))
         /\ f.ws = None => InfoWorkspace(p, e) = WorkspaceOf(p, f, e)
<1>1. \A u \in URL : NormalizeURL(NormalizeURL(u)) = NormalizeURL(u)
  BY DEF NormalizeURL, URL, Mounts
<1>2. f.url \in URL \cup {None} /\ e.endpoint \in URL \cup {None}
  BY DEF Flags, Env
<1>3. f.profile = None \/ e.endpoint = None =>
        InfoURL(p, f, e) = NormalizeURL(EndpointOf(p, f, e))
  BY <1>1, <1>2 DEF InfoURL, EndpointOf, FirstOf
<1>4. f.ws = None => InfoWorkspace(p, e) = WorkspaceOf(p, f, e)
  BY DEF InfoWorkspace, WorkspaceOf, FirstOf
<1> QED
  BY <1>3, <1>4

\* `auth info' tells the credentials of the client.
LEMMA InfoCredentials ==
  ASSUME NEW c, NEW f, NEW e, Inputs(c, f, e),
         ResolveClientOptions(c, f, e).error = "none"
  PROVE  LET o == ResolveClientOptions(c, f, e)
             i == AuthInfo(c, f, e)
         IN i.error = "none" /\ i.key = o.key /\ i.login = NewWithOptions(o).login
<1> DEFINE name == ResolveProfileName(Read(c), f.profile, e.profile)
           p    == ProfileOrNone(Read(c), name)
           o    == ResolveClientOptions(c, f, e)
           key  == InfoKey(p, name, f, e)
           own  == ResolveAPIKey(p, name, e)
<1>1. /\ f.key \in BOOLEAN /\ e.key \in BOOLEAN
      /\ p # None => /\ p \in Profile /\ c # Unreadable /\ name \in Names
                     /\ p.oauth \in BOOLEAN /\ p.stored \in BOOLEAN /\ p.ref \in BOOLEAN
  BY SelectedProfile DEF Inputs, Flags, Env, Profile
<1>2. UserKey("flag") # NoKey /\ UserKey("env") # NoKey
  BY KeysTyped
<1>3. LET i == AuthInfo(c, f, e) IN
      /\ i.key = key
      /\ i.login = IF p # None /\ p.oauth /\ key = NoKey THEN name ELSE None
      /\ i.error = IF c = Unreadable /\ key = NoKey THEN "config"
                   ELSE IF Asks(f, e) /\ p = None /\ key = NoKey THEN "profile"
                   ELSE "none"
  BY DEF AuthInfo
<1>4. NewWithOptions(o).login = IF o.key = NoKey THEN o.profile ELSE None
  BY DEF NewWithOptions
<1>6. p # None /\ ~HasAPIKey(p) => own = NoKey
  BY <1>1 DEF HasAPIKey, ResolveAPIKey
<1>7. /\ ~(c = Unreadable /\ Asks(f, e)) /\ ~(Asks(f, e) /\ p = None)
      /\ LET returns(k, n) == o.key = k /\ o.profile = n
         IN  IF f.key THEN returns(UserKey("flag"), None)
             ELSE IF e.key THEN returns(UserKey("env"), None)
             ELSE c # Unreadable /\
                  IF p = None THEN returns(NoKey, None)
                  ELSE IF p.oauth THEN returns(NoKey, name)
                  ELSE IF ~HasAPIKey(p) THEN returns(NoKey, None)
                  ELSE own # NoKey /\ returns(own, name)
  <2> HIDE DEF name, p, own
  <2>1. o = IF c = Unreadable /\ Asks(f, e) THEN Failed("config")
            ELSE IF Asks(f, e) /\ p = None THEN Failed("profile")
            ELSE IF f.key THEN Resolved(p, f, e, UserKey("flag"), None, "none")
            ELSE IF e.key THEN Resolved(p, f, e, UserKey("env"), None, "none")
            ELSE IF c = Unreadable THEN Resolved(p, f, e, NoKey, None, "config")
            ELSE IF p = None THEN Resolved(p, f, e, NoKey, None, "none")
            ELSE IF p.oauth THEN Resolved(p, f, e, NoKey, name, "none")
            ELSE IF ~HasAPIKey(p) THEN Resolved(p, f, e, NoKey, None, "none")
            ELSE IF own = NoKey THEN Resolved(p, f, e, NoKey, None, "key")
            ELSE Resolved(p, f, e, own, name, "none")
    BY DEF ResolveClientOptions, ProfileOptions, name, p, own
  <2> HIDE DEF o
  <2>2. o.error = "none"
    BY DEF o
  <2> QED
    BY <2>1, <2>2 DEF Resolved, Failed
<1>8. key = IF f.key THEN UserKey("flag") ELSE IF e.key THEN UserKey("env")
            ELSE IF p # None /\ ~p.oauth THEN own ELSE NoKey
  BY DEF InfoKey
<1> HIDE DEF name, p, key, own, o
<1> QED
  BY <1>1, <1>2, <1>3, <1>4, <1>6, <1>7, <1>8 DEF o

\* A key is only read behind a reference when the selected profile has one.
LEMMA ReferenceIsSelected ==
  ASSUME TypeOK, RefProfile = None
  PROVE  ResolveClientOptions(config, flags, env).key.from # "ref"
<1> DEFINE name == ResolveProfileName(Read(config), flags.profile, env.profile)
           p    == ProfileOrNone(Read(config), name)
           o    == ResolveClientOptions(config, flags, env)
           own  == ResolveAPIKey(p, name, env)
<1>1. p # None => /\ p.oauth \in BOOLEAN /\ p.stored \in BOOLEAN /\ p.ref \in BOOLEAN
                  /\ name # None
  BY InputsTyped, SelectedProfile DEF Profile
<1>2. /\ NoKey.from = "none"
      /\ UserKey("flag").from = "flag" /\ UserKey("env").from = "env"
      /\ \A err : Failed(err).key = NoKey
  BY DEF NoKey, UserKey, Failed
<1>3. flags.key \/ env.key \/ p = None \/ p.oauth \/ own.from # "ref"
  BY <1>1, <1>2 DEF RefProfile, ResolveAPIKey
<1> HIDE DEF name, p, own
<1>4. \/ o.key.from # "ref"
      \/ p # None /\ ~flags.key /\ ~env.key /\ ~p.oauth /\ o.key = own
  BY <1>2, ResolvedFields DEF ResolveClientOptions, ProfileOptions, name, p, own
<1> QED
  BY <1>3, <1>4

\* What is known of a command while nobody has switched: a client was made of
\* options resolved without an error, and ssh-setup and setup only go on to
\* read a key after finding that the selected profile does not keep it out.
Undisturbed ==
  uses = 0 =>
    /\ made.kind = "client" => ResolveClientOptions(config, flags, env).error = "none"
    /\ pc = "sshKey" => RefProfile = None
    /\ pc = "sshURL" /\ ref = None => opts.key.from # "ref"
    /\ pc = "setupKey" => arg \/ RefProfile = None
    /\ made.kind \in {"proxy", "agent"} => made.key.from # "ref"

LEMMA UndisturbedInit == Init => Undisturbed
  BY OpsAssumption, NothingTyped DEF Init, Undisturbed

\* A step that makes neither a client nor a file, and does not lead to a read
\* of the key.
LEMMA PlainStep ==
  ASSUME Undisturbed, UNCHANGED <<config, inputVars, uses>>,
         pc' \notin {"sshKey", "sshURL", "setupKey"},
         made' \in {made, Nothing} \/ made'.kind = "connector"
  PROVE  Undisturbed'
<1>1. \/ made' = made
      \/ made'.kind \in {"nothing", "connector"}
  BY NothingTyped
<1> QED
  BY <1>1 DEF Undisturbed, inputVars

LEMMA UndisturbedKept ==
  ASSUME CommandInv, Undisturbed, [Next]_vars
  PROVE  Undisturbed'
<1> DEFINE o == ResolveClientOptions(config, flags, env)
<1>0. TypeOK
  BY DEF CommandInv
<1>1. ASSUME NEW n \in Names, UseProfile(n)  PROVE Undisturbed'
  <2>1. uses' # 0
    BY <1>0, <1>1, MaxUsesAssumption DEF TypeOK, UseProfile
  <2> QED
    BY <2>1 DEF Undisturbed
<1>2. CASE Call
  <2>1. /\ UNCHANGED <<config, inputVars, ref, uses>> /\ pc' \in {"done", "failed"}
        /\ \/ made' = Nothing
           \/ o.error = "none" /\ made'.kind = "client"
    BY <1>2 DEF Call, Fail, Goto
  <2> QED
    BY <2>1, NothingTyped DEF Undisturbed, RefProfile, inputVars
<1>3. CASE Connect \/ ConnectKey
  <2>1. \A k, u : Connector(k, u).kind = "connector"
    BY DEF Connector
  <2>2. /\ UNCHANGED <<config, inputVars, ref, uses>>
        /\ pc' \in {"done", "failed", "connectKey"}
        /\ made' \in {made, Nothing} \/ made'.kind = "connector"
    BY <1>3, <2>1 DEF Connect, ConnectKey, Fail, Goto
  <2> QED
    BY <2>2, PlainStep
<1>4. CASE SSHClient
  <2>1. /\ UNCHANGED <<config, inputVars, ref, uses>>
        /\ pc' \in {"sshRef", "failed"} /\ made' \in {made, Nothing}
    BY <1>4 DEF SSHClient, Fail, Goto
  <2> QED
    BY <2>1, PlainStep
<1>5. CASE SSHRef
  <2>1. /\ UNCHANGED <<config, inputVars, opts, made, uses>> /\ ref' = RefProfile
        /\ pc' = IF ref' = None THEN "sshKey" ELSE "sshURL"
    BY <1>5 DEF SSHRef, Goto
  <2>2. RefProfile' = RefProfile
    BY <2>1 DEF RefProfile, inputVars
  <2> QED
    BY <2>1, <2>2 DEF Undisturbed, inputVars
<1>6. CASE SSHKey
  <2>1. /\ UNCHANGED <<config, inputVars, ref, made, uses>> /\ opts' = o
        /\ pc = "sshKey" /\ pc' = "sshURL"
    BY <1>6 DEF SSHKey, Goto
  <2>2. uses = 0 => opts'.key.from # "ref"
    BY <1>0, <2>1, ReferenceIsSelected DEF Undisturbed
  <2> QED
    BY <2>1, <2>2 DEF Undisturbed, inputVars
<1>7. CASE SSHURL
  <2>1. /\ UNCHANGED <<config, inputVars, opts, ref, uses>>
        /\ pc = "sshURL" /\ pc' = "done"
        /\ made'.kind = "proxy" /\ made'.key = IF ref = None THEN opts.key ELSE NoKey
    BY <1>7 DEF SSHURL, Goto
  <2>2. uses = 0 => made'.key.from # "ref"
    BY <2>1 DEF Undisturbed, NoKey
  <2> QED
    BY <2>1, <2>2 DEF Undisturbed
<1>8. CASE SetupCheck
  <2>1. /\ UNCHANGED <<config, inputVars, opts, ref, uses>>
        /\ \/ pc' = "failed" /\ made' = Nothing
           \/ pc' = "setupKey" /\ made' = made /\ (arg \/ RefProfile = None)
    BY <1>8 DEF SetupCheck, Fail, Goto
  <2>2. RefProfile' = RefProfile
    BY <2>1 DEF RefProfile, inputVars
  <2> QED
    BY <2>1, <2>2, NothingTyped DEF Undisturbed, inputVars
<1>9. CASE SetupKey
  <2>1. /\ UNCHANGED <<config, inputVars, ref, uses>> /\ pc = "setupKey"
        /\ pc' \in {"done", "failed"}
        /\ \/ made' = Nothing
           \/ /\ made'.kind = "agent"
              /\ made'.key = IF arg THEN UserKey("arg") ELSE o.key
    BY <1>9 DEF SetupKey, Fail, Goto
  <2>2. uses = 0 /\ ~arg => o.key.from # "ref"
    BY <1>0, <2>1, ReferenceIsSelected DEF Undisturbed
  <2> QED
    BY <2>1, <2>2, NothingTyped DEF Undisturbed, UserKey
<1>10. CASE UNCHANGED vars
  BY <1>10 DEF vars, inputVars, Undisturbed, RefProfile
<1> QED
  BY <1>1, <1>2, <1>3, <1>4, <1>5, <1>6, <1>7, <1>8, <1>9, <1>10 DEF Next

-----------------------------------------------------------------------------

\* Every variable keeps its type: whatever is resolved, by either resolver, is
\* a well-formed set of options, and whatever is made of it is well-formed.
THEOREM CommandTypes == Spec => []TypeOK
<1>1. CommandInv => TypeOK
  BY DEF CommandInv
<1> QED
  BY <1>1, CommandInvInit, CommandInvKept, PTL DEF Spec

\* A command told which profile to use, with --profile or LANGSMITH_PROFILE,
\* never uses the credentials of another: in resolveClientOptionsFor, in the
\* second load of connectorAPIKey, and in what ssh-setup and setup write.
THEOREM SelectionIsKept == Spec => []SelectedProfileOnly
<1>1. CommandInv => SelectedProfileOnly
  BY DEF CommandInv, Selected, SelectedProfileOnly
<1> QED
  BY <1>1, CommandInvInit, CommandInvKept, PTL DEF Spec

\* However often the current profile is switched between its two loads of the
\* config, a connector sends a profile's key to that profile's endpoint.
THEOREM KeysMatchEndpoints == Spec => []KeyMatchesEndpoint
<1>1. CommandInv => KeyMatchesEndpoint
  BY DEF CommandInv
<1> QED
  BY <1>1, CommandInvInit, CommandInvKept, PTL DEF Spec

\* cmdutil.ResolveClientOptions and resolveClientOptionsFor return the same
\* options and the same errors for every config, environment and flags.
THEOREM ResolversAgree == Spec => []MirrorsTopLevel
<1>1. CommandInv => MirrorsTopLevel
  BY CmdutilReturns DEF MirrorsTopLevel
<1> QED
  BY <1>1, CommandInvInit, CommandInvKept, PTL DEF Spec

\* Both resolvers use the account that `auth info' tells: the same key or login,
\* and, while nobody has switched, the same endpoint and workspace.
THEOREM AccountIsOne == Spec => []OneAccount
<1>1. CommandInv => MirrorsTopLevel
  BY CmdutilReturns DEF MirrorsTopLevel
<1>2. CommandInv => InfoTellsCredentials
  BY InputsTyped, InfoCredentials DEF CommandInv, InfoTellsCredentials
<1>3. CommandInv /\ Undisturbed => InfoTellsRoute
  <2> SUFFICES ASSUME CommandInv, Undisturbed, made.kind = "client", uses = 0
               PROVE  InfoTellsRoute
    BY DEF InfoTellsRoute
  <2> DEFINE p == ProfileOrNone(Read(config),
                    ResolveProfileName(Read(config), flags.profile, env.profile))
             o == ResolveClientOptions(config, flags, env)
             i == AuthInfo(config, flags, env)
  <2>1. Inputs(config, flags, env) /\ flags \in Flags /\ env \in Env
    BY InputsTyped DEF CommandInv, Inputs
  <2>2. p \in Profile \cup {None}
    BY <2>1, SelectedProfile
  <2>3. o.error = "none"
    BY DEF Undisturbed
  <2>4. o.url = EndpointOf(p, flags, env) /\ o.ws = WorkspaceOf(p, flags, env)
    BY <2>1, <2>3, ResolverRoute
  <2>5. i.url = InfoURL(p, flags, env) /\ i.ws = InfoWorkspace(p, env)
    BY DEF AuthInfo
  <2>6. NewWithOptions(o).url = NormalizeURL(o.url)
    BY DEF NewWithOptions
  <2> HIDE DEF p, o, i
  <2>7. /\ flags.profile = None \/ env.endpoint = None => i.url = NewWithOptions(o).url
        /\ flags.ws = None => i.ws = o.ws
    BY <2>1, <2>2, <2>4, <2>5, <2>6, InfoRoute
  <2> QED
    BY <2>7 DEF InfoTellsRoute, o, i
<1>4. CommandInv /\ Undisturbed => OneAccount
  BY <1>1, <1>2, <1>3 DEF OneAccount
<1> QED
  BY <1>4, CommandInvInit, CommandInvKept, UndisturbedInit, UndisturbedKept, PTL
  DEF Spec

\* While nobody switches the current profile, a key that a profile keeps behind
\* api_key_env or api_key_cmd is written neither into the ProxyCommand of
\* ssh-setup nor into the config that `traces setup' writes: the check, and the
\* resolution some steps later, are of the same profile.
THEOREM ReferencesStayOut == Spec => []ReferencedKeyStaysOut
<1>1. Undisturbed => ReferencedKeyStaysOut
  BY DEF Undisturbed, ReferencedKeyStaysOut
<1> QED
  BY <1>1, CommandInvInit, CommandInvKept, UndisturbedInit, UndisturbedKept, PTL
  DEF Spec

=============================================================================
