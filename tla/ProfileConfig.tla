--------------------------- MODULE ProfileConfig ---------------------------
(***************************************************************************)
(* The contents of ~/.langsmith/config.json (internal/config/config.go)    *)
(* and what each command that edits it does to a loaded copy of it         *)
(* (internal/cmd/profile.go, internal/cmd/login.go).  Everything here is a *)
(* pure operator; ProfileStore gives the commands their steps.             *)
(*                                                                         *)
(* Tokens are numbered in the order the authorization server issues them;  *)
(* 0 is the empty string of the JSON document.  A stored API key, an       *)
(* api_key_env and an api_key_cmd are one flag here: Credentials tells     *)
(* them apart.                                                             *)
(***************************************************************************)
EXTENDS Naturals

CONSTANTS
  Names,       \* profile names that validateProfileName accepts
  Default,     \* the name "default"
  Workspaces,  \* workspace UUIDs
  MaxTokens,   \* bound on the tokens the server issues
  None,        \* the empty string: no current profile, no workspace
  NoProfile,   \* a name that is not a key of the profiles map
  Holds        \* the token each profile holds at the start, 0 if there is none

Tokens == 0 .. MaxTokens

Profile ==
  [key: BOOLEAN, ws: Workspaces \cup {None}, access: Tokens, refresh: Tokens]

Config ==
  [current: Names \cup {None}, profiles: [Names -> Profile \cup {NoProfile}]]

Token == [access: Tokens, refresh: Tokens]
NoToken == [access |-> 0, refresh |-> 0]

ASSUME NamesAssumption == Default \in Names /\ None \notin Names
ASSUME TokensAssumption == MaxTokens \in Nat
ASSUME NoProfileAssumption == NoProfile \notin Profile

\* Each login got a token of its own.
ASSUME HoldsAssumption ==
  /\ Holds \in [Names -> Tokens]
  /\ \A m, n \in Names : m # n /\ Holds[m] # 0 => Holds[m] # Holds[n]

\* The zero value Go's map lookup returns for a missing profile.
ZeroProfile == [key |-> FALSE, ws |-> None, access |-> 0, refresh |-> 0]

\* A missing or blank config file.
EmptyConfig == [current |-> None, profiles |-> [n \in Names |-> NoProfile]]

\* The config that earlier logins left behind.
SavedConfig ==
  [current  |-> IF Holds[Default] = 0 THEN None ELSE Default,
   profiles |-> [n \in Names |->
     IF Holds[n] = 0
       THEN NoProfile
       ELSE [key |-> FALSE, ws |-> None, access |-> Holds[n], refresh |-> Holds[n]]]]

Has(cfg, n) == n \in Names /\ cfg.profiles[n] # NoProfile

Lookup(cfg, n) == IF Has(cfg, n) THEN cfg.profiles[n] ELSE ZeroProfile

\* Every command that names a profile takes it from --profile or from
\* LANGSMITH_PROFILE; `flag' stands for both.
ResolveProfileName(cfg, flag) ==
  CASE flag # None -> flag
    [] flag = None /\ cfg.current # None -> cfg.current
    [] flag = None /\ cfg.current = None ->
         IF Has(cfg, Default) THEN Default ELSE None

LoginProfileName(cfg, flag) ==
  CASE flag # None -> flag
    [] flag = None /\ cfg.current # None -> cfg.current
    [] OTHER -> Default

HasOAuth(profile) == profile.access # 0 \/ profile.refresh # 0

(***************************************************************************)
(* The commands.  A command is a record: the operation, the profile it     *)
(* names (or None), a workspace (or None) and, for create, --set-current.  *)
(***************************************************************************)
Writers == {"create", "delete", "use", "workspace", "login"}

Command ==
  [op: Writers \cup {"request"}, name: Names \cup {None},
   ws: Workspaces \cup {None}, setCurrent: BOOLEAN]

\* Checks made on the loaded copy before it is changed.
Accepts(c, cfg) ==
  /\ c.op = "create" => ~Has(cfg, c.name)
  /\ c.op \in {"delete", "use"} => Has(cfg, c.name)

CreateProfile(c, cfg) ==
  [current  |-> IF cfg.current = None \/ c.setCurrent THEN c.name ELSE cfg.current,
   profiles |-> [cfg.profiles EXCEPT
                   ![c.name] = [ZeroProfile EXCEPT !.key = TRUE, !.ws = c.ws]]]

DeleteProfileM(c, cfg) ==
  [cfg EXCEPT !.profiles[c.name] = NoProfile]

DeleteProfile(c, cfg) ==
  [current  |-> IF cfg.current = c.name THEN None ELSE cfg.current,
   profiles |-> [cfg.profiles EXCEPT ![c.name] = NoProfile]]

UseProfile(c, cfg) == [cfg EXCEPT !.current = c.name]

SetWorkspace(c, cfg) ==
  LET n == LoginProfileName(cfg, c.name)
  IN [current  |-> IF cfg.current = None THEN n ELSE cfg.current,
      profiles |-> [cfg.profiles EXCEPT
                      ![n] = [Lookup(cfg, n) EXCEPT !.ws = c.ws]]]

\* A response without a refresh token keeps the one the profile had.
ApplyTokenResponse(profile, tok) ==
  [profile EXCEPT !.access = tok.access,
                  !.refresh = IF tok.refresh # 0 THEN tok.refresh ELSE @]

LoginProfile(c, cfg, tok) ==
  LET n   == LoginProfileName(cfg, c.name)
      old == Lookup(cfg, n)
      ws  == IF c.ws # None THEN c.ws ELSE old.ws
  IN [current  |-> n,
      profiles |-> [cfg.profiles EXCEPT
                      ![n] = ApplyTokenResponse([old EXCEPT !.ws = ws], tok)]]

\* A refresh replaces both tokens of one profile.
SetTokens(cfg, n, tok) ==
  [cfg EXCEPT !.profiles[n] = [@ EXCEPT !.access = tok.access, !.refresh = tok.refresh]]

\* What the command saves, from the copy it loaded and the token it was given.
Apply(c, cfg, tok) ==
  CASE c.op = "create"    -> CreateProfile(c, cfg)
    [] c.op = "delete"    -> DeleteProfile(c, cfg)
    [] c.op = "use"       -> UseProfile(c, cfg)
    [] c.op = "workspace" -> SetWorkspace(c, cfg)
    [] c.op = "login"     -> LoginProfile(c, cfg, tok)

\* The commands cobra lets through: create, delete and use take a NAME
\* argument and only create has --set-current; the others take --profile.
WellFormed(c) ==
  /\ c.op \in {"create", "delete", "use"} => c.name # None
  /\ c.op = "workspace" => c.ws # None
  /\ c.op \in {"delete", "use", "request"} => c.ws = None
  /\ c.setCurrent => c.op = "create"

\* The current profile is one of the saved ones.
Consistent(cfg) == cfg.current = None \/ Has(cfg, cfg.current)
=============================================================================
