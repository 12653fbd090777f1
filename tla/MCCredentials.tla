---------------------------- MODULE MCCredentials ----------------------------
(* Small instances of CredentialUse: two profiles, three hosts.            *)
EXTENDS CredentialUse

CONSTANTS a, d, home, self, other, w1, w2, w3

MCNames == {a, d}
MCHosts == {home, self, other}
MCWorkspaces == {w1, w2, w3}

\* An OAuth login, with and without a stored key, a stored key, a referenced
\* key, and a profile that only names an endpoint.
OAuthOnly   == [url |-> [host |-> self, mount |-> "/api/v1"], ws |-> w1,
                oauth |-> TRUE, stored |-> FALSE, ref |-> FALSE]
OAuthAndKey == [url |-> None, ws |-> None,
                oauth |-> TRUE, stored |-> TRUE, ref |-> FALSE]
StoredKey   == [url |-> [host |-> self, mount |-> "/api"], ws |-> w1,
                oauth |-> FALSE, stored |-> TRUE, ref |-> TRUE]
KeyByRef    == [url |-> None, ws |-> None,
                oauth |-> FALSE, stored |-> FALSE, ref |-> TRUE]
NoCreds     == [url |-> [host |-> self, mount |-> ""], ws |-> None,
                oauth |-> FALSE, stored |-> FALSE, ref |-> FALSE]

\* The current profile, if there is one, exists (CurrentExists of ProfileStore).
MCConfigs ==
  {Unreadable} \cup
  {c \in [profiles: [Names -> {None, OAuthOnly, OAuthAndKey, StoredKey, KeyByRef, NoCreds}],
          current: Names \cup {None}] :
     c.current # None => c.profiles[c.current] # None}

EnvEndpoint == [host |-> other, mount |-> "/api/v1"]
FlagURL     == [host |-> other, mount |-> "/api"]

\* Every precedence between the settings, one value for each.
AllEnvs ==
  {[profile |-> p, endpoint |-> e, tenant |-> s.tenant, ws |-> s.ws,
    key |-> k, answers |-> v] :
     p \in Names \cup {None}, e \in {None, EnvEndpoint}, k \in BOOLEAN,
     s \in {[tenant |-> None, ws |-> None], [tenant |-> w2, ws |-> None],
            [tenant |-> w2, ws |-> w3]},
     v \in {{}, Names}}

AllFlags ==
  {[profile |-> p, url |-> u, ws |-> w, key |-> k] :
     p \in Names \cup {None}, u \in {None, FlagURL}, w \in {None, w2}, k \in BOOLEAN}

\* The settings that choose a profile, and the workspaces where nothing else is
\* set.
SomeEnvs ==
  {v \in AllEnvs :
     \/ v.tenant = None /\ v.ws = None
     \/ v.endpoint = None /\ ~v.key /\ v.answers = Names}

SomeFlags == {f \in AllFlags : f.ws = None \/ (f.url = None /\ ~f.key)}

\* Only --profile, and nothing in the environment.
PlainEnvs == {v \in SomeEnvs :
   /\ v.profile = None /\ v.endpoint = None /\ v.tenant = None
   /\ ~v.key /\ v.answers = Names}

ProfileFlags == {f \in SomeFlags : f.url = None /\ f.ws = None /\ ~f.key}

=============================================================================
