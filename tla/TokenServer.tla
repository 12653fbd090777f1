----------------------------- MODULE TokenServer -----------------------------
(***************************************************************************)
(* The OAuth authorization server and its single-use refresh tokens, as    *)
(* the CLI relies on them: a refresh token is exchanged once, and          *)
(* presenting a rotated one again revokes every session of the user        *)
(* (internal/client/client.go:411, internal/cmdutil/resolve_test.go:398).  *)
(* The server is not part of the repository.                               *)
(***************************************************************************)
EXTENDS ProfileConfig

VARIABLES
  issued,    \* number of the last token issued
  live,      \* access tokens that have not expired
  valid,     \* refresh tokens the server would exchange
  rotated,   \* refresh tokens already exchanged
  replays    \* a rotated token was presented again

serverVars == <<issued, live, valid, rotated, replays>>

ServerTypeOK ==
  /\ issued \in 0 .. MaxTokens
  /\ live \subseteq 1 .. issued
  /\ valid \subseteq 1 .. issued
  /\ rotated \subseteq 1 .. issued
  /\ replays \in BOOLEAN

\* The server has issued the tokens in `held', which nobody has refreshed yet.
ServerInit(held) ==
  /\ issued \in Tokens
  /\ held \subseteq 1 .. issued
  /\ issued \in held \cup {0}
  /\ live \in SUBSET held
  /\ valid = held
  /\ rotated = {}
  /\ replays = FALSE

\* A completed device login: a new access token, usually with a refresh token.
IssueToken(withRefresh) ==
  /\ issued < MaxTokens
  /\ issued' = issued + 1
  /\ live' = live \cup {issued + 1}
  /\ valid' = IF withRefresh THEN valid \cup {issued + 1} ELSE valid
  /\ UNCHANGED <<rotated, replays>>

\* grant_type=refresh_token with a token that has not been used.
Rotate(r) ==
  /\ r \in valid
  /\ issued < MaxTokens
  /\ issued' = issued + 1
  /\ live' = live \cup {issued + 1}
  /\ valid' = (valid \ {r}) \cup {issued + 1}
  /\ rotated' = rotated \cup {r}
  /\ UNCHANGED replays

\* The same with a token that was already used: every session is revoked.
Replay(r) ==
  /\ r \in rotated
  /\ live' = {}
  /\ valid' = {}
  /\ replays' = TRUE
  /\ UNCHANGED <<issued, rotated>>

\* Neither valid nor known as rotated (revoked, or no refresh token at all).
Reject(r) ==
  /\ r \notin valid \cup rotated
  /\ UNCHANGED serverVars

\* An access token reaches its expiry.
Expire(t) ==
  /\ t \in live
  /\ live' = live \ {t}
  /\ UNCHANGED <<issued, valid, rotated, replays>>
=============================================================================
