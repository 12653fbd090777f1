------------------------------- MODULE ApiURL -------------------------------
(***************************************************************************)
(* LangSmith endpoints.  A deployment is reached at its origin (SaaS, one  *)
(* host per service) or under <origin>/api (self-hosted, one host for      *)
(* all); users write either with or without the "/v1" of the API.          *)
(***************************************************************************)
CONSTANTS
  Hosts,        \* the hosts of deployments
  DefaultHost   \* api.smith.langchain.com

ASSUME DefaultHostAssumption == DefaultHost \in Hosts

Mounts == {"", "/api", "/api/v1"}

URL == [host: Hosts, mount: Mounts]

DefaultURL == [host |-> DefaultHost, mount |-> ""]

\* The URL the SDK appends "api/v1" to.
NormalizeURL(u) ==
  [host |-> u.host, mount |-> IF u.mount = "/api/v1" THEN "" ELSE u.mount]

\* The URL of the deployment, whatever service of it u names.
DeploymentRoot(u) == [host |-> u.host, mount |-> ""]

\* The prefix of the platform service's paths: a single-origin deployment
\* serves them under /api/v1, a multi-origin one at the root.
PlatformPrefix(u) == IF u.mount = "" THEN "/v1/platform" ELSE "/api/v1/platform"

=============================================================================
