--------------------------- MODULE OAuthDiscovery ---------------------------
(***************************************************************************)
(* How `auth login' finds the authorization server of a deployment         *)
(* (internal/client/oauth.go): it asks for a metadata document at each URL *)
(* the deployment may serve one from, follows a document that names        *)
(* another issuer to that issuer's own document, and falls back to the     *)
(* paths of a legacy backend when no candidate has a document.             *)
(*                                                                         *)
(* An endpoint is modelled by its base URL.  A host stands for an origin,  *)
(* scheme included; a document without its required endpoints, or one that *)
(* does not parse, is an absent one, as it is for the code.                *)
(***************************************************************************)
EXTENDS ApiURL, Naturals, Sequences

CONSTANTS
  SecureHosts,  \* the hosts reached over https, or on the loopback interface
  Documents,    \* the metadata documents a server may answer with
  Outage,       \* a transport error, a timeout, 408, 429 or 5xx
  Absent,       \* another status, a page that is not JSON, missing endpoints
  NoURL         \* no registration endpoint

ASSUME SecureHostsAssumption == SecureHosts \subseteq Hosts
ASSUME NoURLAssumption == NoURL \notin URL

Document == [issuer: URL, device: URL, token: URL, register: URL \cup {NoURL}]

ASSUME DocumentsAssumption == Documents \subseteq Document

Answers == Documents \cup {Outage, Absent}

ASSUME AnswersAssumption ==
  Outage # Absent /\ {Outage, Absent} \cap Documents = {}

VARIABLES
  apiURL,        \* the deployment
  pc,            \* where the login is
  tried,         \* number of the candidate being asked
  discoveryErr,  \* DiscoverOAuth remembers an error that is not "no metadata"
  claimed,       \* the document that names another issuer, or an absent one
  meta,          \* the endpoints the login uses
  legacy,        \* whether ResolveOAuth fell back to them
  heard          \* what was asked and answered, in order

discoveryVars == <<apiURL, pc, tried, discoveryErr, claimed, meta, legacy, heard>>

\* Nothing is known yet.
NoMeta == [issuer |-> NoURL, device |-> NoURL, token |-> NoURL, register |-> NoURL]

\* What was configured, then the self-hosted and the SaaS mount, without
\* repetitions.
Candidates(u) ==
  LET given == NormalizeURL(u)
      root  == DeploymentRoot(u)
      api   == [host |-> u.host, mount |-> "/api"]
  IN IF given = api THEN <<api, root>> ELSE <<root, api>>

Base == Candidates(apiURL)[tried]

\* Every endpoint of the document is on its issuer's origin.
OnIssuerOrigin(doc) ==
  \A endpoint \in {doc.device, doc.token, doc.register} :
    endpoint # NoURL => endpoint.host = doc.issuer.host

\* A document a server gives for itself.
Vouched(doc, base) == doc.issuer = base /\ OnIssuerOrigin(doc)

MayDelegateM(doc, base) == doc.issuer # base /\ OnIssuerOrigin(doc)

\* A document that names another issuer, worth asking that issuer about.
MayDelegate(doc, base) ==
  /\ doc.issuer # base
  /\ OnIssuerOrigin(doc)
  /\ doc.issuer.host \in SecureHosts

SameEndpoints(doc, canonical) ==
  /\ canonical.device = doc.device
  /\ canonical.token = doc.token
  /\ canonical.register = doc.register

LegacyMeta(base) ==
  [issuer |-> base, device |-> base, token |-> base, register |-> base]

DiscoveryInit ==
  /\ pc = "probe"
  /\ tried = 1
  /\ discoveryErr = FALSE
  /\ claimed = NoMeta
  /\ meta = NoMeta
  /\ legacy = FALSE
  /\ heard = <<>>

Hear(url, answer) == heard' = Append(heard, [at |-> url, answer |-> answer])

Found(doc) ==
  /\ pc' = "found"
  /\ meta' = doc
  /\ UNCHANGED <<tried, discoveryErr, legacy>>

\* The candidate is no good; `err' says whether that is an error or just the
\* absence of a document.  After the last one DiscoverOAuth reports the first
\* error if there was any, and ResolveOAuth falls back if there was none.
NextCandidate(err) ==
  /\ discoveryErr' = (discoveryErr \/ err)
  /\ IF tried < Len(Candidates(apiURL))
       THEN /\ tried' = tried + 1
            /\ pc' = "probe"
            /\ UNCHANGED <<meta, legacy>>
       ELSE /\ UNCHANGED tried
            /\ IF discoveryErr'
                 THEN pc' = "failed" /\ UNCHANGED <<meta, legacy>>
                 ELSE /\ pc' = "found"
                      /\ meta' = LegacyMeta(NormalizeURL(apiURL))
                      /\ legacy' = TRUE

ProbeOutage ==
  /\ pc = "probe"
  /\ Hear(Base, Outage)
  /\ NextCandidate(TRUE)
  /\ UNCHANGED <<apiURL, claimed>>

ProbeAbsent ==
  /\ pc = "probe"
  /\ Hear(Base, Absent)
  /\ NextCandidate(FALSE)
  /\ UNCHANGED <<apiURL, claimed>>

\* The candidate answers with a document of its own.
ProbeOwn(doc) ==
  /\ pc = "probe"
  /\ doc.issuer = Base
  /\ Hear(Base, doc)
  /\ IF Vouched(doc, Base) THEN Found(doc) ELSE NextCandidate(FALSE)
  /\ UNCHANGED <<apiURL, claimed>>

\* The candidate answers with a document of another issuer.
ProbeDelegated(doc) ==
  /\ pc = "probe"
  /\ doc.issuer # Base
  /\ Hear(Base, doc)
  /\ IF MayDelegate(doc, Base)
       THEN /\ pc' = "verify"
            /\ claimed' = doc
            /\ UNCHANGED <<tried, discoveryErr, meta, legacy>>
       ELSE NextCandidate(TRUE) /\ UNCHANGED claimed
  /\ UNCHANGED apiURL

\* The issuer it names answers.
Confirms(answer) ==
  /\ answer \in Documents
  /\ Vouched(answer, claimed.issuer)
  /\ SameEndpoints(claimed, answer)

Verify(answer) ==
  /\ pc = "verify"
  /\ Hear(claimed.issuer, answer)
  /\ claimed' = NoMeta
  /\ IF Confirms(answer) THEN Found(answer) ELSE NextCandidate(TRUE)
  /\ UNCHANGED apiURL

Probe ==
  \/ ProbeOutage
  \/ ProbeAbsent
  \/ \E doc \in Documents : ProbeOwn(doc) \/ ProbeDelegated(doc)

Discover == Probe \/ \E answer \in Answers : Verify(answer)

=============================================================================
