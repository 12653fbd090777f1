----------------------------- MODULE LoginProofs -----------------------------
(***************************************************************************)
(* Proofs about DeviceLogin: the endpoints a login uses are vouched for,   *)
(* for every deployment and every answer of its servers, and its polls are *)
(* as far apart as they must be and no further, for every interval,        *)
(* expiry, timeout and approval.                                           *)
(***************************************************************************)
EXTENDS DeviceLogin, SequenceTheorems, TLAPS

\* Two candidates, each a URL.
LEMMA CandidatesAreTwo ==
  ASSUME NEW u \in URL
  PROVE  /\ Candidates(u) \in Seq(URL)
         /\ Len(Candidates(u)) = 2
         /\ \A i \in 1 .. 2 : Candidates(u)[i] \in URL
<1>. DEFINE root == [host |-> u.host, mount |-> ""]
            api  == [host |-> u.host, mount |-> "/api"]
<1>1. root \in URL /\ api \in URL
  BY DEF URL, Mounts
<1>3. Candidates(u) = <<api, root>> \/ Candidates(u) = <<root, api>>
  BY DEF Candidates, DeploymentRoot
<1>. HIDE DEF root, api
<1>4. \A a, b \in URL : /\ <<a, b>> \in Seq(URL)
                        /\ Len(<<a, b>>) = 2
                        /\ \A i \in 1 .. 2 : <<a, b>>[i] \in URL
  OBVIOUS
<1>. QED
  BY <1>1, <1>3, <1>4

-----------------------------------------------------------------------------
(* Types.                                                                  *)

HeardEntry == [at: URL, answer: Answers]

LEMMA HearAppends ==
  ASSUME heard \in Seq(HeardEntry), NEW url \in URL, NEW answer \in Answers,
         Hear(url, answer)
  PROVE  /\ heard' \in Seq(HeardEntry)
         /\ Len(heard') = Len(heard) + 1
         /\ DOMAIN heard = 1 .. Len(heard) /\ DOMAIN heard' = 1 .. Len(heard) + 1
         /\ \A j \in DOMAIN heard : heard'[j] = heard[j] /\ j \in DOMAIN heard'
         /\ heard'[Len(heard) + 1] = [at |-> url, answer |-> answer]
         /\ Len(heard) + 1 \in DOMAIN heard'
<1>1. [at |-> url, answer |-> answer] \in HeardEntry
  BY DEF HeardEntry
<1>. DEFINE h == [at |-> url, answer |-> answer]
<1>2. heard' = Append(heard, h)
  BY DEF Hear
<1>. HIDE DEF h
<1>3. h \in HeardEntry
  BY <1>1 DEF h
<1>4. /\ heard' \in Seq(HeardEntry) /\ Len(heard') = Len(heard) + 1
      /\ \A j \in 1 .. Len(heard) : heard'[j] = heard[j]
      /\ heard'[Len(heard) + 1] = h
  BY <1>2, <1>3
<1>5. DOMAIN heard = 1 .. Len(heard) /\ DOMAIN heard' = 1 .. Len(heard') /\ Len(heard) \in Nat
  BY <1>4
<1>. QED
  BY <1>4, <1>5 DEF h

\* The part of the type invariant that discovery changes.
DiscoveryTypes ==
  /\ apiURL \in URL
  /\ pc \in Steps
  /\ tried \in 1 .. 2
  /\ discoveryErr \in BOOLEAN /\ legacy \in BOOLEAN
  /\ claimed \in Documents \cup {NoMeta}
  /\ meta \in Document \cup {NoMeta}
  /\ heard \in Seq(HeardEntry)

LEMMA LegacyTyped == ASSUME NEW u \in URL
                     PROVE  LegacyMeta(NormalizeURL(u)) \in Document /\ NormalizeURL(u) \in URL
<1>1. NormalizeURL(u) \in URL
  BY DEF NormalizeURL, URL, Mounts
<1>. QED
  BY <1>1 DEF LegacyMeta, Document

LEMMA BaseTyped == ASSUME DiscoveryTypes PROVE Base \in URL
  BY CandidatesAreTwo DEF DiscoveryTypes, Base

LEMMA NextCandidateTypes ==
  ASSUME DiscoveryTypes, NEW err \in BOOLEAN, NextCandidate(err), UNCHANGED apiURL
  PROVE  /\ pc' \in {"probe", "found", "failed"}
         /\ tried' \in 1 .. 2
         /\ discoveryErr' \in BOOLEAN /\ legacy' \in BOOLEAN
         /\ meta' \in Document \cup {NoMeta}
<1>1. Len(Candidates(apiURL)) = 2
  BY CandidatesAreTwo DEF DiscoveryTypes
<1>2. discoveryErr' \in BOOLEAN
  BY DEF NextCandidate, DiscoveryTypes
<1>3. tried' \in 1 .. 2
  BY <1>1 DEF NextCandidate, DiscoveryTypes
<1>4. pc' \in {"probe", "found", "failed"}
  BY DEF NextCandidate
<1>5. legacy' \in BOOLEAN
  BY DEF NextCandidate, DiscoveryTypes
<1>6. meta' \in Document \cup {NoMeta}
  BY LegacyTyped DEF NextCandidate, DiscoveryTypes
<1>. QED
  BY <1>2, <1>3, <1>4, <1>5, <1>6

\* Every step of the discovery asks a URL, and the answer ends the candidate,
\* finds a document or leads to the issuer it names.
Outcome(url, answer) ==
  \/ Found(answer) /\ answer \in Documents
  \/ \E err \in BOOLEAN : NextCandidate(err)
  \/ /\ pc' = "verify" /\ answer \in Documents /\ claimed' = answer
     /\ UNCHANGED <<tried, discoveryErr, meta, legacy>>

LEMMA DiscoverAsks ==
  ASSUME DiscoveryTypes, Discover, 
         pc = "verify" => claimed \in Documents
  PROVE  \E url \in URL, answer \in Answers :
           /\ Hear(url, answer) /\ Outcome(url, answer)
           /\ apiURL' = apiURL
           /\ claimed' \in {claimed, answer, NoMeta}
<1>1. Outage \in Answers /\ Absent \in Answers /\ Documents \subseteq Answers
  BY DEF Answers
<1>2. Base \in URL
  BY BaseTyped
<1>3. CASE ProbeOutage
  BY <1>1, <1>2, <1>3 DEF ProbeOutage, Outcome
<1>4. CASE ProbeAbsent
  BY <1>1, <1>2, <1>4 DEF ProbeAbsent, Outcome
<1>5. CASE \E doc \in Documents : ProbeOwn(doc)
  BY <1>1, <1>2, <1>5 DEF ProbeOwn, Outcome
<1>6. CASE \E doc \in Documents : ProbeDelegated(doc)
  BY <1>1, <1>2, <1>6 DEF ProbeDelegated, Outcome
<1>7. CASE \E answer \in Answers : Verify(answer)
  <2>1. PICK answer \in Answers : Verify(answer)
    BY <1>7
  <2>2. claimed.issuer \in URL
    BY <2>1, DocumentsAssumption DEF Verify, Document
  <2>3. Outcome(claimed.issuer, answer)
    BY <2>1 DEF Verify, Outcome, Confirms
  <2>. QED
    BY <2>1, <2>2, <2>3 DEF Verify
<1>. QED
  BY <1>3, <1>4, <1>5, <1>6, <1>7 DEF Discover, Probe

LEMMA DiscoverTypes ==
  ASSUME DiscoveryTypes, Discover, pc = "verify" => claimed \in Documents
  PROVE  DiscoveryTypes'
<1>1. PICK url \in URL, answer \in Answers :
        /\ Hear(url, answer) /\ Outcome(url, answer) /\ apiURL' = apiURL
        /\ claimed' \in {claimed, answer, NoMeta}
  BY DiscoverAsks
<1>2. heard' \in Seq(HeardEntry)
  BY <1>1, HearAppends DEF DiscoveryTypes
<1>3. CASE Found(answer) /\ answer \in Documents
  BY <1>1, <1>2, <1>3, DocumentsAssumption DEF Found, DiscoveryTypes, Steps, Discover,
     Probe, ProbeOutage, ProbeAbsent, ProbeOwn, ProbeDelegated, Verify
<1>4. CASE \E err \in BOOLEAN : NextCandidate(err)
  <2>1. claimed' \in Documents \cup {NoMeta}
    BY DEF DiscoveryTypes, Discover, Probe, ProbeOutage, ProbeAbsent, ProbeOwn,
       ProbeDelegated, Verify
  <2>. QED
    BY <1>1, <1>2, <1>4, <2>1, NextCandidateTypes DEF DiscoveryTypes, Steps
<1>5. CASE /\ pc' = "verify" /\ answer \in Documents /\ claimed' = answer
           /\ UNCHANGED <<tried, discoveryErr, meta, legacy>>
  BY <1>1, <1>2, <1>5 DEF DiscoveryTypes, Steps
<1>. QED
  BY <1>1, <1>3, <1>4, <1>5 DEF Outcome

\* The rest of it.
LoginTypes ==
  /\ in \in Inputs
  /\ profile \in Profile
  /\ now \in Nat /\ deadline \in Nat /\ interval \in Nat /\ wake \in Nat
  /\ slowDowns \in Nat
  /\ answered \in Nat \cup {NotYet}
  /\ grant \in Grants
  /\ reason \in {"", "discovery", "device", "refused", "cancelled", "timeout",
                 "workspace", "save"}

Types == DiscoveryTypes /\ LoginTypes

LEMMA TypesAre == Types => TypeOK
  BY DEF Types, TypeOK, DiscoveryTypes, LoginTypes, HeardEntry

LEMMA InputFields ==
  ASSUME NEW i \in Inputs
  PROVE  /\ i.profile \in Profile /\ i.timeout \in Nat /\ i.approval \in Nat
         /\ i.expiresIn \in Nat /\ i.interval \in Nat
         /\ NormalizePollInterval(i.interval) \in Nat
         /\ LoginAPIURL(i) \in URL
<1>1. i \in Input
  BY InputsAssumption
<1>2. /\ i.profile \in Profile /\ i.timeout \in Nat /\ i.approval \in Nat
      /\ i.expiresIn \in Nat /\ i.interval \in Nat
      /\ i.envURL \in URL \cup {NoURL} /\ i.flagURL \in URL \cup {NoURL}
  BY <1>1 DEF Input
<1>3. i.profile.url \in URL \cup {NoURL}
  BY <1>2 DEF Profile
<1>4. DefaultURL \in URL
  BY DefaultHostAssumption DEF DefaultURL, URL, Mounts
<1>5. LoginAPIURL(i) \in URL
  BY <1>2, <1>3, <1>4, LegacyTyped DEF LoginAPIURL
<1>6. NormalizePollInterval(i.interval) \in Nat
  BY <1>2 DEF NormalizePollInterval, DefaultPollInterval
<1>. QED
  BY <1>2, <1>5, <1>6

\* What the steps after the discovery leave of it.
LEMMA SettledTypes ==
  ASSUME DiscoveryTypes, pc' \in Steps,
         UNCHANGED <<apiURL, tried, discoveryErr, claimed, meta, legacy>>,
         heard' \in {heard, <<>>}
  PROVE  DiscoveryTypes'
<1>1. <<>> \in Seq(HeardEntry)
  OBVIOUS
<1>. QED
  BY <1>1 DEF DiscoveryTypes

LEMMA RequestDeviceCodeTypes ==
  ASSUME Types, RequestDeviceCode  PROVE Types'
<1>1. DiscoveryTypes'
  BY SettledTypes DEF Types, RequestDeviceCode, Steps
<1>2. in \in Inputs
  BY DEF Types, LoginTypes
<1>3. /\ in.timeout \in Nat /\ in.expiresIn \in Nat
      /\ NormalizePollInterval(in.interval) \in Nat
  BY <1>2, InputFields
<1>4. deadline' \in Nat
  BY <1>3 DEF RequestDeviceCode, Grace
<1>5. LoginTypes'
  BY <1>3, <1>4 DEF Types, RequestDeviceCode, LoginTypes
<1>. QED
  BY <1>1, <1>5 DEF Types

LEMMA PollTypes ==
  ASSUME Types, NEW d \in 0 .. MaxLatency,
         \/ Pending(d) \/ SlowedDown(d) \/ Refused(d)
         \/ \E refresh \in BOOLEAN : Granted(d, refresh)
  PROVE  Types'
<1>. USE MaxLatencyAssumption DEF LoginTypes, SlowDown
<1>1. Answered(d) /\ pc' \in Steps
  BY DEF Pending, SlowedDown, Refused, Granted, LoginFails, Pause, Steps
<1>2. DiscoveryTypes'
  BY <1>1, SettledTypes DEF Types, Answered, discovered
<1>3. now \in Nat
  BY DEF Types
<1>4. d \in Nat
  OBVIOUS
<1>5. now' \in Nat /\ now' = now + d /\ answered' = now + d
  BY <1>1, <1>3, <1>4 DEF Answered
<1>6. in' = in /\ profile' = profile /\ deadline' = deadline
  BY <1>1 DEF Answered
<1>7. CASE Pending(d)
  <2>1. interval' \in Nat /\ wake' \in Nat
    <3>1. interval \in Nat
      BY DEF Types
    <3>. QED
      BY <3>1, <1>5, <1>7 DEF Pending, Pause
  <2>. QED
    BY <1>2, <1>5, <1>6, <1>7, <2>1 DEF Types, Pending, Pause
<1>8. CASE SlowedDown(d)
  <2>1. interval' \in Nat /\ wake' \in Nat /\ slowDowns' \in Nat
    <3>1. interval \in Nat /\ slowDowns \in Nat
      BY DEF Types
    <3>. QED
      BY <3>1, <1>5, <1>8 DEF SlowedDown, Pause
  <2>. QED
    BY <1>2, <1>5, <1>6, <1>8, <2>1 DEF Types, SlowedDown, Pause
<1>9. CASE Refused(d)
  BY <1>2, <1>5, <1>6, <1>9 DEF Types, Refused, LoginFails
<1>10. CASE \E refresh \in BOOLEAN : Granted(d, refresh)
  BY <1>2, <1>5, <1>6, <1>10 DEF Types, Granted, Grants
<1>. QED
  BY <1>7, <1>8, <1>9, <1>10

LEMMA TimerTypes ==
  ASSUME Types, Cancelled \/ TimerFires \/ TimesOut  PROVE Types'
<1>1. DiscoveryTypes'
  BY SettledTypes
     DEF Types, Cancelled, TimerFires, TimesOut, LoginFails, discovered, Steps
<1>2. LoginTypes'
  BY DEF Types, Cancelled, TimerFires, TimesOut, LoginFails, LoginTypes
<1>. QED
  BY <1>1, <1>2 DEF Types

\* The stored profile is a profile.
LEMMA LoggedInTyped ==
  ASSUME Types, NEW ws \in {"none", "kept", "chosen"}, NEW expires \in BOOLEAN
  PROVE  LoggedIn(ws, expires) \in Profile
<1>1. /\ in.profile \in Profile /\ apiURL \in URL
  BY InputFields DEF Types, LoginTypes, DiscoveryTypes
<1>2. meta.issuer \in URL \cup {NoURL}
  BY DEF Types, DiscoveryTypes, Document, NoMeta
<1>3. /\ in.profile.url \in URL \cup {NoURL}
      /\ in.profile.refresh \in Token /\ in.profile.expiry \in Token
  BY <1>1 DEF Profile
<1>4. NewToken(meta.issuer) \in Token
  BY <1>2 DEF NewToken, Token
<1>5. StoredURL \in URL \cup {NoURL}
  BY <1>1, <1>3 DEF StoredURL
<1>. QED
  BY <1>2, <1>3, <1>4, <1>5 DEF LoggedIn, Profile

LEMMA FinishTypes ==
  ASSUME Types, Finish \/ NoDeviceCode  PROVE Types'
<1>1. in.profile.ws \in {"none", "kept", "chosen"}
  BY InputFields DEF Types, LoginTypes, Profile
<1>2. CASE \E ws \in {"none", "kept", "chosen"}, expires \in BOOLEAN : Store(ws, expires)
  <2>1. DiscoveryTypes'
    BY <1>2, SettledTypes DEF Types, Store, discovered, Steps
  <2>2. LoginTypes'
    BY <1>2, LoggedInTyped DEF Types, Store, LoginTypes, timeVars
  <2>. QED
    BY <2>1, <2>2 DEF Types
<1>3. CASE PromptFails \/ StoreFails \/ NoDeviceCode
  <2>1. DiscoveryTypes'
    BY <1>3, SettledTypes
       DEF Types, PromptFails, StoreFails, NoDeviceCode, LoginFails, discovered, Steps
  <2>2. LoginTypes'
    BY <1>3
       DEF Types, PromptFails, StoreFails, NoDeviceCode, LoginFails, LoginTypes, timeVars
  <2>. QED
    BY <2>1, <2>2 DEF Types
<1>. QED
  BY <1>1, <1>2, <1>3 DEF Finish, StoreLogin, StoreWithWorkspace

-----------------------------------------------------------------------------
(* The inductive invariant of the discovery.  While it goes on, every      *)
(* candidate before the current one has been heard, and an error other     *)
(* than "no metadata" is remembered; the invariant of the endpoints        *)
(* outlives the answers, which are forgotten once a device code is         *)
(* requested.                                                              *)

Probing == pc \in {"probe", "verify"}

\* The candidates up to the n-th have been asked, as h tells.
HeardUpTo(n, h) ==
  \A i \in 1 .. n : \E j \in DOMAIN h : h[j].at = Candidates(apiURL)[i]

NoFailureIn(h) == \A j \in DOMAIN h : ~Failure(h[j])

DiscoveryInv ==
  /\ pc = "probe" =>
       (discoveryErr \/ NoFailureIn(heard)) /\ HeardUpTo(tried - 1, heard)
  /\ pc = "verify" =>
       /\ HeardUpTo(tried, heard)
       /\ claimed \in Documents
       /\ claimed.issuer.host \in SecureHosts
  /\ Probing => ~legacy
  /\ LegacyOnlyWithoutMetadata
  /\ IssuerVouches
  /\ ~Probing /\ pc # "failed" => meta \in Document /\ OnIssuerOrigin(meta)

LEMMA LegacyIsLocal ==
  ASSUME NEW u \in URL
  PROVE  OnIssuerOrigin(LegacyMeta(NormalizeURL(u)))
  BY DEF OnIssuerOrigin, LegacyMeta

\* Going to the next candidate keeps the invariant, when the current one has
\* been heard and a failure counts as an error.
LEMMA NextCandidateKeeps ==
  ASSUME DiscoveryTypes, DiscoveryInv, Probing, NEW err \in BOOLEAN,
         NextCandidate(err), apiURL' = apiURL,
         HeardUpTo(tried, heard'),
         err \/ discoveryErr \/ NoFailureIn(heard')
  PROVE  DiscoveryInv'
<1>1. Len(Candidates(apiURL)) = 2 /\ tried \in 1 .. 2
      /\ DOMAIN Candidates(apiURL) = 1 .. 2
  BY CandidatesAreTwo DEF DiscoveryTypes
<1>2. ~legacy
  BY DEF DiscoveryInv
<1>3. discoveryErr' \/ NoFailureIn(heard')
  BY DEF NextCandidate
<1>4. CASE tried = 1
  <2>1. tried' = 2 /\ pc' = "probe" /\ legacy' = legacy
    BY <1>1, <1>4 DEF NextCandidate
  <2>2. HeardUpTo(tried' - 1, heard')
    BY <1>1, <1>4, <2>1
  <2>3. HeardUpTo(tried - 1, heard)'
    BY <2>2 DEF HeardUpTo
  <2>. QED
    BY <1>2, <1>3, <2>1, <2>3
       DEF DiscoveryInv, Probing, LegacyOnlyWithoutMetadata, IssuerVouches, NoFailureIn
<1>5. CASE tried = 2 /\ discoveryErr'
  <2>1. pc' = "failed"
    BY <1>1, <1>5 DEF NextCandidate
  <2>. QED
    BY <2>1 DEF DiscoveryInv, Probing, LegacyOnlyWithoutMetadata, IssuerVouches
<1>6. CASE tried = 2 /\ ~discoveryErr'
  <2>1. pc' = "found" /\ legacy' = TRUE /\ meta' = LegacyMeta(NormalizeURL(apiURL))
    BY <1>1, <1>6 DEF NextCandidate
  <2>2. meta' \in Document /\ OnIssuerOrigin(meta')
    BY <2>1, LegacyTyped, LegacyIsLocal DEF DiscoveryTypes
  <2>3. LegacyOnlyWithoutMetadata'
    BY <1>1, <1>3, <1>6 DEF LegacyOnlyWithoutMetadata, HeardUpTo, NoFailureIn
  <2>. QED
    BY <2>1, <2>2, <2>3 DEF DiscoveryInv, Probing, IssuerVouches, OnIssuerOrigin
<1>. QED
  BY <1>1, <1>4, <1>5, <1>6

\* A document that its issuer gave is found.
LEMMA FoundKeeps ==
  ASSUME DiscoveryTypes, DiscoveryInv, Probing, NEW doc \in Documents, Found(doc),
         apiURL' = apiURL, OnIssuerOrigin(doc),
         \E j \in DOMAIN heard' : heard'[j] = [at |-> doc.issuer, answer |-> doc],
         \/ doc.issuer.host \in SecureHosts
         \/ \E i \in DOMAIN Candidates(apiURL) : doc.issuer = Candidates(apiURL)[i]
  PROVE  DiscoveryInv'
<1>1. pc' = "found" /\ meta' = doc /\ ~legacy' /\ doc \in Document
  BY DocumentsAssumption DEF Found, DiscoveryInv
<1>2. IssuerVouches'
  BY <1>1 DEF IssuerVouches
<1>. QED
  BY <1>1, <1>2 DEF DiscoveryInv, Probing, LegacyOnlyWithoutMetadata, OnIssuerOrigin

\* Hearing the current candidate.
LEMMA BaseHeard ==
  ASSUME DiscoveryTypes, DiscoveryInv, pc = "probe", NEW answer \in Answers,
         Hear(Base, answer)
  PROVE  HeardUpTo(tried, heard')
<1>1. Base \in URL
  BY BaseTyped
<1>2. heard \in Seq(HeardEntry) /\ tried \in 1 .. 2
  BY DEF DiscoveryTypes
<1>3. heard'[Len(heard) + 1].at = Candidates(apiURL)[tried] /\ Len(heard) + 1 \in DOMAIN heard'
  <2>1. /\ heard'[Len(heard) + 1] = [at |-> Base, answer |-> answer]
        /\ Len(heard) + 1 \in DOMAIN heard'
    BY <1>1, <1>2, HearAppends
  <2>. QED
    BY <2>1 DEF Base
<1>4. ASSUME NEW i \in 1 .. tried - 1
      PROVE  \E j \in DOMAIN heard' : heard'[j].at = Candidates(apiURL)[i]
  BY <1>1, <1>2, <1>4, HearAppends DEF DiscoveryInv, HeardUpTo
<1>. QED
  BY <1>2, <1>3, <1>4 DEF HeardUpTo

\* No failure so far and none now.
LEMMA NoFailureHeard ==
  ASSUME DiscoveryTypes, NEW url \in URL, NEW answer \in Answers, Hear(url, answer),
         NoFailureIn(heard), ~Failure([at |-> url, answer |-> answer])
  PROVE  NoFailureIn(heard')
<1>1. /\ DOMAIN heard = 1 .. Len(heard) /\ DOMAIN heard' = 1 .. Len(heard) + 1
      /\ \A j \in DOMAIN heard : heard'[j] = heard[j]
      /\ heard'[Len(heard) + 1] = [at |-> url, answer |-> answer]
  BY HearAppends DEF DiscoveryTypes
<1>2. ASSUME NEW j \in DOMAIN heard' PROVE ~Failure(heard'[j])
  <2>1. CASE j \in DOMAIN heard
    BY <1>1, <2>1 DEF NoFailureIn
  <2>2. CASE j = Len(heard) + 1
    BY <1>1, <2>2
  <2>3. Len(heard) \in Nat
    BY DEF DiscoveryTypes
  <2>. QED
    BY <1>1, <1>2, <2>1, <2>2, <2>3
<1>. QED
  BY <1>2 DEF NoFailureIn

LEMMA ProbeKeeps ==
  ASSUME DiscoveryTypes, DiscoveryInv, Probe  PROVE DiscoveryInv'
<1>1. pc = "probe" /\ Probing /\ apiURL' = apiURL
  BY DEF Probe, ProbeOutage, ProbeAbsent, ProbeOwn, ProbeDelegated, Probing
<1>2. Base \in URL /\ (discoveryErr \/ NoFailureIn(heard))
  BY <1>1, BaseTyped DEF DiscoveryInv
<1>3. Outage \in Answers /\ Absent \in Answers /\ Documents \subseteq Answers
  BY DEF Answers
<1>4. CASE ProbeOutage
  BY <1>1, <1>3, <1>4, BaseHeard, NextCandidateKeeps DEF ProbeOutage
<1>5. CASE ProbeAbsent
  <2>1. ~Failure([at |-> Base, answer |-> Absent])
    BY AnswersAssumption DEF Failure
  <2>2. Hear(Base, Absent) /\ NextCandidate(FALSE)
    BY <1>5 DEF ProbeAbsent
  <2>3. discoveryErr \/ NoFailureIn(heard')
    BY <1>2, <1>3, <2>1, <2>2, NoFailureHeard
  <2>4. HeardUpTo(tried, heard')
    BY <1>1, <1>3, <2>2, BaseHeard
  <2>. QED
    BY <1>1, <2>2, <2>3, <2>4, NextCandidateKeeps
<1>6. ASSUME NEW doc \in Documents, ProbeOwn(doc)  PROVE DiscoveryInv'
  <2>1. /\ doc.issuer = Base /\ Hear(Base, doc) /\ doc \in Answers
        /\ IF Vouched(doc, Base) THEN Found(doc) ELSE NextCandidate(FALSE)
    BY <1>3, <1>6 DEF ProbeOwn
  <2>2. CASE Vouched(doc, Base) /\ Found(doc)
    <3>1. OnIssuerOrigin(doc)
      BY <2>2 DEF Vouched
    <3>2. \E j \in DOMAIN heard' : heard'[j] = [at |-> doc.issuer, answer |-> doc]
      BY <1>2, <2>1, HearAppends DEF DiscoveryTypes
    <3>3. \E i \in DOMAIN Candidates(apiURL) : doc.issuer = Candidates(apiURL)[i]
      BY <2>1, CandidatesAreTwo DEF DiscoveryTypes, Base
    <3>. QED
      BY <1>1, <2>2, <3>1, <3>2, <3>3, FoundKeeps
  <2>3. CASE ~Vouched(doc, Base) /\ NextCandidate(FALSE)
    <3>1. ~Failure([at |-> Base, answer |-> doc])
      BY <2>1, AnswersAssumption DEF Failure
    <3>2. discoveryErr \/ NoFailureIn(heard')
      BY <1>2, <2>1, <3>1, NoFailureHeard
    <3>3. HeardUpTo(tried, heard')
      BY <1>1, <2>1, BaseHeard
    <3>. QED
      BY <1>1, <2>3, <3>2, <3>3, NextCandidateKeeps
  <2>. QED
    BY <2>1, <2>2, <2>3
<1>7. ASSUME NEW doc \in Documents, ProbeDelegated(doc)  PROVE DiscoveryInv'
  <2>1. Hear(Base, doc) /\ doc \in Answers
    BY <1>3, <1>7 DEF ProbeDelegated
  <2>2. HeardUpTo(tried, heard')
    BY <1>1, <2>1, BaseHeard
  <2>3. CASE MayDelegate(doc, Base)
    <3>1. /\ pc' = "verify" /\ claimed' = doc /\ tried' = tried /\ legacy' = legacy
          /\ doc.issuer.host \in SecureHosts
      BY <1>7, <2>3 DEF ProbeDelegated, MayDelegate
    <3>2. HeardUpTo(tried, heard)'
      BY <1>1, <2>2, <3>1 DEF HeardUpTo
    <3>. QED
      BY <1>1, <3>1, <3>2
         DEF DiscoveryInv, Probing, LegacyOnlyWithoutMetadata, IssuerVouches
  <2>4. CASE ~MayDelegate(doc, Base)
    BY <1>1, <1>7, <2>2, <2>4, NextCandidateKeeps DEF ProbeDelegated
  <2>. QED
    BY <2>3, <2>4
<1>. QED
  BY <1>4, <1>5, <1>6, <1>7 DEF Probe

LEMMA VerifyKeeps ==
  ASSUME DiscoveryTypes, DiscoveryInv, NEW answer \in Answers, Verify(answer)
  PROVE  DiscoveryInv'
<1>1. /\ pc = "verify" /\ Probing /\ apiURL' = apiURL /\ Hear(claimed.issuer, answer)
      /\ claimed \in Documents /\ claimed.issuer.host \in SecureHosts
      /\ claimed.issuer \in URL
  BY DocumentsAssumption DEF Verify, Probing, DiscoveryInv, Document
<1>2. CASE Confirms(answer)
  <2>1. /\ answer \in Documents /\ OnIssuerOrigin(answer) /\ Found(answer)
        /\ answer.issuer = claimed.issuer
    BY <1>2 DEF Confirms, Vouched, Verify
  <2>2. \E j \in DOMAIN heard' : heard'[j] = [at |-> answer.issuer, answer |-> answer]
    BY <1>1, <2>1, HearAppends DEF DiscoveryTypes
  <2>. QED
    BY <1>1, <2>1, <2>2, FoundKeeps
<1>3. CASE ~Confirms(answer)
  <2>1. NextCandidate(TRUE)
    BY <1>3 DEF Verify
  <2>2. tried \in 1 .. 2 /\ HeardUpTo(tried, heard)
    BY <1>1 DEF DiscoveryTypes, DiscoveryInv
  <2>3. HeardUpTo(tried, heard')
    BY <1>1, <2>2, HearAppends DEF HeardUpTo, DiscoveryTypes
  <2>. QED
    BY <1>1, <2>1, <2>3, NextCandidateKeeps
<1>. QED
  BY <1>2, <1>3

-----------------------------------------------------------------------------
(* The inductive invariant of the polls: the interval is what the server   *)
(* asked for, the timer is set by it, and a login that waits was told that *)
(* the code was not approved by then.                                      *)

PollInv ==
  /\ pc \in {"probe", "verify", "found"} => slowDowns = 0 /\ answered = NotYet
  /\ pc \in {"poll", "wait"} => interval = Patience
  /\ pc = "wait" =>
       /\ answered \in Nat
       /\ wake = answered + Patience
       /\ answered < in.approval + MaxLatency
  /\ PollsAreSpaced
  /\ TimeoutMissesLateApprovalsOnly

LEMMA PatienceTyped ==
  ASSUME Types
  PROVE  /\ Patience \in Nat /\ in.approval \in Nat /\ MaxLatency \in Nat
         /\ NormalizePollInterval(in.interval) \in Nat
         /\ now \in Nat /\ deadline \in Nat /\ slowDowns \in Nat /\ wake \in Nat
<1>1. in \in Inputs /\ slowDowns \in Nat
  BY DEF Types, LoginTypes
<1>2. NormalizePollInterval(in.interval) \in Nat /\ in.approval \in Nat
  BY <1>1, InputFields
<1>3. Patience \in Nat
  BY <1>1, <1>2 DEF Patience, SlowDown
<1>. QED
  BY <1>1, <1>2, <1>3, MaxLatencyAssumption DEF Types, LoginTypes

\* A step that leaves the polls alone and does not end in a timeout.
LEMMA ElsewhereKeeps ==
  ASSUME Types, PollInv, in' = in, slowDowns' = slowDowns, answered' = answered,
         \/ pc \in {"probe", "verify", "found"} /\ pc' \in {"probe", "verify", "found"}
         \/ pc' \in {"prompt", "store", "done"}
         \/ pc' = "failed" /\ reason' # "timeout"
  PROVE  PollInv'
  BY DEF PollInv, PollsAreSpaced, TimeoutMissesLateApprovalsOnly

LEMMA StartKeeps ==
  ASSUME Types, PollInv, RequestDeviceCode  PROVE PollInv'
<1>1. slowDowns = 0 /\ answered = NotYet /\ pc' = "poll"
  BY DEF PollInv, RequestDeviceCode
<1>2. Patience' = Patience /\ in' = in
  BY DEF RequestDeviceCode, Patience
<1>3. NormalizePollInterval(in.interval) \in Nat
  BY PatienceTyped
<1>4. interval' = Patience
  BY <1>1, <1>3 DEF RequestDeviceCode, Patience, SlowDown
<1>. QED
  BY <1>1, <1>2, <1>4
     DEF RequestDeviceCode, PollInv, PollsAreSpaced, TimeoutMissesLateApprovalsOnly

\* The server said "not yet" to a poll, and how long to wait.
LEMMA PauseKeeps ==
  ASSUME Types, PollInv, NEW d \in 0 .. MaxLatency, Answered(d), now < in.approval,
         slowDowns' \in Nat, Pause(Patience'), in' = in
  PROVE  PollInv'
<1>1. /\ pc' = "wait" /\ interval' = Patience' /\ wake' = now' + Patience'
      /\ answered' = now + d /\ now' = now + d
  BY DEF Pause, Answered
<1>2. /\ now \in Nat /\ in.approval \in Nat /\ MaxLatency \in Nat
  BY PatienceTyped
<1>3. answered' \in Nat /\ answered' < in.approval + MaxLatency
  BY <1>1, <1>2
<1>. QED
  BY <1>1, <1>3 DEF PollInv, PollsAreSpaced, TimeoutMissesLateApprovalsOnly

LEMMA PollKeeps ==
  ASSUME Types, PollInv, NEW d \in 0 .. MaxLatency,
         \/ Pending(d) \/ SlowedDown(d) \/ Refused(d)
         \/ \E refresh \in BOOLEAN : Granted(d, refresh)
  PROVE  PollInv'
<1>1. pc = "poll" /\ Answered(d) /\ in' = in
  BY DEF Pending, SlowedDown, Refused, Granted, Answered
<1>2. /\ interval = Patience /\ slowDowns \in Nat
      /\ NormalizePollInterval(in.interval) \in Nat
  BY <1>1, PatienceTyped DEF PollInv
<1>3. CASE Pending(d)
  <2>1. Patience' = Patience /\ slowDowns' = slowDowns
    BY <1>1, <1>3 DEF Pending, Patience
  <2>. QED
    BY <1>1, <1>2, <1>3, <2>1, PauseKeeps DEF Pending
<1>4. CASE SlowedDown(d)
  <2>1. slowDowns' = slowDowns + 1 /\ slowDowns' \in Nat
    BY <1>2, <1>4 DEF SlowedDown
  <2>2. Patience' = Patience + SlowDown
    BY <1>1, <1>2, <2>1 DEF Patience, SlowDown
  <2>. QED
    BY <1>1, <1>2, <1>4, <2>1, <2>2, PauseKeeps DEF SlowedDown
<1>5. CASE Refused(d)
  BY <1>1, <1>5 DEF Refused, LoginFails, PollInv, PollsAreSpaced, TimeoutMissesLateApprovalsOnly
<1>6. CASE \E refresh \in BOOLEAN : Granted(d, refresh)
  BY <1>1, <1>6 DEF Granted, PollInv, PollsAreSpaced, TimeoutMissesLateApprovalsOnly
<1>. QED
  BY <1>3, <1>4, <1>5, <1>6

LEMMA TimersKeep ==
  ASSUME Types, PollInv, Cancelled \/ TimerFires \/ TimesOut  PROVE PollInv'
<1>1. Patience' = Patience /\ in' = in /\ answered' = answered /\ slowDowns' = slowDowns
  BY DEF Cancelled, TimerFires, TimesOut, Patience
<1>2. CASE Cancelled
  BY <1>1, <1>2, ElsewhereKeeps DEF Cancelled, LoginFails
<1>3. CASE TimerFires
  <2>1. pc = "wait" /\ pc' = "poll" /\ now' = wake /\ interval' = interval
    BY <1>3 DEF TimerFires
  <2>2. /\ Patience \in Nat /\ answered \in Nat /\ wake = answered + Patience
        /\ interval = Patience
    BY <2>1, PatienceTyped DEF PollInv
  <2>. QED
    BY <1>1, <2>1, <2>2 DEF PollInv, PollsAreSpaced, TimeoutMissesLateApprovalsOnly
<1>4. CASE TimesOut
  <2>1. /\ pc = "wait" /\ pc' = "failed" /\ deadline' = deadline /\ deadline <= wake
    BY <1>4 DEF TimesOut, LoginFails
  <2>2. /\ wake = answered + Patience /\ answered < in.approval + MaxLatency
        /\ answered \in Nat
    BY <2>1 DEF PollInv
  <2>3. deadline' < in'.approval + Patience' + MaxLatency
    BY <1>1, <2>1, <2>2, PatienceTyped
  <2>. QED
    BY <2>1, <2>3 DEF PollInv, PollsAreSpaced, TimeoutMissesLateApprovalsOnly
<1>. QED
  BY <1>2, <1>3, <1>4

-----------------------------------------------------------------------------
(* What is stored: the profile of a finished login is the one Store wrote. *)

StoreInv ==
  /\ apiURL = LoginAPIURL(in)
  /\ StoredLoginIsWhole

LEMMA StoreKeeps ==
  ASSUME Types, StoreInv, NEW ws, NEW expires, Store(ws, expires)
  PROVE  StoreInv'
<1>1. /\ profile' = LoggedIn(ws, expires) /\ in' = in /\ grant' = grant
      /\ apiURL' = apiURL
  BY DEF Store, discovered
<1>2. StoredURL = LoginAPIURL(in)
  BY DEF StoreInv, StoredURL
<1>3. /\ profile'.url = LoginAPIURL(in)
      /\ profile'.access = NewToken(profile'.issuer)
      /\ grant = "refresh" => profile'.refresh = NewToken(profile'.issuer)
  BY <1>1, <1>2 DEF LoggedIn
<1>. QED
  BY <1>1, <1>3 DEF StoreInv, StoredLoginIsWhole

\* A login that does not store keeps what is to be stored.
LEMMA NotStoring ==
  ASSUME StoreInv, in' = in, apiURL' = apiURL, pc' # "done"
  PROVE  StoreInv'
  BY DEF StoreInv, StoredLoginIsWhole

-----------------------------------------------------------------------------
LoginInv == Types /\ DiscoveryInv /\ PollInv /\ StoreInv

\* The endpoints outlive the discovery.
LEMMA SettledKeeps ==
  ASSUME DiscoveryInv, pc \notin {"probe", "verify", "failed", "done"},
         pc' \notin {"probe", "verify", "found"}, meta' = meta
  PROVE  DiscoveryInv'
  BY DEF DiscoveryInv, Probing, LegacyOnlyWithoutMetadata, IssuerVouches, OnIssuerOrigin

LEMMA InitHolds == ASSUME Init PROVE LoginInv
<1>1. /\ in \in Inputs /\ LoginAPIURL(in) \in URL /\ in.profile \in Profile
  BY InputFields DEF Init
<1>2. DiscoveryTypes
  <2>1. <<>> \in Seq(HeardEntry)
    OBVIOUS
  <2>2. heard \in Seq(HeardEntry)
    BY <2>1 DEF Init, DiscoveryInit
  <2>3. claimed = NoMeta /\ meta = NoMeta /\ tried = 1 /\ apiURL \in URL
    <3>1. DiscoveryInit /\ apiURL = LoginAPIURL(in)
      BY DEF Init
    <3>. QED
      BY <1>1, <3>1 DEF DiscoveryInit
  <2>4. discoveryErr \in BOOLEAN /\ legacy \in BOOLEAN
    BY DEF Init, DiscoveryInit
  <2>5. pc \in Steps
    BY DEF Init, DiscoveryInit, Steps
  <2>. QED
    BY <2>2, <2>3, <2>4, <2>5 DEF DiscoveryTypes
<1>3. LoginTypes
  BY <1>1 DEF Init, LoginTypes, Grants
<1>4. DiscoveryInv
  <2>1. HeardUpTo(0, heard)
    BY DEF HeardUpTo
  <2>2. NoFailureIn(heard)
    <3>1. heard = <<>>
      BY DEF Init, DiscoveryInit
    <3>2. DOMAIN heard = {}
      BY <3>1
    <3>. QED
      BY <3>2 DEF NoFailureIn
  <2>3. tried - 1 = 0
    <3>1. tried = 1
      BY DEF Init, DiscoveryInit
    <3>. QED
      BY <3>1
  <2>. QED
    BY <2>1, <2>2, <2>3 DEF Init, DiscoveryInit, DiscoveryInv, Probing, LegacyOnlyWithoutMetadata,
       IssuerVouches
<1>5. PollInv
  BY DEF Init, DiscoveryInit, PollInv, PollsAreSpaced, TimeoutMissesLateApprovalsOnly
<1>6. StoreInv
  BY DEF Init, DiscoveryInit, StoreInv, StoredLoginIsWhole
<1>. QED
  BY <1>2, <1>3, <1>4, <1>5, <1>6 DEF LoginInv, Types

LEMMA DiscoveryKeeps == ASSUME LoginInv, Discovery PROVE LoginInv'
<1>1. Types /\ DiscoveryTypes /\ DiscoveryInv /\ PollInv /\ StoreInv /\ Discover
  BY DEF LoginInv, Types, Discovery
<1>2. pc = "verify" => claimed \in Documents
  BY <1>1 DEF DiscoveryInv
<1>3. DiscoveryTypes'
  BY <1>1, <1>2, DiscoverTypes
<1>4. DiscoveryInv'
  BY <1>1, ProbeKeeps, VerifyKeeps DEF Discover
<1>5. PICK url \in URL, answer \in Answers : Outcome(url, answer) /\ apiURL' = apiURL
  BY <1>1, <1>2, DiscoverAsks
<1>6. pc \in {"probe", "verify"} /\ pc' \in {"probe", "verify", "found", "failed"}
  <2>1. pc \in {"probe", "verify"}
    BY <1>1 DEF Discover, Probe, ProbeOutage, ProbeAbsent, ProbeOwn, ProbeDelegated, Verify
  <2>2. pc' \in {"probe", "verify", "found", "failed"}
    BY <1>1, <1>5, NextCandidateTypes DEF Outcome, Found
  <2>. QED
    BY <2>1, <2>2
<1>7. LoginTypes'
  BY <1>1, <1>6 DEF Discovery, Types, LoginTypes, timeVars
<1>8. PollInv'
  <2>1. in' = in /\ slowDowns' = slowDowns /\ answered' = answered
    BY DEF Discovery, timeVars
  <2>2. pc' = "failed" => reason' # "timeout"
    BY DEF Discovery
  <2>. QED
    BY <1>1, <1>6, <2>1, <2>2, ElsewhereKeeps
<1>9. StoreInv'
  BY <1>1, <1>5, <1>6, NotStoring DEF Discovery
<1>. QED
  BY <1>3, <1>4, <1>7, <1>8, <1>9 DEF LoginInv, Types

LEMMA PollingKeeps ==
  ASSUME LoginInv,
         RequestDeviceCode \/ Poll \/ Cancelled \/ TimerFires \/ TimesOut
  PROVE  LoginInv'
<1>1. Types /\ DiscoveryInv /\ PollInv /\ StoreInv
  BY DEF LoginInv
<1>2. /\ pc \in {"found", "poll", "wait"} /\ pc' \in {"poll", "wait", "prompt", "store", "failed"}
      /\ meta' = meta /\ in' = in /\ apiURL' = apiURL
  BY DEF RequestDeviceCode, Poll, Pending, SlowedDown, Refused, Granted, Pause,
     Answered, Cancelled, TimerFires, TimesOut, LoginFails, discovered
<1>3. DiscoveryInv' /\ StoreInv'
  BY <1>1, <1>2, SettledKeeps, NotStoring
<1>4. CASE RequestDeviceCode
  BY <1>1, <1>3, <1>4, RequestDeviceCodeTypes, StartKeeps DEF LoginInv
<1>5. CASE Poll
  BY <1>1, <1>3, <1>5, PollTypes, PollKeeps DEF LoginInv, Poll
<1>6. CASE Cancelled \/ TimerFires \/ TimesOut
  BY <1>1, <1>3, <1>6, TimerTypes, TimersKeep DEF LoginInv
<1>. QED
  BY <1>4, <1>5, <1>6

LEMMA FinishKeeps ==
  ASSUME LoginInv, Finish \/ NoDeviceCode  PROVE LoginInv'
<1>1. Types /\ DiscoveryInv /\ PollInv /\ StoreInv
  BY DEF LoginInv
<1>2. /\ pc \in {"found", "prompt", "store"} /\ pc' \in {"done", "failed"}
      /\ meta' = meta /\ in' = in /\ slowDowns' = slowDowns /\ answered' = answered
      /\ apiURL' = apiURL
  BY DEF Finish, StoreLogin, StoreWithWorkspace, Store, PromptFails, StoreFails,
     NoDeviceCode, LoginFails, discovered, timeVars
<1>3. pc' = "done" \/ (pc' = "failed" /\ reason' # "timeout")
  BY DEF Finish, StoreLogin, StoreWithWorkspace, Store, PromptFails, StoreFails,
     NoDeviceCode, LoginFails
<1>4. Types' /\ DiscoveryInv' /\ PollInv'
  BY <1>1, <1>2, <1>3, FinishTypes, SettledKeeps, ElsewhereKeeps
<1>5. StoreInv'
  BY <1>1, <1>2, StoreKeeps, NotStoring
     DEF Finish, StoreLogin, StoreWithWorkspace, PromptFails, StoreFails, NoDeviceCode,
         LoginFails
<1>. QED
  BY <1>4, <1>5 DEF LoginInv

LEMMA StutterKeeps == ASSUME LoginInv, UNCHANGED vars PROVE LoginInv'
<1>1. Types'
  BY DEF LoginInv, Types, DiscoveryTypes, LoginTypes, vars, discoveryVars, loginVars, timeVars
<1>2. DiscoveryInv'
  BY DEF LoginInv, DiscoveryInv, Probing, HeardUpTo, NoFailureIn, LegacyOnlyWithoutMetadata,
     IssuerVouches, OnIssuerOrigin, vars, discoveryVars
<1>3. PollInv'
  BY DEF LoginInv, PollInv, PollsAreSpaced, TimeoutMissesLateApprovalsOnly, Patience,
     vars, discoveryVars, loginVars, timeVars
<1>4. StoreInv'
  BY DEF LoginInv, StoreInv, StoredLoginIsWhole, vars, discoveryVars, loginVars
<1>. QED
  BY <1>1, <1>2, <1>3, <1>4 DEF LoginInv

LEMMA LoginInvariant == Spec => []LoginInv
<1>1. Init => LoginInv
  BY InitHolds
<1>2. LoginInv /\ [Next]_vars => LoginInv'
  BY DiscoveryKeeps, PollingKeeps, FinishKeeps, StutterKeeps DEF Next, Ended
<1>. QED
  BY <1>1, <1>2, PTL DEF Spec

\* Every login is typed.
THEOREM LoginTypeCorrect == Spec => []TypeOK
<1>1. LoginInv => TypeOK
  BY TypesAre DEF LoginInv
<1>. QED
  BY <1>1, LoginInvariant, PTL

\* The endpoints a login uses are the issuer's own word, or the legacy ones of
\* a deployment that surely has no metadata, and its requests stay on the
\* issuer's origin (ResolveOAuth, fetchOAuthMetadataWithDelegation).
THEOREM EndpointsAreVouched == Spec => []DiscoveryIsSound
<1>1. LoginInv => DiscoveryIsSound
  <2>1. SUFFICES ASSUME LoginInv PROVE PostsStayHome
    BY DEF LoginInv, DiscoveryInv, DiscoveryIsSound
  <2>2. SUFFICES ASSUME pc \in {"poll", "wait", "prompt", "store", "done"}
                 PROVE  /\ meta.device.host = meta.issuer.host
                        /\ meta.token.host = meta.issuer.host
    BY DEF PostsStayHome
  <2>3. meta \in Document /\ OnIssuerOrigin(meta)
    BY <2>1, <2>2 DEF LoginInv, DiscoveryInv, Probing
  <2>. QED
    BY <2>3, NoURLAssumption DEF OnIssuerOrigin, Document
<1>. QED
  BY <1>1, LoginInvariant, PTL

\* The polls are as far apart as the server asked, and a login that times out
\* was polling often enough to see every approval but one of the last interval.
THEOREM PollsKeepTime == Spec => []PollsKeepPace
<1>1. LoginInv => PollsKeepPace
  BY DEF LoginInv, PollInv, PollsKeepPace
<1>. QED
  BY <1>1, LoginInvariant, PTL

\* The tokens a login stores belong to the URL and the issuer stored with them.
THEOREM LoginsAreWhole == Spec => []StoredLoginIsWhole
<1>1. LoginInv => StoredLoginIsWhole
  BY DEF LoginInv, StoreInv
<1>. QED
  BY <1>1, LoginInvariant, PTL
=============================================================================
