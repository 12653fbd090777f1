----------------------------- MODULE DeviceLogin -----------------------------
(***************************************************************************)
(* `auth login' and `signup' (internal/cmd/login.go): find the             *)
(* authorization server, ask it for a device code, poll its token endpoint *)
(* until the user has approved the code in a browser, and store the tokens *)
(* in the selected profile.  What other processes do to the config file    *)
(* meanwhile is the subject of ProfileStore.                               *)
(*                                                                         *)
(* Times are in seconds since the polling began.  The server and the       *)
(* user's browser are not part of the repository.                          *)
(***************************************************************************)
EXTENDS OAuthDiscovery

CONSTANTS
  NotYet,     \* the server has not answered a poll
  Inputs,     \* the profile, environment, flags and server a run is given
  MaxLatency  \* bound on the duration of a request to the token endpoint

ASSUME MaxLatencyAssumption == MaxLatency \in Nat
ASSUME NotYetAssumption == NotYet \notin Nat

\* A stored OAuth token is known by the issuer that granted it and by whether
\* it was there before this login.
OldToken(issuer) == [by |-> issuer, fresh |-> FALSE]
NewToken(issuer) == [by |-> issuer, fresh |-> TRUE]
NoToken == [by |-> NoURL, fresh |-> FALSE]
Token == [by: URL \cup {NoURL}, fresh: BOOLEAN]

Profile ==
  [url: URL \cup {NoURL}, ws: {"none", "kept", "chosen"},
   issuer: URL \cup {NoURL}, access: Token, refresh: Token, expiry: Token]

\* --workspace-id and --prompt-workspace; the duration of --timeout, 0 if it
\* is not given; when the user approves the code.
Input ==
  [profile: Profile, envURL: URL \cup {NoURL}, flagURL: URL \cup {NoURL},
   wsFlag: BOOLEAN, prompt: BOOLEAN, timeout: Nat, approval: Nat,
   expiresIn: Nat, interval: Nat]

ASSUME InputsAssumption == Inputs \subseteq Input

VARIABLES
  in,        \* the inputs
  profile,   \* the selected profile in the config file
  now,       \* the time
  deadline,  \* when pollCtx is cancelled
  interval,  \* between two polls
  wake,      \* when the timer of the poll loop fires
  grant,     \* the token response, "none" before there is one
  slowDowns, \* the server's slow_down answers
  answered,  \* when the server last answered a poll, or NotYet
  reason     \* why the login failed

timeVars == <<now, deadline, interval, wake, slowDowns, answered>>
loginVars == <<in, profile, timeVars, grant, reason>>
vars == <<discoveryVars, loginVars>>

Grants == {"none", "access", "refresh"}

DefaultPollInterval == 5
SlowDown == 5
Grace == 10

NormalizePollInterval(seconds) ==
  IF seconds < DefaultPollInterval THEN DefaultPollInterval ELSE seconds

\* --api-url, LANGSMITH_ENDPOINT, the profile's URL, the default.
LoginAPIURL(i) ==
  NormalizeURL(CASE i.flagURL # NoURL -> i.flagURL
                 [] i.flagURL = NoURL /\ i.envURL # NoURL -> i.envURL
                 [] i.flagURL = NoURL /\ i.envURL = NoURL /\ i.profile.url # NoURL ->
                      i.profile.url
                 [] OTHER -> DefaultURL)

Init ==
  /\ in \in Inputs
  /\ profile = in.profile
  /\ apiURL = LoginAPIURL(in)
  /\ now = 0 /\ deadline = 0 /\ interval = 0 /\ wake = 0
  /\ grant = "none"
  /\ slowDowns = 0
  /\ answered = NotYet
  /\ reason = ""
  /\ DiscoveryInit

Discovery ==
  /\ Discover
  /\ reason' = IF pc' = "failed" THEN "discovery" ELSE reason
  /\ UNCHANGED <<in, profile, timeVars, grant>>

LoginFails(why) ==
  /\ pc' = "failed"
  /\ reason' = why

\* POST to the device authorization endpoint, and the start of the wait.
RequestDeviceCode ==
  /\ pc = "found"
  /\ pc' = "poll"
  /\ deadline' = IF in.timeout > 0 THEN in.timeout ELSE in.expiresIn + Grace
  /\ interval' = NormalizePollInterval(in.interval)
  /\ heard' = <<>>
  /\ UNCHANGED <<apiURL, tried, discoveryErr, claimed, meta, legacy, in, profile,
                 now, wake, grant, slowDowns, answered, reason>>

\* The request fails or its response is incomplete.
NoDeviceCode ==
  /\ pc = "found"
  /\ LoginFails("device")
  /\ UNCHANGED <<apiURL, tried, discoveryErr, claimed, meta, legacy, heard,
                 in, profile, timeVars, grant>>

discovered == <<apiURL, tried, discoveryErr, claimed, meta, legacy, heard>>

\* A poll is answered after d seconds; the server decided when it was sent.
Answered(d) ==
  /\ pc = "poll"
  /\ now < deadline
  /\ now + d <= deadline
  /\ now' = now + d
  /\ answered' = now + d
  /\ UNCHANGED <<discovered, in, profile, deadline>>

Pause(newInterval) ==
  /\ pc' = "wait"
  /\ interval' = newInterval
  /\ wake' = now' + newInterval
  /\ UNCHANGED <<grant, reason>>

Pending(d) ==
  /\ Answered(d)
  /\ now < in.approval
  /\ Pause(interval)
  /\ UNCHANGED slowDowns

SlowedDownM(d) ==
  /\ Answered(d)
  /\ now < in.approval
  /\ slowDowns' = slowDowns + 1
  /\ Pause(interval)

SlowedDown(d) ==
  /\ Answered(d)
  /\ now < in.approval
  /\ slowDowns' = slowDowns + 1
  /\ Pause(interval + SlowDown)

\* After the token the workspace is asked for, if it is to be.
Granted(d, refresh) ==
  /\ Answered(d)
  /\ now >= in.approval
  /\ grant' = IF refresh THEN "refresh" ELSE "access"
  /\ pc' = IF in.prompt /\ ~in.wsFlag THEN "prompt" ELSE "store"
  /\ UNCHANGED <<interval, wake, slowDowns, reason>>

\* access_denied, expired_token, invalid_grant, any other error, a lost or
\* undecodable response: pollDeviceToken gives up at once.
Refused(d) ==
  /\ Answered(d)
  /\ LoginFails("refused")
  /\ UNCHANGED <<interval, wake, slowDowns, grant>>

CancelledM ==
  /\ pc = "poll"
  /\ now' = deadline
  /\ UNCHANGED <<discovered, pc, reason, in, profile, deadline, interval, wake,
                 grant, slowDowns, answered>>

\* The context ends while a request is under way.
Cancelled ==
  /\ pc = "poll"
  /\ now' = deadline
  /\ LoginFails("cancelled")
  /\ UNCHANGED <<discovered, in, profile, deadline, interval, wake, grant,
                 slowDowns, answered>>

TimerFires ==
  /\ pc = "wait"
  /\ wake <= deadline
  /\ now' = wake
  /\ pc' = "poll"
  /\ UNCHANGED <<discovered, in, profile, deadline, interval, wake, grant,
                 slowDowns, answered, reason>>

TimesOut ==
  /\ pc = "wait"
  /\ deadline <= wake
  /\ now' = deadline
  /\ LoginFails("timeout")
  /\ UNCHANGED <<discovered, in, profile, deadline, interval, wake, grant,
                 slowDowns, answered>>

StoredURLM == IF in.profile.url = NoURL \/ in.flagURL # NoURL
                THEN apiURL ELSE in.profile.url

\* The URL the tokens are for replaces the profile's unless it is the same.
StoredURL == IF in.profile.url = NoURL \/ in.flagURL # NoURL \/ in.profile.url # apiURL
               THEN apiURL ELSE in.profile.url

\* An access token always, a refresh token and an expiry if the response has
\* them (applyTokenResponse).
LoggedIn(ws, expires) ==
  [url     |-> StoredURL,
   ws      |-> ws,
   issuer  |-> meta.issuer,
   access  |-> NewToken(meta.issuer),
   refresh |-> IF grant = "refresh" THEN NewToken(meta.issuer) ELSE in.profile.refresh,
   expiry  |-> IF expires THEN NewToken(meta.issuer) ELSE in.profile.expiry]

Store(ws, expires) ==
  /\ profile' = LoggedIn(ws, expires)
  /\ pc' = "done"
  /\ UNCHANGED <<discovered, in, timeVars, grant, reason>>

StoreLogin(expires) ==
  /\ pc = "store"
  /\ Store(IF in.wsFlag THEN "chosen" ELSE in.profile.ws, expires)

\* A terminal's user picks one; without a terminal the prompt is skipped.
StoreWithWorkspace(chosen, expires) ==
  /\ pc = "prompt"
  /\ Store(IF chosen THEN "chosen" ELSE in.profile.ws, expires)

\* An empty or an invalid answer: the tokens are dropped.
PromptFails ==
  /\ pc = "prompt"
  /\ LoginFails("workspace")
  /\ UNCHANGED <<discovered, in, profile, timeVars, grant>>

\* The config cannot be written.
StoreFails ==
  /\ pc = "store"
  /\ LoginFails("save")
  /\ UNCHANGED <<discovered, in, profile, timeVars, grant>>

Ended == pc \in {"done", "failed"} /\ UNCHANGED vars

Poll ==
  \E d \in 0 .. MaxLatency :
    \/ Pending(d) \/ SlowedDown(d) \/ Refused(d)
    \/ \E refresh \in BOOLEAN : Granted(d, refresh)

Finish ==
  \/ \E expires \in BOOLEAN : StoreLogin(expires)
  \/ \E chosen, expires \in BOOLEAN : StoreWithWorkspace(chosen, expires)
  \/ PromptFails \/ StoreFails

Next ==
  \/ Discovery \/ RequestDeviceCode \/ NoDeviceCode
  \/ Poll \/ Cancelled \/ TimerFires \/ TimesOut
  \/ Finish \/ Ended

\* The timers of the process go off: that of the poll loop and the deadline of
\* pollCtx.  Nothing is assumed of the server or of the user.
Timers == Cancelled \/ TimerFires \/ TimesOut

Spec == Init /\ [][Next]_vars /\ WF_vars(Timers)

-----------------------------------------------------------------------------
Steps == {"probe", "verify", "found", "poll", "wait", "prompt", "store", "done", "failed"}

\* Type correctness: the login's variables have the types of runLogin's.
TypeOK ==
  /\ in \in Inputs
  /\ apiURL \in URL
  /\ pc \in Steps
  /\ tried \in 1 .. 2
  /\ discoveryErr \in BOOLEAN /\ legacy \in BOOLEAN
  /\ claimed \in Documents \cup {NoMeta}
  /\ meta \in Document \cup {NoMeta}
  /\ heard \in Seq([at: URL, answer: Answers])
  /\ profile \in Profile
  /\ now \in Nat /\ deadline \in Nat /\ interval \in Nat /\ wake \in Nat
  /\ slowDowns \in Nat
  /\ answered \in Nat \cup {NotYet}
  /\ grant \in Grants
  /\ reason \in {"", "discovery", "device", "refused", "cancelled", "timeout",
                 "workspace", "save"}

\* The legacy endpoints are used only for a deployment that surely has no
\* metadata: every candidate was asked, and none failed with an outage or led to
\* an issuer that could not be confirmed (ResolveOAuth).
Failure(h) ==
  \/ h.answer = Outage
  \/ h.answer \in Documents /\ h.answer.issuer # h.at

LegacyOnlyWithoutMetadata ==
  pc = "found" /\ legacy =>
    /\ \A i \in DOMAIN Candidates(apiURL) :
         \E j \in DOMAIN heard : heard[j].at = Candidates(apiURL)[i]
    /\ \A j \in DOMAIN heard : ~Failure(heard[j])

\* The endpoints of a discovered server are what the issuer itself said, on the
\* issuer's own origin, and an issuer the deployment does not serve is reached
\* over https.
IssuerVouches ==
  pc = "found" /\ ~legacy =>
    /\ \E j \in DOMAIN heard : heard[j] = [at |-> meta.issuer, answer |-> meta]
    /\ \/ meta.issuer.host \in SecureHosts
       \/ \E i \in DOMAIN Candidates(apiURL) : meta.issuer = Candidates(apiURL)[i]

\* The device code and the token request only ever go to the issuer's origin.
PostsStayHome ==
  pc \in {"poll", "wait", "prompt", "store", "done"} =>
    meta.device.host = meta.issuer.host /\ meta.token.host = meta.issuer.host

\* Whatever the servers answer, what is used is what an issuer vouches for, on its
\* own origin, or the endpoints of a deployment that surely has no metadata.
DiscoveryIsSound == LegacyOnlyWithoutMetadata /\ IssuerVouches /\ PostsStayHome

\* The server is polled no faster than it asked to be: at least 5 seconds, its
\* own interval, and 5 more for every slow_down, after its last answer.
Patience == NormalizePollInterval(in.interval) + SlowDown * slowDowns

PollsAreSpaced ==
  pc = "poll" /\ answered # NotYet => now >= answered + Patience

\* A login that times out in the poll loop has missed no approval but one of
\* the last interval: it was polling often enough to see every earlier one.
TimeoutMissesLateApprovalsOnly ==
  pc = "failed" /\ reason = "timeout" => deadline < in.approval + Patience + MaxLatency

\* Polls are as far apart as the server asks, and not so far that an approval is
\* missed but one of the last interval.
PollsKeepPace == PollsAreSpaced /\ TimeoutMissesLateApprovalsOnly

\* What a login stores belongs together: the access token, the issuer, and the
\* URL of the deployment it was discovered from.  The refresh token is that of
\* this login whenever the server granted one.
StoredLoginIsWhole ==
  pc = "done" =>
    /\ profile.url = LoginAPIURL(in)
    /\ profile.access = NewToken(profile.issuer)
    /\ grant = "refresh" => profile.refresh = NewToken(profile.issuer)

\* Polling always ends, whatever the server does or fails to do.
PollingEnds == pc \in {"poll", "wait"} ~> pc \notin {"poll", "wait"}
=============================================================================
