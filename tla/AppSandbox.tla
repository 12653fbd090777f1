----------------------------- MODULE AppSandbox -----------------------------
(***************************************************************************)
(* The page `apps dev' serves (internal/cmd/apps_dev.go, the two HTML      *)
(* templates): the host page with its mode and route, the sandboxed frame  *)
(* the app runs in, the messages between the two, and the proxy that       *)
(* carries out the app's API calls.  When the page is loaded and left is   *)
(* up to AppsDev.                                                          *)
(***************************************************************************)
EXTENDS Naturals, Sequences

CONSTANTS
  Requests,  \* what an app may ask for
  MaxCalls,  \* bound on the calls apps make
  Starts     \* the situations `apps dev' is started in

\* A method the proxy allows or another; a path that is malformed, denied,
\* excepted from the denial, or neither.
ApiRequest ==
  [kind: {"api"}, method: {"allowed", "other"},
   path: {"malformed", "denied", "exception", "plain"}]

\* A file that may be saved, one that may not, one no message can carry.
Download == [kind: {"download"}, file: {"plain", "refused", "uncloneable"}]

ASSUME RequestsAssumption == Requests \subseteq ApiRequest \cup Download
ASSUME MaxCallsAssumption == MaxCalls \in Nat

CallIds == 1 .. MaxCalls
Modes == {"light", "dark"}
Routes == {"/", "/runs", "long"}     \* "long" is over the limit of 2048 bytes
Metadata == [mode: Modes, route: Routes]
NoRoute == ""                        \* not set; a handler takes it for "/"
NoMetadata == [mode |-> NoRoute, route |-> NoRoute]

\* What localStorage and the opened URL say, whether the directory holds a
\* bundle, and a bound on what users, apps, builds and accidents do.
Deeds == {"mode", "route", "history", "call", "reload", "build", "accident", "interrupt"}
Start == [mode: Modes, route: Routes, built: 0 .. 1, budget: [Deeds -> Nat]]
ASSUME StartsAssumption == Starts \subseteq Start

VARIABLES
  mode,     \* of the host page, kept in localStorage
  history,  \* the ?appRoute= of the tab's history entries
  at,       \* the current one
  frame,    \* the sandboxed frame
  toFrame,  \* messages posted to the frame
  toHost,   \* messages posted by the frame
  calls,    \* by call id: the promise, and where the request for it is
  budget    \* what may still be done

hostVars == <<mode, history, at>>
sandboxVars == <<hostVars, frame, toFrame, toHost, calls, budget>>

Spend(deed) ==
  /\ budget[deed] > 0
  /\ budget' = [budget EXCEPT ![deed] = @ - 1]

-----------------------------------------------------------------------------
NoFrame ==
  [stage |-> "none", theme |-> FALSE, data |-> FALSE, meta |-> NoMetadata,
   rendered |-> NoMetadata]

NoRequest == [kind |-> "none"]
NoCall ==
  [request |-> NoRequest, app |-> "unused", where |-> "nowhere", ok |-> FALSE,
   got |-> 0, runs |-> 0, paged |-> FALSE]

SandboxInit(start) ==
  /\ mode = start.mode
  /\ history = <<start.route>>
  /\ at = 1
  /\ frame = NoFrame
  /\ toFrame = <<>> /\ toHost = <<>>
  /\ calls = [c \in CallIds |-> NoCall]
  /\ budget = start.budget

FitsRouteLimit(route) == route # "long"

CurrentRoute == IF FitsRouteLimit(history[at]) THEN history[at] ELSE "/"
HostMetadata == [mode |-> mode, route |-> CurrentRoute]

\* A message posted before the frame listens is lost.
Post(messages) ==
  toFrame' = IF frame.stage = "ready" THEN toFrame \o messages ELSE toFrame

\* The metadata as it is after the step.
PostMetadata == Post(<<[type |-> "metadata", metadata |-> HostMetadata']>>)

-----------------------------------------------------------------------------
\* The host page.

SetMode(next) ==
  /\ Spend("mode")
  /\ frame.stage # "none" /\ next # mode
  /\ mode' = next
  /\ UNCHANGED <<history, at, frame, toHost, calls>>
  /\ PostMetadata

\* The Back and Forward buttons.
PopState(to) ==
  /\ Spend("history")
  /\ to \in {at - 1, at + 1} \cap DOMAIN history
  /\ at' = to
  /\ UNCHANGED <<mode, history, frame, toHost, calls>>
  /\ PostMetadata

\* The new entry replaces the current one or is put after it.
SetRoute(next, replace) ==
  LET route == IF next = NoRoute THEN "/" ELSE next
  IN IF ~FitsRouteLimit(route) \/ route = history[at]
       THEN UNCHANGED <<history, at, toFrame>>
       ELSE /\ IF replace \/ route = CurrentRoute
                 THEN /\ history' = [history EXCEPT ![at] = route]
                      /\ at' = at
                 ELSE /\ history' = Append(SubSeq(history, 1, at), route)
                      /\ at' = at + 1
            /\ PostMetadata

Response(c, ok) == [type |-> "response", id |-> c, ok |-> ok]

DownloadAnswerM(c) ==
  IF calls[c].request.file = "plain" THEN <<Response(c, TRUE)>> ELSE <<>>

DownloadAnswer(c) == <<Response(c, calls[c].request.file = "plain")>>

Greeting ==
  <<[type |-> "theme"], [type |-> "metadata", metadata |-> HostMetadata],
    [type |-> "data"]>>

HostHears ==
  /\ toHost # <<>>
  /\ toHost' = Tail(toHost)
  /\ UNCHANGED <<mode, frame, budget>>
  /\ LET msg == Head(toHost)
     IN \/ /\ msg.type = "ready"
           /\ Post(Greeting)
           /\ UNCHANGED <<history, at, calls>>
        \/ /\ msg.type = "route"
           /\ SetRoute(msg.route, msg.replace)
           /\ UNCHANGED calls
        \/ /\ msg.type = "api"
           /\ calls' = [calls EXCEPT ![msg.id].where = "fetch"]
           /\ UNCHANGED <<history, at, toFrame>>
        \/ /\ msg.type = "download"
           /\ Post(DownloadAnswer(msg.id))
           /\ calls' = [calls EXCEPT ![msg.id].where = "posted"]
           /\ UNCHANGED <<history, at>>

\* The answer of the proxy reaches the host page, if it is still there.
HostAnswers(c) ==
  /\ calls[c].where = "answered"
  /\ IF calls[c].paged
       THEN /\ Post(<<Response(c, calls[c].ok)>>)
            /\ calls' = [calls EXCEPT ![c].where = "posted"]
       ELSE /\ calls' = [calls EXCEPT ![c].where = "over"]
            /\ UNCHANGED toFrame
  /\ UNCHANGED <<hostVars, frame, toHost, budget>>

-----------------------------------------------------------------------------
\* The frame and the app in it.

\* The app's modules run, which may set a route, and the host hears of it.
FrameBoots(early) ==
  /\ frame.stage = "booting"
  /\ frame' = [frame EXCEPT !.stage = "ready"]
  /\ IF early
       THEN /\ Spend("route")
            /\ toHost' = toHost \o <<[type |-> "route", route |-> "/runs", replace |-> TRUE],
                                     [type |-> "ready"]>>
       ELSE /\ toHost' = Append(toHost, [type |-> "ready"])
            /\ UNCHANGED budget
  /\ UNCHANGED <<hostVars, toFrame, calls>>

AppSetsRoute(route, replace) ==
  /\ frame.stage = "ready"
  /\ Spend("route")
  /\ toHost' = Append(toHost, [type |-> "route", route |-> route, replace |-> replace])
  /\ UNCHANGED <<hostVars, frame, toFrame, calls>>

\* call() and download(): a message nothing can carry rejects at once.
AppCalls(c, request) ==
  /\ frame.stage = "ready"
  /\ Spend("call")
  /\ calls[c].app = "unused"
  /\ \A d \in CallIds : d < c => calls[d].app # "unused"
  /\ IF request.kind = "download" /\ request.file = "uncloneable"
       THEN /\ calls' = [calls EXCEPT ![c].request = request, ![c].app = "failed",
                                      ![c].where = "over"]
            /\ UNCHANGED toHost
       ELSE /\ calls' = [calls EXCEPT ![c].request = request, ![c].app = "pending",
                                      ![c].where = "queued", ![c].paged = TRUE]
            /\ toHost' = Append(toHost, [type |-> request.kind, id |-> c])
  /\ UNCHANGED <<hostVars, frame, toFrame>>

\* The app renders once it has a theme, metadata and data.
MaybeRender(f) ==
  IF f.theme /\ f.data /\ f.meta # NoMetadata
    THEN [f EXCEPT !.rendered = f.meta] ELSE f

\* The promise of the call with this id settles unless its handler is gone.
Settle(c, ok) ==
  IF calls[c].app = "pending"
    THEN [calls EXCEPT ![c].where = "over",
                       ![c].app = IF ok THEN "ok" ELSE "failed",
                       ![c].got = c]
    ELSE [calls EXCEPT ![c].where = "over"]

FrameHears ==
  /\ toFrame # <<>>
  /\ toFrame' = Tail(toFrame)
  /\ LET msg == Head(toFrame)
     IN \/ /\ msg.type = "theme"
           /\ frame' = MaybeRender([frame EXCEPT !.theme = TRUE])
           /\ UNCHANGED calls
        \/ /\ msg.type = "metadata"
           /\ frame' = MaybeRender([frame EXCEPT !.meta = msg.metadata])
           /\ UNCHANGED calls
        \/ /\ msg.type = "data"
           /\ frame' = IF frame.data THEN frame
                                     ELSE MaybeRender([frame EXCEPT !.data = TRUE])
           /\ UNCHANGED calls
        \/ /\ msg.type = "response"
           /\ calls' = Settle(msg.id, msg.ok)
           /\ UNCHANGED frame
  /\ UNCHANGED <<hostVars, toHost, budget>>

\* Ten seconds without an answer; a download waits for ever.
CallTimesOut(c) ==
  /\ calls[c].app = "pending"
  /\ calls[c].request.kind = "api"
  /\ calls' = [calls EXCEPT ![c].app = "timedout"]
  /\ UNCHANGED <<hostVars, frame, toFrame, toHost, budget>>

-----------------------------------------------------------------------------
\* The proxy.

Permitted(request) ==
  request.method = "allowed" /\ request.path \in {"exception", "plain"}

Answer(c, ok, runs) ==
  calls' = [calls EXCEPT ![c].where = "answered", ![c].ok = ok, ![c].runs = @ + runs]

ProxyRefuses(c) ==
  /\ calls[c].where = "fetch"
  /\ ~Permitted(calls[c].request)
  /\ Answer(c, FALSE, 0)
  /\ UNCHANGED <<hostVars, frame, toFrame, toHost, budget>>

ProxyForwards(c) ==
  /\ calls[c].where = "fetch"
  /\ Permitted(calls[c].request)
  /\ calls' = [calls EXCEPT ![c].where = "api"]
  /\ UNCHANGED <<hostVars, frame, toFrame, toHost, budget>>

AttemptsM == 3

\* RawDo does not retry.
Attempts == 1

\* The API answers, or does not; what it refuses or leaves unanswered it may
\* have carried out all the same.
ApiAnswers(c, ok) ==
  /\ calls[c].where = "api"
  /\ \E runs \in (IF ok THEN 1 ELSE 0) .. Attempts : Answer(c, ok, runs)
  /\ UNCHANGED <<hostVars, frame, toFrame, toHost, budget>>

\* There is no server to answer (any more).
FetchFails(c) ==
  /\ calls[c].where \in {"fetch", "api"}
  /\ \E runs \in 0 .. (IF calls[c].where = "api" THEN Attempts ELSE 0) : Answer(c, FALSE, runs)
  /\ UNCHANGED <<hostVars, frame, toFrame, toHost, budget>>

-----------------------------------------------------------------------------
\* Its page gone, a call is pending no more, and no answer finds it.
Orphaned(call) ==
  [call EXCEPT !.paged = FALSE,
               !.app = IF call.app = "pending" THEN "gone" ELSE call.app,
               !.where = IF call.where \in {"queued", "posted"} THEN "over" ELSE call.where]

LeavePage ==
  /\ frame' = NoFrame
  /\ toFrame' = <<>> /\ toHost' = <<>>
  /\ calls' = [c \in CallIds |-> Orphaned(calls[c])]

EnterPage == frame' = [NoFrame EXCEPT !.stage = "booting"]

SandboxActs ==
  \/ HostHears \/ FrameHears
  \/ \E next \in Modes : SetMode(next)
  \/ \E to \in DOMAIN history : PopState(to)
  \/ \E early \in BOOLEAN : FrameBoots(early)
  \/ \E route \in Routes \cup {NoRoute}, replace \in BOOLEAN : AppSetsRoute(route, replace)
  \/ \E c \in CallIds, request \in Requests : AppCalls(c, request)
  \/ \E c \in CallIds : HostAnswers(c) \/ CallTimesOut(c)

ProxyActs ==
  \E c \in CallIds :
    \/ ProxyRefuses(c) \/ ProxyForwards(c)
    \/ \E ok \in BOOLEAN : ApiAnswers(c, ok)
=============================================================================
