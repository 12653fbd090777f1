------------------------------- MODULE AppsDev -------------------------------
(***************************************************************************)
(* `apps dev' (internal/cmd/apps_dev.go, runAppsDev): a local server that  *)
(* shows the bundle in the app's directory, the build tool that rewrites   *)
(* the bundle meanwhile, and the browser tab that polls for rebuilds and   *)
(* reloads.                                                                *)
(***************************************************************************)
EXTENDS AppSandbox, FiniteSets

CONSTANT MaxPolls  \* bound on the polls under way at once

ASSUME MaxPollsAssumption == MaxPolls \in Nat \ {0}

-----------------------------------------------------------------------------
(***************************************************************************)
(* The directory of a custom app while a build tool rewrites it: the       *)
(* entrypoint (dist/bundle.js) and a second file of the bundle.  A file    *)
(* holds the number of the build that wrote it, 0 if it does not exist;    *)
(* the number also stands for its modification time.                       *)
(*                                                                         *)
(* The build tool (`npm run watch', or the developer's own) is not part of *)
(* the repository: as internal/cmd/apps_dev.go expects, it empties the     *)
(* output directory and then writes its files in an order of its own.      *)
(***************************************************************************)

VARIABLES
  disk,     \* which build's version of each file there is
  binary,   \* the second file is one no app may have
  todo,     \* the files the build under way has yet to write
  build,    \* the last build
  watcher   \* the `npm run watch' process

bundleVars == <<disk, binary, todo, build, watcher>>

Files == {"entry", "chunk"}
Empty == [f \in Files |-> 0]

BundleTypeOK ==
  /\ disk \in [Files -> Nat]
  /\ binary \in BOOLEAN
  /\ todo \subseteq Files
  /\ build \in Nat
  /\ watcher \in {"none", "running", "dead", "orphaned"}

\* Nothing built yet, or what an earlier session left.
BundleInit(built) ==
  /\ build = built
  /\ disk = [f \in Files |-> built]
  /\ binary = FALSE
  /\ todo = {}
  /\ watcher = "none"

\* Someone builds on save: the watcher, what is left of it when only npm was
\* killed, or the developer where there is none.
Watched == watcher # "dead"

StartBuild ==
  /\ Watched /\ todo = {}
  /\ build' = build + 1
  /\ todo' = Files
  /\ disk' = Empty
  /\ binary' = FALSE
  /\ UNCHANGED watcher

\* The second file may be a binary asset.
WriteFile(f) ==
  /\ Watched /\ f \in todo
  /\ todo' = todo \ {f}
  /\ disk' = [disk EXCEPT ![f] = build]
  /\ binary' \in IF f = "chunk" THEN BOOLEAN ELSE {binary}
  /\ UNCHANGED <<build, watcher>>

\* npm dies; the channel startWatchProcess returns says so, and nobody reads it.
WatcherDies ==
  /\ watcher = "running"
  /\ watcher' = "dead"
  /\ UNCHANGED <<disk, binary, todo, build>>

Building == StartBuild \/ \E f \in Files : WriteFile(f)

-----------------------------------------------------------------------------
(* The command, the tab and the polls.                                     *)

VARIABLES
  pc,           \* where runAppsDev is
  prev,         \* the entrypoint before the watcher was started
  waited,       \* how the wait for a fresh entrypoint ended
  interrupted,  \* the command's context is cancelled
  exit,         \* what runAppsDev returned
  page,         \* what the tab shows
  load,         \* a page request: what the handler has yet to read, has read
  polls         \* answers to polls on their way to the page

serverVars == <<pc, prev, waited, interrupted, exit>>
pageVars == <<page, load, polls>>
vars == <<bundleVars, sandboxVars, serverVars, pageVars>>

NotExited == ""

\* last is the modification time the page has seen, 0 for null; first tells
\* what it was when the page saw one for the first time.
Blank == [kind |-> "closed", shown |-> Empty, last |-> 0, first |-> 0]
Idle == [under |-> FALSE, unread |-> {}, read |-> Empty]

Init ==
  /\ \E start \in Starts : BundleInit(start.built) /\ SandboxInit(start)
  /\ pc = "start" /\ prev = 0 /\ waited = "no"
  /\ interrupted = FALSE /\ exit = NotExited
  /\ page = Blank
  /\ load = Idle
  /\ polls = {}

-----------------------------------------------------------------------------
\* The command.

Goto(step) == pc' = step

\* prepareAppsDevServer has no random numbers or no port.
PrepareFails ==
  /\ pc = "start" /\ Spend("accident")
  /\ Goto("exited")
  /\ exit' = "error"
  /\ UNCHANGED <<bundleVars, hostVars, frame, toFrame, toHost, calls, pageVars, prev,
                 waited, interrupted>>

StatEntrypoint ==
  /\ pc = "start"
  /\ prev' = disk["entry"]
  /\ Goto("watch")
  /\ UNCHANGED <<bundleVars, sandboxVars, pageVars, waited, interrupted, exit>>

\* Without a "watch" script or npm nothing is started, and nothing waited for.
StartWatchProcess(started) ==
  /\ pc = "watch"
  /\ watcher' = IF started THEN "running" ELSE "none"
  /\ Goto(IF started THEN "wait" ELSE "serve")
  /\ UNCHANGED <<disk, binary, todo, build, sandboxVars, pageVars, prev, waited,
                 interrupted, exit>>

WaitEnds(how) ==
  /\ pc = "wait"
  /\ waited' = how
  /\ Goto("serve")
  /\ UNCHANGED <<bundleVars, sandboxVars, pageVars, prev, interrupted, exit>>

FreshM == disk["entry"] >= prev

\* The modification time is after the one before; there is none before if the
\* entrypoint did not exist.
Fresh == disk["entry"] > prev

WaitForFreshEntrypointM == Fresh /\ WaitEnds("fresh")

WaitForFreshEntrypoint ==
  \/ Fresh /\ WaitEnds("fresh")
  \/ interrupted /\ WaitEnds("interrupted")
  \/ WaitEnds("timeout")

Serve ==
  /\ pc = "serve"
  /\ Goto("serving")
  /\ UNCHANGED <<bundleVars, sandboxVars, pageVars, prev, waited, interrupted, exit>>

ServeFails ==
  /\ pc = "serving" /\ Spend("accident")
  /\ Goto("exited")
  /\ exit' = "error"
  /\ UNCHANGED <<bundleVars, hostVars, frame, toFrame, toHost, calls, pageVars, prev,
                 waited, interrupted>>

Interrupt ==
  /\ pc # "exited" /\ Spend("interrupt")
  /\ interrupted' = TRUE
  /\ UNCHANGED <<bundleVars, hostVars, frame, toFrame, toHost, calls, pageVars, pc,
                 prev, waited, exit>>

\* A goroutine of its own kills npm, and not what npm has started.
TerminateWatchProcess ==
  /\ interrupted /\ pc # "exited"
  /\ watcher = "running"
  /\ watcher' \in {"dead", "orphaned"}
  /\ UNCHANGED <<disk, binary, todo, build, sandboxVars, serverVars, pageVars>>

StartShutdown ==
  /\ pc = "serving" /\ interrupted
  /\ Goto("stopping")
  /\ UNCHANGED <<bundleVars, sandboxVars, pageVars, prev, waited, interrupted, exit>>

\* Requests under way: a page, API calls.
Busy == load.under \/ \E c \in CallIds : calls[c].where = "api"

\* Shutdown gives them two seconds.
Shutdown ==
  /\ pc = "stopping"
  /\ Goto("exited")
  /\ \/ ~Busy /\ exit' = "ok"
     \/ Busy /\ exit' = "error"
  /\ UNCHANGED <<bundleVars, sandboxVars, pageVars, prev, waited, interrupted>>

\* Requests still under way at the exit are lost.
RequestLost(c) ==
  /\ \/ pc = "exited"
     \/ pc = "stopping" /\ calls[c].where = "fetch"
  /\ FetchFails(c)
  /\ UNCHANGED <<bundleVars, serverVars, pageVars>>

-----------------------------------------------------------------------------
\* The tab.

\* A new page replaces what the tab shows.
Show(p) == page' = p /\ load' = Idle /\ polls' = {}

Reload ==
  /\ Show([Blank EXCEPT !.kind = "loading"])
  /\ LeavePage

OpenBrowser ==
  /\ pc = "serving"
  /\ page.kind = "closed"
  /\ Reload
  /\ UNCHANGED <<bundleVars, hostVars, budget, serverVars>>

UserReloads ==
  /\ page.kind \in {"waiting", "host", "error"}
  /\ Spend("reload")
  /\ Reload
  /\ UNCHANGED <<bundleVars, hostVars, serverVars>>

\* The handler of "/" lists the directory and reads one file after the other.
LoadStarts ==
  /\ pc = "serving"
  /\ page.kind = "loading" /\ ~load.under
  /\ load' = [under |-> TRUE, unread |-> {f \in Files : disk[f] > 0}, read |-> Empty]
  /\ UNCHANGED <<bundleVars, sandboxVars, serverVars, page, polls>>

\* A file that is gone or binary makes it a waiting page.
ReadFile(f) ==
  /\ load.under /\ f \in load.unread
  /\ pc \in {"serving", "stopping"}
  /\ IF disk[f] = 0 \/ (f = "chunk" /\ binary)
       THEN Show([Blank EXCEPT !.kind = "waiting"])
       ELSE /\ load' = [load EXCEPT !.unread = @ \ {f}, !.read[f] = disk[f]]
            /\ UNCHANGED <<page, polls>>
  /\ UNCHANGED <<bundleVars, sandboxVars, serverVars>>

RenderHost ==
  /\ load.under /\ load.unread = {}
  /\ pc \in {"serving", "stopping"}
  /\ IF load.read["entry"] = 0
       THEN /\ Show([Blank EXCEPT !.kind = "waiting"])
            /\ UNCHANGED frame
       ELSE /\ Show([Blank EXCEPT !.kind = "host", !.shown = load.read])
            /\ EnterPage
  /\ UNCHANGED <<bundleVars, hostVars, toFrame, toHost, calls, budget, serverVars>>

LoadFails ==
  /\ page.kind = "loading"
  /\ \/ pc = "exited"
     \/ pc = "stopping" /\ ~load.under
  /\ Show([Blank EXCEPT !.kind = "error"])
  /\ UNCHANGED <<bundleVars, sandboxVars, serverVars>>

\* Both pages ask every half second for the entrypoint's modification time.
PollSend ==
  /\ pc = "serving"
  /\ page.kind \in {"waiting", "host"}
  /\ Cardinality(polls) < MaxPolls
  /\ polls' = polls \cup {disk["entry"]}
  /\ UNCHANGED <<bundleVars, sandboxVars, serverVars, page, load>>

\* The waiting page reloads whenever there is an entrypoint.
WaitingPolls(mtime) ==
  /\ page.kind = "waiting"
  /\ IF mtime = 0
       THEN /\ polls' = polls \ {mtime}
            /\ UNCHANGED <<sandboxVars, page, load>>
       ELSE /\ Reload
            /\ UNCHANGED <<hostVars, budget>>

HostPollsM(mtime) ==
  /\ page.kind = "host"
  /\ IF mtime = 0 \/ page.last = 0 \/ mtime = page.last
       THEN /\ polls' = polls \ {mtime}
            /\ page' = [page EXCEPT !.last = mtime,
                                    !.first = IF @ = 0 THEN mtime ELSE @]
            /\ UNCHANGED <<sandboxVars, load>>
       ELSE /\ Reload
            /\ UNCHANGED <<hostVars, budget>>

\* The host page takes the first time it is told for the one it shows, ignores
\* that there is no entrypoint, and reloads on any other time.
HostPolls(mtime) ==
  /\ page.kind = "host"
  /\ IF mtime = 0 \/ page.last = 0 \/ mtime = page.last
       THEN /\ polls' = polls \ {mtime}
            /\ page' = IF mtime = 0 THEN page
                         ELSE [page EXCEPT !.last = mtime,
                                           !.first = IF @ = 0 THEN mtime ELSE @]
            /\ UNCHANGED <<sandboxVars, load>>
       ELSE /\ Reload
            /\ UNCHANGED <<hostVars, budget>>

PollAnswered(mtime) ==
  /\ WaitingPolls(mtime) \/ HostPolls(mtime)
  /\ UNCHANGED <<bundleVars, serverVars>>

-----------------------------------------------------------------------------
Builds ==
  /\ \/ StartBuild /\ Spend("build")
     \/ /\ \E f \in Files : WriteFile(f)
        /\ UNCHANGED budget
     \/ WatcherDies /\ Spend("accident")
  /\ UNCHANGED <<hostVars, frame, toFrame, toHost, calls, serverVars, pageVars>>

AppActs == SandboxActs /\ UNCHANGED <<bundleVars, serverVars, pageVars>>

Proxies ==
  /\ pc \in {"serving", "stopping"}
  /\ ProxyActs
  /\ UNCHANGED <<bundleVars, serverVars, pageVars>>

Command ==
  \/ StatEntrypoint \/ WaitForFreshEntrypoint \/ Serve
  \/ \E started \in BOOLEAN : StartWatchProcess(started)
  \/ TerminateWatchProcess \/ StartShutdown \/ Shutdown

Tab ==
  \/ LoadStarts \/ RenderHost \/ LoadFails \/ PollSend
  \/ \E f \in Files : ReadFile(f)
  \/ \E mtime \in polls : PollAnswered(mtime)

Next ==
  \/ PrepareFails \/ Command \/ ServeFails \/ Interrupt
  \/ OpenBrowser \/ UserReloads \/ Tab
  \/ Builds \/ AppActs \/ Proxies
  \/ \E c \in CallIds : RequestLost(c)

\* The command's own steps and the browser's go on, a build that was begun is
\* finished; the timers of the page and of its calls go off.  Nothing is assumed
\* of users, of apps, of the API, or of how long the watcher lives.
Fairness ==
  /\ WF_vars(Command) /\ WF_vars(OpenBrowser)
  /\ \A f \in Files :
       /\ WF_vars(ReadFile(f))
       /\ WF_vars(WriteFile(f) /\ UNCHANGED <<sandboxVars, serverVars, pageVars>>)
  /\ WF_vars(LoadStarts) /\ WF_vars(RenderHost) /\ WF_vars(LoadFails)
  /\ WF_vars(PollSend)
  /\ WF_vars(\E mtime \in polls : PollAnswered(mtime))
  /\ WF_vars(HostHears /\ UNCHANGED <<bundleVars, serverVars, pageVars>>)
  /\ WF_vars(FrameHears /\ UNCHANGED <<bundleVars, serverVars, pageVars>>)
  /\ WF_vars(FrameBoots(FALSE) /\ UNCHANGED <<bundleVars, serverVars, pageVars>>)
  /\ \A c \in CallIds :
       WF_vars(CallTimesOut(c) /\ UNCHANGED <<bundleVars, serverVars, pageVars>>)

Spec == Init /\ [][Next]_vars /\ Fairness

-----------------------------------------------------------------------------
Call ==
  [request: Requests \cup {NoRequest},
   app: {"unused", "pending", "ok", "failed", "timedout", "gone"},
   where: {"nowhere", "queued", "fetch", "api", "answered", "posted", "over"},
   ok: BOOLEAN, got: 0 .. MaxCalls, runs: Nat, paged: BOOLEAN]

HostMessage ==
  [type: {"ready"}]
  \cup [type: {"route"}, route: Routes \cup {NoRoute}, replace: BOOLEAN]
  \cup [type: {"api", "download"}, id: CallIds]

FrameMessage ==
  [type: {"theme", "data"}]
  \cup [type: {"metadata"}, metadata: Metadata]
  \cup [type: {"response"}, id: CallIds, ok: BOOLEAN]

\* Type correctness.  A route that is too long is never given to the app, and a
\* page only waits for messages while it is shown.
TypeOK ==
  /\ BundleTypeOK
  /\ mode \in Modes /\ history \in Seq(Routes) /\ at \in DOMAIN history
  /\ frame \in [stage: {"none", "booting", "ready"}, theme: BOOLEAN, data: BOOLEAN,
                 meta: Metadata \cup {NoMetadata}, rendered: Metadata \cup {NoMetadata}]
  /\ toHost \in Seq(HostMessage) /\ toFrame \in Seq(FrameMessage)
  /\ calls \in [CallIds -> Call]
  /\ budget \in [Deeds -> Nat]
  /\ pc \in {"start", "watch", "wait", "serve", "serving", "stopping", "exited"}
  /\ prev \in Nat
  /\ waited \in {"no", "fresh", "interrupted", "timeout"}
  /\ interrupted \in BOOLEAN
  /\ exit \in {NotExited, "ok", "error"}
  /\ page \in [kind: {"closed", "loading", "waiting", "host", "error"},
                shown: [Files -> Nat], last: Nat, first: Nat]
  /\ load \in [under: BOOLEAN, unread: SUBSET Files, read: [Files -> Nat]]
  /\ polls \subseteq Nat
  /\ frame.stage = "none" \/ page.kind = "host"
  /\ frame.meta.route # "long"

\* With a watcher, what the preview shows is a build of this session, unless
\* ten seconds were not enough for one or the command was interrupted.
FirstPageIsFresh ==
  page.kind = "host" /\ waited = "fresh" => page.shown["entry"] > prev

\* A call that succeeded got the answer to itself and was carried out once; one
\* the proxy refuses is not carried out; none is carried out twice, however late
\* its answer and however often the page is reloaded.
AnswersMatch ==
  \A c \in CallIds :
    /\ calls[c].runs <= 1
    /\ calls[c].app = "ok" => calls[c].got = c
    /\ calls[c].request.kind = "api" =>
         /\ calls[c].app = "ok" => calls[c].runs = 1
         /\ ~Permitted(calls[c].request) => calls[c].runs = 0 /\ calls[c].app # "ok"

\* A promise settles once: an answer after the timeout changes nothing.
Settled == {"ok", "failed", "timedout", "gone"}

SettledStays ==
  [][\A c \in CallIds :
       calls[c].app \in Settled => calls'[c].app = calls[c].app /\ calls'[c].got = calls[c].got]_vars

\* Every call and download ends as long as its page is there.
CallsSettle == \A c \in CallIds : calls[c].app = "pending" ~> calls[c].app # "pending"

\* Calls end, and end once, however answers, timeouts and reloads race.
CallsSettleOnce == SettledStays /\ CallsSettle

\* The app comes to know the host's mode and route, whichever of the two sides
\* changed them and whenever: before the frame listens, while it boots, after.
AppKnowsHost ==
  []<>(frame.stage = "none" \/ frame.rendered = HostMetadata)

\* A page that found out about the entrypoint too late: it had been rebuilt
\* between the rendering of the page and its first poll.
Missed == page.first > page.shown["entry"]

ShowsEntrypoint ==
  disk["entry"] > 0 /\ ~binary =>
    page.kind = "host" /\ page.shown["entry"] = disk["entry"]

\* The tab ends up showing the last entrypoint that was built, or is a page
\* that missed it.
PreviewCatchesUp ==
  <>[](pc = "serving") => <>[](ShowsEntrypoint \/ Missed)

\* The tab follows: the app its host, and the page the builds.
TabFollows == AppKnowsHost /\ PreviewCatchesUp

\* "Poll for a rebuild and reload once the new bundle is actually on disk": the
\* tab ends up showing the last entrypoint that was built (apps_dev.go).
PreviewShowsLastBuild ==
  <>[](pc = "serving") => <>[](ShowsEntrypoint)

\* Ctrl+C ends the command.
InterruptEnds == interrupted ~> pc = "exited"
=============================================================================
