------------------------------ MODULE RunQueries ------------------------------
(***************************************************************************)
(* The commands that read long lists: `trace list', `trace export', `run   *)
(* list', `run export', `thread list' and `thread get' (internal/cmd/      *)
(* trace.go, run.go, thread.go, trace_query.go, helpers.go), and `hub      *)
(* list', `prompt list' and `prompt commits' (hub_list.go, prompt.go,      *)
(* hub_repo_sdk.go), on the servers they support:                          *)
(*   "v1"    runs query of v1, which knows neither total_tokens nor        *)
(*           feedback windows                                              *)
(*   "v2"    traces and runs queries of v2                                 *)
(*   "v2 without window"  a traces query that ignores feedback windows     *)
(*   "hub"   lists of the hub with a cursor in the body of the answer      *)
(*   "legacy hub"  such lists without one, paged by offset.                *)
(* Items are numbered by age: lists are newest first. A trace stands for   *)
(* its root run, which is the run `runs list' would show of it.            *)
(* A second specification is of the lookups of one trace or run by its     *)
(* identifier, `trace get' and `run get'.                                  *)
(***************************************************************************)
EXTENDS Integers, Sequences, SequencesExt, FiniteSetsExt, TLC

CONSTANTS
  MaxRoots,     \* bound on the traces
  RootKinds,    \* what a trace may be: see RootKind
  QueryInputs,  \* what commands are given: see QueryInput
  MaxCalls,     \* bound on the calls that follow each other's cursor
  HydrateSize,  \* how many totals are read at a time
  LookupInputs, \* what lookups are given: see LookupInput
  MaxTraceRuns  \* bound on the runs of the trace that is looked up

ASSUME QueryAssumption ==
  MaxRoots \in Nat /\ MaxCalls \in Nat /\ HydrateSize \in Nat \ {0} /\ MaxTraceRuns \in Nat

-----------------------------------------------------------------------------
(* The walk over the pages of a server (internal/cmd/paging.go) that every *)
(* list command uses. A cursor names a place in the server's list and how  *)
(* many items of the page that starts there to skip: the server's own      *)
(* cursors skip none.                                                      *)

\* The empty cursor: the first page of a walk that starts, the end of one that
\* ends. Any other place is a positive number, whose meaning is the server's.
Nowhere == 0

PageCursor(place, skip) == [place |-> place, skip |-> skip]

FirstCursor == PageCursor(Nowhere, 0)

\* A walk that starts at a cursor; its limit is 0 for all items.
StartWalk(cursor, limit) ==
  [place |-> cursor.place, skip |-> cursor.skip, limit |-> limit, out |-> <<>>, resume |-> FirstCursor]

PageSize(walk, maxPageSize) ==
  IF walk.limit = 0 THEN maxPageSize ELSE Min({maxPageSize, walk.limit - Len(walk.out) + walk.skip})

\* The items of a page that the command wants, in their order.
Wanted(items, keep) ==
  LET places == {i \in DOMAIN items : items[i] \in keep}
      kept[i \in 0 .. Len(items)] ==
        IF i = 0 THEN <<>> ELSE IF i \in places THEN Append(kept[i - 1], items[i]) ELSE kept[i - 1]
  IN  kept[Len(items)]

\* What the walk is after a page: keep are the items the command wants of
\* those it is sent, and a walk that is full within the page remembers where.
AfterPageM(walk, items, next, keep) ==
  LET wanted == Wanted(SubSeq(items, walk.skip + 1, Len(items)), keep)
      room   == IF walk.limit = 0 THEN Len(wanted) ELSE Min({walk.limit - Len(walk.out), Len(wanted)})
      onward == IF next = walk.place THEN Nowhere ELSE next
  IN  [walk EXCEPT !.out = @ \o SubSeq(wanted, 1, room), !.skip = 0,
                   !.place = onward, !.resume = PageCursor(onward, 0)]

AfterPage(walk, items, next, keep) ==
  LET rest   == SubSeq(items, walk.skip + 1, Len(items))
      short  == {i \in 0 .. Len(rest) :
                   walk.limit = 0 \/ Len(walk.out) + Cardinality({j \in 1 .. i : rest[j] \in keep}) < walk.limit}
      stop   == Max(short) + 1     \* the item that fills the walk, or past the page
      within == stop < Len(rest)
      onward == IF next = walk.place THEN Nowhere ELSE next
      wanted == Wanted(IF within THEN SubSeq(rest, 1, stop) ELSE rest, keep)
  IN  [walk EXCEPT !.out = @ \o wanted, !.skip = 0, !.place = onward,
                   !.resume = IF within THEN PageCursor(walk.place, walk.skip + stop) ELSE PageCursor(onward, 0)]

WalkEnds(walk) ==
  walk.place = Nowhere \/ (walk.limit > 0 /\ Len(walk.out) >= walk.limit)

-----------------------------------------------------------------------------
VARIABLES
  deployment,  \* which of the servers
  kind,        \* what each trace is
  roots,       \* how many there are
  query,       \* the command that runs
  chain,       \* what the commands before it, each given the last cursor, printed
  sought       \* the lookup that runs, and the trace it is about

queryVars == <<deployment, kind, roots, query, chain>>

lookupVars == <<deployment, sought>>

Roots == 1 .. MaxRoots

\* own and total tell whether the root alone and the trace reach --min-tokens.
RootKind == [own : BOOLEAN, total : BOOLEAN, fed : BOOLEAN, name : {"x", "y"}, thread : {"", "s", "t"}]

RunCommands == {"trace list", "trace export", "run list", "run export", "thread list", "thread get"}

HubCommands == {"hub list", "prompt list", "prompt commits"}

QueryCommands == RunCommands \cup HubCommands

\* limit is the one after a command's default, 0 where all is asked for; lookup is
\* a list by trace, for which v1 ignores the page size; offset is that of hub list.
QueryInput ==
  {in \in [cmd : QueryCommands, limit : Nat, min : BOOLEAN, window : BOOLEAN,
           lookup : BOOLEAN, pattern : {"id", "name"}, offset : Nat] : in.cmd # "hub list" => in.offset = 0}

ASSUME InputAssumption ==
  QueryInputs \subseteq QueryInput /\ QueryInputs # {} /\ RootKinds \subseteq RootKind

\* hydrated counts the roots whose totals were asked for: filled are those that got
\* them, left those that the server's answers leave out.
NoQuery == [at |-> "idle", walk |-> StartWalk(FirstCursor, 0), offset |-> 0, legacy |-> FALSE,
            hydrated |-> 0, filled |-> {}, left |-> {}, files |-> <<>>]

NoChain == [in |-> CHOOSE in \in QueryInputs : TRUE, got |-> <<>>, newest |-> 0, from |-> Nowhere, skipped |-> 0,
            resume |-> FirstCursor, calls |-> 0]

OfHub == {"hub", "legacy hub"}

QueryInit ==
  /\ deployment \in {"v1", "v2", "v2 without window"} \cup OfHub
  /\ kind \in [Roots -> RootKinds]
  /\ roots \in Roots
  /\ query = NoQuery
  /\ chain = NoChain

-----------------------------------------------------------------------------
\* Which query answers, and what of it the server and the command filter.

\* trace list falls back to the runs query where the traces query would ignore
\* the window.
Fallback(in) == in.cmd = "trace list" /\ in.window /\ deployment # "v2"

Endpoint(in) ==
  IF in.cmd \in HubCommands THEN "hub"
  ELSE IF deployment = "v1" THEN "v1"
  ELSE IF in.cmd \in {"run list", "run export", "thread list", "thread get"} \/ Fallback(in) THEN "runs"
  ELSE "traces"

\* The errors before any request: v1 has no window, and the fallback would
\* compare the tokens of the root alone with --min-tokens.
RefusedQuery(in) ==
  \/ in.window /\ deployment = "v1"
  \/ Fallback(in) /\ in.min

MaxPageSize == [v1 |-> 2, traces |-> 2, runs |-> 3, hub |-> 2]

\* The thread that thread get is given.
AThread == "s"

\* The tokens an endpoint has for a root: v1 rolls them up for the root of a
\* trace, which a run in a list of runs need not be.
HasTokens(in, root) ==
  IF Endpoint(in) = "runs" \/ in.cmd \in {"run list", "run export"} THEN kind[root].own ELSE kind[root].total

ServerMatches(in) ==
  {root \in 1 .. roots : /\ in.min /\ Endpoint(in) # "v1" => HasTokens(in, root)
                         /\ in.window => kind[root].fed
                         /\ in.cmd = "thread get" => kind[root].thread = AThread}

\* minTokensFilter.
ClientKeeps(in) ==
  IF in.min /\ Endpoint(in) = "v1" THEN {root \in Roots : HasTokens(in, root)} ELSE Roots

-----------------------------------------------------------------------------
\* The server: a page of the matches older than the place of the cursor.

Newest(set) == Wanted([n \in Roots |-> MaxRoots + 1 - n], set)

Whole(in) == in.lookup /\ Endpoint(in) = "v1"

\* Pages may be shorter than asked; the place of the next is that of the last
\* item, and a server may or may not know that nothing follows.
PagesOf(all, size) ==
  LET k == Min({size, Len(all)})
  IN  IF all = <<>>
      THEN {[items |-> all, next |-> Nowhere]}
      ELSE {[items |-> SubSeq(all, 1, n), next |-> all[n]] : n \in 1 .. k}
           \cup (IF k = Len(all) THEN {[items |-> all, next |-> Nowhere]} ELSE {})

\* What follows a place, or an offset.
After(in, place) == Newest({item \in ServerMatches(in) : place = Nowhere \/ item < place})

Skipping(in, offset) == LET all == After(in, Nowhere) IN SubSeq(all, offset + 1, Len(all))

FirstOf(seq, size) == SubSeq(seq, 1, Min({size, Len(seq)}))

\* The page collectHubPages makes of an answer: the first request, and every one
\* to a legacy server, asks for an offset, and without a cursor in the answer
\* the next offset stands for it. A legacy server ignores a cursor, which is an
\* error.
HubPages(in, size) ==
  IF deployment = "hub"
  THEN PagesOf(IF query.walk.place = Nowhere THEN Skipping(in, query.offset) ELSE After(in, query.walk.place), size)
  ELSE LET items == FirstOf(Skipping(in, query.offset), size)
           next  == IF Len(items) < size THEN Nowhere ELSE query.offset + Len(items)
       IN  IF query.legacy \/ query.walk.place = Nowhere THEN {[items |-> items, next |-> next]} ELSE {}

Pages(in, size) ==
  IF in.cmd \in HubCommands THEN HubPages(in, size)
  ELSE IF Whole(in) THEN {[items |-> After(in, Nowhere), next |-> Nowhere]}
  ELSE PagesOf(After(in, query.walk.place), size)

-----------------------------------------------------------------------------
\* The commands.

QueryFails == query' = NoQuery /\ UNCHANGED chain

\* A first call.
Opens(in) == chain.calls = 0 /\ chain' = [NoChain EXCEPT !.in = in, !.skipped = in.offset]

\* A call given the cursor the last one printed, with its other flags the same.
Resumes(in) ==
  /\ chain.calls \in 1 .. MaxCalls - 1 /\ chain.resume # FirstCursor /\ in.offset = 0
  /\ [in EXCEPT !.limit = 1, !.offset = 0] = [chain.in EXCEPT !.limit = 1, !.offset = 0]
  /\ chain' = [chain EXCEPT !.in.limit = in.limit]

\* A call given, on a hub that knows no cursors, one of another server.
Strays(in) ==
  /\ chain.calls = 0 /\ deployment = "legacy hub" /\ in.offset = 0
  /\ chain' = [NoChain EXCEPT !.in = in, !.from = 3, !.resume = PageCursor(3, 0)]

BeginQuery(in, cmd, limit) ==
  /\ query.at = "idle" /\ in.cmd = cmd /\ (cmd \in HubCommands) = (deployment \in OfHub)
  /\ query' = [NoQuery EXCEPT !.at = "page", !.offset = in.offset, !.walk = StartWalk(chain'.resume, limit)]
  /\ UNCHANGED <<deployment, kind, roots>>

TraceList(in) == ~RefusedQuery(in) /\ (Opens(in) \/ Resumes(in)) /\ BeginQuery(in, "trace list", in.limit)

RunList(in) == ~RefusedQuery(in) /\ (Opens(in) \/ Resumes(in)) /\ BeginQuery(in, "run list", in.limit)

\* The exports have no --cursor and no feedback window.
RunExport(in) == ~in.window /\ Opens(in) /\ BeginQuery(in, "run export", in.limit)

TraceExport(in) == ~in.window /\ Opens(in) /\ BeginQuery(in, "trace export", in.limit)

\* Every root run of the window is read: the limit is that of the threads.
ThreadList(in) == ~in.window /\ ~in.min /\ Opens(in) /\ BeginQuery(in, "thread list", 0)

\* The roots of one thread, up to --limit, whenever they started.
ThreadGet(in) == ~in.window /\ ~in.min /\ Opens(in) /\ BeginQuery(in, "thread get", in.limit)

\* --offset is for first calls only.
HubList(in) == (Opens(in) \/ Resumes(in) \/ Strays(in)) /\ BeginQuery(in, "hub list", in.limit)

PromptList(in) == in.offset = 0 /\ (Opens(in) \/ Resumes(in) \/ Strays(in)) /\ BeginQuery(in, "prompt list", in.limit)

PromptCommits(in) == in.offset = 0 /\ (Opens(in) \/ Resumes(in) \/ Strays(in)) /\ BeginQuery(in, "prompt commits", in.limit)

\* One request of collectPages.
FetchPage ==
  /\ query.at = "page"
  /\ \/ \E page \in Pages(chain.in, PageSize(query.walk, MaxPageSize[Endpoint(chain.in)])) :
          LET walk == AfterPage(query.walk, page.items, page.next, ClientKeeps(chain.in))
          IN  /\ query' = [query EXCEPT !.walk = walk,
                                        !.offset = @ + Len(page.items),
                                        !.legacy = deployment = "legacy hub",
                                        !.at = IF ~WalkEnds(walk) THEN "page"
                                               ELSE IF Fallback(chain.in) THEN "hydrate"
                                               ELSE IF chain.in.cmd = "trace export" THEN "export" ELSE "print"]
              /\ chain' = IF chain.calls = 0 /\ query.walk.place = Nowhere
                          THEN [chain EXCEPT !.newest = roots] ELSE chain
     \/ QueryFails
  /\ UNCHANGED <<deployment, kind, roots>>

\* hydrateTraceAggregates reads the totals of one batch after the other, from the start
\* of its earliest root on. The traces query need not have them all, and its cursor is
\* not followed: a root that is not on its one page keeps its own usage.
HydrateBatch ==
  LET batch  == SubSeq(query.walk.out, query.hydrated + 1, Min({Len(query.walk.out), query.hydrated + HydrateSize}))
      ids    == Range(batch)
      behind == query.hydrated + Len(batch)
      InTime(known) == {root \in known : root >= Min(ids)}
  IN  /\ query.at = "hydrate"
      /\ \/ \E known \in SUBSET ids : \E page \in PagesOf(Newest(InTime(known)), Len(batch)) :
              /\ query' = [query EXCEPT !.hydrated = behind, !.filled = @ \cup (ids \cap Range(page.items)),
                                        !.left = @ \cup (ids \ known) \cup (InTime(known) \ Range(page.items)),
                                        !.at = IF behind >= Len(query.walk.out) THEN "print" ELSE @]
              /\ UNCHANGED chain
         \/ batch # <<>> /\ QueryFails
      /\ UNCHANGED <<deployment, kind, roots>>

\* traceExportPath.
ExportPath(root) == IF chain.in.pattern = "id" THEN <<"id", root>> ELSE <<"name", kind[root].name>>

\* Every path is resolved before the first file: two traces on one path are an
\* error.
PathsCollide == \E m, n \in DOMAIN query.walk.out : m # n /\ ExportPath(query.walk.out[m]) = ExportPath(query.walk.out[n])

\* The runs of the next trace are read and written to its file.
ExportTrace ==
  /\ query.at = "export"
  /\ \/ LET n == Len(query.files) + 1 IN
        /\ ~PathsCollide
        /\ IF n > Len(query.walk.out)
           THEN query' = [query EXCEPT !.at = "print"]
           ELSE query' = [query EXCEPT !.files = Append(@, ExportPath(query.walk.out[n]))]
        /\ UNCHANGED chain
     \/ QueryFails
  /\ UNCHANGED <<deployment, kind, roots>>

PrintQuery ==
  /\ query.at = "print"
  /\ chain' = [chain EXCEPT !.got = @ \o query.walk.out, !.resume = IF query.legacy THEN FirstCursor ELSE query.walk.resume,
                            !.calls = @ + 1]
  /\ query' = NoQuery
  /\ UNCHANGED <<deployment, kind, roots>>

\* A trace starts, but none of those a lookup by trace is about; or the hub gets
\* an item, but not while a list by offset goes on.
Arrive ==
  /\ roots < MaxRoots /\ ~Whole(chain.in) /\ (deployment = "legacy hub" => query.at = "idle")
  /\ roots' = roots + 1
  /\ UNCHANGED <<deployment, kind, query, chain>>

QueryNext ==
  \/ \E in \in QueryInputs :
       \/ TraceList(in) \/ RunList(in) \/ RunExport(in) \/ TraceExport(in) \/ ThreadList(in) \/ ThreadGet(in)
       \/ HubList(in) \/ PromptList(in) \/ PromptCommits(in)
  \/ FetchPage \/ HydrateBatch \/ ExportTrace \/ PrintQuery \/ Arrive

QuerySpec == QueryInit /\ [][QueryNext]_queryVars

-----------------------------------------------------------------------------
\* What threads list prints of the roots: the latest threads with their counts.

InThread(out, thread) == {n \in DOMAIN out : kind[out[n]].thread = thread}

ThreadSummaries(out, limit) ==
  LET threads == {kind[out[n]].thread : n \in DOMAIN out} \ {""}
      latest  == SetToSortSeq(threads, LAMBDA a, b : Min(InThread(out, a)) < Min(InThread(out, b)))
      shown   == IF limit = 0 THEN Len(latest) ELSE Min({limit, Len(latest)})
  IN  [n \in 1 .. shown |-> [thread |-> latest[n], count |-> Cardinality(InThread(out, latest[n]))]]

-----------------------------------------------------------------------------
\* Lookups by identifier. Runs start long ago, within the last seven days, or
\* just now; windows are from one of these times on.

LongAgo == 0
ThisWeek == 1
JustNow == 2

NoSince == -1

\* A project that is not given, or has no such trace.
NoProject == ""

\* run is that of run get. Without a project, trace get searches the workspace.
LookupInput ==
  [cmd : {"trace get", "run get"}, project : {NoProject, "p"}, since : {NoSince, LongAgo, JustNow}, run : 1 .. MaxTraceRuns]

ASSUME LookupAssumption == LookupInputs \subseteq LookupInput

\* A trace: the project it is in, if any has it, and when its runs started, the
\* root first.
SoughtTraces ==
  {[home |-> home, runs |-> starts] :
     home \in {NoProject, "p", "q"}, starts \in {s \in SeqOf(LongAgo .. JustNow, 2) : s # <<>> /\ \A n \in DOMAIN s : s[1] <= s[n]}}

NoLookup ==
  [at |-> "idle", in |-> CHOOSE in \in LookupInputs : TRUE, trace |-> CHOOSE t \in SoughtTraces : TRUE, scope |-> NoProject,
   runs |-> {}, told |-> LongAgo]

LookupInit == sought = NoLookup

OnV1 == deployment = "v1"

\* resolveStartTime, and the bound of a read on v2, which only a window that was
\* asked for gives.
StartAsked(in) == IF in.since = NoSince THEN ThisWeek ELSE in.since

SinceAsked(in) == IF in.since = NoSince THEN LongAgo ELSE in.since

LookupGoes(at) == sought' = [sought EXCEPT !.at = at]

\* The error that says where the trace was not found: told is the start of the
\* window it names, LongAgo if it names none.
NotFound(since) == sought' = [sought EXCEPT !.at = "not found", !.told = since]

BeginLookup(in, trace, at) ==
  /\ sought = NoLookup
  /\ sought' = [NoLookup EXCEPT !.at = at, !.in = in, !.trace = trace, !.scope = in.project]

\* On v2 a trace is read from its project, which is looked up if it is not given.
TraceGet(in, trace) ==
  in.cmd = "trace get" /\ BeginLookup(in, trace, IF in.project = NoProject /\ ~OnV1 THEN "locate" ELSE "read trace")

RunGet(in, trace) == in.cmd = "run get" /\ in.project # NoProject /\ BeginLookup(in, trace, "read run")

\* traceProjectID: the query for the root run in the whole workspace.
LocateTrace ==
  /\ sought.at = "locate"
  /\ IF sought.trace.home # NoProject /\ sought.trace.runs[1] >= StartAsked(sought.in)
     THEN sought' = [sought EXCEPT !.at = "read trace", !.scope = sought.trace.home]
     ELSE NotFound(StartAsked(sought.in))

InScope(trace, project) == trace.home # NoProject /\ project \in {NoProject, trace.home}

RunsSince(trace, project, start) == {n \in DOMAIN trace.runs : InScope(trace, project) /\ trace.runs[n] >= start}

\* fetchTraceRuns, and what traceGetRuns makes of an empty answer.
ReadTrace ==
  LET in    == sought.in
      found == RunsSince(sought.trace, sought.scope, IF OnV1 THEN StartAsked(in) ELSE SinceAsked(in))
  IN  /\ sought.at = "read trace"
      /\ IF found # {}
         THEN sought' = [sought EXCEPT !.at = "found", !.runs = found]
         ELSE NotFound(IF ~OnV1 /\ in.project # NoProject THEN SinceAsked(in) ELSE StartAsked(in))

\* The query for one run of the project, in the default window if none is given.
ReadRun ==
  LET found == RunsSince(sought.trace, sought.scope, StartAsked(sought.in)) \cap {sought.in.run}
  IN  /\ sought.at = "read run"
      /\ IF found # {} THEN sought' = [sought EXCEPT !.at = "found", !.runs = found] ELSE NotFound(StartAsked(sought.in))

\* A request fails, or v2 has no query for the whole workspace.
LookupFails == sought.at \in {"locate", "read trace", "read run"} /\ LookupGoes("failed")

\* Meanwhile the trace goes on, or is deleted.
TraceGrows ==
  /\ sought.at \in {"locate", "read trace", "read run"} /\ Len(sought.trace.runs) < MaxTraceRuns
  /\ sought' = [sought EXCEPT !.trace.runs = Append(sought.trace.runs, JustNow)]

TraceIsDeleted ==
  sought.at \in {"locate", "read trace", "read run"} /\ sought' = [sought EXCEPT !.trace.home = NoProject]

LookupNext ==
  /\ \/ \E in \in LookupInputs, trace \in SoughtTraces : TraceGet(in, trace) \/ RunGet(in, trace)
     \/ LocateTrace \/ ReadTrace \/ ReadRun \/ LookupFails \/ TraceGrows \/ TraceIsDeleted
  /\ UNCHANGED deployment

LookupSpec == LookupInit /\ deployment \in {"v1", "v2"} /\ [][LookupNext]_lookupVars

-----------------------------------------------------------------------------
\* Properties.

QueryTypeOK ==
  /\ query.at \in {"idle", "page", "hydrate", "export", "print"}
  /\ Range(query.walk.out) \cup Range(chain.got) \subseteq Roots
  /\ chain.calls \in 0 .. MaxCalls
  /\ sought.at \in {"idle", "locate", "read trace", "read run", "found", "not found", "failed"}
  /\ sought.runs \subseteq DOMAIN sought.trace.runs

\* What the flags ask for, whatever the deployment.
AskedFor(in, newest) ==
  {root \in 1 .. newest :
     /\ in.min => IF in.cmd \in {"run list", "run export"} THEN kind[root].own ELSE kind[root].total
     /\ in.window => kind[root].fed
     /\ in.cmd = "thread get" => kind[root].thread = AThread}

(***************************************************************************)
(* Calls that each resume with the cursor of the last print the items that *)
(* match the flags, newest first, each once and none left out, and print   *)
(* no cursor only when there are no more: whichever query the deployment   *)
(* answers with, whoever filters, however long the pages, when the server  *)
(* ignores the page size, and while items arrive. Only a hub without       *)
(* cursors prints none though there are more; it never restarts from the   *)
(* top what a cursor resumes.                                              *)
(***************************************************************************)
ListsAreExact ==
  LET asked == Newest(AskedFor(chain.in, chain.newest))
      all   == SubSeq(asked, chain.skipped + 1, Len(asked))
  IN  /\ IsPrefix(chain.got, IF chain.from = Nowhere THEN all ELSE <<>>)
      /\ chain.calls > 0 /\ chain.resume = FirstCursor /\ deployment # "legacy hub" => chain.got = all

(***************************************************************************)
(* What is printed is of whole traces: the usage shown with a root is that *)
(* of its trace, a thread is counted with all its traces, and an export    *)
(* has a file for each trace it says it exported. Only a root that the     *)
(* runs query found, and that the server's one page of totals leaves out   *)
(* though it was asked for, is shown with its own usage, in silence.       *)
(***************************************************************************)
OutputsAreWhole ==
  query.at = "print" =>
    /\ chain.in.cmd = "trace list" /\ Endpoint(chain.in) = "runs" => Range(query.walk.out) \subseteq query.filled \cup query.left
    /\ chain.in.cmd = "trace export" => Cardinality(Range(query.files)) = Len(query.walk.out)
    /\ chain.in.cmd = "thread list" =>
         \A n \in DOMAIN ThreadSummaries(query.walk.out, chain.in.limit) :
           LET summary == ThreadSummaries(query.walk.out, chain.in.limit)[n]
           IN  summary.count = Cardinality({root \in 1 .. chain.newest : kind[root].thread = summary.thread})

(***************************************************************************)
(* A lookup tells the truth about one trace or run, however many requests  *)
(* it takes and whatever happens to the trace between them. What it prints *)
(* is of the project asked for, nothing from before the window asked for,  *)
(* and everything since: on v2 the whole trace when no window was asked    *)
(* for, though its project was found within the default one. A trace is    *)
(* only said not to be where no root of it started in the window that the  *)
(* message names, so that its hint, an earlier window, finds it.           *)
(***************************************************************************)
LookupsTellTheTruth ==
  LET in == sought.in
      of == IF sought.trace.home # NoProject /\ in.project \in {NoProject, sought.trace.home} THEN DOMAIN sought.trace.runs ELSE {}
  IN  /\ sought.at = "found" =>
           /\ sought.runs # {} /\ sought.runs \subseteq of
           /\ in.since # NoSince => \A n \in sought.runs : sought.trace.runs[n] >= in.since
           /\ in.cmd = "trace get" =>
                \A n \in of \ sought.runs :
                  sought.trace.runs[n] < IF in.since # NoSince THEN in.since ELSE IF OnV1 THEN ThisWeek ELSE LongAgo
      /\ sought.at = "not found" /\ in.cmd = "trace get" => 1 \notin of \/ sought.trace.runs[1] < sought.told

\* The lists of traces, runs, threads, repos and prompts are exact, each of their
\* items is whole, whichever server answers, and so is what is looked up.
QueriesAreExact == ListsAreExact /\ OutputsAreWhole /\ LookupsTellTheTruth
=============================================================================
