------------------------------- MODULE SpecCache -------------------------------
(***************************************************************************)
(* `api ls' and `api info' (internal/cmd/api/spec.go, ls.go, info.go), and *)
(* the cache of the OpenAPI specifications they read (internal/cache):     *)
(* one file for each server, which runs read, remove and write without a   *)
(* lock, and which a run that is killed leaves half written.               *)
(*                                                                         *)
(* The clock counts hours: no run lasts as long.                           *)
(***************************************************************************)
EXTENDS Integers, Sequences, FiniteSets, FiniteSetsExt

CONSTANTS
  SpecRuns,    \* runs of the commands
  SpecInputs,  \* what they are given: [cmd, url, refresh, tag, method, path]
  Servers,     \* the API URLs
  Releases,    \* the specifications a server may have: sets of operations
  SpecTTL,     \* how long a file is fresh
  LastHour     \* bound on the clock

\* What is under a path: an HTTP method, or "parameters". Its schema is "plain", or a
\* reference to a component that is known or not.
OperationRecord ==
  [path : STRING, method : STRING, tag : STRING, schema : {"plain", "known component", "unknown component"}]

ASSUME SpecAssumption ==
  /\ SpecTTL \in Nat /\ LastHour \in Nat /\ IsFiniteSet(SpecRuns)
  /\ SpecInputs # {} /\ \A in \in SpecInputs : in.url \in Servers /\ in.refresh \in BOOLEAN
  /\ \A operations \in Releases : operations \subseteq OperationRecord

VARIABLES
  hour,       \* the clock
  release,    \* the specification each server has
  cached,     \* the file of each cache key
  specRuns    \* each run

specVars == <<hour, release, cached, specRuns>>

Operation(path, method, tag, schema) == [path |-> path, method |-> method, tag |-> tag, schema |-> schema]

NoSpec == [of |-> "", at |-> 0, operations |-> {}]

SpecFile(kind, spec, at) == [kind |-> kind, spec |-> spec, at |-> at]

MissingSpec == SpecFile("missing", NoSpec, 0)

NoSpecRun == [pc |-> "start", in |-> CHOOSE in \in SpecInputs : TRUE, began |-> 0, spec |-> NoSpec]

SpecInit ==
  /\ hour = 0
  /\ release \in [Servers -> Releases]
  /\ cached = [url \in Servers |-> MissingSpec]
  /\ specRuns = [r \in SpecRuns |-> NoSpecRun]

-----------------------------------------------------------------------------
\* loadSpec.

\* PathForKey: a file for each server. The mutant has one for all.
PathForKeyM(url) == CHOOSE u \in Servers : TRUE

PathForKey(url) == url

FileOf(r) == PathForKey(specRuns[r].in.url)

SpecGoto(r, pc) == specRuns' = [specRuns EXCEPT ![r].pc = pc]

\* The next run may start.
EndSpecRun(r) == specRuns' = [specRuns EXCEPT ![r] = NoSpecRun]

\* ReadIfFresh: a file that is too old is removed.
StatSpec(r, in) ==
  /\ specRuns[r].pc = "start"
  /\ LET file == cached[PathForKey(in.url)]
         old  == file.kind # "missing" /\ hour - file.at > SpecTTL
     IN  /\ specRuns' = [specRuns EXCEPT ![r] = [NoSpecRun EXCEPT !.in = in, !.began = hour,
              !.pc = IF in.refresh \/ old \/ file.kind = "missing" THEN "fetch" ELSE "read"]]
         /\ cached' = IF old /\ ~in.refresh THEN [cached EXCEPT ![PathForKey(in.url)] = MissingSpec] ELSE cached
  /\ UNCHANGED <<hour, release>>

\* What does not parse is fetched anew.
ReadSpec(r) ==
  /\ specRuns[r].pc = "read"
  /\ specRuns' = IF cached[FileOf(r)].kind = "whole"
                 THEN [specRuns EXCEPT ![r].spec = cached[FileOf(r)].spec, ![r].pc = "show"]
                 ELSE [specRuns EXCEPT ![r].pc = "fetch"]
  /\ UNCHANGED <<hour, release, cached>>

FetchSpec(r) ==
  /\ specRuns[r].pc = "fetch"
  /\ specRuns' = [specRuns EXCEPT ![r].pc = "truncate",
       ![r].spec = [of |-> specRuns[r].in.url, at |-> hour, operations |-> release[specRuns[r].in.url]]]
  /\ UNCHANGED <<hour, release, cached>>

FetchSpecFails(r) ==
  /\ specRuns[r].pc = "fetch"
  /\ EndSpecRun(r)
  /\ UNCHANGED <<hour, release, cached>>

\* os.WriteFile truncates the file and writes it. A file that cannot be written is
\* left out: the run goes on.
TruncateSpec(r) ==
  /\ specRuns[r].pc = "truncate"
  /\ \/ cached' = [cached EXCEPT ![FileOf(r)] = SpecFile("torn", NoSpec, hour)] /\ SpecGoto(r, "write")
     \/ UNCHANGED cached /\ SpecGoto(r, "show")
  /\ UNCHANGED <<hour, release>>

\* A shorter file over the longer one of a run that wrote in between leaves its end.
WriteSpec(r) ==
  /\ specRuns[r].pc = "write"
  /\ \E kind \in IF cached[FileOf(r)].kind = "whole" THEN {"whole", "torn"} ELSE {"whole"} :
       cached' = [cached EXCEPT ![FileOf(r)] = SpecFile(kind, IF kind = "whole" THEN specRuns[r].spec ELSE NoSpec, hour)]
  /\ SpecGoto(r, "show")
  /\ UNCHANGED <<hour, release>>

KillSpecRun(r) ==
  /\ specRuns[r].pc = "write"
  /\ EndSpecRun(r)
  /\ UNCHANGED <<hour, release, cached>>

-----------------------------------------------------------------------------
\* What the commands show.

IsHTTPMethod(method) == method \in {"GET", "POST", "DELETE"}

\* Endpoints, and the filter of `ls'.
Endpoints(spec, tag) == {op \in spec.operations : IsHTTPMethod(op.method) /\ tag \in {"", op.tag}}

\* A path without a slash is one of /api/v1.
NormalizedPath(path) == [path EXCEPT !.absolute = TRUE]

\* A known component is put in the place of a reference to it.
ResolveRef(op) == [op EXCEPT !.schema = IF @ = "known component" THEN "plain" ELSE @]

LookupEndpoint(spec, method, path) ==
  {ResolveRef(op) : op \in {o \in spec.operations : o.path = NormalizedPath(path).name /\ o.method = method}}

ShowSpec(r) ==
  /\ specRuns[r].pc = "show"
  /\ EndSpecRun(r)
  /\ UNCHANGED <<hour, release, cached>>

\* What `ls' lists, or the operation `info' finds.
Shown(run) ==
  IF run.in.cmd = "ls" THEN Endpoints(run.spec, run.in.tag) ELSE LookupEndpoint(run.spec, run.in.method, run.in.path)

\* Hours go by between runs, and servers are released.
HourPasses ==
  /\ hour < LastHour /\ hour' = hour + 1
  /\ \A r \in SpecRuns : specRuns[r].pc = "start"
  /\ \E url \in Servers, spec \in Releases : release' = [release EXCEPT ![url] = spec]
  /\ UNCHANGED <<cached, specRuns>>

SpecNext ==
  \/ \E r \in SpecRuns, in \in SpecInputs : StatSpec(r, in)
  \/ \E r \in SpecRuns :
       \/ ReadSpec(r) \/ FetchSpec(r) \/ FetchSpecFails(r) \/ TruncateSpec(r) \/ WriteSpec(r)
       \/ KillSpecRun(r) \/ ShowSpec(r)
  \/ HourPasses

SpecCacheSpec == SpecInit /\ [][SpecNext]_specVars

-----------------------------------------------------------------------------
\* Properties.

\* The state keeps its shape.
SpecTypeOK ==
  /\ hour \in 0 .. LastHour
  /\ \A url \in Servers : cached[url].kind \in {"missing", "torn", "whole"} /\ cached[url].at <= hour
  /\ \A r \in SpecRuns : specRuns[r].pc \in {"start", "read", "fetch", "truncate", "write", "show"}

\* What a run shows is of the server it was asked about, as that server had it
\* within the lifetime of a file before the run, or during it if it was to refresh;
\* no half-written file is shown, whichever other run writes, removes or is killed
\* in between. And what `ls' lists, `info' finds in the same specification, with
\* what it finds there of the components it refers to.
SpecIsFresh ==
  \A r \in SpecRuns :
    LET run == specRuns[r]
    IN  run.pc = "show" =>
          /\ run.spec.of = run.in.url
          /\ run.began - run.spec.at <= IF run.in.refresh THEN 0 ELSE SpecTTL
          /\ run.in.cmd = "ls" => \A op \in Shown(run) :
               \E found \in LookupEndpoint(run.spec, op.method, [name |-> op.path, absolute |-> FALSE]) :
                 found.tag = op.tag /\ found.schema # "known component"
=============================================================================
