------------------------------- MODULE Insights -------------------------------
(***************************************************************************)
(* Insight reports and their configurations: internal/cmd/insights.go and  *)
(* insights_config.go.                                                     *)
(*                                                                         *)
(* `insights create' saves a configuration and then starts a job of it,    *)
(* `insights run' starts one of a saved configuration; either may wait for *)
(* its job. The server ends jobs, starts those of a schedule, and removes  *)
(* the jobs of a configuration with it.                                    *)
(***************************************************************************)
EXTENDS Integers, FiniteSets

CONSTANTS
  InsightRuns,   \* runs of the commands
  InsightInputs, \* what they are given
  MaxConfigs,    \* bound on the configurations saved
  MaxJobs,       \* bound on the jobs started
  WaitIntervals  \* insightWaitTimeout in intervals of insightWaitInterval

ASSUME InsightAssumption == MaxConfigs \in Nat /\ MaxJobs \in Nat /\ WaitIntervals \in Nat \ {0}

VARIABLES
  configs,     \* the saved configurations by ID
  jobs,        \* the jobs by ID: of which configuration, and their status
  insightRuns  \* each run

insightVars == <<configs, jobs, insightRuns>>

Configs == 1 .. MaxConfigs
Jobs == 1 .. MaxJobs

\* A text that is empty, or a schedule that is none.
NoWords == ""

NoConfig == [name |-> NoWords, analysis |-> NoWords, description |-> NoWords, schedule |-> NoWords]
NoJob == [config |-> 0, status |-> "none"]

\* What was deleted keeps its ID.
DeletedConfig == [NoConfig EXCEPT !.description = "deleted"]

\* waited is the intervals since it waits, and file what was in its file.
NoInsightRun == [pc |-> "start", config |-> 0, job |-> 0, wait |-> FALSE, waited |-> 0, file |-> [schedule |-> "unset"]]

InsightInit ==
  /\ configs = [c \in Configs |-> NoConfig]
  /\ jobs = [j \in Jobs |-> NoJob]
  /\ insightRuns = [r \in InsightRuns |-> NoInsightRun]

-----------------------------------------------------------------------------
BeginInsight(r, in, cmds) == insightRuns[r].pc = "start" /\ in.cmd \in cmds

SetInsightRun(r, run) == insightRuns' = [insightRuns EXCEPT ![r] = run]

EndInsight(r, pc) == [insightRuns[r] EXCEPT !.pc = pc]

Saved(c) == c \in Configs /\ configs[c] \notin {NoConfig, DeletedConfig}

\* A file's field is "unset" when it is not there. Hours and samples are numbers,
\* 0 is "unset" where 0 is no value, and times are numbers too.
Given(field) == field # "unset"

\* toSDKParams: what is refused before any request.
FileRefused(f) ==
  \/ f.name = NoWords \/ f.analysis = NoWords
  \/ Given(f.model) /\ f.model \notin {"openai", "anthropic"}
  \/ Given(f.clusterModel) # Given(f.summaryModel)
  \/ f.end # 0 /\ (f.start = 0 \/ f.end <= f.start)
  \/ f.hasHours /\ (f.hours <= 0 \/ f.start # 0 \/ f.end # 0)
  \/ f.hasSample /\ f.sample <= 0

\* A description or schedule the file leaves out is left as it was; a null
\* schedule is none.
MergedConfig(old, f) ==
  [name |-> f.name, analysis |-> f.analysis,
   description |-> IF Given(f.description) THEN f.description ELSE old.description,
   schedule |-> IF f.schedule = "null" THEN NoWords ELSE IF Given(f.schedule) THEN f.schedule ELSE old.schedule]

RefuseFile(r, in) ==
  /\ BeginInsight(r, in, {"create", "update"}) /\ FileRefused(in.file)
  /\ SetInsightRun(r, EndInsight(r, "refused"))
  /\ UNCHANGED <<configs, jobs>>

\* A request fails, or its answer is lost: what was saved stays.
InsightFails(r) ==
  /\ insightRuns[r].pc \in {"start", "saved", "wait"}
  /\ SetInsightRun(r, EndInsight(r, "stopped"))
  /\ UNCHANGED <<configs, jobs>>

\* Configs.New. The server may save it and its answer be lost; the client then
\* sends the request again, and the first stays.
SaveConfig(r, in) ==
  /\ BeginInsight(r, in, {"create"}) /\ ~FileRefused(in.file)
  /\ \E c \in Configs :
       /\ configs[c] = NoConfig
       /\ configs' = [configs EXCEPT ![c] = MergedConfig(NoConfig, in.file)]
       /\ \/ SetInsightRun(r, [EndInsight(r, "saved") EXCEPT !.config = c, !.wait = in.wait, !.file = in.file])
          \/ UNCHANGED insightRuns
  /\ UNCHANGED jobs

Queued(c) == [config |-> c, status |-> "queued"]

\* Insights.New, of the configuration it saved or was given.
StartJob(r, c, wait) ==
  /\ Saved(c)
  /\ \E j \in Jobs :
       /\ jobs[j] = NoJob
       /\ jobs' = [jobs EXCEPT ![j] = Queued(c)]
       /\ SetInsightRun(r, [insightRuns[r] EXCEPT !.pc = IF wait THEN "wait" ELSE "started", !.config = c, !.job = j])
  /\ UNCHANGED configs

CreateStarts(r) == insightRuns[r].pc = "saved" /\ StartJob(r, insightRuns[r].config, insightRuns[r].wait)

RunConfig(r, in) == BeginInsight(r, in, {"run"}) /\ StartJob(r, in.config, in.wait)

\* waitForInsight: GetJob, and then until the interval or the timeout is over. The
\* mutant takes every status but "queued" for the end.
WaitEndsM(status) == IF status = "queued" THEN "wait" ELSE "completed"

WaitEnds(status) ==
  CASE status = "success" -> "completed" [] status = "error" -> "failed" [] OTHER -> "wait"

PollJob(r) ==
  LET run == insightRuns[r]
      end == WaitEnds(jobs[run.job].status)
  IN  /\ run.pc = "wait" /\ jobs[run.job].status # "deleted"
      /\ \/ end # "wait" /\ SetInsightRun(r, EndInsight(r, end))
         \/ end = "wait" /\ run.waited < WaitIntervals /\ SetInsightRun(r, [run EXCEPT !.waited = @ + 1])
         \/ end = "wait" /\ run.waited = WaitIntervals /\ SetInsightRun(r, EndInsight(r, "timed out"))
      /\ UNCHANGED <<configs, jobs>>

UpdateConfig(r, in) ==
  /\ BeginInsight(r, in, {"update"}) /\ ~FileRefused(in.file) /\ Saved(in.config)
  /\ configs' = [configs EXCEPT ![in.config] = MergedConfig(@, in.file)]
  /\ SetInsightRun(r, [EndInsight(r, "updated") EXCEPT !.config = in.config, !.file = in.file])
  /\ UNCHANGED jobs

\* Unless --yes was passed, confirmDelete wants a "y" or "yes".
DeleteConfig(r, in) ==
  /\ BeginInsight(r, in, {"delete"}) /\ Saved(in.config)
  /\ in.yes \/ in.answer \in {"y", "yes"}
  /\ configs' = [configs EXCEPT ![in.config] = DeletedConfig]
  /\ jobs' = [j \in Jobs |-> IF jobs[j].config = in.config THEN [jobs[j] EXCEPT !.status = "deleted"] ELSE jobs[j]]
  /\ SetInsightRun(r, EndInsight(r, "deleted"))

AbortDelete(r, in) ==
  /\ BeginInsight(r, in, {"delete"}) /\ ~in.yes /\ in.answer \notin {"y", "yes"}
  /\ SetInsightRun(r, EndInsight(r, "aborted"))
  /\ UNCHANGED <<configs, jobs>>

-----------------------------------------------------------------------------
\* The server.

JobEnds ==
  /\ \E j \in Jobs, status \in {"success", "error"} :
       jobs[j].status = "queued" /\ jobs' = [jobs EXCEPT ![j].status = status]
  /\ UNCHANGED <<configs, insightRuns>>

ScheduledJob ==
  /\ \E c \in Configs, j \in Jobs :
       /\ configs[c].schedule # NoWords /\ jobs[j] = NoJob
       /\ jobs' = [jobs EXCEPT ![j] = Queued(c)]
  /\ UNCHANGED <<configs, insightRuns>>

InsightNext ==
  \/ \E r \in InsightRuns, in \in InsightInputs :
       \/ RefuseFile(r, in) \/ SaveConfig(r, in) \/ RunConfig(r, in) \/ UpdateConfig(r, in)
       \/ DeleteConfig(r, in) \/ AbortDelete(r, in)
  \/ \E r \in InsightRuns : InsightFails(r) \/ CreateStarts(r) \/ PollJob(r)
  \/ JobEnds
  \/ ScheduledJob

InsightSpec == InsightInit /\ [][InsightNext]_insightVars

-----------------------------------------------------------------------------
\* Properties.

\* What is saved has a name and an analysis, and every job is of a configuration
\* that is saved, unless it was deleted with it.
InsightTypeOK ==
  /\ \A c \in Configs : Saved(c) => configs[c].name # NoWords /\ configs[c].analysis # NoWords
  /\ \A j \in Jobs : jobs[j].status \notin {"none", "deleted"} => Saved(jobs[j].config)

\* A run that waited says "completed" or "failed" of the job it started itself,
\* when that job has succeeded or failed, and gives up only after the whole time,
\* whatever jobs of the schedule or of others run and end meanwhile; and an update
\* changes no schedule and no description that its file leaves out, and of no
\* other configuration.
InsightsTellTheTruth == [][
  \A r \in InsightRuns :
    LET run == insightRuns'[r]
    IN  run.pc # insightRuns[r].pc =>
          /\ run.pc \in {"completed", "failed", "timed out"} => jobs[run.job].config = run.config
          /\ run.pc = "completed" => jobs[run.job].status = "success"
          /\ run.pc = "failed" => jobs[run.job].status = "error"
          /\ run.pc = "timed out" => run.waited = WaitIntervals /\ jobs[run.job].status = "queued"
          /\ run.pc = "updated" => \A c \in Configs :
               /\ c # run.config => configs'[c] = configs[c]
               /\ ~Given(run.file.schedule) => configs'[c].schedule = configs[c].schedule
               /\ ~Given(run.file.description) => configs'[c].description = configs[c].description
  ]_insightVars
=============================================================================
