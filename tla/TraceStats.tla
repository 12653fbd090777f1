------------------------------- MODULE TraceStats -------------------------------
(***************************************************************************)
(* `trace stats' (internal/cmd/trace_stats.go): numbers about the root     *)
(* traces of a time window, and of a second one to compare with, each by a *)
(* request of its own, while the clock goes on and traces come in.         *)
(*                                                                         *)
(* Every number is abstracted to how many traces it is about.              *)
(***************************************************************************)
EXTENDS Integers, Sequences, SequencesExt, FiniteSetsExt

CONSTANTS
  StatsInputs,  \* what the command is given: see StatsInput
  OverviewKeys, \* the stats with a row of the table, in its order
  Week,         \* how long the default window is
  EndOfTime     \* bound on the clock

\* A name that is left empty.
NoStat == ""

ASSUME StatsAssumption ==
  /\ Week \in Nat /\ EndOfTime \in Nat
  /\ OverviewKeys \in Seq(STRING) /\ \A m, n \in DOMAIN OverviewKeys : OverviewKeys[m] = OverviewKeys[n] => m = n
  /\ \A n \in DOMAIN OverviewKeys : OverviewKeys[n] \notin {"feedback_stats", NoStat}
  /\ \A in \in StatsInputs :
       /\ in.select \in Seq(STRING) /\ in.last \in Nat /\ in.cmpLast \in Nat
       /\ {in.since, in.before, in.cmpSince, in.cmpBefore} \subseteq Nat \cup {-1}

VARIABLES
  clock,    \* the time
  started,  \* when the traces started: one for each of these times
  stats     \* the command

statsVars == <<clock, started, stats>>

StatsKeys == ToSet(OverviewKeys) \cup {"feedback_stats"}

\* Times are positive numbers, 0 where a flag is not given and -1 where its value
\* is no time. Names of stats may be unknown, repeated or NoStat.
StatsInput(select, since, before, last, cmpSince, cmpBefore, cmpLast, pretty) ==
  [select |-> select, since |-> since, before |-> before, last |-> last,
   cmpSince |-> cmpSince, cmpBefore |-> cmpBefore, cmpLast |-> cmpLast, pretty |-> pretty]

Window(from, to) == [from |-> from, to |-> to]

\* A request as the server gets it: when, and the traces that there are.
AskedWhen(at, traces) == [at |-> at, traces |-> traces]

NoStats == [k \in StatsKeys |-> 0]

NotAsked == [pc |-> "idle", in |-> CHOOSE in \in StatsInputs : TRUE, keys |-> <<>>, primary |-> NoStats, compare |-> NoStats,
             rows |-> <<>>, asked |-> AskedWhen(0, {}), cmpAsked |-> AskedWhen(0, {})]

StatsInit ==
  /\ clock \in Week + 1 .. EndOfTime
  /\ started \in {{}, {1}, 1 .. clock}
  /\ stats = NotAsked

-----------------------------------------------------------------------------
\* The names of a list that are in a set, each once.
EachOnce(names, set) ==
  LET first == {i \in DOMAIN names : names[i] \in set /\ \A j \in 1 .. i - 1 : names[j] # names[i]}
      once[i \in 0 .. Len(names)] ==
        IF i = 0 THEN <<>> ELSE IF i \in first THEN Append(once[i - 1], names[i]) ELSE once[i - 1]
  IN  once[Len(names)]

\* resolveStatsSelect: the names that are left, each once, or none if one is unknown.
ResolveStatsSelect(select) ==
  LET named == IF select = <<>> THEN Append(OverviewKeys, "feedback_stats") ELSE select
  IN  IF \A n \in DOMAIN named : named[n] \in StatsKeys \cup {NoStat} THEN EachOnce(named, StatsKeys) ELSE <<>>

\* resolveStartTime, for a request made at a time: the minutes go before the start,
\* and the mutant takes the start before the minutes.
StatsStartM(since, last, at) ==
  IF since > 0 THEN since ELSE IF last > 0 THEN at - last ELSE at - Week

StatsStart(since, last, at) ==
  IF last > 0 THEN at - last ELSE IF since > 0 THEN since ELSE at - Week

\* An end that is no time is left out, and the window is open.
StatsWindow(since, before, last, at) ==
  Window(StatsStart(since, last, at), IF before > 0 THEN before ELSE EndOfTime + 1)

InWindow(window) == {t \in started : window.from <= t /\ t < window.to}

\* The server measures what is asked; statsFromResponse and statsFromMapItem leave
\* the others at zero.
Measured(keys, window) ==
  [k \in StatsKeys |-> IF k \in ToSet(keys) THEN Cardinality(InWindow(window)) ELSE 0]

HasCompare(in) == in.cmpSince # 0 \/ in.cmpBefore # 0 \/ in.cmpLast > 0

StartStats(in) ==
  /\ stats.pc = "idle"
  /\ LET keys == ResolveStatsSelect(in.select)
     IN  stats' = [NotAsked EXCEPT !.in = in, !.keys = keys,
                     !.pc = IF keys = <<>> \/ (in.since = -1 /\ in.last = 0) THEN "failed" ELSE "primary"]
  /\ UNCHANGED <<clock, started>>

FetchStats ==
  /\ stats.pc = "primary"
  /\ LET in     == stats.in
         window == StatsWindow(in.since, in.before, in.last, clock)
     IN  stats' = [stats EXCEPT !.primary = Measured(stats.keys, window), !.asked = AskedWhen(clock, started),
                                !.pc = IF HasCompare(in) THEN "compare" ELSE "print"]
  /\ UNCHANGED <<clock, started>>

\* A start that is no time ends the command here, after the first request.
FetchCompareStats ==
  /\ stats.pc = "compare"
  /\ LET in     == stats.in
         window == StatsWindow(in.cmpSince, in.cmpBefore, in.cmpLast, clock)
     IN  stats' = IF in.cmpSince = -1 /\ in.cmpLast = 0 THEN [stats EXCEPT !.pc = "failed"]
                  ELSE [stats EXCEPT !.compare = Measured(stats.keys, window), !.cmpAsked = AskedWhen(clock, started),
                                     !.pc = "print"]
  /\ UNCHANGED <<clock, started>>

StatsFail ==
  /\ stats.pc \in {"primary", "compare"}
  /\ stats' = [stats EXCEPT !.pc = "failed"]
  /\ UNCHANGED <<clock, started>>

-----------------------------------------------------------------------------
StatsRow(key, run) == [key |-> key, value |-> run.primary[key],
                       other |-> IF HasCompare(run.in) THEN run.compare[key] ELSE 0,
                       delta |-> IF HasCompare(run.in) THEN run.primary[key] - run.compare[key] ELSE 0]

\* selectedStats.
SelectedStats(run) == [n \in DOMAIN run.keys |-> StatsRow(run.keys[n], run)]

\* printStatsPretty: the selected rows in the order of the table, and then the
\* feedback, of which the rows are those of the first window.
PrintStatsPretty(run) ==
  LET kept == EachOnce(OverviewKeys, ToSet(run.keys))
      all  == IF "feedback_stats" \in ToSet(run.keys) /\ run.primary["feedback_stats"] > 0
              THEN Append(kept, "feedback_stats") ELSE kept
  IN  [n \in DOMAIN all |-> StatsRow(all[n], run)]

PrintStats ==
  /\ stats.pc = "print"
  /\ stats' = [stats EXCEPT !.pc = "done", !.rows = IF stats.in.pretty THEN PrintStatsPretty(stats) ELSE SelectedStats(stats)]
  /\ UNCHANGED <<clock, started>>

\* Time passes, and with it a trace may start; one may be reported late.
ClockTicks ==
  /\ clock < EndOfTime /\ clock' = clock + 1
  /\ \E t \in {0, clock, clock + 1} : started' = started \cup ({t} \ {0})
  /\ UNCHANGED stats

StatsNext ==
  \/ \E in \in StatsInputs : StartStats(in)
  \/ FetchStats \/ FetchCompareStats \/ StatsFail \/ PrintStats \/ ClockTicks

StatsSpec == StatsInit /\ [][StatsNext]_statsVars

-----------------------------------------------------------------------------
\* Properties.

\* The state keeps its shape.
StatsTypeOK ==
  /\ stats.pc \in {"idle", "primary", "compare", "print", "done", "failed"}
  /\ started \subseteq 1 .. EndOfTime
  /\ ToSet(stats.keys) \subseteq StatsKeys

\* When the window starts that flags name, as --help says it: at --since, some minutes
\* before the request, or a week before it; minutes override --since.
NamedStart(since, last, asked) ==
  IF last > 0 THEN asked.at - last ELSE IF since > 0 THEN since ELSE asked.at - Week

\* The traces, of those there were at a request, that started in the window that flags
\* name: until --before, or until the time of the request.
NamedBy(since, before, last, asked) ==
  {t \in asked.traces : NamedStart(since, last, asked) <= t /\ IF before > 0 THEN t < before ELSE t <= asked.at}

\* No number is shown that was not measured, and none of other traces than the flags
\* name. Each row is of a stat that was asked for, or of all if none was, shown once,
\* and in JSON none is missing. Its value is of the traces of the window that --since,
\* --before and --last-n-minutes name (unless --before is no time, which the code
\* passes over in silence), the other one of those between --compare-since and
\* --compare-before if both are given, and the difference is that of the two.
StatsAreMeasured ==
  stats.pc = "done" =>
    LET in    == stats.in
        asked == IF in.select = <<>> THEN StatsKeys ELSE ToSet(in.select) \ {NoStat}
        shown == {stats.rows[n].key : n \in DOMAIN stats.rows}
    IN  /\ shown \subseteq asked /\ Cardinality(shown) = Len(stats.rows)
        /\ ~in.pretty => shown = asked
        /\ \A n \in DOMAIN stats.rows :
             LET row == stats.rows[n]
             IN  /\ in.before >= 0 => row.value = Cardinality(NamedBy(in.since, in.before, in.last, stats.asked))
                 /\ in.cmpSince > 0 /\ in.cmpBefore > 0 /\ in.cmpLast = 0 =>
                      row.other = Cardinality(NamedBy(in.cmpSince, in.cmpBefore, 0, stats.cmpAsked))
                 /\ HasCompare(in) => row.delta = row.value - row.other

\* What --help says of the window to compare with: --compare-before is where the first
\* window starts unless it is given, and --compare-last-n-minutes are the minutes
\* before that start. The code leaves the end open and counts back from the request.
ComparesAsHelped ==
  LET in    == stats.in
      start == NamedStart(in.since, in.last, stats.asked)
      from  == IF in.cmpLast > 0 THEN start - in.cmpLast ELSE in.cmpSince
      to    == IF in.cmpBefore > 0 THEN in.cmpBefore ELSE start
  IN  /\ stats.pc = "done" /\ in.cmpBefore >= 0
      /\ IF in.cmpLast > 0 THEN in.cmpBefore = 0 ELSE in.cmpSince > 0
      => \A n \in DOMAIN stats.rows :
           stats.rows[n].other = Cardinality({t \in stats.cmpAsked.traces : from <= t /\ t < to})
=============================================================================
