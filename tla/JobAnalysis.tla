----------------------------- MODULE JobAnalysis -----------------------------
(* analyze_job of openqa-llm-investigate: the details of a job, the history   *)
(* of similar runs under a budget of requests, and either the log of a job    *)
(* that has no failed module or its logs and the report of its first failed   *)
(* modules.  The files come through CappedFetch, what is shown of them is     *)
(* defined in LogText and FailingSteps.                                       *)
EXTENDS FailingSteps, LogText, CappedFetch

CONSTANTS
  Results,     \* the results a job can have
  ModulesMax,  \* _MODULES_MAX
  FailedBound, \* no job has more failed modules
  MaxFetches,  \* _HISTORY_MAX_FETCHES
  MaxGroups,   \* _HISTORY_MAX_GROUPS
  RunsBound,   \* no list of failed runs is longer
  Details,     \* the details of modules
  Texts,       \* the logs of each kind
  Ranges,
  Consoles,
  JobLogs

ASSUME AnalysisAssumption ==
  /\ ModulesMax \in Nat /\ FailedBound \in Nat /\ RunsBound \in Nat
  /\ MaxFetches \in Nat /\ MaxGroups \in Nat
  /\ Context \in Nat /\ Context > 0
  /\ Ranges \subseteq Seq(RangeKinds) /\ Details \subseteq Seq(StepKinds)
  /\ Texts \subseteq Seq(TextKinds) /\ Consoles \subseteq Seq(ConsoleKinds)

None == <<>>

VARIABLES
  phase,    \* what analyze_job does next
  job,      \* the API data of the job: its result, and is there a reason
  left,     \* the failed modules that are not reported yet
  fetched,  \* lookups.fetched
  section,  \* the part of the report that was made last,
  input,    \* what it was made of,
  report    \* and what it says

analysisVars == <<phase, job, left, fetched, section, input, report>>
allVars == <<analysisVars, fetchVars>>

Phases == {"details", "api", "previous", "next", "siblings", "modules", "joblevel",
           "serial", "autoinst", "scan", "report", "range", "condense", "rest", "done",
           "no details", "no failed modules"}
Sections == {"none", "runs", "job", "console", "module", "range", "text"}

Jobs == [result : Results, reason : BOOLEAN]
NoJob == [result |-> "none", reason |-> FALSE]

TypeOK ==
  /\ phase \in Phases /\ section \in Sections
  /\ job \in Jobs \cup {NoJob}
  /\ left \in 0 .. FailedBound /\ fetched \in Nat
  /\ FetchTypeOK /\ total <= BodyBound

Init ==
  /\ phase = "details" /\ job = NoJob /\ left = 0 /\ fetched = 0
  /\ section = "none" /\ input = None /\ report = None /\ FetchInit

Goes(from, to) == phase = from /\ phase' = to
Makes(s, i, r) == section' = s /\ input' = i /\ report' = r
Keeps == UNCHANGED <<section, input, report>>
-----------------------------------------------------------------------------
(* /tests/<id>/details_ajax: its failed modules, or AnalyzerError.            *)
FetchDetails ==
  /\ \/ Goes("details", "api") /\ left' \in 0 .. FailedBound
     \/ Goes("details", "no details") /\ UNCHANGED left
  /\ Keeps /\ UNCHANGED <<job, fetched, fetchVars>>

(* fetch_job: {} when the job cannot be fetched.                              *)
FetchJob ==
  /\ Goes("api", "previous") /\ job' \in Jobs \cup {NoJob}
  /\ Keeps /\ UNCHANGED <<left, fetched, fetchVars>>
-----------------------------------------------------------------------------
(* What the requests for earlier lists of runs have left of the budget.       *)
Budget == Max({MaxFetches - fetched, 0})

Count(runs, kind) == Cardinality({i \in DOMAIN runs : runs[i] = kind})

(* Mutant of RanksBefore: the most frequent failure comes first.              *)
RanksByCount(runs, j, k) == Count(runs, j) > Count(runs, k)

(* Failures of the flavor of the job come first, then more frequent ones.     *)
RanksBefore(runs, j, k) ==
  \/ j.flavor /\ ~ k.flavor
  \/ j.flavor = k.flavor /\ Count(runs, j) > Count(runs, k)

(* Groups keep the order of their first runs when nothing ranks them.         *)
FirstOf(runs, k) == Min({i \in DOMAIN runs : runs[i] = k})
ComesBefore(runs, j, k) ==
  \/ RanksBefore(runs, j, k)
  \/ ~ RanksBefore(runs, k, j) /\ FirstOf(runs, j) < FirstOf(runs, k)

(* The first n of the groups, as they are sorted.                             *)
FirstGroups(runs, groups, n) ==
  {k \in groups : Cardinality({j \in groups : ComesBefore(runs, j, k)}) < n}

(* _failure_groups: identical failures are a group.  The first ones are shown,*)
(* and the commands of the latest run of each that has failed modules are     *)
(* requested while the budget lasts.                                          *)
FailureGroups(runs) ==
  LET shown == FirstGroups(runs, ToSet(runs), MaxGroups)
  IN  [shown |-> shown, more |-> Cardinality(ToSet(runs) \ shown),
       requested |-> FirstGroups(runs, {k \in shown : k.modules}, Budget)]

(* A list of runs: previous ones, next ones, siblings.  One that cannot be    *)
(* fetched or parsed is left out.                                             *)
Summarize(from, to, flavors) ==
  /\ Goes(from, to)
  /\ \/ Makes("none", None, None) /\ UNCHANGED fetched
     \/ \E n \in 1 .. RunsBound :
          \E runs \in [1 .. n -> [flavor : flavors, modules : BOOLEAN]] :
            /\ Makes("runs", runs, FailureGroups(runs))
            /\ fetched' = fetched + Cardinality(FailureGroups(runs).requested)
  /\ UNCHANGED <<job, left, fetchVars>>

PreviousRuns == Summarize("previous", "next", {FALSE})
NextRuns == Summarize("next", "siblings", {FALSE})
Siblings == Summarize("siblings", "modules", BOOLEAN)

(* if not failed_modules, and failed_modules[:_MODULES_MAX].                  *)
AnyModules ==
  /\ phase = "modules" /\ phase' = IF left = 0 THEN "joblevel" ELSE "serial"
  /\ left' = Min({left, ModulesMax}) /\ fetched' = 0
  /\ job' = IF left = 0 THEN job ELSE NoJob   \* not used any more
  /\ Makes("none", None, None) /\ UNCHANGED fetchVars
-----------------------------------------------------------------------------
(* The file that is read is one of the log of a job without failed modules,   *)
(* the serial log, and the log of os-autoinst.                                *)
Reading ==
  /\ phase \in {"serial", "autoinst"} \/ (phase = "joblevel" /\ ~ Quiet(job))
  /\ UNCHANGED analysisVars
RequestFile == Reading /\ Request
ReceiveFile == Reading /\ Receive
CompleteFile == Reading /\ Complete
LoseFile == Reading /\ FetchFails

Read == file \in {"full", "capped", "failed"}
Forget ==
  /\ file' = "absent" /\ head' = <<>> /\ tail' = <<>> /\ total' = 0
  /\ newlines' = {} /\ omitted' = 0

(* The text is empty when the file is, or could not be fetched.               *)
JobLevel ==
  /\ phase = "joblevel" /\ (Quiet(job) \/ Read) /\ Forget
  /\ \E log \in IF total = 0 THEN {<<>>} ELSE JobLogs :
       /\ Makes("job", log, JobLevelFailure(job, log))
       /\ phase' = IF JobLevelFailure(job, log).reported THEN "done"
                   ELSE "no failed modules"
  /\ UNCHANGED <<job, left, fetched>>

ReadLogs ==
  /\ Goes("serial", "autoinst") \/ Goes("autoinst", "scan")
  /\ Read /\ Forget /\ Keeps /\ UNCHANGED <<job, left, fetched>>
-----------------------------------------------------------------------------
Idle == section = "none"

(* scan_kernel_crash and kdump_oops_symbol on a console.                      *)
ScanCrash ==
  /\ Idle /\ phase = "scan"
  /\ \E log \in Consoles :
       Makes("console", log, [crash |-> CrashReport(log), oops |-> KdumpOops(log)])
  /\ UNCHANGED <<phase, job, left, fetched, fetchVars>>

(* _module_report of the next failed module.                                  *)
ReportModule ==
  /\ Idle /\ phase = "report" /\ left' = left - 1
  /\ \E d \in Details : Makes("module", d, ClusterReport(d))
  /\ UNCHANGED <<phase, job, fetched, fetchVars>>

(* _autoinst_range: the range of its steps, then condensed.                   *)
FindRange ==
  /\ Idle /\ phase = "range"
  /\ \E log \in Ranges : Makes("range", log, FindLogRange(log, 2 * Context))
  /\ UNCHANGED <<phase, job, left, fetched, fetchVars>>

CondenseRange ==
  /\ Idle /\ phase = "condense"
  /\ \E log \in Texts : Makes("text", log, Condense(log, Context))
  /\ UNCHANGED <<phase, job, left, fetched, fetchVars>>

(* Mutant of MoreModules: one module too many.                                *)
MoreModulesOrNone == left >= 0

(* for module in failed_modules[:_MODULES_MAX]                                *)
MoreModules == left > 0

(* out += ...: the section is part of the report.                             *)
Emit ==
  /\ section \in {"console", "module", "range", "text"}
  /\ phase' = CASE section = "module" /\ report.cluster # {} -> "range"
                [] section = "range" -> "condense"
                [] OTHER -> IF MoreModules THEN "report" ELSE "rest"
  /\ Makes("none", None, None) /\ UNCHANGED <<job, left, fetched, fetchVars>>

(* The modules that are not reported are named.                               *)
Rest == Idle /\ Goes("rest", "done") /\ Keeps /\ UNCHANGED <<job, left, fetched, fetchVars>>

Next ==
  \/ FetchDetails \/ FetchJob \/ PreviousRuns \/ NextRuns \/ Siblings \/ AnyModules
  \/ RequestFile \/ ReceiveFile \/ CompleteFile \/ LoseFile \/ JobLevel \/ ReadLogs
  \/ ScanCrash \/ ReportModule \/ FindRange \/ CondenseRange \/ Emit \/ Rest

Spec == Init /\ [][Next]_allVars
-----------------------------------------------------------------------------
(* _failure_groups and Lookups: "the shared budget of per-job detail fetches"  *)
(* holds for the lists of runs together, and "same-flavor kinds first, so they*)
(* win the group cap and the fetch budget": in a list no failure of another   *)
(* flavor takes the place or the request of one of the flavor of the job.     *)
BudgetForOwnFlavor ==
  /\ fetched <= MaxFetches
  /\ section = "runs" =>
       \A j, k \in ToSet(input) :
         j.flavor /\ ~ k.flavor =>
           /\ k \in report.shown => j \in report.shown
           /\ k \in report.requested /\ j.modules => j \in report.requested

(* Failing steps before the post-fail hook, as failing_cluster promises them. *)
OwnFailures(d) ==
  {i \in DOMAIN d : d[i] \in FailKinds \ {"hook"} /\ \A j \in 1 .. i - 1 : d[j] # "postfail"}

(* failing_cluster: a module is said to be failed by its last failures outside*)
(* the post-fail hook, never by a failure in the hook or by one that the test *)
(* survived, and by a failure whenever it has one; the retries that are left  *)
(* out failed in the same ways.                                               *)
LastOwnFailureChosen ==
  section = "module" =>
    LET own == OwnFailures(input)
    IN  /\ report.cluster \subseteq own
        /\ own # {} => Max(own) \in report.cluster
        /\ \A i \in report.retries :
             /\ i \in own /\ \A c \in report.cluster : i < c
             /\ \E c \in report.cluster : input[i] = input[c]

(* _step_context: the marker is shown once, on a step that is shown too, and  *)
(* only failed screens lie between it and the step that failed the module,    *)
(* which is shown whatever is left out of a long cluster.                     *)
MarkerBeforeFailure ==
  section = "module" /\ report.cluster # {} =>
    LET lines == report.context
        failing == FailingStep(input, report.cluster)
    IN  /\ failing \in DOMAIN lines
        /\ \E m \in 1 .. failing :
             /\ {i \in DOMAIN lines : lines[i].marked} = {m}
             /\ \A i \in m .. failing - 1 : input[i] \in {"bare", "noise"}

(* _step_context: what lies between two steps that are shown is counted as    *)
(* omitted, or is noise outside the cluster.                                  *)
StepsAccounted ==
  section = "module" =>
    LET lines == report.context
    IN  \A i, j \in DOMAIN lines :
          i < j /\ DOMAIN lines \cap (i + 1 .. j - 1) = {} =>
            IF lines[j].omitted > 0 THEN lines[j].omitted = j - i - 1
            ELSE \A m \in i + 1 .. j - 1 :
                   input[m] = "noise" /\ m \notin Inside(report.cluster)

(* condense_log: "[debug] lines (and their continuation lines) are dropped    *)
(* unless they carry signal".  Every other line is shown, or counted among    *)
(* the earlier ones, the polls or the frames of a long trace.                 *)
SignalsKept ==
  section = "text" =>
    LET continues(i) == \E j \in 1 .. i - 1 :
          /\ input[j] = "debug"
          /\ \A m \in j + 1 .. i : ~ Stamped(input[m])
        expected == {i \in DOMAIN input :
                       \/ input[i] = "signal"
                       \/ input[i] \in {"more", "frame"} /\ ~ continues(i)
                       \/ input[i] = "poll" /\ \A j \in 1 .. i - 1 : input[j] # "poll"}
    IN  /\ report.lines \subseteq expected
        /\ \A i \in expected \ report.lines : \A j \in report.lines : i < j
        /\ report.omitted + Cardinality(report.lines) = Cardinality(expected)
        /\ report.polls = Cardinality({i \in DOMAIN input : input[i] = "poll"})
        /\ \A i \in report.trimmed :
             /\ i \in report.lines /\ input[i] = "frame"
             /\ \E j \in 1 .. i - 1 : input[j] = "frame"

(* find_log_range: the range begins with the last line that has its start, a  *)
(* command line if there is one, ends with its end if that follows, is not    *)
(* longer than the limit, and what is missing of it is counted.               *)
RangeSpansSteps ==
  section = "range" =>
    LET best(marker) == {i \in DOMAIN input : Has(input[i], marker) /\
          \A j \in DOMAIN input : Has(input[j], marker) =>
            \/ input[j] # input[i] /\ input[j] = marker
            \/ input[j] = input[i] /\ j <= i}
        shown == report.first \o report.last
    IN  /\ (best("start") = {}) = (shown = <<>>)
        /\ Len(shown) <= 2 * Context
        /\ shown # <<>> =>
             /\ best("start") = {shown[1]}
             /\ \A i \in best("end") : i >= shown[1] =>
                  /\ Last(shown) = i
                  /\ Len(shown) + report.omitted = i - shown[1] + 1

(* _crash_report and kdump_oops_symbol: a crash that no test triggered is     *)
(* shown, the last of them, and only a crash alone in its log that a test      *)
(* triggered is called expected; an oops is named only when it comes after a  *)
(* crash that was triggered.                                                  *)
UntriggeredCrashShown ==
  section = "console" =>
    LET fatal == {i \in DOMAIN input : input[i] = "fatal"}
        begins == {i \in fatal : fatal \cap (i - EventGap .. i - 1) = {}}
        ends(i) == Max({j \in fatal : j >= i /\ begins \cap (i + 1 .. j) = {}})
        triggered(i) == \E s \in i - LookBack .. ends(i) :
                          s \in DOMAIN input /\ input[s] = "sysrq"
        untriggered == {i \in begins : ~ triggered(i)}
        crash == report.crash
    IN  /\ (fatal = {}) = (crash.first = 0)
        /\ untriggered # {} =>
             crash.first = Max(untriggered) /\ crash.first \in crash.lines
        /\ crash.expected = (Cardinality(begins) = 1 /\ untriggered = {})
        /\ report.oops > 0 =>
             \E t \in begins \ untriggered, u \in untriggered :
               t < u /\ report.oops \in u .. ends(u)
=============================================================================
