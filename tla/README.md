# A TLA+ verification of os-autoinst-scripts

The repository holds the scripts around the openQA instances of openSUSE and
SUSE: hooks openQA calls for finished jobs, pipelines that test and submit
openQA itself, and maintenance tools. This directory has TLA+ models of those
that coordinate with others through shared state, TLC configurations that check
the models on small instances, and proofs of their main properties checked by
TLAPS.

## 1. The system

| Component | State it keeps or shares | Operations | What is hard |
|---|---|---|---|
| `openqa-investigate` | comments on openQA jobs, cloned jobs; nothing local | investigate a failed job, report a finished retry job | concurrent hooks for the jobs of one cluster, coordinated only by comment ids; postponed runs; deleted jobs; failures half way |
| `openqa-label-known-issues-and-investigate-hook` | none; composes the tools by exit codes and stdout | review, LLM gate, investigate, bisect | openQA calls it again after exit code 142, and every tool must cope with its own earlier effects |
| `openqa-llm-investigate` | its summary comment | gate, summary | state read before minutes of waiting for the model |
| `openqa-label-known-issues` | labels, restarts | label, restart | restarts without limit, two effects that can fail separately |
| `openqa-trigger-bisect-jobs` | bisect jobs, one comment | one job per update | partial failure, repetition |
| `s390x-qemu-zombie-reaper.py` | state file of reboots, lock file, hypervisors, running jobs | check, reboot, HMC reset, restart jobs | threads, deadlines, a host that is neither up nor down |
| `trigger-openqa_in_openqa`, `_common`, `cleanup-obs-project` | staging project, `job_post_skip_submission`, `job_post_response` | snapshot, trigger | the staging project is the only lock between pipelines |
| `monitor-openqa_job` | the same files | follow jobs, block the submission | crash between two effects, empty input |
| `os-autoinst-obs-auto-submit` | OBS packages, submit and pull requests | wait for builds, submit, clean up | retries, throttling, exceptions that leave the staging project in use |
| `rotate-gitlab-token.py` | GitLab token, CI variable, schedule | check, move the schedule, rotate, write the variable | overlapping pipelines, crash between two effects, days that must fit together |
| `openqa-powermanagement.py` | power of the worker machines | list jobs, list workers, switch on, switch off | decisions from lists that grow old, commands that fail |
| `openqa_llm_investigate` (the package) | the requests one analysis has made | details, history, logs, report of the failed modules | which of many failing steps is the one, what may be left out, limits |
| reports, queries, checks, vendored code, tests | none | read only | not modelled, see `PROJECT.json` |

How they interact: openQA starts the hook for every finished job; the hook pipes
the job through `openqa-label-known-issues`, `openqa-llm-investigate`,
`openqa-investigate` and `openqa-trigger-bisect-jobs`. These tools talk to each
other only through openQA: comments, clones, restarts and job settings. The
jobs that `openqa-investigate` creates finish and call the hook in turn, which
then reports to the job they were created for. The pipeline for openQA itself
runs `trigger-openqa_in_openqa`, `monitor-openqa_job` and
`os-autoinst-obs-auto-submit` one after the other in one directory, and several
pipelines share the OBS projects.

What makes each of them correct: at most one investigation per cluster, and not
none; no leftover that blocks later runs; every run ends; a report arrives
where its reader looks for it; a restart is bounded; nothing untested is
submitted; a failing pipeline does not block the next; a host's jobs are
restarted only once it is back; a token is never lost; a machine is not switched
off under a running job; a report names the step that failed and counts what it
leaves out. The hazards are listed
one by one, with their lines, in `PROJECT.json`.

## 2. Modules and how they correspond to the code

Every definition that stands for code is listed with its lines in the `map` of
`PROJECT.json`. The rules are the same everywhere: an action is one call to
openQA (or one tool) with the local code up to the next one, the shared state is
what openQA keeps, and everything others can do to it in between is an action of
its own. Operators marked "Mutant of" are plausible bugs; they are not part of
any specification and only serve to show that the properties notice them.

### `Investigate` (`openqa-investigate`, `run_investigation_logic`)

`Runs` are processes, `JobOf` the job each is called for, `Cluster` the parallel
cluster of a job. `exists`, `pending`, `cloned` are openQA's job table,
`comments` its investigation comments with ids that only grow (`nextId`). `pc`
says which call is next, and the local variables of the code are `view` (the
cluster as read from `dependencies_ajax`), `cid` (`comment_id_str`), `todo` (the
regression jobs `_trigger_regression_jobs` still has to trigger) and `failure`
(the exception being handled). `lines`, `clones` and `stray` record results.

| Actions | Code |
|---|---|
| `GetJob`, `Postpone`, `Enter` | reading the job, `query_dependency_data_or_postpone`, `_should_exclude_job` |
| `PostStarting`, `ListComments`, `Yield` | `sync_via_investigation_comment` |
| `TriggerRetry`, `GetInvestigation`, `TriggerRegression` | `trigger_jobs`, `clone` with its five ways to end (`CloneRefused`, `CloneMade`, `CloneGone`, `CloneLeftOut`, `CloneFails`) |
| `ReportFailure` | the exception handler of `run_investigation_logic` |
| `Finalize`, `Repost` | `finalize_investigation_comment` |
| `RetryHook`, `FinishJob`, `RestartJob`, `DeleteJob`, `Crash` | openQA, people, the operating system |

Comment texts are reduced to what `INVESTIGATION_COMMENT_RE` tells apart.
`ClusterLock` is what the comments are for: a lock per job, whose claims are
given up or kept for ever. `Investigate` implements it (`ImplementsLock`).

### `PostInvestigate` (`openqa-investigate`, `post_investigate`)

One origin and up to `MaxInvestigations` investigations of it, each reduced to
what the second half of the tool sees: jobs that get created, a report that
appears or not. Why the origin fails (`cause`) and what changed since the last
good job (`changed`, and `blank`, what the last good job's `vars.json` does not
name) are chosen at the start and determine which jobs pass; that is how the
decision table of `identify_issue_type` is judged. `CloneRetry`,
`CloneRegression`, `Fail` and `Report` are the coarse view of the actions of
`Investigate`; `VerifyRetry`, `FetchResults` and `PostVerdict` are the calls of
`post_investigate`. A job that is triggered may not come about: `clone` leaves it
out, or openQA answers 404, and then the line of the report names no job. The
status of the listed jobs is read at one instant; a job whose end is missed
postpones the hook, which is called again.

### `InvestigateHook` (the hook script)

One job, one chain of hook calls. `Call` to `Bisect` are the tools in the order
of the script; `done` and `again` collect what the tools have done to the job
over all calls, and are what the properties speak of. `kind`, `gated`,
`clustered` and `broken` (what fails now and then) are chosen at the start.
`openqa-investigate` is one step here, with the outcomes "nothing", 142 and
"called"; what it does in the last case is in the modules above. The gate's
history is `streak` (the runs up to the job failed), by which the answer of the
model is corrected (`BisectVerdict`). `Seen` is what a tool gets to know of such a
fact: nothing when openQA cannot be read, so that a reviewed job looks unreviewed
and a streak like none. The hook itself ends when it cannot read the job
("unreadable"). The rules that decline without asking the model are steps of `Gate`.

### `ZombieReaper` (`s390x-qemu-zombie-reaper.py`)

`Procs` are runs of the script, each with a thread per host (`pc[p][h]`), kept
apart by `lock`; `rec` is the state file, which is all that a run knows of the
earlier ones. A host is `power` (up, going down, down, dead, cleared) and
`health`; `job` is what openQA has on it. Time is a tick of some minutes. SSH and
openQA calls take seconds, so no tick falls into them; waits and HMC operations
(`Operating`) take many, the latter up to `HmcWait` ticks each. The record of an HMC
reset is written before its operations: `late` is how old it was when the host
began to boot. Ages and waits stop at the constant they are compared with.

| Actions | Code |
|---|---|
| `StartRun`, `StartHost`, `EndRun` | `reap`, `reap_all_hosts`, the lock file |
| `Scan`, `Verify`, `CheckLibvirt`, `GraceOver` | `check_host`, `find_critical`, `check_libvirt_health`, `reboot_deadline`, `wait_for_host` |
| `ListJobs`, `RecordReboot`, `Command` | `get_running_jobs`, `record_reboot`, `issue_reboot` |
| `WaitOver`, `Mark`, `Reset`, `Load`, `Status`, `HmcFails`, `ReturnOver` | `recover_host` with the HMC fallback: the record, reset-clear, load, the wait for the status, the second wait for the host |
| `Settled`, `RestartJobs` | `recover_for_jobs`, `trigger_actions` |
| `Die`, `Sicken`, `Heal`, `GoDown`, `Boot`, ... | the machines, the operating system, openQA |

### `RotateToken` (`rotate-gitlab-token.py`)

A tick is a day. `left` is what remains of the token, `next` when the schedule
fires, `var` whether the CI variable holds the active token, `cred[p]` whether
the token pipeline `p` logs in with is the active one: a rotation makes all
others invalid. `Check`, `Schedule`, `Rotate`, `Update` are the calls of
`main`, each of which may fail (`Abort`). A pipeline of the schedule may wait
`Delay` days for a runner; a token that got lost is replaced by a person within
`Patience` days.

### `PowerManagement` (`openqa-powermanagement.py`)

One script that runs again and again. `classes` and `seen` are the lists it has
read, `toOn` and `toOff` the machines that are left to be switched, sorted as in
the code (`Sorted` gives each machine the place of its rank, which the proofs can
count with). Everything openQA, workers and people do goes on
between two of its steps.

### `StagingPipeline` (`trigger-openqa_in_openqa`, `monitor-openqa_job`, `os-autoinst-obs-auto-submit`)

`src`, `staging` and `dst` are the three OBS projects, a revision for each
package (0: not there). A pipeline runs the three tools one after the other in
one directory, of which `skip` is the file `job_post_skip_submission`; `todo` is
what is left of the loop over packages it is in.

| `pc` | Actions | Code |
|---|---|---|
| list, release | `ListStaging`, `Release`, `NotReady`, `BrokenServicedata`, `Published` | `create_devel_openqa_snapshot`, `sync_changesrevision` |
| schedule, test | `Schedule`, `Install` | `trigger`, and the jobs |
| result | `JobsEnd`, `NoJobs`, `MonitorFails`, `Emptied` | `monitor-openqa_job` |
| drop, rollback, empty, clean and their loops | `ListPackages`, `DeletePackage`, `Dropped`, `Cleaned` | the two versions of `delete_packages_from_obs_project`, which differ in what an error does |
| submit, package, update, remove | `Submit`, `Checkout`, `Update`, `Remove`, `SubmitFails`, `Submitted` | `_run_submissions`, `handle_auto_submit` |

Which package a loop takes next is left open. `Update` is all that may come of a
package: up to date, refused, committed, submitted or not. Any set of faults in
`FaultSets` is chosen at the start and may strike at every call of its kind.

### `CappedFetch`, `Places`, `LogText`, `FailingSteps`, `JobAnalysis` (`openqa_llm_investigate/`)

`CappedFetch` is the transfer of one file (`job_file`, `_capped`): chunks of any
size, of which the beginning and the end are kept, and both cut at a newline
(`BeforeLast`, `AfterFirst`; where the body has its newlines is chosen when it is
requested). `LogText` and `FailingSteps`
define the pure parts on sequences of kinds: a line is "signal", "poll",
"frame", ... and a step "died", "bare", "hook", ..., the classes the regular
expressions of `text.py`, `logs.py` and `failures.py` tell apart. What the code
collects in lists of lines or steps is a set of places there (`Places`), as their
order is that of the places; what a loop carries from one line to the next (the
group that is open, whether what continues a line is dropped) is a recursive
function of the place. `JobAnalysis`
is `analyze_job` in the order of the code: details, job, three lists of runs
under one budget of requests, then the log of a job without failed modules, or
the logs and one report for each of the first failed modules. `section`, `input`
and `report` are the part of the report made last and what it was made of; the
properties compare the two. A step is known by its place in the details. The
failed runs to look at are taken as sets, by their rank in the code's order; it is
not told in which order they are printed. The
range of lines and the condensing of a log are looked at independently of each
other.

## 3. Runs

| Run | Instance | Shows |
|---|---|---|
| `investigate_faults` | 2 jobs, 2 runs, all faults | `OneHolder`, `OrderlyExitClearsStarting`, `ReportReachesOrigin`, refinement `ImplementsLock` |
| `investigate_live` | 3 jobs in a cluster, a run each, one forced, no job that is refused or restarted, no faults | `SkipperHasLeader`, `WaitsForCluster`, `RunsEnd`, `ClusterSettled` |
| `verdict_forced` | 2 investigations, forced at any time, every single cause but "sporadic" | `VerdictIsRight`, `VerdictRestsOnFinishedJobs` |
| `verdict_live` | 1 investigation, every cause, cancelled and deleted jobs | `TypeOK`, `VerdictArrives` |
| `hook` | 1 job of every kind, every subset of failures | `TypeOK`, `OnlyMailsRepeat`, `DeclinedIsNotInvestigated`, `FinishedIsInvestigated`, `StreakIsNotInvestigated`, `HookEnds` |
| `reaper` | 1 host, 2 runs, both reboot methods, 5 sets of faults | `GraceRespected`, `SysrqRestartsOnHostThatIsBack`, `RunsGiveLockBack`, `DeadHostRecovers`, `ListedJobsRestarted` |
| `rotate` | a year of 11 days, 3 pipelines, every call may fail | `CredentialsDoNotExpire`, `VariableHoldsActiveToken` |
| `power` | 2 machines with 2 and 1 workers, 2 jobs | `TypeOK`, `RunningJobsKeepPower`, `NeededMachineStarts`, `UnusedMachinesStop` |
| `analysis` | all modules of up to 5 steps, all logs of up to 6 lines, all lists of up to 3 runs | `TypeOK`, `OnlyEdgesLost`, `BudgetForOwnFlavor`, `LastOwnFailureChosen`, `MarkerBeforeFailure`, `StepsAccounted`, `SignalsKept`, `RangeSpansSteps`, `UntriggeredCrashShown` |
| `staging` | 1 pipeline that runs again and again, 2 packages, 2 revisions, at most 2 kinds of faults | `SubmittedWasTested`, `StagingIsFreed` |
| `dropped_job`, `stale_announcement` | the instances of `hook` and of two runs of a cluster | a violation each, see section 4 |

The type invariants of `Investigate`, `ZombieReaper`, `RotateToken` and
`StagingPipeline` are not in a run, they are proved (section 6), and so are
`OneThreadPerHost` and `HmcOnlyForDeadHosts` of the reaper and `OneNewToken` of
the rotation.

Bounds. Ids, retries and comments need none: ids are handed out only for the
posts of the runs, and each run posts a bounded number. Three runs are enough
for the comment protocol to show its races: two that compete, and one whose
comment is late or forced; the one that is forced does not take part in the
lock, but writes into the same lists of comments. Two investigations are the least for a
verdict to rest on the wrong one. A third would only add more comments that are
not the oldest. `verdict_forced` has every cause that a verdict can be wrong about;
what passes and fails by chance ("sporadic") may get any verdict. `investigate_live`
has no directly chained job: `clone` refuses it, and what that leads to is shown by
`stale_announcement`; under `ClusterSettled` it would be no more than an exception.

In `reaper` the threads of different hosts meet only in the state file and the
lock, both of which are per host or per run, so one host is enough; that
several hosts do not change anything is what the proofs show. A tick is about 15
minutes: `MaxWait` and `BootWait` are 2 (30 minutes each by default), an HMC operation
takes up to 1 (its timeout is 900 seconds), a boot up to 1, the stability delay 1. Two
slow HMC operations thus use up the whole grace, as they do in production. One hang
(`Hangs`) may come at any time of a reboot. Faults are looked at alone or in pairs
that do not hide each other (`MCFaults`), each as often as it likes. `rotate` keeps the order
of the real numbers (delay < lead <= threshold, and a replacement in time), not
their size. `power` has the least number of machines and workers for a machine to
be busy and broken, idle and needed. In `analysis` every limit of the code
(gaps, context, excerpts, budgets, chunks) is made small enough that it is passed
on both sides by lists that are checked exhaustively; the limits are independent
of each other. The newlines of a body (`MCNewlines`) are nowhere, away from the
edges, or at and next to them. In `staging` two packages are the least for a loop to fail half
way, and two revisions for a package to change between its release, its tests
and its submission; the staging project is a lock that pipelines only read
before they use it, so what is checked holds for pipelines one after the other
(two at a time: section 5).

Deadlock is checked for `Investigate`, which stutters explicitly when all runs
have ended. `PostInvestigate`, `InvestigateHook` and `JobAnalysis` stop
when their hooks or the analysis have ended, so there it is not.

Fairness. `Step`, `Hook`, `Trigger`: the tools are sequential programs whose
calls have timeouts, so that a step that can be taken is taken. `RetryHook`:
openQA calls a hook that exits with 142 again after a delay. It does so a
configured number of times; the models assume that the jobs finish before.
`FinishJob`, `FinishOthers`: openQA ends jobs by `MAX_JOB_TIME` if they do not
end themselves. Nothing is assumed of people, deletions, restarts or faults.
`ZombieReaper`: a timer starts the script again and again, its threads go on
as their calls have timeouts, time passes, and a host that goes down or boots
has done so after `BootTime` at the latest. `PowerManagement`: the script is
started again and again, and what it tries again and again does not fail every
time (strong fairness, as a run that fails in between starts from the
beginning); openQA notices when a worker has gone or come. Without the latter
the code has a trap: see section 5. `StagingPipeline`: calls to OBS and openQA
return, and jobs end; nobody has to start a pipeline, push or clean up.

## 4. Findings

Two runs end with a violation. Each checks what a text of the repository says.

- `dropped_job`: with the LLM gate enabled a postponed investigation never
  happens. The first call asks the LLM, posts the summary, and
  `openqa-investigate` exits with 142 as a job of the cluster still runs; in the
  second call the gate finds its own summary, prints nothing, and the hook ends.
- `stale_announcement`: a run that refuses to clone a directly chained job
  leaves its "Starting" comment, and the next run of the cluster gives way to
  an investigation nobody does.

## 5. Divergences without a run

Met while modelling. The first ones are stated in a module; the others are plain
to see in the code, or are outside of what the models tell apart.

- `Investigate.PriorityOnlyOnClones` (`openqa-investigate:328`, `583`): when
  cloning ends with 404, that number is taken for the id of a created job, and
  job 404 gets a new priority.
- `Investigate.KnownErrorIgnored` (`openqa-investigate:1028`): the error that is
  to be ignored is searched for in the text of a `CalledProcessError`, which does
  not have it.
- `openqa-investigate:407`: openqa-cli repeats a POST whose answer was lost. A run
  the announcement of which was posted twice takes the first of its two comments for
  one of another run, gives way to it and removes the second: the first stays, and
  nobody investigates the cluster. `OneHolder` and `ImplementsLock` hold all the same;
  `OrderlyExitClearsStarting` and `SkipperHasLeader` except it.
- `openqa-investigate:407`, `453`: a run that is killed leaves its "Starting" comment,
  which nothing removes, so that the cluster is never investigated; one that is
  killed between the report and its copy leaves the report on the first job only. The
  lock is kept by the dead run (`ImplementsLock`); `OrderlyExitClearsStarting` and
  `ReportReachesOrigin` except runs that were killed.
- `openqa-investigate:581`, `796`, `835`: a regression job that is not there (404, or
  left out for want of a usable test URL) counts neither as passed nor as failed. When
  tests and build only fail together (`cause` "interplay"), a verdict without the job
  with the last good build says "test issue", and one without the job with the last
  good tests, or with a job that runs the current ones as `TEST_GIT_HASH` is missing,
  says "product issue" (`Mistaken`).
- `PostInvestigate.PostponedForRunningJob` (`openqa-investigate:803`): a regression
  job that openQA has deleted has no state, which is taken for "not finished"; the
  hook of the retry is postponed until openQA gives up, and no verdict is posted.
- `openqa-llm-investigate:556`: when openQA cannot be read there is no streak, and the
  YES of the model stands, for which the rule exists; a reviewed job looks unreviewed
  (`history.py:232`). A hook that cannot read its job (67) ends with an error, which is
  not 142, so that it is not called again.
- `StagingPipeline.EmptiesOnlyOwnStaging` (`monitor-openqa_job:330`,
  `trigger-openqa_in_openqa:139`): a pipeline that finds the staging project in use
  tests `src_project` instead, and when its jobs fail it deletes the packages of
  the staging project all the same, under the pipeline that is testing them. The
  comment says "packages we will not continue submitting". With two pipelines
  (`MCTwoPipelines`) and no fault TLC finds it in 14 steps.
- `monitor-openqa_job:323`: an answer with an empty list `ids` is a test run
  without failures, and what was never tested is submitted (with a
  `scheduled_product_id` the same case is an error, 58). `SubmittedWasTested`
  excepts it ("nojobs").
- `_common:263`, `monitor-openqa_job:139`: an `osc ls` that fails looks like an
  empty project, so packages may be released over those of another pipeline, or
  not be deleted.
- `os-autoinst-obs-auto-submit:1134`: an exception of one package, unlike a failure,
  leaves the others in the staging project; all later pipelines only test, until a
  person cleans up. `StagingIsFreed` therefore is about behaviours without
  failing calls. A revision that was committed to `dst_project` but whose request
  was throttled or failed (863) has no local changes the next time (791) and is
  requested only with the next commit.
- `s390x-qemu-zombie-reaper.py:424`: with method "reboot" the wait for the host
  starts while the host still answers, so that its jobs may be restarted before
  it goes down. `SysrqRestartsOnHostThatIsBack` therefore speaks of "sysrq", which
  kills the host at once.
- `s390x-qemu-zombie-reaper.py:429`: the reboot of an HMC reset is recorded before its
  operations, which take up to 900 seconds each until the host begins to boot, as long
  as the default of `max_wait_minutes` together. When such a run is killed or its last
  HMC call fails, the next one counts the deadline of the booting host from this
  record and may reset it at once. `GraceRespected` says that it is never more than
  these two operations.
- `s390x-qemu-zombie-reaper.py:467`: when a host does not come back, its jobs are not
  restarted, and the next run lists only what openQA still has. `ListedJobsRestarted`
  is about runs without faults.
- `rotate-gitlab-token.py:162`: a pipeline that finds more than the threshold of
  days left does nothing and leaves the schedule alone, which fires a year
  later. A token replaced by hand so late that the schedule of the lost one
  fires before the threshold expires unattended: this is why `Patience <=
  Threshold - Lead` is assumed by the theorem, and with `Patience = 3` in
  `rotate.cfg` TLC finds the token expired. The docstring (line 6) says "1 day or
  less", the constant (37) is 21; the comment at line 50 says two days, the code
  uses another lead; a missing variable ends in an `UnboundLocalError` (93).
- `openqa-powermanagement.py:96`, `152`: a machine with a broken and a busy worker
  is taken out of the idle machines but stays in the broken ones, and is switched
  off (`RunningJobsKeepPower` excepts it). Line 134 only warns when a machine that
  is about to be switched off is the one a scheduled job waits for. A machine that was
  idle when the workers were read is switched off under a job it got since (152);
  `RunningJobsKeepPower` speaks of workers that were running when they were read. A power-on
  command that fails every time ends every run before the machines behind it are
  switched (146).
- `openqa_llm_investigate/history.py:41`: a job whose details cannot be read looks
  like one without failed modules. `analysis.py`: the docstring says that there is
  no report when there is "no job-level reason or log signal either", but a passed
  job with signals in its log gets none.
- `openqa_llm_investigate/history.py:93`: the budget of requests is used up in the
  order of the lists. The runs before and after the job come first and may leave
  nothing for the failures of its own flavor among the other jobs of the build;
  `BudgetForOwnFlavor` orders the failures of one list only.
- `openqa_llm_investigate/logs.py:212`: an oops that nothing triggered, but close
  after a crash that was, is merged into the expected event.
- `openqa_llm_investigate/http.py:96`: the number of bytes in "bytes omitted from the
  middle of this file" is that between the two halves; the rest of a line that is cut
  off at the end of the first half (97) and at the start of the last one (98) is left
  out as well and not counted, and in a half without a newline nothing is
  (`OnlyEdgesLost`). An odd limit would lose a byte in the middle (`FetchAssumption`
  asks for an even one; the default is).
- `openqa_llm_investigate/failures.py`: the marker may be placed above a bare
  failed screen of an earlier failure that was not fatal, and a bare screen between
  the marker and the failing step may be left out of the report.

## 6. Proofs

TLAPS proves for all values of the constants that satisfy the assumptions of the
modules. They are types and the order of bounds, and:

- `ConstantsAssumption`, `ClusterAssumption`: ids are natural numbers, every run has
  a job, and a job is part of one cluster, which is the same for all its jobs;
- `PostAssumption`, `HookAssumption`: at least one investigation, and faults of the
  kinds the modules know;
- `AnalysisAssumption`, `FetchAssumption`, `StepsAssumption`, `TextAssumption`: limits
  are natural numbers, that of a file is even, and those of a range, of half a
  cluster, of the commands after it and of frames are not 0; logs and details are
  sequences of the kinds the modules know, of any length;
- `PowerAssumption`: finitely many machines, known by numbers;
- `StagingAssumption`: there is a package and a revision.

| Theorem | Module | Statement |
|---|---|---|
| `TypeCorrect` | `InvestigateProofs` | `Spec => []TypeOK` |
| `OneHolderAlways` | `InvestigateProofs` | `Spec => []OneHolder` |
| `InvestigateImplementsLock` | `InvestigateProofs` | `Spec => ImplementsLock` |
| `OrderlyExitClearsStartingAlways` | `InvestigateProofs` | `Spec => []OrderlyExitClearsStarting` |
| `ReportReachesOriginAlways` | `InvestigateProofs` | `Spec => []ReportReachesOrigin` |
| `WaitsForClusterAlways` | `InvestigateProofs` | `Spec => []WaitsForCluster` |
| `SkipperHasLeaderAlways` | `InvestigateProofs` | `Spec => []SkipperHasLeader` |
| `TypeCorrect` | `PostInvestigateProofs` | `Spec => []TypeOK` |
| `VerdictRestsOnFinishedJobsAlways` | `PostInvestigateProofs` | `Spec => []VerdictRestsOnFinishedJobs` |
| `VerdictIsRightAlways` | `PostInvestigateProofs` | `Spec => []VerdictIsRight` |
| `TypeCorrect` | `InvestigateHookProofs` | `Spec => []TypeOK` |
| `OnlyMailsRepeatAlways` | `InvestigateHookProofs` | `Spec => []OnlyMailsRepeat` |
| `DeclinedIsNotInvestigatedAlways` | `InvestigateHookProofs` | `Spec => []DeclinedIsNotInvestigated` |
| `FinishedIsInvestigatedAlways` | `InvestigateHookProofs` | `Spec => []FinishedIsInvestigated` |
| `StreakIsNotInvestigatedAlways` | `InvestigateHookProofs` | `Spec => []StreakIsNotInvestigated` |
| `ReaperTypeCorrect` | `ZombieReaperProofs` | `Spec => []TypeOK` |
| `OneThreadPerHostAlways` | `ZombieReaperProofs` | `Spec => []OneThreadPerHost` |
| `GraceAlwaysRespected` | `ZombieReaperProofs` | `Spec => []GraceRespected` |
| `HmcOnlyForTheDead` | `ZombieReaperProofs` | `Spec => []HmcOnlyForDeadHosts` |
| `SysrqRestartsAfterBoot` | `ZombieReaperProofs` | `Spec => []SysrqRestartsOnHostThatIsBack` |
| `RotationTypeCorrect` | `RotateTokenProofs` | `Spec => []TypeOK` |
| `TokenDoesNotExpire` | `RotateTokenProofs` | `Spec => []CredentialsDoNotExpire` |
| `VariableIsCurrent` | `RotateTokenProofs` | `Spec => []VariableHoldsActiveToken` |
| `NewTokenIsAlone` | `RotateTokenProofs` | `Spec => []OneNewToken` |
| `OnlyEdgesAreLost` | `JobAnalysisProofs` | `FetchSpec => []OnlyEdgesLost` |
| `TypeCorrect` | `JobAnalysisProofs` | `Spec => []TypeOK` |
| `AnalysisLosesOnlyEdges` | `JobAnalysisProofs` | `Spec => []OnlyEdgesLost` |
| `BudgetForOwnFlavorAlways` | `JobAnalysisProofs` | `Spec => []BudgetForOwnFlavor` |
| `RangeSpansStepsAlways` | `JobAnalysisProofs` | `Spec => []RangeSpansSteps` |
| `LastOwnFailureChosenAlways` | `JobAnalysisProofs` | `Spec => []LastOwnFailureChosen` |
| `MarkerBeforeFailureAlways` | `JobAnalysisProofs` | `Spec => []MarkerBeforeFailure` |
| `StepsAccountedAlways` | `JobAnalysisProofs` | `Spec => []StepsAccounted` |
| `SignalsKeptAlways` | `JobAnalysisProofs` | `Spec => []SignalsKept` |
| `UntriggeredCrashShownAlways` | `JobAnalysisProofs` | `Spec => []UntriggeredCrashShown` |
| `TypeCorrect` | `PowerManagementProofs` | `Spec => []TypeOK` |
| `RunningJobsKeepPowerAlways` | `PowerManagementProofs` | `Spec => RunningJobsKeepPower` |
| `StagingTypeCorrect` | `StagingPipelineProofs` | `Spec => []TypeOK` |
| `OnlyTestedIsSubmitted` | `StagingPipelineProofs` | one pipeline at a time: `Spec => []SubmittedWasTested` |

`OneHolder` is not inductive: that two holders exclude each other follows from
what they read long before. `LockInv` says what is left of that in the state.
Ids are fresh (`FreshIds`) and belong to one run (`OwnIds`); a run that has
announced itself and not reported is behind a comment of kind "starting"
(`AnnouncedIsStarting`), so that its text still matches; the comment of a run
stays where it is until the run gives up (`CommentStands`); and a holder has the
lowest id among the matching comments of the meeting job, now and for ever
(`HolderIsLowest`): later comments have higher ids, and comments only disappear.
Two holders on one job would have the same lowest id, hence be one run. What
makes the last two parts inductive is that a run only touches the comment with
its own id (`OwnCommentStep`), and that deleting a job removes all its comments
at once.

The refinement uses `Claims` (the holders with the job they meet on) and `Kept`.
A run claims when `ListComments` lets it pass; `OneHolder` in the next state is
what makes that a legal `Acquire`. `Keep` is the report or a `typer.Exit`,
`GiveUp` a failure or an empty result, `Vanish` the deletion of the job. All
other steps stutter.

`OrderlyExitClearsStarting` is about every "Starting" comment, not only the one with
the id its run knows. That one is dealt with by `ClearedInv`, which adds the place
between report and copy. Another one is the first of two that one POST has left
(`StartInv`): its id is one less than that of the run, which therefore never
finds itself first, so that it stays `Behind` unless it is forced.
`ReportReachesOrigin` needs that a comment with a run's id was
posted by that run (`OwnBy`), so that nobody else rewrites a report, and
`CommentStands` for the case that the announcement itself becomes the report.
`WaitsForCluster` needs what a run has seen at `Enter` carried along
(`WaitInv`); it stays true as jobs do not start again.

`SkipperHasLeader` says that somebody stays, `LeaderInv` who: the run whose comment
was there first on the first job of the cluster (a lower id), or one that has put a
copy of its report there. Such a run has not backed off, as backing off would mean
another one before it; it does not later, as only runs between announcement and
list do and a comment with a lower id than all others is not outdone. That the
comments it is about are where the code of their owners put them (`ByOwner`)
needs that no POST is carried out twice. Without `ClusterAssumption` the first jobs
of two runs of a cluster need not be the same one.

The verdict (`VerdictInv`) stays what the results it rests on give, while other
investigations go on: a reported one gets no jobs any more (`ReportsInv`), and a
job that has ended keeps a result its kind can have (`ResultInv`).
`VerdictIsRight` is then a table over the causes and the results that the jobs
that are there can have, with the two ways to be `Mistaken` about tests and build
that only fail together. Trying to prove it showed a mistake in the model: two guards of the
CASE in `IssueType` overlapped, which TLC resolves in the order of the text and
TLA+ does not; the order of the code is written out now.

In the hook nothing says what earlier calls have done but `done` and the comments on
the job. `DoneInv` says which place of the script is still within reach after each
effect, over all calls; `AnswerInv` and `PassInv` what the gate may have said for
somebody to be behind it: after a streak a YES only if openQA could not be read.

The reaper's invariant (`IInv` of `ZombieReaperProofs`) is about time. A record in
the state file is older than the boot it stands for by `late` at most, which is
nothing after a reboot command and no more than `2 * HmcWait` after an HMC reset
(`HostInv`): while an operation is under way, the age of the record and what is left
of the operation add up to no more than the time of the operations so far
(`ThreadInv`). A deadline counted from it is too early by no more than that. What is left of a wait and the time
the host has been booting add up to the whole wait (`WaitInv`), from the record
of one run to the deadline of the next. A thread that has given a host up
(`GivenUp`) therefore knows that the host had its grace but for `late`, and, where a
boot takes less than that, that it hangs. These hold when the state file can be written
and SSH does not fail now and then (`Calm`), which the properties say, too; the
exclusion of runs (only the owner of the lock has threads) holds always. A step
of a thread leaves other threads alone, and the owner is the only run that has
any, which is what `LocalStep` and `QuietStep` use for all actions.

The rotation's invariant says that token and schedule belong together
(`ScheduleInv`): with the token that is rotated the schedule fires between
`Threshold` and `Lead` days before its end, or has done so and waits for a
runner since, or somebody knows of a failure. `PipelineInv` says that a pipeline
that is going to rotate has the schedule moved already, and that the one that
has rotated is alone. `ReplacedInTime` is the only assumption beyond types and
order: a lost token is replaced within `Threshold - Lead` days.

For the transfer of a file, `EndsInv` of `JobAnalysisProofs` has the beginning and the
end kept so far as intervals of the positions received; a chunk, which may cross
the middle, extends the one and shifts the other. The cuts at a newline shorten the
two intervals at their inner edges (`CompleteKeeps`), and between the cut and the
middle there is no other newline, as it was the last or the first one. `AnalysisInv` adds that the
budget is not overdrawn, that a module is reported only while one is left, and what
the last section says of its input (`Made`). The budget of the runs of other flavors is a matter of order: `FirstOf` takes what has
few enough before it, those of the flavor of the job come before all others
(`OrderOfGroups`), so one of another flavor is among the first only when no more of
the own flavor are there (`FirstGroupsProperties`, by counting). A range of lines
is where the first failed step and the last step begin to match best
(`MatchIndexIsBest`), and each of these is the least of
some natural numbers (`LeastNatural`, from the well-foundedness of their order).

The other sections of the report are made by loops over lists of any length. The
induction theorems of the library take an operator as parameter and cannot be
used, but the least round that goes wrong can: `UpTo` turns `LeastNatural` into
induction over a set of rounds, and `Loop` uses that to show that the recursive
function that stands for a loop exists. On these two rest `GroupsAreGrouped` (the
groups of the places that are close to each other: what is in them, how far they are
apart, and that none has a gap inside) and `DroppedLines` (a line is dropped when the
last line with a time stamp before it is a debug line). From the groups
follow the events of a console (`CrashIsShown`) and the clusters of failing steps,
which do not overlap (`ClustersOfOwn`), so that the one with the last failure is the
last one (`LastCluster`). `ShownSteps` says what may be missing around a cluster,
`MarkerIsVisible` and `HiddenInside` what may not. The numbers of omitted lines and
steps are cardinalities: `LastOfPlaces` counts what is behind a place, and the
hidden steps between two neighbours that are shown are a whole interval.

For the power of machines, `OffInv` says that what is left to be switched off was idle
or broken in the list that was read, through the sorting: `RankedOnce` shows that
each machine has a rank of its own and each rank a machine.

`SubmittedWasTested` compares what is checked out with what was installed some
calls before. `PipelineInv` carries it along: from the jobs on, the staging
project has of each package what was installed or nothing, as the pipeline only
takes packages away then; and a pipeline that may submit has not tested
`src_project`. The assumption `OnePipeline` is what the staging project is
meant to ensure; section 5 says how it fails to.

Only model-checked: the liveness properties (`RunsEnd`, `ClusterSettled`,
`VerdictArrives`, `HookEnds`, `RunsGiveLockBack`, `DeadHostRecovers`,
`ListedJobsRestarted`, `NeededMachineStarts`, `UnusedMachinesStop`, `StagingIsFreed`),
as they need fairness. Every safety property of a run that passes is proved.

## 7. What is not modelled

- Dry runs, verbosity, options that only change texts, and `RetryTransport`
  (HTTP retries with `Retry-After`): a call succeeds or fails as a whole. What
  repeated calls do to openQA is the fault "repeat" of `Investigate`.
- The list of a run's comments that cannot be read (`get_job_comments` returns
  an empty list) is covered for the retry hook (no report yet) and, for the lock,
  only as a job that is gone.
- A retry job that is itself restarted or deleted before its hook has ended.
- Hooks for one job that are called twice at the same time are in `Investigate`
  (two runs with one `JobOf`), not in `InvestigateHook`.
- Of the analysis: IPA and xfstests reports, uploaded files, the rules of known
  errors, the line about the previous modules, commits, redaction and all wording.
- Of the reaper: `--no-lock`, `--no-state`, dry runs, the reading of the
  configuration, and an HMC operation that goes on at the HMC after the run that
  ordered it was killed or has given it up. That `record_reboot` reads, changes and
  replaces the state file is one step: `_state_lock` keeps threads apart, the lock
  file runs. Of the rotation: the creation of the first schedule.
- Of the staging pipeline: full runs, the option `--force`, packages given by hand,
  and what becomes of a submit request (throttling, pending requests, builds, git).
- The components marked `not_modelled` in `PROJECT.json`, with the reason there.

## 8. Plan

| Order | Module | Content | State |
|---|---|---|---|
| 1 | `Investigate`, `ClusterLock` | `openqa-investigate` for failed jobs, and the lock it implements | done; safety and refinement proved |
| 2 | `PostInvestigate` | the retry job's report and verdict | done; safety proved |
| 3 | `InvestigateHook` | the hook: review, gate, postponing, retries, bisection | done; safety proved |
| 4 | `ZombieReaper` | hosts, threads, deadlines, HMC, state file | done; safety proved, liveness model-checked |
| 5 | `RotateToken` | schedule, token and variable with overlapping pipelines | done; proved |
| 6 | `CappedFetch`, `Places`, `FailingSteps`, `LogText`, `JobAnalysis` | the analysis of a job | done but for what section 7 lists; safety proved |
| 7 | `PowerManagement` | switching machines from lists that grow old | done; safety proved, liveness model-checked |
| 8 | `StagingPipeline` | trigger, monitor and submission on one staging project | done for one pipeline at a time, safety proved |
| 9 | `AutoReview` | labels and restarts along the chain of restarted jobs, bounded or not | planned |
| 10 | `Bisect`, `RetryTransport` | algorithms and small protocols | planned |

Proofs that remain worth doing: for `StagingPipeline` with several pipelines, what a
lock on the staging project would have to promise; and of the reports, what no
property speaks of yet (`RepeatNotes`, `JobLevelFailure`).
