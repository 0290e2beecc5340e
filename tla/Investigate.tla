---------------------------- MODULE Investigate ----------------------------
(***************************************************************************)
(* openqa-investigate, the part run for a failed job that is not itself an *)
(* investigation job (run_investigation_logic).  openQA starts one run per *)
(* finished job, so the jobs of a parallel cluster are investigated by     *)
(* concurrent processes.  They agree on one of them through comments on    *)
(* the first job of the cluster: every run posts a "Starting" comment,     *)
(* lists the comments and goes on only if its own has the lowest id.       *)
(*                                                                         *)
(* One action is one call to openQA together with the local code up to the *)
(* next call; runs interleave between actions.  openQA's job table and its *)
(* comments are the shared state.                                          *)
(***************************************************************************)
EXTENDS Integers, Sequences, FiniteSets

CONSTANTS
  Jobs,     \* ids of the failed jobs openQA calls the hook for
  Cluster,  \* Cluster[j]: the jobs running in parallel with j, j included
  Chained,  \* jobs that have directly chained children or parents
  Excluded, \* jobs _should_exclude_job rejects (name, group, NO_INVESTIGATION)
  Restartable, \* jobs that may be given a clone by a person or another script
  Runs,     \* executions of openqa-investigate
  JobOf,    \* JobOf[r]: the job a run is called for
  Forced,   \* runs started by hand with force=true
  Faults    \* the faults this instance of the environment may inject

FaultKinds ==
  { "nodata",  \* the dependency data can not be read
    "repeat",  \* openqa-cli repeats a POST that openQA had carried out already
    "crash",   \* a call fails or the process is killed: the run ends where it is
    "delete" } \* openQA deletes a finished job and its comments

ASSUME ConstantsAssumption ==
  /\ Jobs \subseteq Nat
  /\ Cluster \in [Jobs -> SUBSET Jobs]
  /\ Chained \subseteq Jobs
  /\ Excluded \subseteq Jobs
  /\ Restartable \subseteq Jobs
  /\ JobOf \in [Runs -> Jobs]
  /\ Forced \subseteq Runs
  /\ Faults \subseteq FaultKinds

\* A job is part of one parallel cluster, which is the same for all its jobs.
ASSUME ClusterAssumption ==
  \A j \in Jobs : j \in Cluster[j] /\ \A i \in Cluster[j] : Cluster[i] = Cluster[j]

VARIABLES
  exists,   \* the jobs openQA still has
  pending,  \* the jobs whose state is neither done nor cancelled
  cloned,   \* the jobs that have a clone_id
  comments, \* the investigation comments on the jobs
  nextId,   \* the id openQA gives to the next comment
  pc,       \* where each run is, or how it ended
  view,     \* the cluster as a run has read it
  cid,      \* the id of a run's own comment, 0 for None
  todo,     \* the regression jobs a run has still to trigger
  lines,    \* the runs that have collected a result line
  clones,   \* the runs that have created an investigation job
  failure,  \* the exception a run is handling
  stray     \* runs that set the priority of a job that is no clone of theirs

jobVars == <<exists, pending, cloned>>
vars == <<exists, pending, cloned, comments, nextId, pc, view, cid, todo,
          lines, clones, failure, stray>>

----------------------------------------------------------------------------
\* The comments.  The text is reduced to what INVESTIGATION_COMMENT_RE tells
\* apart: "Starting investigation" and "Automatic investigation jobs" match,
\* "Triggering investigation jobs failed" does not.
CommentKinds == {"starting", "automatic", "failed"}
\* Mutant of InvestigationKinds: INVESTIGATION_COMMENT_RE forgets the reports.
StartingOnly == {"starting"}
InvestigationKinds == {"starting", "automatic"}

CommentRecords == [id : Nat \ {0}, job : Jobs, kind : CommentKinds, by : Runs]
Comment(i, j, k, r) == [id |-> i, job |-> j, kind |-> k, by |-> r]

InvestigationCommentsOn(j) ==
  {c \in comments : c.job = j /\ c.kind \in InvestigationKinds}

\* PUT of a new text: nothing happens when the comment is gone (404).
Rewritten(i, k) ==
  {IF c.id = i THEN [c EXCEPT !.kind = k] ELSE c : c \in comments}

Without(i) == {c \in comments : c.id # i}

\* The investigation jobs: a plain retry, then up to three regression jobs.
CloneKinds == {"retry", "tests", "build", "both"}
OriginKinds == {"retry", "tests"}  \* clones of the failed job itself
RefspecKinds == {"tests", "both"}  \* clones that need a usable TEST_GIT_URL

\* What _trigger_regression_jobs may find worth triggering.
Plans == { <<>>, <<"tests">>, <<"build">>, <<"tests", "build">>,
           <<"tests", "build", "both">> }

\* The exceptions of the triggering part.  A failed openqa-clone-job is a
\* CalledProcessError: its text names the command and the exit status, the
\* reason openqa-clone-job printed stays in e.stderr.
Failures == {"repositories unavailable", "other"}
ErrorText(f) == "Command returned non-zero exit status"
KnownErrorTexts == {"repositories unavailable"}

Steps == {"idle", "deps", "postponed", "post", "list", "yield", "retry",
          "ajax", "regress", "failing", "finish", "repost"}
Outcomes == {"nothing", "skipped", "investigated", "ignored", "failed",
             "aborted", "unreported", "crashed"}
Ended(r) == pc[r] \in Outcomes

\* min(cluster): the job that carries the comments the runs synchronise on.
First(r) == CHOOSE f \in view[r] : \A j \in view[r] : f <= j

Goto(r, step) == pc' = [pc EXCEPT ![r] = step]

----------------------------------------------------------------------------
Init ==
  /\ exists = Jobs
  /\ pending \in SUBSET Jobs
  /\ cloned = {}
  /\ comments = {}
  /\ nextId = 1
  /\ pc = [r \in Runs |-> "idle"]
  /\ view = [r \in Runs |-> {JobOf[r]}]
  /\ cid = [r \in Runs |-> 0]
  /\ todo = [r \in Runs |-> <<>>]
  /\ lines = {}
  /\ clones = {}
  /\ failure = [r \in Runs |-> "none"]
  /\ stray = {}

----------------------------------------------------------------------------
\* The run reads its job: a deleted job, or one that was restarted already
\* when force is not set, is not investigated.
GetJob(r) ==
  /\ pc[r] = "idle"
  /\ JobOf[r] \notin pending
  /\ Goto(r, IF JobOf[r] \notin exists \/ (JobOf[r] \in cloned /\ r \notin Forced)
             THEN "nothing" ELSE "deps")
  /\ UNCHANGED <<jobVars, comments, nextId, view, cid, todo, lines, clones,
                 failure, stray>>

\* Mutant of ClusterNodes: the cluster is taken to be the job alone.
NodesAlone(j) == {j}

\* dependencies_ajax: the jobs of the cluster openQA still has.
ClusterNodes(j) == {j} \union IF j \in exists THEN Cluster[j] \intersect exists ELSE {}

\* Mutant of Postpone: finished jobs of the cluster count as pending too.
PostponeAlways(r) ==
  /\ pc[r] = "deps"
  /\ ClusterNodes(JobOf[r]) # {}
  /\ Goto(r, "postponed")
  /\ UNCHANGED <<jobVars, comments, nextId, view, cid, todo, lines, clones,
                 failure, stray>>

\* Some job of the cluster still runs: exit code 142.
Postpone(r) ==
  /\ pc[r] = "deps"
  /\ ClusterNodes(JobOf[r]) \intersect pending # {}
  /\ Goto(r, "postponed")
  /\ UNCHANGED <<jobVars, comments, nextId, view, cid, todo, lines, clones,
                 failure, stray>>

\* The whole cluster is done, or nothing is known about it and the job is
\* taken to be alone; then the exclusion rules decide.
Enter(r) ==
  /\ pc[r] = "deps"
  /\ \/ /\ ClusterNodes(JobOf[r]) \intersect pending = {}
        /\ view' = [view EXCEPT ![r] = ClusterNodes(JobOf[r])]
     \/ /\ "nodata" \in Faults
        /\ view' = [view EXCEPT ![r] = {JobOf[r]}]
  /\ Goto(r, IF JobOf[r] \in Excluded THEN "nothing" ELSE "post")
  /\ UNCHANGED <<jobVars, comments, nextId, cid, todo, lines, clones,
                 failure, stray>>

\* The "Starting" comment.  Without an id in the answer, because the first
\* job is gone, the run goes on unsynchronised.
PostStarting(r) ==
  /\ pc[r] = "post"
  /\ \/ /\ First(r) \notin exists
        /\ Goto(r, "retry")
        /\ UNCHANGED <<comments, nextId, cid>>
     \/ /\ First(r) \in exists
        /\ comments' = comments \union {Comment(nextId, First(r), "starting", r)}
        /\ cid' = [cid EXCEPT ![r] = nextId]
        /\ nextId' = nextId + 1
        /\ Goto(r, "list")
     \/ /\ First(r) \in exists
        /\ "repeat" \in Faults
        /\ comments' = comments \union {Comment(nextId, First(r), "starting", r),
                                        Comment(nextId + 1, First(r), "starting", r)}
        /\ cid' = [cid EXCEPT ![r] = nextId + 1]
        /\ nextId' = nextId + 2
        /\ Goto(r, "list")
  /\ UNCHANGED <<jobVars, view, todo, lines, clones, failure, stray>>

\* Mutant of MayProceed: a run's own comment stands in its way.
MayProceedStrict(r) ==
  \/ \A c \in InvestigationCommentsOn(First(r)) : cid[r] < c.id
  \/ r \in Forced

\* Mutant of MayProceed: a run goes on only if no other has announced itself.
MayProceedAlone(r) ==
  \/ \A c \in InvestigationCommentsOn(First(r)) : cid[r] = c.id
  \/ r \in Forced

\* The lowest id wins; with force, or when the comments are gone, the run
\* goes on whatever it has read.
MayProceed(r) ==
  \/ \A c \in InvestigationCommentsOn(First(r)) : cid[r] <= c.id
  \/ r \in Forced

ListComments(r) ==
  /\ pc[r] = "list"
  /\ Goto(r, IF MayProceed(r) THEN "retry" ELSE "yield")
  /\ UNCHANGED <<jobVars, comments, nextId, view, cid, todo, lines, clones,
                 failure, stray>>

\* Mutant of Yield: the run exits without removing its comment.
YieldSilently(r) ==
  /\ pc[r] = "yield"
  /\ Goto(r, "skipped")
  /\ UNCHANGED <<jobVars, comments, nextId, view, cid, todo, lines, clones,
                 failure, stray>>

\* Another run has the cluster: the run removes its comment and exits.
Yield(r) ==
  /\ pc[r] = "yield"
  /\ comments' = Without(cid[r])
  /\ Goto(r, "skipped")
  /\ UNCHANGED <<jobVars, nextId, view, cid, todo, lines, clones, failure, stray>>

----------------------------------------------------------------------------
\* clone(): the job is read, openqa-clone-job called and the priority of what
\* it created raised.  "k" is the kind of clone, "next" and "rest" are where
\* the run continues and what is left to trigger.
Cloneable(r, k) == k \in OriginKinds => JobOf[r] \in exists \ Chained

\* Nothing is known about the last good job, which may be either.
Refusable(r, k) == k \in OriginKinds => ~Cloneable(r, k)

\* typer.Exit: no job data (1) or a directly chained job (2).  The handler of
\* run_investigation_logic passes it on and touches no comment.
CloneRefused(r, k) ==
  /\ Refusable(r, k)
  /\ Goto(r, "aborted")
  /\ todo' = [todo EXCEPT ![r] = <<>>]
  /\ UNCHANGED <<lines, clones, failure, stray>>

CloneMade(r, k, next, rest) ==
  /\ Cloneable(r, k)
  /\ clones' = clones \union {r}
  /\ lines' = lines \union {r}
  /\ todo' = [todo EXCEPT ![r] = rest]
  /\ Goto(r, next)
  /\ UNCHANGED <<failure, stray>>

\* openqa-clone-job answers 404: the line names no job, and the error status
\* is taken for the id of a created job whose priority is to be set.
CloneGone(r, k, next, rest) ==
  /\ Cloneable(r, k)
  /\ lines' = lines \union {r}
  /\ stray' = stray \union {r}
  /\ todo' = [todo EXCEPT ![r] = rest]
  /\ Goto(r, next)
  /\ UNCHANGED <<clones, failure>>

\* TEST_GIT_URL can not be used: no clone and no line.
CloneLeftOut(r, k, next, rest) ==
  /\ Cloneable(r, k)
  /\ k \in RefspecKinds
  /\ todo' = [todo EXCEPT ![r] = rest]
  /\ Goto(r, next)
  /\ UNCHANGED <<lines, clones, failure, stray>>

\* An exception: a query fails, openqa-clone-job fails, or the call that sets
\* the priority fails after the clone was created.
CloneFails(r, k) ==
  /\ \/ /\ failure' = [failure EXCEPT ![r] = "other"]
        /\ UNCHANGED clones
     \/ /\ Cloneable(r, k)
        /\ failure' = [failure EXCEPT ![r] = "repositories unavailable"]
        /\ UNCHANGED clones
     \/ /\ Cloneable(r, k)
        /\ failure' = [failure EXCEPT ![r] = "other"]
        /\ clones' = clones \union {r}
  /\ Goto(r, "failing")
  /\ todo' = [todo EXCEPT ![r] = <<>>]
  /\ UNCHANGED <<lines, stray>>

CloneJob(r, k, next, rest) ==
  /\ \/ CloneRefused(r, k)
     \/ CloneMade(r, k, next, rest)
     \/ CloneGone(r, k, next, rest)
     \/ CloneLeftOut(r, k, next, rest)
     \/ CloneFails(r, k)
  /\ UNCHANGED <<jobVars, comments, nextId, view, cid>>

\* trigger_jobs: the retry comes first ...
TriggerRetry(r) ==
  /\ pc[r] = "retry"
  /\ CloneJob(r, "retry", "ajax", <<>>)

\* ... then investigation_ajax tells which regression jobs are worth it.
GetInvestigation(r) ==
  /\ pc[r] = "ajax"
  /\ \/ \E plan \in Plans :
          /\ todo' = [todo EXCEPT ![r] = plan]
          /\ Goto(r, IF plan = <<>> THEN "finish" ELSE "regress")
          /\ UNCHANGED failure
     \/ /\ failure' = [failure EXCEPT ![r] = "other"]
        /\ Goto(r, "failing")
        /\ UNCHANGED todo
  /\ UNCHANGED <<jobVars, comments, nextId, view, cid, lines, clones, stray>>

TriggerRegression(r) ==
  /\ pc[r] = "regress"
  /\ CloneJob(r, Head(todo[r]),
              IF Len(todo[r]) = 1 THEN "finish" ELSE "regress", Tail(todo[r]))

\* The handler of trigger_jobs' exceptions: the comment tells the failure and
\* so stops matching INVESTIGATION_COMMENT_RE.
ReportFailure(r) ==
  /\ pc[r] = "failing"
  /\ comments' = IF cid[r] # 0 THEN Rewritten(cid[r], "failed") ELSE comments
  /\ Goto(r, IF ErrorText(failure[r]) \in KnownErrorTexts THEN "ignored" ELSE "failed")
  /\ UNCHANGED <<jobVars, nextId, view, cid, todo, lines, clones, failure, stray>>

----------------------------------------------------------------------------
\* Mutant of Finalize: the report goes to the first job of the cluster only.
FinalizeFirstOnly(r) ==
  /\ pc[r] = "finish"
  /\ comments' = IF cid[r] = 0 THEN comments
                 ELSE IF r \notin lines THEN Without(cid[r])
                 ELSE Rewritten(cid[r], "automatic")
  /\ Goto(r, IF cid[r] # 0 /\ r \notin lines THEN "nothing" ELSE "investigated")
  /\ UNCHANGED <<jobVars, nextId, view, cid, todo, lines, clones, failure, stray>>

\* finalize_investigation_comment: the "Starting" comment becomes the report,
\* or is removed when there is nothing to report ...
Finalize(r) ==
  /\ pc[r] = "finish"
  /\ comments' = IF cid[r] = 0 THEN comments
                 ELSE IF r \notin lines THEN Without(cid[r])
                 ELSE Rewritten(cid[r], "automatic")
  /\ Goto(r, IF cid[r] = 0 THEN "investigated"
             ELSE IF r \notin lines THEN "nothing"
             ELSE IF First(r) # JobOf[r] THEN "repost" ELSE "investigated")
  /\ UNCHANGED <<jobVars, nextId, view, cid, todo, lines, clones, failure, stray>>

\* ... and the report is also posted on the run's own job.
Repost(r) ==
  /\ pc[r] = "repost"
  /\ IF JobOf[r] \in exists
     THEN /\ comments' = comments \union {Comment(nextId, JobOf[r], "automatic", r)}
          /\ nextId' = nextId + 1
     ELSE UNCHANGED <<comments, nextId>>
  /\ Goto(r, "investigated")
  /\ UNCHANGED <<jobVars, view, cid, todo, lines, clones, failure, stray>>

----------------------------------------------------------------------------
\* openQA calls the hook again after exit code 142.
RetryHook(r) ==
  /\ pc[r] = "postponed"
  /\ Goto(r, "idle")
  /\ UNCHANGED <<jobVars, comments, nextId, view, cid, todo, lines, clones,
                 failure, stray>>

\* A call that raises outside the handler, or a kill by openQA's timeout.  The
\* cluster's comment may be final by then.
Crash(r) ==
  /\ "crash" \in Faults
  /\ ~Ended(r)
  /\ pc[r] # "postponed"
  /\ pc[r] = "idle" => JobOf[r] \notin pending
  /\ Goto(r, IF pc[r] = "repost" THEN "unreported" ELSE "crashed")
  /\ UNCHANGED <<jobVars, comments, nextId, view, cid, todo, lines, clones,
                 failure, stray>>

FinishJob(j) ==
  /\ j \in pending
  /\ pending' = pending \ {j}
  /\ UNCHANGED <<exists, cloned, comments, nextId, pc, view, cid, todo, lines,
                 clones, failure, stray>>

\* A finished job is restarted, by a person or by openqa-label-known-issues.
RestartJob(j) ==
  /\ j \in (exists \intersect Restartable) \ (pending \union cloned)
  /\ cloned' = cloned \union {j}
  /\ UNCHANGED <<exists, pending, comments, nextId, pc, view, cid, todo, lines,
                 clones, failure, stray>>

DeleteJob(j) ==
  /\ "delete" \in Faults
  /\ j \in exists \ pending
  /\ exists' = exists \ {j}
  /\ comments' = {c \in comments : c.job # j}
  /\ UNCHANGED <<pending, cloned, nextId, pc, view, cid, todo, lines, clones,
                 failure, stray>>

----------------------------------------------------------------------------
Step(r) ==
  \/ GetJob(r) \/ Postpone(r) \/ Enter(r) \/ PostStarting(r)
  \/ ListComments(r) \/ Yield(r)
  \/ TriggerRetry(r) \/ GetInvestigation(r) \/ TriggerRegression(r)
  \/ ReportFailure(r) \/ Finalize(r) \/ Repost(r)

AllEnded == (\A r \in Runs : Ended(r)) /\ UNCHANGED vars

Next ==
  \/ \E r \in Runs : Step(r) \/ RetryHook(r) \/ Crash(r)
  \/ \E j \in Jobs : FinishJob(j) \/ RestartJob(j) \/ DeleteJob(j)
  \/ AllEnded

\* Every call of a run returns, openQA's jobs finish and its hooks are retried.
Fairness ==
  /\ \A r \in Runs : WF_vars(Step(r)) /\ WF_vars(RetryHook(r))
  /\ \A j \in Jobs : WF_vars(FinishJob(j))

Spec == Init /\ [][Next]_vars
FairSpec == Spec /\ Fairness

----------------------------------------------------------------------------
\* The variables have their types, and a run about to trigger a regression
\* job has one left to trigger (TriggerRegression).
TypeOK ==
  /\ exists \subseteq Jobs
  /\ pending \subseteq Jobs
  /\ cloned \subseteq Jobs
  /\ comments \subseteq CommentRecords
  /\ nextId \in Nat \ {0}
  /\ pc \in [Runs -> Steps \union Outcomes]
  /\ view \in [Runs -> (SUBSET Jobs) \ {{}}]
  /\ cid \in [Runs -> Nat]
  /\ todo \in [Runs -> Seq(CloneKinds)]
  /\ lines \subseteq Runs
  /\ clones \subseteq Runs
  /\ failure \in [Runs -> Failures \union {"none"}]
  /\ stray \subseteq Runs
  /\ \A r \in Runs : pc[r] = "regress" => todo[r] # <<>>

\* A run that triggers investigation jobs, or has done so and left the
\* cluster's comment in place.
TriggerSteps == {"retry", "ajax", "regress", "failing", "finish"}
DoneSteps == {"repost", "investigated", "unreported", "aborted"}
Holder(r) == pc[r] \in TriggerSteps \union DoneSteps

\* A holder the comments speak for: not forced, with a comment whose id it
\* knows on a job that still exists.
Synchronised(r) == r \notin Forced /\ cid[r] # 0 /\ First(r) \in exists

\* sync_via_investigation_comment: of the synchronised runs that meet on a
\* job, one at most triggers or has triggered investigation jobs, however the
\* posts, lists, deletions and later edits of the comments interleave.
OneHolder ==
  \A r, s \in Runs :
    /\ Holder(r) /\ Synchronised(r)
    /\ Holder(s) /\ Synchronised(s)
    /\ First(r) = First(s)
    => r = s

\* The runs implement the lock of ClusterLock: a synchronised holder has claimed
\* the job the runs meet on, and keeps the claim when it has reported, or has
\* left its "Starting" comment behind for good.
Claims == {<<r, First(r)>> : r \in {s \in Runs : Holder(s) /\ Synchronised(s)}}
Kept == {c \in Claims : pc[c[1]] \in DoneSteps}
Lock == INSTANCE ClusterLock WITH claims <- Claims, kept <- Kept
ImplementsLock == Lock!Spec

\* What OneHolder rests on.  Ids are handed out once; a run that has announced
\* an investigation and not reported yet is behind a "Starting" comment; the
\* comment of a run stays on the first job until the run gives up; and a holder
\* that went by the comments has the lowest id there for good.
EarlySteps == {"idle", "deps", "postponed", "post"}
AnnouncedSteps == {"list", "yield", "aborted"} \union TriggerSteps
StandingSteps == AnnouncedSteps \union DoneSteps

FreshIds ==
  /\ \A c \in comments : c.id < nextId
  /\ \A r \in Runs : cid[r] < nextId
  /\ \A r \in Runs : pc[r] \in EarlySteps => cid[r] = 0
OwnIds == \A r, s \in Runs : cid[r] = cid[s] /\ cid[r] # 0 => r = s
AnnouncedIsStarting ==
  \A r \in Runs : pc[r] \in AnnouncedSteps =>
    \A c \in comments : c.id = cid[r] => c.kind = "starting"
CommentStands ==
  \A r \in Runs : pc[r] \in StandingSteps /\ cid[r] # 0 /\ First(r) \in exists =>
    \E c \in InvestigationCommentsOn(First(r)) : c.id = cid[r]
HolderIsLowest ==
  \A r \in Runs : Holder(r) /\ Synchronised(r) =>
    \A c \in InvestigationCommentsOn(First(r)) : cid[r] <= c.id
LockInv == FreshIds /\ OwnIds /\ AnnouncedIsStarting /\ CommentStands /\ HolderIsLowest

\* sync_via_investigation_comment: the runs of a cluster never all give way to
\* each other: for every run that backed off there is one of its cluster that has
\* announced itself and does not back off, though it may come to end without an
\* investigation.  A POST carried out twice leaves a comment that belongs to no
\* run, for which all may give way, and is left out.
Leader(r) == cid[r] # 0 /\ pc[r] \notin {"yield", "skipped"}
SkipperHasLeader ==
  "repeat" \notin Faults =>
    \A s \in Runs : pc[s] = "skipped" =>
      \E r \in Runs : Leader(r) /\ JobOf[r] \in Cluster[JobOf[s]]

\* run_investigation_logic: what is left of an announcement, which keeps every
\* later run of the cluster from investigating.  A "Starting" comment outlives
\* its run only if the run was killed, left through typer.Exit while cloning, or
\* had its POST carried out twice: then the first of its two comments stays when
\* the run gives way to it, as it does unless it is forced.
OrderlyExitClearsStarting ==
  \A c \in comments : c.kind = "starting" /\ Ended(c.by) =>
    \/ pc[c.by] \in {"aborted", "crashed"}
    \/ /\ "repeat" \in Faults /\ c.id + 1 = cid[c.by]
       /\ pc[c.by] = "skipped" \/ c.by \in Forced

\* query_dependency_data_or_postpone: nothing is triggered for a job as long
\* as a job of its cluster runs, unless the dependency data was unavailable.
WaitsForCluster ==
  "nodata" \notin Faults =>
    \A r \in Runs : pc[r] \in TriggerSteps /\ JobOf[r] \in exists =>
      Cluster[JobOf[r]] \intersect exists \intersect pending = {}

\* finalize_investigation_comment: the report of a synchronised run is on the
\* job it was started for, where post_investigate will look for it, also when
\* the comment the runs synchronised on is on another job or gone by now.
ReportReachesOrigin ==
  \A r \in Runs : pc[r] = "investigated" /\ cid[r] # 0 /\ JobOf[r] \in exists =>
    \E c \in comments : c.job = JobOf[r] /\ c.kind = "automatic" /\ c.by = r

\* query_dependency_data_or_postpone and openQA's hook retries: every run
\* comes to an end, also one that was postponed many times.
RunsEnd == \A r \in Runs : <>Ended(r)

\* run_investigation_logic: once a run has announced an investigation, it, or
\* a run that has announced itself earlier on the same job, completes one or
\* reports why not; that others are forced to investigate does not count.  It
\* holds as long as clone() refuses no job: a run that ends by typer.Exit neither
\* completes nor reports, and its announcement turns away the others for good.
NothingRefused == \A r \in Runs : pc[r] # "aborted"
ClusterSettled ==
  []NothingRefused =>
    \A r \in Runs : pc[r] = "list" ~>
      \E s \in Runs : /\ First(s) = First(r) /\ cid[s] \in 1 .. cid[r]
                      /\ pc[s] \in {"investigated", "failed", "ignored"}

\* sync_via_investigation_comment, "Skipping investigation of job %s: job
\* cluster is already being investigated": a run gives way only to one that
\* still investigates or has finished doing so.
SkipsOnlyForInvestigation ==
  [][\A s \in Runs : pc[s] = "list" /\ pc'[s] = "yield" =>
       \E r \in Runs \ {s} :
         pc[r] \in TriggerSteps \union {"list", "repost", "investigated"}]_vars

\* main's help text for prio_add, "Priority added to cloned jobs.": clone()
\* sets the priority of no other job.
PriorityOnlyOnClones == stray = {}

\* run_investigation_logic, "Ignoring known error when triggering job": a job
\* that can not be cloned because its repositories are unavailable is no error
\* of the run.
KnownErrorIgnored ==
  \A r \in Runs : pc[r] = "failed" => failure[r] # "repositories unavailable"

============================================================================
