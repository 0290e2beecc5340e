-------------------------- MODULE PostInvestigate --------------------------
(***************************************************************************)
(* openqa-investigate, the part run for a finished investigation job       *)
(* (post_investigate).  The runs for the failed job, "origin", create a    *)
(* retry and regression jobs and report them in a comment on the origin;   *)
(* openQA calls the hook for the retry when it is finished, and that run   *)
(* reads the comment and the results and posts a verdict on the origin.    *)
(* The two are not synchronised, except that the second waits (exit code   *)
(* 142) for the jobs the comment lists.                                    *)
(***************************************************************************)
EXTENDS Integers, SequencesExt

CONSTANTS
  MaxInvestigations, \* how often the origin is investigated at most
  Reasons, \* the causes of the failure that are considered
  Forced,  \* whether a later investigation is started in any case
  IsFirst, \* whether the origin is the first job of its cluster
  Faults   \* what may happen besides: "cancel", "delete"

ASSUME PostAssumption ==
  /\ MaxInvestigations \in Nat \ {0}
  /\ Reasons \subseteq
       {"sporadic", "product", "test", "mixed", "interplay", "infra"}
  /\ Forced \in BOOLEAN
  /\ IsFirst \in BOOLEAN
  /\ Faults \subseteq {"cancel", "delete"}

Investigations == 1..MaxInvestigations

VARIABLES
  cause,   \* why the origin failed
  changed, \* what changed since the last good job, if there is one
  blank,   \* what the last good job's variables do not name
  origin,  \* whether openQA still has the origin
  phase,   \* how far each investigation of the origin has come
  todo,    \* the regression jobs an investigation has still to trigger
  job,     \* the state of each investigation's jobs
  result,  \* their results
  reports, \* the investigations reported on the origin, oldest comment first
  pc,      \* where the hook of each retry is
  verdict, \* what it is about to post
  used,    \* the investigation whose results the verdict rests on, 0 for none
  posted   \* the verdicts on the origin

vars == <<cause, changed, blank, origin, phase, todo, job, result, reports, pc,
          verdict, used, posted>>
hookVars == <<pc, verdict, used, posted>>
jobVars == <<cause, changed, blank, origin, phase, todo, job, result, reports>>

----------------------------------------------------------------------------
Kinds == {"retry", "tests", "build", "both"}
Changes == {"tests", "build"}

\* Which changes a cause needs: a product issue comes with a new build, ...
Possible(c, ch) ==
  CASE c = "product" -> "build" \in ch
    [] c = "test" -> "tests" \in ch
    [] c \in {"mixed", "interplay"} -> ch = Changes
    [] OTHER -> TRUE

\* The jobs that pass: those that take back what makes the origin fail.  For
\* "mixed" test and product are broken, for "interplay" they do not fit.
Passing(c) ==
  CASE c = "product" -> {"build", "both"}
    [] c = "test" -> {"tests", "both"}
    [] c = "mixed" -> {"both"}
    [] c = "interplay" -> {"tests", "build", "both"}
    [] OTHER -> {}

\* "passed" stands for softfailed too, "cancelled" for every result that tells
\* nothing (skipped, user_restarted, ...).  Without the hash of the last good
\* tests that job runs the current ones; the last good build comes with the job
\* that is cloned.
Results == {"passed", "failed", "cancelled"}
ResultsOf(k) ==
  (IF cause = "sporadic" THEN {"passed", "failed"}
   ELSE IF k \in Passing(cause) /\ ~(k = "tests" /\ k \in blank)
   THEN {"passed"} ELSE {"failed"})
    \union ({"cancelled"} \intersect (IF "cancel" \in Faults THEN Results ELSE {}))

\* _trigger_regression_jobs: what is triggered for the changes.
Plan(ch) ==
  (IF "tests" \in ch THEN <<"tests">> ELSE <<>>)
    \o (IF "build" \in ch THEN <<"build">> ELSE <<>>)
    \o (IF ch = Changes /\ blank = {} THEN <<"both">> ELSE <<>>)

\* The jobs a report lists.  What a later clean-up deletes stays listed.
Listed(i) == {k \in Kinds : job[i][k] # "absent"}
Finished(i, k) == job[i][k] = "done"

----------------------------------------------------------------------------
Init ==
  /\ changed \in SUBSET Changes
  /\ blank \in SUBSET changed
  /\ cause \in {c \in Reasons : Possible(c, changed)}
  /\ origin = TRUE
  /\ phase = [i \in Investigations |-> "idle"]
  /\ todo = [i \in Investigations |-> <<>>]
  /\ job = [i \in Investigations |-> [k \in Kinds |-> "absent"]]
  /\ result = [i \in Investigations |-> [k \in Kinds |-> "none"]]
  /\ reports = <<>>
  /\ pc = [i \in Investigations |-> "idle"]
  /\ verdict = [i \in Investigations |-> "none"]
  /\ used = [i \in Investigations |-> 0]
  /\ posted = [i \in Investigations |-> "none"]

\* trigger_jobs: the retry is cloned first, or openQA answers 404 and no job
\* comes of it.  A second investigation follows one that rewrote its comment to
\* "failed", or is asked for with force.
CloneRetry(i) ==
  /\ origin
  /\ phase[i] = "idle"
  /\ \A h \in 1..(i - 1) : phase[h] = "failed" \/ (Forced /\ phase[h] # "idle")
  /\ job' = [job EXCEPT ![i]["retry"] = "running"] \/ UNCHANGED job
  /\ todo' = [todo EXCEPT ![i] = Plan(changed)]
  /\ phase' = [phase EXCEPT ![i] = "cloning"]
  /\ UNCHANGED <<cause, changed, blank, origin, result, reports, hookVars>>

\* A regression job is cloned, or there is none: it is left out for want of a
\* usable test URL, or openQA answers 404 and its line in the report names no
\* job.
CloneRegression(i) ==
  /\ phase[i] = "cloning"
  /\ todo[i] # <<>>
  /\ job' = [job EXCEPT ![i][Head(todo[i])] = "running"] \/ UNCHANGED job
  /\ todo' = [todo EXCEPT ![i] = Tail(@)]
  /\ UNCHANGED <<cause, changed, blank, origin, phase, result, reports, hookVars>>

\* Mutant of Fail: what was triggered before the failure is reported.
FailReported(i) ==
  /\ phase[i] = "cloning"
  /\ phase' = [phase EXCEPT ![i] = "failed"]
  /\ reports' = IF origin THEN Append(reports, i) ELSE reports
  /\ UNCHANGED <<cause, changed, blank, origin, todo, job, result, hookVars>>

\* The triggering fails: what was cloned runs, no report is written, and only
\* an exception ("failed") frees the cluster for another investigation.
Fail(i) ==
  /\ phase[i] = "cloning"
  /\ \E p \in {"failed", "aborted"} : phase' = [phase EXCEPT ![i] = p]
  /\ UNCHANGED <<cause, changed, blank, origin, todo, job, result, reports,
                 hookVars>>

\* Mutant of Report: a report after every clone.
ReportEach(i) ==
  /\ phase[i] = "cloning"
  /\ phase' = [phase EXCEPT ![i] = IF todo[i] = <<>> THEN "reported" ELSE "cloning"]
  /\ reports' = IF origin THEN Append(reports, i) ELSE reports
  /\ UNCHANGED <<cause, changed, blank, origin, todo, job, result, hookVars>>

\* finalize_investigation_comment: the report appears on the origin.
Report(i) ==
  /\ phase[i] = "cloning"
  /\ todo[i] = <<>>
  /\ phase' = [phase EXCEPT ![i] = "reported"]
  /\ reports' = IF origin THEN Append(reports, i) ELSE reports
  /\ UNCHANGED <<cause, changed, blank, origin, todo, job, result, hookVars>>

FinishJob(i, k) ==
  /\ job[i][k] = "running"
  /\ \E x \in ResultsOf(k) : result' = [result EXCEPT ![i][k] = x]
  /\ job' = [job EXCEPT ![i][k] = "done"]
  /\ UNCHANGED <<cause, changed, blank, origin, phase, todo, reports, hookVars>>

\* openQA removes a finished investigation job.  That of a retry whose hook has
\* not ended is left out.
DeleteJob(i, k) ==
  /\ "delete" \in Faults
  /\ k # "retry"
  /\ job[i][k] = "done"
  /\ job' = [job EXCEPT ![i][k] = "deleted"]
  /\ UNCHANGED <<cause, changed, blank, origin, phase, todo, result, reports, hookVars>>

DeleteOrigin ==
  /\ "delete" \in Faults
  /\ origin
  /\ origin' = FALSE
  /\ reports' = <<>>
  /\ UNCHANGED <<cause, changed, blank, phase, todo, job, result, hookVars>>

----------------------------------------------------------------------------
\* Mutant of IssueType: what was not triggered counts as failed, and the job
\* with the last good tests and build is not asked.
IssueTypeUnknownFails(i, ks) ==
  LET passed(k) == k \in ks /\ result[i][k] = "passed"
  IN  IF \E k \in ks : result[i][k] = "cancelled" THEN "cancelled"
      ELSE CASE ~passed("tests") /\ passed("build") -> "product"
             [] passed("tests") /\ ~passed("build") -> "test"
             [] ~passed("tests") /\ ~passed("build") -> "infra"
             [] OTHER -> "not sporadic"

\* _build_investigation_comment: what a comment on the origin may say.
Verdicts ==
  {"none", "sporadic", "cancelled", "product", "test", "infra", "not sporadic"}

\* identify_issue_type: what the results of the jobs ks of an investigation
\* tell.  A job that was not triggered counts neither as passed nor as failed.
IssueType(i, ks) ==
  LET passed(k) == k \in ks /\ result[i][k] = "passed"
      failed(k) == k \in ks /\ result[i][k] = "failed"
  IN  IF \E k \in ks : result[i][k] = "cancelled" THEN "cancelled"
      ELSE CASE ~failed("both") /\ ~passed("tests") /\ passed("build") -> "product"
             [] ~failed("both") /\ passed("tests") /\ ~passed("build") -> "test"
             [] failed("both") /\ failed("tests") /\ failed("build") -> "infra"
             [] OTHER -> "not sporadic"

\* The hook of a finished retry: without its origin there is nobody to report
\* to, a retry that passed needs no results of other jobs.
VerifyRetry(i) ==
  /\ pc[i] = "idle"
  /\ Finished(i, "retry")
  /\ IF result[i]["retry"] = "passed" /\ origin
     THEN verdict' = [verdict EXCEPT ![i] = "sporadic"]
     ELSE UNCHANGED verdict
  /\ pc' = [pc EXCEPT ![i] = IF ~origin THEN "ended"
                             ELSE IF result[i]["retry"] = "passed" THEN "post"
                             ELSE "fetch"]
  /\ UNCHANGED <<jobVars, used, posted>>

\* Mutant of Settled: the regression jobs are not waited for.
SettledRetry(i) == Finished(i, "retry")

\* fetch_investigation_results: one job that is not known to be finished
\* postpones the hook.
Settled(i) == \A k \in Listed(i) : Finished(i, k)

\* _find_investigation_comment: the report with the lowest id.  On the first job
\* of a cluster it is the comment of the investigation that started first, on
\* the others the copy that was posted first.
Oldest ==
  IF IsFirst THEN CHOOSE i \in Range(reports) : \A h \in Range(reports) : i <= h
  ELSE Head(reports)

\* Mutant of FetchResults: a postponed hook is not called again.
FetchResultsOnce(i) ==
  /\ pc[i] = "fetch"
  /\ reports # <<>> /\ ~Settled(Oldest)
  /\ pc' = [pc EXCEPT ![i] = "ended"]
  /\ UNCHANGED <<jobVars, verdict, used, posted>>

\* Without a report there are no results, and the verdict is a vague one.
FetchResults(i) ==
  /\ pc[i] = "fetch"
  /\ \/ /\ reports = <<>>
        /\ verdict' = [verdict EXCEPT ![i] = IssueType(i, {})]
        /\ pc' = [pc EXCEPT ![i] = "post"]
        /\ UNCHANGED used
     \/ /\ reports # <<>> /\ ~Settled(Oldest)
        /\ pc' = [pc EXCEPT ![i] = "postponed"]
        /\ UNCHANGED <<verdict, used>>
     \/ /\ reports # <<>> /\ Settled(Oldest)
        /\ verdict' = [verdict EXCEPT ![i] = IssueType(Oldest, Listed(Oldest))]
        /\ used' = [used EXCEPT ![i] = Oldest]
        /\ pc' = [pc EXCEPT ![i] = "post"]
  /\ UNCHANGED <<jobVars, posted>>

PostVerdict(i) ==
  /\ pc[i] = "post"
  /\ posted' = IF origin THEN [posted EXCEPT ![i] = verdict[i]] ELSE posted
  /\ pc' = [pc EXCEPT ![i] = "ended"]
  /\ UNCHANGED <<jobVars, verdict, used>>

\* openQA calls the hook again after exit code 142.
RetryHook(i) ==
  /\ pc[i] = "postponed"
  /\ pc' = [pc EXCEPT ![i] = "idle"]
  /\ UNCHANGED <<jobVars, verdict, used, posted>>

----------------------------------------------------------------------------
Hook(i) == VerifyRetry(i) \/ FetchResults(i) \/ PostVerdict(i) \/ RetryHook(i)
Trigger(i) == CloneRegression(i) \/ Fail(i) \/ Report(i)

Next ==
  \/ \E i \in Investigations : CloneRetry(i) \/ Trigger(i) \/ Hook(i)
  \/ \E i \in Investigations, k \in Kinds : FinishJob(i, k) \/ DeleteJob(i, k)
  \/ DeleteOrigin

Spec == Init /\ [][Next]_vars

\* Calls return, jobs finish, hooks are retried.
Fairness ==
  /\ \A i \in Investigations : WF_vars(Hook(i)) /\ WF_vars(Trigger(i))
  /\ \A i \in Investigations, k \in Kinds : WF_vars(FinishJob(i, k))
FairSpec == Spec /\ Fairness

----------------------------------------------------------------------------
TypeOK ==
  /\ cause \in Reasons /\ changed \subseteq Changes /\ blank \subseteq changed
  /\ origin \in BOOLEAN
  /\ phase \in [Investigations -> {"idle", "cloning", "reported", "failed", "aborted"}]
  /\ todo \in [Investigations -> Seq(Kinds)]
  /\ job \in [Investigations -> [Kinds -> {"absent", "running", "done", "deleted"}]]
  /\ result \in [Investigations -> [Kinds -> Results \union {"none"}]]
  /\ reports \in Seq(Investigations) /\ Len(reports) <= MaxInvestigations
  /\ pc \in [Investigations -> {"idle", "fetch", "postponed", "post", "ended"}]
  /\ used \in [Investigations -> Investigations \union {0}]
  /\ verdict \in [Investigations -> Verdicts] /\ posted \in [Investigations -> Verdicts]

\* identify_issue_type: when the origin fails for one reason, every verdict
\* that names a reason names that one.  Whatever was left out, cancelled, forced
\* or read early, a verdict may be vague but not wrong.  The exception: tests and
\* build that only fail together look like a product issue when there is no job
\* that really has the last good tests, and like a test issue when there is none
\* with the last good build.
Mistaken(i) ==
  /\ cause = "interplay"
  /\ \/ /\ posted[i] = "product"
        /\ job[used[i]]["tests"] = "absent" \/ "tests" \in blank
     \/ posted[i] = "test" /\ job[used[i]]["build"] = "absent"
VerdictIsRight ==
  \A i \in Investigations :
    posted[i] \in {"product", "test", "infra"} /\ cause # "sporadic" =>
      posted[i] = cause \/ Mistaken(i)

\* fetch_investigation_results and _find_investigation_comment: a verdict rests
\* on an investigation that was completed and all jobs of which have ended, in
\* whatever order investigations fail or are repeated, reports appear, jobs
\* finish and hooks are called.
VerdictRestsOnFinishedJobs ==
  \A i \in Investigations :
    posted[i] # "none" /\ used[i] # 0 =>
      /\ phase[used[i]] = "reported"
      /\ \A k \in Listed(used[i]) : job[used[i]][k] # "running"

\* post_investigate and openQA's hook retries: every retry that was cloned gets
\* its verdict as long as openQA keeps the jobs, also when its investigation
\* failed half way.
Gone == ~origin \/ \E i \in Investigations, k \in Kinds : job[i][k] = "deleted"
VerdictArrives ==
  \A i \in Investigations : (job[i]["retry"] # "absent") ~> (posted[i] # "none" \/ Gone)

\* fetch_investigation_results, "Investigation job %s is not finished": a hook
\* is postponed for a job that exists and is not finished.
PostponedForRunningJob ==
  [][\A i \in Investigations : pc[i] = "fetch" /\ pc'[i] = "postponed" =>
       \E h \in Investigations, k \in Kinds : job[h][k] = "running"]_vars
============================================================================
