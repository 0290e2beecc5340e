--------------------------- MODULE StagingPipeline ---------------------------
(* The pipeline that tests openQA in openQA and submits it: a snapshot of the *)
(* packages is released into a staging project (trigger-openqa_in_openqa), a  *)
(* job of openQA installs them (monitor-openqa_job), and the packages are     *)
(* committed to the project of tested packages, submitted, and removed from   *)
(* the staging project (os-autoinst-obs-auto-submit).                         *)
(*                                                                            *)
(* A step is one call to OBS or openQA.  The stages run in one directory; a   *)
(* stage that fails ends the pipeline.  Packages are handled in any order, a  *)
(* revision is a number, 0 is a package that is not there.                    *)
EXTENDS Integers

CONSTANTS
  Pipelines,  \* pipelines that may run at the same time
  Packages,   \* what list_packages finds in the project of tested packages
  LastRev,    \* bound: commits to a package end with this revision
  FaultSets   \* the combinations of faults looked at

(* "ls", "release", "delete", "osc", "openqa": calls of this kind may fail    *)
(* for good; "nojobs": openQA may schedule nothing; "die": pipelines may be   *)
(* killed.                                                                    *)
AllFaults == {"ls", "release", "delete", "osc", "openqa", "nojobs", "die"}

ASSUME StagingAssumption ==
  /\ LastRev \in Nat \ {0} /\ Packages # {}
  /\ FaultSets \subseteq SUBSET AllFaults

VARIABLES
  broken,     \* the faults that may strike in this behaviour
  src,        \* [Packages -> revision in src_project]
  staging,    \* [Packages -> revision in staging_project]
  dst,        \* [Packages -> revision in dst_project]
  pc,         \* [Pipelines -> what the pipeline does next]
  project,    \* [Pipelines -> the project its jobs install from]
  skip,       \* [Pipelines -> is there a file job_post_skip_submission]
  todo,       \* [Pipelines -> packages still to be handled by a loop]
  installed,  \* [Pipelines -> the revisions its jobs installed]
  result,     \* [Pipelines -> what its jobs came to]
  package,    \* [Pipelines -> the package that is being submitted]
  checkout,   \* [Pipelines -> its revision when it was checked out]
  rc          \* [Pipelines -> whether a package could not be submitted]

projects == <<src, staging, dst>>
testing == <<installed, result>>
submission == <<package, checkout, rc>>
vars == <<broken, projects, pc, project, skip, todo, testing, submission>>

Revisions == 0 .. LastRev
Empty == [q \in Packages |-> 0]
Staged == {q \in Packages : staging[q] # 0}

(* The listings of delete_packages_from_obs_project, and the loops after them.*)
Loop == [drop |-> "dropping", rollback |-> "rolling back",
         empty |-> "emptying", clean |-> "cleaning"]

Stages == {"idle", "list", "release", "schedule", "test", "result", "submit",
           "package", "update", "remove"}
          \cup DOMAIN Loop \cup {Loop[s] : s \in DOMAIN Loop}

TypeOK ==
  /\ broken \in FaultSets
  /\ src \in [Packages -> Revisions] /\ staging \in [Packages -> Revisions]
  /\ dst \in [Packages -> Revisions]
  /\ pc \in [Pipelines -> Stages]
  /\ project \in [Pipelines -> {"src", "staging"}]
  /\ skip \in [Pipelines -> BOOLEAN] /\ rc \in [Pipelines -> BOOLEAN]
  /\ todo \in [Pipelines -> SUBSET Packages]
  /\ installed \in [Pipelines -> [Packages -> Revisions]]
  /\ result \in [Pipelines -> {"none", "passed", "failed"}]
  /\ package \in [Pipelines -> Packages]
  /\ checkout \in [Pipelines -> Revisions]

Init ==
  /\ broken \in FaultSets
  /\ src = [q \in Packages |-> 1] /\ staging = Empty /\ dst = Empty
  /\ pc = [p \in Pipelines |-> "idle"]
  /\ project = [p \in Pipelines |-> "staging"]
  /\ skip = [p \in Pipelines |-> FALSE] /\ rc = [p \in Pipelines |-> FALSE]
  /\ todo = [p \in Pipelines |-> {}]
  /\ installed = [p \in Pipelines |-> Empty]
  /\ result = [p \in Pipelines |-> "none"]
  /\ package = [p \in Pipelines |-> CHOOSE q \in Packages : TRUE]
  /\ checkout = [p \in Pipelines |-> 0]

Goto(p, stage) == pc' = [pc EXCEPT ![p] = stage]

(* The stage fails, or was the last one.                                      *)
End(p) == Goto(p, "idle")
Abort(p) ==
  /\ End(p) /\ todo' = [todo EXCEPT ![p] = {}]
  /\ UNCHANGED <<projects, project, skip, testing, submission>>
-----------------------------------------------------------------------------
(* trigger-openqa_in_openqa.                                                  *)
Start(p) ==
  /\ pc[p] = "idle" /\ Goto(p, "list")
  /\ result' = [result EXCEPT ![p] = "none"]
  /\ installed' = [installed EXCEPT ![p] = Empty]
  /\ rc' = [rc EXCEPT ![p] = FALSE] /\ checkout' = [checkout EXCEPT ![p] = 0]
  /\ UNCHANGED <<projects, project, skip, todo, package>>

(* What list_packages can return for a project with these packages: a failed  *)
(* osc ls looks like an empty project.                                        *)
Listings(names) == {names} \cup (IF "ls" \in broken THEN {{}} ELSE {})

(* create_devel_openqa_snapshot: while there are packages in staging_project, *)
(* src_project is tested and nothing is submitted.                            *)
ListStaging(p) ==
  /\ pc[p] = "list"
  /\ \E staged \in Listings(Staged), names \in Listings(Packages) :
       /\ todo' = [todo EXCEPT ![p] = IF staged = {} THEN names ELSE {}]
       /\ skip' = [skip EXCEPT ![p] = staged # {}]
       /\ project' = [project EXCEPT ![p] = IF staged = {} THEN "staging" ELSE "src"]
       /\ Goto(p, IF staged = {} THEN "release" ELSE "schedule")
  /\ UNCHANGED <<projects, testing, submission>>

(* A package is built, and create_snapshots releases it.  The shell ignores   *)
(* errors in this function, as it is called on the left of a "||".            *)
Release(p, q) ==
  /\ pc[p] = "release" /\ q \in todo[p]
  /\ \/ staging' = [staging EXCEPT ![q] = src[q]]
     \/ "release" \in broken /\ UNCHANGED staging
  /\ todo' = [todo EXCEPT ![p] = @ \ {q}]
  /\ UNCHANGED <<src, dst, pc, project, skip, testing, submission>>

(* Mutant of NotReady: the snapshot stays.                                    *)
NotReadyStays(p) ==
  /\ pc[p] = "release" /\ todo[p] # {}
  /\ skip' = [skip EXCEPT ![p] = TRUE] /\ todo' = [todo EXCEPT ![p] = {}]
  /\ Goto(p, "schedule")
  /\ UNCHANGED <<projects, project, testing, submission>>

(* "Package is not yet ready for release": the snapshot is removed, and what  *)
(* is left of it tested.                                                      *)
NotReady(p) ==
  /\ pc[p] = "release" /\ todo[p] # {}
  /\ skip' = [skip EXCEPT ![p] = TRUE]
  /\ Goto(p, "drop")
  /\ UNCHANGED <<projects, project, todo, testing, submission>>

(* sync_changesrevision exits when a _servicedata file is broken.             *)
BrokenServicedata(p) ==
  /\ pc[p] = "release" /\ todo[p] # {} /\ "release" \in broken /\ Abort(p)

(* osc prjresults --watch.                                                    *)
Published(p) ==
  /\ pc[p] = "release" /\ todo[p] = {}
  /\ Goto(p, "schedule") \/ ("release" \in broken /\ Goto(p, "rollback"))
  /\ UNCHANGED <<projects, project, skip, todo, testing, submission>>

(* trigger schedules the jobs, which install the packages when a worker takes *)
(* them.                                                                      *)
Schedule(p) ==
  /\ pc[p] = "schedule"
  /\ \/ Goto(p, "test") /\ UNCHANGED <<projects, project, skip, todo, testing, submission>>
     \/ "openqa" \in broken /\ Abort(p)

Install(p) ==
  /\ pc[p] = "test" /\ Goto(p, "result")
  /\ installed' = [installed EXCEPT ![p] = IF project[p] = "src" THEN src ELSE staging]
  /\ UNCHANGED <<projects, project, skip, todo, result, submission>>
-----------------------------------------------------------------------------
(* monitor-openqa_job.                                                        *)
JobsEnd(p) ==
  /\ pc[p] = "result"
  /\ \/ result' = [result EXCEPT ![p] = "passed"] /\ Goto(p, "submit")
     \/ result' = [result EXCEPT ![p] = "failed"] /\ Goto(p, "empty")
  /\ UNCHANGED <<projects, project, skip, todo, installed, submission>>

(* Nothing was scheduled, and so nothing failed.                              *)
NoJobs(p) ==
  /\ pc[p] = "test" /\ "nojobs" \in broken /\ Goto(p, "submit")
  /\ UNCHANGED <<projects, project, skip, todo, testing, submission>>

(* The jobs can not be read.                                                  *)
MonitorFails(p) == pc[p] \in {"test", "result"} /\ "openqa" \in broken /\ Abort(p)
-----------------------------------------------------------------------------
(* delete_packages_from_obs_project, of _common and of monitor-openqa_job:    *)
(* after a package that was not ready, after a snapshot that failed, after    *)
(* jobs that failed, and after a submission (cleanup-obs-project).            *)
ListPackages(p) ==
  /\ pc[p] \in DOMAIN Loop /\ Goto(p, Loop[pc[p]])
  /\ \E names \in Listings(Staged) : todo' = [todo EXCEPT ![p] = names]
  /\ UNCHANGED <<projects, project, skip, testing, submission>>

(* cleanup-obs-project gives up when a package can not be deleted, the others *)
(* go on.                                                                     *)
DeletePackage(p, q) ==
  /\ pc[p] \in {Loop[s] : s \in DOMAIN Loop} /\ q \in todo[p]
  /\ \/ /\ staging' = [staging EXCEPT ![q] = 0]
        /\ todo' = [todo EXCEPT ![p] = @ \ {q}]
        /\ UNCHANGED <<src, dst, pc, project, skip, testing, submission>>
     \/ /\ "delete" \in broken \/ staging[q] = 0
        /\ pc[p] \in {"dropping", "emptying"}
        /\ todo' = [todo EXCEPT ![p] = @ \ {q}]
        /\ UNCHANGED <<projects, pc, project, skip, testing, submission>>
     \/ /\ "delete" \in broken \/ staging[q] = 0
        /\ pc[p] \in {"rolling back", "cleaning"}
        /\ Abort(p)

(* The snapshot is dropped, and the jobs are scheduled nevertheless.          *)
Dropped(p) ==
  /\ pc[p] = "dropping" /\ todo[p] = {} /\ Goto(p, "schedule")
  /\ UNCHANGED <<projects, project, skip, todo, testing, submission>>

(* Mutant of Emptied: an empty project is thought to be enough.               *)
EmptiedOnly(p) ==
  /\ pc[p] = "emptying" /\ todo[p] = {} /\ Goto(p, "submit")
  /\ UNCHANGED <<projects, project, skip, todo, testing, submission>>

(* monitor-openqa_job keeps the submission from being done.                   *)
Emptied(p) ==
  /\ pc[p] = "emptying" /\ todo[p] = {} /\ Goto(p, "submit")
  /\ skip' = [skip EXCEPT ![p] = TRUE]
  /\ UNCHANGED <<projects, project, todo, testing, submission>>

Cleaned(p) ==
  pc[p] \in {"rolling back", "cleaning"} /\ todo[p] = {} /\ Abort(p)
-----------------------------------------------------------------------------
(* os-autoinst-obs-auto-submit, _run_submissions.                             *)
Submit(p) ==
  /\ pc[p] = "submit"
  /\ IF skip[p] THEN Abort(p)
     ELSE /\ Goto(p, "package")
          /\ \E names \in Listings(Packages) : todo' = [todo EXCEPT ![p] = names]
          /\ UNCHANGED <<projects, project, skip, testing, submission>>

(* handle_auto_submit: a package is checked out from staging_project.         *)
Checkout(p, q) ==
  /\ pc[p] = "package" /\ q \in todo[p] /\ staging[q] # 0
  /\ package' = [package EXCEPT ![p] = q]
  /\ checkout' = [checkout EXCEPT ![p] = staging[q]]
  /\ todo' = [todo EXCEPT ![p] = @ \ {q}]
  /\ Goto(p, "update")
  /\ UNCHANGED <<projects, project, skip, testing, rc>>

(* It is up to date, or has changes that do not look right, or none; or it is *)
(* committed to dst_project, builds or not, and is submitted or not.          *)
Update(p) ==
  /\ pc[p] = "update" /\ Goto(p, "remove")
  /\ dst' = dst \/ dst' = [dst EXCEPT ![package[p]] = checkout[p]]
  /\ rc' = rc \/ rc' = [rc EXCEPT ![p] = TRUE]
  /\ UNCHANGED <<src, staging, project, skip, todo, testing, package, checkout>>

(* Whatever it came to, the package is removed from staging_project.          *)
Remove(p) ==
  /\ pc[p] = "remove" /\ staging[package[p]] # 0
  /\ staging' = [staging EXCEPT ![package[p]] = 0]
  /\ Goto(p, "package")
  /\ UNCHANGED <<src, dst, project, skip, todo, testing, submission>>

(* An exception of a package ends the submission.                             *)
SubmitFails(p) ==
  /\ \/ pc[p] \in {"package", "update"} /\ "osc" \in broken
     \/ pc[p] = "package" /\ \E q \in todo[p] : staging[q] = 0
     \/ pc[p] = "remove" /\ ("delete" \in broken \/ staging[package[p]] = 0)
  /\ Abort(p)

Submitted(p) ==
  /\ pc[p] = "package" /\ todo[p] = {}
  /\ IF rc[p] THEN Abort(p)
     ELSE /\ Goto(p, "clean")
          /\ UNCHANGED <<projects, project, skip, todo, testing, submission>>
-----------------------------------------------------------------------------
(* Developers push, OBS builds; a person cleans staging_project "if no other  *)
(* pipeline is running"; a pipeline is killed.                                *)
Commit(q) ==
  /\ src[q] < LastRev /\ src' = [src EXCEPT ![q] = @ + 1]
  /\ UNCHANGED <<staging, dst, pc, project, skip, todo, testing, submission>>

CleanByHand ==
  /\ \A p \in Pipelines : pc[p] = "idle"
  /\ staging' = Empty
  /\ UNCHANGED <<src, dst, pc, project, skip, todo, testing, submission>>

Die(p) == "die" \in broken /\ pc[p] # "idle" /\ Abort(p)

Trigger(p) ==
  \/ ListStaging(p) \/ NotReady(p) \/ BrokenServicedata(p) \/ Published(p) \/ Schedule(p)
  \/ \E q \in Packages : Release(p, q)
Monitor(p) == Install(p) \/ JobsEnd(p) \/ NoJobs(p) \/ MonitorFails(p) \/ Emptied(p)
Delete(p) ==
  \/ ListPackages(p) \/ Dropped(p) \/ Cleaned(p)
  \/ \E q \in Packages : DeletePackage(p, q)
AutoSubmit(p) ==
  \/ Submit(p) \/ Update(p) \/ Remove(p) \/ SubmitFails(p) \/ Submitted(p)
  \/ \E q \in Packages : Checkout(p, q)
Proceed(p) == Trigger(p) \/ Monitor(p) \/ Delete(p) \/ AutoSubmit(p)

Next ==
  /\ \/ \E p \in Pipelines : Start(p) \/ Proceed(p) \/ Die(p)
     \/ \E q \in Packages : Commit(q)
     \/ CleanByHand
  /\ UNCHANGED broken

Spec == Init /\ [][Next]_vars

(* Calls have timeouts, and jobs end by MAX_JOB_TIME if not themselves.       *)
FairSpec == Spec /\ \A p \in Pipelines : WF_vars(Proceed(p) /\ UNCHANGED broken)
-----------------------------------------------------------------------------
(* "Only use devel:openQA:testing for the hourly runs which we monitor and    *)
(* use for submit requests": what is committed to the project of tested       *)
(* packages is the revision that passing jobs of the same pipeline installed  *)
(* from the staging project, whatever is pushed, fails, is left over by       *)
(* earlier pipelines or killed in between, if there are jobs.                 *)
SubmittedWasTested ==
  "nojobs" \notin broken =>
    \A p \in Pipelines : pc[p] = "update" =>
      /\ result[p] = "passed" /\ project[p] = "staging"
      /\ checkout[p] = installed[p][package[p]]

(* "so we don't leave the staging project in an intermediate state": what has *)
(* been released is removed again, by the submission, after jobs that failed  *)
(* or when the snapshot can not be completed.                                 *)
StagingIsFreed == broken = {} => Staged # {} ~> Staged = {}

(* "delete packages from staging project in error case as we will not         *)
(* continue submitting those packages": nobody else is going to submit them.  *)
EmptiesOnlyOwnStaging ==
  [][\A p, r \in Pipelines, q \in Packages :
       pc[p] = "emptying" /\ staging[q] # 0 /\ staging'[q] = 0 /\ p # r =>
         ~ (pc[r] \in {"test", "result", "submit", "package"}
            /\ project[r] = "staging" /\ ~ skip[r])]_vars
=============================================================================
