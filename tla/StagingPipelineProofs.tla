----------------------- MODULE StagingPipelineProofs ------------------------
(* Theorems about StagingPipeline when one pipeline runs at a time: for any   *)
(* packages, revisions and faults, what is committed to the project of tested *)
(* packages was installed by jobs that passed.                                *)
EXTENDS StagingPipeline, TLAPS

OnePipeline == \A p, r \in Pipelines : p = r

(* Where a pipeline is that has its jobs behind it.                           *)
Tested == {"result", "empty", "emptying", "submit", "package", "update", "remove"}

(* What is in the staging project after the jobs is what they installed: the  *)
(* pipeline itself only takes packages away.                                  *)
PipelineInv(p) ==
  /\ pc[p] \notin {"idle", "list"} => skip[p] \/ project[p] = "staging"
  /\ pc[p] \in Tested /\ project[p] = "staging" =>
       \A q \in Packages : staging[q] \in {0, installed[p][q]}
  /\ pc[p] = "submit" => skip[p] \/ result[p] = "passed"
  /\ pc[p] \in {"package", "update", "remove"} => ~ skip[p] /\ result[p] = "passed"
  /\ pc[p] = "update" => checkout[p] = installed[p][package[p]]

IInv ==
  /\ TypeOK
  /\ "nojobs" \notin broken => \A p \in Pipelines : PipelineInv(p)
-----------------------------------------------------------------------------
LEMMA LoopFacts ==
  /\ DOMAIN Loop = {"drop", "rollback", "empty", "clean"}
  /\ Loop["drop"] = "dropping" /\ Loop["rollback"] = "rolling back"
  /\ Loop["empty"] = "emptying" /\ Loop["clean"] = "cleaning"
  /\ {Loop[s] : s \in DOMAIN Loop} = {"dropping", "rolling back", "emptying", "cleaning"}
<1>1. DOMAIN Loop = {"drop", "rollback", "empty", "clean"}
  BY DEF Loop
<1>2. /\ Loop["drop"] = "dropping" /\ Loop["rollback"] = "rolling back"
      /\ Loop["empty"] = "emptying" /\ Loop["clean"] = "cleaning"
  BY DEF Loop
<1>3. {Loop[s] : s \in DOMAIN Loop} = {"dropping", "rolling back", "emptying", "cleaning"}
  BY <1>1, <1>2
<1> QED BY <1>1, <1>2, <1>3

LEMMA StageFacts ==
  Stages = {"idle", "list", "release", "schedule", "test", "result", "submit",
            "package", "update", "remove", "drop", "rollback", "empty", "clean",
            "dropping", "rolling back", "emptying", "cleaning"}
  BY LoopFacts DEF Stages

(* The types.                                                                 *)
LEMMA InitTypeOK == Init => TypeOK
<1> SUFFICES ASSUME Init PROVE TypeOK
  OBVIOUS
<1>1. 0 \in Revisions /\ 1 \in Revisions
  BY StagingAssumption DEF Revisions
<1>2. Empty \in [Packages -> Revisions] /\ src \in [Packages -> Revisions]
  BY <1>1 DEF Init, Empty
<1>3. package \in [Pipelines -> Packages]
  BY StagingAssumption DEF Init
<1>4. skip \in [Pipelines -> BOOLEAN] /\ rc \in [Pipelines -> BOOLEAN]
  BY Zenon DEF Init
<1>5. /\ todo \in [Pipelines -> SUBSET Packages]
      /\ pc \in [Pipelines -> Stages]
      /\ project \in [Pipelines -> {"src", "staging"}]
      /\ result \in [Pipelines -> {"none", "passed", "failed"}]
  BY StageFacts DEF Init
<1>6. installed \in [Pipelines -> [Packages -> Revisions]]
      /\ checkout \in [Pipelines -> Revisions]
  BY <1>1, <1>2 DEF Init
<1> QED
  BY <1>2, <1>3, <1>4, <1>5, <1>6 DEF Init, TypeOK

(* Jumps stay within the stages, and an end clears what is left to do.        *)
LEMMA GotoStage ==
  ASSUME TypeOK, NEW p \in Pipelines, NEW s \in Stages, Goto(p, s)
  PROVE  /\ pc' \in [Pipelines -> Stages]
         /\ pc' = [pc EXCEPT ![p] = s]
  BY DEF TypeOK, Goto

LEMMA AbortTypeOK ==
  ASSUME TypeOK, NEW p \in Pipelines, Abort(p), UNCHANGED broken
  PROVE  TypeOK'
<1>1. pc' \in [Pipelines -> Stages]
  BY StageFacts, GotoStage DEF Abort, End
<1>2. todo' \in [Pipelines -> SUBSET Packages]
  BY DEF TypeOK, Abort
<1> QED
  BY <1>1, <1>2 DEF TypeOK, Abort, projects, testing, submission

LEMMA ProceedTypeOK ==
  ASSUME TypeOK, NEW p \in Pipelines, Proceed(p), UNCHANGED broken
  PROVE  TypeOK'
<1> USE DEF projects, testing, submission
<1>1. CASE ListStaging(p)
  <2>1. Goto(p, "release") \/ Goto(p, "schedule")
    BY <1>1 DEF ListStaging
  <2>2. pc' \in [Pipelines -> Stages]
    BY <2>1, StageFacts, GotoStage
  <2>3. /\ todo' \in [Pipelines -> SUBSET Packages]
        /\ project' \in [Pipelines -> {"src", "staging"}]
    BY <1>1 DEF ListStaging, Listings, TypeOK, Staged
  <2>4. skip' \in [Pipelines -> BOOLEAN]
    BY <1>1, Zenon DEF ListStaging, TypeOK
  <2> QED BY <1>1, <2>2, <2>3, <2>4 DEF ListStaging, TypeOK
<1>2. CASE NotReady(p)
  <2>1. skip' \in [Pipelines -> BOOLEAN]
    BY <1>2, Zenon DEF NotReady, TypeOK
  <2>2. pc' \in [Pipelines -> Stages]
    BY <1>2, StageFacts, GotoStage DEF NotReady
  <2> QED BY <1>2, <2>1, <2>2 DEF NotReady, TypeOK
<1>3. CASE BrokenServicedata(p)
  BY <1>3, AbortTypeOK DEF BrokenServicedata
<1>4. CASE Published(p)
  <2>1. pc' \in [Pipelines -> Stages]
    BY <1>4, StageFacts, GotoStage DEF Published
  <2> QED BY <1>4, <2>1 DEF Published, TypeOK
<1>5. CASE Schedule(p)
  <2>1. CASE Abort(p)
    BY <2>1, AbortTypeOK
  <2>2. CASE ~ Abort(p)
    <3>1. pc' \in [Pipelines -> Stages]
      BY <1>5, <2>2, StageFacts, GotoStage DEF Schedule
    <3> QED BY <1>5, <2>2, <3>1 DEF Schedule, TypeOK
  <2> QED BY <2>1, <2>2
<1>6. ASSUME NEW q \in Packages, Release(p, q) PROVE TypeOK'
  <2>1. staging' \in [Packages -> Revisions] /\ todo' \in [Pipelines -> SUBSET Packages]
    BY <1>6 DEF Release, TypeOK
  <2> QED BY <1>6, <2>1 DEF Release, TypeOK
<1>7. CASE Install(p)
  <2>1. pc' \in [Pipelines -> Stages]
    BY <1>7, StageFacts, GotoStage DEF Install
  <2>2. installed' \in [Pipelines -> [Packages -> Revisions]]
    BY <1>7 DEF Install, TypeOK
  <2> QED BY <1>7, <2>1, <2>2 DEF Install, TypeOK
<1>8. CASE JobsEnd(p)
  <2>1. pc' \in [Pipelines -> Stages]
    BY <1>8, StageFacts, GotoStage DEF JobsEnd
  <2>2. result' \in [Pipelines -> {"none", "passed", "failed"}]
    BY <1>8 DEF JobsEnd, TypeOK
  <2> QED BY <1>8, <2>1, <2>2 DEF JobsEnd, TypeOK
<1>9. CASE NoJobs(p)
  <2>1. pc' \in [Pipelines -> Stages]
    BY <1>9, StageFacts, GotoStage DEF NoJobs
  <2> QED BY <1>9, <2>1 DEF NoJobs, TypeOK
<1>10. CASE MonitorFails(p)
  BY <1>10, AbortTypeOK DEF MonitorFails
<1>11. CASE Emptied(p)
  <2>1. skip' \in [Pipelines -> BOOLEAN]
    BY <1>11, Zenon DEF Emptied, TypeOK
  <2>2. pc' \in [Pipelines -> Stages]
    BY <1>11, StageFacts, GotoStage DEF Emptied
  <2> QED BY <1>11, <2>1, <2>2 DEF Emptied, TypeOK
<1>12. CASE ListPackages(p)
  <2>1. Loop[pc[p]] \in Stages
    BY <1>12, LoopFacts, StageFacts DEF ListPackages
  <2>2. pc' \in [Pipelines -> Stages]
    BY <1>12, <2>1, GotoStage DEF ListPackages
  <2>3. todo' \in [Pipelines -> SUBSET Packages]
    BY <1>12 DEF ListPackages, Listings, Staged, TypeOK
  <2> QED BY <1>12, <2>2, <2>3 DEF ListPackages, TypeOK
<1>13. CASE Dropped(p)
  <2>1. pc' \in [Pipelines -> Stages]
    BY <1>13, StageFacts, GotoStage DEF Dropped
  <2> QED BY <1>13, <2>1 DEF Dropped, TypeOK
<1>14. CASE Cleaned(p)
  BY <1>14, AbortTypeOK DEF Cleaned
<1>15. ASSUME NEW q \in Packages, DeletePackage(p, q) PROVE TypeOK'
  <2>1. CASE Abort(p)
    BY <2>1, AbortTypeOK
  <2>2. CASE ~ Abort(p)
    <3>1. 0 \in Revisions
      BY StagingAssumption DEF Revisions
    <3>2. /\ staging' = [staging EXCEPT ![q] = 0] \/ staging' = staging
          /\ todo' = [todo EXCEPT ![p] = @ \ {q}]
          /\ UNCHANGED <<src, dst, pc, project, skip, testing, submission>>
      BY <1>15, <2>2 DEF DeletePackage
    <3>3. staging' \in [Packages -> Revisions] /\ todo' \in [Pipelines -> SUBSET Packages]
      BY <3>1, <3>2 DEF TypeOK
    <3> QED BY <3>2, <3>3 DEF TypeOK
  <2> QED BY <2>1, <2>2
<1>16. CASE Submit(p)
  <2>1. CASE Abort(p)
    BY <2>1, AbortTypeOK
  <2>2. CASE ~ Abort(p)
    <3>1. pc' \in [Pipelines -> Stages]
      BY <1>16, <2>2, StageFacts, GotoStage DEF Submit
    <3>2. PICK names \in Listings(Packages) : todo' = [todo EXCEPT ![p] = names]
      BY <1>16, <2>2, Zenon DEF Submit
    <3>3. todo' \in [Pipelines -> SUBSET Packages]
      BY <3>2 DEF Listings, TypeOK
    <3> QED BY <1>16, <2>2, <3>1, <3>3 DEF Submit, TypeOK
  <2> QED BY <2>1, <2>2
<1>17. ASSUME NEW q \in Packages, Checkout(p, q) PROVE TypeOK'
  <2>1. pc' \in [Pipelines -> Stages]
    BY <1>17, StageFacts, GotoStage DEF Checkout
  <2>2. /\ todo' \in [Pipelines -> SUBSET Packages]
        /\ package' \in [Pipelines -> Packages] /\ checkout' \in [Pipelines -> Revisions]
    BY <1>17 DEF Checkout, TypeOK
  <2> QED BY <1>17, <2>1, <2>2 DEF Checkout, TypeOK
<1>18. CASE Update(p)
  <2>1. pc' \in [Pipelines -> Stages]
    BY <1>18, StageFacts, GotoStage DEF Update
  <2>2. dst' \in [Packages -> Revisions]
    BY <1>18 DEF Update, TypeOK
  <2>3. rc' \in [Pipelines -> BOOLEAN]
    BY <1>18, Zenon DEF Update, TypeOK
  <2> QED BY <1>18, <2>1, <2>2, <2>3 DEF Update, TypeOK
<1>19. CASE Remove(p)
  <2>1. pc' \in [Pipelines -> Stages]
    BY <1>19, StageFacts, GotoStage DEF Remove
  <2>2. staging' \in [Packages -> Revisions]
    BY <1>19, StagingAssumption DEF Remove, TypeOK, Revisions
  <2> QED BY <1>19, <2>1, <2>2 DEF Remove, TypeOK
<1>20. CASE SubmitFails(p)
  BY <1>20, AbortTypeOK DEF SubmitFails
<1>21. CASE Submitted(p)
  <2>1. CASE Abort(p)
    BY <2>1, AbortTypeOK
  <2>2. CASE ~ Abort(p)
    <3>1. pc' \in [Pipelines -> Stages]
      BY <1>21, <2>2, StageFacts, GotoStage DEF Submitted
    <3> QED BY <1>21, <2>2, <3>1 DEF Submitted, TypeOK
  <2> QED BY <2>1, <2>2
<1> QED
  BY <1>1, <1>2, <1>3, <1>4, <1>5, <1>6, <1>7, <1>8, <1>9, <1>10, <1>11, <1>12, <1>13, <1>14,
     <1>15, <1>16, <1>17, <1>18, <1>19, <1>20, <1>21
  DEF Proceed, Trigger, Monitor, Delete, AutoSubmit

LEMMA StartTypeOK ==
  ASSUME TypeOK, NEW p \in Pipelines, Start(p), UNCHANGED broken
  PROVE  TypeOK'
<1>1. 0 \in Revisions
  BY StagingAssumption DEF Revisions
<1>2. pc' \in [Pipelines -> Stages]
  BY StageFacts, GotoStage DEF Start
<1>3. Empty \in [Packages -> Revisions]
  BY <1>1 DEF Empty
<1>4. /\ result' \in [Pipelines -> {"none", "passed", "failed"}]
      /\ installed' \in [Pipelines -> [Packages -> Revisions]]
      /\ checkout' \in [Pipelines -> Revisions]
  BY <1>1, <1>3 DEF Start, TypeOK
<1>5. rc' \in [Pipelines -> BOOLEAN]
  BY Zenon DEF Start, TypeOK
<1> QED BY <1>2, <1>4, <1>5 DEF Start, TypeOK, projects

LEMMA NextTypeOK == TypeOK /\ [Next]_vars => TypeOK'
<1> SUFFICES ASSUME TypeOK, [Next]_vars PROVE TypeOK'
  OBVIOUS
<1>1. CASE UNCHANGED vars
  BY <1>1 DEF vars, projects, testing, submission, TypeOK
<1>2. CASE Next
  <2>1. ASSUME NEW p \in Pipelines, Start(p) \/ Proceed(p) \/ Die(p), UNCHANGED broken
        PROVE  TypeOK'
    BY <2>1, StartTypeOK, ProceedTypeOK, AbortTypeOK DEF Die
  <2>2. ASSUME NEW q \in Packages, Commit(q), UNCHANGED broken PROVE TypeOK'
    <3>1. src' \in [Packages -> Revisions]
      BY <2>2, StagingAssumption DEF Commit, TypeOK, Revisions
    <3> QED BY <2>2, <3>1 DEF Commit, TypeOK, testing, submission
  <2>3. ASSUME CleanByHand, UNCHANGED broken PROVE TypeOK'
    <3>1. staging' \in [Packages -> Revisions]
      BY <2>3, StagingAssumption DEF CleanByHand, Empty, Revisions
    <3> QED BY <2>3, <3>1 DEF CleanByHand, TypeOK, testing, submission
  <2> QED BY <1>2, <2>1, <2>2, <2>3 DEF Next
<1> QED BY <1>1, <1>2

(* The types of the pipelines: for any pipelines, packages and faults.        *)
THEOREM StagingTypeCorrect == Spec => []TypeOK
BY InitTypeOK, NextTypeOK, PTL DEF Spec
-----------------------------------------------------------------------------
(* One pipeline.  What the steps of the pipeline do to its part of the        *)
(* invariant; the steps of others leave it alone.                             *)
LEMMA AbortInv ==
  ASSUME TypeOK, NEW p \in Pipelines, Abort(p)
  PROVE  PipelineInv(p)'
<1>1. pc'[p] = "idle"
  BY DEF Abort, End, Goto, TypeOK
<1> QED BY <1>1 DEF PipelineInv, Tested

LEMMA TriggerInv ==
  ASSUME TypeOK, NEW p \in Pipelines, PipelineInv(p), Trigger(p)
  PROVE  PipelineInv(p)'
<1>1. CASE ListStaging(p)
  <2>1. pc'[p] \in {"release", "schedule"}
    BY <1>1 DEF ListStaging, Goto, TypeOK
  <2>2. PICK staged : /\ skip' = [skip EXCEPT ![p] = staged # {}]
                      /\ project' = [project EXCEPT ![p] = IF staged = {} THEN "staging" ELSE "src"]
    BY <1>1, Zenon DEF ListStaging
  <2>3. CASE staged = {}
    <3>1. project'[p] = "staging"
      BY <2>2, <2>3 DEF TypeOK
    <3> QED BY <2>1, <3>1 DEF PipelineInv, Tested
  <2>4. CASE staged # {}
    <3>1. skip'[p]
      BY <2>2, <2>4 DEF TypeOK
    <3> QED BY <2>1, <3>1 DEF PipelineInv, Tested
  <2> QED BY <2>3, <2>4
<1>2. CASE NotReady(p)
  <2>1. pc'[p] = "drop"
    BY <1>2 DEF NotReady, Goto, TypeOK
  <2>2. skip'[p]
    BY <1>2 DEF NotReady, TypeOK
  <2> QED BY <2>1, <2>2 DEF PipelineInv, Tested
<1>3. CASE BrokenServicedata(p)
  BY <1>3, AbortInv DEF BrokenServicedata
<1>4. CASE Published(p)
  <2>1. pc'[p] \in {"schedule", "rollback"} /\ pc[p] = "release"
    BY <1>4 DEF Published, Goto, TypeOK
  <2> QED BY <1>4, <2>1 DEF Published, PipelineInv, Tested
<1>5. CASE Schedule(p)
  <2>1. CASE Abort(p)
    BY <2>1, AbortInv
  <2>2. CASE ~ Abort(p)
    <3>1. pc'[p] = "test" /\ pc[p] = "schedule"
      BY <1>5, <2>2 DEF Schedule, Goto, TypeOK
    <3> QED BY <1>5, <2>2, <3>1 DEF Schedule, PipelineInv, Tested
  <2> QED BY <2>1, <2>2
<1>6. ASSUME NEW q \in Packages, Release(p, q) PROVE PipelineInv(p)'
  <2>1. pc'[p] = "release" /\ pc[p] = "release"
    BY <1>6 DEF Release
  <2> QED BY <1>6, <2>1 DEF Release, PipelineInv, Tested
<1> QED BY <1>1, <1>2, <1>3, <1>4, <1>5, <1>6 DEF Trigger

LEMMA MonitorInv ==
  ASSUME TypeOK, NEW p \in Pipelines, PipelineInv(p), Monitor(p), "nojobs" \notin broken
  PROVE  PipelineInv(p)'
<1> USE DEF projects, testing, submission
<1>1. CASE Install(p)
  <2>1. pc[p] = "test" /\ pc'[p] = "result"
    BY <1>1 DEF Install, Goto, TypeOK
  <2>2. project[p] = "staging" => installed'[p] = staging
    BY <1>1 DEF Install, TypeOK
  <2> QED BY <1>1, <2>1, <2>2 DEF Install, PipelineInv, Tested
<1>2. CASE JobsEnd(p)
  <2>1. /\ pc[p] = "result"
        /\ \/ pc'[p] = "submit" /\ result'[p] = "passed"
           \/ pc'[p] = "empty"
    BY <1>2 DEF JobsEnd, Goto, TypeOK
  <2> QED BY <1>2, <2>1 DEF JobsEnd, PipelineInv, Tested
<1>3. CASE MonitorFails(p)
  BY <1>3, AbortInv DEF MonitorFails
<1>4. CASE Emptied(p)
  <2>1. pc[p] = "emptying" /\ pc'[p] = "submit"
    BY <1>4 DEF Emptied, Goto, TypeOK
  <2>2. skip'[p]
    BY <1>4 DEF Emptied, TypeOK
  <2> QED BY <1>4, <2>1, <2>2 DEF Emptied, PipelineInv, Tested
<1> QED BY <1>1, <1>2, <1>3, <1>4 DEF Monitor, NoJobs

LEMMA DeleteInv ==
  ASSUME TypeOK, NEW p \in Pipelines, PipelineInv(p), Delete(p)
  PROVE  PipelineInv(p)'
<1> USE DEF projects, testing, submission
<1>1. CASE ListPackages(p)
  <2>1. \/ pc[p] = "drop" /\ pc'[p] = "dropping"
        \/ pc[p] = "rollback" /\ pc'[p] = "rolling back"
        \/ pc[p] = "empty" /\ pc'[p] = "emptying"
        \/ pc[p] = "clean" /\ pc'[p] = "cleaning"
    BY <1>1, LoopFacts DEF ListPackages, Goto, TypeOK
  <2> QED BY <1>1, <2>1 DEF ListPackages, PipelineInv, Tested
<1>2. CASE Dropped(p)
  <2>1. pc[p] = "dropping" /\ pc'[p] = "schedule"
    BY <1>2 DEF Dropped, Goto, TypeOK
  <2> QED BY <1>2, <2>1 DEF Dropped, PipelineInv, Tested
<1>3. CASE Cleaned(p)
  BY <1>3, AbortInv DEF Cleaned
<1>4. ASSUME NEW q \in Packages, DeletePackage(p, q) PROVE PipelineInv(p)'
  <2>1. CASE Abort(p)
    BY <2>1, AbortInv
  <2>2. CASE ~ Abort(p)
    <3>1. /\ staging' = [staging EXCEPT ![q] = 0] \/ staging' = staging
          /\ UNCHANGED <<src, dst, pc, project, skip, testing, submission>>
      BY <1>4, <2>2 DEF DeletePackage
    <3>2. \A r \in Packages : staging'[r] \in {0, staging[r]}
      BY <3>1 DEF TypeOK
    <3> QED BY <1>4, <3>1, <3>2, LoopFacts DEF DeletePackage, PipelineInv, Tested
  <2> QED BY <2>1, <2>2
<1> QED BY <1>1, <1>2, <1>3, <1>4 DEF Delete

LEMMA AutoSubmitInv ==
  ASSUME TypeOK, NEW p \in Pipelines, PipelineInv(p), AutoSubmit(p)
  PROVE  PipelineInv(p)'
<1> USE DEF projects, testing, submission
<1>1. CASE Submit(p)
  <2>1. CASE Abort(p)
    BY <2>1, AbortInv
  <2>2. CASE ~ Abort(p)
    <3>1. ~ skip[p] /\ Goto(p, "package") /\ UNCHANGED <<projects, project, skip, testing, submission>>
      BY <1>1, <2>2, Zenon DEF Submit
    <3>2. pc[p] = "submit" /\ pc'[p] = "package"
      BY <1>1, <3>1 DEF Submit, Goto, TypeOK
    <3> QED BY <3>1, <3>2 DEF PipelineInv, Tested
  <2> QED BY <2>1, <2>2
<1>2. CASE Update(p)
  <2>1. pc[p] = "update" /\ pc'[p] = "remove"
    BY <1>2 DEF Update, Goto, TypeOK
  <2> QED BY <1>2, <2>1 DEF Update, PipelineInv, Tested
<1>3. CASE Remove(p)
  <2>1. pc[p] = "remove" /\ pc'[p] = "package"
    BY <1>3 DEF Remove, Goto, TypeOK
  <2>2. \A r \in Packages : staging'[r] \in {0, staging[r]}
    BY <1>3 DEF Remove, TypeOK
  <2> QED BY <1>3, <2>1, <2>2 DEF Remove, PipelineInv, Tested
<1>4. CASE SubmitFails(p)
  BY <1>4, AbortInv DEF SubmitFails
<1>5. CASE Submitted(p)
  <2>1. CASE Abort(p)
    BY <2>1, AbortInv
  <2>2. CASE ~ Abort(p)
    <3>1. Goto(p, "clean") /\ UNCHANGED <<projects, project, skip, testing, submission>>
      BY <1>5, <2>2, Zenon DEF Submitted
    <3>2. pc[p] = "package" /\ pc'[p] = "clean"
      BY <1>5, <3>1 DEF Submitted, Goto, TypeOK
    <3> QED BY <3>1, <3>2 DEF PipelineInv, Tested
  <2> QED BY <2>1, <2>2
<1>6. ASSUME NEW q \in Packages, Checkout(p, q) PROVE PipelineInv(p)'
  <2>1. pc[p] = "package" /\ pc'[p] = "update"
    BY <1>6 DEF Checkout, Goto, TypeOK
  <2>2. package'[p] = q /\ checkout'[p] = staging[q] /\ staging[q] # 0
    BY <1>6 DEF Checkout, TypeOK
  <2>3. project[p] = "staging" /\ ~ skip[p] /\ result[p] = "passed"
    BY <2>1, Zenon DEF PipelineInv
  <2>4. \A r \in Packages : staging[r] \in {0, installed[p][r]}
    BY <2>1, <2>3 DEF PipelineInv, Tested
  <2> QED BY <1>6, <2>1, <2>2, <2>3, <2>4 DEF Checkout, PipelineInv, Tested
<1> QED BY <1>1, <1>2, <1>3, <1>4, <1>5, <1>6 DEF AutoSubmit

LEMMA InitIInv == Init => IInv
<1> SUFFICES ASSUME Init PROVE IInv
  OBVIOUS
<1>1. \A p \in Pipelines : pc[p] = "idle"
  BY DEF Init
<1> QED BY <1>1, InitTypeOK DEF IInv, PipelineInv, Tested

LEMMA NextIInv ==
  ASSUME OnePipeline, IInv, [Next]_vars
  PROVE  IInv'
<1>1. TypeOK /\ TypeOK'
  BY NextTypeOK DEF IInv
<1>2. SUFFICES ASSUME "nojobs" \notin broken', NEW p \in Pipelines
               PROVE  PipelineInv(p)'
  BY <1>1 DEF IInv
<1>3. CASE UNCHANGED vars
  BY <1>2, <1>3 DEF IInv, PipelineInv, vars, projects, testing, submission
<1>4. CASE Next
  <2>1. PipelineInv(p) /\ "nojobs" \notin broken
    BY <1>2, <1>4 DEF Next, IInv
  <2>2. ASSUME NEW r \in Pipelines, Start(r) \/ Proceed(r) \/ Die(r)
        PROVE  PipelineInv(p)'
    <3>1. r = p
      BY DEF OnePipeline
    <3>2. CASE Start(r)
      <4>1. pc'[p] = "list"
        BY <1>1, <3>1, <3>2 DEF Start, Goto, TypeOK
      <4> QED BY <4>1 DEF PipelineInv, Tested
    <3> QED BY <1>1, <2>1, <2>2, <3>1, <3>2, TriggerInv, MonitorInv, DeleteInv, AutoSubmitInv, AbortInv
        DEF Proceed, Die
  <2>3. ASSUME NEW q \in Packages, Commit(q) PROVE PipelineInv(p)'
    BY <2>1, <2>3 DEF Commit, PipelineInv, testing, submission
  <2>4. ASSUME CleanByHand PROVE PipelineInv(p)'
    <3>1. pc'[p] = "idle"
      BY <2>4 DEF CleanByHand
    <3> QED BY <3>1 DEF PipelineInv, Tested
  <2> QED BY <1>4, <2>2, <2>3, <2>4 DEF Next
<1> QED BY <1>3, <1>4

LEMMA IInvTested == IInv => SubmittedWasTested
<1> SUFFICES ASSUME IInv, "nojobs" \notin broken, NEW p \in Pipelines, pc[p] = "update"
             PROVE  /\ result[p] = "passed" /\ project[p] = "staging"
                    /\ checkout[p] = installed[p][package[p]]
  BY DEF SubmittedWasTested
<1>1. PipelineInv(p)
  BY DEF IInv
<1> QED BY <1>1, Zenon DEF PipelineInv

(* One pipeline at a time: what is committed to the project of tested         *)
(* packages was installed by jobs of this pipeline that passed, for any       *)
(* packages, commits and faults, if there are jobs.                           *)
THEOREM OnlyTestedIsSubmitted ==
  ASSUME OnePipeline
  PROVE  Spec => []SubmittedWasTested
<1>1. IInv /\ [Next]_vars => IInv'
  BY NextIInv
<1> QED BY <1>1, InitIInv, IInvTested, PTL DEF Spec
=============================================================================
