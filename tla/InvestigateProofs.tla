------------------------- MODULE InvestigateProofs -------------------------
(****************************************************************************)
(* Theorems about Investigate, for any jobs, clusters, runs and faults: the *)
(* variables keep their types; one synchronised run at most holds the       *)
(* investigation of a cluster; the comments are the lock of ClusterLock; a  *)
(* run that gives way has a leader; what runs wait for and leave behind.    *)
(****************************************************************************)
EXTENDS Investigate, TLAPS, WellFoundedInduction, SequenceTheorems

\* A non-empty set of natural numbers has a least element, so that min(cluster)
\* is well defined (First).
LEMMA LeastElement ==
  ASSUME NEW T, T \subseteq Nat, T # {}
  PROVE  \E x \in T : \A y \in T : x <= y
<1> DEFINE R == OpToRel(<, Nat)
<1>1. IsWellFoundedOn(R, Nat)
  BY NatLessThanWellFounded
<1>2. \A x, y \in Nat : y < x => <<y, x>> \in R
  BY DEF OpToRel
<1> HIDE DEF R
<1>3. PICK x \in T : \A y \in T : ~ (<<y, x>> \in R)
  BY <1>1, WFMin
<1>4. \A y \in T : ~ (y < x)
  BY <1>2, <1>3
<1>5. \A y \in T : x \in Nat /\ y \in Nat
  BY <1>3
<1> QED
  BY <1>3, <1>4, <1>5

\* The first job of a run's cluster is one of the jobs it has read (First).
LEMMA FirstInView ==
  ASSUME TypeOK, NEW r \in Runs
  PROVE  First(r) \in view[r]
<1>1. view[r] \subseteq Jobs /\ view[r] # {}
  BY DEF TypeOK
<1>2. \E x \in view[r] : \A y \in view[r] : x <= y
  BY <1>1, LeastElement, ConstantsAssumption DEF ConstantsAssumption
<1> QED
  BY <1>2, Zenon DEF First

LEMMA FirstIsJob ==
  ASSUME TypeOK, NEW r \in Runs
  PROVE  First(r) \in Jobs
  BY FirstInView DEF TypeOK

\* A step that leaves a run's view alone leaves its first job alone (First).
LEMMA FirstUnchanged ==
  ASSUME NEW r \in Runs, view'[r] = view[r]
  PROVE  First(r)' = First(r)
  BY DEF First

----------------------------------------------------------------------------
\* Type correctness

LEMMA InitTypeOK == Init => TypeOK
<1> SUFFICES ASSUME Init PROVE TypeOK
  OBVIOUS
<1>1. view \in [Runs -> (SUBSET Jobs) \ {{}}]
  BY ConstantsAssumption DEF Init, ConstantsAssumption
<1>2. todo \in [Runs -> Seq(CloneKinds)]
  BY DEF Init
<1>3. pc \in [Runs -> Steps \union Outcomes] /\ cid \in [Runs -> Nat]
  BY DEF Init, Steps
<1>4. failure \in [Runs -> Failures \union {"none"}]
  BY DEF Init
<1>5. \A r \in Runs : pc[r] # "regress"
  BY DEF Init
<1>6. /\ exists \subseteq Jobs /\ pending \subseteq Jobs /\ cloned \subseteq Jobs
      /\ comments \subseteq CommentRecords /\ nextId \in Nat \ {0}
  BY DEF Init
<1>7. lines \subseteq Runs /\ clones \subseteq Runs /\ stray \subseteq Runs
  BY DEF Init
<1> QED
  BY <1>1, <1>2, <1>3, <1>4, <1>5, <1>6, <1>7 DEF TypeOK

\* The plans of _trigger_regression_jobs are sequences of clone kinds.
LEMMA PlansAreSequences == Plans \subseteq Seq(CloneKinds)
<1>1. <<>> \in Seq(CloneKinds)
  OBVIOUS
<1>2. <<"tests">> \in Seq(CloneKinds) /\ <<"build">> \in Seq(CloneKinds)
  BY DEF CloneKinds
<1>3. <<"tests", "build">> \in Seq(CloneKinds)
  BY DEF CloneKinds
<1>4. <<"tests", "build", "both">> \in Seq(CloneKinds)
  BY DEF CloneKinds
<1> QED
  BY <1>1, <1>2, <1>3, <1>4, Zenon DEF Plans

\* The comments after a step that adds one, takes one away or rewrites one
\* (Comment, Without, Rewritten).
LEMMA CommentTypes ==
  ASSUME TypeOK
  PROVE  /\ \A i \in Nat \ {0}, j \in Jobs, k \in CommentKinds, r \in Runs :
              Comment(i, j, k, r) \in CommentRecords
         /\ \A i : Without(i) \subseteq CommentRecords
         /\ \A i, k : k \in CommentKinds => Rewritten(i, k) \subseteq CommentRecords
  BY DEF TypeOK, CommentRecords, Comment, Without, Rewritten

\* The clone step keeps the types (clone).
LEMMA CloneTypeOK ==
  ASSUME TypeOK, NEW r \in Runs, NEW k, NEW next \in Steps,
         NEW rest \in Seq(CloneKinds), next = "regress" => rest # <<>>,
         CloneJob(r, k, next, rest)
  PROVE  TypeOK'
<1>0. <<>> \in Seq(CloneKinds)
  OBVIOUS
<1> USE DEF TypeOK, CloneJob, jobVars, Goto, Steps, Outcomes, Failures
<1>1. CASE CloneRefused(r, k)
  BY <1>0, <1>1 DEF CloneRefused
<1>2. CASE CloneMade(r, k, next, rest)
  BY <1>2 DEF CloneMade
<1>3. CASE CloneGone(r, k, next, rest)
  BY <1>3 DEF CloneGone
<1>4. CASE CloneLeftOut(r, k, next, rest)
  BY <1>4 DEF CloneLeftOut
<1>5. CASE CloneFails(r, k)
  BY <1>0, <1>5 DEF CloneFails
<1> QED
  BY <1>1, <1>2, <1>3, <1>4, <1>5

LEMMA NextTypeOK == TypeOK /\ [Next]_vars => TypeOK'
<1> SUFFICES ASSUME TypeOK, [Next]_vars
             PROVE  TypeOK'
  OBVIOUS
<1> USE ConstantsAssumption
<1>1. ASSUME NEW r \in Runs, GetJob(r)
      PROVE  TypeOK'
  BY <1>1 DEF TypeOK, GetJob, jobVars, Goto, Steps, Outcomes
<1>2. ASSUME NEW r \in Runs, Postpone(r)
      PROVE  TypeOK'
  BY <1>2 DEF TypeOK, Postpone, jobVars, Goto, Steps, Outcomes
<1>3. ASSUME NEW r \in Runs, Enter(r)
      PROVE  TypeOK'
  <2>1. JobOf[r] \in Jobs
    BY DEF ConstantsAssumption
  <2>2. Cluster[JobOf[r]] \subseteq Jobs
    BY <2>1 DEF ConstantsAssumption
  <2>3. ClusterNodes(JobOf[r]) \in (SUBSET Jobs) \ {{}}
    <3>1. JobOf[r] \in ClusterNodes(JobOf[r])
      BY DEF ClusterNodes
    <3>2. ClusterNodes(JobOf[r]) \subseteq Jobs
      BY <2>1, <2>2 DEF ClusterNodes
    <3> QED
      BY <3>1, <3>2
  <2>4. {JobOf[r]} \in (SUBSET Jobs) \ {{}}
    BY <2>1
  <2>5. view' \in [Runs -> (SUBSET Jobs) \ {{}}]
    BY <1>3, <2>3, <2>4 DEF Enter, TypeOK
  <2> QED
    BY <1>3, <2>5 DEF TypeOK, Enter, jobVars, Goto, Steps, Outcomes
<1>4. ASSUME NEW r \in Runs, PostStarting(r)
      PROVE  TypeOK'
  <2>1. First(r) \in Jobs
    BY FirstIsJob
  <2>2. /\ nextId \in Nat \ {0} /\ nextId + 1 \in Nat \ {0}
        /\ nextId + 2 \in Nat \ {0} /\ nextId \in Nat /\ nextId + 1 \in Nat
    BY DEF TypeOK
  <2>3. /\ Comment(nextId, First(r), "starting", r) \in CommentRecords
        /\ Comment(nextId + 1, First(r), "starting", r) \in CommentRecords
    BY <2>1, <2>2, CommentTypes DEF CommentKinds
  <2>4. comments' \subseteq CommentRecords
    BY <1>4, <2>3 DEF TypeOK, PostStarting
  <2>5. nextId' \in Nat \ {0}
    BY <1>4, <2>2 DEF PostStarting
  <2>5a. cid' \in [Runs -> Nat]
    BY <1>4, <2>2 DEF TypeOK, PostStarting
  <2>6. pc' \in [Runs -> Steps \union Outcomes]
    BY <1>4 DEF TypeOK, PostStarting, Goto, Steps
  <2>7. pc'[r] # "regress" /\ (\A s \in Runs \ {r} : pc'[s] = pc[s])
    BY <1>4 DEF TypeOK, PostStarting, Goto
  <2> QED
    BY <1>4, <2>4, <2>5, <2>5a, <2>6, <2>7 DEF TypeOK, PostStarting, jobVars
<1>5. ASSUME NEW r \in Runs, ListComments(r)
      PROVE  TypeOK'
  BY <1>5 DEF TypeOK, ListComments, jobVars, Goto, Steps, Outcomes
<1>6. ASSUME NEW r \in Runs, Yield(r)
      PROVE  TypeOK'
  BY <1>6, CommentTypes DEF TypeOK, Yield, jobVars, Goto, Steps, Outcomes
<1>7. ASSUME NEW r \in Runs, TriggerRetry(r)
      PROVE  TypeOK'
  <2>1. CloneJob(r, "retry", "ajax", <<>>)
    BY <1>7 DEF TriggerRetry
  <2>2. <<>> \in Seq(CloneKinds)
    OBVIOUS
  <2> QED
    BY <2>1, <2>2, CloneTypeOK DEF Steps
<1>8. ASSUME NEW r \in Runs, GetInvestigation(r)
      PROVE  TypeOK'
  <2>1. CASE /\ failure' = [failure EXCEPT ![r] = "other"]
             /\ Goto(r, "failing")
             /\ UNCHANGED todo
    BY <1>8, <2>1 DEF TypeOK, GetInvestigation, jobVars, Goto, Steps, Outcomes,
                      Failures
  <2>2. ASSUME NEW plan \in Plans,
               todo' = [todo EXCEPT ![r] = plan],
               Goto(r, IF plan = <<>> THEN "finish" ELSE "regress"),
               UNCHANGED failure
        PROVE  TypeOK'
    <3>1. plan \in Seq(CloneKinds)
      BY PlansAreSequences
    <3> QED
      BY <1>8, <2>2, <3>1 DEF TypeOK, GetInvestigation, jobVars, Goto, Steps,
                              Outcomes
  <2> QED
    BY <1>8, <2>1, <2>2 DEF GetInvestigation
<1>9. ASSUME NEW r \in Runs, TriggerRegression(r)
      PROVE  TypeOK'
  <2>1. todo[r] \in Seq(CloneKinds) /\ todo[r] # <<>>
    BY <1>9 DEF TypeOK, TriggerRegression
  <2>2. Tail(todo[r]) \in Seq(CloneKinds) /\ Len(Tail(todo[r])) = Len(todo[r]) - 1
    BY <2>1, HeadTailProperties
  <2>3. Len(todo[r]) # 1 => Tail(todo[r]) # <<>>
    <3>1. Len(todo[r]) \in Nat
      BY <2>1, LenProperties
    <3>2. ASSUME Tail(todo[r]) = <<>>
          PROVE  Len(todo[r]) = 1
      <4>1. Len(Tail(todo[r])) = 0
        BY <2>2, <3>2, EmptySeq
      <4> QED
        BY <2>2, <3>1, <4>1
    <3> QED
      BY <3>2
  <2> DEFINE next == IF Len(todo[r]) = 1 THEN "finish" ELSE "regress"
  <2>4. CloneJob(r, Head(todo[r]), next, Tail(todo[r]))
    BY <1>9 DEF TriggerRegression
  <2>5. next \in Steps /\ (next = "regress" => Tail(todo[r]) # <<>>)
    BY <2>3 DEF Steps
  <2> HIDE DEF next
  <2> QED
    BY <2>2, <2>4, <2>5, CloneTypeOK
<1>10. ASSUME NEW r \in Runs, ReportFailure(r)
       PROVE  TypeOK'
  <2>1. comments' \subseteq CommentRecords
    BY <1>10, CommentTypes DEF TypeOK, ReportFailure, CommentKinds
  <2> QED
    BY <1>10, <2>1 DEF TypeOK, ReportFailure, jobVars, Goto, Steps, Outcomes
<1>11. ASSUME NEW r \in Runs, Finalize(r)
       PROVE  TypeOK'
  <2>1. comments' \subseteq CommentRecords
    BY <1>11, CommentTypes DEF TypeOK, Finalize, CommentKinds
  <2> QED
    BY <1>11, <2>1 DEF TypeOK, Finalize, jobVars, Goto, Steps, Outcomes
<1>12. ASSUME NEW r \in Runs, Repost(r)
       PROVE  TypeOK'
  <2>1. comments' \subseteq CommentRecords
    <3>1. JobOf[r] \in Jobs /\ nextId \in Nat \ {0}
      BY DEF ConstantsAssumption, TypeOK
    <3>2. Comment(nextId, JobOf[r], "automatic", r) \in CommentRecords
      BY <3>1, CommentTypes DEF CommentKinds
    <3> QED
      BY <1>12, <3>2 DEF TypeOK, Repost
  <2> QED
    BY <1>12, <2>1 DEF TypeOK, Repost, jobVars, Goto, Steps, Outcomes
<1>13. ASSUME NEW r \in Runs, RetryHook(r) \/ Crash(r)
       PROVE  TypeOK'
  BY <1>13 DEF TypeOK, RetryHook, Crash, jobVars, Goto, Steps, Outcomes
<1>14. ASSUME NEW j \in Jobs, FinishJob(j) \/ RestartJob(j) \/ DeleteJob(j)
       PROVE  TypeOK'
  BY <1>14 DEF TypeOK, FinishJob, RestartJob, DeleteJob
<1>15. CASE UNCHANGED vars
  BY <1>15 DEF TypeOK, vars
<1> QED
  BY <1>1, <1>2, <1>3, <1>4, <1>5, <1>6, <1>7, <1>8, <1>9, <1>10, <1>11,
     <1>12, <1>13, <1>14, <1>15 DEF Next, Step, AllEnded

\* Every variable of openqa-investigate's model keeps its type, and a run about
\* to trigger a regression job always has one left (TypeOK).
THEOREM TypeCorrect == Spec => []TypeOK
<1>1. Init => TypeOK
  BY InitTypeOK
<1>2. TypeOK /\ [Next]_vars => TypeOK'
  BY NextTypeOK
<1> QED
  BY <1>1, <1>2, PTL DEF Spec

----------------------------------------------------------------------------
\* One holder per cluster

LEMMA InitLockInv == Init => LockInv
  BY DEF Init, LockInv, FreshIds, OwnIds, AnnouncedIsStarting, CommentStands,
         HolderIsLowest, AnnouncedSteps, StandingSteps, DoneSteps, TriggerSteps, Holder,
         EarlySteps

\* A step of a run that leaves comments, ids and jobs alone (every query and
\* every clone) keeps the invariant, provided it enters a trigger step only
\* from one, or from a list of comments it came first in (MayProceed).
LEMMA QuietStep ==
  ASSUME TypeOK, LockInv, NEW r \in Runs,
         UNCHANGED <<comments, cid, nextId, exists>>,
         \A s \in Runs \ {r} : pc'[s] = pc[s] /\ view'[s] = view[s],
         pc'[r] \in EarlySteps => pc[r] \in EarlySteps,
         pc'[r] \in StandingSteps => view'[r] = view[r],
         pc'[r] \in AnnouncedSteps => pc[r] \in AnnouncedSteps,
         pc'[r] \in StandingSteps => pc[r] \in StandingSteps,
         Holder(r)' => Holder(r) \/ MayProceed(r)
  PROVE  LockInv'
<1>1. ASSUME NEW s \in Runs, pc'[s] \in StandingSteps
      PROVE  First(s)' = First(s)
  BY <1>1, FirstUnchanged
<1>2. \A j : InvestigationCommentsOn(j)' = InvestigationCommentsOn(j)
  BY DEF InvestigationCommentsOn
<1>3. FreshIds' /\ OwnIds'
  BY DEF LockInv, FreshIds, OwnIds
<1>4. AnnouncedIsStarting'
  BY DEF LockInv, AnnouncedIsStarting
<1>5. CommentStands'
  BY <1>1, <1>2 DEF LockInv, CommentStands
<1>6. HolderIsLowest'
  <2> SUFFICES ASSUME NEW s \in Runs, Holder(s)', Synchronised(s)',
                      NEW c \in InvestigationCommentsOn(First(s))'
               PROVE  cid'[s] <= c.id
    BY DEF HolderIsLowest
  <2>1. pc'[s] \in StandingSteps
    BY DEF Holder, StandingSteps, DoneSteps, AnnouncedSteps
  <2>2. c \in InvestigationCommentsOn(First(s)) /\ Synchronised(s)
    BY <1>1, <1>2, <2>1 DEF Synchronised
  <2>3. CASE Holder(s)
    BY <2>2, <2>3 DEF LockInv, HolderIsLowest
  <2>4. CASE s = r /\ MayProceed(r)
    BY <2>2, <2>4 DEF MayProceed, Synchronised
  <2> QED
    BY <2>3, <2>4 DEF Holder
<1> QED
  BY <1>3, <1>4, <1>5, <1>6 DEF LockInv

\* Posting the "Starting" comment (PostStarting): its id is new and higher than
\* all others.
LEMMA PostStartingLockInv ==
  ASSUME TypeOK, LockInv, NEW r \in Runs, PostStarting(r)
  PROVE  LockInv'
<1>1. CASE First(r) \notin exists
  <2>1. pc[r] \in EarlySteps /\ pc' = [pc EXCEPT ![r] = "retry"]
    BY <1>1 DEF PostStarting, Goto, EarlySteps
  <2>2. UNCHANGED <<comments, cid, nextId, exists, view>>
    BY <1>1 DEF PostStarting, jobVars
  <2>3. cid[r] = 0
    BY <2>1 DEF LockInv, FreshIds
  <2>4. \A s \in Runs : First(s)' = First(s)
    BY <2>2, FirstUnchanged
  <2>5. \A j : InvestigationCommentsOn(j)' = InvestigationCommentsOn(j)
    BY <2>2 DEF InvestigationCommentsOn
  <2>6. \A c \in comments : c.id # 0
    BY DEF TypeOK, CommentRecords
  <2>7. pc'[r] = "retry" /\ (\A s \in Runs \ {r} : pc'[s] = pc[s])
    BY <2>1 DEF TypeOK
  <2>8. FreshIds' /\ OwnIds'
    BY <2>2, <2>7 DEF LockInv, FreshIds, OwnIds, EarlySteps
  <2>9. AnnouncedIsStarting'
    BY <2>2, <2>3, <2>6, <2>7 DEF LockInv, AnnouncedIsStarting
  <2>10. CommentStands'
    BY <2>2, <2>3, <2>4, <2>5, <2>7 DEF LockInv, CommentStands
  <2>11. HolderIsLowest'
    <3> SUFFICES ASSUME NEW s \in Runs, Holder(s)', Synchronised(s)',
                        NEW c \in InvestigationCommentsOn(First(s))'
                 PROVE  cid'[s] <= c.id
      BY DEF HolderIsLowest
    <3>1. s # r /\ Synchronised(s)
      BY <2>2, <2>3, <2>4 DEF Synchronised
    <3>2. Holder(s) /\ c \in InvestigationCommentsOn(First(s))
      BY <2>4, <2>5, <2>7, <3>1 DEF Holder
    <3> QED
      BY <2>2, <3>1, <3>2 DEF LockInv, HolderIsLowest
  <2> QED
    BY <2>8, <2>9, <2>10, <2>11 DEF LockInv
<1>2. CASE First(r) \in exists
  <2>1. /\ pc[r] = "post" /\ pc' = [pc EXCEPT ![r] = "list"]
        /\ UNCHANGED <<exists, view>>
    BY <1>2 DEF PostStarting, Goto, jobVars
  <2>2. PICK i \in {nextId, nextId + 1} :
          /\ cid' = [cid EXCEPT ![r] = i]
          /\ nextId' = i + 1
          /\ Comment(i, First(r), "starting", r) \in comments'
          /\ comments \subseteq comments'
          /\ \A c \in comments' \ comments :
               c.id \in nextId..i /\ c.kind = "starting"
    <3>1. nextId \in Nat
      BY DEF TypeOK
    <3> QED
      BY <1>2, <3>1 DEF PostStarting, Comment
  <2>3. i \in Nat /\ nextId \in Nat \ {0} /\ i >= nextId
    BY DEF TypeOK
  <2>4. /\ pc'[r] = "list" /\ cid'[r] = i
        /\ \A s \in Runs \ {r} : pc'[s] = pc[s] /\ cid'[s] = cid[s]
    BY <2>1, <2>2 DEF TypeOK
  <2>5. \A s \in Runs : First(s)' = First(s)
    BY <2>1, FirstUnchanged
  <2>6. /\ \A c \in comments : c.id \in Nat /\ c.id < nextId
        /\ \A s \in Runs : cid[s] \in Nat /\ cid[s] < nextId
    BY DEF TypeOK, CommentRecords, LockInv, FreshIds
  <2>7. FreshIds'
    BY <2>2, <2>3, <2>4, <2>6 DEF LockInv, FreshIds, EarlySteps
  <2>8. OwnIds'
    BY <2>3, <2>4, <2>6 DEF LockInv, OwnIds
  <2>9. AnnouncedIsStarting'
    <3> SUFFICES ASSUME NEW s \in Runs, pc'[s] \in AnnouncedSteps,
                        NEW c \in comments', c.id = cid'[s]
                 PROVE  c.kind = "starting"
      BY DEF AnnouncedIsStarting
    <3>1. CASE c \notin comments
      BY <2>2, <3>1
    <3>2. CASE c \in comments
      <4>1. s # r
        BY <2>3, <2>4, <2>6, <3>2
      <4> QED
        BY <2>4, <3>2, <4>1 DEF LockInv, AnnouncedIsStarting
    <3> QED
      BY <3>1, <3>2
  <2>10. CommentStands'
    <3> SUFFICES ASSUME NEW s \in Runs, pc'[s] \in StandingSteps, cid'[s] # 0,
                        First(s)' \in exists'
                 PROVE  \E c \in InvestigationCommentsOn(First(s))' : c.id = cid'[s]
      BY DEF CommentStands
    <3>1. CASE s = r
      BY <2>2, <2>4, <2>5, <3>1 DEF InvestigationCommentsOn, Comment, InvestigationKinds
    <3>2. CASE s # r
      <4>1. \E c \in InvestigationCommentsOn(First(s)) : c.id = cid[s]
        BY <2>1, <2>4, <2>5, <3>2 DEF LockInv, CommentStands
      <4> QED
        BY <2>2, <2>4, <2>5, <3>2, <4>1 DEF InvestigationCommentsOn
    <3> QED
      BY <3>1, <3>2
  <2>11. HolderIsLowest'
    <3> SUFFICES ASSUME NEW s \in Runs, Holder(s)', Synchronised(s)',
                        NEW c \in InvestigationCommentsOn(First(s))'
                 PROVE  cid'[s] <= c.id
      BY DEF HolderIsLowest
    <3>1. s # r
      BY <2>4 DEF Holder, TriggerSteps, DoneSteps, AnnouncedSteps
    <3>2. Holder(s) /\ Synchronised(s)
      BY <2>1, <2>4, <2>5, <3>1 DEF Holder, Synchronised
    <3>3. c \in comments' /\ c.job = First(s) /\ c.kind \in InvestigationKinds
      BY <2>5 DEF InvestigationCommentsOn
    <3>4. CASE c \in comments
      BY <2>4, <3>1, <3>2, <3>3, <3>4
         DEF LockInv, HolderIsLowest, InvestigationCommentsOn
    <3>5. CASE c \notin comments
      <4>1. c.id \in nextId..i
        BY <2>2, <3>3, <3>5
      <4> QED
        BY <2>3, <2>4, <2>6, <3>1, <4>1
    <3> QED
      BY <3>4, <3>5
  <2> QED
    BY <2>7, <2>8, <2>9, <2>10, <2>11 DEF LockInv
<1> QED
  BY <1>1, <1>2

\* A run that removes or rewrites its own comment and moves on (Yield,
\* ReportFailure, Finalize): "kept" tells whether the comment stays one that
\* INVESTIGATION_COMMENT_RE matches.
LEMMA OwnCommentStep ==
  ASSUME TypeOK, LockInv, NEW r \in Runs, NEW kept \in BOOLEAN,
         UNCHANGED <<cid, nextId, exists, view>>,
         pc[r] \in AnnouncedSteps,
         \A s \in Runs \ {r} : pc'[s] = pc[s],
         pc'[r] \notin AnnouncedSteps \union EarlySteps,
         pc'[r] \in StandingSteps => kept /\ Holder(r),
         cid[r] # 0,
         kept => comments' = Rewritten(cid[r], "automatic"),
         ~kept => comments' \in {Without(cid[r]), Rewritten(cid[r], "failed")}
  PROVE  LockInv'
<1>1. \A s \in Runs : First(s)' = First(s)
  BY FirstUnchanged
<1>2. \A s \in Runs \ {r} : cid[s] # cid[r]
  BY DEF LockInv, OwnIds
<1>3. \A c \in comments : c.id # cid[r] => c \in comments'
  BY DEF Rewritten, Without
<1>4. \A c \in comments' :
        \E d \in comments : /\ c.id = d.id /\ c.job = d.job
                            /\ c = d \/ (c.id = cid[r] /\ d.kind = "starting")
  <2> SUFFICES ASSUME NEW c \in comments'
               PROVE  \E d \in comments :
                        /\ c.id = d.id /\ c.job = d.job
                        /\ c = d \/ (c.id = cid[r] /\ d.kind = "starting")
    OBVIOUS
  <2>1. \A d \in comments : d.id = cid[r] => d.kind = "starting"
    BY DEF LockInv, AnnouncedIsStarting
  <2>2. CASE comments' = Without(cid[r])
    BY <2>2 DEF Without
  <2>3. ASSUME NEW k, comments' = Rewritten(cid[r], k)
        PROVE  \E d \in comments :
                 /\ c.id = d.id /\ c.job = d.job
                 /\ c = d \/ (c.id = cid[r] /\ d.kind = "starting")
    <3>1. PICK d \in comments : c = IF d.id = cid[r] THEN [d EXCEPT !.kind = k] ELSE d
      BY <2>3 DEF Rewritten
    <3>2. d \in CommentRecords
      BY DEF TypeOK
    <3>3. c.id = d.id /\ c.job = d.job
      BY <3>1, <3>2 DEF CommentRecords
    <3> QED
      BY <2>1, <3>1, <3>3
  <2> QED
    BY <2>2, <2>3
<1>5. FreshIds' /\ OwnIds'
  BY <1>4 DEF LockInv, FreshIds, OwnIds
<1>6. AnnouncedIsStarting'
  BY <1>2, <1>4 DEF LockInv, AnnouncedIsStarting
<1>7. CommentStands'
  <2> SUFFICES ASSUME NEW s \in Runs, pc'[s] \in StandingSteps, cid'[s] # 0,
                      First(s)' \in exists'
               PROVE  \E c \in InvestigationCommentsOn(First(s))' : c.id = cid'[s]
    BY DEF CommentStands
  <2>1. pc[s] \in StandingSteps
    BY DEF StandingSteps
  <2>2. PICK c \in InvestigationCommentsOn(First(s)) : c.id = cid[s]
    BY <1>1, <2>1 DEF LockInv, CommentStands
  <2>3. c \in comments /\ c.job = First(s) /\ c.kind \in InvestigationKinds
    BY <2>2 DEF InvestigationCommentsOn
  <2>4. CASE s # r
    BY <1>1, <1>2, <1>3, <2>2, <2>3, <2>4 DEF InvestigationCommentsOn
  <2>5. CASE s = r
    <3> DEFINE d == [c EXCEPT !.kind = "automatic"]
    <3>1. d \in comments'
      BY <2>2, <2>3, <2>5 DEF Rewritten
    <3>2. c \in CommentRecords
      BY <2>3 DEF TypeOK
    <3>3. d.id = c.id /\ d.job = c.job /\ d.kind = "automatic"
      BY <3>2 DEF CommentRecords
    <3> QED
      BY <1>1, <2>2, <2>3, <3>1, <3>3 DEF InvestigationCommentsOn, InvestigationKinds
  <2> QED
    BY <2>4, <2>5
<1>8. HolderIsLowest'
  <2> SUFFICES ASSUME NEW s \in Runs, Holder(s)', Synchronised(s)',
                      NEW c \in InvestigationCommentsOn(First(s))'
               PROVE  cid'[s] <= c.id
    BY DEF HolderIsLowest
  <2>1. c \in comments' /\ c.job = First(s) /\ c.kind \in InvestigationKinds
    BY <1>1 DEF InvestigationCommentsOn
  <2>2. PICK d \in comments : /\ c.id = d.id /\ c.job = d.job
                              /\ c = d \/ (c.id = cid[r] /\ d.kind = "starting")
    BY <1>4, <2>1
  <2>3. d \in InvestigationCommentsOn(First(s))
    BY <2>1, <2>2 DEF InvestigationCommentsOn, InvestigationKinds
  <2>4. Holder(s) /\ Synchronised(s)
    BY <1>1 DEF Holder, Synchronised, StandingSteps, DoneSteps, AnnouncedSteps
  <2> QED
    BY <2>2, <2>3, <2>4 DEF LockInv, HolderIsLowest
<1> QED
  BY <1>5, <1>6, <1>7, <1>8 DEF LockInv

\* The report on the run's own job (Repost) has an id of its own.
LEMMA RepostLockInv ==
  ASSUME TypeOK, LockInv, NEW r \in Runs, Repost(r)
  PROVE  LockInv'
<1>1. /\ pc[r] = "repost" /\ pc'[r] = "investigated"
      /\ \A s \in Runs \ {r} : pc'[s] = pc[s]
      /\ UNCHANGED <<cid, exists, view>>
  BY DEF TypeOK, Repost, Goto, jobVars
<1>2. /\ comments \subseteq comments'
      /\ \A c \in comments' \ comments : c.id = nextId /\ nextId' = nextId + 1
      /\ nextId' \in {nextId, nextId + 1}
  BY DEF Repost, Comment
<1>3. \A s \in Runs : First(s)' = First(s)
  BY <1>1, FirstUnchanged
<1>4. nextId \in Nat /\ (\A c \in comments : c.id \in Nat /\ c.id < nextId)
                     /\ (\A s \in Runs : cid[s] \in Nat /\ cid[s] < nextId)
  BY DEF TypeOK, CommentRecords, LockInv, FreshIds
<1>5. FreshIds' /\ OwnIds'
  BY <1>1, <1>2, <1>4 DEF LockInv, FreshIds, OwnIds, EarlySteps
<1>6. AnnouncedIsStarting'
  <2> SUFFICES ASSUME NEW s \in Runs, pc'[s] \in AnnouncedSteps,
                      NEW c \in comments', c.id = cid'[s]
               PROVE  c.kind = "starting"
    BY DEF AnnouncedIsStarting
  <2>1. pc[s] \in AnnouncedSteps
    BY <1>1 DEF AnnouncedSteps, TriggerSteps
  <2>2. c \in comments
    BY <1>1, <1>2, <1>4
  <2> QED
    BY <1>1, <2>1, <2>2 DEF LockInv, AnnouncedIsStarting
<1>7. CommentStands'
  <2> SUFFICES ASSUME NEW s \in Runs, pc'[s] \in StandingSteps, cid'[s] # 0,
                      First(s)' \in exists'
               PROVE  \E c \in InvestigationCommentsOn(First(s))' : c.id = cid'[s]
    BY DEF CommentStands
  <2>1. \E c \in InvestigationCommentsOn(First(s)) : c.id = cid[s]
    BY <1>1, <1>3 DEF LockInv, CommentStands, StandingSteps, DoneSteps, AnnouncedSteps
  <2> QED
    BY <1>1, <1>2, <1>3, <2>1 DEF InvestigationCommentsOn
<1>8. HolderIsLowest'
  <2> SUFFICES ASSUME NEW s \in Runs, Holder(s)', Synchronised(s)',
                      NEW c \in InvestigationCommentsOn(First(s))'
               PROVE  cid'[s] <= c.id
    BY DEF HolderIsLowest
  <2>1. c \in comments' /\ c.job = First(s) /\ c.kind \in InvestigationKinds
    BY <1>3 DEF InvestigationCommentsOn
  <2>2. Holder(s) /\ Synchronised(s)
    BY <1>1, <1>3 DEF Holder, Synchronised, DoneSteps, AnnouncedSteps
  <2>3. CASE c \in comments
    BY <1>1, <2>1, <2>2, <2>3 DEF LockInv, HolderIsLowest, InvestigationCommentsOn
  <2>4. CASE c \notin comments
    BY <1>1, <1>2, <1>4, <2>1, <2>4
  <2> QED
    BY <2>3, <2>4
<1> QED
  BY <1>5, <1>6, <1>7, <1>8 DEF LockInv

\* A deleted job takes its comments along, and nobody meets on it any more
\* (DeleteJob).
LEMMA DeleteJobLockInv ==
  ASSUME TypeOK, LockInv, NEW j \in Jobs, DeleteJob(j)
  PROVE  LockInv'
<1>1. /\ UNCHANGED <<cid, nextId, pc, view>>
      /\ exists' = exists \ {j}
      /\ comments' = {c \in comments : c.job # j}
  BY DEF DeleteJob
<1>2. \A s \in Runs : First(s)' = First(s)
  BY <1>1, FirstUnchanged
<1>3. FreshIds' /\ OwnIds' /\ AnnouncedIsStarting'
  BY <1>1 DEF LockInv, FreshIds, OwnIds, AnnouncedIsStarting
<1>4. CommentStands'
  BY <1>1, <1>2 DEF LockInv, CommentStands, InvestigationCommentsOn
<1>5. HolderIsLowest'
  BY <1>1, <1>2 DEF LockInv, HolderIsLowest, InvestigationCommentsOn, Holder,
                    Synchronised
<1> QED
  BY <1>3, <1>4, <1>5 DEF LockInv

\* A clone step is quiet: it goes from a trigger step to a trigger step or to
\* an end (clone).
LEMMA CloneLockInv ==
  ASSUME TypeOK, LockInv, NEW r \in Runs, NEW k, NEW next \in TriggerSteps,
         NEW rest, pc[r] \in TriggerSteps, CloneJob(r, k, next, rest)
  PROVE  LockInv'
<1>1. /\ UNCHANGED <<comments, cid, nextId, exists, view>>
      /\ \A s \in Runs \ {r} : pc'[s] = pc[s]
      /\ pc'[r] \in TriggerSteps \union {"aborted"}
  BY DEF CloneJob, CloneRefused, CloneMade, CloneGone, CloneLeftOut, CloneFails,
         Goto, jobVars, TriggerSteps, TypeOK
<1>2. Holder(r) /\ pc[r] \in AnnouncedSteps /\ pc'[r] \notin EarlySteps
  BY <1>1 DEF Holder, AnnouncedSteps, EarlySteps, TriggerSteps
<1> QED
  BY <1>1, <1>2, QuietStep DEF StandingSteps

LEMMA NextLockInv == TypeOK /\ LockInv /\ [Next]_vars => LockInv'
<1> SUFFICES ASSUME TypeOK, LockInv, [Next]_vars
             PROVE  LockInv'
  OBVIOUS
<1>1. ASSUME NEW r \in Runs, GetJob(r)
      PROVE  LockInv'
  BY <1>1, QuietStep
     DEF TypeOK, GetJob, jobVars, Goto, Holder, StandingSteps, DoneSteps, AnnouncedSteps,
         TriggerSteps, EarlySteps
<1>2. ASSUME NEW r \in Runs, Postpone(r)
      PROVE  LockInv'
  BY <1>2, QuietStep
     DEF TypeOK, Postpone, jobVars, Goto, Holder, StandingSteps, DoneSteps, AnnouncedSteps,
         TriggerSteps, EarlySteps
<1>3. ASSUME NEW r \in Runs, Enter(r)
      PROVE  LockInv'
  BY <1>3, QuietStep
     DEF TypeOK, Enter, jobVars, Goto, Holder, StandingSteps, DoneSteps, AnnouncedSteps,
         TriggerSteps, EarlySteps
<1>4. ASSUME NEW r \in Runs, PostStarting(r)
      PROVE  LockInv'
  BY <1>4, PostStartingLockInv
<1>5. ASSUME NEW r \in Runs, ListComments(r)
      PROVE  LockInv'
  BY <1>5, QuietStep
     DEF TypeOK, ListComments, jobVars, Goto, Holder, StandingSteps, DoneSteps, AnnouncedSteps,
         TriggerSteps, EarlySteps
<1>6. ASSUME NEW r \in Runs, Yield(r)
      PROVE  LockInv'
  <2>1. /\ UNCHANGED <<cid, nextId, exists, view>>
        /\ pc[r] = "yield" /\ pc'[r] = "skipped"
        /\ \A s \in Runs \ {r} : pc'[s] = pc[s]
        /\ comments' = Without(cid[r])
    BY <1>6 DEF TypeOK, Yield, Goto, jobVars
  <2>2. /\ pc[r] \in AnnouncedSteps
        /\ pc'[r] \notin AnnouncedSteps \union EarlySteps \union StandingSteps
    BY <2>1 DEF AnnouncedSteps, EarlySteps, StandingSteps, TriggerSteps, DoneSteps
  <2>3. CASE cid[r] # 0
    BY <2>1, <2>2, <2>3, OwnCommentStep
  <2>4. CASE cid[r] = 0
    <3>1. comments' = comments
      BY <2>1, <2>4 DEF Without, TypeOK, CommentRecords
    <3> QED
      BY <2>1, <2>2, <3>1, QuietStep DEF Holder, StandingSteps, DoneSteps, AnnouncedSteps
  <2> QED
    BY <2>3, <2>4
<1>7. ASSUME NEW r \in Runs, TriggerRetry(r)
      PROVE  LockInv'
  BY <1>7, CloneLockInv DEF TriggerRetry, TriggerSteps
<1>8. ASSUME NEW r \in Runs, GetInvestigation(r)
      PROVE  LockInv'
  BY <1>8, QuietStep
     DEF TypeOK, GetInvestigation, jobVars, Goto, Holder, StandingSteps, DoneSteps, AnnouncedSteps,
         TriggerSteps, EarlySteps
<1>9. ASSUME NEW r \in Runs, TriggerRegression(r)
      PROVE  LockInv'
  BY <1>9, CloneLockInv DEF TriggerRegression, TriggerSteps
<1>10. ASSUME NEW r \in Runs, ReportFailure(r)
       PROVE  LockInv'
  <2>1. /\ UNCHANGED <<cid, nextId, exists, view>>
        /\ pc[r] = "failing" /\ pc'[r] \in {"ignored", "failed"}
        /\ \A s \in Runs \ {r} : pc'[s] = pc[s]
        /\ comments' = IF cid[r] # 0 THEN Rewritten(cid[r], "failed") ELSE comments
    BY <1>10 DEF TypeOK, ReportFailure, Goto, jobVars
  <2>2. /\ pc[r] \in AnnouncedSteps
        /\ pc'[r] \notin AnnouncedSteps \union EarlySteps \union StandingSteps
    BY <2>1 DEF AnnouncedSteps, EarlySteps, StandingSteps, TriggerSteps, DoneSteps
  <2>3. CASE cid[r] # 0
    BY <2>1, <2>2, <2>3, OwnCommentStep
  <2>4. CASE cid[r] = 0
    BY <2>1, <2>2, <2>4, QuietStep DEF Holder, StandingSteps, DoneSteps, AnnouncedSteps
  <2> QED
    BY <2>3, <2>4
<1>11. ASSUME NEW r \in Runs, Finalize(r)
       PROVE  LockInv'
  <2>1. /\ UNCHANGED <<cid, nextId, exists, view>>
        /\ pc[r] = "finish"
        /\ \A s \in Runs \ {r} : pc'[s] = pc[s]
    BY <1>11 DEF TypeOK, Finalize, Goto, jobVars
  <2>2. pc[r] \in AnnouncedSteps /\ Holder(r)
    BY <2>1 DEF AnnouncedSteps, TriggerSteps, Holder
  <2>3. CASE cid[r] = 0
    <3>1. comments' = comments /\ pc'[r] = "investigated"
      BY <1>11, <2>3 DEF TypeOK, Finalize, Goto
    <3> QED
      BY <2>1, <2>2, <3>1, QuietStep
         DEF StandingSteps, DoneSteps, AnnouncedSteps, TriggerSteps, EarlySteps
  <2>4. CASE cid[r] # 0 /\ r \notin lines
    <3>1. comments' = Without(cid[r]) /\ pc'[r] = "nothing"
      BY <1>11, <2>4 DEF TypeOK, Finalize, Goto
    <3>2. pc'[r] \notin AnnouncedSteps \union EarlySteps \union StandingSteps
      BY <3>1 DEF AnnouncedSteps, EarlySteps, StandingSteps, TriggerSteps, DoneSteps
    <3> QED
      BY <2>1, <2>2, <2>4, <3>1, <3>2, OwnCommentStep
  <2>5. CASE cid[r] # 0 /\ r \in lines
    <3>1. /\ comments' = Rewritten(cid[r], "automatic")
          /\ pc'[r] \in {"repost", "investigated"}
      BY <1>11, <2>5 DEF TypeOK, Finalize, Goto
    <3>2. pc'[r] \notin AnnouncedSteps \union EarlySteps
      BY <3>1 DEF AnnouncedSteps, EarlySteps, TriggerSteps
    <3> QED
      BY <2>1, <2>2, <2>5, <3>1, <3>2, OwnCommentStep
  <2> QED
    BY <2>3, <2>4, <2>5
<1>12. ASSUME NEW r \in Runs, Repost(r)
       PROVE  LockInv'
  BY <1>12, RepostLockInv
<1>13. ASSUME NEW r \in Runs, RetryHook(r)
      PROVE  LockInv'
  BY <1>13, QuietStep
     DEF TypeOK, RetryHook, jobVars, Goto, Holder, StandingSteps, DoneSteps, AnnouncedSteps,
         TriggerSteps, EarlySteps
<1>14. ASSUME NEW r \in Runs, Crash(r)
      PROVE  LockInv'
  BY <1>14, QuietStep
     DEF TypeOK, Crash, jobVars, Goto, Holder, StandingSteps, DoneSteps, AnnouncedSteps,
         TriggerSteps, EarlySteps
<1>15. ASSUME NEW j \in Jobs, FinishJob(j) \/ RestartJob(j)
       PROVE  LockInv'
  <2>1. UNCHANGED <<comments, cid, nextId, exists, pc, view>>
    BY <1>15 DEF FinishJob, RestartJob
  <2> QED
    BY <2>1 DEF LockInv, FreshIds, OwnIds, AnnouncedIsStarting, CommentStands,
                HolderIsLowest, InvestigationCommentsOn, First, Holder, Synchronised
<1>16. ASSUME NEW j \in Jobs, DeleteJob(j)
       PROVE  LockInv'
  BY <1>16, DeleteJobLockInv
<1>17. CASE UNCHANGED vars
  <2>1. UNCHANGED <<comments, cid, nextId, exists, pc, view>>
    BY <1>17 DEF vars
  <2> QED
    BY <2>1 DEF LockInv, FreshIds, OwnIds, AnnouncedIsStarting, CommentStands,
                HolderIsLowest, InvestigationCommentsOn, First, Holder, Synchronised
<1> QED
  BY <1>1, <1>2, <1>3, <1>4, <1>5, <1>6, <1>7, <1>8, <1>9, <1>10, <1>11,
     <1>12, <1>13, <1>14, <1>15, <1>16, <1>17 DEF Next, Step, AllEnded

\* Two holders that meet on a job would each have the lowest id there, hence
\* the same id, hence be the same run.
LEMMA LockInvGivesOneHolder ==
  ASSUME TypeOK, LockInv
  PROVE  OneHolder
<1> SUFFICES ASSUME NEW r \in Runs, NEW s \in Runs,
                    Holder(r), Synchronised(r), Holder(s), Synchronised(s),
                    First(r) = First(s)
             PROVE  r = s
  BY DEF OneHolder
<1>1. pc[r] \in StandingSteps /\ pc[s] \in StandingSteps
  BY DEF Holder, StandingSteps, DoneSteps, AnnouncedSteps
<1>2. \E c \in InvestigationCommentsOn(First(r)) : c.id = cid[r]
  BY <1>1 DEF LockInv, CommentStands, Synchronised
<1>3. \E c \in InvestigationCommentsOn(First(r)) : c.id = cid[s]
  BY <1>1 DEF LockInv, CommentStands, Synchronised
<1>4. cid[r] <= cid[s] /\ cid[s] <= cid[r]
  BY <1>2, <1>3 DEF LockInv, HolderIsLowest
<1>5. cid[r] = cid[s] /\ cid[r] # 0
  BY <1>4 DEF TypeOK, Synchronised
<1> QED
  BY <1>5 DEF LockInv, OwnIds

\* Whatever the order of posts, lists and edits, and whichever runs crash or
\* jobs are deleted, one synchronised run at most investigates on behalf of
\* the jobs that meet on a first job (sync_via_investigation_comment).
THEOREM OneHolderAlways == Spec => []OneHolder
<1>1. Init => TypeOK /\ LockInv
  BY InitTypeOK, InitLockInv
<1>2. (TypeOK /\ LockInv) /\ [Next]_vars => (TypeOK /\ LockInv)'
  BY NextTypeOK, NextLockInv
<1>3. TypeOK /\ LockInv => OneHolder
  BY LockInvGivesOneHolder
<1> QED
  BY <1>1, <1>2, <1>3, PTL DEF Spec

----------------------------------------------------------------------------
\* The lock: openqa-investigate implements ClusterLock; the comments on the
\* first job of a cluster are a lock for any number of runs, jobs and faults.


Held(r) == Holder(r) /\ Synchronised(r)
Done(r) == pc[r] \in DoneSteps

\* The claims, by their members.
LEMMA ClaimMembers ==
  /\ \A c : c \in Claims <=> \E s \in Runs : Held(s) /\ c = <<s, First(s)>>
  /\ \A c : c \in Kept <=> \E s \in Runs : Held(s) /\ Done(s) /\ c = <<s, First(s)>>
<1>1. \A c : c \in Claims <=> \E s \in Runs : Held(s) /\ c = <<s, First(s)>>
  BY DEF Claims, Held
<1>2. \A c : c \in Kept <=> c \in Claims /\ pc[c[1]] \in DoneSteps
  BY DEF Kept
<1> QED
  BY <1>1, <1>2 DEF Done

LEMMA ClaimMembersPrimed ==
  /\ \A c : c \in Claims' <=> \E s \in Runs : Held(s)' /\ c = <<s, First(s)'>>
  /\ \A c : c \in Kept' <=> \E s \in Runs : Held(s)' /\ Done(s)' /\ c = <<s, First(s)'>>
<1>1. \A c : c \in Claims' <=> \E s \in Runs : Held(s)' /\ c = <<s, First(s)'>>
  BY DEF Claims, Held
<1>2. \A c : c \in Kept' <=> c \in Claims' /\ pc'[c[1]] \in DoneSteps
  BY DEF Kept
<1> QED
  BY <1>1, <1>2 DEF Done

\* A step that changes no claim stutters.
LEMMA SameClaims ==
  ASSUME \A s \in Runs : /\ Held(s)' <=> Held(s)
                         /\ Held(s) => First(s)' = First(s) /\ (Done(s)' <=> Done(s))
  PROVE  UNCHANGED <<Claims, Kept>>
<1>1. \A c : c \in Claims' <=> c \in Claims
  BY ClaimMembers, ClaimMembersPrimed
<1>2. \A c : c \in Kept' <=> c \in Kept
  BY ClaimMembers, ClaimMembersPrimed
<1>3. Claims' = Claims
  BY <1>1
<1>4. Kept' = Kept
  BY <1>2
<1> QED
  BY <1>3, <1>4

\* A step of run r leaves the claims of the other runs alone.
LEMMA OtherClaims ==
  ASSUME NEW r \in Runs, UNCHANGED exists,
         \A s \in Runs \ {r} : /\ pc'[s] = pc[s] /\ view'[s] = view[s]
                               /\ cid'[s] = cid[s]
  PROVE  \A s \in Runs \ {r} : /\ Held(s)' <=> Held(s)
                               /\ First(s)' = First(s)
                               /\ Done(s)' <=> Done(s)
<1> SUFFICES ASSUME NEW s \in Runs \ {r}
             PROVE  /\ Held(s)' <=> Held(s)
                    /\ First(s)' = First(s)
                    /\ Done(s)' <=> Done(s)
  OBVIOUS
<1>1. First(s)' = First(s)
  BY FirstUnchanged
<1> QED
  BY <1>1 DEF Held, Done, Holder, Synchronised

\* A step of run r that lets it neither get nor lose nor keep a claim stutters.
LEMMA QuietClaims ==
  ASSUME NEW r \in Runs, UNCHANGED exists,
         \A s \in Runs \ {r} : /\ pc'[s] = pc[s] /\ view'[s] = view[s]
                               /\ cid'[s] = cid[s],
         Held(r)' <=> Held(r),
         Held(r) => view'[r] = view[r] /\ (Done(r)' <=> Done(r))
  PROVE  UNCHANGED <<Claims, Kept>>
<1>1. Held(r) => First(r)' = First(r)
  BY FirstUnchanged
<1> QED
  BY <1>1, OtherClaims, SameClaims

\* A run that becomes a synchronised holder acquires the lock: nobody else has
\* the job, because one holder at most is there afterwards (OneHolder).
LEMMA AcquireStep ==
  ASSUME NEW r \in Runs, TypeOK, OneHolder', UNCHANGED exists, UNCHANGED view,
         \A s \in Runs \ {r} : pc'[s] = pc[s] /\ cid'[s] = cid[s],
         ~ Held(r), Held(r)', ~ Done(r)'
  PROVE  Lock!Acquire(r, First(r))
<1>1. First(r)' = First(r)
  BY FirstUnchanged
<1>2. \A s \in Runs \ {r} : /\ Held(s)' <=> Held(s)
                            /\ First(s)' = First(s)
                            /\ Done(s)' <=> Done(s)
  BY OtherClaims
<1>3. \A c \in Claims : c[1] # r /\ c[2] # First(r)
  <2> SUFFICES ASSUME NEW c \in Claims
               PROVE  c[1] # r /\ c[2] # First(r)
    OBVIOUS
  <2>1. PICK s \in Runs : Held(s) /\ c = <<s, First(s)>>
    BY ClaimMembers
  <2>2. s # r /\ Held(s)' /\ First(s)' = First(s)
    BY <1>2, <2>1
  <2>3. First(s)' # First(r)'
    BY <2>2 DEF OneHolder, Held
  <2> QED
    BY <1>1, <2>1, <2>2, <2>3
<1>4. \A c : c \in Claims' <=> c \in Claims \/ c = <<r, First(r)>>
  BY <1>1, <1>2, ClaimMembers, ClaimMembersPrimed
<1>5. \A c : c \in Kept' <=> c \in Kept
  BY <1>2, ClaimMembers, ClaimMembersPrimed
<1>6. Claims' = Claims \union {<<r, First(r)>>} /\ Kept' = Kept
  BY <1>4, <1>5
<1> QED
  BY <1>3, <1>6 DEF Lock!Acquire

\* A holder that reaches an end which leaves its comment in place keeps the
\* lock.
LEMMA KeepStep ==
  ASSUME NEW r \in Runs, UNCHANGED exists, UNCHANGED view,
         \A s \in Runs \ {r} : pc'[s] = pc[s] /\ cid'[s] = cid[s],
         Held(r), Held(r)', ~ Done(r), Done(r)'
  PROVE  Lock!Keep(r, First(r))
<1>1. First(r)' = First(r)
  BY FirstUnchanged
<1>2. \A s \in Runs \ {r} : /\ Held(s)' <=> Held(s)
                            /\ First(s)' = First(s)
                            /\ Done(s)' <=> Done(s)
  BY OtherClaims
<1>3. <<r, First(r)>> \in Claims \ Kept
  BY ClaimMembers
<1>4. \A c : c \in Claims' <=> c \in Claims
  BY <1>1, <1>2, ClaimMembers, ClaimMembersPrimed
<1>5. \A c : c \in Kept' <=> c \in Kept \/ c = <<r, First(r)>>
  BY <1>1, <1>2, ClaimMembers, ClaimMembersPrimed
<1>6. Claims' = Claims /\ Kept' = Kept \union {<<r, First(r)>>}
  BY <1>4, <1>5
<1> QED
  BY <1>3, <1>6 DEF Lock!Keep

\* A holder that stops without keeping its comment gives the lock up.
LEMMA GiveUpStep ==
  ASSUME NEW r \in Runs, UNCHANGED exists, UNCHANGED view,
         \A s \in Runs \ {r} : pc'[s] = pc[s] /\ cid'[s] = cid[s],
         Held(r), ~ Held(r)', ~ Done(r)
  PROVE  Lock!GiveUp(r, First(r))
<1>2. \A s \in Runs \ {r} : /\ Held(s)' <=> Held(s)
                            /\ First(s)' = First(s)
                            /\ Done(s)' <=> Done(s)
  BY OtherClaims
<1>3. <<r, First(r)>> \in Claims \ Kept
  BY ClaimMembers
<1>4. \A c : c \in Claims' <=> c \in Claims /\ c # <<r, First(r)>>
  BY <1>2, ClaimMembers, ClaimMembersPrimed
<1>5. \A c : c \in Kept' <=> c \in Kept
  BY <1>2, ClaimMembers, ClaimMembersPrimed
<1>6. Claims' = Claims \ {<<r, First(r)>>} /\ Kept' = Kept
  BY <1>4, <1>5
<1> QED
  BY <1>3, <1>6 DEF Lock!GiveUp

\* A deleted job loses its claims (DeleteJob).
LEMMA VanishStep ==
  ASSUME NEW j \in Jobs, DeleteJob(j)
  PROVE  Lock!Vanish(j)
<1>1. UNCHANGED <<pc, view, cid>> /\ exists' = exists \ {j}
  BY DEF DeleteJob
<1>2. \A s \in Runs : /\ First(s)' = First(s)
                      /\ Held(s)' <=> Held(s) /\ First(s) # j
                      /\ Done(s)' <=> Done(s)
  <2> SUFFICES ASSUME NEW s \in Runs
               PROVE  /\ First(s)' = First(s)
                      /\ Held(s)' <=> Held(s) /\ First(s) # j
                      /\ Done(s)' <=> Done(s)
    OBVIOUS
  <2>1. First(s)' = First(s)
    BY <1>1, FirstUnchanged
  <2> QED
    BY <1>1, <2>1 DEF Held, Done, Holder, Synchronised
<1>3. \A c : c \in Claims' <=> c \in Claims /\ c[2] # j
  BY <1>2, ClaimMembers, ClaimMembersPrimed
<1>4. \A c : c \in Kept' <=> c \in Kept /\ c[2] # j
  BY <1>2, ClaimMembers, ClaimMembersPrimed
<1>5. Claims' = {c \in Claims : c[2] # j} /\ Kept' = {c \in Kept : c[2] # j}
  BY <1>3, <1>4
<1> QED
  BY <1>5 DEF Lock!Vanish

\* What a step of a run does to the lock when it changes the run's place only:
\* by where the run comes from and where it goes.
LEMMA MoveStep ==
  ASSUME NEW r \in Runs, TypeOK, OneHolder', UNCHANGED <<exists, view, cid>>,
         \A s \in Runs \ {r} : pc'[s] = pc[s],
         pc[r] \in DoneSteps => pc'[r] \in DoneSteps,
         pc'[r] \in DoneSteps => pc[r] \in TriggerSteps \union DoneSteps
  PROVE  Lock!Next \/ UNCHANGED <<Claims, Kept>>
<1>0. First(r) \in Jobs
  BY FirstIsJob
<1>1. Synchronised(r)' <=> Synchronised(r)
  <2>1. First(r)' = First(r)
    BY FirstUnchanged
  <2> QED
    BY <2>1 DEF Synchronised
<1>2. CASE ~ Held(r) /\ Held(r)'
  <2>1. ~ Done(r)'
    BY <1>1, <1>2 DEF Held, Done, Holder
  <2> QED
    BY <1>0, <1>2, <2>1, AcquireStep DEF Lock!Next
<1>3. CASE Held(r) /\ ~ Held(r)'
  <2>1. ~ Done(r)
    BY <1>1, <1>3 DEF Held, Done, Holder
  <2> QED
    BY <1>0, <1>3, <2>1, GiveUpStep DEF Lock!Next
<1>4. CASE Held(r) /\ Held(r)' /\ ~ Done(r) /\ Done(r)'
  BY <1>0, <1>4, KeepStep DEF Lock!Next
<1>5. CASE (Held(r)' <=> Held(r)) /\ (Held(r) => (Done(r)' <=> Done(r)))
  BY <1>5, QuietClaims
<1>6. Done(r) => Done(r)'
  BY DEF Done
<1> QED
  BY <1>2, <1>3, <1>4, <1>5, <1>6

\* Every step of the runs and of openQA is a step of the lock or a stutter.
LEMMA NextImplementsLock ==
  TypeOK /\ LockInv /\ OneHolder' /\ [Next]_vars => [Lock!Next]_<<Claims, Kept>>
<1> SUFFICES ASSUME TypeOK, LockInv, OneHolder', [Next]_vars
             PROVE  Lock!Next \/ UNCHANGED <<Claims, Kept>>
  OBVIOUS
<1> USE DEF TriggerSteps, DoneSteps
<1>1. ASSUME NEW r \in Runs,
             GetJob(r) \/ Postpone(r) \/ ListComments(r) \/ Yield(r)
               \/ GetInvestigation(r) \/ ReportFailure(r) \/ Finalize(r)
               \/ Repost(r) \/ RetryHook(r) \/ Crash(r)
      PROVE  Lock!Next \/ UNCHANGED <<Claims, Kept>>
  <2>1. UNCHANGED <<exists, view, cid>> /\ (\A s \in Runs \ {r} : pc'[s] = pc[s])
    BY <1>1 DEF TypeOK, GetJob, Postpone, ListComments, Yield, GetInvestigation,
                ReportFailure, Finalize, Repost, RetryHook, Crash, Goto, jobVars
  <2>2. /\ pc[r] \in DoneSteps => pc'[r] \in DoneSteps
        /\ pc'[r] \in DoneSteps => pc[r] \in TriggerSteps \union DoneSteps
    BY <1>1 DEF TypeOK, GetJob, Postpone, ListComments, Yield, GetInvestigation,
                ReportFailure, Finalize, Repost, RetryHook, Crash, Goto, Ended,
                Outcomes
  <2> QED
    BY <2>1, <2>2, MoveStep
<1>2. ASSUME NEW r \in Runs, TriggerRetry(r) \/ TriggerRegression(r)
      PROVE  Lock!Next \/ UNCHANGED <<Claims, Kept>>
  <2>1. PICK k, next, rest : /\ CloneJob(r, k, next, rest)
                             /\ next \in TriggerSteps /\ pc[r] \in TriggerSteps
    BY <1>2 DEF TriggerRetry, TriggerRegression
  <2>2. UNCHANGED <<exists, view, cid>> /\ (\A s \in Runs \ {r} : pc'[s] = pc[s])
    BY <2>1 DEF TypeOK, CloneJob, CloneRefused, CloneMade, CloneGone,
                CloneLeftOut, CloneFails, Goto, jobVars
  <2>3. pc[r] \notin DoneSteps
    BY <2>1
  <2> QED
    BY <2>1, <2>2, <2>3, MoveStep
<1>3. ASSUME NEW r \in Runs, Enter(r)
      PROVE  Lock!Next \/ UNCHANGED <<Claims, Kept>>
  <2>1. /\ UNCHANGED <<exists, cid>>
        /\ \A s \in Runs \ {r} : pc'[s] = pc[s] /\ view'[s] = view[s]
        /\ pc[r] = "deps" /\ pc'[r] \in {"nothing", "post"}
    BY <1>3 DEF TypeOK, Enter, Goto, jobVars
  <2>2. ~ Held(r) /\ ~ Held(r)'
    BY <2>1 DEF Held, Holder
  <2> QED
    BY <2>1, <2>2, QuietClaims
<1>4. ASSUME NEW r \in Runs, PostStarting(r)
      PROVE  Lock!Next \/ UNCHANGED <<Claims, Kept>>
  <2>1. /\ UNCHANGED <<exists, view>>
        /\ \A s \in Runs \ {r} : pc'[s] = pc[s] /\ cid'[s] = cid[s]
        /\ pc[r] = "post"
        /\ pc'[r] = "list" \/ (pc'[r] = "retry" /\ cid'[r] = cid[r])
    BY <1>4 DEF TypeOK, PostStarting, Goto, jobVars
  <2>2. cid[r] = 0
    BY <2>1 DEF LockInv, FreshIds, EarlySteps
  <2>3. ~ Held(r) /\ ~ Held(r)'
    BY <2>1, <2>2 DEF Held, Holder, Synchronised
  <2> QED
    BY <2>1, <2>3, QuietClaims
<1>5. ASSUME NEW j \in Jobs, FinishJob(j) \/ RestartJob(j)
      PROVE  Lock!Next \/ UNCHANGED <<Claims, Kept>>
  <2>1. UNCHANGED <<exists, pc, view, cid>>
    BY <1>5 DEF FinishJob, RestartJob
  <2> QED
    BY <2>1 DEF Claims, Kept, Holder, Synchronised, First
<1>6. ASSUME NEW j \in Jobs, DeleteJob(j)
      PROVE  Lock!Next \/ UNCHANGED <<Claims, Kept>>
  BY <1>6, VanishStep DEF Lock!Next
<1>7. CASE UNCHANGED vars
  <2>1. UNCHANGED <<exists, pc, view, cid>>
    BY <1>7 DEF vars
  <2> QED
    BY <2>1 DEF Claims, Kept, Holder, Synchronised, First
<1> QED
  BY <1>1, <1>2, <1>3, <1>4, <1>5, <1>6, <1>7 DEF Next, Step, AllEnded

LEMMA InitImplementsLock == Init => Lock!Init
<1> SUFFICES ASSUME Init PROVE Lock!Init
  OBVIOUS
<1>1. \A r \in Runs : ~ Held(r)
  BY DEF Init, Held, Holder, TriggerSteps, DoneSteps
<1>2. Claims = {} /\ Kept = {}
  BY <1>1, ClaimMembers
<1> QED
  BY <1>2 DEF Lock!Init

\* openqa-investigate implements ClusterLock (sync_via_investigation_comment,
\* finalize_investigation_comment): the claims of its synchronised holders are
\* acquired one at a time per job, given up or kept for good, and vanish with
\* the job only.
THEOREM InvestigateImplementsLock == Spec => ImplementsLock
<1>1. Init => Lock!Init
  BY InitImplementsLock
<1>2. Init => TypeOK /\ LockInv
  BY InitTypeOK, InitLockInv
<1>3. (TypeOK /\ LockInv) /\ [Next]_vars => (TypeOK /\ LockInv)'
  BY NextTypeOK, NextLockInv
<1>4. TypeOK /\ LockInv => OneHolder
  BY LockInvGivesOneHolder
<1>5. (TypeOK /\ LockInv) /\ OneHolder' /\ [Next]_vars => [Lock!Next]_<<Claims, Kept>>
  BY NextImplementsLock
<1> QED
  BY <1>1, <1>2, <1>3, <1>4, <1>5, PTL DEF Spec, ImplementsLock, Lock!Spec

----------------------------------------------------------------------------
\* How runs end: a run that ends in order leaves no "Starting" comment with its
\* id behind.  The argument needs one more step than the fact itself: between
\* the rewritten comment and its copy the run has not ended yet.  The comments
\* that have not the id of their run follow at the end of this module.


\* The places after which a run's own comment is no announcement any more.
Cleared == (Outcomes \ {"aborted", "crashed"}) \union {"repost"}
ClearedInv ==
  \A s \in Runs : pc[s] \in Cleared =>
    \A c \in comments : c.id = cid[s] => c.kind # "starting"

\* A step of a run r keeps what is known of the other runs when it announces
\* nothing in the name of an existing comment.
LEMMA ClearedStep ==
  ASSUME TypeOK, FreshIds, ClearedInv, NEW r \in Runs,
         \A s \in Runs \ {r} : pc'[s] = pc[s] /\ cid'[s] = cid[s],
         \A c \in comments' :
           \/ c.id >= nextId
           \/ \E d \in comments : d.id = c.id /\ (c.kind = "starting" => d.kind = "starting"),
         pc'[r] \in Cleared => \A c \in comments' : c.id = cid'[r] => c.kind # "starting"
  PROVE  ClearedInv'
<1> SUFFICES ASSUME NEW s \in Runs, pc'[s] \in Cleared, s # r,
                    NEW c \in comments', c.id = cid'[s], c.kind = "starting"
             PROVE  FALSE
  BY DEF ClearedInv
<1>1. pc[s] \in Cleared /\ cid[s] = c.id
  OBVIOUS
<1>2. cid[s] < nextId /\ cid[s] \in Nat /\ nextId \in Nat
  BY DEF FreshIds, TypeOK
<1>3. PICK d \in comments : d.id = c.id /\ d.kind = "starting"
  BY <1>1, <1>2
<1> QED
  BY <1>1, <1>3 DEF ClearedInv

\* Nobody's comment has the id 0, which stands for none.
LEMMA NoComment ==
  ASSUME TypeOK
  PROVE  \A c \in comments : c.id # 0
  BY DEF TypeOK, CommentRecords

\* The steps of a run that touch no comment and do not end it in order.
LEMMA SilentStep ==
  ASSUME TypeOK, FreshIds, ClearedInv, NEW r \in Runs, UNCHANGED <<comments, cid>>,
         \A s \in Runs \ {r} : pc'[s] = pc[s],
         pc'[r] \in Cleared => pc[r] \in Cleared \union EarlySteps
  PROVE  ClearedInv'
<1>1. pc[r] \in EarlySteps => cid[r] = 0
  BY DEF FreshIds
<1>2. pc'[r] \in Cleared => \A c \in comments : c.id = cid[r] => c.kind # "starting"
  BY <1>1, NoComment DEF ClearedInv
<1> QED
  BY <1>2, ClearedStep

LEMMA CloneCleared ==
  ASSUME TypeOK, FreshIds, ClearedInv, NEW r \in Runs, NEW k, NEW rest,
         NEW next \in {"ajax", "finish", "regress"}, CloneJob(r, k, next, rest)
  PROVE  ClearedInv'
<1>1. UNCHANGED <<comments, cid>> /\ \A s \in Runs \ {r} : pc'[s] = pc[s]
  BY DEF TypeOK, CloneJob, CloneRefused, CloneMade, CloneGone, CloneLeftOut, CloneFails,
         Goto, jobVars
<1>2. pc'[r] \in {next, "aborted", "failing"}
  BY DEF TypeOK, CloneJob, CloneRefused, CloneMade, CloneGone, CloneLeftOut, CloneFails,
         Goto
<1> QED
  BY <1>1, <1>2, SilentStep DEF Cleared, Outcomes

LEMMA NextClearedInv == TypeOK /\ FreshIds /\ ClearedInv /\ [Next]_vars => ClearedInv'
<1> SUFFICES ASSUME TypeOK, FreshIds, ClearedInv, [Next]_vars
             PROVE  ClearedInv'
  OBVIOUS
<1>1. ASSUME NEW r \in Runs, GetJob(r) \/ Postpone(r) \/ Enter(r) \/ RetryHook(r)
      PROVE  ClearedInv'
  <2>1. UNCHANGED <<comments, cid>> /\ \A s \in Runs \ {r} : pc'[s] = pc[s]
    BY <1>1 DEF TypeOK, GetJob, Postpone, Enter, RetryHook, Goto, jobVars
  <2>2. pc[r] \in EarlySteps
    BY <1>1 DEF GetJob, Postpone, Enter, RetryHook, EarlySteps
  <2> QED
    BY <2>1, <2>2, SilentStep
<1>2. ASSUME NEW r \in Runs, PostStarting(r)
      PROVE  ClearedInv'
  <2>1. \A s \in Runs \ {r} : pc'[s] = pc[s] /\ cid'[s] = cid[s]
    BY <1>2 DEF TypeOK, PostStarting, Goto
  <2>2. pc'[r] \notin Cleared
    BY <1>2 DEF TypeOK, PostStarting, Goto, Cleared, Outcomes
  <2>3. nextId \in Nat
    BY DEF TypeOK
  <2>4. \A c \in comments' : c.id >= nextId \/ c \in comments
    BY <1>2, <2>3 DEF PostStarting, Comment
  <2> QED
    BY <2>1, <2>2, <2>4, ClearedStep
<1>3. ASSUME NEW r \in Runs, ListComments(r) \/ GetInvestigation(r)
      PROVE  ClearedInv'
  <2>1. UNCHANGED <<comments, cid>> /\ \A s \in Runs \ {r} : pc'[s] = pc[s]
    BY <1>3 DEF TypeOK, ListComments, GetInvestigation, Goto, jobVars
  <2>2. pc'[r] \notin Cleared
    BY <1>3 DEF TypeOK, ListComments, GetInvestigation, Goto, Cleared, Outcomes
  <2> QED
    BY <2>1, <2>2, SilentStep
<1>4. ASSUME NEW r \in Runs, Yield(r)
      PROVE  ClearedInv'
  <2>1. /\ \A s \in Runs \ {r} : pc'[s] = pc[s] /\ cid'[s] = cid[s]
        /\ comments' = Without(cid[r]) /\ cid' = cid
    BY <1>4 DEF TypeOK, Yield, Goto
  <2>2. \A c \in comments' : c \in comments /\ c.id # cid'[r]
    BY <2>1 DEF Without
  <2> QED
    BY <2>1, <2>2, ClearedStep
<1>5. ASSUME NEW r \in Runs, TriggerRetry(r) \/ TriggerRegression(r)
      PROVE  ClearedInv'
  BY <1>5, CloneCleared DEF TriggerRetry, TriggerRegression
<1>6. ASSUME NEW r \in Runs, NEW k \in {"failed", "automatic"},
             UNCHANGED cid, \A s \in Runs \ {r} : pc'[s] = pc[s],
             comments' = Rewritten(cid[r], k)
      PROVE  ClearedInv'
  <2>1. \A c \in comments' : \E d \in comments :
          /\ d.id = c.id /\ (c.kind = "starting" => d.kind = "starting")
          /\ c.id = cid[r] => c.kind = k
    <3>1. \A d \in comments : d \in [id : Nat \ {0}, job : Jobs, kind : CommentKinds, by : Runs]
      BY DEF TypeOK, CommentRecords
    <3> SUFFICES ASSUME NEW d \in comments,
                        NEW c, c = IF d.id = cid[r] THEN [d EXCEPT !.kind = k] ELSE d
                 PROVE  /\ d.id = c.id /\ (c.kind = "starting" => d.kind = "starting")
                        /\ c.id = cid[r] => c.kind = k
      BY <1>6 DEF Rewritten
    <3> QED
      BY <3>1
  <2> QED
    BY <1>6, <2>1, ClearedStep
<1>7. ASSUME NEW r \in Runs, UNCHANGED <<comments, cid>>, cid[r] = 0,
             \A s \in Runs \ {r} : pc'[s] = pc[s]
      PROVE  ClearedInv'
  <2>1. \A c \in comments' : c.id # cid'[r]
    BY <1>7, NoComment
  <2> QED
    BY <1>7, <2>1, ClearedStep
<1>8. ASSUME NEW r \in Runs, ReportFailure(r)
      PROVE  ClearedInv'
  <2>1. UNCHANGED cid /\ \A s \in Runs \ {r} : pc'[s] = pc[s]
    BY <1>8 DEF TypeOK, ReportFailure, Goto
  <2>2. comments' = IF cid[r] # 0 THEN Rewritten(cid[r], "failed") ELSE comments
    BY <1>8 DEF ReportFailure
  <2> QED
    BY <1>6, <1>7, <2>1, <2>2
<1>9. ASSUME NEW r \in Runs, Finalize(r)
      PROVE  ClearedInv'
  <2>1. UNCHANGED cid /\ \A s \in Runs \ {r} : pc'[s] = pc[s]
    BY <1>9 DEF TypeOK, Finalize, Goto
  <2>2. CASE cid[r] = 0
    BY <1>7, <1>9, <2>1, <2>2 DEF Finalize
  <2>3. CASE cid[r] # 0 /\ r \notin lines
    <3>1. \A c \in comments' : c \in comments /\ c.id # cid'[r]
      BY <1>9, <2>1, <2>3 DEF Finalize, Without
    <3> QED
      BY <2>1, <3>1, ClearedStep
  <2>4. CASE cid[r] # 0 /\ r \in lines
    BY <1>6, <1>9, <2>1, <2>4 DEF Finalize
  <2> QED
    BY <2>2, <2>3, <2>4
<1>10. ASSUME NEW r \in Runs, Repost(r)
       PROVE  ClearedInv'
  <2>1. /\ UNCHANGED cid /\ \A s \in Runs \ {r} : pc'[s] = pc[s]
        /\ pc[r] \in Cleared
    BY <1>10 DEF TypeOK, Repost, Goto, Cleared
  <2>2. nextId \in Nat /\ cid[r] \in Nat /\ cid[r] < nextId
    BY DEF TypeOK, FreshIds
  <2>3. \A c \in comments' : c \in comments \/ (c.id = nextId /\ c.kind = "automatic")
    BY <1>10 DEF Repost, Comment
  <2>4. \A c \in comments' : c.id = cid'[r] => c.kind # "starting"
    BY <2>1, <2>2, <2>3 DEF ClearedInv
  <2>5. \A c \in comments' : c.id >= nextId \/ c \in comments
    BY <2>2, <2>3
  <2> QED
    BY <2>1, <2>4, <2>5, ClearedStep
<1>11. ASSUME NEW r \in Runs, Crash(r)
       PROVE  ClearedInv'
  <2>1. UNCHANGED <<comments, cid>> /\ \A s \in Runs \ {r} : pc'[s] = pc[s]
    BY <1>11 DEF TypeOK, Crash, Goto
  <2>2. pc'[r] \in Cleared => pc[r] = "repost"
    BY <1>11 DEF TypeOK, Crash, Goto, Cleared, Outcomes
  <2> QED
    BY <2>1, <2>2, SilentStep DEF Cleared
<1>12. ASSUME NEW j \in Jobs, FinishJob(j) \/ RestartJob(j) \/ DeleteJob(j)
       PROVE  ClearedInv'
  <2>1. UNCHANGED <<pc, cid>> /\ \A c \in comments' : c \in comments
    BY <1>12 DEF FinishJob, RestartJob, DeleteJob
  <2> QED
    BY <2>1 DEF ClearedInv
<1>13. CASE UNCHANGED vars
  BY <1>13 DEF ClearedInv, vars
<1> QED
  BY <1>1, <1>2, <1>3, <1>4, <1>5, <1>8, <1>9, <1>10, <1>11, <1>12, <1>13
     DEF Next, Step, AllEnded

----------------------------------------------------------------------------
\* What runs wait for and leave behind: nothing is triggered while the cluster
\* runs, and the report of a run stays on the run's own job.  The report may be
\* the rewritten announcement or a copy of it; that nobody else removes it rests
\* on every run touching comments of its own only.


\* A run's id is the id of a comment the run has posted.
OwnBy == \A s \in Runs : \A c \in comments : c.id = cid[s] => c.by = s
IsReport(c, s) == c.job = JobOf[s] /\ c.kind = "automatic" /\ c.by = s
ReportInv == OwnBy /\ ReportReachesOrigin

\* A step of a run r that posts only in its own name keeps OwnBy.
LEMMA OwnByStep ==
  ASSUME TypeOK, FreshIds, OwnBy, NEW r \in Runs,
         \A s \in Runs \ {r} : cid'[s] = cid[s],
         cid'[r] = cid[r] \/ cid'[r] >= nextId,
         \A c \in comments' :
           \/ \E d \in comments : d.id = c.id /\ d.by = c.by
           \/ c.id >= nextId /\ c.by = r
  PROVE  OwnBy'
<1> SUFFICES ASSUME NEW s \in Runs, NEW c \in comments', c.id = cid'[s], c.by # s
             PROVE  FALSE
  BY DEF OwnBy
<1>1. nextId \in Nat /\ cid[s] \in Nat /\ cid[s] < nextId
  BY DEF TypeOK, FreshIds
<1>2. CASE s # r
  BY <1>1, <1>2 DEF OwnBy
<1>3. CASE s = r
  <2>1. PICK d \in comments : d.id = c.id /\ d.by = c.by
    BY <1>3
  <2>2. d.id \in Nat /\ d.id < nextId
    BY DEF TypeOK, FreshIds, CommentRecords
  <2> QED
    BY <1>1, <1>3, <2>1, <2>2 DEF OwnBy
<1> QED
  BY <1>2, <1>3

\* A step of a run r that leaves the comments of the other runs alone keeps
\* their reports.
LEMMA ReportStep ==
  ASSUME ReportReachesOrigin, NEW r \in Runs,
         \A s \in Runs \ {r} : pc'[s] = pc[s] /\ cid'[s] = cid[s],
         exists' = exists,
         \A c \in comments : c.by # r => c \in comments',
         /\ pc'[r] = "investigated" /\ cid'[r] # 0 /\ JobOf[r] \in exists
         => \E c \in comments' : IsReport(c, r)
  PROVE  ReportReachesOrigin'
<1> SUFFICES ASSUME NEW s \in Runs, pc'[s] = "investigated", cid'[s] # 0,
                    JobOf[s] \in exists
             PROVE  \E c \in comments' : IsReport(c, s)
  BY DEF ReportReachesOrigin, IsReport
<1>1. CASE s = r
  BY <1>1
<1>2. CASE s # r
  <2>1. PICK c \in comments : IsReport(c, s)
    BY <1>2 DEF ReportReachesOrigin, IsReport
  <2> QED
    BY <1>2, <2>1 DEF IsReport
<1> QED
  BY <1>1, <1>2

\* A step that changes neither comments nor ids, and reports nothing.
LEMMA PlainStep ==
  ASSUME TypeOK, FreshIds, ReportInv, NEW r \in Runs,
         UNCHANGED <<comments, cid, exists>>,
         \A s \in Runs \ {r} : pc'[s] = pc[s],
         pc'[r] # "investigated" \/ cid[r] = 0
  PROVE  ReportInv'
<1>1. OwnBy'
  BY OwnByStep DEF ReportInv
<1>2. ReportReachesOrigin'
  BY ReportStep DEF ReportInv
<1> QED
  BY <1>1, <1>2 DEF ReportInv

LEMMA CloneReport ==
  ASSUME TypeOK, FreshIds, ReportInv, NEW r \in Runs, NEW k, NEW rest,
         NEW next \in {"ajax", "finish", "regress"}, CloneJob(r, k, next, rest)
  PROVE  ReportInv'
<1>1. UNCHANGED <<comments, cid, exists>> /\ \A s \in Runs \ {r} : pc'[s] = pc[s]
  BY DEF TypeOK, CloneJob, CloneRefused, CloneMade, CloneGone, CloneLeftOut, CloneFails,
         Goto, jobVars
<1>2. pc'[r] \in {next, "aborted", "failing"}
  BY DEF TypeOK, CloneJob, CloneRefused, CloneMade, CloneGone, CloneLeftOut, CloneFails,
         Goto
<1> QED
  BY <1>1, <1>2, PlainStep

\* Removing or rewriting the comment with a run's id touches that run's comment.
LEMMA OwnCommentOnly ==
  ASSUME TypeOK, OwnBy, NEW r \in Runs
  PROVE  /\ \A c \in comments : c.by # r => c \in Without(cid[r])
         /\ \A c \in Without(cid[r]) : c \in comments
         /\ \A k \in CommentKinds : \A c \in comments :
              c.by # r => c \in Rewritten(cid[r], k)
         /\ \A k \in CommentKinds : \A c \in Rewritten(cid[r], k) :
              \E d \in comments : d.id = c.id /\ d.by = c.by
         /\ \A c \in comments : c.id = cid[r] =>
              \E d \in Rewritten(cid[r], "automatic") :
                d.job = c.job /\ d.kind = "automatic" /\ d.by = r
<1>1. \A c \in comments :
        c \in [id : Nat \ {0}, job : Jobs, kind : CommentKinds, by : Runs]
  BY DEF TypeOK, CommentRecords
<1>2. \A c \in comments : c.by # r => c.id # cid[r]
  BY DEF OwnBy
<1>3. \A k : \A c \in comments : c.by # r => c \in Rewritten(cid[r], k)
  BY <1>2 DEF Rewritten
<1>4. \A k : \A c \in Rewritten(cid[r], k) : \E d \in comments : d.id = c.id /\ d.by = c.by
  BY <1>1 DEF Rewritten
<1>5. ASSUME NEW c \in comments, c.id = cid[r]
      PROVE  \E d \in Rewritten(cid[r], "automatic") :
               d.job = c.job /\ d.kind = "automatic" /\ d.by = r
  <2>1. [c EXCEPT !.kind = "automatic"] \in Rewritten(cid[r], "automatic")
    BY <1>5 DEF Rewritten
  <2>2. c.by = r
    BY <1>5 DEF OwnBy
  <2> QED
    BY <1>1, <2>1, <2>2
<1> QED
  BY <1>2, <1>3, <1>4, <1>5 DEF Without

LEMMA PostStartingReport ==
  ASSUME TypeOK, FreshIds, ReportInv, NEW r \in Runs, PostStarting(r)
  PROVE  ReportInv'
<1>1. /\ \A s \in Runs \ {r} : pc'[s] = pc[s] /\ cid'[s] = cid[s]
      /\ exists' = exists /\ pc'[r] # "investigated"
  BY DEF TypeOK, PostStarting, Goto, jobVars
<1>2. nextId \in Nat
  BY DEF TypeOK
<1>3. cid'[r] = cid[r] \/ cid'[r] >= nextId
  BY <1>2 DEF TypeOK, PostStarting
<1>4. /\ \A c \in comments' : c \in comments \/ (c.id >= nextId /\ c.by = r)
      /\ \A c \in comments : c \in comments'
  BY <1>2 DEF PostStarting, Comment
<1>5. OwnBy'
  BY <1>1, <1>3, <1>4, OwnByStep DEF ReportInv
<1>6. ReportReachesOrigin'
  BY <1>1, <1>4, ReportStep DEF ReportInv
<1> QED
  BY <1>5, <1>6 DEF ReportInv

LEMMA FinalizeReport ==
  ASSUME TypeOK, FreshIds, CommentStands, ReportInv, NEW r \in Runs, Finalize(r)
  PROVE  ReportInv'
<1>1. /\ UNCHANGED <<cid, exists>> /\ pc[r] = "finish"
      /\ \A s \in Runs \ {r} : pc'[s] = pc[s]
  BY DEF TypeOK, Finalize, Goto, jobVars
<1>2. CASE cid[r] = 0
  BY <1>1, <1>2, PlainStep DEF Finalize
<1>3. CASE cid[r] # 0 /\ r \notin lines
  <2>1. comments' = Without(cid[r]) /\ pc'[r] = "nothing"
    BY <1>3 DEF TypeOK, Finalize, Goto
  <2>2. OwnBy'
    BY <1>1, <2>1, OwnCommentOnly, OwnByStep DEF ReportInv
  <2>3. ReportReachesOrigin'
    BY <1>1, <2>1, OwnCommentOnly, ReportStep DEF ReportInv
  <2> QED
    BY <2>2, <2>3 DEF ReportInv
<1>4. CASE cid[r] # 0 /\ r \in lines
  <2>1. /\ comments' = Rewritten(cid[r], "automatic")
        /\ pc'[r] = "investigated" => First(r) = JobOf[r]
    BY <1>4 DEF TypeOK, Finalize, Goto
  <2>2. "automatic" \in CommentKinds
    BY DEF CommentKinds
  <2>3. OwnBy'
    BY <1>1, <2>1, <2>2, OwnCommentOnly, OwnByStep DEF ReportInv
  <2>4. ASSUME pc'[r] = "investigated", JobOf[r] \in exists
        PROVE  \E c \in comments' : IsReport(c, r)
    <3>1. pc[r] \in StandingSteps
      BY <1>1 DEF StandingSteps, AnnouncedSteps, TriggerSteps
    <3>2. PICK c \in InvestigationCommentsOn(First(r)) : c.id = cid[r]
      BY <1>4, <2>1, <2>4, <3>1 DEF CommentStands
    <3>3. c \in comments /\ c.job = JobOf[r]
      BY <2>1, <2>4, <3>2 DEF InvestigationCommentsOn
    <3> QED
      BY <2>1, <3>2, <3>3, OwnCommentOnly DEF ReportInv, IsReport
  <2>5. ReportReachesOrigin'
    BY <1>1, <2>1, <2>2, <2>4, OwnCommentOnly, ReportStep DEF ReportInv
  <2> QED
    BY <2>3, <2>5 DEF ReportInv
<1> QED
  BY <1>2, <1>3, <1>4

LEMMA RepostReport ==
  ASSUME TypeOK, FreshIds, ReportInv, NEW r \in Runs, Repost(r)
  PROVE  ReportInv'
<1>1. /\ UNCHANGED <<cid, exists>> /\ \A s \in Runs \ {r} : pc'[s] = pc[s]
  BY DEF TypeOK, Repost, Goto, jobVars
<1>2. nextId \in Nat
  BY DEF TypeOK
<1>3. /\ \A c \in comments' : c \in comments \/ (c.id >= nextId /\ c.by = r)
      /\ \A c \in comments : c \in comments'
  BY <1>2 DEF Repost, Comment
<1>4. JobOf[r] \in exists => \E c \in comments' : IsReport(c, r)
  <2> SUFFICES ASSUME JobOf[r] \in exists
               PROVE  \E c \in comments' : IsReport(c, r)
    OBVIOUS
  <2>1. Comment(nextId, JobOf[r], "automatic", r) \in comments'
    BY DEF Repost
  <2>2. IsReport(Comment(nextId, JobOf[r], "automatic", r), r)
    BY DEF Comment, IsReport
  <2> QED
    BY <2>1, <2>2
<1>5. OwnBy'
  BY <1>1, <1>3, OwnByStep DEF ReportInv
<1>6. ReportReachesOrigin'
  BY <1>1, <1>3, <1>4, ReportStep DEF ReportInv
<1> QED
  BY <1>5, <1>6 DEF ReportInv

LEMMA NextReportInv ==
  TypeOK /\ FreshIds /\ CommentStands /\ ReportInv /\ [Next]_vars => ReportInv'
<1> SUFFICES ASSUME TypeOK, FreshIds, CommentStands, ReportInv, [Next]_vars
             PROVE  ReportInv'
  OBVIOUS
<1>1. ASSUME NEW r \in Runs,
             GetJob(r) \/ Postpone(r) \/ Enter(r) \/ RetryHook(r) \/ ListComments(r)
               \/ GetInvestigation(r) \/ Crash(r)
      PROVE  ReportInv'
  <2>1. /\ UNCHANGED <<comments, cid, exists>> /\ \A s \in Runs \ {r} : pc'[s] = pc[s]
        /\ pc'[r] # "investigated"
    BY <1>1 DEF TypeOK, GetJob, Postpone, Enter, RetryHook, ListComments, GetInvestigation,
                Crash, Goto, jobVars
  <2> QED
    BY <2>1, PlainStep
<1>2. ASSUME NEW r \in Runs, PostStarting(r)
      PROVE  ReportInv'
  BY <1>2, PostStartingReport
<1>3. ASSUME NEW r \in Runs, Yield(r)
      PROVE  ReportInv'
  <2>1. /\ UNCHANGED <<cid, exists>> /\ \A s \in Runs \ {r} : pc'[s] = pc[s]
        /\ comments' = Without(cid[r]) /\ pc'[r] = "skipped"
    BY <1>3 DEF TypeOK, Yield, Goto, jobVars
  <2>2. OwnBy'
    BY <2>1, OwnCommentOnly, OwnByStep DEF ReportInv
  <2>3. ReportReachesOrigin'
    BY <2>1, OwnCommentOnly, ReportStep DEF ReportInv
  <2> QED
    BY <2>2, <2>3 DEF ReportInv
<1>4. ASSUME NEW r \in Runs, TriggerRetry(r) \/ TriggerRegression(r)
      PROVE  ReportInv'
  BY <1>4, CloneReport DEF TriggerRetry, TriggerRegression
<1>5. ASSUME NEW r \in Runs, ReportFailure(r)
      PROVE  ReportInv'
  <2>1. /\ UNCHANGED <<cid, exists>> /\ \A s \in Runs \ {r} : pc'[s] = pc[s]
        /\ comments' = IF cid[r] # 0 THEN Rewritten(cid[r], "failed") ELSE comments
        /\ pc'[r] # "investigated"
    BY <1>5 DEF TypeOK, ReportFailure, Goto, jobVars
  <2>2. "failed" \in CommentKinds
    BY DEF CommentKinds
  <2>3. OwnBy'
    BY <2>1, <2>2, OwnCommentOnly, OwnByStep DEF ReportInv
  <2>4. ReportReachesOrigin'
    BY <2>1, <2>2, OwnCommentOnly, ReportStep DEF ReportInv
  <2> QED
    BY <2>3, <2>4 DEF ReportInv
<1>6. ASSUME NEW r \in Runs, Finalize(r)
      PROVE  ReportInv'
  BY <1>6, FinalizeReport
<1>7. ASSUME NEW r \in Runs, Repost(r)
      PROVE  ReportInv'
  BY <1>7, RepostReport
<1>8. ASSUME NEW j \in Jobs, FinishJob(j) \/ RestartJob(j)
      PROVE  ReportInv'
  BY <1>8 DEF FinishJob, RestartJob, ReportInv, OwnBy, ReportReachesOrigin
<1>9. ASSUME NEW j \in Jobs, DeleteJob(j)
      PROVE  ReportInv'
  BY <1>9 DEF DeleteJob, ReportInv, OwnBy, ReportReachesOrigin
<1>10. CASE UNCHANGED vars
  BY <1>10 DEF vars, ReportInv, OwnBy, ReportReachesOrigin
<1> QED
  BY <1>1, <1>2, <1>3, <1>4, <1>5, <1>6, <1>7, <1>8, <1>9, <1>10
     DEF Next, Step, AllEnded

\* finalize_investigation_comment: a run that ends as having investigated left
\* its report on its own job, whatever was rewritten, removed or deleted since.
THEOREM ReportReachesOriginAlways == Spec => []ReportReachesOrigin
<1>1. Init => TypeOK /\ LockInv /\ ReportInv
  <2>1. Init => ReportInv
    BY DEF Init, ReportInv, OwnBy, ReportReachesOrigin
  <2> QED
    BY <2>1, InitTypeOK, InitLockInv
<1>2. (TypeOK /\ LockInv /\ ReportInv) /\ [Next]_vars => (TypeOK /\ LockInv /\ ReportInv)'
  BY NextTypeOK, NextLockInv, NextReportInv DEF LockInv
<1>3. ReportInv => ReportReachesOrigin
  BY DEF ReportInv
<1> QED
  BY <1>1, <1>2, <1>3, PTL DEF Spec

\* What is known about the cluster from the dependency data on: jobs only end or
\* are deleted meanwhile.
WaitingSteps == {"post", "list", "yield"} \union TriggerSteps
WaitInv ==
  "nodata" \notin Faults =>
    \A s \in Runs : pc[s] \in WaitingSteps /\ JobOf[s] \in exists =>
      Cluster[JobOf[s]] \intersect exists \intersect pending = {}

\* A step of a run that has looked at its cluster before, or is about to end.
LEMMA WaitStep ==
  ASSUME WaitInv, NEW r \in Runs, UNCHANGED <<exists, pending>>,
         \A s \in Runs \ {r} : pc'[s] = pc[s],
         pc'[r] \in WaitingSteps => pc[r] \in WaitingSteps
  PROVE  WaitInv'
BY DEF WaitInv

LEMMA CloneWait ==
  ASSUME TypeOK, WaitInv, NEW r \in Runs, NEW k, NEW rest, pc[r] \in TriggerSteps,
         NEW next, CloneJob(r, k, next, rest)
  PROVE  WaitInv'
<1>1. UNCHANGED <<exists, pending>> /\ \A s \in Runs \ {r} : pc'[s] = pc[s]
  BY DEF TypeOK, CloneJob, CloneRefused, CloneMade, CloneGone, CloneLeftOut, CloneFails,
         Goto, jobVars
<1> QED
  BY <1>1, WaitStep DEF WaitingSteps

LEMMA NextWaitInv == TypeOK /\ WaitInv /\ [Next]_vars => WaitInv'
<1> SUFFICES ASSUME TypeOK, WaitInv, [Next]_vars
             PROVE  WaitInv'
  OBVIOUS
<1>1. ASSUME NEW r \in Runs, Enter(r)
      PROVE  WaitInv'
  <2>1. UNCHANGED <<exists, pending>> /\ \A s \in Runs \ {r} : pc'[s] = pc[s]
    BY <1>1 DEF TypeOK, Enter, Goto, jobVars
  <2>2. "nodata" \notin Faults /\ JobOf[r] \in exists =>
          Cluster[JobOf[r]] \intersect exists \intersect pending = {}
    BY <1>1 DEF Enter, ClusterNodes
  <2> QED
    BY <2>1, <2>2 DEF WaitInv
<1>2. ASSUME NEW r \in Runs, TriggerRetry(r) \/ TriggerRegression(r)
      PROVE  WaitInv'
  BY <1>2, CloneWait DEF TriggerRetry, TriggerRegression, TriggerSteps
<1>3. ASSUME NEW r \in Runs,
             GetJob(r) \/ Postpone(r) \/ PostStarting(r) \/ ListComments(r) \/ Yield(r)
               \/ GetInvestigation(r) \/ ReportFailure(r) \/ Finalize(r) \/ Repost(r)
               \/ RetryHook(r) \/ Crash(r)
      PROVE  WaitInv'
  <2>1. UNCHANGED <<exists, pending>> /\ \A s \in Runs \ {r} : pc'[s] = pc[s]
    BY <1>3 DEF TypeOK, GetJob, Postpone, PostStarting, ListComments, Yield,
                GetInvestigation, ReportFailure, Finalize, Repost, RetryHook, Crash,
                Goto, jobVars
  <2>2. pc'[r] \in WaitingSteps => pc[r] \in WaitingSteps
    BY <1>3 DEF TypeOK, GetJob, Postpone, PostStarting, ListComments, Yield,
                GetInvestigation, ReportFailure, Finalize, Repost, RetryHook, Crash,
                Goto, WaitingSteps, TriggerSteps
  <2> QED
    BY <2>1, <2>2, WaitStep
<1>4. ASSUME NEW j \in Jobs, FinishJob(j) \/ RestartJob(j) \/ DeleteJob(j)
      PROVE  WaitInv'
  <2>1. pc' = pc /\ exists' \subseteq exists /\ pending' \subseteq pending
    BY <1>4 DEF FinishJob, RestartJob, DeleteJob
  <2> QED
    BY <2>1 DEF WaitInv
<1>5. CASE UNCHANGED vars
  BY <1>5 DEF vars, WaitInv
<1> QED
  BY <1>1, <1>2, <1>3, <1>4, <1>5 DEF Next, Step, AllEnded

\* query_dependency_data_or_postpone: what a run triggers it triggers after the
\* end of every job of the cluster that openQA still has.
THEOREM WaitsForClusterAlways == Spec => []WaitsForCluster
<1>1. Init => TypeOK /\ WaitInv
  <2>1. Init => WaitInv
    BY DEF Init, WaitInv, WaitingSteps, TriggerSteps
  <2> QED
    BY <2>1, InitTypeOK
<1>2. (TypeOK /\ WaitInv) /\ [Next]_vars => (TypeOK /\ WaitInv)'
  BY NextTypeOK, NextWaitInv
<1>3. WaitInv => WaitsForCluster
  BY DEF WaitInv, WaitsForCluster, WaitingSteps
<1> QED
  BY <1>1, <1>2, <1>3, PTL DEF Spec

----------------------------------------------------------------------------
\* Who gives way to whom: a run gives way to one that had posted a comment on
\* the first job of its cluster before, or a copy of its report there.

\* Without a POST that is carried out twice, a comment is the one its run has
\* the id of, or the copy of its report.
ByOwner ==
  \A c \in comments :
    /\ cid[c.by] # 0
    /\ \/ c.id = cid[c.by] /\ c.job = First(c.by)
       \/ pc[c.by] = "investigated" /\ c.job = JobOf[c.by]
ReportOfPost == \A r \in Runs : pc[r] = "repost" => cid[r] # 0
ViewOfCluster == \A r \in Runs : view[r] \subseteq Cluster[JobOf[r]]

\* The run r stands before s on the first job of s.
Precedes(r, s) ==
  /\ Leader(r)
  /\ \/ First(r) = First(s) /\ cid[r] < cid[s]
     \/ JobOf[r] = First(s) /\ pc[r] = "investigated"
GivesWay ==
  \A s \in Runs : pc[s] \in {"yield", "skipped"} => \E r \in Runs : Precedes(r, s)

LeaderInv ==
  /\ ViewOfCluster
  /\ "repeat" \notin Faults => ByOwner /\ ReportOfPost /\ GivesWay

\* What a step of the runs can change: the step of one run, after which no other
\* is elsewhere; a run past its announcement keeps its id and its first job, and
\* one that has reported stays where it is.
LEMMA RunStep ==
  ASSUME TypeOK, [Next]_vars, NEW x \in Runs
  PROVE  /\ \A s \in Runs : pc'[x] # pc[x] /\ pc'[s] # pc[s] => s = x
         /\ pc[x] \notin EarlySteps =>
              cid'[x] = cid[x] /\ view'[x] = view[x]
         /\ pc[x] = "investigated" => pc'[x] = "investigated"
         /\ pc'[x] = "skipped" => pc[x] \in {"skipped", "yield"}
         /\ pc'[x] = "yield" => pc[x] = "yield" \/ ListComments(x)
         /\ pc'[x] = "repost" => pc[x] = "repost" \/ (cid[x] # 0 /\ pc[x] = "finish")
<1> DEFINE Moves(r) == /\ \A y \in Runs \ {r} : pc'[y] = pc[y]
                       /\ pc[r] \notin EarlySteps => UNCHANGED <<cid, view>>
                       /\ \A y \in Runs \ {r} : cid'[y] = cid[y] /\ view'[y] = view[y]
                       /\ pc[r] # "investigated"
                       /\ pc'[r] = "skipped" => pc[r] = "yield"
                       /\ pc'[r] = "yield" => ListComments(r)
                       /\ pc'[r] = "repost" => cid[r] # 0 /\ pc[r] = "finish"
<1>1. ASSUME NEW r \in Runs, GetJob(r) \/ Postpone(r) \/ RetryHook(r) PROVE Moves(r)
  BY <1>1 DEF GetJob, Postpone, RetryHook, Goto, TypeOK
<1>2. ASSUME NEW r \in Runs, Enter(r) \/ PostStarting(r) PROVE Moves(r)
  BY <1>2 DEF Enter, PostStarting, Goto, TypeOK, EarlySteps
<1>3. ASSUME NEW r \in Runs, ListComments(r) PROVE Moves(r)
  BY <1>3 DEF ListComments, Goto, TypeOK
<1>4. ASSUME NEW r \in Runs, Yield(r) \/ ReportFailure(r) \/ Repost(r) PROVE Moves(r)
  BY <1>4 DEF Yield, ReportFailure, Repost, Goto, TypeOK
<1>5. ASSUME NEW r \in Runs, NEW k, NEW next \in TriggerSteps, NEW rest,
             pc[r] \in TriggerSteps, CloneJob(r, k, next, rest)
      PROVE  Moves(r)
  BY <1>5 DEF CloneJob, CloneRefused, CloneMade, CloneGone, CloneLeftOut, CloneFails,
              Goto, TypeOK, TriggerSteps
<1>6. ASSUME NEW r \in Runs, TriggerRetry(r) \/ TriggerRegression(r) PROVE Moves(r)
  <2>1. {"retry", "ajax", "regress", "finish"} \subseteq TriggerSteps
    BY DEF TriggerSteps
  <2>2. CASE TriggerRetry(r)
    <3>1. pc[r] \in TriggerSteps /\ CloneJob(r, "retry", "ajax", <<>>)
      BY <2>1, <2>2 DEF TriggerRetry
    <3> QED
      BY <1>5, <2>1, <3>1
  <2>3. CASE TriggerRegression(r)
    <3>1. PICK next \in TriggerSteps :
            pc[r] \in TriggerSteps /\ CloneJob(r, Head(todo[r]), next, Tail(todo[r]))
      BY <2>1, <2>3 DEF TriggerRegression
    <3> QED
      BY <1>5, <3>1
  <2> QED
    BY <1>6, <2>2, <2>3
<1>7. ASSUME NEW r \in Runs, GetInvestigation(r) PROVE Moves(r)
  BY <1>7 DEF GetInvestigation, Goto, TypeOK
<1>8. ASSUME NEW r \in Runs, Finalize(r) PROVE Moves(r)
  BY <1>8 DEF Finalize, Goto, TypeOK
<1>9. ASSUME NEW r \in Runs, Crash(r) PROVE Moves(r)
  BY <1>9 DEF Crash, Goto, TypeOK, Ended, Outcomes
<1>10. ASSUME UNCHANGED <<pc, cid, view>> \/ \E r \in Runs : Moves(r)
       PROVE  /\ \A s \in Runs : pc'[x] # pc[x] /\ pc'[s] # pc[s] => s = x
              /\ pc[x] \notin EarlySteps =>
                   cid'[x] = cid[x] /\ view'[x] = view[x]
              /\ pc[x] = "investigated" => pc'[x] = "investigated"
              /\ pc'[x] = "skipped" => pc[x] \in {"skipped", "yield"}
              /\ pc'[x] = "yield" => pc[x] = "yield" \/ ListComments(x)
              /\ pc'[x] = "repost" => pc[x] = "repost" \/ (cid[x] # 0 /\ pc[x] = "finish")
  <2>1. CASE UNCHANGED <<pc, cid, view>>
    BY <2>1
  <2>2. ASSUME NEW r \in Runs, Moves(r), r = x
        PROVE  /\ pc[x] \notin EarlySteps => cid'[x] = cid[x] /\ view'[x] = view[x]
               /\ pc[x] # "investigated"
               /\ pc'[x] = "skipped" => pc[x] = "yield"
               /\ pc'[x] = "yield" => ListComments(x)
               /\ pc'[x] = "repost" => cid[x] # 0 /\ pc[x] = "finish"
               /\ \A s \in Runs : pc'[s] # pc[s] => s = x
    BY <2>2
  <2>3. ASSUME NEW r \in Runs, Moves(r), r # x
        PROVE  cid'[x] = cid[x] /\ view'[x] = view[x] /\ pc'[x] = pc[x]
    BY <2>3
  <2> QED
    BY <1>10, <2>1, <2>2, <2>3
<1> HIDE DEF Moves
<1>11. ASSUME NEW j \in Jobs, FinishJob(j) \/ RestartJob(j) \/ DeleteJob(j)
       PROVE  UNCHANGED <<pc, cid, view>>
  BY <1>11 DEF FinishJob, RestartJob, DeleteJob
<1>12. CASE UNCHANGED vars
  BY <1>10, <1>12 DEF vars
<1> QED
  BY <1>1, <1>2, <1>3, <1>4, <1>6, <1>7, <1>8, <1>9, <1>10, <1>11, <1>12
  DEF Next, Step, AllEnded

\* The comments after a step: those that were there, as far as their owner, id
\* and place go, and what the step's run posts in its own name.
LEMMA CommentsStep ==
  ASSUME TypeOK, FreshIds, ReportOfPost, "repeat" \notin Faults, [Next]_vars,
         NEW c \in comments'
  PROVE  \/ \E d \in comments : c.id = d.id /\ c.job = d.job /\ c.by = d.by
         \/ /\ c.by \in Runs /\ cid'[c.by] # 0
            /\ \/ c.id = cid'[c.by] /\ c.job = First(c.by)'
               \/ pc'[c.by] = "investigated" /\ c.job = JobOf[c.by]
<1> DEFINE Old == \E d \in comments : c.id = d.id /\ c.job = d.job /\ c.by = d.by
           New == /\ c.by \in Runs /\ cid'[c.by] # 0
                  /\ \/ c.id = cid'[c.by] /\ c.job = First(c.by)'
                     \/ pc'[c.by] = "investigated" /\ c.job = JobOf[c.by]
<1> SUFFICES Old \/ New
  OBVIOUS
<1>1. CASE comments' \subseteq comments
  BY <1>1
<1>2. ASSUME NEW i, NEW k, comments' = Rewritten(i, k) PROVE Old
  <2>1. PICK d \in comments : c = IF d.id = i THEN [d EXCEPT !.kind = k] ELSE d
    BY <1>2 DEF Rewritten
  <2>2. d \in CommentRecords
    BY DEF TypeOK
  <2> QED
    BY <2>1, <2>2 DEF CommentRecords
<1>3. ASSUME NEW r \in Runs, ReportFailure(r) \/ Finalize(r) \/ Yield(r) PROVE Old
  <2>1. comments' \subseteq comments \/ \E k : comments' = Rewritten(cid[r], k)
    BY <1>3 DEF ReportFailure, Finalize, Yield, Without
  <2> QED
    BY <1>1, <1>2, <2>1
<1>4. ASSUME NEW r \in Runs, PostStarting(r) PROVE Old \/ New
  <2>1. CASE comments' = comments
    BY <1>1, <2>1
  <2>2. CASE /\ comments' = comments \union {Comment(nextId, First(r), "starting", r)}
             /\ cid' = [cid EXCEPT ![r] = nextId]
    <3>1. CASE c \in comments
      BY <3>1
    <3>2. CASE c = Comment(nextId, First(r), "starting", r)
      <4>1. c.by = r /\ c.id = nextId /\ c.job = First(r)
        BY <3>2 DEF Comment
      <4>2. cid'[r] = nextId /\ nextId # 0
        BY <2>2 DEF TypeOK
      <4>3. First(r)' = First(r)
        BY <1>4, FirstUnchanged DEF PostStarting
      <4> QED
        BY <4>1, <4>2, <4>3
    <3> QED
      BY <2>2, <3>1, <3>2
  <2> QED
    BY <1>4, <2>1, <2>2 DEF PostStarting
<1>5. ASSUME NEW r \in Runs, Repost(r) PROVE Old \/ New
  <2>1. CASE c \in comments
    BY <2>1
  <2>2. CASE c \notin comments
    <3>1. c = Comment(nextId, JobOf[r], "automatic", r)
      BY <1>5, <2>2 DEF Repost
    <3>2. c.by = r /\ c.job = JobOf[r]
      BY <3>1 DEF Comment
    <3>3. pc'[r] = "investigated" /\ cid'[r] = cid[r] /\ cid[r] # 0
      BY <1>5 DEF Repost, Goto, TypeOK, ReportOfPost
    <3> QED
      BY <3>2, <3>3
  <2> QED
    BY <2>1, <2>2
<1>6. ASSUME NEW r \in Runs, TriggerRetry(r) \/ TriggerRegression(r) PROVE comments' = comments
  BY <1>6 DEF TriggerRetry, TriggerRegression, CloneJob
<1>7. ASSUME NEW r \in Runs, \/ GetJob(r) \/ Postpone(r) \/ Enter(r) \/ ListComments(r)
                            \/ GetInvestigation(r) \/ RetryHook(r) \/ Crash(r)
      PROVE  comments' = comments
  BY <1>7 DEF GetJob, Postpone, Enter, ListComments, GetInvestigation, RetryHook, Crash
<1>8. ASSUME NEW j \in Jobs, FinishJob(j) \/ RestartJob(j) \/ DeleteJob(j)
      PROVE  comments' \subseteq comments
  BY <1>8 DEF FinishJob, RestartJob, DeleteJob
<1>9. CASE UNCHANGED vars
  BY <1>1, <1>9 DEF vars
<1> QED
  BY <1>1, <1>3, <1>4, <1>5, <1>6, <1>7, <1>8, <1>9 DEF Next, Step, AllEnded

\* A comment stays its owner's (PostStarting, Repost).
LEMMA NextByOwner ==
  ASSUME TypeOK, FreshIds, ReportOfPost, ByOwner, "repeat" \notin Faults, [Next]_vars
  PROVE  ByOwner'
<1> SUFFICES ASSUME NEW c \in comments'
             PROVE  /\ cid'[c.by] # 0
                    /\ \/ c.id = cid'[c.by] /\ c.job = First(c.by)'
                       \/ pc'[c.by] = "investigated" /\ c.job = JobOf[c.by]
  BY DEF ByOwner
<1>1. ASSUME NEW d \in comments, c.id = d.id, c.job = d.job, c.by = d.by
      PROVE  /\ cid'[c.by] # 0
             /\ \/ c.id = cid'[c.by] /\ c.job = First(c.by)'
                \/ pc'[c.by] = "investigated" /\ c.job = JobOf[c.by]
  <2>1. PICK x \in Runs : x = d.by
    BY DEF TypeOK, CommentRecords
  <2>2. cid[x] # 0 /\ pc[x] \notin EarlySteps
    BY <2>1 DEF ByOwner, FreshIds
  <2>3. /\ cid'[x] = cid[x] /\ view'[x] = view[x]
        /\ pc[x] = "investigated" => pc'[x] = "investigated"
    BY <2>2, RunStep
  <2>4. First(x)' = First(x)
    BY <2>3, FirstUnchanged
  <2>5. \/ c.id = cid[x] /\ c.job = First(x)
        \/ pc[x] = "investigated" /\ c.job = JobOf[x]
    BY <1>1, <2>1 DEF ByOwner
  <2>6. /\ cid'[x] # 0
        /\ \/ c.id = cid'[x] /\ c.job = First(x)'
           \/ pc'[x] = "investigated" /\ c.job = JobOf[x]
    BY <2>2, <2>3, <2>4, <2>5
  <2>7. c.by = x
    BY <1>1, <2>1
  <2> QED
    BY <2>6, <2>7 DEF First
<1> QED
  BY <1>1, CommentsStep

\* MayProceed: a run that does not come first has one before it, and if that
\* one gives way too, the one it gives way to.
LEMMA Blocker ==
  ASSUME TypeOK, ByOwner, GivesWay, NEW s \in Runs,
         ListComments(s), pc'[s] = "yield"
  PROVE  \E r \in Runs : Precedes(r, s)
<1>1. PICK c \in comments : c.job = First(s) /\ ~ (cid[s] <= c.id)
  BY DEF ListComments, Goto, MayProceed, InvestigationCommentsOn, TypeOK
<1>2. PICK l \in Runs : l = c.by
  BY DEF TypeOK, CommentRecords
<1>3. /\ cid[l] # 0
      /\ \/ c.id = cid[l] /\ c.job = First(l)
         \/ pc[l] = "investigated" /\ c.job = JobOf[l]
  BY <1>2 DEF ByOwner
<1>4. \A x \in Runs : cid[x] \in Nat
  BY DEF TypeOK
<1>5. CASE pc[l] \notin {"yield", "skipped"}
  <2>1. \/ First(l) = First(s) /\ cid[l] < cid[s]
        \/ JobOf[l] = First(s) /\ pc[l] = "investigated"
    BY <1>1, <1>3, <1>4
  <2> QED
    BY <1>3, <1>5, <2>1 DEF Precedes, Leader
<1>6. CASE pc[l] \in {"yield", "skipped"}
  <2>1. First(l) = First(s) /\ cid[l] < cid[s]
    BY <1>1, <1>3, <1>4, <1>6
  <2>2. PICK r \in Runs : Precedes(r, l)
    BY <1>6 DEF GivesWay
  <2>3. \/ First(r) = First(s) /\ cid[r] < cid[s]
        \/ JobOf[r] = First(s) /\ pc[r] = "investigated"
    BY <1>4, <2>1, <2>2 DEF Precedes
  <2> QED
    BY <2>2, <2>3 DEF Precedes
<1> QED
  BY <1>5, <1>6

\* When the one before a run gives way as well, there is one before both.
LEMMA NextGivesWay ==
  ASSUME TypeOK, FreshIds, ByOwner, GivesWay, [Next]_vars
  PROVE  GivesWay'
<1> SUFFICES ASSUME NEW s \in Runs, pc'[s] \in {"yield", "skipped"}
             PROVE  \E r \in Runs : Precedes(r, s)'
  BY DEF GivesWay
<1>1. PICK r \in Runs : Precedes(r, s)
  <2>1. CASE pc[s] \in {"yield", "skipped"}
    BY <2>1 DEF GivesWay
  <2>2. CASE pc[s] \notin {"yield", "skipped"}
    <3>1. ListComments(s) /\ pc'[s] = "yield"
      BY <2>2, RunStep
    <3> QED
      BY <3>1, Blocker
  <2> QED
    BY <2>1, <2>2
<1>2. \A x \in Runs : pc[x] \notin EarlySteps => cid'[x] = cid[x] /\ First(x)' = First(x)
  BY RunStep, FirstUnchanged
<1>3. cid'[s] = cid[s] /\ First(s)' = First(s)
  <2>1. pc[s] \in {"yield", "skipped"} \/ ListComments(s)
    BY RunStep
  <2>2. pc[s] \notin EarlySteps
    BY <2>1 DEF EarlySteps, ListComments
  <2> QED
    BY <1>2, <2>2
<1>4. ASSUME NEW x \in Runs, Precedes(x, s), pc'[x] \notin {"yield", "skipped"}
      PROVE  Precedes(x, s)'
  <2>1. cid[x] # 0 /\ pc[x] \notin EarlySteps
    BY <1>4 DEF Precedes, Leader, FreshIds
  <2>2. /\ cid'[x] = cid[x] /\ First(x)' = First(x)
        /\ pc[x] = "investigated" => pc'[x] = "investigated"
    BY <1>2, <2>1, RunStep
  <2> QED
    BY <1>3, <1>4, <2>1, <2>2 DEF Precedes, Leader
<1>5. CASE pc'[r] \notin {"yield", "skipped"}
  BY <1>1, <1>4, <1>5
<1>6. CASE pc'[r] \in {"yield", "skipped"}
  <2>1. ListComments(r) /\ pc'[r] = "yield" /\ pc[r] = "list"
    BY <1>1, <1>6, RunStep DEF Precedes, Leader, ListComments
  <2>2. First(r) = First(s) /\ cid[r] < cid[s]
    BY <1>1, <2>1 DEF Precedes
  <2>3. PICK x \in Runs : Precedes(x, r)
    BY <2>1, Blocker
  <2>4. cid[x] \in Nat /\ cid[r] \in Nat /\ cid[s] \in Nat
    BY DEF TypeOK
  <2>5. Precedes(x, s) /\ x # r
    BY <2>1, <2>2, <2>3, <2>4 DEF Precedes
  <2>6. pc'[x] = pc[x]
    BY <2>1, <2>5, RunStep
  <2> QED
    BY <1>4, <2>5, <2>6 DEF Precedes, Leader
<1> QED
  BY <1>5, <1>6

LEMMA NextReportOfPost ==
  ASSUME TypeOK, ReportOfPost, [Next]_vars
  PROVE  ReportOfPost'
<1> SUFFICES ASSUME NEW r \in Runs, pc'[r] = "repost" PROVE cid'[r] # 0
  BY DEF ReportOfPost
<1>1. cid[r] # 0 /\ pc[r] \in {"repost", "finish"}
  BY RunStep DEF ReportOfPost
<1>2. pc[r] \notin EarlySteps
  BY <1>1 DEF EarlySteps
<1> QED
  BY <1>1, <1>2, RunStep

\* dependencies_ajax tells a run of no job outside its cluster.
LEMMA NextViewOfCluster ==
  ASSUME TypeOK, ViewOfCluster, [Next]_vars
  PROVE  ViewOfCluster'
<1>1. ASSUME NEW r \in Runs, Enter(r) PROVE ViewOfCluster'
  <2>1. JobOf[r] \in Cluster[JobOf[r]]
    BY ConstantsAssumption, ClusterAssumption
  <2>2. ClusterNodes(JobOf[r]) \subseteq Cluster[JobOf[r]]
    BY <2>1 DEF ClusterNodes
  <2>3. PICK v : v \subseteq Cluster[JobOf[r]] /\ view' = [view EXCEPT ![r] = v]
    BY <1>1, <2>1, <2>2 DEF Enter
  <2> QED
    BY <2>3 DEF ViewOfCluster, TypeOK
<1>2. ASSUME NEW r \in Runs, TriggerRetry(r) \/ TriggerRegression(r) PROVE view' = view
  BY <1>2 DEF TriggerRetry, TriggerRegression, CloneJob
<1>3. ASSUME NEW r \in Runs, \/ GetJob(r) \/ Postpone(r) \/ PostStarting(r) \/ ListComments(r)
                            \/ Yield(r) \/ GetInvestigation(r) \/ ReportFailure(r)
                            \/ Finalize(r) \/ Repost(r) \/ RetryHook(r) \/ Crash(r)
      PROVE  view' = view
  BY <1>3 DEF GetJob, Postpone, PostStarting, ListComments, Yield, GetInvestigation,
              ReportFailure, Finalize, Repost, RetryHook, Crash
<1>4. ASSUME NEW j \in Jobs, FinishJob(j) \/ RestartJob(j) \/ DeleteJob(j) PROVE view' = view
  BY <1>4 DEF FinishJob, RestartJob, DeleteJob
<1>5. CASE view' = view
  BY <1>5 DEF ViewOfCluster
<1>6. CASE UNCHANGED vars
  BY <1>5, <1>6 DEF vars
<1> QED
  BY <1>1, <1>2, <1>3, <1>4, <1>5, <1>6 DEF Next, Step, AllEnded

LEMMA InitLeaderInv == Init => LeaderInv
<1> SUFFICES ASSUME Init PROVE LeaderInv
  OBVIOUS
<1>1. ViewOfCluster
  <2>1. \A r \in Runs : JobOf[r] \in Cluster[JobOf[r]]
    BY ConstantsAssumption, ClusterAssumption
  <2>2. \A r \in Runs : view[r] = {JobOf[r]}
    BY DEF Init
  <2> QED
    BY <2>1, <2>2 DEF ViewOfCluster
<1>2. ByOwner /\ ReportOfPost /\ GivesWay
  BY DEF Init, ByOwner, ReportOfPost, GivesWay
<1> QED
  BY <1>1, <1>2 DEF LeaderInv

LEMMA NextLeaderInv == (TypeOK /\ FreshIds) /\ LeaderInv /\ [Next]_vars => LeaderInv'
<1> SUFFICES ASSUME TypeOK, FreshIds, LeaderInv, [Next]_vars PROVE LeaderInv'
  OBVIOUS
<1>1. ViewOfCluster'
  BY NextViewOfCluster DEF LeaderInv
<1>2. ASSUME "repeat" \notin Faults PROVE ByOwner' /\ ReportOfPost' /\ GivesWay'
  BY <1>2, NextByOwner, NextReportOfPost, NextGivesWay DEF LeaderInv
<1> QED
  BY <1>1, <1>2 DEF LeaderInv

\* The first job of two runs is a job of both clusters, which are one.
LEMMA LeaderInvGivesLeader ==
  ASSUME TypeOK, LeaderInv
  PROVE  SkipperHasLeader
<1> SUFFICES ASSUME "repeat" \notin Faults, NEW s \in Runs, pc[s] = "skipped"
             PROVE  \E r \in Runs : Leader(r) /\ JobOf[r] \in Cluster[JobOf[s]]
  BY DEF SkipperHasLeader
<1>1. PICK r \in Runs : Precedes(r, s)
  BY DEF LeaderInv, GivesWay
<1>2. First(r) \in Cluster[JobOf[r]] /\ First(s) \in Cluster[JobOf[s]]
  BY FirstInView DEF LeaderInv, ViewOfCluster
<1>3. JobOf[r] \in Jobs /\ JobOf[s] \in Jobs
  BY ConstantsAssumption
<1>4. CASE First(r) = First(s)
  <2>1. Cluster[JobOf[r]] = Cluster[JobOf[s]] /\ JobOf[r] \in Cluster[JobOf[r]]
    BY <1>2, <1>3, <1>4, ClusterAssumption
  <2> QED
    BY <1>1, <2>1 DEF Precedes
<1>5. CASE JobOf[r] = First(s)
  BY <1>1, <1>2, <1>5 DEF Precedes
<1> QED
  BY <1>1, <1>4, <1>5 DEF Precedes

\* sync_via_investigation_comment: whichever runs post, list and remove comments,
\* crash or report in between, the runs of a cluster never all give way to each
\* other.
THEOREM SkipperHasLeaderAlways == Spec => []SkipperHasLeader
<1>1. Init => (TypeOK /\ LockInv) /\ LeaderInv
  BY InitTypeOK, InitLockInv, InitLeaderInv
<1>2. (TypeOK /\ LockInv) /\ LeaderInv /\ [Next]_vars => ((TypeOK /\ LockInv) /\ LeaderInv)'
  BY NextTypeOK, NextLockInv, NextLeaderInv DEF LockInv
<1>3. TypeOK /\ LeaderInv => SkipperHasLeader
  BY LeaderInvGivesLeader
<1> QED
  BY <1>1, <1>2, <1>3, PTL DEF Spec

----------------------------------------------------------------------------
\* The other announcements: a "Starting" comment has the id of its run, or it is
\* the first of two, which no run that goes by the comments gets past.
Behind == {"list", "yield", "skipped", "crashed"}
StartInv ==
  \A c \in comments : c.kind = "starting" =>
    /\ c.job = First(c.by)
    /\ \/ c.id = cid[c.by]
       \/ /\ "repeat" \in Faults /\ c.id + 1 = cid[c.by]
          /\ pc[c.by] \in Behind \/ c.by \in Forced

\* An announcement was there before the step, or a run has just posted it.
Posted(c) ==
  \E r \in Runs :
    /\ c.by = r /\ c.job = First(r)' /\ pc'[r] = "list"
    /\ c.id = cid'[r] \/ ("repeat" \in Faults /\ c.id + 1 = cid'[r])

LEMMA StartingStep ==
  ASSUME TypeOK, [Next]_vars, NEW c \in comments', c.kind = "starting"
  PROVE  c \in comments \/ Posted(c)
<1>1. CASE comments' \subseteq comments
  BY <1>1
<1>2. ASSUME NEW i, NEW k, k # "starting", comments' = Rewritten(i, k)
      PROVE  c \in comments
  <2>1. PICK d \in comments : c = IF d.id = i THEN [d EXCEPT !.kind = k] ELSE d
    BY <1>2 DEF Rewritten
  <2>2. d \in [id : Nat \ {0}, job : Jobs, kind : CommentKinds, by : Runs]
    BY DEF TypeOK, CommentRecords
  <2> QED
    BY <1>2, <2>1, <2>2
<1>3. ASSUME NEW r \in Runs, ReportFailure(r) \/ Finalize(r) \/ Yield(r)
      PROVE  c \in comments
  <2>1. \/ comments' \subseteq comments
        \/ comments' = Rewritten(cid[r], "failed")
        \/ comments' = Rewritten(cid[r], "automatic")
    BY <1>3 DEF ReportFailure, Finalize, Yield, Without
  <2> QED
    BY <1>1, <1>2, <2>1
<1>4. ASSUME NEW r \in Runs, PostStarting(r), c \notin comments
      PROVE  Posted(c)
  <2>1. First(r)' = First(r) /\ nextId \in Nat
    BY <1>4, FirstUnchanged DEF PostStarting, TypeOK
  <2>2. pc'[r] = "list"
    BY <1>4 DEF PostStarting, Goto, TypeOK
  <2>3. \/ c = Comment(nextId, First(r), "starting", r) /\ cid'[r] = nextId
        \/ /\ "repeat" \in Faults /\ cid'[r] = nextId + 1
           /\ \/ c = Comment(nextId, First(r), "starting", r)
              \/ c = Comment(nextId + 1, First(r), "starting", r)
    BY <1>4 DEF PostStarting, TypeOK
  <2>4. /\ c.by = r /\ c.job = First(r)
        /\ c.id = cid'[r] \/ ("repeat" \in Faults /\ c.id + 1 = cid'[r])
    BY <2>3 DEF Comment
  <2> QED
    BY <2>1, <2>2, <2>4 DEF Posted
<1>5. ASSUME NEW r \in Runs, Repost(r) PROVE c \in comments
  BY <1>5 DEF Repost, Comment
<1>6. ASSUME NEW r \in Runs, TriggerRetry(r) \/ TriggerRegression(r) PROVE comments' = comments
  BY <1>6 DEF TriggerRetry, TriggerRegression, CloneJob
<1>7. ASSUME NEW r \in Runs, \/ GetJob(r) \/ Postpone(r) \/ Enter(r) \/ ListComments(r)
                            \/ GetInvestigation(r) \/ RetryHook(r) \/ Crash(r)
      PROVE  comments' = comments
  BY <1>7 DEF GetJob, Postpone, Enter, ListComments, GetInvestigation, RetryHook, Crash
<1>8. ASSUME NEW j \in Jobs, FinishJob(j) \/ RestartJob(j) \/ DeleteJob(j)
      PROVE  comments' \subseteq comments
  BY <1>8 DEF FinishJob, RestartJob, DeleteJob
<1>9. CASE UNCHANGED vars
  BY <1>1, <1>9 DEF vars
<1> QED
  BY <1>1, <1>3, <1>4, <1>5, <1>6, <1>7, <1>8, <1>9 DEF Next, Step, AllEnded

\* A run goes past the comments only by listing them (ListComments).
LEMMA BehindStep ==
  ASSUME TypeOK, [Next]_vars, NEW x \in Runs, pc[x] \in Behind
  PROVE  pc'[x] \in Behind \/ (ListComments(x) /\ MayProceed(x))
<1>1. ASSUME NEW r \in Runs, ListComments(r) PROVE pc'[x] \in Behind \/ (r = x /\ MayProceed(x))
  BY <1>1 DEF ListComments, Goto, TypeOK, Behind
<1>2. ASSUME NEW r \in Runs, \/ GetJob(r) \/ Postpone(r) \/ Enter(r) \/ PostStarting(r)
                            \/ Yield(r) \/ Crash(r) \/ RetryHook(r)
      PROVE  pc'[x] \in Behind
  BY <1>2 DEF GetJob, Postpone, Enter, PostStarting, Yield, Crash, RetryHook, Goto, TypeOK,
              Behind
<1>3. ASSUME NEW r \in Runs, \/ GetInvestigation(r) \/ ReportFailure(r) \/ Finalize(r)
                            \/ Repost(r)
      PROVE  pc'[x] \in Behind
  BY <1>3 DEF GetInvestigation, ReportFailure, Finalize, Repost, Goto, TypeOK, Behind
<1>4. ASSUME NEW r \in Runs, TriggerRetry(r) \/ TriggerRegression(r)
      PROVE  pc'[x] \in Behind
  BY <1>4 DEF TriggerRetry, TriggerRegression, CloneJob, CloneRefused, CloneMade, CloneGone,
              CloneLeftOut, CloneFails, Goto, TypeOK, Behind
<1>5. ASSUME NEW j \in Jobs, FinishJob(j) \/ RestartJob(j) \/ DeleteJob(j)
      PROVE  pc' = pc
  BY <1>5 DEF FinishJob, RestartJob, DeleteJob
<1>6. CASE UNCHANGED vars
  BY <1>6 DEF vars
<1> QED
  BY <1>1, <1>2, <1>3, <1>4, <1>5, <1>6 DEF Next, Step, AllEnded

LEMMA NextStartInv == (TypeOK /\ FreshIds) /\ StartInv /\ [Next]_vars => StartInv'
<1> SUFFICES ASSUME TypeOK, FreshIds, StartInv, [Next]_vars,
                    NEW c \in comments', c.kind = "starting"
             PROVE  /\ c.job = First(c.by)'
                    /\ \/ c.id = cid'[c.by]
                       \/ /\ "repeat" \in Faults /\ c.id + 1 = cid'[c.by]
                          /\ pc'[c.by] \in Behind \/ c.by \in Forced
  BY DEF StartInv, First
<1>1. CASE Posted(c)
  <2>1. PICK r \in Runs :
          /\ c.by = r /\ c.job = First(r)' /\ pc'[r] = "list"
          /\ c.id = cid'[r] \/ ("repeat" \in Faults /\ c.id + 1 = cid'[r])
    BY <1>1 DEF Posted
  <2> QED
    BY <2>1 DEF Behind, First
<1>2. CASE c \in comments
  <2>1. PICK x \in Runs : x = c.by
    BY <1>2 DEF TypeOK, CommentRecords
  <2>2. c.id \in Nat \ {0} /\ cid[x] \in Nat
    BY <1>2 DEF TypeOK, CommentRecords
  <2>3. /\ c.job = First(x)
        /\ \/ c.id = cid[x]
           \/ /\ "repeat" \in Faults /\ c.id + 1 = cid[x]
              /\ pc[x] \in Behind \/ x \in Forced
    BY <1>2, <2>1 DEF StartInv
  <2>4. pc[x] \notin EarlySteps
    BY <2>2, <2>3 DEF FreshIds
  <2>5. cid'[x] = cid[x] /\ First(x)' = First(x)
    BY <2>4, RunStep, FirstUnchanged
  <2>6. ASSUME c.id + 1 = cid[x], pc[x] \in Behind
        PROVE  pc'[x] \in Behind \/ x \in Forced
    <3>1. c \in InvestigationCommentsOn(First(x))
      BY <1>2, <2>3 DEF InvestigationCommentsOn, InvestigationKinds
    <3>2. ~ (cid[x] <= c.id)
      BY <2>2, <2>6
    <3>3. MayProceed(x) => x \in Forced
      BY <3>1, <3>2 DEF MayProceed
    <3> QED
      BY <2>6, <3>3, BehindStep
  <2>7. /\ c.job = First(x)'
        /\ \/ c.id = cid'[x]
           \/ /\ "repeat" \in Faults /\ c.id + 1 = cid'[x]
              /\ pc'[x] \in Behind \/ x \in Forced
    BY <2>3, <2>5, <2>6
  <2> QED
    BY <2>1, <2>7 DEF First
<1> QED
  BY <1>1, <1>2, StartingStep

\* run_investigation_logic: whatever the faults, an announcement outlives only a
\* run that was killed or left through typer.Exit while cloning, or is the first
\* of two of a POST that was carried out twice, by a run that gave way or was
\* forced.  Only these keep later runs of the cluster from investigating.
THEOREM OrderlyExitClearsStartingAlways == Spec => []OrderlyExitClearsStarting
<1> DEFINE Inv == (TypeOK /\ LockInv) /\ ClearedInv /\ StartInv
<1>1. Init => Inv
  <2>1. Init => ClearedInv /\ StartInv
    BY DEF Init, ClearedInv, StartInv
  <2> QED
    BY <2>1, InitTypeOK, InitLockInv
<1>2. Inv /\ [Next]_vars => Inv'
  BY NextTypeOK, NextLockInv, NextClearedInv, NextStartInv DEF LockInv
<1>3. Inv => OrderlyExitClearsStarting
  <2> SUFFICES ASSUME TypeOK, ClearedInv, StartInv, NEW c \in comments,
                      c.kind = "starting", Ended(c.by),
                      pc[c.by] \notin {"aborted", "crashed"}
               PROVE  /\ "repeat" \in Faults /\ c.id + 1 = cid[c.by]
                      /\ pc[c.by] = "skipped" \/ c.by \in Forced
    BY DEF OrderlyExitClearsStarting
  <2>1. c.by \in Runs
    BY DEF TypeOK, CommentRecords
  <2>2. pc[c.by] \in Cleared
    BY DEF Ended, Cleared
  <2>3. c.id # cid[c.by]
    BY <2>1, <2>2 DEF ClearedInv
  <2>4. pc[c.by] \in Behind => pc[c.by] = "skipped"
    BY DEF Ended, Outcomes, Behind
  <2> QED
    BY <2>3, <2>4 DEF StartInv
<1> HIDE DEF Inv
<1> QED
  BY <1>1, <1>2, <1>3, PTL DEF Spec
============================================================================
