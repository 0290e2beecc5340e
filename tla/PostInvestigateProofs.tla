----------------------- MODULE PostInvestigateProofs -----------------------
(***************************************************************************)
(* Theorems about PostInvestigate: for any number of investigations of the *)
(* origin, any changes, reasons and faults, a verdict rests on a completed *)
(* investigation, and no verdict names a wrong reason.                     *)
(***************************************************************************)
EXTENDS PostInvestigate, TLAPS, WellFoundedInduction, SequenceTheorems,
        FiniteSetTheorems

\* Only completed investigations are reported, each of them once.
ReportsInv ==
  /\ \A a \in DOMAIN reports : phase[reports[a]] = "reported"
  /\ \A a, b \in DOMAIN reports : reports[a] = reports[b] => a = b

\* A job that has ended has a result that its kind can have.
ResultInv(i) ==
  \A k \in Kinds : job[i][k] \in {"done", "deleted"} => result[i][k] \in ResultsOf(k)

\* The jobs of h that count were completed, and do not run any more.
Rests(h) ==
  /\ phase[h] = "reported"
  /\ \A k \in Listed(h) : job[h][k] \in {"done", "deleted"}

\* What the hook of the i-th retry knows: the verdict stays the one that the
\* results it rests on give.
VerdictInv(i) ==
  /\ pc[i] \notin {"post", "ended"} => used[i] = 0
  /\ pc[i] # "ended" => posted[i] = "none"
  /\ used[i] = 0 => verdict[i] \in {"none", "sporadic", "not sporadic"}
  /\ used[i] # 0 => /\ Rests(used[i])
                    /\ verdict[i] = IssueType(used[i], Listed(used[i]))
  /\ posted[i] \in {"none", verdict[i]}

IInv ==
  /\ TypeOK
  /\ ReportsInv
  /\ \A i \in Investigations : ResultInv(i) /\ VerdictInv(i)
-----------------------------------------------------------------------------
\* What is triggered for the changes.
LEMMA PlanFacts ==
  ASSUME NEW ch \in SUBSET Changes
  PROVE  Plan(ch) \in Seq(Kinds)
<1>1. /\ (IF "tests" \in ch THEN <<"tests">> ELSE <<>>) \in Seq(Kinds)
      /\ (IF "build" \in ch THEN <<"build">> ELSE <<>>) \in Seq(Kinds)
      /\ (IF ch = Changes /\ blank = {} THEN <<"both">> ELSE <<>>) \in Seq(Kinds)
  <2>1. <<>> \in Seq(Kinds) /\ \A k \in Kinds : <<k>> \in Seq(Kinds)
    OBVIOUS
  <2>2. "tests" \in Kinds /\ "build" \in Kinds /\ "both" \in Kinds
    BY DEF Kinds
  <2> QED
    BY <2>1, <2>2
<1> QED
  BY <1>1, ConcatProperties DEF Plan

\* A non-empty set of natural numbers has a least element.
LEMMA LeastElement ==
  ASSUME NEW T, T \subseteq Nat, T # {}
  PROVE  \E x \in T : \A y \in T : x <= y
<1> DEFINE R == OpToRel(<, Nat)
<1>1. IsWellFoundedOn(R, Nat)
  BY NatLessThanWellFounded
<1>2. \A x, y \in Nat : y < x => <<y, x>> \in R
  BY DEF OpToRel
<1> HIDE DEF R
<1>3. PICK x \in T : \A y \in T : ~ (<<y, x>> \in R)
  BY <1>1, WFMin
<1>4. \A y \in T : ~ (y < x) /\ x \in Nat /\ y \in Nat
  BY <1>2, <1>3
<1> QED
  BY <1>3, <1>4

\* _find_investigation_comment: what it finds is one of the reports.
LEMMA OldestIsReported ==
  ASSUME TypeOK, ReportsInv, reports # <<>>
  PROVE  Oldest \in Investigations /\ phase[Oldest] = "reported"
<1>1. /\ reports \in Seq(Investigations) /\ DOMAIN reports = 1..Len(reports)
      /\ Len(reports) \in Nat \ {0}
      /\ \A a \in DOMAIN reports : reports[a] \in Investigations
  BY LenProperties, ElementOfSeq, EmptySeq DEF TypeOK
<1>2. \E a \in DOMAIN reports : Oldest = reports[a]
  <2>1. CASE IsFirst
    <3>1. Range(reports) \subseteq Nat /\ Range(reports) # {}
      BY <1>1, PostAssumption DEF Range, Investigations
    <3>2. \E i \in Range(reports) : \A h \in Range(reports) : i <= h
      BY <3>1, LeastElement
    <3>3. Oldest \in Range(reports)
      BY <2>1, <3>2 DEF Oldest
    <3> QED
      BY <3>3 DEF Range
  <2>2. CASE ~ IsFirst
    <3>1. Oldest = reports[1] /\ 1 \in DOMAIN reports
      BY <1>1, <2>2 DEF Oldest
    <3> QED
      BY <3>1
  <2> QED
    BY <2>1, <2>2
<1> QED
  BY <1>1, <1>2 DEF ReportsInv

\* As every investigation is reported once, there are no more reports than
\* investigations.
LEMMA NoMoreThanInvestigations ==
  ASSUME NEW s \in Seq(Investigations),
         \A a, b \in DOMAIN s : s[a] = s[b] => a = b
  PROVE  Len(s) <= MaxInvestigations
<1>1. /\ DOMAIN s = 1..Len(s) /\ Len(s) \in Nat
      /\ s \in [1..Len(s) -> Investigations]
  BY LenProperties
<1>2. s \in Injection(1..Len(s), Investigations)
  BY <1>1 DEF Injection, IsInjective
<1>3. /\ IsFiniteSet(Investigations) /\ Cardinality(Investigations) = MaxInvestigations
      /\ Cardinality(1..Len(s)) = Len(s)
  <2>1. \A n \in Nat : IsFiniteSet(1..n) /\ Cardinality(1..n) = n
    BY FS_Interval
  <2> QED
    BY <1>1, <2>1, PostAssumption DEF Investigations
<1>4. Cardinality(1..Len(s)) <= Cardinality(Investigations)
  BY <1>2, <1>3, FS_Injection
<1> QED
  BY <1>3, <1>4
-----------------------------------------------------------------------------
\* The hooks of the retries read the investigations and change none.
LEMMA HookStep ==
  ASSUME NEW i \in Investigations, Hook(i)
  PROVE  UNCHANGED jobVars
  BY DEF Hook, VerifyRetry, FetchResults, PostVerdict, RetryHook

\* A step of the investigations changes nothing of the hooks.
LEMMA TriggerStep ==
  ASSUME [Next]_vars
  PROVE  UNCHANGED hookVars \/ \E i \in Investigations : Hook(i)
  BY DEF Next, Trigger, CloneRetry, CloneRegression, Fail, Report, FinishJob, DeleteJob,
         DeleteOrigin, vars, hookVars

\* An investigation that moves on and is not reported yet is in no report.
LEMMA MoveReportsInv ==
  ASSUME TypeOK, ReportsInv, NEW i \in Investigations, phase[i] # "reported",
         NEW p, phase' = [phase EXCEPT ![i] = p], reports' = reports
  PROVE  reports' \in Seq(Investigations) /\ ReportsInv'
<1>1. \A a \in DOMAIN reports : reports[a] \in Investigations
  BY LenProperties, ElementOfSeq DEF TypeOK
<1> QED
  BY <1>1 DEF TypeOK, ReportsInv

\* Report: the comment that appears is of an investigation that had none.
LEMMA ReportReportsInv ==
  ASSUME TypeOK, ReportsInv, NEW i \in Investigations, Report(i)
  PROVE  reports' \in Seq(Investigations) /\ ReportsInv'
<1>1. CASE reports' = reports
  BY <1>1, MoveReportsInv DEF Report
<1>2. CASE reports' = Append(reports, i)
  <2>1. /\ reports \in Seq(Investigations) /\ DOMAIN reports = 1..Len(reports)
        /\ Len(reports) \in Nat
        /\ \A a \in DOMAIN reports : reports[a] \in Investigations /\ reports[a] # i
    BY LenProperties, ElementOfSeq DEF TypeOK, Report, ReportsInv
  <2>2. /\ reports' \in Seq(Investigations) /\ DOMAIN reports' = 1..(Len(reports) + 1)
        /\ \A a \in 1..Len(reports) : reports'[a] = reports[a]
        /\ reports'[Len(reports) + 1] = i
    BY <1>2, <2>1
  <2>3. \A a \in DOMAIN reports' : a \in DOMAIN reports \/ reports'[a] = i
    BY <2>1, <2>2
  <2>4. \A a \in DOMAIN reports' : phase'[reports'[a]] = "reported"
    BY <2>1, <2>2, <2>3 DEF TypeOK, Report, ReportsInv
  <2>5. \A a, b \in DOMAIN reports' : reports'[a] = reports'[b] => a = b
    BY <2>1, <2>2 DEF ReportsInv
  <2> QED
    BY <2>2, <2>4, <2>5 DEF ReportsInv
<1> QED
  BY <1>1, <1>2 DEF Report

LEMMA NextReportsInv ==
  ASSUME TypeOK, ReportsInv, [Next]_vars
  PROVE  reports' \in Seq(Investigations) /\ ReportsInv'
<1>1. CASE UNCHANGED <<phase, reports>>
  BY <1>1 DEF TypeOK, ReportsInv
<1>2. ASSUME NEW i \in Investigations, CloneRetry(i) \/ Fail(i)
      PROVE  reports' \in Seq(Investigations) /\ ReportsInv'
  <2>1. phase[i] # "reported" /\ reports' = reports
    BY <1>2 DEF CloneRetry, Fail
  <2>2. \E p : phase' = [phase EXCEPT ![i] = p]
    BY <1>2 DEF CloneRetry, Fail
  <2> QED
    BY <2>1, <2>2, MoveReportsInv
<1>3. ASSUME NEW i \in Investigations, Report(i)
      PROVE  reports' \in Seq(Investigations) /\ ReportsInv'
  BY <1>3, ReportReportsInv
<1>4. CASE DeleteOrigin
  BY <1>4 DEF DeleteOrigin, ReportsInv
<1>5. ASSUME NEW i \in Investigations, CloneRegression(i) \/ Hook(i) PROVE UNCHANGED <<phase, reports>>
  BY <1>5, HookStep DEF CloneRegression, jobVars
<1>6. ASSUME NEW i \in Investigations, NEW k \in Kinds, FinishJob(i, k) \/ DeleteJob(i, k)
      PROVE  UNCHANGED <<phase, reports>>
  BY <1>6 DEF FinishJob, DeleteJob
<1>7. CASE UNCHANGED vars
  BY <1>1, <1>7 DEF vars
<1> QED
  BY <1>1, <1>2, <1>3, <1>4, <1>5, <1>6, <1>7 DEF Next, Trigger

\* The types.
LEMMA InitTypeOK == Init => TypeOK
<1> SUFFICES ASSUME Init PROVE TypeOK
  OBVIOUS
<1>1. reports \in Seq(Investigations) /\ Len(reports) <= MaxInvestigations
  BY PostAssumption DEF Init
<1>2. todo \in [Investigations -> Seq(Kinds)]
  BY DEF Init
<1>3. result \in [Investigations -> [Kinds -> Results \union {"none"}]]
  BY DEF Init
<1> QED
  BY <1>1, <1>2, <1>3 DEF Init, TypeOK, Verdicts

\* One cell of a table of the investigations' jobs.
LEMMA CellUpdate ==
  ASSUME NEW S, NEW t \in [Investigations -> [Kinds -> S]],
         NEW i \in Investigations, NEW k \in Kinds, NEW x \in S
  PROVE  [t EXCEPT ![i][k] = x] \in [Investigations -> [Kinds -> S]]
  OBVIOUS

\* What the hooks can say.
LEMMA IssueTypeIsVerdict == \A h, ks : IssueType(h, ks) \in Verdicts
  BY DEF IssueType, Verdicts

LEMMA HookTypeOK ==
  ASSUME TypeOK, ReportsInv, NEW i \in Investigations, Hook(i)
  PROVE  TypeOK'
<1> USE HookStep DEF TypeOK, jobVars
<1>1. CASE VerifyRetry(i)
  <2>1. verdict' \in [Investigations -> Verdicts]
    <3>1. "sporadic" \in Verdicts
      BY DEF Verdicts
    <3>2. UNCHANGED verdict \/ verdict' = [verdict EXCEPT ![i] = "sporadic"]
      BY <1>1, Zenon DEF VerifyRetry
    <3> QED
      BY <3>1, <3>2
  <2>2. pc' \in [Investigations -> {"idle", "fetch", "postponed", "post", "ended"}]
    <3>1. \E p \in {"ended", "post", "fetch"} : pc' = [pc EXCEPT ![i] = p]
      BY <1>1, Zenon DEF VerifyRetry
    <3> QED
      BY <3>1
  <2> QED
    BY <1>1, <2>1, <2>2 DEF VerifyRetry
<1>2. CASE FetchResults(i)
  <2>1. verdict' \in [Investigations -> Verdicts]
    <3>1. PICK h, ks : UNCHANGED verdict \/ verdict' = [verdict EXCEPT ![i] = IssueType(h, ks)]
      BY <1>2 DEF FetchResults
    <3>2. IssueType(h, ks) \in Verdicts
      BY IssueTypeIsVerdict
    <3> QED
      BY <3>1, <3>2
  <2>2. used' \in [Investigations -> Investigations \union {0}]
    BY <1>2, OldestIsReported DEF FetchResults
  <2> QED
    BY <1>2, <2>1, <2>2 DEF FetchResults
<1>3. CASE PostVerdict(i)
  BY <1>3 DEF PostVerdict
<1>4. CASE RetryHook(i)
  BY <1>4 DEF RetryHook
<1> QED
  BY <1>1, <1>2, <1>3, <1>4 DEF Hook

LEMMA TriggerTypeOK ==
  ASSUME TypeOK, NEW i \in Investigations, CloneRetry(i) \/ Trigger(i),
         reports' \in Seq(Investigations), Len(reports') <= MaxInvestigations
  PROVE  TypeOK'
<1> USE DEF TypeOK, hookVars
<1>1. CASE CloneRetry(i)
  <2>1. "retry" \in Kinds /\ Plan(changed) \in Seq(Kinds)
    BY PlanFacts DEF Kinds
  <2>2. job' \in [Investigations -> [Kinds -> {"absent", "running", "done", "deleted"}]]
    <3>1. UNCHANGED job \/ job' = [job EXCEPT ![i]["retry"] = "running"]
      BY <1>1 DEF CloneRetry
    <3>2. [job EXCEPT ![i]["retry"] = "running"] \in
            [Investigations -> [Kinds -> {"absent", "running", "done", "deleted"}]]
      BY <2>1, CellUpdate
    <3> QED
      BY <3>1, <3>2
  <2> QED
    BY <1>1, <2>1, <2>2 DEF CloneRetry
<1>2. CASE CloneRegression(i)
  <2>1. Head(todo[i]) \in Kinds /\ Tail(todo[i]) \in Seq(Kinds)
    BY <1>2, HeadTailProperties DEF CloneRegression
  <2>2. job' \in [Investigations -> [Kinds -> {"absent", "running", "done", "deleted"}]]
    <3>1. UNCHANGED job \/ job' = [job EXCEPT ![i][Head(todo[i])] = "running"]
      BY <1>2 DEF CloneRegression
    <3>2. [job EXCEPT ![i][Head(todo[i])] = "running"] \in
            [Investigations -> [Kinds -> {"absent", "running", "done", "deleted"}]]
      BY <2>1, CellUpdate
    <3> QED
      BY <3>1, <3>2
  <2> QED
    BY <1>2, <2>1, <2>2 DEF CloneRegression
<1>3. CASE Fail(i)
  BY <1>3 DEF Fail
<1>4. CASE Report(i)
  BY <1>4 DEF Report
<1> QED
  BY <1>1, <1>2, <1>3, <1>4 DEF Trigger

LEMMA FinishTypeOK ==
  ASSUME TypeOK, NEW i \in Investigations, NEW k \in Kinds, FinishJob(i, k) \/ DeleteJob(i, k)
  PROVE  TypeOK'
<1>1. job' \in [Investigations -> [Kinds -> {"absent", "running", "done", "deleted"}]]
  <2>1. \E x \in {"done", "deleted"} : job' = [job EXCEPT ![i][k] = x]
    BY DEF FinishJob, DeleteJob
  <2> QED
    BY <2>1, CellUpdate DEF TypeOK
<1>2. ResultsOf(k) \subseteq Results
  BY DEF ResultsOf, Results
<1>3. result' \in [Investigations -> [Kinds -> Results \union {"none"}]]
  <2>1. PICK x \in Results \union {"none"} : UNCHANGED result \/ result' = [result EXCEPT ![i][k] = x]
    BY <1>2 DEF FinishJob, DeleteJob, Results
  <2>2. [result EXCEPT ![i][k] = x] \in [Investigations -> [Kinds -> Results \union {"none"}]]
    BY CellUpdate DEF TypeOK
  <2> QED
    BY <2>1, <2>2 DEF TypeOK
<1> QED
  BY <1>1, <1>3 DEF TypeOK, FinishJob, DeleteJob, hookVars

LEMMA NextTypeOK == TypeOK /\ ReportsInv /\ [Next]_vars => TypeOK' /\ ReportsInv'
<1> SUFFICES ASSUME TypeOK, ReportsInv, [Next]_vars PROVE TypeOK'
  BY NextReportsInv
<1>1. reports' \in Seq(Investigations) /\ ReportsInv'
  BY NextReportsInv
<1>2. Len(reports') <= MaxInvestigations
  BY <1>1, NoMoreThanInvestigations DEF ReportsInv
<1>3. ASSUME NEW i \in Investigations, CloneRetry(i) \/ Trigger(i) PROVE TypeOK'
  BY <1>1, <1>2, <1>3, TriggerTypeOK
<1>4. CASE DeleteOrigin
  BY <1>1, <1>2, <1>4 DEF DeleteOrigin, TypeOK, hookVars
<1>5. CASE UNCHANGED vars
  BY <1>5 DEF vars, TypeOK
<1> QED
  BY <1>3, <1>4, <1>5, HookTypeOK, FinishTypeOK DEF Next
-----------------------------------------------------------------------------
\* The steps that change jobs: one is cloned that was not there, by an
\* investigation that is not completed, or one ends, or a finished one is gone.
LEMMA JobStep ==
  ASSUME TypeOK, [Next]_vars, NEW i \in Investigations, NEW k \in Kinds
  PROVE  \/ UNCHANGED <<job[i][k], result[i][k]>>
         \/ /\ phase[i] # "reported" /\ job'[i][k] = "running"
            /\ UNCHANGED result[i][k]
         \/ /\ job[i][k] = "running" /\ job'[i][k] = "done"
            /\ result'[i][k] \in ResultsOf(k)
         \/ /\ job[i][k] = "done" /\ job'[i][k] = "deleted"
            /\ UNCHANGED result[i][k]
<1> DEFINE Moves ==
      \/ UNCHANGED <<job[i][k], result[i][k]>>
      \/ phase[i] # "reported" /\ job'[i][k] = "running" /\ UNCHANGED result[i][k]
      \/ job[i][k] = "running" /\ job'[i][k] = "done" /\ result'[i][k] \in ResultsOf(k)
      \/ job[i][k] = "done" /\ job'[i][k] = "deleted" /\ UNCHANGED result[i][k]
<1> SUFFICES Moves
  OBVIOUS
<1>1. CASE UNCHANGED <<job, result>>
  BY <1>1
<1>2. ASSUME NEW h \in Investigations, NEW l \in Kinds, phase[h] # "reported",
             UNCHANGED result, job' = [job EXCEPT ![h][l] = "running"]
      PROVE  Moves
  BY <1>2 DEF TypeOK
<1>3. ASSUME NEW h \in Investigations, CloneRetry(h) PROVE Moves
  <2>1. "retry" \in Kinds
    BY DEF Kinds
  <2>2. UNCHANGED job \/ job' = [job EXCEPT ![h]["retry"] = "running"]
    BY <1>3 DEF CloneRetry
  <2> QED
    BY <1>1, <1>2, <1>3, <2>1, <2>2 DEF CloneRetry
<1>4. ASSUME NEW h \in Investigations, CloneRegression(h) PROVE Moves
  <2>1. Head(todo[h]) \in Kinds /\ phase[h] # "reported" /\ UNCHANGED result
    BY <1>4, HeadTailProperties DEF CloneRegression, TypeOK
  <2>2. UNCHANGED job \/ job' = [job EXCEPT ![h][Head(todo[h])] = "running"]
    BY <1>4 DEF CloneRegression
  <2> QED
    BY <1>1, <1>2, <2>1, <2>2
<1>5. ASSUME NEW h \in Investigations, NEW l \in Kinds, FinishJob(h, l) PROVE Moves
  <2>1. PICK x \in ResultsOf(l) : result' = [result EXCEPT ![h][l] = x]
    BY <1>5 DEF FinishJob
  <2>2. CASE h = i /\ l = k
    BY <1>5, <2>1, <2>2 DEF FinishJob, TypeOK
  <2>3. CASE h # i \/ l # k
    BY <1>5, <2>1, <2>3 DEF FinishJob, TypeOK
  <2> QED
    BY <2>2, <2>3
<1>6. ASSUME NEW h \in Investigations, NEW l \in Kinds, DeleteJob(h, l) PROVE Moves
  BY <1>6 DEF DeleteJob, TypeOK
<1>7. ASSUME NEW h \in Investigations, Fail(h) \/ Report(h) \/ Hook(h) PROVE Moves
  BY <1>1, <1>7, HookStep DEF Fail, Report, jobVars
<1>8. CASE DeleteOrigin \/ UNCHANGED vars
  BY <1>1, <1>8 DEF DeleteOrigin, vars
<1> QED
  BY <1>3, <1>4, <1>5, <1>6, <1>7, <1>8 DEF Next, Trigger

\* The causes and the changes stay what they are.
LEMMA ReasonStep ==
  ASSUME [Next]_vars
  PROVE  UNCHANGED <<cause, changed, blank>>
  BY HookStep DEF Next, Trigger, CloneRetry, CloneRegression, Fail, Report, FinishJob, DeleteJob,
         DeleteOrigin, vars, jobVars

LEMMA NextResultInv ==
  ASSUME TypeOK, \A i \in Investigations : ResultInv(i), [Next]_vars
  PROVE  \A i \in Investigations : ResultInv(i)'
<1> SUFFICES ASSUME NEW i \in Investigations, NEW k \in Kinds,
                    job'[i][k] \in {"done", "deleted"}
             PROVE  result'[i][k] \in ResultsOf(k)'
  BY DEF ResultInv
<1>1. ResultsOf(k)' = ResultsOf(k)
  BY ReasonStep DEF ResultsOf
<1> QED
  BY <1>1, JobStep DEF ResultInv

\* What an investigation that counts has found stays what it is.
LEMMA Frozen ==
  ASSUME TypeOK, [Next]_vars, NEW h \in Investigations, Rests(h)
  PROVE  /\ Rests(h)'
         /\ IssueType(h, Listed(h))' = IssueType(h, Listed(h))
<1>1. phase'[h] = "reported"
  BY HookStep DEF Rests, TypeOK, Next, Trigger, CloneRetry, CloneRegression, Fail, Report,
         FinishJob, DeleteJob, DeleteOrigin, vars, jobVars
<1>2. \A k \in Kinds : (job'[h][k] = "absent") <=> (job[h][k] = "absent")
  BY JobStep DEF Rests, Listed
<1>3. Listed(h)' = Listed(h)
  BY <1>2 DEF Listed
<1>4. \A k \in Listed(h) : job'[h][k] \in {"done", "deleted"} /\ result'[h][k] = result[h][k]
  BY JobStep DEF Rests, Listed
<1>5. Rests(h)'
  BY <1>1, <1>3, <1>4 DEF Rests
<1>6. IssueType(h, Listed(h))' = IssueType(h, Listed(h))
  BY <1>3, <1>4 DEF IssueType
<1> QED
  BY <1>5, <1>6

\* A step of a hook other than the i-th leaves what the i-th knows alone.
LEMMA OtherVerdict ==
  ASSUME TypeOK, [Next]_vars, NEW i \in Investigations, VerdictInv(i),
         UNCHANGED <<pc[i], verdict[i], used[i], posted[i]>>
  PROVE  VerdictInv(i)'
<1>1. PICK h \in Investigations \union {0} : h = used[i]
  BY DEF TypeOK
<1>2. /\ pc'[i] \notin {"post", "ended"} => used'[i] = 0
      /\ pc'[i] # "ended" => posted'[i] = "none"
      /\ used'[i] = 0 => verdict'[i] \in {"none", "sporadic", "not sporadic"}
      /\ posted'[i] \in {"none", verdict'[i]}
  BY DEF VerdictInv
<1>3. h # 0 => Rests(h)' /\ verdict'[i] = IssueType(h, Listed(h))'
  <2>1. h # 0 => h \in Investigations /\ Rests(h) /\ verdict[i] = IssueType(h, Listed(h))
    BY <1>1 DEF VerdictInv
  <2> QED
    BY <2>1, Frozen
<1>4. used'[i] # 0 => Rests(used[i])' /\ verdict'[i] = IssueType(used[i], Listed(used[i]))'
  BY <1>1, <1>3 DEF Rests, Listed, IssueType
<1> QED
  BY <1>2, <1>4 DEF VerdictInv

\* FetchResults: the verdict is about a completed investigation of which all
\* jobs are finished.
LEMMA FetchVerdict ==
  ASSUME TypeOK, ReportsInv, NEW i \in Investigations, VerdictInv(i), FetchResults(i)
  PROVE  VerdictInv(i)'
<1>1. /\ pc[i] = "fetch" /\ used[i] = 0 /\ posted[i] = "none" /\ posted' = posted
      /\ UNCHANGED jobVars
  BY DEF FetchResults, VerdictInv
<1>2. CASE reports = <<>>
  <2>1. verdict'[i] = IssueType(i, {}) /\ used'[i] = 0 /\ pc'[i] = "post"
    BY <1>1, <1>2 DEF FetchResults, TypeOK
  <2>2. IssueType(i, {}) = "not sporadic"
    BY DEF IssueType
  <2> QED
    BY <1>1, <2>1, <2>2 DEF VerdictInv
<1>3. CASE reports # <<>> /\ ~ Settled(Oldest)
  <2>1. verdict' = verdict /\ used' = used /\ pc'[i] = "postponed"
    BY <1>3 DEF FetchResults, TypeOK
  <2> QED
    BY <1>1, <2>1 DEF VerdictInv
<1>4. CASE reports # <<>> /\ Settled(Oldest)
  <2>1. PICK h \in Investigations : h = Oldest /\ phase[h] = "reported"
    BY <1>4, OldestIsReported
  <2>2. verdict'[i] = IssueType(h, Listed(h)) /\ used'[i] = h /\ pc'[i] = "post"
    BY <1>4, <2>1 DEF FetchResults, TypeOK
  <2>3. Rests(h)
    BY <1>4, <2>1 DEF Settled, Finished, Rests
  <2>4. Rests(h)' /\ verdict'[i] = IssueType(h, Listed(h))'
    <3>1. Next
      BY DEF Next, Hook
    <3> QED
      BY <2>2, <2>3, <3>1, Frozen
  <2>5. Rests(used[i])' /\ verdict'[i] = IssueType(used[i], Listed(used[i]))'
    BY <2>2, <2>4 DEF Rests, Listed, IssueType
  <2>6. h # 0
    BY DEF Investigations
  <2> QED
    BY <1>1, <2>2, <2>5, <2>6 DEF VerdictInv
<1> QED
  BY <1>2, <1>3, <1>4

LEMMA NextVerdictInv ==
  ASSUME TypeOK, ReportsInv, \A i \in Investigations : VerdictInv(i), [Next]_vars
  PROVE  \A i \in Investigations : VerdictInv(i)'
<1> SUFFICES ASSUME NEW i \in Investigations PROVE VerdictInv(i)'
  OBVIOUS
<1>1. CASE UNCHANGED hookVars
  BY <1>1, OtherVerdict DEF hookVars
<1>2. ASSUME NEW h \in Investigations, Hook(h), h # i PROVE VerdictInv(i)'
  <2>1. UNCHANGED <<pc[i], verdict[i], used[i], posted[i]>>
    BY <1>2 DEF Hook, VerifyRetry, FetchResults, PostVerdict, RetryHook, TypeOK
  <2> QED
    BY <2>1, OtherVerdict
<1>3. CASE VerifyRetry(i)
  <2>1. /\ pc[i] = "idle" /\ used[i] = 0 /\ posted[i] = "none"
        /\ used' = used /\ posted' = posted
    BY <1>3 DEF VerifyRetry, VerdictInv
  <2>2. verdict'[i] \in {verdict[i], "sporadic"}
    <3>1. verdict' = verdict \/ verdict' = [verdict EXCEPT ![i] = "sporadic"]
      BY <1>3, Zenon DEF VerifyRetry
    <3> QED
      BY <3>1 DEF TypeOK
  <2> QED
    BY <2>1, <2>2 DEF VerdictInv
<1>4. CASE FetchResults(i)
  BY <1>4, FetchVerdict
<1>5. CASE PostVerdict(i)
  <2>1. /\ UNCHANGED <<jobVars, verdict, used>> /\ pc[i] = "post" /\ pc'[i] = "ended"
    BY <1>5 DEF PostVerdict, TypeOK
  <2>2. posted'[i] \in {posted[i], verdict[i]}
    <3>1. posted' = posted \/ posted' = [posted EXCEPT ![i] = verdict[i]]
      BY <1>5, Zenon DEF PostVerdict
    <3> QED
      BY <3>1 DEF TypeOK
  <2>3. used[i] # 0 => Rests(used[i])' /\ verdict'[i] = IssueType(used[i], Listed(used[i]))'
    <3>1. PICK h \in Investigations \union {0} : h = used[i]
      BY DEF TypeOK
    <3>2. h # 0 => Rests(h)' /\ verdict'[i] = IssueType(h, Listed(h))'
      BY <2>1, <3>1, Frozen DEF VerdictInv
    <3> QED
      BY <2>1, <3>1, <3>2 DEF Rests, Listed, IssueType
  <2> QED
    BY <2>1, <2>2, <2>3 DEF VerdictInv
<1>6. CASE RetryHook(i)
  <2>1. UNCHANGED <<jobVars, verdict, used, posted>> /\ pc[i] = "postponed" /\ pc'[i] = "idle"
    BY <1>6 DEF RetryHook, TypeOK
  <2> QED
    BY <2>1 DEF VerdictInv
<1> QED
  BY <1>1, <1>2, <1>3, <1>4, <1>5, <1>6, TriggerStep DEF Hook

LEMMA InitIInv == Init => IInv
<1> SUFFICES ASSUME Init PROVE IInv
  OBVIOUS
<1>1. ReportsInv
  BY DEF Init, ReportsInv
<1>2. \A i \in Investigations : ResultInv(i) /\ VerdictInv(i)
  BY DEF Init, ResultInv, VerdictInv
<1> QED
  BY <1>1, <1>2, InitTypeOK DEF IInv

LEMMA IInvAlways == Spec => []IInv
<1>1. IInv /\ [Next]_vars => IInv'
  <2> SUFFICES ASSUME IInv, [Next]_vars PROVE IInv'
    OBVIOUS
  <2>1. TypeOK' /\ ReportsInv'
    BY NextTypeOK DEF IInv
  <2>2. \A i \in Investigations : ResultInv(i)' /\ VerdictInv(i)'
    BY NextResultInv, NextVerdictInv DEF IInv
  <2> QED
    BY <2>1, <2>2 DEF IInv
<1> QED
  BY InitIInv, <1>1, PTL DEF Spec
-----------------------------------------------------------------------------
\* The variables keep their types, and no investigation is reported twice.
THEOREM TypeCorrect == Spec => []TypeOK
<1>1. IInv => TypeOK
  BY DEF IInv
<1> QED
  BY IInvAlways, <1>1, PTL

\* fetch_investigation_results and _find_investigation_comment: a verdict rests
\* on an investigation that was completed and all jobs of which have ended.
THEOREM VerdictRestsOnFinishedJobsAlways == Spec => []VerdictRestsOnFinishedJobs
<1>1. IInv => VerdictRestsOnFinishedJobs
  BY DEF IInv, VerdictInv, Rests, VerdictRestsOnFinishedJobs
<1> QED
  BY IInvAlways, <1>1, PTL

\* The results of an investigation that counts fit the cause: a job that is
\* neither cancelled nor left out fails exactly if it does not take back what
\* makes the origin fail.
LEMMA ResultsFit ==
  ASSUME IInv, NEW h \in Investigations, Rests(h), cause # "sporadic",
         NEW k \in Listed(h), result[h][k] # "cancelled"
  PROVE  result[h][k] =
           IF k \in Passing(cause) /\ ~ (k = "tests" /\ k \in blank)
           THEN "passed" ELSE "failed"
<1>1. k \in Kinds /\ result[h][k] \in ResultsOf(k)
  BY DEF IInv, ResultInv, Rests, Listed
<1> QED
  BY <1>1 DEF ResultsOf

\* identify_issue_type: a verdict on an investigation that counts is right.
LEMMA VerdictFits ==
  ASSUME IInv, NEW h \in Investigations, Rests(h), cause # "sporadic",
         IssueType(h, Listed(h)) \in {"product", "test", "infra"}
  PROVE  \/ IssueType(h, Listed(h)) = cause
         \/ /\ cause = "interplay"
            /\ \/ /\ IssueType(h, Listed(h)) = "product"
                  /\ job[h]["tests"] = "absent" \/ "tests" \in blank
               \/ IssueType(h, Listed(h)) = "test" /\ job[h]["build"] = "absent"
<1> DEFINE passed(k) == k \in Listed(h) /\ result[h][k] = "passed"
           failed(k) == k \in Listed(h) /\ result[h][k] = "failed"
<1>1. \A k \in Listed(h) : result[h][k] # "cancelled"
  <2>1. (\E k \in Listed(h) : result[h][k] = "cancelled") => IssueType(h, Listed(h)) = "cancelled"
    BY DEF IssueType
  <2> QED
    BY <2>1
<1>2. /\ IssueType(h, Listed(h)) = "product" =>
           ~ failed("both") /\ ~ passed("tests") /\ passed("build")
      /\ IssueType(h, Listed(h)) = "test" =>
           ~ failed("both") /\ passed("tests") /\ ~ passed("build")
      /\ IssueType(h, Listed(h)) = "infra" =>
           failed("both") /\ failed("tests") /\ failed("build")
  BY DEF IssueType
<1>3. \A k \in Listed(h) :
        result[h][k] = IF k \in Passing(cause) /\ ~ (k = "tests" /\ k \in blank)
                       THEN "passed" ELSE "failed"
  BY <1>1, ResultsFit
<1>4. cause \in {"product", "test", "mixed", "interplay", "infra"}
  BY PostAssumption DEF IInv, TypeOK
<1>5. /\ cause = "product" => Passing(cause) = {"build", "both"}
      /\ cause = "test" => Passing(cause) = {"tests", "both"}
      /\ cause = "mixed" => Passing(cause) = {"both"}
      /\ cause = "interplay" => Passing(cause) = {"tests", "build", "both"}
      /\ cause = "infra" => Passing(cause) = {}
  BY DEF Passing
<1>6. CASE cause = "product"
  BY <1>2, <1>3, <1>5, <1>6
<1>7. CASE cause = "test"
  BY <1>2, <1>3, <1>5, <1>7
<1>8. CASE cause = "mixed"
  BY <1>2, <1>3, <1>5, <1>8
<1>9. CASE cause = "infra"
  BY <1>2, <1>3, <1>5, <1>9
<1>10. CASE cause = "interplay"
  <2>1. /\ ~ passed("tests") => job[h]["tests"] = "absent" \/ "tests" \in blank
        /\ ~ passed("build") => job[h]["build"] = "absent"
        /\ ~ failed("both")
    BY <1>3, <1>5, <1>10 DEF Listed, Kinds
  <2> QED
    BY <1>2, <1>10, <2>1
<1> QED
  BY <1>4, <1>6, <1>7, <1>8, <1>9, <1>10

\* identify_issue_type: when the origin fails for one reason, every verdict that
\* names a reason names that one, unless tests and build only fail together and
\* the job that would tell is missing.
THEOREM VerdictIsRightAlways == Spec => []VerdictIsRight
<1>1. IInv => VerdictIsRight
  <2> SUFFICES ASSUME IInv, NEW i \in Investigations, cause # "sporadic",
                      posted[i] \in {"product", "test", "infra"}
               PROVE  posted[i] = cause \/ Mistaken(i)
    BY DEF VerdictIsRight
  <2>1. VerdictInv(i) /\ used[i] \in Investigations \union {0}
    BY DEF IInv, TypeOK
  <2>2. posted[i] = verdict[i] /\ used[i] # 0
    BY <2>1 DEF VerdictInv
  <2>3. PICK h \in Investigations : h = used[i]
    BY <2>1, <2>2
  <2>4. Rests(h) /\ verdict[i] = IssueType(h, Listed(h))
    BY <2>1, <2>2, <2>3 DEF VerdictInv
  <2> QED
    BY <2>2, <2>3, <2>4, VerdictFits DEF Mistaken
<1> QED
  BY IInvAlways, <1>1, PTL
============================================================================
