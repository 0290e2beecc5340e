----------------------- MODULE InvestigateHookProofs -----------------------
(***************************************************************************)
(* Theorems about InvestigateHook: whatever the kind of the job and the    *)
(* faults, however often openQA calls the hook and whatever happens to the *)
(* job meanwhile, no tool undoes or repeats what an earlier one decided.   *)
(***************************************************************************)
EXTENDS InvestigateHook, TLAPS

\* What has been done tells where the hook is: a job is not labelled or
\* bisected on the way, and one that was investigated is not called for again.
DoneInv ==
  /\ done \intersect {"label", "restart"} # {} => pc = "known"
  /\ "investigate" \in done => pc \in {"bisect", "finished"}
  /\ "bisect" \in done => pc = "finished"
  /\ pc \in {"llm", "summary"} /\ "summary" \in done => "read" \in broken

\* What the LLM said last: a NO is final, a YES about a streak is none as long as
\* the streak can be read.
AnswerInv ==
  /\ answer = "no" => pc \in {"summary", "declined"}
  /\ pc = "summary" => answer \in {"yes", "no"}
  /\ streak => kind = "failed" /\ (answer # "yes" \/ "read" \in broken)

\* Who gets past the gate, and who gets past openqa-investigate.
PassInv ==
  /\ streak /\ gated /\ pc \in {"investigate", "bisect", "finished"} =>
       reviewed \/ broken \intersect {"llm", "read"} # {} \/ answer = "unclear"
  /\ pc \in {"bisect", "finished"} /\ exists /\ ~restarted => "investigate" \in done

IInv == TypeOK /\ OnlyMailsRepeat /\ DoneInv /\ AnswerInv /\ PassInv
-----------------------------------------------------------------------------
\* The types.
LEMMA InitTypeOK == Init => TypeOK
  BY HookAssumption, Zenon DEF Init, TypeOK

LEMMA NextTypeOK == TypeOK /\ [Next]_vars => TypeOK'
<1> SUFFICES ASSUME TypeOK, [Next]_vars PROVE TypeOK'
  OBVIOUS
<1> USE DEF TypeOK, jobVars, hookVars, Do, DoNothing, Effects, Tools, Ends
<1>1. CASE Call
  BY <1>1 DEF Call, Bypass
<1>2. CASE Label
  BY <1>2 DEF Label, Bypass
<1>3. CASE Gate
  BY <1>3 DEF Gate
<1>4. CASE AskLLM
  BY <1>4 DEF AskLLM, BisectVerdict, Seen
<1>5. CASE PostSummary
  BY <1>5 DEF PostSummary, IsReviewed, Seen
<1>6. CASE Investigate
  BY <1>6 DEF Investigate
<1>7. CASE Bisect
  BY <1>7 DEF Bisect
<1>8. CASE RetryHook
  BY <1>8 DEF RetryHook
<1>9. CASE FinishOthers \/ ReviewJob \/ ReportIssue \/ RestartJob \/ DeleteJob
  BY <1>9 DEF FinishOthers, ReviewJob, ReportIssue, RestartJob, DeleteJob
<1>10. CASE UNCHANGED vars
  BY <1>10 DEF vars
<1> QED
  BY <1>1, <1>2, <1>3, <1>4, <1>5, <1>6, <1>7, <1>8, <1>9, <1>10 DEF Next, Step

\* A tool that had an effect is followed by the tools it leaves the job to.
LEMMA NextDoneInv == TypeOK /\ DoneInv /\ [Next]_vars => DoneInv'
<1> SUFFICES ASSUME TypeOK, DoneInv, [Next]_vars PROVE DoneInv'
  OBVIOUS
<1> USE DEF TypeOK, DoneInv, jobVars, Do, DoNothing
<1>1. CASE Call
  BY <1>1 DEF Call, Bypass
<1>2. CASE Label
  BY <1>2 DEF Label, Bypass
<1>3. CASE Gate
  BY <1>3 DEF Gate, Summarised, IsReviewed, Seen
<1>4. CASE AskLLM
  BY <1>4 DEF AskLLM, BisectVerdict, Seen
<1>5. CASE PostSummary
  BY <1>5 DEF PostSummary, IsReviewed, Seen
<1>6. CASE Investigate
  BY <1>6 DEF Investigate
<1>7. CASE Bisect
  BY <1>7 DEF Bisect
<1>8. CASE RetryHook
  BY <1>8 DEF RetryHook
<1>9. CASE FinishOthers \/ ReviewJob \/ ReportIssue \/ RestartJob \/ DeleteJob
  BY <1>9 DEF FinishOthers, ReviewJob, ReportIssue, RestartJob, DeleteJob, hookVars
<1>10. CASE UNCHANGED vars
  BY <1>10 DEF vars
<1> QED
  BY <1>1, <1>2, <1>3, <1>4, <1>5, <1>6, <1>7, <1>8, <1>9, <1>10 DEF Next, Step

\* The LLM is asked between the gate and the summary, and nowhere else.
LEMMA NextAnswerInv == TypeOK /\ AnswerInv /\ [Next]_vars => AnswerInv'
<1> SUFFICES ASSUME TypeOK, AnswerInv, [Next]_vars PROVE AnswerInv'
  OBVIOUS
<1> USE DEF TypeOK, AnswerInv, jobVars, Do, DoNothing
<1>1. CASE Call
  BY <1>1 DEF Call, Bypass
<1>2. CASE Label
  BY <1>2 DEF Label, Bypass
<1>3. CASE Gate
  BY <1>3 DEF Gate, Summarised, IsReviewed, Seen
<1>4. CASE AskLLM
  BY <1>4 DEF AskLLM, BisectVerdict, Seen
<1>5. CASE PostSummary
  BY <1>5 DEF PostSummary, IsReviewed, Seen
<1>6. CASE Investigate
  BY <1>6 DEF Investigate
<1>7. CASE Bisect
  BY <1>7 DEF Bisect
<1>8. CASE RetryHook
  BY <1>8 DEF RetryHook
<1>9. CASE FinishOthers \/ ReviewJob \/ ReportIssue \/ RestartJob \/ DeleteJob
  <2>1. CASE FinishOthers
    BY <2>1 DEF FinishOthers, hookVars
  <2>2. CASE ReviewJob
    BY <2>2 DEF ReviewJob, hookVars
  <2>3. CASE ReportIssue
    BY <2>3 DEF ReportIssue, hookVars
  <2>4. CASE RestartJob
    BY <2>4 DEF RestartJob, hookVars
  <2>5. CASE DeleteJob
    BY <2>5 DEF DeleteJob, hookVars
  <2> QED
    BY <1>9, <2>1, <2>2, <2>3, <2>4, <2>5
<1>10. CASE UNCHANGED vars
  BY <1>10 DEF vars
<1> QED
  BY <1>1, <1>2, <1>3, <1>4, <1>5, <1>6, <1>7, <1>8, <1>9, <1>10 DEF Next, Step

\* Jobs are reviewed, restarted and deleted for good, so that what let the hook
\* pass a tool still holds when it is past it.
LEMMA NextPassInv == TypeOK /\ AnswerInv /\ PassInv /\ [Next]_vars => PassInv'
<1> SUFFICES ASSUME TypeOK, AnswerInv, PassInv, [Next]_vars PROVE PassInv'
  OBVIOUS
<1> USE DEF TypeOK, AnswerInv, PassInv, jobVars, Do, DoNothing
<1>1. CASE Call
  BY <1>1 DEF Call, Bypass
<1>2. CASE Label
  BY <1>2 DEF Label, Bypass
<1>3. CASE Gate
  BY <1>3 DEF Gate, Summarised, IsReviewed, Seen
<1>4. CASE AskLLM
  BY <1>4 DEF AskLLM, BisectVerdict, Seen
<1>5. CASE PostSummary
  BY <1>5 DEF PostSummary, IsReviewed, Seen
<1>6. CASE Investigate
  BY <1>6 DEF Investigate
<1>7. CASE Bisect
  BY <1>7 DEF Bisect
<1>8. CASE RetryHook
  BY <1>8 DEF RetryHook
<1>9. CASE FinishOthers \/ ReviewJob \/ ReportIssue \/ RestartJob \/ DeleteJob
  <2>1. CASE FinishOthers
    BY <2>1 DEF FinishOthers, hookVars
  <2>2. CASE ReviewJob
    BY <2>2 DEF ReviewJob, hookVars
  <2>3. CASE ReportIssue
    BY <2>3 DEF ReportIssue, hookVars
  <2>4. CASE RestartJob
    BY <2>4 DEF RestartJob, hookVars
  <2>5. CASE DeleteJob
    BY <2>5 DEF DeleteJob, hookVars
  <2> QED
    BY <1>9, <2>1, <2>2, <2>3, <2>4, <2>5
<1>10. CASE UNCHANGED vars
  BY <1>10 DEF vars
<1> QED
  BY <1>1, <1>2, <1>3, <1>4, <1>5, <1>6, <1>7, <1>8, <1>9, <1>10 DEF Next, Step

\* A tool only does what DoneInv finds not done before, or mails.
LEMMA NextOnlyMailsRepeat == TypeOK /\ DoneInv /\ OnlyMailsRepeat /\ [Next]_vars => OnlyMailsRepeat'
<1> SUFFICES ASSUME TypeOK, DoneInv, OnlyMailsRepeat, [Next]_vars PROVE OnlyMailsRepeat'
  OBVIOUS
<1> USE DEF TypeOK, DoneInv, OnlyMailsRepeat, jobVars, Do, DoNothing
<1>1. CASE Call
  BY <1>1 DEF Call, Bypass
<1>2. CASE Label
  BY <1>2 DEF Label, Bypass
<1>3. CASE Gate
  BY <1>3 DEF Gate, Summarised, IsReviewed, Seen
<1>4. CASE AskLLM
  BY <1>4 DEF AskLLM, BisectVerdict, Seen
<1>5. CASE PostSummary
  BY <1>5 DEF PostSummary, IsReviewed, Seen
<1>6. CASE Investigate
  BY <1>6 DEF Investigate
<1>7. CASE Bisect
  BY <1>7 DEF Bisect
<1>8. CASE RetryHook
  BY <1>8 DEF RetryHook
<1>9. CASE FinishOthers \/ ReviewJob \/ ReportIssue \/ RestartJob \/ DeleteJob
  BY <1>9 DEF FinishOthers, ReviewJob, ReportIssue, RestartJob, DeleteJob, hookVars
<1>10. CASE UNCHANGED vars
  BY <1>10 DEF vars
<1> QED
  BY <1>1, <1>2, <1>3, <1>4, <1>5, <1>6, <1>7, <1>8, <1>9, <1>10 DEF Next, Step

LEMMA InitIInv == Init => IInv
<1> SUFFICES ASSUME Init PROVE IInv
  OBVIOUS
<1>1. DoneInv /\ OnlyMailsRepeat
  BY DEF Init, DoneInv, OnlyMailsRepeat
<1>2. AnswerInv
  BY DEF Init, AnswerInv
<1>3. PassInv
  BY DEF Init, PassInv
<1> QED
  BY <1>1, <1>2, <1>3, InitTypeOK DEF IInv

LEMMA IInvAlways == Spec => []IInv
<1>1. IInv /\ [Next]_vars => IInv'
  BY NextTypeOK, NextDoneInv, NextAnswerInv, NextPassInv, NextOnlyMailsRepeat DEF IInv
<1> QED
  BY InitIInv, <1>1, PTL DEF Spec
-----------------------------------------------------------------------------
\* The variables keep their types, and what was done again was done.
THEOREM TypeCorrect == Spec => []TypeOK
<1>1. IInv => TypeOK
  BY DEF IInv
<1> QED
  BY IInvAlways, <1>1, PTL

\* openqa-label-known-issues, openqa-llm-investigate: with any number of calls of
\* the hook, nothing but the mail is done twice, nor the summary if comments can
\* be read.
THEOREM OnlyMailsRepeatAlways == Spec => []OnlyMailsRepeat
<1>1. IInv => OnlyMailsRepeat
  BY DEF IInv
<1> QED
  BY IInvAlways, <1>1, PTL

\* investigate-and-bisect: a job whose issue is known, or that the gate declines,
\* is never investigated or bisected.
THEOREM DeclinedIsNotInvestigatedAlways == Spec => []DeclinedIsNotInvestigated
<1>1. IInv => DeclinedIsNotInvestigated
  BY DEF IInv, DeclinedIsNotInvestigated, DoneInv, AnswerInv
<1> QED
  BY IInvAlways, <1>1, PTL

\* investigate-and-bisect, exit code 142: a hook does not finish without the
\* investigation it postponed.
THEOREM FinishedIsInvestigatedAlways == Spec => []FinishedIsInvestigated
<1>1. IInv => FinishedIsInvestigated
  BY DEF IInv, FinishedIsInvestigated, PassInv
<1> QED
  BY IInvAlways, <1>1, PTL

\* enforce_history_rules: a streak of failures that can be read is not
\* investigated on the word of the LLM.
THEOREM StreakIsNotInvestigatedAlways == Spec => []StreakIsNotInvestigated
<1>1. IInv => StreakIsNotInvestigated
  BY DEF IInv, StreakIsNotInvestigated, DoneInv, PassInv
<1> QED
  BY IInvAlways, <1>1, PTL
============================================================================
