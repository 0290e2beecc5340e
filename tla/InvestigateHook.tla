-------------------------- MODULE InvestigateHook --------------------------
(***************************************************************************)
(* openqa-label-known-issues-and-investigate-hook: what openQA calls for a *)
(* finished job.  The hook puts the job through four tools, of which each  *)
(* decides whether the next one sees it: openqa-label-known-issues,        *)
(* openqa-llm-investigate (the gate), openqa-investigate and               *)
(* openqa-trigger-bisect-jobs.  openQA calls the hook again from the start *)
(* when it exits with 142, so a tool meets its own earlier effects.        *)
(*                                                                         *)
(* One action is one tool, or the part of it up to the next state of       *)
(* openQA it reads.  openqa-investigate itself is in Investigate and       *)
(* PostInvestigate.                                                        *)
(***************************************************************************)
EXTENDS FiniteSets

CONSTANTS
  Kinds,  \* the kinds of jobs the hook is called for
  Faults  \* what may fail: "read": jobs, comments or issues can not be read,
          \* "llm": the gate fails, "post": the summary can not be posted

AllKinds == {"failed", "softfailed", "passed", "investigation", "bats"}
ASSUME HookAssumption ==
  /\ Kinds \subseteq AllKinds
  /\ Faults \subseteq {"read", "llm", "post"}

VARIABLES
  kind,     \* the kind of the job
  streak,   \* whether it failed three times in a row, as openQA's recent jobs show
  gated,    \* whether the LLM gate is enabled (llm_investigate)
  broken,   \* what of Faults fails now and then
  clustered,\* whether it has parallel or directly chained jobs
  exists,   \* whether openQA has the job
  pending,  \* whether jobs it depends on, or the jobs of its report, run
  restarted,\* whether the job was restarted
  reviewed, \* whether the job is reviewed
  issue,    \* what the issue tracker says about the failure
  pc,       \* the tool that is next, or how the hook ended
  answer,   \* what the LLM answered last
  done,     \* what the hook has done for the job, over all its calls
  again     \* what it has done more than once

vars == <<kind, streak, gated, broken, clustered, exists, pending, restarted, reviewed,
          issue, pc, answer, done, again>>
jobVars == <<kind, streak, gated, broken, clustered, exists, pending, restarted, reviewed, issue>>

Effects == {"label", "restart", "mail", "summary", "investigate", "bisect"}
Tools == {"label", "gate", "llm", "summary", "investigate", "bisect"}
Ends ==
  {"known", "unreviewable", "gone", "unreadable", "declined", "summarised", "finished"}

\* fetch_json, fetch_rows: what is seen of a fact; nothing if it can not be read.
Seen(fact) == {fact} \union (IF "read" \in broken THEN {FALSE} ELSE {})

Do(es) ==
  /\ done' = done \union es
  /\ again' = again \union (es \intersect done)
DoNothing == UNCHANGED <<done, again>>

----------------------------------------------------------------------------
Init ==
  /\ kind \in Kinds
  /\ streak \in {FALSE, kind = "failed"}
  /\ gated \in BOOLEAN
  /\ broken \in SUBSET Faults
  /\ exists = TRUE
  /\ clustered \in BOOLEAN
  /\ pending \in {FALSE, clustered, kind = "investigation"}
  /\ restarted \in BOOLEAN
  /\ reviewed \in BOOLEAN
  /\ issue \in {"unknown", "label", "restart", "no log"}
  /\ pc = "called"
  /\ answer = "none"
  /\ done = {}
  /\ again = {}

\* Investigation jobs go to openqa-investigate whatever the setting is.
Bypass == kind = "investigation" \/ ~gated

\* hook: which tool is first.  A container test may be reviewed by
\* openqa-bats-review, and if not goes the way of the others.  A job that can not
\* be read is left alone.
Call ==
  /\ pc = "called"
  /\ \/ ~exists /\ pc' = "gone"
     \/ "read" \in broken /\ pc' = "unreadable"
     \/ /\ exists
        /\ kind = "bats"
        /\ pc' = "known"
     \/ /\ exists
        /\ kind \in {"failed", "softfailed", "bats"}
        /\ pc' = "label"
     \/ /\ exists
        /\ kind \in {"passed", "investigation"}
        /\ pc' = IF Bypass THEN "investigate" ELSE "gate"
  /\ UNCHANGED <<jobVars, answer>> /\ DoNothing

\* openqa-label-known-issues: only for an unknown issue does it print the URL
\* the hook goes on with.  The issues that could not be read are unknown, a job
\* that could not be read is left alone.
Label ==
  /\ pc = "label"
  /\ \/ /\ exists /\ issue \in {"label", "restart"}
        /\ Do({"label"} \union ({"restart"} \intersect {issue}))
        /\ restarted' = (restarted \/ issue = "restart")
        /\ pc' = "known"
     \/ /\ ~exists \/ issue = "no log" \/ "read" \in broken
        /\ pc' = "unreviewable"
        /\ UNCHANGED restarted /\ DoNothing
     \/ /\ exists
        /\ issue = "unknown" \/ (issue # "no log" /\ "read" \in broken)
        /\ IF restarted THEN DoNothing ELSE Do({"mail"})
        /\ pc' = IF Bypass THEN "investigate" ELSE "gate"
        /\ UNCHANGED restarted
  /\ UNCHANGED <<kind, streak, gated, broken, clustered, exists, pending, reviewed, issue, answer>>

\* Mutant of Summarised: the gate does not look for its own comment.
SummarisedNever == FALSE

\* is_reviewed: whether a comment carries a bugref or a label.
IsReviewed == Seen(reviewed)

\* The gate has posted a summary on the job before.
Summarised == exists /\ "summary" \in done

\* openqa-llm-investigate up to the question.  Leaving without output ends the
\* hook, output or failure lets openqa-investigate run.  It fails as well when it
\* can not read the job.
Gate ==
  /\ pc = "gate"
  /\ \/ Summarised /\ pc' = "summarised"
     \/ /\ ~Summarised \/ "read" \in broken
        /\ \/ ~exists /\ pc' = "gone"
           \/ exists /\ kind \in {"passed", "softfailed"} /\ pc' = "declined"
           \/ exists /\ kind \in {"failed", "bats"} /\ TRUE \in IsReviewed
              /\ pc' = "investigate"
           \/ \* no failed modules to analyse, or something to ask about
              /\ exists /\ kind \in {"failed", "bats"} /\ FALSE \in IsReviewed
              /\ pc' \in {"declined", "llm"}
     \/ broken \intersect {"llm", "read"} # {} /\ pc' = "investigate"
  /\ UNCHANGED <<jobVars, answer>> /\ DoNothing

\* Mutant of AskLLM: what the LLM says is taken as it is.
AskLLMVerbatim ==
  /\ pc = "llm"
  /\ answer' \in {"yes", "no", "maybe"}
  /\ pc' = "summary"
  /\ UNCHANGED jobVars /\ DoNothing

\* Mutant of BisectVerdict: the history is not looked at.
BisectVerdictAlone(said, told) == said

\* enforce_history_rules and bisect_verdict: after a streak of failures, if the
\* gate is told of it, a YES becomes a NO, whatever is said about it.
BisectVerdict(said, told) == IF told /\ said = "yes" THEN "no" ELSE said

\* The LLM answers after minutes.  Without a usable answer there is no summary.
AskLLM ==
  /\ pc = "llm"
  /\ \/ /\ \E said \in {"yes", "no"}, told \in Seen(streak) :
             answer' = BisectVerdict(said, told)
        /\ pc' = "summary"
     \/ /\ answer' = "unclear"
        /\ pc' = "investigate"
     \/ /\ "llm" \in broken
        /\ pc' = "investigate"
        /\ UNCHANGED answer
  /\ UNCHANGED jobVars /\ DoNothing

\* Mutant of PostSummary: the answer is not acted on.
PostSummaryIgnored ==
  /\ pc = "summary"
  /\ IF exists /\ ~reviewed THEN Do({"summary"}) ELSE DoNothing
  /\ pc' = "investigate"
  /\ UNCHANGED <<jobVars, answer>>

\* _post_summary: a failing post is only logged.
PostSummary ==
  /\ pc = "summary"
  /\ \/ exists /\ FALSE \in IsReviewed /\ Do({"summary"})
     \/ (~exists \/ reviewed \/ "post" \in broken) /\ DoNothing
  /\ pc' = IF answer = "no" THEN "declined" ELSE "investigate"
  /\ UNCHANGED <<jobVars, answer>>

\* Mutant of Investigate: exit code 142 is an exit code like the others.
InvestigateGoesOn ==
  /\ pc = "investigate"
  /\ IF ~exists \/ restarted \/ pending THEN DoNothing ELSE Do({"investigate"})
  /\ pc' = "bisect"
  /\ UNCHANGED <<jobVars, answer>>

\* Mutant of Investigate: a restarted job counts as one that runs.
InvestigateWaits ==
  /\ pc = "investigate"
  /\ IF exists /\ (pending \/ restarted)
     THEN pc' = "postponed" /\ DoNothing
     ELSE pc' = "bisect" /\ Do({"investigate"})
  /\ UNCHANGED <<jobVars, answer>>

\* openqa-investigate: nothing for a job that is gone or restarted, 142 while
\* jobs it needs run, and whatever else it does or fails to do, bisection is
\* next.
Investigate ==
  /\ pc = "investigate"
  /\ \/ /\ ~exists \/ (restarted /\ kind # "investigation")
        /\ pc' = "bisect" /\ DoNothing
     \/ /\ exists /\ (~restarted \/ kind = "investigation") /\ pending
        /\ pc' = "postponed" /\ DoNothing
     \/ /\ exists /\ (~restarted \/ kind = "investigation") /\ ~pending
        /\ Do({"investigate"})
        /\ pc' = "bisect"
  /\ UNCHANGED <<jobVars, answer>>

\* openqa-trigger-bisect-jobs: one job per update, if updates differ, for a job
\* that is no part of a cluster and no investigation itself.
Bisect ==
  /\ pc = "bisect"
  /\ \/ /\ exists /\ ~restarted /\ ~clustered
        /\ kind \notin {"passed", "investigation"}
        /\ Do({"bisect"})
     \/ DoNothing
  /\ pc' = "finished"
  /\ UNCHANGED <<jobVars, answer>>

\* openQA calls the hook again after exit code 142.
RetryHook ==
  /\ pc = "postponed"
  /\ pc' = "called"
  /\ UNCHANGED <<jobVars, answer, done, again>>

----------------------------------------------------------------------------
\* What others do meanwhile.
hookVars == <<pc, answer, done, again>>

FinishOthers ==
  /\ pending /\ pending' = FALSE
  /\ UNCHANGED <<kind, streak, gated, broken, clustered, exists, restarted, reviewed, issue, hookVars>>

ReviewJob ==
  /\ exists /\ ~reviewed /\ reviewed' = TRUE
  /\ UNCHANGED <<kind, streak, gated, broken, clustered, exists, pending, restarted, issue, hookVars>>

ReportIssue ==
  /\ issue = "unknown" /\ issue' \in {"label", "restart"}
  /\ UNCHANGED <<kind, streak, gated, broken, clustered, exists, pending, restarted, reviewed, hookVars>>

RestartJob ==
  /\ exists /\ ~restarted /\ restarted' = TRUE
  /\ UNCHANGED <<kind, streak, gated, broken, clustered, exists, pending, reviewed, issue, hookVars>>

DeleteJob ==
  /\ exists /\ exists' = FALSE
  /\ UNCHANGED <<kind, streak, gated, broken, clustered, pending, restarted, reviewed, issue, hookVars>>

Step ==
  Call \/ Label \/ Gate \/ AskLLM \/ PostSummary \/ Investigate \/ Bisect \/ RetryHook
Next == Step \/ FinishOthers \/ ReviewJob \/ ReportIssue \/ RestartJob \/ DeleteJob

Spec == Init /\ [][Next]_vars
\* The tools return, openQA retries the hook, and the jobs it waits for finish.
FairSpec == Spec /\ WF_vars(Step) /\ WF_vars(FinishOthers)

----------------------------------------------------------------------------
TypeOK ==
  /\ kind \in Kinds
  /\ broken \subseteq Faults
  /\ {streak, gated, clustered, exists, pending, restarted, reviewed} \subseteq BOOLEAN
  /\ issue \in {"unknown", "label", "restart", "no log"}
  /\ pc \in Tools \union Ends \union {"called", "postponed"}
  /\ answer \in {"none", "yes", "no", "unclear"}
  /\ done \subseteq Effects
  /\ again \subseteq done

\* hook and openqa-llm-investigate's search for its own comment: however often
\* openQA calls the hook for a job, and whatever happens to the job in between,
\* nothing but the mail to the reviewers is done twice.  Unless comments can not
\* be read: then there may be two summaries.
OnlyMailsRepeat ==
  again \subseteq {"mail"} \union (IF "read" \in broken THEN {"summary"} ELSE {})

\* investigate-and-bisect: once the issue turns out to be known, or the gate
\* declines, also if only on a later call of the hook, the job has not been
\* investigated and will not be.
DeclinedIsNotInvestigated ==
  pc \in {"known", "declined", "summarised"} \/ answer = "no" =>
    done \intersect {"investigate", "bisect"} = {}

\* investigate-and-bisect, exit code 142: a hook that has finished has called
\* openqa-investigate when the other jobs were done, not only before, unless
\* there is no need to any more.
FinishedIsInvestigated ==
  pc = "finished" /\ exists /\ ~restarted => "investigate" \in done

\* enforce_history_rules, "neither a bisection nor a restart is likely to help":
\* a job at the end of a streak of failures is not investigated on the word of
\* the LLM, but only when the gate is not asked, fails or has no usable answer.
\* Unless jobs can not be read: then the gate knows of no streak, and a YES stands.
StreakIsNotInvestigated ==
  streak /\ gated /\ "investigate" \in done =>
    reviewed \/ broken \intersect {"llm", "read"} # {} \/ answer = "unclear"

\* hook: every hook comes to an end, however often it was postponed.
HookEnds == <>(pc \in Ends)

\* investigate-and-bisect, "If it decides no further investigation is needed, it
\* won't output the test URL": a hook that ends because the gate has no output
\* does so after a decision against an investigation, or after one.
PostponedIsInvestigated ==
  pc = "summarised" => answer = "no" \/ "investigate" \in done
============================================================================
