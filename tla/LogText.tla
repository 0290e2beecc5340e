------------------------------- MODULE LogText -------------------------------
(* What openqa-llm-investigate shows of the logs of a job: condensed          *)
(* (condense_log in text.py), the range of the failing steps, fatal boot      *)
(* events and the lines of a job without failed modules (logs.py).            *)
(*                                                                            *)
(* A log is a sequence of kinds of lines, a line is known by its place.       *)
EXTENDS Places

CONSTANTS
  Context,       \* context_lines
  FramesShown,   \* _STACK_FRAMES_SHOWN
  EventGap,      \* _EVENT_GAP
  EventBefore,   \* _EVENT_BEFORE
  EventAfter,    \* _EVENT_AFTER
  LookBack,      \* _EXPECTED_LOOKBACK
  SignalContext, \* _SIGNAL_CONTEXT_LINES
  ExcerptMax,    \* _JOB_LOG_MAX_LINES
  TailLines      \* _JOB_LOG_TAIL_LINES

ASSUME TextAssumption ==
  /\ FramesShown \in Nat \ {0} /\ ExcerptMax \in Nat /\ TailLines \in Nat
  /\ EventGap \in Nat /\ EventBefore \in Nat /\ EventAfter \in Nat
  /\ LookBack \in Nat /\ SignalContext \in Nat
-----------------------------------------------------------------------------
(* Lines of autoinst-log.txt: with a time stamp and a signal, a debug line    *)
(* with a time stamp that has none, a poll for a needle, what continues a     *)
(* line, a stack frame, and a marker or frame of the framework.               *)
TextKinds == {"signal", "debug", "poll", "more", "frame", "noise"}
Stamped(k) == k \in {"signal", "debug", "poll"}

(* Mutant of Dropping: a line that is kept does not end what is dropped.      *)
DroppingOn(k, dropping) == dropping \/ k = "debug"

(* Is what continues this line dropped?  Noise is passed over.                *)
Dropping(k, dropping) == IF Stamped(k) THEN k = "debug" ELSE dropping

(* Whether what continues a line is dropped, after each line of a log.        *)
DroppingAfter(log) ==
  LET dropping[i \in 0 .. Len(log)] ==
        IF i = 0 THEN FALSE ELSE Dropping(log[i], dropping[i - 1])
  IN  dropping

(* condense_log with autoinst=True: the lines that are kept.  The polls become*)
(* one line where the first was.                                              *)
Polls(log) == {i \in DOMAIN log : log[i] = "poll"}
Kept(log) ==
  LET dropping == DroppingAfter(log)
  IN  {i \in DOMAIN log :
         \/ log[i] = "signal"
         \/ log[i] = "poll" /\ \A j \in Polls(log) : i <= j
         \/ log[i] \in {"more", "frame"} /\ ~ dropping[i - 1]}

(* trim_stack_frames: of frames that follow each other the first ones.        *)
Trimmed(log, lines) ==
  LET frames(i, j) == \A m \in lines : m \in i .. j => log[m] = "frame"
  IN  {j \in lines : Cardinality({i \in lines : i <= j /\ frames(i, j)}) > FramesShown}

(* _keep_tail: the last lines, and how many are left out.                     *)
Condense(log, n) ==
  LET lines == LastOf(Kept(log), n)
  IN  [omitted |-> Cardinality(Kept(log)) - Cardinality(lines),
       polls |-> Cardinality(Polls(log)),
       lines |-> lines, trimmed |-> Trimmed(log, lines)]
-----------------------------------------------------------------------------
(* Lines of a log in which a range is looked for: with the start or the end   *)
(* of it, as a "# " command line or not, or with neither.                     *)
RangeKinds == {"start", "#start", "end", "#end", "other"}
Has(k, marker) ==
  k \in IF marker = "start" THEN {"start", "#start"} ELSE {"end", "#end"}

(* Mutant of MatchIndex: the first match is taken.                            *)
MatchIndexFirst(log, marker) ==
  LET matches == {i \in DOMAIN log : Has(log[i], marker)}
  IN  IF matches = {} THEN 0 ELSE Min(matches)

(* The last command line that contains the marker, else the last line.        *)
MatchIndex(log, marker) ==
  LET matches == {i \in DOMAIN log : Has(log[i], marker)}
      commands == {i \in matches : log[i] # marker}
  IN  Max({0} \cup (IF commands # {} THEN commands ELSE matches))

(* find_log_range: the first lines of the span, how many are left out and the *)
(* last ones; without an end the span is as long as the limit.                *)
FindLogRange(log, max) ==
  LET start == MatchIndex(log, "start")
      end == MatchIndex(log, "end")
      half == max \div 2
      span(from, to) == [i \in 1 .. to - from + 1 |-> from + i - 1]
  IN  CASE start = 0 -> [first |-> <<>>, omitted |-> 0, last |-> <<>>]
        [] start > 0 /\ end < start ->
             [first |-> span(start, Min({Len(log), start + max - 1})),
              omitted |-> 0, last |-> <<>>]
        [] start > 0 /\ end >= start /\ end - start + 1 > max ->
             [first |-> span(start, start + half - 1),
              omitted |-> end - start + 1 - max, last |-> span(end - half + 1, end)]
        [] OTHER -> [first |-> span(start, end), omitted |-> 0, last |-> <<>>]
-----------------------------------------------------------------------------
(* Lines of a console: a fatal one, the crash that a test triggers by sysrq,  *)
(* the instruction pointer of an oops, a dump of registers, and others.       *)
ConsoleKinds == {"fatal", "sysrq", "rip", "register", "other"}

FatalEvents(log) == Groups({i \in DOMAIN log : log[i] = "fatal"}, Len(log), EventGap)

(* Mutant of EventExpected: what is inside an event is not looked at.         *)
EventExpectedBefore(log, ev) ==
  \E i \in DOMAIN log : log[i] = "sysrq" /\ i \in Min(ev) - LookBack .. Min(ev)

EventExpected(log, ev) ==
  \E i \in DOMAIN log : log[i] = "sysrq" /\ i \in Min(ev) - LookBack .. Max(ev)

Expected(log) == {n \in DOMAIN FatalEvents(log) : EventExpected(log, FatalEvents(log)[n])}

(* _crash_report: the last event that no test triggered, else the last one.   *)
CrashReport(log) ==
  LET events == FatalEvents(log)
      unexpected == DOMAIN events \ Expected(log)
      first == Min(events[Max(IF unexpected # {} THEN unexpected ELSE DOMAIN events)])
  IN  IF events = <<>> THEN [first |-> 0, lines |-> {}, expected |-> FALSE]
      ELSE [first |-> first,
            lines |-> {i \in DOMAIN log :
                         /\ i \in first - Min({Context, EventBefore})
                                    .. first + Min({Context, EventAfter})
                         /\ i = first \/ log[i] # "register"},
            expected |-> Len(events) = 1 /\ unexpected = {}]

(* kdump_oops_symbol: where an oops that no test triggered names its function,*)
(* in an event after one that a test triggered; the last such event.          *)
KdumpOops(log) ==
  LET events == FatalEvents(log)
      rips(n) == {i \in Min(events[n]) .. Max(events[n]) : log[i] = "rip"}
      named == {n \in DOMAIN events \ Expected(log) :
                  (\E m \in Expected(log) : m < n) /\ rips(n) # {}}
  IN  IF named = {} THEN 0 ELSE Min(rips(Max(named)))
-----------------------------------------------------------------------------
(* Lines of the log of a job without failed modules: with a signal, one of    *)
(* the wrapper of a script, text, and blank.                                  *)
JobLogKinds == {"signal", "wrapper", "text", "blank"}

(* extract_job_log_excerpt: signals with the lines after them.                *)
JobLogExcerpt(log) ==
  LET keep == {i \in DOMAIN log : \E s \in DOMAIN log :
                 log[s] = "signal" /\ i \in s .. s + SignalContext - 1}
  IN  LastOf({i \in keep : log[i] \notin {"blank", "wrapper"}}, ExcerptMax)

(* A good result, or none, without a reason.                                  *)
Quiet(job) == ~ job.reason /\ job.result \in {"passed", "softfailed", "none"}

(* job_level_failure: nothing for a good result without a reason, nor without *)
(* a reason and a log; the excerpt, else the end of the log.                  *)
JobLevelFailure(job, log) ==
  LET text == {i \in DOMAIN log : log[i] # "blank"}
  IN  IF Quiet(job) \/ (~ job.reason /\ text = {})
      THEN [reported |-> FALSE, lines |-> {}]
      ELSE [reported |-> TRUE,
            lines |-> IF JobLogExcerpt(log) # {} THEN JobLogExcerpt(log)
                      ELSE LastOf(text, TailLines)]
=============================================================================
