--------------------------- MODULE PowerManagement ---------------------------
(* Power management of worker machines (openqa-powermanagement.py): started   *)
(* again and again, it reads the scheduled jobs and, later, the workers, and  *)
(* switches machines on that jobs need and machines off that are idle or      *)
(* broken.  openQA goes on assigning jobs to workers meanwhile.               *)
(*                                                                            *)
(* Machines are numbers, in the order in which their names are sorted.        *)
EXTENDS Integers, Sequences, FiniteSets

CONSTANTS
  Machines,  \* the worker machines, all with commands to switch them
  Workers,   \* the worker instances
  Host,      \* [Workers -> Machines]
  Provides,  \* [Workers -> set of worker classes]
  Jobs,      \* the jobs
  Needs,     \* [Jobs -> set of worker classes]
  NoWorker   \* no worker

ASSUME PowerAssumption ==
  /\ Machines \subseteq Nat /\ IsFiniteSet(Machines)
  /\ Host \in [Workers -> Machines]
  /\ DOMAIN Provides = Workers /\ DOMAIN Needs = Jobs
  /\ NoWorker \notin Workers

VARIABLES
  on,      \* [Machines -> whether it has power]
  status,  \* [Workers -> what openQA takes it for]
  worker,  \* [Jobs -> the worker that runs it]
  state,   \* [Jobs -> its state]
  pc,      \* what the script does
  classes, \* jobs_worker_classes
  seen,    \* [Workers -> its status when the workers were read]
  toOn,    \* machines still to be switched on, sorted
  toOff    \* machines still to be switched off

outside == <<on, status, worker, state>>
script == <<pc, classes, seen, toOn, toOff>>
vars == <<outside, script>>

Statuses == {"idle", "running", "dead", "broken"}

Unread == [w \in Workers |-> "dead"]

TypeOK ==
  /\ on \in [Machines -> BOOLEAN]
  /\ status \in [Workers -> Statuses] /\ seen \in [Workers -> Statuses]
  /\ worker \in [Jobs -> Workers \union {NoWorker}]
  /\ state \in [Jobs -> {"scheduled", "running", "done"}]
  /\ pc \in {"jobs", "workers", "on", "off"}
  /\ classes \subseteq {Needs[j] : j \in Jobs}
  /\ toOn \in Seq(Machines) /\ toOff \in Seq(Machines)

Init ==
  /\ on = [m \in Machines |-> FALSE]
  /\ status = Unread /\ seen = Unread
  /\ worker = [j \in Jobs |-> NoWorker]
  /\ state \in [Jobs -> {"scheduled", "done"}]
  /\ pc = "jobs" /\ classes = {} /\ toOn = <<>> /\ toOff = <<>>
-----------------------------------------------------------------------------
(* The lists of machines, from the status of the workers.                     *)
Busy(st) == {Host[w] : w \in {v \in Workers : st[v] = "running"}}
Broken(st) == {Host[w] : w \in {v \in Workers : st[v] = "broken"}}

(* Mutant of Idle: a busy worker does not matter.                             *)
IdleAnyway(st) == {Host[w] : w \in {v \in Workers : st[v] = "idle"}}

(* A machine is idle when a worker is and no worker is busy.                  *)
Idle(st) == {Host[w] : w \in {v \in Workers : st[v] = "idle"}} \ Busy(st)

(* It is offline when a worker is and no worker is busy or idle.              *)
Offline(st) ==
  ({Host[w] : w \in {v \in Workers : st[v] = "dead"}} \ Busy(st)) \ Idle(st)

(* Mutant of PoweredOnFor: a worker provides what the job needs, and no more. *)
PoweredOnForExactly(st, needed) ==
  {Host[w] : w \in {v \in Workers : Host[v] \in Offline(st) /\ Provides[v] \in needed}}

(* The machines with a worker that could run a job, all classes given.        *)
PoweredOnFor(st, needed) ==
  {Host[w] : w \in {v \in Workers : /\ Host[v] \in Offline(st)
                                    /\ \E c \in needed : c \subseteq Provides[v]}}

(* Each machine once, at the place that the number of smaller ones gives it.  *)
Sorted(S) ==
  [i \in 1 .. Cardinality(S) |-> CHOOSE m \in S : Cardinality({n \in S : n < m}) = i - 1]

(* The script ends, and forgets everything.                                   *)
End ==
  /\ pc' = "jobs" /\ toOn' = <<>> /\ toOff' = <<>>
  /\ classes' = {} /\ seen' = Unread
  /\ UNCHANGED outside

(* Mutant of ListJobs: a job that is gone by now has no classes.              *)
ListJobsGone ==
  /\ pc = "jobs"
  /\ classes' = {Needs[j] : j \in {i \in Jobs : state[i] = "scheduled"}} \union {{}}
  /\ pc' = "workers"
  /\ UNCHANGED <<outside, seen, toOn, toOff>>

(* The script starts: the scheduled jobs, and the classes of each.            *)
ListJobs ==
  /\ pc = "jobs"
  /\ classes' = {Needs[j] : j \in {i \in Jobs : state[i] = "scheduled"}}
  /\ pc' = "workers"
  /\ UNCHANGED <<outside, seen, toOn, toOff>>

(* Mutant of ReadWorkers: broken machines are left as they are.               *)
ReadWorkersIdle ==
  /\ pc = "workers"
  /\ seen' = status
  /\ toOn' = Sorted(PoweredOnFor(status, classes))
  /\ toOff' = Sorted(Idle(status))
  /\ pc' = "on"
  /\ UNCHANGED <<outside, classes>>

(* The workers, and what is to be done about their machines.  One that is     *)
(* idle and broken is listed twice.                                           *)
ReadWorkers ==
  /\ pc = "workers"
  /\ seen' = status
  /\ toOn' = Sorted(PoweredOnFor(status, classes))
  /\ toOff' = Sorted(Idle(status)) \o Sorted(Broken(status))
  /\ pc' = "on"
  /\ UNCHANGED <<outside, classes>>

(* The next machine is switched on, unless it has broken workers.             *)
SwitchOn ==
  /\ pc = "on" /\ toOn # <<>>
  /\ IF Head(toOn) \in Broken(seen)
     THEN UNCHANGED on
     ELSE on' = [on EXCEPT ![Head(toOn)] = TRUE]
  /\ toOn' = Tail(toOn)
  /\ UNCHANGED <<status, worker, state, pc, classes, seen, toOff>>

AllSwitchedOn ==
  /\ pc = "on" /\ toOn = <<>> /\ pc' = "off"
  /\ UNCHANGED <<outside, classes, seen, toOn, toOff>>

(* The next machine is switched off.                                          *)
SwitchOff ==
  /\ pc = "off" /\ toOff # <<>>
  /\ on' = [on EXCEPT ![Head(toOff)] = FALSE]
  /\ toOff' = Tail(toOff)
  /\ UNCHANGED <<status, worker, state, pc, classes, seen, toOn>>

AllSwitchedOff == pc = "off" /\ toOff = <<>> /\ End

(* A request that is not answered, or a command that fails, ends the script.  *)
Fail ==
  /\ \/ pc = "workers"
     \/ pc = "on" /\ toOn # <<>>
     \/ pc = "off" /\ toOff # <<>>
  /\ End
-----------------------------------------------------------------------------
(* openQA, the machines and the people who look after them.                   *)
Assign(j, w) ==
  /\ state[j] = "scheduled" /\ status[w] = "idle" /\ Needs[j] \subseteq Provides[w]
  /\ state' = [state EXCEPT ![j] = "running"]
  /\ worker' = [worker EXCEPT ![j] = w]
  /\ status' = [status EXCEPT ![w] = "running"]
  /\ UNCHANGED <<on, script>>

FinishJob(j) ==
  /\ state[j] = "running" /\ on[Host[worker[j]]]
  /\ state' = [state EXCEPT ![j] = "done"]
  /\ status' = [status EXCEPT ![worker[j]] = "idle"]
  /\ worker' = [worker EXCEPT ![j] = NoWorker]
  /\ UNCHANGED <<on, script>>

ScheduleJob(j) ==
  /\ state[j] = "done" /\ state' = [state EXCEPT ![j] = "scheduled"]
  /\ UNCHANGED <<on, status, worker, script>>

(* openQA misses a worker and schedules its job again.                        *)
MissWorker(w) ==
  /\ ~on[Host[w]] /\ status[w] # "dead"
  /\ status' = [status EXCEPT ![w] = "dead"]
  /\ state' = [j \in Jobs |-> IF worker[j] = w THEN "scheduled" ELSE state[j]]
  /\ worker' = [j \in Jobs |-> IF worker[j] = w THEN NoWorker ELSE worker[j]]
  /\ UNCHANGED <<on, script>>

(* The machine has booted, and the worker is there again.                     *)
Register(w) ==
  /\ on[Host[w]] /\ status[w] = "dead"
  /\ status' = [status EXCEPT ![w] = "idle"]
  /\ UNCHANGED <<on, worker, state, script>>

BreakOrFix(w) ==
  /\ on[Host[w]]
  /\ \/ status[w] = "idle" /\ status' = [status EXCEPT ![w] = "broken"]
     \/ status[w] = "broken" /\ status' = [status EXCEPT ![w] = "idle"]
  /\ UNCHANGED <<on, worker, state, script>>

Proceed ==
  ListJobs \/ ReadWorkers \/ SwitchOn \/ AllSwitchedOn \/ SwitchOff \/ AllSwitchedOff

Next ==
  \/ Proceed \/ Fail
  \/ \E j \in Jobs, w \in Workers : Assign(j, w)
  \/ \E j \in Jobs : FinishJob(j) \/ ScheduleJob(j)
  \/ \E w \in Workers : MissWorker(w) \/ Register(w) \/ BreakOrFix(w)

Spec == Init /\ [][Next]_vars

(* The script is started again and again, and what it tries again and again   *)
(* does not always fail; openQA notices what becomes of its workers.          *)
FairSpec ==
  /\ Spec
  /\ WF_vars(ListJobs) /\ SF_vars(ReadWorkers)
  /\ SF_vars(SwitchOn) /\ WF_vars(AllSwitchedOn)
  /\ SF_vars(SwitchOff) /\ WF_vars(AllSwitchedOff)
  /\ \A w \in Workers : WF_vars(MissWorker(w)) /\ WF_vars(Register(w))
-----------------------------------------------------------------------------
(* "Remove the machine from idle/offline lists if at least 1 worker is busy": *)
(* a machine is not switched off under a job that was running when the        *)
(* workers were read, whatever happened since, unless a worker is broken      *)
(* there, too.                                                                *)
RunningJobsKeepPower ==
  [][\A w \in Workers :
       on[Host[w]] /\ ~on'[Host[w]] /\ seen[w] = "running" =>
         \E v \in Workers : Host[v] = Host[w] /\ seen[v] = "broken"]_vars

(* "Power on machines which can run scheduled jobs": a job does not wait for  *)
(* ever with all the machines without power that could run it, though lists   *)
(* are old when they are used, runs fail and workers break.                   *)
Capable(j) == {w \in Workers : Needs[j] \subseteq Provides[w]}
NeededMachineStarts ==
  \A j \in Jobs : state[j] = "scheduled" ~>
    state[j] # "scheduled" \/ \E w \in Capable(j) : on[Host[w]]

(* "Power off machines which are idle or broken": when there are no more      *)
(* jobs, all machines are switched off in the end, and stay off.              *)
UnusedMachinesStop ==
  <>[](\A j \in Jobs : state[j] = "done") => <>[](\A m \in Machines : ~on[m])
=============================================================================
