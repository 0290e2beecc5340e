---------------------------- MODULE ZombieReaper ----------------------------
(* The s390x hypervisor reaper (s390x-qemu-zombie-reaper.py): runs of the     *)
(* script that exclude each other with a file lock, one thread per host in a  *)
(* run, the hosts, and the state file in which the last reboot of each host   *)
(* outlives the run that ordered it.                                          *)
(*                                                                            *)
(* A tick stands for some minutes.  No absolute time is kept: rec is the age  *)
(* of a record in the state file, age the time since a host was last told to  *)
(* boot, left what remains of the wait of a thread.  All of them stop at the  *)
(* constant they are compared with.  SSH commands and openQA calls take       *)
(* seconds, so no tick falls between them; HMC operations take many minutes.  *)
EXTENDS Integers, FiniteSets

CONSTANTS
  Hosts,        \* HYPERVISORS
  Procs,        \* runs of the script that may overlap (cron, a person)
  NoRun,        \* nobody holds the lock
  MaxWait,      \* --max-wait-minutes, in ticks
  BootWait,     \* boot_wait_minutes, in ticks
  Stability,    \* --stability-delay-minutes, in ticks
  BootTime,     \* a host that boots is up after at most so many ticks
  HmcWait,      \* HMC_JOB_TIMEOUT, HMC_STATUS_TIMEOUT with the requests, in ticks
  Concurrency,  \* --concurrency
  HmcFallback,  \* --hmc-fallback
  Methods,      \* the reboot methods looked at, of {"sysrq", "reboot"}
  FaultSets,    \* the combinations of faults looked at
  Hangs         \* bound: how often a host hangs, over all hosts

AllFaults == {"disk", "die", "hmc", "openqa", "blip"}

ASSUME ReaperAssumption ==
  /\ IsFiniteSet(Hosts) /\ NoRun \notin Procs
  /\ MaxWait \in Nat /\ BootWait \in Nat /\ Stability \in Nat
  /\ BootTime \in Nat \ {0} /\ HmcWait \in Nat
  /\ Hangs \in Nat /\ Concurrency \in Nat
  /\ HmcFallback \in BOOLEAN
  /\ Methods \subseteq {"sysrq", "reboot"}
  /\ FaultSets \subseteq SUBSET AllFaults

None == -1                                   \* no record in the state file

Larger(m, n) == IF m > n THEN m ELSE n

(* The time a host that was told to boot is owed before it is reset.          *)
Grace == IF MaxWait < BootWait THEN MaxWait ELSE BootWait
AgeCap == Larger(MaxWait, Larger(BootWait, BootTime))
LeftCap == Larger(AgeCap, Larger(Stability, HmcWait))

VARIABLES
  method,   \* config.reboot_method of the runs
  broken,   \* the faults that may strike in this behaviour
  power,    \* [Hosts -> Powers]
  health,   \* [Hosts -> {"ok", "zombie", "libvirt"}]
  age,      \* [Hosts -> 0 .. AgeCap] time since the host was told to boot
  late,     \* [Hosts -> 0 .. MaxWait] how old the record was when the boot began
  job,      \* [Hosts -> Jobs] the openQA job on the worker of the host
  hangs,    \* how many more times a host may hang
  rec,      \* [Hosts -> age of its record in the state file, or None]
  lock,     \* the run that holds the lock file, or NoRun
  pc,       \* [Procs -> [Hosts -> Stages]] where handle_host is
  left,     \* [Procs -> [Hosts -> what remains of the wait of the thread]]
  listed,   \* [Procs -> [Hosts -> whether the job list names the job]]
  down,     \* [Procs -> [Hosts -> host_down]]
  again     \* [Procs -> [Hosts -> whether find_critical runs a second time]]

env == <<power, health, age, late, job, hangs>>
locals == <<left, listed, down, again>>
vars == <<method, broken, env, rec, lock, pc, locals>>

(* "going" still answers although it was told to reboot; "down" boots;        *)
(* "dead" hangs; "cleared" was reset by the HMC and has not loaded yet.       *)
Powers == {"up", "going", "down", "dead", "cleared"}
Jobs == {"none", "running", "lost", "again"}
Waiting == {"grace", "wait", "return", "settle"}
Asking == {"scan", "verify", "libvirt"}
Acting == {"list", "record", "command", "mark", "restart"}
Operating == {"reset", "load", "status"}     \* an HMC operation is under way
Stages == {"idle", "queued", "end"} \cup Asking \cup Waiting \cup Acting
            \cup Operating

TypeOK ==
  /\ method \in Methods /\ broken \in FaultSets
  /\ power \in [Hosts -> Powers]
  /\ health \in [Hosts -> {"ok", "zombie", "libvirt"}]
  /\ age \in [Hosts -> 0 .. AgeCap] /\ late \in [Hosts -> 0 .. MaxWait]
  /\ hangs \in 0 .. Hangs
  /\ job \in [Hosts -> Jobs]
  /\ rec \in [Hosts -> {None} \cup 0 .. MaxWait]
  /\ lock \in Procs \cup {NoRun}
  /\ pc \in [Procs -> [Hosts -> Stages]]
  /\ left \in [Procs -> [Hosts -> 0 .. LeftCap]]
  /\ listed \in [Procs -> [Hosts -> BOOLEAN]]
  /\ down \in [Procs -> [Hosts -> BOOLEAN]]
  /\ again \in [Procs -> [Hosts -> BOOLEAN]]

Init ==
  /\ method \in Methods /\ broken \in FaultSets
  /\ power = [h \in Hosts |-> "up"] /\ health = [h \in Hosts |-> "ok"]
  /\ age = [h \in Hosts |-> AgeCap] /\ late = [h \in Hosts |-> 0]
  /\ job = [h \in Hosts |-> "none"] /\ hangs = Hangs
  /\ rec = [h \in Hosts |-> None] /\ lock = NoRun
  /\ pc = [p \in Procs |-> [h \in Hosts |-> "idle"]]
  /\ left = [p \in Procs |-> [h \in Hosts |-> 0]]
  /\ listed = [p \in Procs |-> [h \in Hosts |-> FALSE]]
  /\ down = [p \in Procs |-> [h \in Hosts |-> FALSE]]
  /\ again = [p \in Procs |-> [h \in Hosts |-> FALSE]]
-----------------------------------------------------------------------------
(* Helpers of the thread of run p for host h.                                 *)
Goto(p, h, stage) == pc' = [pc EXCEPT ![p][h] = stage]

(* A wait of n ticks starts in a stage.                                       *)
WaitIn(p, h, stage, n) ==
  Goto(p, h, stage) /\ left' = [left EXCEPT ![p][h] = n]

(* What the outcome of an SSH connection to the host can be.                  *)
Connects(h) ==
  (IF power[h] \in {"up", "going"} THEN {TRUE} ELSE {FALSE})
    \cup (IF "blip" \in broken THEN {FALSE} ELSE {})

(* reboot_deadline: counted from the record, from now without one.            *)
GraceLeft(h) == IF rec[h] = None THEN MaxWait ELSE MaxWait - rec[h]

(* HostUnreachableError: the first time the host is polled until the reboot   *)
(* deadline, the second time it counts as down.                               *)
Unreachable(p, h) ==
  IF again[p][h]
  THEN /\ down' = [down EXCEPT ![p][h] = TRUE]
       /\ Goto(p, h, "list")
       /\ UNCHANGED left
  ELSE WaitIn(p, h, "grace", GraceLeft(h)) /\ UNCHANGED down

(* The whole job list of the host is worked off once it is back and stable.   *)
Settle(p, h) ==
  IF listed[p][h] THEN WaitIn(p, h, "settle", Stability)
                  ELSE Goto(p, h, "end") /\ UNCHANGED left
-----------------------------------------------------------------------------
(* reap: the lock file is tried without waiting; a run that does not get it   *)
(* exits at once.  reap_all_hosts submits a thread for every host.            *)
StartRun(p) ==
  /\ \A h \in Hosts : pc[p][h] = "idle"
  /\ lock = NoRun
  /\ lock' = p
  /\ pc' = [pc EXCEPT ![p] = [h \in Hosts |-> "queued"]]
  /\ UNCHANGED <<method, broken, env, rec, locals>>

(* The pool has `concurrency` workers; with less than two the hosts are       *)
(* handled one after the other.                                               *)
StartHost(p, h) ==
  /\ pc[p][h] = "queued"
  /\ Cardinality({g \in Hosts : pc[p][g] \notin {"queued", "end"}})
       < Larger(1, Concurrency)
  /\ Goto(p, h, "scan")
  /\ UNCHANGED <<method, broken, env, rec, lock, locals>>

(* The last thread has returned: the lock is released.                        *)
EndRun(p) ==
  /\ Hosts # {} /\ \A h \in Hosts : pc[p][h] = "end"
  /\ lock' = NoRun
  /\ pc' = [pc EXCEPT ![p] = [h \in Hosts |-> "idle"]]
  /\ left' = [left EXCEPT ![p] = [h \in Hosts |-> 0]]
  /\ listed' = [listed EXCEPT ![p] = [h \in Hosts |-> FALSE]]
  /\ down' = [down EXCEPT ![p] = [h \in Hosts |-> FALSE]]
  /\ again' = [again EXCEPT ![p] = [h \in Hosts |-> FALSE]]
  /\ UNCHANGED <<method, broken, env, rec>>
-----------------------------------------------------------------------------
(* check_host and find_critical.                                              *)

(* The first look for qemu processes in state Z or D.                         *)
Scan(p, h) ==
  /\ pc[p][h] = "scan"
  /\ \E answer \in Connects(h) :
       IF answer
       THEN /\ Goto(p, h, IF health[h] = "zombie" THEN "verify" ELSE "libvirt")
            /\ UNCHANGED <<left, down>>
       ELSE Unreachable(p, h)
  /\ UNCHANGED <<method, broken, env, rec, lock, listed, again>>

(* The second look: only processes seen twice make the host critical.         *)
Verify(p, h) ==
  /\ pc[p][h] = "verify"
  /\ \E answer \in Connects(h) :
       IF answer
       THEN /\ Goto(p, h, IF health[h] = "zombie" THEN "list" ELSE "libvirt")
            /\ UNCHANGED <<left, down>>
       ELSE Unreachable(p, h)
  /\ UNCHANGED <<method, broken, env, rec, lock, listed, again>>

(* check_libvirt_health: a call that times out on a host that hangs is no     *)
(* connection failure but a sign of an unhealthy libvirt.                     *)
CheckLibvirt(p, h) ==
  /\ pc[p][h] = "libvirt"
  /\ \/ /\ FALSE \in Connects(h)
        /\ Unreachable(p, h)
     \/ /\ \/ TRUE \in Connects(h) /\ health[h] # "ok"
           \/ power[h] = "dead"
        /\ Goto(p, h, "list")
        /\ UNCHANGED <<left, down>>
     \/ /\ TRUE \in Connects(h) /\ health[h] = "ok"
        /\ Goto(p, h, "end")
        /\ UNCHANGED <<left, down>>
  /\ UNCHANGED <<method, broken, env, rec, lock, listed, again>>

(* Mutant of GraceOver: the deadline is computed anew for every poll.         *)
GraceMoves(p, h) ==
  /\ pc[p][h] = "grace"
  /\ \/ /\ TRUE \in Connects(h)
        /\ WaitIn(p, h, "scan", 0)
        /\ again' = [again EXCEPT ![p][h] = TRUE]
     \/ /\ FALSE \in Connects(h) /\ left[p][h] = 0
        /\ WaitIn(p, h, "grace", MaxWait)
        /\ UNCHANGED again
  /\ UNCHANGED <<method, broken, env, rec, lock, listed, down>>

(* wait_for_host of check_host: the host answers, or does not when the        *)
(* deadline has passed.                                                       *)
GraceOver(p, h) ==
  /\ pc[p][h] = "grace"
  /\ \/ /\ TRUE \in Connects(h)
        /\ WaitIn(p, h, "scan", 0)
        /\ again' = [again EXCEPT ![p][h] = TRUE]
        /\ UNCHANGED down
     \/ /\ FALSE \in Connects(h) /\ left[p][h] = 0
        /\ down' = [down EXCEPT ![p][h] = TRUE]
        /\ Goto(p, h, "list")
        /\ UNCHANGED <<left, again>>
  /\ UNCHANGED <<method, broken, env, rec, lock, listed>>
-----------------------------------------------------------------------------
(* handle_host and trigger_actions for a critical host.                       *)

(* Mutant of ListJobs: without jobs nothing is done about a host that is down.*)
ListJobsOrEnd(p, h) ==
  /\ pc[p][h] = "list"
  /\ LET found == job[h] \in {"running", "lost"}
     IN  /\ listed' = [listed EXCEPT ![p][h] = found]
         /\ Goto(p, h, CASE ~down[p][h] -> "record"
                         [] down[p][h] /\ HmcFallback /\ found -> "mark"
                         [] OTHER -> "end")
  /\ UNCHANGED <<method, broken, env, rec, lock, left, down, again>>

(* get_running_jobs: nothing is listed when openQA does not answer.           *)
ListJobs(p, h) ==
  /\ pc[p][h] = "list"
  /\ \E found \in BOOLEAN :
       /\ found => job[h] \in {"running", "lost"}
       /\ ~found => job[h] \in {"none", "again"} \/ "openqa" \in broken
       /\ listed' = [listed EXCEPT ![p][h] = found]
  /\ Goto(p, h, CASE ~down[p][h] -> "record"
                  [] down[p][h] /\ HmcFallback -> "mark"
                  [] OTHER -> "end")
  /\ UNCHANGED <<method, broken, env, rec, lock, left, down, again>>

(* Mutant of Recorded: only the first reboot of a host is recorded.           *)
RecordedOnce(h) == rec' = [rec EXCEPT ![h] = IF @ = None THEN 0 ELSE @]

(* record_reboot: a write that fails is reported and ignored.                 *)
Recorded(h) ==
  \/ rec' = [rec EXCEPT ![h] = 0]
  \/ "disk" \in broken /\ UNCHANGED rec

(* issue_reboot: the reboot is recorded before it is ordered.                 *)
RecordReboot(p, h) ==
  /\ pc[p][h] = "record"
  /\ Recorded(h)
  /\ Goto(p, h, "command")
  /\ UNCHANGED <<method, broken, env, lock, locals>>

(* A job that runs on a host which stops is lost.                             *)
LoseJob(h) ==
  job' = [job EXCEPT ![h] = IF @ \in {"running", "again"} THEN "lost" ELSE @]

(* The command of issue_reboot: sysrq panics the kernel at once, a reboot     *)
(* lets the host answer for a while; a host that does not answer ignores it.  *)
(* Without jobs nobody waits for the host.                                    *)
Command(p, h) ==
  /\ pc[p][h] = "command"
  /\ \E answer \in Connects(h) :
       IF answer
       THEN /\ age' = [age EXCEPT ![h] = 0] /\ late' = [late EXCEPT ![h] = 0]
            /\ power' = [power EXCEPT ![h] =
                           IF method = "sysrq" THEN "down" ELSE "going"]
            /\ IF method = "sysrq" THEN LoseJob(h) ELSE UNCHANGED job
       ELSE UNCHANGED <<age, late, power, job>>
  /\ IF listed[p][h] THEN WaitIn(p, h, "wait", BootWait)
                     ELSE Goto(p, h, "end") /\ UNCHANGED left
  /\ UNCHANGED <<method, broken, health, hangs, rec, lock, listed, down, again>>

(* Mutant of WaitOver: the host is taken to be back when the wait is over.    *)
WaitOverBlind(p, h) ==
  /\ pc[p][h] = "wait"
  /\ Settle(p, h)
  /\ UNCHANGED <<method, broken, env, rec, lock, listed, down, again>>

(* recover_host: back over SSH, or forced by the HMC.                         *)
WaitOver(p, h) ==
  /\ pc[p][h] = "wait"
  /\ \/ TRUE \in Connects(h) /\ Settle(p, h)
     \/ /\ FALSE \in Connects(h) /\ left[p][h] = 0
        /\ Goto(p, h, IF HmcFallback THEN "mark" ELSE "end")
        /\ UNCHANGED left
  /\ UNCHANGED <<method, broken, env, rec, lock, listed, down, again>>

(* recover_host records the reset before it is ordered.                       *)
Mark(p, h) ==
  /\ pc[p][h] = "mark"
  /\ Recorded(h)
  /\ WaitIn(p, h, "reset", HmcWait)
  /\ UNCHANGED <<method, broken, env, lock, listed, down, again>>

(* An HMC call that fails, runs into its timeout or finds no credentials ends *)
(* the recovery: the jobs stay as they are.                                   *)
HmcFails(p, h) == "hmc" \in broken /\ Goto(p, h, "end") /\ UNCHANGED left

(* HmcSession.operate: an operation takes up to HmcWait until it has its      *)
(* effect, and may be reported as failed all the same.                        *)
NextOperation(p, h, stage) == WaitIn(p, h, stage, HmcWait) \/ HmcFails(p, h)

(* reset-clear of _reset_and_load: whatever runs on the LPAR is gone.         *)
Reset(p, h) ==
  /\ pc[p][h] = "reset"
  /\ \/ HmcFails(p, h) /\ UNCHANGED <<power, job>>
     \/ /\ NextOperation(p, h, "load")
        /\ power' = [power EXCEPT ![h] = "cleared"]
        /\ LoseJob(h)
  /\ UNCHANGED <<method, broken, health, age, late, hangs, rec, lock,
                 listed, down, again>>

(* Mutant of Load: a host that was reset is not waited for.                   *)
LoadAndForget(p, h) ==
  /\ pc[p][h] = "load"
  /\ power' = [power EXCEPT ![h] = "down"]
  /\ age' = [age EXCEPT ![h] = 0]
  /\ late' = [late EXCEPT ![h] = Larger(0, rec[h])]
  /\ Goto(p, h, "end")
  /\ UNCHANGED <<method, broken, health, job, hangs, rec, lock, locals>>

(* load of _reset_and_load: the host begins to boot, while the record in the  *)
(* state file is from before the HMC was called.                              *)
Load(p, h) ==
  /\ pc[p][h] = "load"
  /\ \/ HmcFails(p, h) /\ UNCHANGED <<power, age, late>>
     \/ /\ NextOperation(p, h, "status")
        /\ power' = [power EXCEPT ![h] = "down"]
        /\ age' = [age EXCEPT ![h] = 0]
        /\ late' = [late EXCEPT ![h] = Larger(0, rec[h])]
  /\ UNCHANGED <<method, broken, health, job, hangs, rec, lock,
                 listed, down, again>>

(* _wait_for_lpar_status; then the host is waited for once more.              *)
Status(p, h) ==
  /\ pc[p][h] = "status"
  /\ WaitIn(p, h, "return", BootWait) \/ HmcFails(p, h)
  /\ UNCHANGED <<method, broken, env, rec, lock, listed, down, again>>

(* The second wait of recover_host.                                           *)
ReturnOver(p, h) ==
  /\ pc[p][h] = "return"
  /\ \/ TRUE \in Connects(h) /\ Settle(p, h)
     \/ /\ FALSE \in Connects(h) /\ left[p][h] = 0
        /\ Goto(p, h, "end")
        /\ UNCHANGED left
  /\ UNCHANGED <<method, broken, env, rec, lock, listed, down, again>>

(* The stability delay of recover_for_jobs.                                   *)
Settled(p, h) ==
  /\ pc[p][h] = "settle" /\ left[p][h] = 0
  /\ Goto(p, h, "restart")
  /\ UNCHANGED <<method, broken, env, rec, lock, locals>>

(* trigger_actions restarts what was listed before the recovery.  A restart   *)
(* that openQA does not take is not repeated.                                 *)
RestartJobs(p, h) ==
  /\ pc[p][h] = "restart"
  /\ \/ job' = [job EXCEPT ![h] = "again"]
     \/ "openqa" \in broken /\ UNCHANGED job
  /\ Goto(p, h, "end")
  /\ UNCHANGED <<method, broken, power, health, age, late, hangs, rec, lock, locals>>
-----------------------------------------------------------------------------
(* The surroundings.                                                          *)

(* A run is killed: the kernel drops the lock of its lock file.               *)
Die(p) ==
  /\ "die" \in broken /\ lock = p
  /\ lock' = NoRun
  /\ pc' = [pc EXCEPT ![p] = [h \in Hosts |-> "idle"]]
  /\ left' = [left EXCEPT ![p] = [h \in Hosts |-> 0]]
  /\ listed' = [listed EXCEPT ![p] = [h \in Hosts |-> FALSE]]
  /\ down' = [down EXCEPT ![p] = [h \in Hosts |-> FALSE]]
  /\ again' = [again EXCEPT ![p] = [h \in Hosts |-> FALSE]]
  /\ UNCHANGED <<method, broken, env, rec>>

(* A guest turns into a zombie, or libvirt stops answering.                   *)
Sicken(h) ==
  /\ power[h] = "up" /\ health[h] = "ok"
  /\ \E sick \in {"zombie", "libvirt"} : health' = [health EXCEPT ![h] = sick]
  /\ UNCHANGED <<method, broken, power, age, late, job, hangs, rec, lock, pc, locals>>

(* What looked like a zombie was only a process about to end.                 *)
Heal(h) ==
  /\ power[h] = "up" /\ health[h] = "zombie"
  /\ health' = [health EXCEPT ![h] = "ok"]
  /\ UNCHANGED <<method, broken, power, age, late, job, hangs, rec, lock, pc, locals>>

(* A host hangs: nothing but the HMC brings it back.                          *)
Hang(h) ==
  /\ hangs > 0 /\ power[h] \in {"up", "going", "down"}
  /\ hangs' = hangs - 1
  /\ power' = [power EXCEPT ![h] = "dead"]
  /\ LoseJob(h)
  /\ UNCHANGED <<method, broken, health, age, late, rec, lock, pc, locals>>

(* The orderly shutdown that "reboot" started is done.                        *)
GoDown(h) ==
  /\ power[h] = "going"
  /\ power' = [power EXCEPT ![h] = "down"]
  /\ LoseJob(h)
  /\ UNCHANGED <<method, broken, health, age, late, hangs, rec, lock, pc, locals>>

Boot(h) ==
  /\ power[h] = "down" /\ age[h] >= 1
  /\ power' = [power EXCEPT ![h] = "up"]
  /\ health' = [health EXCEPT ![h] = "ok"]
  /\ UNCHANGED <<method, broken, age, late, job, hangs, rec, lock, pc, locals>>

(* A worker of the host picks up a job, and finishes it.  The scheduler of    *)
(* openQA does not look at the hypervisor.                                    *)
StartJob(h) ==
  /\ job[h] \in {"none", "again"} /\ power[h] \in {"up", "going"}
  /\ job' = [job EXCEPT ![h] = "running"]
  /\ UNCHANGED <<method, broken, power, health, age, late, hangs, rec, lock, pc, locals>>

EndJob(h) ==
  /\ job[h] \in {"running", "lost"}
  /\ job' = [job EXCEPT ![h] = "none"]
  /\ UNCHANGED <<method, broken, power, health, age, late, hangs, rec, lock, pc, locals>>
-----------------------------------------------------------------------------
(* Time passes while no thread is about to act, no wait is over, no operation *)
(* of the HMC and no host that boots is due.                                  *)
OneLess(n) == IF n > 0 THEN n - 1 ELSE 0
OneMore(n, cap) == IF n < cap THEN n + 1 ELSE cap

MayTick ==
  /\ \A p \in Procs, h \in Hosts :
       /\ pc[p][h] \notin Acting \cup Asking
       /\ pc[p][h] \in Waiting \cup Operating => left[p][h] > 0
       /\ pc[p][h] \in Waiting \ {"settle"} => power[h] \notin {"up", "going"}
  /\ \A h \in Hosts : power[h] \in {"going", "down"} => age[h] < BootTime

Tick ==
  /\ MayTick
  /\ age' = [h \in Hosts |-> OneMore(age[h], AgeCap)]
  /\ rec' = [h \in Hosts |-> IF rec[h] = None THEN None
                             ELSE OneMore(rec[h], MaxWait)]
  /\ left' = [p \in Procs |-> [h \in Hosts |-> OneLess(left[p][h])]]
  /\ UNCHANGED <<method, broken, power, health, late, job, hangs, lock, pc,
                 listed, down, again>>

Thread(p, h) ==
  \/ StartHost(p, h)
  \/ Scan(p, h) \/ Verify(p, h) \/ CheckLibvirt(p, h) \/ GraceOver(p, h)
  \/ ListJobs(p, h) \/ RecordReboot(p, h) \/ Command(p, h) \/ WaitOver(p, h)
  \/ Mark(p, h) \/ Reset(p, h) \/ Load(p, h) \/ Status(p, h)
  \/ ReturnOver(p, h) \/ Settled(p, h) \/ RestartJobs(p, h)

Next ==
  \/ \E p \in Procs : StartRun(p) \/ EndRun(p) \/ Die(p)
  \/ \E p \in Procs, h \in Hosts : Thread(p, h)
  \/ \E h \in Hosts : \/ Sicken(h) \/ Heal(h) \/ Hang(h) \/ GoDown(h)
                      \/ Boot(h) \/ StartJob(h) \/ EndJob(h)
  \/ Tick

Spec == Init /\ [][Next]_vars

(* The script is run again and again; its threads, a host that boots and the  *)
(* clock go on.  Hosts fall ill, jobs start and runs are killed or not.       *)
FairSpec ==
  /\ Spec
  /\ WF_vars(\E p \in Procs : StartRun(p))
  /\ \A p \in Procs : WF_vars(EndRun(p))
  /\ \A p \in Procs, h \in Hosts : WF_vars(Thread(p, h))
  /\ \A h \in Hosts : WF_vars(GoDown(h)) /\ WF_vars(age[h] = BootTime /\ Boot(h))
  /\ WF_vars(Tick)
-----------------------------------------------------------------------------
(* A host that the reaper itself told to boot is not reset by the HMC before  *)
(* its grace is over, whichever run orders the reset and whether or not a run *)
(* was killed or its HMC calls failed in between: the state file carries the  *)
(* deadline from run to run.  After a reboot command the grace is whole; after*)
(* an HMC reset it lacks what two HMC operations took, as the record is       *)
(* written before them (recover_host).  It needs a state file that can be     *)
(* written and SSH that does not fail on a host that is up.                   *)
GraceRespected ==
  broken \cap {"disk", "blip"} = {} =>
    \A p \in Procs, h \in Hosts :
      pc[p][h] = "reset" /\ power[h] = "down" =>
        age[h] >= Grace - late[h] /\ late[h] <= 2 * HmcWait

(* Where a host boots faster than what is left of its grace, the HMC is used  *)
(* on it only when it hangs: it is neither reset while it boots nor when it   *)
(* has come back (hmc_force_reboot).                                          *)
HmcOnlyForDeadHosts ==
  broken \cap {"disk", "blip"} = {} =>
    \A p \in Procs, h \in Hosts :
      pc[p][h] = "reset" /\ BootTime < Grace - late[h] =>
        power[h] \in {"dead", "cleared"}

(* No host is handled by two threads at a time, also not by those of a run    *)
(* that follows one that was killed (file_lock).                              *)
OneThreadPerHost ==
  \A h \in Hosts, p, q \in Procs :
    pc[p][h] # "idle" /\ pc[q][h] # "idle" => p = q

(* Jobs are restarted on a host that is back: the reboot is over, and the     *)
(* host is up unless it hangs again (recover_for_jobs: "Wait for the host to  *)
(* be back (or force it via HMC) and apply the stability delay").             *)
RestartsOnHostThatIsBack ==
  broken = {} =>
    \A p \in Procs, h \in Hosts :
      pc[p][h] = "restart" => power[h] \in {"up", "dead"}

(* A kernel crash takes effect before the wait for the host begins, so it     *)
(* holds for sysrq.                                                           *)
SysrqRestartsOnHostThatIsBack == method = "sysrq" => RestartsOnHostThatIsBack

(* A host that hangs is brought back, as long as the HMC works.               *)
DeadHostRecovers ==
  HmcFallback /\ broken \cap {"hmc", "die"} = {} =>
    \A h \in Hosts : power[h] = "dead" ~> power[h] = "up"

(* Every run ends and gives the lock back.                                    *)
RunsGiveLockBack == \A p \in Procs : lock = p ~> lock # p

(* What was listed before a recovery is restarted after it.                   *)
ListedJobsRestarted ==
  HmcFallback /\ broken \cap {"hmc", "die", "openqa", "blip", "disk"} = {} =>
    \A p \in Procs, h \in Hosts :
      listed[p][h] /\ pc[p][h] # "end" ~> pc[p][h] = "restart"
=============================================================================
