------------------------- MODULE ZombieReaperProofs -------------------------
(* Theorems about ZombieReaper, for any hosts, runs, waits and boot times:    *)
(* the variables keep their types, no host is handled twice at a time, and a  *)
(* host that boots gets its grace across runs of the script and across runs   *)
(* that are killed.                                                           *)
EXTENDS ZombieReaper, TLAPS

Calm == broken \cap {"disk", "blip"} = {}

(* What holds of a host whatever its thread does: the record of its last      *)
(* reboot is older than the boot by what the HMC took at most, so a deadline  *)
(* counted from it is too early by no more than that.                         *)
HostInv(h) ==
  /\ power[h] \in {"going", "down"} => age[h] <= BootTime
  /\ method = "sysrq" => power[h] # "going"
  /\ "disk" \notin broken /\ power[h] \in {"going", "down"} =>
       rec[h] # None /\ rec[h] <= age[h] + late[h]
  /\ "disk" \notin broken => late[h] <= 2 * HmcWait

(* What is left of a wait and the time a host has been booting add up.        *)
WaitInv(p, h) ==
  /\ pc[p][h] = "grace" =>
       /\ power[h] # "going"
       /\ power[h] = "down" => left[p][h] + age[h] + late[h] >= MaxWait
  /\ pc[p][h] \in Asking /\ again[p][h] => power[h] \notin {"going", "down"}
  /\ pc[p][h] \in {"wait", "return"} /\ power[h] \in {"going", "down"} =>
       left[p][h] + age[h] >= BootWait

(* The thread has given the host up.                                          *)
GivenUp(p, h) ==
  \/ pc[p][h] = "list" /\ down[p][h]
  \/ pc[p][h] \in {"mark", "reset"}

ThreadInv(p, h) ==
  /\ pc[p][h] # "idle" => lock = p
  /\ pc[p][h] \in {"idle", "queued", "grace"} \cup Asking => ~down[p][h]
  /\ pc[p][h] \in {"idle", "queued"} => ~again[p][h]
  /\ "disk" \notin broken =>
       /\ pc[p][h] = "command" => rec[h] = 0
       /\ pc[p][h] = "reset" =>
            rec[h] # None /\ rec[h] + left[p][h] <= HmcWait
       /\ pc[p][h] = "load" =>
            rec[h] # None /\ rec[h] + left[p][h] <= 2 * HmcWait
  /\ broken = {} /\ method = "sysrq" /\ pc[p][h] \in {"settle", "restart"} =>
       power[h] \in {"up", "dead"}
  /\ Calm => WaitInv(p, h)
  /\ Calm /\ GivenUp(p, h) =>
       /\ power[h] # "going"
       /\ power[h] = "down" => age[h] + late[h] >= Grace
       /\ BootTime + late[h] < Grace => power[h] \in {"dead", "cleared"}

IInv ==
  /\ TypeOK
  /\ \A h \in Hosts : HostInv(h)
  /\ \A p \in Procs, h \in Hosts : ThreadInv(p, h)
-----------------------------------------------------------------------------
(* The bounds of the timers.                                                  *)
LEMMA Bounds ==
  /\ Grace \in Nat /\ AgeCap \in Nat /\ LeftCap \in Nat
  /\ Grace <= MaxWait /\ Grace <= BootWait
  /\ MaxWait <= AgeCap /\ BootWait <= AgeCap /\ BootTime <= AgeCap
  /\ AgeCap <= LeftCap /\ Stability <= LeftCap /\ HmcWait <= LeftCap
  /\ BootTime \in Nat /\ MaxWait \in Nat /\ BootWait \in Nat /\ Stability \in Nat
  /\ HmcWait \in Nat /\ HmcWait \in 0 .. LeftCap
  /\ 0 \in 0 .. AgeCap /\ 0 \in 0 .. LeftCap /\ 0 \in 0 .. MaxWait
  /\ Stability \in 0 .. LeftCap /\ BootWait \in 0 .. LeftCap
<1>1. /\ BootTime \in Nat /\ MaxWait \in Nat
      /\ BootWait \in Nat /\ Stability \in Nat /\ HmcWait \in Nat
  BY ReaperAssumption DEF ReaperAssumption
<1>2. /\ Grace \in Nat /\ Grace <= MaxWait /\ Grace <= BootWait
  BY <1>1 DEF Grace
<1>3. \A m, n \in Nat :
        /\ Larger(m, n) \in Nat /\ m <= Larger(m, n) /\ n <= Larger(m, n)
  BY DEF Larger
<1>4. /\ AgeCap \in Nat /\ MaxWait <= AgeCap
      /\ BootWait <= AgeCap /\ BootTime <= AgeCap
  <2>1. /\ Larger(BootWait, BootTime) \in Nat
        /\ BootWait <= Larger(BootWait, BootTime)
        /\ BootTime <= Larger(BootWait, BootTime)
    BY <1>1, <1>3
  <2>2. /\ AgeCap \in Nat /\ MaxWait <= AgeCap
        /\ Larger(BootWait, BootTime) <= AgeCap
    BY <1>1, <1>3, <2>1 DEF AgeCap
  <2> QED
    BY <1>1, <2>1, <2>2
<1>5. /\ LeftCap \in Nat /\ AgeCap <= LeftCap
      /\ Stability <= LeftCap /\ HmcWait <= LeftCap
  <2>1. /\ Larger(Stability, HmcWait) \in Nat
        /\ Stability <= Larger(Stability, HmcWait)
        /\ HmcWait <= Larger(Stability, HmcWait)
    BY <1>1, <1>3
  <2>2. /\ LeftCap \in Nat /\ AgeCap <= LeftCap
        /\ Larger(Stability, HmcWait) <= LeftCap
    BY <1>3, <1>4, <2>1 DEF LeftCap
  <2> QED
    BY <1>1, <2>1, <2>2
<1> QED
  BY <1>1, <1>2, <1>4, <1>5

(* reboot_deadline is no further away than max_wait_minutes.                  *)
LEMMA GraceLeftBound ==
  ASSUME TypeOK, NEW h \in Hosts
  PROVE  GraceLeft(h) \in 0 .. LeftCap
  BY Bounds DEF TypeOK, GraceLeft, None
-----------------------------------------------------------------------------
(* Framing: a step of a thread touches its own variables and its host only.   *)
SameThread(p, h) ==
  /\ pc'[p][h] = pc[p][h] /\ left'[p][h] = left[p][h]
  /\ down'[p][h] = down[p][h] /\ again'[p][h] = again[p][h]

SameHost(h) ==
  /\ power'[h] = power[h] /\ age'[h] = age[h]
  /\ late'[h] = late[h] /\ rec'[h] = rec[h]

SameRun == UNCHANGED <<method, broken, lock>>

Local(p, h) ==
  /\ SameRun
  /\ \A g \in Hosts \ {h} : SameHost(g)
  /\ \A q \in Procs, g \in Hosts : <<q, g>> # <<p, h>> => SameThread(q, g)

(* The other threads need not be looked at: of the same host there are none   *)
(* (file_lock), and those of other hosts see nothing of the step.             *)
LEMMA LocalStep ==
  ASSUME IInv, NEW p \in Procs, NEW h \in Hosts, pc[p][h] # "idle",
         TypeOK', Local(p, h), HostInv(h)', ThreadInv(p, h)'
  PROVE  IInv'
<1>1. ASSUME NEW g \in Hosts PROVE HostInv(g)'
  <2>1. CASE g = h
    BY <2>1
  <2>2. CASE g # h
    <3>1. HostInv(g) /\ SameHost(g) /\ SameRun
      BY <2>2 DEF IInv, Local
    <3> QED
      BY <3>1 DEF HostInv, SameHost, SameRun
  <2> QED
    BY <2>1, <2>2
<1>2. ASSUME NEW q \in Procs, NEW g \in Hosts PROVE ThreadInv(q, g)'
  <2>1. CASE q = p /\ g = h
    BY <2>1
  <2>2. CASE g # h
    <3>1. ThreadInv(q, g) /\ SameHost(g) /\ SameThread(q, g) /\ SameRun
      BY <2>2 DEF IInv, Local
    <3> QED
      BY <3>1
      DEF ThreadInv, WaitInv, GivenUp, Calm, SameHost, SameThread, SameRun
  <2>3. CASE q # p /\ g = h
    <3>1. lock = p /\ ThreadInv(q, h) /\ SameThread(q, h) /\ SameRun
      BY <2>3 DEF IInv, Local, ThreadInv
    <3>2. pc[q][h] = "idle"
      BY <2>3, <3>1 DEF ThreadInv
    <3>3. pc'[q][h] = "idle" /\ ~down'[q][h] /\ ~again'[q][h]
      BY <3>1, <3>2 DEF ThreadInv, SameThread
    <3> QED
      BY <2>3, <3>3 DEF ThreadInv, WaitInv, GivenUp, Asking
  <2> QED
    BY <2>1, <2>2, <2>3
<1> QED
  BY <1>1, <1>2 DEF IInv

(* A step of the surroundings touches one host and no thread.                 *)
LEMMA HostStep ==
  ASSUME IInv, NEW h \in Hosts, TypeOK', SameRun, UNCHANGED <<pc, locals>>,
         \A g \in Hosts \ {h} : SameHost(g), HostInv(h)',
         \A p \in Procs : ThreadInv(p, h)'
  PROVE  IInv'
<1>1. ASSUME NEW g \in Hosts PROVE HostInv(g)'
  <2>1. CASE g # h
    <3>1. HostInv(g) /\ SameHost(g)
      BY <2>1 DEF IInv
    <3> QED
      BY <3>1 DEF HostInv, SameHost, SameRun
  <2> QED
    BY <2>1
<1>2. ASSUME NEW q \in Procs, NEW g \in Hosts PROVE ThreadInv(q, g)'
  <2>1. CASE g # h
    <3>1. ThreadInv(q, g) /\ SameHost(g)
      BY <2>1 DEF IInv
    <3> QED
      BY <3>1
      DEF ThreadInv, WaitInv, GivenUp, Calm, SameHost, SameRun, locals
  <2> QED
    BY <2>1
<1> QED
  BY <1>1, <1>2 DEF IInv
-----------------------------------------------------------------------------
(* A host that does not answer when a wait of sufficient length is over has   *)
(* had its grace; with hosts that boot faster it is dead.                     *)
LEMMA WaitedLongEnough ==
  ASSUME TypeOK, NEW p \in Procs, NEW h \in Hosts, HostInv(h), Calm,
         FALSE \in Connects(h), left[p][h] = 0,
         power[h] = "down" => left[p][h] + age[h] + late[h] >= Grace
  PROVE  /\ power[h] # "going"
         /\ power[h] = "down" => age[h] + late[h] >= Grace
         /\ BootTime + late[h] < Grace => power[h] \in {"dead", "cleared"}
<1>1. power[h] \in Powers /\ age[h] \in Nat /\ late[h] \in Nat
  BY Bounds DEF TypeOK
<1>2. power[h] \notin {"up", "going"}
  BY DEF Calm, Connects
<1>3. power[h] = "down" => age[h] + late[h] >= Grace /\ age[h] <= BootTime
  BY <1>1 DEF HostInv
<1> QED
  BY <1>1, <1>2, <1>3, Bounds DEF Powers

(* What a step does to the variables of its thread, and nothing else.         *)
ThreadMove(p, h, s) ==
  /\ s \in Stages /\ Goto(p, h, s)
  /\ left' = left \/ \E n \in 0 .. LeftCap : left' = [left EXCEPT ![p][h] = n]
  /\ down' = down \/ down' = [down EXCEPT ![p][h] = TRUE]
  /\ again' = again \/ again' = [again EXCEPT ![p][h] = TRUE]
  /\ listed' = listed
       \/ \E b \in BOOLEAN : listed' = [listed EXCEPT ![p][h] = b]

Quiet == UNCHANGED <<method, broken, env, rec, lock>>

LEMMA UpdateAt ==
  ASSUME NEW S, NEW f \in [Procs -> [Hosts -> S]],
         NEW p \in Procs, NEW h \in Hosts, NEW v \in S
  PROVE  /\ [f EXCEPT ![p][h] = v] \in [Procs -> [Hosts -> S]]
         /\ [f EXCEPT ![p][h] = v][p][h] = v
         /\ \A q \in Procs, g \in Hosts :
              <<q, g>> # <<p, h>> => [f EXCEPT ![p][h] = v][q][g] = f[q][g]
  OBVIOUS

LEMMA MoveFacts ==
  ASSUME TypeOK, NEW p \in Procs, NEW h \in Hosts, NEW s, ThreadMove(p, h, s)
  PROVE  /\ pc' \in [Procs -> [Hosts -> Stages]] /\ pc'[p][h] = s
         /\ left' \in [Procs -> [Hosts -> 0 .. LeftCap]]
         /\ down' \in [Procs -> [Hosts -> BOOLEAN]]
         /\ again' \in [Procs -> [Hosts -> BOOLEAN]]
         /\ listed' \in [Procs -> [Hosts -> BOOLEAN]]
         /\ \A q \in Procs, g \in Hosts :
              <<q, g>> # <<p, h>> => SameThread(q, g)
<1>1. /\ pc' \in [Procs -> [Hosts -> Stages]] /\ pc'[p][h] = s
      /\ \A q \in Procs, g \in Hosts :
           <<q, g>> # <<p, h>> => pc'[q][g] = pc[q][g]
  BY UpdateAt DEF TypeOK, ThreadMove, Goto
<1>2. /\ left' \in [Procs -> [Hosts -> 0 .. LeftCap]]
      /\ \A q \in Procs, g \in Hosts :
           <<q, g>> # <<p, h>> => left'[q][g] = left[q][g]
  <2>1. CASE left' = left
    BY <2>1 DEF TypeOK
  <2>2. ASSUME NEW n \in 0 .. LeftCap, left' = [left EXCEPT ![p][h] = n]
        PROVE  <1>2
    BY <2>2, UpdateAt DEF TypeOK
  <2> QED
    BY <2>1, <2>2 DEF ThreadMove
<1>3. /\ down' \in [Procs -> [Hosts -> BOOLEAN]]
      /\ \A q \in Procs, g \in Hosts :
           <<q, g>> # <<p, h>> => down'[q][g] = down[q][g]
  <2>1. down \in [Procs -> [Hosts -> BOOLEAN]]
    BY DEF TypeOK
  <2>2. ASSUME NEW b \in BOOLEAN, down' = [down EXCEPT ![p][h] = b]
        PROVE  <1>3
    BY <2>1, <2>2, UpdateAt
  <2> QED
    BY <2>1, <2>2 DEF ThreadMove
<1>4. /\ again' \in [Procs -> [Hosts -> BOOLEAN]]
      /\ \A q \in Procs, g \in Hosts :
           <<q, g>> # <<p, h>> => again'[q][g] = again[q][g]
  <2>1. again \in [Procs -> [Hosts -> BOOLEAN]]
    BY DEF TypeOK
  <2>2. ASSUME NEW b \in BOOLEAN, again' = [again EXCEPT ![p][h] = b]
        PROVE  <1>4
    BY <2>1, <2>2, UpdateAt
  <2> QED
    BY <2>1, <2>2 DEF ThreadMove
<1>5. listed' \in [Procs -> [Hosts -> BOOLEAN]]
  <2>1. listed \in [Procs -> [Hosts -> BOOLEAN]]
    BY DEF TypeOK
  <2>2. ASSUME NEW b \in BOOLEAN, listed' = [listed EXCEPT ![p][h] = b]
        PROVE  <1>5
    BY <2>1, <2>2, UpdateAt
  <2> QED
    BY <2>1, <2>2 DEF ThreadMove
<1> QED
  BY <1>1, <1>2, <1>3, <1>4, <1>5 DEF SameThread

(* A step that only moves its thread.                                         *)
LEMMA QuietStep ==
  ASSUME IInv, NEW p \in Procs, NEW h \in Hosts, pc[p][h] # "idle",
         NEW s, ThreadMove(p, h, s), Quiet, ThreadInv(p, h)'
  PROVE  IInv'
<1>1. TypeOK /\ HostInv(h)
  BY DEF IInv
<1>2. TypeOK'
  BY <1>1, MoveFacts DEF TypeOK, Quiet, env
<1>3. Local(p, h)
  BY <1>1, MoveFacts DEF Local, SameRun, SameHost, Quiet, env
<1>4. HostInv(h)'
  BY <1>1 DEF HostInv, Quiet, env
<1> QED
  BY <1>2, <1>3, <1>4, LocalStep

(* A step that also touches its host.                                         *)
LEMMA LoudStep ==
  ASSUME IInv, NEW p \in Procs, NEW h \in Hosts, pc[p][h] # "idle",
         NEW s, ThreadMove(p, h, s), SameRun, UNCHANGED <<health, hangs>>,
         power' \in [Hosts -> Powers], age' \in [Hosts -> 0 .. AgeCap],
         job' \in [Hosts -> Jobs], late' \in [Hosts -> 0 .. MaxWait],
         rec' \in [Hosts -> {None} \cup 0 .. MaxWait],
         \A g \in Hosts \ {h} : SameHost(g), HostInv(h)', ThreadInv(p, h)'
  PROVE  IInv'
<1>1. TypeOK
  BY DEF IInv
<1>2. TypeOK'
  BY <1>1, MoveFacts DEF TypeOK, SameRun
<1>3. Local(p, h)
  BY <1>1, MoveFacts DEF Local
<1> QED
  BY <1>2, <1>3, LocalStep
-----------------------------------------------------------------------------
(* One lemma per step of a thread.                                            *)

(* HostUnreachableError, wherever it is raised (check_host).               *)
LEMMA UnreachableInv ==
  ASSUME IInv, NEW p \in Procs, NEW h \in Hosts, pc[p][h] \in Asking,
         FALSE \in Connects(h), Unreachable(p, h), Quiet,
         UNCHANGED <<listed, again>>
  PROVE  IInv'
<1>1. TypeOK /\ HostInv(h) /\ ThreadInv(p, h)
  BY DEF IInv
<1>2. /\ pc[p][h] \in Asking /\ pc[p][h] # "idle" /\ Quiet
      /\ UNCHANGED <<listed, again>>
      /\ "blip" \notin broken => power[h] \notin {"up", "going"}
  BY DEF Asking, Connects
<1>3. ASSUME again[p][h],
                down' = [down EXCEPT ![p][h] = TRUE],
                Goto(p, h, "list"),
                UNCHANGED left
      PROVE  IInv'
  <2>1. ThreadMove(p, h, "list")
    BY <1>1, <1>2, <1>3, Bounds
    DEF ThreadMove, Stages, Asking, Waiting, Acting, TypeOK, Goto
  <2>2. /\ pc'[p][h] = "list"
        /\ left'[p][h] = left[p][h]
        /\ down'[p][h] = TRUE
        /\ again'[p][h] = again[p][h]
    BY <1>1, <1>2, <1>3, <2>1, UpdateAt, MoveFacts DEF TypeOK, Goto
  <2>3. ThreadInv(p, h)'
    BY <1>1, <1>2, <1>3, <2>2, Bounds
    DEF ThreadInv, WaitInv, GivenUp, Calm, Asking, Quiet, env, HostInv, TypeOK, Powers
  <2> QED
    BY <1>2, <2>1, <2>3, QuietStep
<1>4. ASSUME WaitIn(p, h, "grace", GraceLeft(h)),
                UNCHANGED down
      PROVE  IInv'
  <2>1. ThreadMove(p, h, "grace")
    BY <1>1, <1>2, <1>4, GraceLeftBound, Bounds
    DEF ThreadMove, Stages, Asking, Waiting, Acting, TypeOK, Goto, WaitIn
  <2>2. /\ pc'[p][h] = "grace"
        /\ left'[p][h] = GraceLeft(h)
        /\ down'[p][h] = down[p][h]
        /\ again'[p][h] = again[p][h]
    BY <1>1, <1>2, <1>4, <2>1, UpdateAt, MoveFacts DEF TypeOK, Goto, WaitIn
  <2>3. ThreadInv(p, h)'
    BY <1>1, <1>2, <1>4, <2>2, GraceLeftBound, Bounds
    DEF ThreadInv, WaitInv, GivenUp, Calm, Asking, Quiet, env, HostInv, TypeOK, GraceLeft, None
  <2> QED
    BY <1>2, <2>1, <2>3, QuietStep
<1> QED
  BY <1>3, <1>4 DEF Unreachable

(* reap_all_hosts: the pool begins with a host.                            *)
LEMMA StartHostInv ==
  ASSUME IInv, NEW p \in Procs, NEW h \in Hosts, StartHost(p, h)
  PROVE  IInv'
<1>1. TypeOK /\ HostInv(h) /\ ThreadInv(p, h)
  BY DEF IInv
<1>2. pc[p][h] = "queued" /\ Goto(p, h, "scan") /\ Quiet /\ UNCHANGED locals
  BY DEF StartHost, Quiet
<1>3. ThreadMove(p, h, "scan")
  BY <1>1, <1>2
  DEF ThreadMove, Stages, Asking, Waiting, Acting, Goto, locals
<1>4. /\ pc'[p][h] = "scan"
      /\ left'[p][h] = left[p][h]
      /\ down'[p][h] = down[p][h]
      /\ again'[p][h] = again[p][h]
  BY <1>1, <1>2, <1>3, MoveFacts DEF Goto, locals
<1>5. ThreadInv(p, h)'
  BY <1>1, <1>2, <1>4, Bounds DEF ThreadInv, WaitInv, GivenUp, Calm, Asking, Quiet, env
<1> QED
  BY <1>2, <1>3, <1>5, QuietStep

(* find_critical: the first look.                                          *)
LEMMA ScanInv ==
  ASSUME IInv, NEW p \in Procs, NEW h \in Hosts, Scan(p, h)
  PROVE  IInv'
<1>1. TypeOK /\ HostInv(h) /\ ThreadInv(p, h)
  BY DEF IInv
<1>2. pc[p][h] = "scan" /\ Quiet /\ UNCHANGED <<listed, again>>
  BY <1>1 DEF Scan, Connects, Quiet, Asking
<1>3. ASSUME Goto(p, h, "verify"),
                UNCHANGED <<left, down>>
      PROVE  IInv'
  <2>1. ThreadMove(p, h, "verify")
    BY <1>1, <1>2, <1>3, Bounds
    DEF ThreadMove, Stages, Asking, Waiting, Acting, TypeOK, Goto
  <2>2. /\ pc'[p][h] = "verify"
        /\ left'[p][h] = left[p][h]
        /\ down'[p][h] = down[p][h]
        /\ again'[p][h] = again[p][h]
    BY <1>1, <1>2, <1>3, <2>1, UpdateAt, MoveFacts DEF TypeOK, Goto
  <2>3. ThreadInv(p, h)'
    BY <1>1, <1>2, <1>3, <2>2, Bounds
    DEF ThreadInv, WaitInv, GivenUp, Calm, Asking, Quiet, env, HostInv
  <2> QED
    BY <1>2, <2>1, <2>3, QuietStep
<1>4. ASSUME Goto(p, h, "libvirt"),
                UNCHANGED <<left, down>>
      PROVE  IInv'
  <2>1. ThreadMove(p, h, "libvirt")
    BY <1>1, <1>2, <1>4, Bounds
    DEF ThreadMove, Stages, Asking, Waiting, Acting, TypeOK, Goto
  <2>2. /\ pc'[p][h] = "libvirt"
        /\ left'[p][h] = left[p][h]
        /\ down'[p][h] = down[p][h]
        /\ again'[p][h] = again[p][h]
    BY <1>1, <1>2, <1>4, <2>1, UpdateAt, MoveFacts DEF TypeOK, Goto
  <2>3. ThreadInv(p, h)'
    BY <1>1, <1>2, <1>4, <2>2, Bounds
    DEF ThreadInv, WaitInv, GivenUp, Calm, Asking, Quiet, env, HostInv
  <2> QED
    BY <1>2, <2>1, <2>3, QuietStep
<1>5. \/ FALSE \in Connects(h) /\ Unreachable(p, h)
      \/ Goto(p, h, "verify") /\ UNCHANGED <<left, down>>
      \/ Goto(p, h, "libvirt") /\ UNCHANGED <<left, down>>
  BY DEF Scan, Connects, Asking
<1> QED
  BY <1>1, <1>2, <1>3, <1>4, <1>5, UnreachableInv
  DEF Scan, Asking

(* find_critical: the second look.                                         *)
LEMMA VerifyInv ==
  ASSUME IInv, NEW p \in Procs, NEW h \in Hosts, Verify(p, h)
  PROVE  IInv'
<1>1. TypeOK /\ HostInv(h) /\ ThreadInv(p, h)
  BY DEF IInv
<1>2. pc[p][h] = "verify" /\ Quiet /\ UNCHANGED <<listed, again>>
  BY <1>1 DEF Verify, Connects, Quiet, Asking
<1>3. ASSUME Goto(p, h, "list"),
                UNCHANGED <<left, down>>
      PROVE  IInv'
  <2>1. ThreadMove(p, h, "list")
    BY <1>1, <1>2, <1>3, Bounds
    DEF ThreadMove, Stages, Asking, Waiting, Acting, TypeOK, Goto
  <2>2. /\ pc'[p][h] = "list"
        /\ left'[p][h] = left[p][h]
        /\ down'[p][h] = down[p][h]
        /\ again'[p][h] = again[p][h]
    BY <1>1, <1>2, <1>3, <2>1, UpdateAt, MoveFacts DEF TypeOK, Goto
  <2>3. ThreadInv(p, h)'
    BY <1>1, <1>2, <1>3, <2>2, Bounds
    DEF ThreadInv, WaitInv, GivenUp, Calm, Asking, Quiet, env, HostInv
  <2> QED
    BY <1>2, <2>1, <2>3, QuietStep
<1>4. ASSUME Goto(p, h, "libvirt"),
                UNCHANGED <<left, down>>
      PROVE  IInv'
  <2>1. ThreadMove(p, h, "libvirt")
    BY <1>1, <1>2, <1>4, Bounds
    DEF ThreadMove, Stages, Asking, Waiting, Acting, TypeOK, Goto
  <2>2. /\ pc'[p][h] = "libvirt"
        /\ left'[p][h] = left[p][h]
        /\ down'[p][h] = down[p][h]
        /\ again'[p][h] = again[p][h]
    BY <1>1, <1>2, <1>4, <2>1, UpdateAt, MoveFacts DEF TypeOK, Goto
  <2>3. ThreadInv(p, h)'
    BY <1>1, <1>2, <1>4, <2>2, Bounds
    DEF ThreadInv, WaitInv, GivenUp, Calm, Asking, Quiet, env, HostInv
  <2> QED
    BY <1>2, <2>1, <2>3, QuietStep
<1>5. \/ FALSE \in Connects(h) /\ Unreachable(p, h)
      \/ Goto(p, h, "list") /\ UNCHANGED <<left, down>>
      \/ Goto(p, h, "libvirt") /\ UNCHANGED <<left, down>>
  BY DEF Verify, Connects, Asking
<1> QED
  BY <1>1, <1>2, <1>3, <1>4, <1>5, UnreachableInv
  DEF Verify, Asking

(* check_libvirt_health.                                                   *)
LEMMA CheckLibvirtInv ==
  ASSUME IInv, NEW p \in Procs, NEW h \in Hosts, CheckLibvirt(p, h)
  PROVE  IInv'
<1>1. TypeOK /\ HostInv(h) /\ ThreadInv(p, h)
  BY DEF IInv
<1>2. pc[p][h] = "libvirt" /\ Quiet /\ UNCHANGED <<listed, again>>
  BY <1>1 DEF CheckLibvirt, Connects, Quiet, Asking
<1>3. ASSUME Goto(p, h, "list"),
                UNCHANGED <<left, down>>
      PROVE  IInv'
  <2>1. ThreadMove(p, h, "list")
    BY <1>1, <1>2, <1>3, Bounds
    DEF ThreadMove, Stages, Asking, Waiting, Acting, TypeOK, Goto
  <2>2. /\ pc'[p][h] = "list"
        /\ left'[p][h] = left[p][h]
        /\ down'[p][h] = down[p][h]
        /\ again'[p][h] = again[p][h]
    BY <1>1, <1>2, <1>3, <2>1, UpdateAt, MoveFacts DEF TypeOK, Goto
  <2>3. ThreadInv(p, h)'
    BY <1>1, <1>2, <1>3, <2>2, Bounds
    DEF ThreadInv, WaitInv, GivenUp, Calm, Asking, Quiet, env, HostInv
  <2> QED
    BY <1>2, <2>1, <2>3, QuietStep
<1>4. ASSUME Goto(p, h, "end"),
                UNCHANGED <<left, down>>
      PROVE  IInv'
  <2>1. ThreadMove(p, h, "end")
    BY <1>1, <1>2, <1>4, Bounds
    DEF ThreadMove, Stages, Asking, Waiting, Acting, TypeOK, Goto
  <2>2. /\ pc'[p][h] = "end"
        /\ left'[p][h] = left[p][h]
        /\ down'[p][h] = down[p][h]
        /\ again'[p][h] = again[p][h]
    BY <1>1, <1>2, <1>4, <2>1, UpdateAt, MoveFacts DEF TypeOK, Goto
  <2>3. ThreadInv(p, h)'
    BY <1>1, <1>2, <1>4, <2>2, Bounds
    DEF ThreadInv, WaitInv, GivenUp, Calm, Asking, Quiet, env, HostInv
  <2> QED
    BY <1>2, <2>1, <2>3, QuietStep
<1> QED
  BY <1>1, <1>2, <1>3, <1>4, UnreachableInv
  DEF CheckLibvirt, Asking

(* check_host: the wait for a host that may be booting is over.            *)
LEMMA GraceOverInv ==
  ASSUME IInv, NEW p \in Procs, NEW h \in Hosts, GraceOver(p, h)
  PROVE  IInv'
<1>1. TypeOK /\ HostInv(h) /\ ThreadInv(p, h)
  BY DEF IInv
<1>2. pc[p][h] = "grace" /\ Quiet /\ UNCHANGED listed
  BY <1>1 DEF GraceOver, Connects, Quiet, Asking
<1>3. ASSUME TRUE \in Connects(h),
                WaitIn(p, h, "scan", 0),
                again' = [again EXCEPT ![p][h] = TRUE],
                UNCHANGED down
      PROVE  IInv'
  <2>1. ThreadMove(p, h, "scan")
    BY <1>1, <1>2, <1>3, Bounds
    DEF ThreadMove, Stages, Asking, Waiting, Acting, TypeOK, Goto, WaitIn
  <2>2. /\ pc'[p][h] = "scan"
        /\ left'[p][h] = 0
        /\ down'[p][h] = down[p][h]
        /\ again'[p][h] = TRUE
    BY <1>1, <1>2, <1>3, <2>1, UpdateAt, MoveFacts DEF TypeOK, Goto, WaitIn
  <2>3. ThreadInv(p, h)'
    BY <1>1, <1>2, <1>3, <2>2, Bounds
    DEF ThreadInv, WaitInv, GivenUp, Calm, Asking, Quiet, env, HostInv, Connects, TypeOK
  <2> QED
    BY <1>2, <2>1, <2>3, QuietStep
<1>4. ASSUME FALSE \in Connects(h),
                left[p][h] = 0,
                down' = [down EXCEPT ![p][h] = TRUE],
                Goto(p, h, "list"),
                UNCHANGED <<left, again>>
      PROVE  IInv'
  <2>1. ThreadMove(p, h, "list")
    BY <1>1, <1>2, <1>4, Bounds
    DEF ThreadMove, Stages, Asking, Waiting, Acting, TypeOK, Goto
  <2>2. /\ pc'[p][h] = "list"
        /\ left'[p][h] = left[p][h]
        /\ down'[p][h] = TRUE
        /\ again'[p][h] = again[p][h]
    BY <1>1, <1>2, <1>4, <2>1, UpdateAt, MoveFacts DEF TypeOK, Goto
  <2>4. ASSUME Calm
        PROVE  /\ power[h] # "going"
               /\ power[h] = "down" => age[h] + late[h] >= Grace
               /\ BootTime + late[h] < Grace => power[h] \in {"dead", "cleared"}
    <3>1. age[h] \in Nat /\ late[h] \in Nat /\ left[p][h] \in Nat
      BY <1>1, Bounds DEF TypeOK
    <3>2. power[h] = "down" => left[p][h] + age[h] + late[h] >= Grace
      BY <1>1, <1>2, <2>4, <3>1, Bounds DEF ThreadInv, WaitInv
    <3> QED
      BY <1>1, <1>4, <2>4, <3>2, WaitedLongEnough
  <2>3. ThreadInv(p, h)'
    BY <1>1, <1>2, <1>4, <2>2, <2>4, Bounds
    DEF ThreadInv, WaitInv, GivenUp, Calm, Asking, Quiet, env
  <2> QED
    BY <1>2, <2>1, <2>3, QuietStep
<1> QED
  BY <1>1, <1>2, <1>3, <1>4
  DEF GraceOver, Connects

(* get_running_jobs.                                                       *)
LEMMA ListJobsInv ==
  ASSUME IInv, NEW p \in Procs, NEW h \in Hosts, ListJobs(p, h)
  PROVE  IInv'
<1>1. TypeOK /\ HostInv(h) /\ ThreadInv(p, h)
  BY DEF IInv
<1>2. /\ pc[p][h] = "list" /\ Quiet /\ UNCHANGED <<left, down, again>>
      /\ \E b \in BOOLEAN : listed' = [listed EXCEPT ![p][h] = b]
  BY DEF ListJobs, Quiet
<1>3. ASSUME ~down[p][h],
                Goto(p, h, "record")
      PROVE  IInv'
  <2>1. ThreadMove(p, h, "record")
    BY <1>1, <1>2, <1>3, Bounds
    DEF ThreadMove, Stages, Asking, Waiting, Acting, TypeOK, Goto
  <2>2. /\ pc'[p][h] = "record"
        /\ left'[p][h] = left[p][h]
        /\ down'[p][h] = down[p][h]
        /\ again'[p][h] = again[p][h]
    BY <1>1, <1>2, <1>3, <2>1, UpdateAt, MoveFacts DEF TypeOK, Goto
  <2>3. ThreadInv(p, h)'
    BY <1>1, <1>2, <1>3, <2>2, Bounds
    DEF ThreadInv, WaitInv, GivenUp, Calm, Asking, Quiet, env, HostInv
  <2> QED
    BY <1>2, <2>1, <2>3, QuietStep
<1>4. ASSUME down[p][h],
                Goto(p, h, "mark")
      PROVE  IInv'
  <2>1. ThreadMove(p, h, "mark")
    BY <1>1, <1>2, <1>4, Bounds
    DEF ThreadMove, Stages, Asking, Waiting, Acting, TypeOK, Goto
  <2>2. /\ pc'[p][h] = "mark"
        /\ left'[p][h] = left[p][h]
        /\ down'[p][h] = down[p][h]
        /\ again'[p][h] = again[p][h]
    BY <1>1, <1>2, <1>4, <2>1, UpdateAt, MoveFacts DEF TypeOK, Goto
  <2>3. ThreadInv(p, h)'
    BY <1>1, <1>2, <1>4, <2>2, Bounds
    DEF ThreadInv, WaitInv, GivenUp, Calm, Asking, Quiet, env, HostInv
  <2> QED
    BY <1>2, <2>1, <2>3, QuietStep
<1>5. ASSUME Goto(p, h, "end")
      PROVE  IInv'
  <2>1. ThreadMove(p, h, "end")
    BY <1>1, <1>2, <1>5, Bounds
    DEF ThreadMove, Stages, Asking, Waiting, Acting, TypeOK, Goto
  <2>2. /\ pc'[p][h] = "end"
        /\ left'[p][h] = left[p][h]
        /\ down'[p][h] = down[p][h]
        /\ again'[p][h] = again[p][h]
    BY <1>1, <1>2, <1>5, <2>1, UpdateAt, MoveFacts DEF TypeOK, Goto
  <2>3. ThreadInv(p, h)'
    BY <1>1, <1>2, <1>5, <2>2, Bounds
    DEF ThreadInv, WaitInv, GivenUp, Calm, Asking, Quiet, env, HostInv
  <2> QED
    BY <1>2, <2>1, <2>3, QuietStep
<1> QED
  BY <1>1, <1>2, <1>3, <1>4, <1>5
  DEF ListJobs, Goto

(* recover_for_jobs: the stability delay is over.                          *)
LEMMA SettledInv ==
  ASSUME IInv, NEW p \in Procs, NEW h \in Hosts, Settled(p, h)
  PROVE  IInv'
<1>1. TypeOK /\ HostInv(h) /\ ThreadInv(p, h)
  BY DEF IInv
<1>2. pc[p][h] = "settle" /\ Goto(p, h, "restart") /\ Quiet /\ UNCHANGED locals
  BY DEF Settled, Quiet
<1>3. ThreadMove(p, h, "restart")
  BY <1>1, <1>2
  DEF ThreadMove, Stages, Asking, Waiting, Acting, Goto, locals
<1>4. /\ pc'[p][h] = "restart"
      /\ left'[p][h] = left[p][h]
      /\ down'[p][h] = down[p][h]
      /\ again'[p][h] = again[p][h]
  BY <1>1, <1>2, <1>3, MoveFacts DEF Goto, locals
<1>5. ThreadInv(p, h)'
  BY <1>1, <1>2, <1>4, Bounds DEF ThreadInv, WaitInv, GivenUp, Calm, Asking, Quiet, env
<1> QED
  BY <1>2, <1>3, <1>5, QuietStep

(* recover_for_jobs: the host is back.                                     *)
LEMMA SettleInv ==
  ASSUME IInv, NEW p \in Procs, NEW h \in Hosts, pc[p][h] \in {"wait", "return"},
         TRUE \in Connects(h), Settle(p, h), Quiet,
         UNCHANGED <<listed, down, again>>
  PROVE  IInv'
<1>1. TypeOK /\ HostInv(h) /\ ThreadInv(p, h)
  BY DEF IInv
<1>2. /\ pc[p][h] \in {"wait", "return"} /\ pc[p][h] # "idle" /\ Quiet
      /\ UNCHANGED <<listed, down, again>>
      /\ power[h] \in {"up", "going"}
  BY DEF Connects
<1>3. ASSUME WaitIn(p, h, "settle", Stability)
      PROVE  IInv'
  <2>1. ThreadMove(p, h, "settle")
    BY <1>1, <1>2, <1>3, Bounds
    DEF ThreadMove, Stages, Asking, Waiting, Acting, TypeOK, Goto, WaitIn
  <2>2. /\ pc'[p][h] = "settle"
        /\ left'[p][h] = Stability
        /\ down'[p][h] = down[p][h]
        /\ again'[p][h] = again[p][h]
    BY <1>1, <1>2, <1>3, <2>1, UpdateAt, MoveFacts DEF TypeOK, Goto, WaitIn
  <2>3. ThreadInv(p, h)'
    BY <1>1, <1>2, <1>3, <2>2, Bounds
    DEF ThreadInv, WaitInv, GivenUp, Calm, Asking, Quiet, env, HostInv
  <2> QED
    BY <1>2, <2>1, <2>3, QuietStep
<1>4. ASSUME Goto(p, h, "end"),
                UNCHANGED left
      PROVE  IInv'
  <2>1. ThreadMove(p, h, "end")
    BY <1>1, <1>2, <1>4, Bounds
    DEF ThreadMove, Stages, Asking, Waiting, Acting, TypeOK, Goto
  <2>2. /\ pc'[p][h] = "end"
        /\ left'[p][h] = left[p][h]
        /\ down'[p][h] = down[p][h]
        /\ again'[p][h] = again[p][h]
    BY <1>1, <1>2, <1>4, <2>1, UpdateAt, MoveFacts DEF TypeOK, Goto
  <2>3. ThreadInv(p, h)'
    BY <1>1, <1>2, <1>4, <2>2, Bounds
    DEF ThreadInv, WaitInv, GivenUp, Calm, Asking, Quiet, env, HostInv
  <2> QED
    BY <1>2, <2>1, <2>3, QuietStep
<1> QED
  BY <1>3, <1>4 DEF Settle

(* recover_host: the first wait is over.                                   *)
LEMMA WaitOverInv ==
  ASSUME IInv, NEW p \in Procs, NEW h \in Hosts, WaitOver(p, h)
  PROVE  IInv'
<1>1. TypeOK /\ HostInv(h) /\ ThreadInv(p, h)
  BY DEF IInv
<1>2. pc[p][h] = "wait" /\ Quiet /\ UNCHANGED <<listed, down, again>>
  BY <1>1 DEF WaitOver, Connects, Quiet, Asking
<1>3. ASSUME FALSE \in Connects(h),
                left[p][h] = 0,
                Goto(p, h, "mark"),
                UNCHANGED left
      PROVE  IInv'
  <2>1. ThreadMove(p, h, "mark")
    BY <1>1, <1>2, <1>3, Bounds
    DEF ThreadMove, Stages, Asking, Waiting, Acting, TypeOK, Goto
  <2>2. /\ pc'[p][h] = "mark"
        /\ left'[p][h] = left[p][h]
        /\ down'[p][h] = down[p][h]
        /\ again'[p][h] = again[p][h]
    BY <1>1, <1>2, <1>3, <2>1, UpdateAt, MoveFacts DEF TypeOK, Goto
  <2>4. ASSUME Calm
        PROVE  /\ power[h] # "going"
               /\ power[h] = "down" => age[h] + late[h] >= Grace
               /\ BootTime + late[h] < Grace => power[h] \in {"dead", "cleared"}
    <3>1. age[h] \in Nat /\ late[h] \in Nat /\ left[p][h] \in Nat
      BY <1>1, Bounds DEF TypeOK
    <3>2. power[h] = "down" => left[p][h] + age[h] + late[h] >= Grace
      BY <1>1, <1>2, <2>4, <3>1, Bounds DEF ThreadInv, WaitInv
    <3> QED
      BY <1>1, <1>3, <2>4, <3>2, WaitedLongEnough
  <2>3. ThreadInv(p, h)'
    BY <1>1, <1>2, <1>3, <2>2, <2>4, Bounds
    DEF ThreadInv, WaitInv, GivenUp, Calm, Asking, Quiet, env
  <2> QED
    BY <1>2, <2>1, <2>3, QuietStep
<1>4. ASSUME Goto(p, h, "end"),
                UNCHANGED left
      PROVE  IInv'
  <2>1. ThreadMove(p, h, "end")
    BY <1>1, <1>2, <1>4, Bounds
    DEF ThreadMove, Stages, Asking, Waiting, Acting, TypeOK, Goto
  <2>2. /\ pc'[p][h] = "end"
        /\ left'[p][h] = left[p][h]
        /\ down'[p][h] = down[p][h]
        /\ again'[p][h] = again[p][h]
    BY <1>1, <1>2, <1>4, <2>1, UpdateAt, MoveFacts DEF TypeOK, Goto
  <2>3. ThreadInv(p, h)'
    BY <1>1, <1>2, <1>4, <2>2, Bounds
    DEF ThreadInv, WaitInv, GivenUp, Calm, Asking, Quiet, env, HostInv
  <2> QED
    BY <1>2, <2>1, <2>3, QuietStep
<1> QED
  BY <1>1, <1>2, <1>3, <1>4, SettleInv
  DEF WaitOver, Goto

(* recover_host: the wait after the HMC is over.                           *)
LEMMA ReturnOverInv ==
  ASSUME IInv, NEW p \in Procs, NEW h \in Hosts, ReturnOver(p, h)
  PROVE  IInv'
<1>1. TypeOK /\ HostInv(h) /\ ThreadInv(p, h)
  BY DEF IInv
<1>2. pc[p][h] = "return" /\ Quiet /\ UNCHANGED <<listed, down, again>>
  BY <1>1 DEF ReturnOver, Connects, Quiet, Asking
<1>3. ASSUME Goto(p, h, "end"),
                UNCHANGED left
      PROVE  IInv'
  <2>1. ThreadMove(p, h, "end")
    BY <1>1, <1>2, <1>3, Bounds
    DEF ThreadMove, Stages, Asking, Waiting, Acting, TypeOK, Goto
  <2>2. /\ pc'[p][h] = "end"
        /\ left'[p][h] = left[p][h]
        /\ down'[p][h] = down[p][h]
        /\ again'[p][h] = again[p][h]
    BY <1>1, <1>2, <1>3, <2>1, UpdateAt, MoveFacts DEF TypeOK, Goto
  <2>3. ThreadInv(p, h)'
    BY <1>1, <1>2, <1>3, <2>2, Bounds
    DEF ThreadInv, WaitInv, GivenUp, Calm, Asking, Quiet, env, HostInv
  <2> QED
    BY <1>2, <2>1, <2>3, QuietStep
<1> QED
  BY <1>1, <1>2, <1>3, SettleInv
  DEF ReturnOver, Goto

(* record_reboot: the record is written, or the write fails.                  *)
LEMMA RecordedFacts ==
  ASSUME TypeOK, NEW h \in Hosts, Recorded(h)
  PROVE  /\ rec' \in [Hosts -> {None} \cup 0 .. MaxWait]
         /\ rec'[h] = 0 \/ ("disk" \in broken /\ rec'[h] = rec[h])
         /\ \A g \in Hosts \ {h} : rec'[g] = rec[g]
<1> DEFINE S == {None} \cup 0 .. MaxWait
<1>1. rec \in [Hosts -> S] /\ 0 \in S
  BY Bounds DEF TypeOK
<1> HIDE DEF S
<1>2. CASE rec' = [rec EXCEPT ![h] = 0]
  <2>1. /\ rec' \in [Hosts -> S] /\ rec'[h] = 0
        /\ \A g \in Hosts \ {h} : rec'[g] = rec[g]
    BY <1>1, <1>2
  <2> QED
    BY <2>1 DEF S
<1>3. CASE "disk" \in broken /\ UNCHANGED rec
  BY <1>1, <1>3 DEF S
<1> QED
  BY <1>2, <1>3 DEF Recorded

(* issue_reboot: the record comes before the command.                      *)
LEMMA RecordRebootInv ==
  ASSUME IInv, NEW p \in Procs, NEW h \in Hosts, RecordReboot(p, h)
  PROVE  IInv'
<1>1. TypeOK /\ HostInv(h) /\ ThreadInv(p, h)
  BY DEF IInv
<1>2. /\ pc[p][h] = "record" /\ Goto(p, h, "command") /\ Recorded(h)
      /\ UNCHANGED <<method, broken, env, lock, locals>>
  BY DEF RecordReboot
<1>3. ThreadMove(p, h, "command")
  BY <1>2 DEF ThreadMove, Stages, Acting, locals
<1>4. /\ pc'[p][h] = "command" /\ left'[p][h] = left[p][h]
      /\ down'[p][h] = down[p][h] /\ again'[p][h] = again[p][h]
  BY <1>1, <1>2, <1>3, MoveFacts DEF locals
<1>5. /\ rec' \in [Hosts -> {None} \cup 0 .. MaxWait]
      /\ rec'[h] = 0 \/ ("disk" \in broken /\ rec'[h] = rec[h])
      /\ \A g \in Hosts \ {h} : rec'[g] = rec[g]
  BY <1>1, <1>2, RecordedFacts
<1>6. UNCHANGED <<method, broken, power, age, late, job, health, hangs, lock>>
  BY <1>2 DEF env
<1>7. HostInv(h)'
  BY <1>1, <1>5, <1>6, Bounds DEF HostInv, TypeOK, None
<1>8. ThreadInv(p, h)'
  BY <1>1, <1>2, <1>4, <1>5, <1>6
  DEF ThreadInv, WaitInv, GivenUp, Calm, Asking
<1> QED
  BY <1>1, <1>2, <1>3, <1>5, <1>6, <1>7, <1>8, LoudStep
  DEF TypeOK, SameRun, SameHost

(* recover_host: the record comes before the reset.                        *)
LEMMA MarkInv ==
  ASSUME IInv, NEW p \in Procs, NEW h \in Hosts, Mark(p, h)
  PROVE  IInv'
<1>1. TypeOK /\ HostInv(h) /\ ThreadInv(p, h)
  BY DEF IInv
<1>2. /\ pc[p][h] = "mark" /\ WaitIn(p, h, "reset", HmcWait) /\ Recorded(h)
      /\ UNCHANGED <<method, broken, env, lock, listed, down, again>>
  BY DEF Mark
<1>3. ThreadMove(p, h, "reset")
  BY <1>2, Bounds DEF ThreadMove, WaitIn, Stages, Operating
<1>4. /\ pc'[p][h] = "reset" /\ left'[p][h] = HmcWait
      /\ down'[p][h] = down[p][h] /\ again'[p][h] = again[p][h]
  BY <1>1, <1>2, <1>3, UpdateAt, Bounds, MoveFacts DEF WaitIn, TypeOK
<1>5. /\ rec' \in [Hosts -> {None} \cup 0 .. MaxWait]
      /\ rec'[h] = 0 \/ ("disk" \in broken /\ rec'[h] = rec[h])
      /\ \A g \in Hosts \ {h} : rec'[g] = rec[g]
  BY <1>1, <1>2, RecordedFacts
<1>6. UNCHANGED <<method, broken, power, age, late, job, health, hangs, lock>>
  BY <1>2 DEF env
<1>7. HostInv(h)'
  BY <1>1, <1>5, <1>6, Bounds DEF HostInv, TypeOK, None
<1>8. ThreadInv(p, h)'
  BY <1>1, <1>2, <1>4, <1>5, <1>6, Bounds
  DEF ThreadInv, None, WaitInv, GivenUp, Calm, Asking
<1> QED
  BY <1>1, <1>2, <1>3, <1>5, <1>6, <1>7, <1>8, LoudStep
  DEF TypeOK, SameRun, SameHost

(* What a stopping host does to its job.                                      *)
LEMMA LoseJobType ==
  ASSUME TypeOK, NEW h \in Hosts, LoseJob(h)
  PROVE  job' \in [Hosts -> Jobs]
  BY DEF TypeOK, LoseJob, Jobs

(* issue_reboot: where the thread goes.                                    *)
LEMMA CommandMove ==
  ASSUME IInv, NEW p \in Procs, NEW h \in Hosts, Command(p, h)
  PROVE  \E s \in {"wait", "end"} :
           /\ ThreadMove(p, h, s) /\ pc'[p][h] = s
           /\ s = "wait" => left'[p][h] = BootWait
           /\ down'[p][h] = down[p][h] /\ again'[p][h] = again[p][h]
<1>1. TypeOK /\ HostInv(h) /\ ThreadInv(p, h)
  BY DEF IInv
<1>2. /\ pc[p][h] = "command" /\ UNCHANGED <<listed, down, again>>
      /\ \/ WaitIn(p, h, "wait", BootWait)
         \/ Goto(p, h, "end") /\ UNCHANGED left
  BY DEF Command
<1>3. CASE WaitIn(p, h, "wait", BootWait)
  <2>1. ThreadMove(p, h, "wait")
    BY <1>2, <1>3, Bounds DEF ThreadMove, WaitIn, Goto, Stages, Waiting
  <2>2. left'[p][h] = BootWait
    BY <1>1, <1>3, UpdateAt, Bounds DEF WaitIn, TypeOK
  <2>3. /\ pc'[p][h] = "wait" /\ down'[p][h] = down[p][h]
        /\ again'[p][h] = again[p][h]
    BY <1>1, <1>2, <2>1, MoveFacts
  <2> QED
    BY <2>1, <2>2, <2>3
<1>4. CASE Goto(p, h, "end") /\ UNCHANGED left
  <2>1. ThreadMove(p, h, "end")
    BY <1>2, <1>4 DEF ThreadMove, Stages
  <2> QED
    BY <1>1, <1>2, <2>1, MoveFacts
<1> QED
  BY <1>2, <1>3, <1>4

(* issue_reboot: the command reaches the host or does not.                 *)
LEMMA CommandInv ==
  ASSUME IInv, NEW p \in Procs, NEW h \in Hosts, Command(p, h)
  PROVE  IInv'
<1>1. TypeOK /\ HostInv(h) /\ ThreadInv(p, h)
  BY DEF IInv
<1>2. PICK s \in {"wait", "end"} :
        /\ ThreadMove(p, h, s) /\ pc'[p][h] = s
        /\ s = "wait" => left'[p][h] = BootWait
        /\ down'[p][h] = down[p][h] /\ again'[p][h] = again[p][h]
  BY CommandMove
<1>3. pc[p][h] = "command" /\ UNCHANGED <<method, broken, health, hangs, rec, lock>>
  BY DEF Command
<1>4. ASSUME UNCHANGED <<age, late, power, job>>
      PROVE  IInv'
  <2>1. HostInv(h)'
    BY <1>1, <1>3, <1>4 DEF HostInv
  <2>2. ThreadInv(p, h)'
    BY <1>1, <1>2, <1>3, <1>4, Bounds
    DEF ThreadInv, WaitInv, GivenUp, Calm, Asking, TypeOK
  <2> QED
    BY <1>1, <1>2, <1>3, <1>4, <2>1, <2>2, LoudStep
    DEF TypeOK, SameRun, SameHost
<1>5. ASSUME age' = [age EXCEPT ![h] = 0], late' = [late EXCEPT ![h] = 0],
             power' = [power EXCEPT ![h] =
                         IF method = "sysrq" THEN "down" ELSE "going"],
             LoseJob(h) \/ UNCHANGED job
      PROVE  IInv'
  <2>1. /\ power' \in [Hosts -> Powers] /\ age' \in [Hosts -> 0 .. AgeCap]
        /\ job' \in [Hosts -> Jobs] /\ late' \in [Hosts -> 0 .. MaxWait]
        /\ age'[h] = 0 /\ late'[h] = 0
        /\ power'[h] = IF method = "sysrq" THEN "down" ELSE "going"
        /\ \A g \in Hosts \ {h} :
             power'[g] = power[g] /\ age'[g] = age[g] /\ late'[g] = late[g]
    BY <1>1, <1>5, LoseJobType, Bounds DEF TypeOK, Powers
  <2>2. HostInv(h)'
    BY <1>1, <1>3, <2>1, Bounds DEF HostInv, ThreadInv, None
  <2>3. ThreadInv(p, h)'
    BY <1>1, <1>2, <1>3, <2>1, Bounds
    DEF ThreadInv, WaitInv, GivenUp, Calm, Asking
  <2> QED
    BY <1>1, <1>2, <1>3, <2>1, <2>2, <2>3, LoudStep
    DEF TypeOK, SameRun, SameHost
<1>6. \/ UNCHANGED <<age, late, power, job>>
      \/ /\ age' = [age EXCEPT ![h] = 0] /\ late' = [late EXCEPT ![h] = 0]
         /\ power' = [power EXCEPT ![h] =
                        IF method = "sysrq" THEN "down" ELSE "going"]
         /\ LoseJob(h) \/ UNCHANGED job
  BY DEF Command
<1> QED
  BY <1>4, <1>5, <1>6

(* hmc_force_reboot: the HMC does not do what it is asked for.             *)
LEMMA HmcFailsInv ==
  ASSUME IInv, NEW p \in Procs, NEW h \in Hosts, HmcFails(p, h),
         pc[p][h] \in Operating, Quiet, UNCHANGED <<listed, down, again>>
  PROVE  IInv'
<1>1. TypeOK /\ HostInv(h) /\ ThreadInv(p, h) /\ pc[p][h] # "idle"
  BY DEF IInv, Operating
<1>2. ThreadMove(p, h, "end") /\ UNCHANGED <<left, down, again>>
  BY DEF HmcFails, ThreadMove, Stages
<1>3. /\ pc'[p][h] = "end" /\ left'[p][h] = left[p][h]
      /\ down'[p][h] = down[p][h] /\ again'[p][h] = again[p][h]
  BY <1>1, <1>2, MoveFacts
<1>4. ThreadInv(p, h)'
  BY <1>1, <1>2, <1>3
  DEF ThreadInv, WaitInv, GivenUp, Calm, Asking, Operating, Quiet, env
<1> QED
  BY <1>1, <1>2, <1>4, QuietStep

(* HmcSession.operate: where the thread goes, and how long it may take.    *)
LEMMA OperationMove ==
  ASSUME TypeOK, NEW p \in Procs, NEW h \in Hosts, NEW s \in Operating,
         NextOperation(p, h, s), UNCHANGED <<listed, down, again>>
  PROVE  \E t \in {s, "end"} :
           /\ ThreadMove(p, h, t) /\ pc'[p][h] = t
           /\ t = s => left'[p][h] = HmcWait
           /\ down'[p][h] = down[p][h] /\ again'[p][h] = again[p][h]
<1>1. CASE WaitIn(p, h, s, HmcWait)
  <2>1. ThreadMove(p, h, s)
    BY <1>1, Bounds DEF ThreadMove, WaitIn, Goto, Stages
  <2>2. left'[p][h] = HmcWait
    BY <1>1, UpdateAt, Bounds DEF WaitIn, TypeOK
  <2>3. /\ pc'[p][h] = s /\ down'[p][h] = down[p][h]
        /\ again'[p][h] = again[p][h]
    BY <2>1, MoveFacts
  <2> QED
    BY <2>1, <2>2, <2>3
<1>2. CASE HmcFails(p, h)
  <2>1. ThreadMove(p, h, "end") /\ "end" # s
    BY <1>2 DEF HmcFails, ThreadMove, Stages, Operating
  <2> QED
    BY <2>1, MoveFacts
<1> QED
  BY <1>1, <1>2 DEF NextOperation

(* _reset_and_load: reset-clear.                                           *)
LEMMA ResetInv ==
  ASSUME IInv, NEW p \in Procs, NEW h \in Hosts, Reset(p, h)
  PROVE  IInv'
<1>1. TypeOK /\ HostInv(h) /\ ThreadInv(p, h)
  BY DEF IInv
<1>2. /\ pc[p][h] = "reset" /\ pc[p][h] \in Operating
      /\ UNCHANGED <<method, broken, health, age, late, hangs, rec, lock>>
      /\ UNCHANGED <<listed, down, again>>
  BY DEF Reset, Operating
<1>3. CASE HmcFails(p, h) /\ UNCHANGED <<power, job>>
  BY <1>2, <1>3, HmcFailsInv DEF Quiet, env
<1>4. ASSUME power' = [power EXCEPT ![h] = "cleared"], LoseJob(h),
             NextOperation(p, h, "load")
      PROVE  IInv'
  <2>1. PICK t \in {"load", "end"} :
          /\ ThreadMove(p, h, t) /\ pc'[p][h] = t
          /\ t = "load" => left'[p][h] = HmcWait
          /\ down'[p][h] = down[p][h] /\ again'[p][h] = again[p][h]
    <3>1. "load" \in Operating
      BY DEF Operating
    <3> QED
      BY <1>1, <1>2, <1>4, <3>1, OperationMove
  <2>2. /\ power' \in [Hosts -> Powers] /\ job' \in [Hosts -> Jobs]
        /\ power'[h] = "cleared"
        /\ \A g \in Hosts \ {h} : power'[g] = power[g]
    BY <1>1, <1>4, LoseJobType DEF TypeOK, Powers
  <2>3. HostInv(h)'
    BY <1>1, <1>2, <2>2 DEF HostInv
  <2>4. /\ rec[h] \in Int /\ left[p][h] \in Nat
        /\ "disk" \notin broken => rec[h] # None /\ rec[h] <= HmcWait
    <3>1. rec[h] \in Int /\ left[p][h] \in Nat
      BY <1>1, Bounds DEF TypeOK, None
    <3> QED
      BY <1>1, <1>2, <3>1, Bounds DEF ThreadInv
  <2>5. ThreadInv(p, h)'
    BY <1>1, <1>2, <2>1, <2>2, <2>4, Bounds
    DEF ThreadInv, WaitInv, GivenUp, Calm, Asking
  <2> QED
    BY <1>1, <1>2, <2>1, <2>2, <2>3, <2>5, LoudStep
    DEF TypeOK, SameRun, SameHost
<1> QED
  BY <1>3, <1>4 DEF Reset

(* _reset_and_load: load, and the record is as old as the HMC was slow.    *)
LEMMA LoadInv ==
  ASSUME IInv, NEW p \in Procs, NEW h \in Hosts, Load(p, h)
  PROVE  IInv'
<1>1. TypeOK /\ HostInv(h) /\ ThreadInv(p, h)
  BY DEF IInv
<1>2. /\ pc[p][h] = "load" /\ pc[p][h] \in Operating
      /\ UNCHANGED <<method, broken, health, job, hangs, rec, lock>>
      /\ UNCHANGED <<listed, down, again>>
  BY DEF Load, Operating
<1>3. CASE HmcFails(p, h) /\ UNCHANGED <<power, age, late>>
  BY <1>2, <1>3, HmcFailsInv DEF Quiet, env
<1>4. ASSUME power' = [power EXCEPT ![h] = "down"],
             age' = [age EXCEPT ![h] = 0],
             late' = [late EXCEPT ![h] = Larger(0, rec[h])],
             NextOperation(p, h, "status")
      PROVE  IInv'
  <2>1. PICK t \in {"status", "end"} :
          /\ ThreadMove(p, h, t) /\ pc'[p][h] = t
          /\ t = "status" => left'[p][h] = HmcWait
          /\ down'[p][h] = down[p][h] /\ again'[p][h] = again[p][h]
    <3>1. "status" \in Operating
      BY DEF Operating
    <3> QED
      BY <1>1, <1>2, <1>4, <3>1, OperationMove
  <2>2. /\ Larger(0, rec[h]) \in 0 .. MaxWait
        /\ rec[h] # None => Larger(0, rec[h]) = rec[h]
    BY <1>1, Bounds DEF TypeOK, Larger, None
  <2>3. /\ power' \in [Hosts -> Powers] /\ age' \in [Hosts -> 0 .. AgeCap]
        /\ late' \in [Hosts -> 0 .. MaxWait] /\ job' \in [Hosts -> Jobs]
        /\ power'[h] = "down" /\ age'[h] = 0 /\ late'[h] = Larger(0, rec[h])
        /\ \A g \in Hosts \ {h} :
             power'[g] = power[g] /\ age'[g] = age[g] /\ late'[g] = late[g]
    <3>1. power' \in [Hosts -> Powers] /\ power'[h] = "down"
      BY <1>1, <1>4 DEF TypeOK, Powers
    <3>2. /\ age' \in [Hosts -> 0 .. AgeCap] /\ age'[h] = 0
      BY <1>1, <1>4, Bounds DEF TypeOK
    <3>3. late' \in [Hosts -> 0 .. MaxWait] /\ late'[h] = Larger(0, rec[h])
      BY <1>1, <1>4, <2>2 DEF TypeOK
    <3> QED
      BY <1>1, <1>2, <1>4, <3>1, <3>2, <3>3 DEF TypeOK
  <2>4. "disk" \notin broken => rec[h] # None /\ late'[h] = rec[h]
                                  /\ rec[h] <= 2 * HmcWait
    <3>1. rec[h] \in Int /\ left[p][h] \in Nat
      BY <1>1, Bounds DEF TypeOK, None
    <3> QED
      BY <1>1, <1>2, <2>2, <2>3, <3>1, Bounds DEF ThreadInv
  <2>5. HostInv(h)'
    <3>1. rec[h] \in Int /\ rec'[h] = rec[h] /\ broken' = broken
          /\ method' = method
      BY <1>1, <1>2, Bounds DEF TypeOK, None
    <3> QED
      BY <2>3, <2>4, <3>1, Bounds DEF HostInv
  <2>6. ThreadInv(p, h)'
    BY <1>1, <1>2, <2>1, <2>3
    DEF ThreadInv, WaitInv, GivenUp, Calm, Asking
  <2> QED
    BY <1>1, <1>2, <2>1, <2>3, <2>5, <2>6, LoudStep
    DEF TypeOK, SameRun, SameHost
<1> QED
  BY <1>3, <1>4 DEF Load

(* _wait_for_lpar_status: the second wait begins.                          *)
LEMMA StatusInv ==
  ASSUME IInv, NEW p \in Procs, NEW h \in Hosts, Status(p, h)
  PROVE  IInv'
<1>1. TypeOK /\ HostInv(h) /\ ThreadInv(p, h)
  BY DEF IInv
<1>2. /\ pc[p][h] = "status" /\ pc[p][h] \in Operating /\ pc[p][h] # "idle"
      /\ Quiet /\ UNCHANGED <<listed, down, again>>
  BY DEF Status, Operating, Quiet
<1>3. CASE HmcFails(p, h)
  BY <1>2, <1>3, HmcFailsInv
<1>4. CASE WaitIn(p, h, "return", BootWait)
  <2>1. ThreadMove(p, h, "return")
    BY <1>2, <1>4, Bounds DEF ThreadMove, WaitIn, Stages, Waiting
  <2>2. left'[p][h] = BootWait
    BY <1>1, <1>4, UpdateAt, Bounds DEF WaitIn, TypeOK
  <2>3. /\ pc'[p][h] = "return" /\ down'[p][h] = down[p][h]
        /\ again'[p][h] = again[p][h]
    BY <1>1, <1>2, <2>1, MoveFacts
  <2>4. age[h] \in Nat
    BY <1>1, Bounds DEF TypeOK
  <2>5. ThreadInv(p, h)'
    BY <1>1, <1>2, <2>2, <2>3, <2>4, Bounds
    DEF ThreadInv, WaitInv, GivenUp, Calm, Asking, Quiet, env
  <2> QED
    BY <1>2, <2>1, <2>5, QuietStep
<1> QED
  BY <1>3, <1>4 DEF Status

(* trigger_actions: the jobs are restarted.                                *)
LEMMA RestartJobsInv ==
  ASSUME IInv, NEW p \in Procs, NEW h \in Hosts, RestartJobs(p, h)
  PROVE  IInv'
<1>1. TypeOK /\ HostInv(h) /\ ThreadInv(p, h)
  BY DEF IInv
<1>2. /\ pc[p][h] = "restart" /\ ThreadMove(p, h, "end")
      /\ UNCHANGED <<method, broken, power, health, age, late, hangs, rec, lock, locals>>
  BY DEF RestartJobs, ThreadMove, Stages, locals
<1>3. job' \in [Hosts -> Jobs]
  BY <1>1 DEF RestartJobs, TypeOK, Jobs
<1>4. /\ pc'[p][h] = "end" /\ left'[p][h] = left[p][h]
      /\ down'[p][h] = down[p][h] /\ again'[p][h] = again[p][h]
  BY <1>1, <1>2, MoveFacts DEF locals
<1>5. HostInv(h)' /\ ThreadInv(p, h)'
  BY <1>1, <1>2, <1>4
  DEF HostInv, ThreadInv, WaitInv, GivenUp, Calm, Asking
<1> QED
  BY <1>1, <1>2, <1>3, <1>5, LoudStep DEF TypeOK, SameRun, SameHost

-----------------------------------------------------------------------------
(* The surroundings.                                                          *)

(* A host falls ill.                                                       *)
LEMMA SickenInv ==
  ASSUME IInv, NEW h \in Hosts, Sicken(h)
  PROVE  IInv'
<1>1. TypeOK /\ HostInv(h) /\ \A p \in Procs : ThreadInv(p, h)
  BY DEF IInv
<1>2. /\ SameRun /\ UNCHANGED <<pc, locals>> /\ UNCHANGED <<age, late, rec>>
      /\ UNCHANGED power
  BY DEF Sicken, SameRun
<1>3. TypeOK' /\ \A g \in Hosts \ {h} : SameHost(g)
  BY <1>1, LoseJobType, ReaperAssumption
  DEF Sicken, TypeOK, SameHost, Powers, Jobs, locals, ReaperAssumption
<1>4. HostInv(h)'
  BY <1>1, <1>2 DEF HostInv, SameRun, TypeOK
<1>5. ASSUME NEW p \in Procs PROVE ThreadInv(p, h)'
  BY <1>1, <1>2
  DEF ThreadInv, WaitInv, GivenUp, Calm, SameRun, TypeOK, locals
<1> QED
  BY <1>2, <1>3, <1>4, <1>5, HostStep

(* A zombie ends by itself.                                                *)
LEMMA HealInv ==
  ASSUME IInv, NEW h \in Hosts, Heal(h)
  PROVE  IInv'
<1>1. TypeOK /\ HostInv(h) /\ \A p \in Procs : ThreadInv(p, h)
  BY DEF IInv
<1>2. /\ SameRun /\ UNCHANGED <<pc, locals>> /\ UNCHANGED <<age, late, rec>>
      /\ UNCHANGED power
  BY DEF Heal, SameRun
<1>3. TypeOK' /\ \A g \in Hosts \ {h} : SameHost(g)
  BY <1>1, LoseJobType, ReaperAssumption
  DEF Heal, TypeOK, SameHost, Powers, Jobs, locals, ReaperAssumption
<1>4. HostInv(h)'
  BY <1>1, <1>2 DEF HostInv, SameRun, TypeOK
<1>5. ASSUME NEW p \in Procs PROVE ThreadInv(p, h)'
  BY <1>1, <1>2
  DEF ThreadInv, WaitInv, GivenUp, Calm, SameRun, TypeOK, locals
<1> QED
  BY <1>2, <1>3, <1>4, <1>5, HostStep

(* A host hangs.                                                           *)
LEMMA HangInv ==
  ASSUME IInv, NEW h \in Hosts, Hang(h)
  PROVE  IInv'
<1>1. TypeOK /\ HostInv(h) /\ \A p \in Procs : ThreadInv(p, h)
  BY DEF IInv
<1>2. /\ SameRun /\ UNCHANGED <<pc, locals>> /\ UNCHANGED <<age, late, rec>>
      /\ power' = [power EXCEPT ![h] = "dead"]
  BY DEF Hang, SameRun
<1>3. TypeOK' /\ \A g \in Hosts \ {h} : SameHost(g)
  BY <1>1, LoseJobType, ReaperAssumption
  DEF Hang, TypeOK, SameHost, Powers, Jobs, locals, ReaperAssumption
<1>4. HostInv(h)'
  BY <1>1, <1>2 DEF HostInv, SameRun, TypeOK
<1>5. ASSUME NEW p \in Procs PROVE ThreadInv(p, h)'
  BY <1>1, <1>2
  DEF ThreadInv, WaitInv, GivenUp, Calm, SameRun, TypeOK, locals
<1> QED
  BY <1>2, <1>3, <1>4, <1>5, HostStep

(* An orderly shutdown is done.                                            *)
LEMMA GoDownInv ==
  ASSUME IInv, NEW h \in Hosts, GoDown(h)
  PROVE  IInv'
<1>1. TypeOK /\ HostInv(h) /\ \A p \in Procs : ThreadInv(p, h)
  BY DEF IInv
<1>2. /\ SameRun /\ UNCHANGED <<pc, locals>> /\ UNCHANGED <<age, late, rec>>
      /\ power[h] = "going" /\ power' = [power EXCEPT ![h] = "down"]
  BY DEF GoDown, SameRun
<1>3. TypeOK' /\ \A g \in Hosts \ {h} : SameHost(g)
  BY <1>1, LoseJobType, ReaperAssumption
  DEF GoDown, TypeOK, SameHost, Powers, Jobs, locals, ReaperAssumption
<1>4. HostInv(h)'
  BY <1>1, <1>2 DEF HostInv, SameRun, TypeOK
<1>5. ASSUME NEW p \in Procs PROVE ThreadInv(p, h)'
  BY <1>1, <1>2
  DEF ThreadInv, WaitInv, GivenUp, Calm, SameRun, TypeOK, locals
<1> QED
  BY <1>2, <1>3, <1>4, <1>5, HostStep

(* A host is back.                                                         *)
LEMMA BootInv ==
  ASSUME IInv, NEW h \in Hosts, Boot(h)
  PROVE  IInv'
<1>1. TypeOK /\ HostInv(h) /\ \A p \in Procs : ThreadInv(p, h)
  BY DEF IInv
<1>2. /\ SameRun /\ UNCHANGED <<pc, locals>> /\ UNCHANGED <<age, late, rec>>
      /\ power[h] = "down" /\ power' = [power EXCEPT ![h] = "up"]
  BY DEF Boot, SameRun
<1>3. TypeOK' /\ \A g \in Hosts \ {h} : SameHost(g)
  BY <1>1, LoseJobType, ReaperAssumption
  DEF Boot, TypeOK, SameHost, Powers, Jobs, locals, ReaperAssumption
<1>4. HostInv(h)'
  BY <1>1, <1>2 DEF HostInv, SameRun, TypeOK
<1>5. ASSUME NEW p \in Procs PROVE ThreadInv(p, h)'
  BY <1>1, <1>2
  DEF ThreadInv, WaitInv, GivenUp, Calm, SameRun, TypeOK, locals
<1> QED
  BY <1>2, <1>3, <1>4, <1>5, HostStep

(* A worker picks up a job.                                                *)
LEMMA StartJobInv ==
  ASSUME IInv, NEW h \in Hosts, StartJob(h)
  PROVE  IInv'
<1>1. TypeOK /\ HostInv(h) /\ \A p \in Procs : ThreadInv(p, h)
  BY DEF IInv
<1>2. /\ SameRun /\ UNCHANGED <<pc, locals>> /\ UNCHANGED <<age, late, rec>>
      /\ UNCHANGED power
  BY DEF StartJob, SameRun
<1>3. TypeOK' /\ \A g \in Hosts \ {h} : SameHost(g)
  BY <1>1, LoseJobType, ReaperAssumption
  DEF StartJob, TypeOK, SameHost, Powers, Jobs, locals, ReaperAssumption
<1>4. HostInv(h)'
  BY <1>1, <1>2 DEF HostInv, SameRun, TypeOK
<1>5. ASSUME NEW p \in Procs PROVE ThreadInv(p, h)'
  BY <1>1, <1>2
  DEF ThreadInv, WaitInv, GivenUp, Calm, SameRun, TypeOK, locals
<1> QED
  BY <1>2, <1>3, <1>4, <1>5, HostStep

(* A job is over.                                                          *)
LEMMA EndJobInv ==
  ASSUME IInv, NEW h \in Hosts, EndJob(h)
  PROVE  IInv'
<1>1. TypeOK /\ HostInv(h) /\ \A p \in Procs : ThreadInv(p, h)
  BY DEF IInv
<1>2. /\ SameRun /\ UNCHANGED <<pc, locals>> /\ UNCHANGED <<age, late, rec>>
      /\ UNCHANGED power
  BY DEF EndJob, SameRun
<1>3. TypeOK' /\ \A g \in Hosts \ {h} : SameHost(g)
  BY <1>1, LoseJobType, ReaperAssumption
  DEF EndJob, TypeOK, SameHost, Powers, Jobs, locals, ReaperAssumption
<1>4. HostInv(h)'
  BY <1>1, <1>2 DEF HostInv, SameRun, TypeOK
<1>5. ASSUME NEW p \in Procs PROVE ThreadInv(p, h)'
  BY <1>1, <1>2
  DEF ThreadInv, WaitInv, GivenUp, Calm, SameRun, TypeOK, locals
<1> QED
  BY <1>2, <1>3, <1>4, <1>5, HostStep

-----------------------------------------------------------------------------
(* The runs, the clock, and the theorems.                                     *)

(* A run begins with threads that know nothing yet.                           *)
LEMMA StartRunInv ==
  ASSUME IInv, NEW p \in Procs, StartRun(p)
  PROVE  IInv'
<1>1. TypeOK /\ \A h \in Hosts : HostInv(h)
  BY DEF IInv
<1>2. /\ \A q \in Procs, h \in Hosts : ThreadInv(q, h)
      /\ \A h \in Hosts : pc[p][h] = "idle"
  BY DEF IInv, StartRun
<1>3. TypeOK'
  BY <1>1 DEF StartRun, TypeOK, Stages, env, locals
<1>4. ASSUME NEW h \in Hosts PROVE HostInv(h)'
  BY <1>1 DEF HostInv, StartRun, env
<1>5. ASSUME NEW h \in Hosts PROVE ThreadInv(p, h)'
  <2>1. /\ pc'[p][h] = "queued" /\ lock' = p
        /\ down'[p][h] = down[p][h] /\ again'[p][h] = again[p][h]
    BY <1>1 DEF StartRun, TypeOK, locals
  <2> QED
    BY <1>2, <2>1 DEF ThreadInv, WaitInv, GivenUp, Asking
<1>6. ASSUME NEW q \in Procs, q # p, NEW h \in Hosts PROVE ThreadInv(q, h)'
  <2>1. pc[q][h] = "idle"
    BY <1>2, <1>6, ReaperAssumption DEF StartRun, ThreadInv, ReaperAssumption
  <2>2. /\ pc'[q][h] = "idle"
        /\ down'[q][h] = down[q][h] /\ again'[q][h] = again[q][h]
    BY <1>1, <1>6, <2>1 DEF StartRun, TypeOK, locals
  <2> QED
    BY <1>2, <2>1, <2>2 DEF ThreadInv, WaitInv, GivenUp, Asking
<1> QED
  BY <1>3, <1>4, <1>5, <1>6 DEF IInv

(* A run leaves nothing behind but the record, whether it ends or is killed.  *)
LEMMA LeaveInv ==
  ASSUME IInv, NEW p \in Procs, lock = p, lock' = NoRun,
         pc' = [pc EXCEPT ![p] = [h \in Hosts |-> "idle"]],
         left' = [left EXCEPT ![p] = [h \in Hosts |-> 0]],
         listed' = [listed EXCEPT ![p] = [h \in Hosts |-> FALSE]],
         down' = [down EXCEPT ![p] = [h \in Hosts |-> FALSE]],
         again' = [again EXCEPT ![p] = [h \in Hosts |-> FALSE]],
         UNCHANGED <<method, broken, env, rec>>
  PROVE  IInv'
<1>1. TypeOK /\ \A h \in Hosts : HostInv(h)
  BY DEF IInv
<1>2. \A q \in Procs, h \in Hosts : ThreadInv(q, h)
  BY DEF IInv
<1>3. TypeOK'
  <2>1. /\ pc' \in [Procs -> [Hosts -> Stages]]
        /\ left' \in [Procs -> [Hosts -> 0 .. LeftCap]]
    BY <1>1, Bounds DEF TypeOK, Stages
  <2>2. /\ listed' \in [Procs -> [Hosts -> BOOLEAN]]
        /\ down' \in [Procs -> [Hosts -> BOOLEAN]]
        /\ again' \in [Procs -> [Hosts -> BOOLEAN]]
    BY <1>1 DEF TypeOK
  <2> QED
    BY <1>1, <2>1, <2>2 DEF TypeOK, env
<1>4. ASSUME NEW h \in Hosts PROVE HostInv(h)'
  BY <1>1 DEF HostInv, env
<1>5. ASSUME NEW q \in Procs, NEW h \in Hosts PROVE ThreadInv(q, h)'
  <2>1. pc'[q][h] = "idle" /\ ~down'[q][h] /\ ~again'[q][h]
    <3>1. CASE q = p
      BY <1>1, <3>1 DEF TypeOK
    <3>2. CASE q # p
      <4>1. pc[q][h] = "idle" /\ ~down[q][h] /\ ~again[q][h]
        BY <1>2, <3>2 DEF ThreadInv
      <4> QED
        BY <1>1, <3>2, <4>1 DEF TypeOK
    <3> QED
      BY <3>1, <3>2
  <2> QED
    BY <2>1 DEF ThreadInv, WaitInv, GivenUp, Asking
<1> QED
  BY <1>3, <1>4, <1>5 DEF IInv

LEMMA EndRunInv ==
  ASSUME IInv, NEW p \in Procs, EndRun(p)
  PROVE  IInv'
<1>1. PICK h \in Hosts : pc[p][h] = "end"
  BY DEF EndRun
<1>2. lock = p
  BY <1>1 DEF IInv, ThreadInv
<1> QED
  BY <1>2, LeaveInv DEF EndRun

LEMMA DieInv ==
  ASSUME IInv, NEW p \in Procs, Die(p)
  PROVE  IInv'
  BY LeaveInv DEF Die

(* The clock takes from a wait what it adds to the time since the boot, and   *)
(* makes a record and the boot it records older alike.                        *)
LEMMA TickInv ==
  ASSUME IInv, Tick
  PROVE  IInv'
<1>1. TypeOK /\ \A h \in Hosts : HostInv(h)
  BY DEF IInv
<1>2. \A p \in Procs, h \in Hosts : ThreadInv(p, h)
  BY DEF IInv
<1>3. /\ UNCHANGED <<method, broken, power, health, late, job, hangs, lock>>
      /\ UNCHANGED <<pc, listed, down, again>>
  BY DEF Tick
<1>4. ASSUME NEW h \in Hosts
      PROVE  /\ age'[h] = OneMore(age[h], AgeCap)
             /\ age[h] \in 0 .. AgeCap /\ age'[h] \in 0 .. AgeCap
             /\ rec[h] \in {None} \cup 0 .. MaxWait
             /\ rec'[h] \in {None} \cup 0 .. MaxWait
             /\ rec'[h] = IF rec[h] = None THEN None
                          ELSE OneMore(rec[h], MaxWait)
  BY <1>1, Bounds DEF Tick, TypeOK, OneMore, None
<1>5. ASSUME NEW p \in Procs, NEW h \in Hosts
      PROVE  /\ left'[p][h] = OneLess(left[p][h])
             /\ left[p][h] \in 0 .. LeftCap /\ left'[p][h] \in 0 .. LeftCap
  BY <1>1, Bounds DEF Tick, TypeOK, OneLess
<1>6. TypeOK'
  <2>1. age' \in [Hosts -> 0 .. AgeCap]
    BY <1>4 DEF Tick
  <2>2. rec' \in [Hosts -> {None} \cup 0 .. MaxWait]
    BY <1>4 DEF Tick
  <2>3. left' \in [Procs -> [Hosts -> 0 .. LeftCap]]
    BY <1>5 DEF Tick
  <2> QED
    BY <1>1, <1>3, <2>1, <2>2, <2>3 DEF TypeOK
<1>7. ASSUME NEW h \in Hosts PROVE HostInv(h)'
  <2>1. power[h] \in {"going", "down"} => age[h] < BootTime
    BY DEF Tick, MayTick
  <2>2. late[h] \in Nat /\ late'[h] = late[h]
    BY <1>1, <1>3, Bounds DEF TypeOK
  <2>3. power[h] \in {"going", "down"} => age'[h] = age[h] + 1
    BY <1>4, <2>1, Bounds DEF OneMore
  <2>4. rec[h] # None => rec'[h] # None /\ rec'[h] <= rec[h] + 1
    BY <1>4, Bounds DEF OneMore, None
  <2>5. rec[h] \in Int /\ rec'[h] \in Int
    BY <1>4, Bounds DEF None
  <2> QED
    BY <1>1, <1>3, <1>4, <2>1, <2>2, <2>3, <2>4, <2>5, Bounds DEF HostInv
<1>8. ASSUME NEW p \in Procs, NEW h \in Hosts PROVE ThreadInv(p, h)'
  <2>1. /\ pc[p][h] \notin Acting \cup Asking
        /\ pc[p][h] \in Waiting \cup Operating => left[p][h] > 0
        /\ power[h] \in {"going", "down"} => age[h] < BootTime
    BY DEF Tick, MayTick
  <2>2. /\ left'[p][h] \in Nat /\ age'[h] \in Nat
        /\ left[p][h] + age[h] <= left'[p][h] + age'[h]
             \/ pc[p][h] \notin Waiting \/ age'[h] = AgeCap
    BY <1>4, <1>5, <2>1, Bounds DEF OneMore, OneLess
  <2>3. WaitInv(p, h) => WaitInv(p, h)'
    <3>1. late[h] \in Nat /\ late'[h] = late[h]
      BY <1>1, <1>3, Bounds DEF TypeOK
    <3> QED
      BY <1>3, <1>4, <1>5, <2>1, <2>2, <3>1, Bounds
      DEF WaitInv, Waiting, Acting, Asking
  <2>4. GivenUp(p, h)' => GivenUp(p, h)
    BY <1>3, <2>1 DEF GivenUp, Acting
  <2>5. power[h] = "down" => age'[h] >= age[h]
    BY <1>4, <2>1, Bounds DEF OneMore
  <2>6. /\ pc[p][h] = "reset" /\ rec[h] # None
             /\ rec[h] + left[p][h] <= HmcWait =>
               rec'[h] # None /\ rec'[h] + left'[p][h] <= HmcWait
        /\ pc[p][h] = "load" /\ rec[h] # None
             /\ rec[h] + left[p][h] <= 2 * HmcWait =>
               rec'[h] # None /\ rec'[h] + left'[p][h] <= 2 * HmcWait
    BY <1>4, <1>5, <2>1, Bounds DEF Operating, OneMore, OneLess, None
  <2>7. late[h] \in Nat /\ age[h] \in Nat /\ age'[h] \in Nat
    BY <1>1, <1>4, Bounds DEF TypeOK
  <2> QED
    BY <1>2, <1>3, <2>1, <2>3, <2>4, <2>5, <2>6, <2>7, Bounds
    DEF ThreadInv, Acting, Asking, Calm
<1> QED
  BY <1>6, <1>7, <1>8 DEF IInv

LEMMA InitInv == Init => IInv
<1> SUFFICES ASSUME Init PROVE IInv
  OBVIOUS
<1>1. TypeOK
  <2>1. /\ age \in [Hosts -> 0 .. AgeCap] /\ late \in [Hosts -> 0 .. MaxWait]
        /\ rec \in [Hosts -> {None} \cup 0 .. MaxWait]
        /\ left \in [Procs -> [Hosts -> 0 .. LeftCap]]
    BY Bounds DEF Init, None
  <2> QED
    BY <2>1, ReaperAssumption
    DEF ReaperAssumption, Init, TypeOK, Powers, Jobs, Stages
<1>2. ASSUME NEW h \in Hosts PROVE HostInv(h)
  BY Bounds DEF Init, HostInv
<1>3. ASSUME NEW p \in Procs, NEW h \in Hosts PROVE ThreadInv(p, h)
  BY DEF Init, ThreadInv, WaitInv, GivenUp, Asking
<1> QED
  BY <1>1, <1>2, <1>3 DEF IInv

LEMMA NextInv == IInv /\ [Next]_vars => IInv'
<1> SUFFICES ASSUME IInv, [Next]_vars PROVE IInv'
  OBVIOUS
<1>1. ASSUME NEW p \in Procs, StartRun(p) \/ EndRun(p) \/ Die(p) PROVE IInv'
  BY <1>1, StartRunInv, EndRunInv, DieInv
<1>2. ASSUME NEW p \in Procs, NEW h \in Hosts, Thread(p, h) PROVE IInv'
  BY <1>2, StartHostInv, ScanInv, VerifyInv, CheckLibvirtInv, GraceOverInv,
     ListJobsInv, RecordRebootInv, CommandInv, WaitOverInv, MarkInv, ResetInv,
     LoadInv, StatusInv, ReturnOverInv, SettledInv, RestartJobsInv
  DEF Thread
<1>3. ASSUME NEW h \in Hosts,
             Sicken(h) \/ Heal(h) \/ Hang(h) \/ GoDown(h) \/ Boot(h)
               \/ StartJob(h) \/ EndJob(h)
      PROVE  IInv'
  BY <1>3, SickenInv, HealInv, HangInv, GoDownInv, BootInv, StartJobInv,
     EndJobInv
<1>4. CASE Tick
  BY <1>4, TickInv
<1>5. CASE UNCHANGED vars
  <2>1. TypeOK'
    BY <1>5 DEF IInv, TypeOK, vars, env, locals
  <2>2. \A h \in Hosts : HostInv(h)'
    BY <1>5 DEF IInv, HostInv, vars, env
  <2>3. \A p \in Procs, h \in Hosts : ThreadInv(p, h)'
    BY <1>5 DEF IInv, ThreadInv, WaitInv, GivenUp, Calm, vars, env, locals
  <2> QED
    BY <2>1, <2>2, <2>3 DEF IInv
<1> QED
  BY <1>1, <1>2, <1>3, <1>4, <1>5 DEF Next

LEMMA Inductive == Spec => []IInv
  BY InitInv, NextInv, PTL DEF Spec

(* Every variable of the reaper keeps its type; no wait is negative.          *)
THEOREM ReaperTypeCorrect == Spec => []TypeOK
<1>1. IInv => TypeOK
  BY DEF IInv
<1> QED
  BY <1>1, Inductive, PTL

(* file_lock keeps a host to one thread, also after a run was killed.         *)
THEOREM OneThreadPerHostAlways == Spec => []OneThreadPerHost
<1>1. IInv => OneThreadPerHost
  BY DEF IInv, ThreadInv, OneThreadPerHost
<1> QED
  BY <1>1, Inductive, PTL

(* The state file keeps the grace of a host that boots from run to run, but   *)
(* for what the HMC operations before the boot took, for any waits.           *)
THEOREM GraceAlwaysRespected == Spec => []GraceRespected
<1>1. IInv => GraceRespected
  <2> SUFFICES ASSUME IInv, Calm, NEW p \in Procs, NEW h \in Hosts,
                      pc[p][h] = "reset", power[h] = "down"
               PROVE  age[h] >= Grace - late[h] /\ late[h] <= 2 * HmcWait
    BY DEF GraceRespected, Calm
  <2>1. age[h] + late[h] >= Grace /\ late[h] <= 2 * HmcWait
    BY DEF IInv, ThreadInv, HostInv, GivenUp, Calm
  <2>2. age[h] \in Nat /\ late[h] \in Nat
    BY Bounds DEF IInv, TypeOK
  <2> QED
    BY <2>1, <2>2, Bounds
<1> QED
  BY <1>1, Inductive, PTL

(* With hosts that boot faster than what the HMC operations leave of the      *)
(* grace, the HMC resets dead hosts only.                                     *)
THEOREM HmcOnlyForTheDead == Spec => []HmcOnlyForDeadHosts
<1>1. IInv => HmcOnlyForDeadHosts
  <2> SUFFICES ASSUME IInv, Calm, NEW p \in Procs, NEW h \in Hosts,
                      pc[p][h] = "reset", BootTime < Grace - late[h]
               PROVE  power[h] \in {"dead", "cleared"}
    BY DEF HmcOnlyForDeadHosts, Calm
  <2>1. late[h] \in Nat
    BY Bounds DEF IInv, TypeOK
  <2>2. BootTime + late[h] < Grace
    BY <2>1, Bounds
  <2> QED
    BY <2>2 DEF IInv, ThreadInv, GivenUp, Calm
<1> QED
  BY <1>1, Inductive, PTL

(* A host that was crashed for its zombies is back before its jobs are.       *)
THEOREM SysrqRestartsAfterBoot == Spec => []SysrqRestartsOnHostThatIsBack
<1>1. IInv => SysrqRestartsOnHostThatIsBack
  BY DEF IInv, ThreadInv, SysrqRestartsOnHostThatIsBack,
         RestartsOnHostThatIsBack
<1> QED
  BY <1>1, Inductive, PTL
=============================================================================
