----------------------- MODULE PowerManagementProofs -----------------------
(* For any machines, workers and jobs: the lists of machines are sorted lists *)
(* of machines, and one with a running job is switched off only when a worker *)
(* is broken there, too.                                                      *)
EXTENDS PowerManagement, FiniteSetTheorems, SequenceTheorems, TLAPS

(* How many machines of a list come before one.                               *)
Rank(S, m) == Cardinality({n \in S : n < m})

(* Every place of a sorted list has its machine: the ranks of n machines are  *)
(* n different numbers below n.                                               *)
LEMMA RankedOnce ==
  ASSUME NEW S \in SUBSET Machines
  PROVE  /\ Cardinality(S) \in Nat
         /\ \A i \in 1 .. Cardinality(S) : \E m \in S : Rank(S, m) = i - 1
<1> DEFINE card == Cardinality(S)
           below(m) == {n \in S : n < m}
           place == [m \in S |-> Rank(S, m) + 1]
<1>1. IsFiniteSet(S) /\ card \in Nat /\ S \subseteq Nat
  BY PowerAssumption, FS_Subset, FS_CardinalityType
<1>2. ASSUME NEW m \in S
      PROVE  /\ IsFiniteSet(below(m)) /\ Rank(S, m) \in Nat /\ Rank(S, m) < card
  <2>1. below(m) \in SUBSET S /\ m \notin below(m) /\ Rank(S, m) = Cardinality(below(m))
    BY <1>1 DEF Rank
  <2> HIDE DEF below
  <2>2. IsFiniteSet(below(m)) /\ Cardinality(below(m)) \in Nat /\ Cardinality(below(m)) <= card
    BY <1>1, <2>1, FS_Subset, FS_CardinalityType
  <2>3. Cardinality(below(m)) # card
    BY <1>1, <2>1, FS_Subset
  <2> QED BY <1>1, <2>1, <2>2, <2>3
<1>3. ASSUME NEW l \in S, NEW m \in S, l < m
      PROVE  Rank(S, l) < Rank(S, m)
  <2>1. /\ below(l) \in SUBSET below(m) /\ l \in below(m) /\ l \notin below(l)
        /\ Rank(S, l) = Cardinality(below(l)) /\ Rank(S, m) = Cardinality(below(m))
    <3>1. l \in Nat /\ m \in Nat /\ \A n \in S : n \in Nat
      BY <1>1
    <3>2. below(l) \in SUBSET below(m) /\ l \in below(m) /\ l \notin below(l)
      <4>1. \A n \in S : n < l => n < m
        BY <1>3, <3>1
      <4>2. ~ (l < l)
        BY <3>1
      <4> QED BY <1>3, <4>1, <4>2, Zenon
    <3> QED BY <3>2 DEF Rank
  <2>2. IsFiniteSet(below(m)) /\ Rank(S, l) \in Nat /\ Rank(S, m) \in Nat
    BY <1>2
  <2> HIDE DEF below
  <2>3. Cardinality(below(l)) <= Cardinality(below(m)) /\ Cardinality(below(l)) # Cardinality(below(m))
    BY <2>1, <2>2, FS_Subset
  <2> QED BY <2>1, <2>2, <2>3
<1> HIDE DEF card, below
<1>8. \A m \in S : Rank(S, m) \in Nat /\ Rank(S, m) < card /\ m \in Nat
  BY <1>1, <1>2
<1>4. place \in Injection(S, 1 .. card)
  <2>1. place \in [S -> 1 .. card]
    BY <1>1, <1>8
  <2>2. ASSUME NEW l \in S, NEW m \in S, place[l] = place[m] PROVE l = m
    BY <1>3, <1>8, <2>2
  <2> HIDE DEF place
  <2> QED BY <2>1, <2>2 DEF Injection, IsInjective
<1>5. IsFiniteSet(1 .. card) /\ Cardinality(1 .. card) = card
  BY <1>1, FS_Interval
<1>6. place \in Surjection(S, 1 .. card)
  <2> HIDE DEF place
  <2> QED BY <1>4, <1>5, FS_Injection DEF card
<1>7. \A i \in 1 .. card : \E m \in S : place[m] = i
  <2> HIDE DEF place
  <2> QED BY <1>6, Zenon DEF Surjection
<1>9. \A i \in 1 .. card : \E m \in S : Rank(S, m) = i - 1
  <2> SUFFICES ASSUME NEW i \in 1 .. card PROVE \E m \in S : Rank(S, m) = i - 1
    OBVIOUS
  <2>1. PICK m \in S : Rank(S, m) + 1 = i
    BY <1>7
  <2>2. Rank(S, m) = i - 1
    BY <1>8, <2>1
  <2> QED BY <2>2
<1> QED BY <1>1, <1>9 DEF card

(* A sorted list has machines of the set it is made of.                       *)
LEMMA SortedOf ==
  ASSUME NEW S \in SUBSET Machines
  PROVE  Sorted(S) \in Seq(S)
<1>1. \A i \in 1 .. Cardinality(S) :
        (CHOOSE m \in S : Cardinality({n \in S : n < m}) = i - 1) \in S
  <2> SUFFICES ASSUME NEW i \in 1 .. Cardinality(S)
               PROVE  (CHOOSE m \in S : Cardinality({n \in S : n < m}) = i - 1) \in S
    OBVIOUS
  <2>1. \E m \in S : Cardinality({n \in S : n < m}) = i - 1
    BY RankedOnce DEF Rank
  <2> QED BY <2>1, Zenon
<1>2. Sorted(S) \in [1 .. Cardinality(S) -> S]
  BY <1>1, Zenon DEF Sorted
<1> QED BY <1>2, RankedOnce
-----------------------------------------------------------------------------
(* The lists of machines are made of hosts of workers.                        *)
LEMMA ListsOfHosts ==
  ASSUME NEW st
  PROVE  /\ Idle(st) \subseteq Machines /\ Broken(st) \subseteq Machines
         /\ \A needed : PoweredOnFor(st, needed) \subseteq Machines
  BY PowerAssumption DEF Idle, Broken, PoweredOnFor

(* The rest of a list.                                                        *)
LEMMA RestOfList ==
  ASSUME NEW S, NEW s \in Seq(S), s # <<>>
  PROVE  /\ Head(s) \in S /\ Tail(s) \in Seq(S)
  BY HeadTailProperties

(* What the script has still to switch off was idle or broken when it read    *)
(* the workers.                                                               *)
OffInv == pc \in {"on", "off"} => toOff \in Seq(Idle(seen) \cup Broken(seen))

(* The steps of the script keep the types.                                    *)
LEMMA ScriptTypes == TypeOK /\ (Proceed \/ Fail) => TypeOK'
<1> SUFFICES ASSUME TypeOK, Proceed \/ Fail PROVE TypeOK'
  OBVIOUS
<1>1. CASE ListJobs
  BY <1>1 DEF ListJobs, TypeOK, outside
<1>2. CASE ReadWorkers
  <2>1. /\ Sorted(PoweredOnFor(status, classes)) \in Seq(Machines)
        /\ Sorted(Idle(status)) \o Sorted(Broken(status)) \in Seq(Machines)
    <3>1. \A S \in SUBSET Machines : Sorted(S) \in Seq(Machines)
      <4> SUFFICES ASSUME NEW S \in SUBSET Machines PROVE Sorted(S) \in Seq(Machines)
        OBVIOUS
      <4>1. Sorted(S) \in Seq(S)
        BY SortedOf
      <4> HIDE DEF Sorted
      <4> QED BY <4>1
    <3>2. \A s, t \in Seq(Machines) : s \o t \in Seq(Machines)
      BY ConcatProperties
    <3> QED BY <3>1, <3>2, ListsOfHosts
  <2> QED BY <1>2, <2>1 DEF ReadWorkers, TypeOK, outside
<1>3. CASE SwitchOn
  <2>1. Head(toOn) \in Machines /\ Tail(toOn) \in Seq(Machines)
    BY <1>3, RestOfList DEF SwitchOn, TypeOK
  <2>2. on' \in [Machines -> BOOLEAN]
    BY <1>3, <2>1 DEF SwitchOn, TypeOK
  <2> QED BY <1>3, <2>1, <2>2 DEF SwitchOn, TypeOK
<1>4. CASE AllSwitchedOn
  BY <1>4 DEF AllSwitchedOn, TypeOK, outside
<1>5. CASE SwitchOff
  <2>1. Tail(toOff) \in Seq(Machines)
    BY <1>5, RestOfList DEF SwitchOff, TypeOK
  <2>2. on' \in [Machines -> BOOLEAN]
    BY <1>5 DEF SwitchOff, TypeOK
  <2> QED BY <1>5, <2>1, <2>2 DEF SwitchOff, TypeOK
<1>6. CASE End
  BY <1>6 DEF End, TypeOK, outside, Unread, Statuses
<1> QED BY <1>1, <1>2, <1>3, <1>4, <1>5, <1>6 DEF Proceed, Fail, AllSwitchedOff

(* So do those of openQA and its workers.                                     *)
LEMMA OutsideTypes ==
  ASSUME TypeOK
  PROVE  /\ \A j \in Jobs, w \in Workers : Assign(j, w) => TypeOK'
         /\ \A j \in Jobs : FinishJob(j) \/ ScheduleJob(j) => TypeOK'
         /\ \A w \in Workers : MissWorker(w) \/ Register(w) \/ BreakOrFix(w) => TypeOK'
<1>1. ASSUME NEW j \in Jobs, NEW w \in Workers, Assign(j, w) PROVE TypeOK'
  BY <1>1 DEF Assign, TypeOK, script, Statuses
<1>2. ASSUME NEW j \in Jobs, FinishJob(j) PROVE TypeOK'
  BY <1>2 DEF FinishJob, TypeOK, script, Statuses
<1>3. ASSUME NEW j \in Jobs, ScheduleJob(j) PROVE TypeOK'
  BY <1>3 DEF ScheduleJob, TypeOK, script
<1>4. ASSUME NEW w \in Workers, MissWorker(w) PROVE TypeOK'
  BY <1>4 DEF MissWorker, TypeOK, script, Statuses
<1>5. ASSUME NEW w \in Workers, Register(w) PROVE TypeOK'
  BY <1>5 DEF Register, TypeOK, script, Statuses
<1>6. ASSUME NEW w \in Workers, BreakOrFix(w) PROVE TypeOK'
  BY <1>6 DEF BreakOrFix, TypeOK, script, Statuses
<1> QED BY <1>1, <1>2, <1>3, <1>4, <1>5, <1>6

(* Every step keeps the types.                                                *)
LEMMA TypeSteps == TypeOK /\ [Next]_vars => TypeOK'
<1>1. ASSUME TypeOK, UNCHANGED vars PROVE TypeOK'
  BY <1>1 DEF TypeOK, vars, outside, script
<1> QED BY <1>1, ScriptTypes, OutsideTypes DEF Next

(* Every step keeps what is known of the machines to be switched off.         *)
LEMMA OffSteps == TypeOK /\ OffInv /\ [Next]_vars => OffInv'
<1> SUFFICES ASSUME TypeOK, OffInv, [Next]_vars PROVE OffInv'
  OBVIOUS
<1>1. CASE ListJobs
  BY <1>1 DEF ListJobs, OffInv
<1>2. CASE ReadWorkers
  <2>1. seen' = status /\ toOff' = Sorted(Idle(status)) \o Sorted(Broken(status))
    BY <1>2 DEF ReadWorkers
  <2>2. /\ Sorted(Idle(status)) \in Seq(Idle(status))
        /\ Sorted(Broken(status)) \in Seq(Broken(status))
    BY ListsOfHosts, SortedOf, Zenon
  <2> DEFINE both == Idle(status) \cup Broken(status)
             p == Sorted(Idle(status))
             q == Sorted(Broken(status))
  <2>3. p \in Seq(both) /\ q \in Seq(both)
    <3> HIDE DEF p, q
    <3> QED BY <2>2 DEF p, q
  <2>4. p \o q \in Seq(both)
    <3> HIDE DEF p, q, both
    <3> QED BY <2>3, ConcatProperties
  <2>5. (Idle(seen) \cup Broken(seen))' = both
    BY <2>1 DEF Idle, Broken, Busy
  <2> QED BY <2>1, <2>4, <2>5, Zenon DEF OffInv
<1>3. CASE SwitchOn
  BY <1>3 DEF SwitchOn, OffInv
<1>4. CASE AllSwitchedOn
  BY <1>4 DEF AllSwitchedOn, OffInv
<1>5. CASE SwitchOff
  BY <1>5, RestOfList DEF SwitchOff, OffInv
<1>6. CASE End
  BY <1>6 DEF End, OffInv
<1>7. CASE UNCHANGED script
  BY <1>7 DEF script, OffInv
<1>8. UNCHANGED vars => UNCHANGED script
  BY DEF vars, script
<1>9. CASE Proceed \/ Fail
  BY <1>1, <1>2, <1>3, <1>4, <1>5, <1>6, <1>9 DEF Proceed, Fail, AllSwitchedOff
<1>10. ASSUME NEW j \in Jobs, NEW w \in Workers, Assign(j, w) PROVE UNCHANGED script
  BY <1>10 DEF Assign
<1>11. ASSUME NEW j \in Jobs, FinishJob(j) \/ ScheduleJob(j) PROVE UNCHANGED script
  BY <1>11 DEF FinishJob, ScheduleJob
<1>12. ASSUME NEW w \in Workers, MissWorker(w) \/ Register(w) \/ BreakOrFix(w)
       PROVE  UNCHANGED script
  BY <1>12 DEF MissWorker, Register, BreakOrFix
<1> QED BY <1>7, <1>8, <1>9, <1>10, <1>11, <1>12 DEF Next
-----------------------------------------------------------------------------
PowerInv == TypeOK /\ OffInv

LEMMA PowerStarts == Init => PowerInv
  BY DEF Init, PowerInv, TypeOK, OffInv, Unread, Statuses

(* The state of the script and of what it manages keeps its types.            *)
THEOREM TypeCorrect == Spec => []TypeOK
<1> QED BY PowerStarts, TypeSteps, PTL DEF Spec, PowerInv

(* A machine loses its power only when it is next on the list of machines to  *)
(* be switched off, and a machine with a worker that was running is not among *)
(* those that were idle: it is on the list because a worker is broken there.  *)
THEOREM RunningJobsKeepPowerAlways == Spec => RunningJobsKeepPower
<1> DEFINE Keeps == \A w \in Workers :
             on[Host[w]] /\ ~on'[Host[w]] /\ seen[w] = "running" =>
               \E v \in Workers : Host[v] = Host[w] /\ seen[v] = "broken"
<1>1. ASSUME PowerInv, Next, NEW w \in Workers,
             on[Host[w]], ~on'[Host[w]], seen[w] = "running"
      PROVE  \E v \in Workers : Host[v] = Host[w] /\ seen[v] = "broken"
  <2>1. SwitchOff /\ Host[w] = Head(toOff)
    <3>0. TypeOK /\ on \in [Machines -> BOOLEAN]
      BY <1>1, Zenon DEF PowerInv, TypeOK
    <3>1. Host[w] \in Machines /\ on \in [Machines -> BOOLEAN]
      BY <3>0, PowerAssumption
    <3>2. on' # on
      BY <1>1
    <3>3. CASE SwitchOn
      BY <1>1, <3>1, <3>3 DEF SwitchOn
    <3>4. CASE SwitchOff
      BY <1>1, <3>1, <3>4 DEF SwitchOff
    <3>5. SwitchOn \/ SwitchOff
      BY <1>1, <3>2, Zenon DEF Next, Proceed, Fail, End, outside, ListJobs, ReadWorkers,
         AllSwitchedOn, AllSwitchedOff, Assign, FinishJob, ScheduleJob, MissWorker,
         Register, BreakOrFix
    <3> QED BY <3>3, <3>4, <3>5
  <2>2. Head(toOff) \in Idle(seen) \cup Broken(seen)
    <3>1. pc = "off" /\ toOff # <<>>
      BY <2>1 DEF SwitchOff
    <3>2. toOff \in Seq(Idle(seen) \cup Broken(seen))
      BY <1>1, <3>1 DEF PowerInv, OffInv
    <3> QED BY <3>1, <3>2, RestOfList, Zenon
  <2>3. Host[w] \notin Idle(seen)
    BY <1>1 DEF Idle, Busy
  <2>4. Host[w] \in Broken(seen)
    BY <2>1, <2>2, <2>3
  <2> QED BY <2>4 DEF Broken
<1>2. PowerInv /\ [Next]_vars => PowerInv'
  BY TypeSteps, OffSteps DEF PowerInv
<1>3. PowerInv /\ [Next]_vars => [Keeps]_vars
  BY <1>1 DEF PowerInv
<1> HIDE DEF Keeps
<1> QED BY PowerStarts, <1>2, <1>3, PTL DEF Spec, RunningJobsKeepPower, Keeps
=============================================================================
