---------------------------- MODULE FailingSteps -----------------------------
(* Which of the failing steps of a test module is shown as the one that failed*)
(* it (failures.py), and what is shown around it (_cluster_report and         *)
(* _step_context in analysis.py).                                             *)
(*                                                                            *)
(* The details of a module are a sequence of kinds of steps.  A step is known *)
(* by its number, which is its place in the sequence.                         *)
EXTENDS Places

CONSTANTS
  Gap,           \* gap of group_failures_by_proximity
  HalfShown,     \* CLUSTER_STEPS_SHOWN // 2
  ScanBefore,    \* _STEPS_BEFORE_SCAN
  ShownBefore,   \* _STEPS_BEFORE_SHOWN
  ScanAfter,     \* _STEPS_AFTER_SCAN
  AfterCommands  \* _AFTER_COMMANDS

ASSUME StepsAssumption ==
  /\ Gap \in Nat /\ HalfShown \in Nat \ {0}
  /\ ScanBefore \in Nat /\ ShownBefore \in Nat
  /\ ScanAfter \in Nat /\ AfterCommands \in Nat \ {0}

(* A failing step with "# Test died:" and a command, or without one; a failed *)
(* wait_serial; a bare failed screen; a step of the hook that died itself.    *)
(* Passed steps: the marker of the post-fail hook, a command, a record_info,  *)
(* and one that is_noise_step drops.                                          *)
FailKinds == {"died", "diedbare", "serial", "bare", "hook"}
StepKinds == FailKinds \cup {"postfail", "command", "info", "noise"}

Died(k) == k \in {"died", "diedbare"}

(* _step_command: kinds of steps that say which command failed.               *)
StepCommand(k) == k \in {"died", "serial"}
-----------------------------------------------------------------------------
(* Where the post-fail hook starts: after the last step without one.          *)
PostFailStart(d) ==
  Min({i \in DOMAIN d : d[i] = "postfail"} \cup {Len(d)})

IsSecondary(d, i) == d[i] = "hook" \/ i > PostFailStart(d)

(* Failing steps whose numbers differ by Gap at most are a cluster.           *)
Failing(d) == {i \in DOMAIN d : d[i] \in FailKinds}
ByProximity(d) == Groups(Failing(d), Len(d), Gap)

(* Mutant of OwnClusters: the failures of the post-fail hook count.           *)
OwnClustersAll(d) == ToSet(ByProximity(d))

(* The clusters without the steps that failed in the post-fail hook.          *)
OwnClusters(d) ==
  {{i \in c : ~ IsSecondary(d, i)} : c \in ToSet(ByProximity(d))} \ {{}}

(* The last of the clusters with identical failures is kept, with the first   *)
(* numbers of the earlier ones.                                               *)
Alike(d, c, clusters) == {e \in clusters : {d[i] : i \in e} = {d[i] : i \in c}}
Collapsed(d, clusters) ==
  {[steps   |-> c, retries |-> {Min(e) : e \in Alike(d, c, clusters) \ {c}}] :
     c \in {c \in clusters : \A e \in Alike(d, c, clusters) : Max(e) <= Max(c)}}

HasFailure(d) == OwnClusters(d) # {}
FailingCluster(d) ==
  LET collapsed == Collapsed(d, OwnClusters(d))
  IN  CHOOSE k \in collapsed : \A l \in collapsed : Max(l.steps) <= Max(k.steps)

(* From the last step that died, else the last one, back to one that names    *)
(* its command.                                                               *)
LastDied(d, c) == Max({i \in c : Died(d[i])} \cup {0})
FailingCommand(d, c) ==
  LET from == IF LastDied(d, c) > 0 THEN LastDied(d, c) ELSE Max(c)
  IN  Max({i \in c : i <= from /\ StepCommand(d[i])} \cup {0})

FailingStep(d, c) ==
  CASE FailingCommand(d, c) > 0 -> FailingCommand(d, c)
    [] FailingCommand(d, c) = 0 /\ LastDied(d, c) > 0 -> LastDied(d, c)
    [] OTHER -> Max(c)
-----------------------------------------------------------------------------
(* The steps before, in and after a cluster that are shown: noise is dropped. *)
IsNoise(k) == k = "noise"
Inside(c) == Min(c) .. Max(c)

Before(d, c) ==
  LastOf({i \in Min(c) - ScanBefore .. Min(c) - 1 : i > 0 /\ ~ IsNoise(d[i])}, ShownBefore)

UntilCommands(d, S) ==
  {i \in S : Cardinality({j \in S : j < i /\ d[j] = "command"}) < AfterCommands}

After(d, c) ==
  UntilCommands(d, {i \in Max(c) + 1 .. Max(c) + ScanAfter :
                      i <= Len(d) /\ ~ IsNoise(d[i])})

(* Steps with a text of their own below them.                                 *)
Bodies(d, c) == {FailingStep(d, c), LastDied(d, c)} \ {0}

(* The failing step, or the bare failed screens above it.                     *)
MarkerStep(d, c, shown) ==
  Min({i \in shown : /\ i <= FailingStep(d, c)
                     /\ \A j \in shown : j \in i .. FailingStep(d, c) - 1 => d[j] = "bare"})

(* Mutant of Hidden: the step with the marker can be hidden.                  *)
HiddenMarker(d, c, shown) ==
  IF Cardinality(Inside(c)) > 2 * HalfShown
  THEN (Min(c) + HalfShown .. Max(c) - HalfShown) \ Bodies(d, c) ELSE {}

(* The middle of a long cluster is left out.                                  *)
Hidden(d, c, shown) ==
  IF Cardinality(Inside(c)) > 2 * HalfShown
  THEN (Min(c) + HalfShown .. Max(c) - HalfShown)
         \ (Bodies(d, c) \cup {MarkerStep(d, c, shown)})
  ELSE {}

(* Mutant of Skipped: what is counted is not forgotten when a step is shown.  *)
SkippedSoFar(shown, hidden, i) == {j \in hidden : j < i}

(* The hidden steps between the step that is shown before this one and it.    *)
Skipped(shown, hidden, i) ==
  {j \in hidden : j < i /\ \A v \in shown \ hidden : v < j \/ i <= v}

(* Of the steps that are shown, how many were left out before each, and does  *)
(* the marker stand there.                                                    *)
StepContext(d, c) ==
  LET shown == Before(d, c) \cup Inside(c) \cup After(d, c)
      hidden == Hidden(d, c, shown)
      marker == MarkerStep(d, c, shown)
  IN  [i \in shown \ hidden |->
         [omitted |-> Cardinality(Skipped(shown, hidden, i)), marked |-> i = marker]]

(* Failures of a cluster that are shown once, with how often they repeat.     *)
RepeatNotes(d, c) ==
  LET alike(i) == {j \in c : d[j] = d[i]}
      noted == {i \in Bodies(d, c) : Cardinality(alike(i)) > 1
                                       /\ i = Min(alike(i) \cap Bodies(d, c))}
  IN  {[step |-> i, repeats |-> alike(i) \ {i}] : i \in noted}

(* _cluster_report of the cluster that failed the module.                     *)
ClusterReport(d) ==
  IF HasFailure(d)
  THEN LET failing == FailingCluster(d)
           c == failing.steps
       IN  [cluster |-> c, retries |-> failing.retries,
            context |-> StepContext(d, c), notes |-> RepeatNotes(d, c)]
  ELSE [cluster |-> {}, retries |-> {}, context |-> <<>>, notes |-> {}]
=============================================================================
