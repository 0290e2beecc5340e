--------------------------- MODULE MCInvestigate ---------------------------
(***************************************************************************)
(* Instances of Investigate for TLC: a parallel cluster of two jobs whose  *)
(* hooks run concurrently, and a third run for one of them.                *)
(***************************************************************************)
EXTENDS Investigate

CONSTANTS r1, r2, r3

MCJobs == {1, 2}
MCCluster == [j \in MCJobs |-> MCJobs]
MCTwoRuns == {r1, r2}
MCThreeRuns == {r1, r2, r3}
MCThreeJobs == {1, 2, 3}
MCThreeCluster == [j \in MCThreeJobs |-> MCThreeJobs]
MCJobOfEach == [r \in MCThreeRuns |-> IF r = r1 THEN 1 ELSE IF r = r2 THEN 2 ELSE 3]
MCJobOfTwo == [r \in MCTwoRuns |-> IF r = r1 THEN 1 ELSE 2]
MCJobOfThree == [r \in MCThreeRuns |-> IF r = r1 THEN 1 ELSE 2]
MCAllFaults == FaultKinds
MCLossFaults == {"nodata", "crash", "delete"}
=============================================================================
