------------------------- MODULE MCStagingPipeline --------------------------
(* Two packages, whose staging project one pipeline at a time uses.           *)
EXTENDS StagingPipeline

CONSTANTS p1, p2, worker, server

MCPackages == {worker, server}
MCOnePipeline == {p1}
MCTwoPipelines == {p1, p2}
MCNoFaults == {{}}
MCFaultSets == {f \in SUBSET AllFaults : \A a, b, c \in f : a = b \/ b = c \/ a = c}
=============================================================================
