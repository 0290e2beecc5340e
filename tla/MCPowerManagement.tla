-------------------------- MODULE MCPowerManagement --------------------------
(* A machine with two workers and one with one; the second job can be run on  *)
(* either.                                                                    *)
EXTENDS PowerManagement

CONSTANTS w1, w2, w3, j1, j2

MCMachines == {1, 2}
MCWorkers == {w1, w2, w3}
MCHost == [w \in MCWorkers |-> IF w = w3 THEN 2 ELSE 1]
MCProvides ==
  [w \in MCWorkers |-> CASE w = w1 -> {"a"} [] w = w2 -> {"a", "b"} [] OTHER -> {"b", "c"}]
MCJobs == {j1, j2}
MCNeeds == [j \in MCJobs |-> IF j = j1 THEN {"a"} ELSE {"b"}]
=============================================================================
