--------------------------- MODULE MCZombieReaper ---------------------------
(* Small instances of ZombieReaper.                                           *)
EXTENDS ZombieReaper

CONSTANTS z12, z13, p1, p2

MCOneHost == {z12}
MCTwoHosts == {z12, z13}
MCProcs == {p1, p2}

MCBoth == {"sysrq", "reboot"}
MCOrderly == {"reboot"}
MCNoFault == {{}}
MCFaults == {{}, {"disk", "openqa"}, {"die", "openqa"}, {"hmc"}, {"blip"}}
=============================================================================
