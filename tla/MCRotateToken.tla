---------------------------- MODULE MCRotateToken ----------------------------
(* Small instances of RotateToken: a year of eleven days.                     *)
EXTENDS RotateToken

CONSTANTS c1, c2, c3

MCPipelines == {c1, c2, c3}
=============================================================================
