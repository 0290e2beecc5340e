------------------------- MODULE MCPostInvestigate -------------------------
(***************************************************************************)
(* Instances of PostInvestigate for TLC: one origin investigated once or   *)
(* twice, for every set of changes since the last good job.                *)
(***************************************************************************)
EXTENDS PostInvestigate

MCAnyReason == {"sporadic", "product", "test", "mixed", "interplay", "infra"}
MCOneReason == MCAnyReason \ {"sporadic"}
=============================================================================
