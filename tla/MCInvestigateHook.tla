------------------------- MODULE MCInvestigateHook -------------------------
(***************************************************************************)
(* Instances of InvestigateHook for TLC: one job of every kind.            *)
(***************************************************************************)
EXTENDS InvestigateHook

MCAllKinds == AllKinds
============================================================================
