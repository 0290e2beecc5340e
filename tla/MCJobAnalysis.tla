--------------------------- MODULE MCJobAnalysis -----------------------------
(* All short details of a module and all short logs; every limit is smaller   *)
(* than they are long.                                                        *)
EXTENDS JobAnalysis

CONSTANTS StepsBound, LinesBound

MCDetails == BoundedSeq(StepKinds, StepsBound) \ {<<>>}
MCTexts == BoundedSeq(TextKinds, LinesBound)
MCRanges == BoundedSeq(RangeKinds, LinesBound)
MCConsoles == BoundedSeq(ConsoleKinds, LinesBound)
MCNewlines == {{}, {2, 9}, {1, 3, 4, 8, 10}}
MCJobLogs == BoundedSeq(JobLogKinds, 4) \ {<<>>}
=============================================================================
