--------------------------- MODULE MCCaptureEngine ---------------------------
(* Small instances of CaptureEngine for TLC. *)
EXTENDS CaptureEngine, TLC

CONSTANTS t1, t2, c1, c2

MCTasks == {t1, t2}
MCCids == {c1, c2}
MCSymmetry == Permutations(MCTasks)
=============================================================================
