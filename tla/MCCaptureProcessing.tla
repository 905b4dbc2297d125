------------------------ MODULE MCCaptureProcessing ------------------------
(* Small instances of CaptureProcessing for TLC. *)
EXTENDS CaptureProcessing, TLC

CONSTANTS i1, i2, x1, x2, r1, r2, t1, t2

Symmetry == Permutations(Inputs) \cup Permutations(Items)
            \cup Permutations(Reminders) \cup Permutations(Tasks)
=============================================================================
