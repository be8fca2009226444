----------------------------- MODULE MCMirrorSync -----------------------------
(* Small instances of MirrorSync.  The .cfg files choose the times.          *)
EXTENDS MirrorSync, TLC

TwoIntervals == {1, 3}

InstanceSymmetry == Permutations(Instance)
=============================================================================
