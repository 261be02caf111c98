------------------------------ MODULE MCTestTube ------------------------------
(* Small instances of TestTube: threads as model values, every operation. *)
EXTENDS TestTubeInvariant, TLC

CONSTANTS t1, t2

MCThreads == {t1, t2}
Symmetry == Permutations(MCThreads)
===============================================================================
