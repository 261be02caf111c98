------------------------------ MODULE MCMessages ------------------------------
(* Messages with two interchangeable signers. *)
EXTENDS Messages, TLC

CONSTANTS a, b

MCSigners == {a, b}
Symmetry == Permutations(MCSigners)
===============================================================================
