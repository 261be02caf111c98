------------------------------- MODULE MCTxFlow -------------------------------
(* A small instance of TxFlow: prices and gas scaled down, floats of 5 bits and  *)
(* integers of 6, the adjustments 1.2 (the library's default, 19/16 in 5 bits), 1 *)
(* and 1/2, a load that may exceed the adjustment, and a price whose fees are     *)
(* rounded down (33 to 32) and beyond the largest integer.                       *)
EXTENDS TxFlow, TLC

CONSTANTS a, b

MCSigners == {a, b}
Symmetry == Permutations(MCSigners)

MCSettings ==
  {[kind |-> "auto", price |-> 2, num |-> 19, den |-> 16],
   [kind |-> "auto", price |-> 1, num |-> 1, den |-> 1],
   [kind |-> "auto", price |-> 2, num |-> 1, den |-> 2],
   [kind |-> "auto", price |-> 11, num |-> 19, den |-> 16],
   [kind |-> "custom", amount |-> 5, gas |-> 3],
   [kind |-> "custom", amount |-> 0, gas |-> 9]}

MCRequests ==
  {[count |-> 1, gas |-> 2, bears |-> 2],
   [count |-> 2, gas |-> 5, bears |-> 0]}
===============================================================================
