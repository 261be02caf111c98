------------------------------ MODULE TestChain ------------------------------
(***************************************************************************)
(* What test-tube promises the author of a test: every test environment is *)
(* a chain of its own, created with its first block; an operation on it     *)
(* appends one block, with the one write the operation stands for or, when *)
(* it only moves time or fails, without any; and an operation is reported   *)
(* as successful only once its write is committed.                         *)
(***************************************************************************)
EXTENDS ChainApp

CONSTANT Ids   \* the handles environments may get

VARIABLES
  ledger,      \* id -> the height and the store of its last committed block
  reported     \* id -> the writes reported to the test

Genesis == [height |-> 1, store |-> EmptyStore]

Init == ledger = <<>> /\ reported = <<>>

Create(e) ==
  /\ e \notin DOMAIN ledger
  /\ ledger' = With(ledger, e, Genesis)
  /\ reported' = With(reported, e, EmptyStore)

\* A block, empty or holding one write of kind k.
Append(e, store) ==
  /\ ledger' = [ledger EXCEPT ![e] = [height |-> @.height + 1, store |-> store]]
  /\ UNCHANGED reported

EmptyBlock(e) == Append(e, ledger[e].store)
WriteBlock(e, k) == Append(e, Plus(ledger[e].store, k))

Report(e, k) ==
  /\ reported[e][k] < ledger[e].store[k]
  /\ reported' = [reported EXCEPT ![e] = Plus(@, k)]
  /\ UNCHANGED ledger

Next ==
  \/ \E e \in Ids : Create(e)
  \/ \E e \in DOMAIN ledger :
       \/ EmptyBlock(e)
       \/ \E k \in Kinds : WriteBlock(e, k) \/ Report(e, k)

Spec == Init /\ [][Next]_<<ledger, reported>>
===============================================================================
