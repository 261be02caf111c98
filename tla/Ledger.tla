-------------------------------- MODULE Ledger --------------------------------
(***************************************************************************)
(* What a test may think execute and simulate_tx do: one step on the         *)
(* committed store, when the answer comes.  In it the blockers run, the fee  *)
(* is calculated from the store they leave at the time of the last block,    *)
(* the transaction pays it and runs at the time of its own, and the blockers *)
(* run again.  No block is seen open, and what is due is paid once.           *)
(***************************************************************************)
EXTENDS TxRules

VARIABLES
  store,     \* the committed store
  time,      \* the time of the last block, as far as it adds to the load
  foretold,  \* has anything been simulated since?
  asked,     \* the operation called, until it is answered
  reply      \* the last answer

Nothing == [kind |-> "none"]

Init ==
  /\ store = Genesis /\ time = 0 /\ foretold = FALSE
  /\ asked = Nothing /\ reply = "none"

\* The loads an estimate may find in a block that begins with this one: a simulation
\* before the block has kept what it has read.
Known(load) == {load} \union IF foretold THEN {store.load} ELSE {}

\* Would the messages run, for the fee of a simulation?
WouldRun(op, load) ==
  /\ store.balance[op.signer] >= default_simulation_fee.amount
  /\ load + time <= op.tx.bears

\* The fee of an operation: the one its signer gives, or the one calculated.
Due(op, load) ==
  IF op.setting.kind = "auto" THEN FeeFor(GasUsed(load + time, op.tx), op.setting)
  ELSE [amount |-> op.setting.amount, gas |-> op.setting.gas]

Block == time' \in Times /\ foretold' = FALSE

\* A new account.
Open(s, c) ==
  /\ asked = Nothing /\ store.balance[s] = NoAccount
  /\ \E load \in Loads : store' = [store EXCEPT !.balance[s] = c, !.load = load]
  /\ reply' = "ok"
  /\ Block
  /\ UNCHANGED asked

Ask(op) ==
  /\ asked = Nothing
  /\ asked' = op /\ reply' = "none"
  /\ UNCHANGED <<store, time, foretold>>

\* A simulation changes nothing.
Foretell ==
  /\ asked.kind = "sim"
  /\ asked' = Nothing
  /\ reply' = IF WouldRun(asked, store.load) THEN "none" ELSE "err"
  /\ foretold' = TRUE
  /\ UNCHANGED <<store, time>>

\* An Err comes of what would not run, and leaves an empty block.
Refuse ==
  /\ asked.kind = "tx" /\ asked.setting.kind = "auto"
  /\ \E load \in Loads : \E known \in Known(load) : ~WouldRun(asked, known)
  /\ asked' = Nothing /\ reply' = "err"
  /\ \E load \in Loads : store' = [store EXCEPT !.load = load]
  /\ Block

\* A transaction pays what is due, once, and its messages run within the gas it paid for.
Pay(load, known) ==
  LET s   == asked.signer
      due == Due(asked, known)
  IN /\ asked.kind = "tx"
     /\ asked.setting.kind = "auto" => WouldRun(asked, known)
     /\ due.amount <= store.balance[s] /\ due.gas <= MaxGas
     /\ Block
     /\ load + time' <= asked.tx.bears
     /\ GasUsed(load + time', asked.tx) <= due.gas
     /\ \E after \in Loads :
          store' = [store EXCEPT !.balance[s] = @ - due.amount,
                                 !.pool = @ + due.amount,
                                 !.seq[s] = @ + 1,
                                 !.messages = @ + asked.tx.count,
                                 !.load = after]
     /\ asked' = Nothing /\ reply' \in Answers

Next ==
  \/ \E s \in Signers, c \in Coins : Open(s, c)
  \/ \E op \in Job : Ask(op)
  \/ Foretell \/ Refuse
  \/ \E load \in Loads : \E known \in Known(load) : Pay(load, known)

Spec == Init /\ [][Next]_<<store, time, foretold, asked, reply>>
===============================================================================
