-------------------------------- MODULE TxFlow --------------------------------
(***************************************************************************)
(* A transaction of BaseApp (test-tube/src/runner/app.rs) from the call of   *)
(* execute_multiple_raw to its answer, with the data TestTube leaves out:   *)
(* who signs, with which fee, for how much gas, against which state.        *)
(*                                                                         *)
(* One environment, used by one thread.  A block is opened before the fee   *)
(* is estimated, and beginning it finalizes it: the begin blockers have       *)
(* written to the root store.  The estimate runs over that root, in the       *)
(* check state, but at the time of the last committed header; and the check   *)
(* state keeps what a simulation before the block has read through it.        *)
(*                                                                         *)
(* The load is all that a transaction depends on besides its signer: the gas  *)
(* it uses on top of its own, too high for the messages of some.  One part    *)
(* is in the store, where the blockers change it; the other comes of the      *)
(* time in the header of the block.                                          *)
(***************************************************************************)
EXTENDS TxRules

CONSTANT MaxBlocks   \* bound: no block is begun after this many

ASSUME BoundAssumption == MaxBlocks \in Nat

VARIABLES
  saved,        \* the committed store
  root,         \* what FinalizeBlock has written through to
  fin,          \* the store of the open block
  last,         \* the time of the last committed header, as its part of the load
  now,          \* that of the open block
  peeked,       \* has anything been simulated since the last commit?
  blocks,       \* blocks begun
  phase,        \* where the operation is
  job,          \* who signs, the fee setting, the request, and is it sent?
  fee,          \* the fee calculated
  signed,       \* the sequence and the fee the transaction was signed with
  outcome,      \* what the last operation answered
  crash         \* why the process aborted

chain == <<saved, root, fin, last, now, peeked, blocks>>
vars == <<chain, phase, job, fee, signed, outcome, crash>>

Init ==
  /\ saved = Genesis /\ root = saved /\ fin = saved
  /\ last = 0 /\ now = 0
  /\ peeked = FALSE
  /\ blocks = 0
  /\ phase = "idle"
  /\ job = [kind |-> "none"]
  /\ fee = Free
  /\ signed = [seq |-> 0, fee |-> Free]
  /\ outcome = "none"
  /\ crash = "none"

In(p) == phase = p /\ crash = "none"

-------------------------------------------------------------------------------
(* Operations. *)

Step(p) == phase' = p /\ UNCHANGED crash

\* A panic, in Go or in Rust: no step follows it here.
Abort(why) ==
  /\ crash' = why
  /\ UNCHANGED <<chain, phase, job, fee, signed, outcome>>

\* FinalizeBlock of BeginBlock: the blockers run in a cache over the root, which is
\* written through.
BeginBlock ==
  /\ blocks < MaxBlocks
  /\ blocks' = blocks + 1
  /\ \E load \in Loads : fin' = [root EXCEPT !.load = load]
  /\ root' = fin'
  /\ now' \in Times
  /\ UNCHANGED <<saved, last, peeked>>

\* Commit of this store, the finalize state gone and the check state new.
Commit(store) ==
  /\ root' = store /\ saved' = store /\ fin' = store
  /\ last' = now'
  /\ peeked' = FALSE

\* init_account: a block with the mint and the transfer to a new key.
InitAccount(s, c) ==
  /\ In("idle") /\ root.balance[s] = NoAccount
  /\ blocks < MaxBlocks
  /\ blocks' = blocks + 1
  /\ now' \in Times
  /\ \E load \in Loads : Commit([root EXCEPT !.balance[s] = c, !.load = load])
  /\ outcome' = "ok"
  /\ UNCHANGED <<phase, job, fee, signed, crash>>

\* execute_multiple_raw: run_block begins a block, and the setting of the signer
\* says whether the fee is estimated or given.
Execute(s, setting, tx) ==
  /\ In("idle")
  /\ BeginBlock
  /\ job' = [kind |-> "tx", signer |-> s, setting |-> setting, tx |-> tx]
  /\ outcome' = "none"
  /\ IF setting.kind = "auto"
       THEN Step("estimate") /\ UNCHANGED fee
       ELSE Step("sign") /\ fee' = [amount |-> setting.amount, gas |-> setting.gas]
  /\ UNCHANGED signed

\* simulate_tx, by its own: no block, and no fee whatever the setting.
SimulateTx(s, setting, tx) ==
  /\ In("idle")
  /\ job' = [kind |-> "sim", signer |-> s, setting |-> setting, tx |-> tx]
  /\ outcome' = "none"
  /\ Step("estimate")
  /\ UNCHANGED <<chain, fee, signed>>

\* The steps after an estimate: Err goes through EndBlock when there is a block.
After(good) ==
  IF job.kind = "sim" THEN Step("idle") ELSE Step(IF good THEN "sign" ELSE "end")

\* The loads of the store that the check state may have: the root's, or what a simulation
\* before the block has read.
Seen == {root.load} \union IF peeked THEN {saved.load} ELSE {}

\* simulate_tx under this load of the store: an Err, or the gas that calculate_fee makes a
\* fee of.
Answer(load) ==
  LET gas  == GasUsed(load + last, job.tx)
      good == Accepts(root, load + last, job.signer, fin.seq[job.signer],
                      default_simulation_fee.amount, job.tx)
  IN /\ fee' = IF good /\ job.kind = "tx" THEN FeeFor(gas, job.setting) ELSE fee
     /\ outcome' = IF good THEN outcome ELSE "err"
     /\ After(good)

\* Mutant: the fee is estimated by a transaction delivered in the open block.
EstimateDelivers ==
  /\ In("estimate")
  /\ \E load \in Seen : Answer(load)
  /\ fin' = [fin EXCEPT !.pool = @ + default_simulation_fee.amount]
  /\ UNCHANGED <<saved, root, last, now, peeked, blocks, job, signed>>

\* Mutant: the fee is estimated before the block begins.
EstimateBefore ==
  /\ In("estimate")
  /\ IF fin.balance[job.signer] = NoAccount
       THEN Abort("account")
       ELSE /\ Answer(saved.load)
            /\ peeked' = (peeked \/ job.kind = "sim")
            /\ UNCHANGED <<saved, root, fin, last, now, blocks, job, signed>>

\* simulate_tx: sign with the sequence of the open block, if there is one, and a
\* placeholder fee, run in the check state at the time of the last block.  The key of a
\* signer without an account makes AccountSequence panic.  What a simulation in a block
\* has read is of no use to a later one, for the commit comes first.
Estimate ==
  /\ In("estimate")
  /\ IF fin.balance[job.signer] = NoAccount
       THEN Abort("account")
       ELSE /\ \E load \in Seen : Answer(load)
            /\ peeked' = (peeked \/ job.kind = "sim")
            /\ UNCHANGED <<saved, root, fin, last, now, blocks, job, signed>>

\* Mutant: the transaction sent is the one signed for the simulation.
SignPlaceholder ==
  /\ In("sign")
  /\ signed' = [seq |-> fin.seq[job.signer], fee |-> default_simulation_fee]
  /\ Step("deliver")
  /\ UNCHANGED <<chain, job, fee, outcome>>

\* create_signed_tx with the fee to pay.
Sign ==
  /\ In("sign")
  /\ IF fin.balance[job.signer] = NoAccount
       THEN Abort("account")
       ELSE /\ signed' = [seq |-> fin.seq[job.signer], fee |-> fee]
            /\ Step("deliver")
            /\ UNCHANGED <<chain, job, fee, outcome>>

\* What the application has against the transaction signed, in the open block.
Objections ==
  LET load == fin.load + now
  IN Refusals(fin, load, job.signer, signed.seq, signed.fee.amount, job.tx)
       \union {why \in {"limit", "gas"} :
                 CASE why = "limit" -> signed.fee.gas > MaxGas
                   [] why = "gas"   -> GasUsed(load, job.tx) > signed.fee.gas}

\* Execute: the application delivers the transaction in the open block, or
\* refuses it, which makes main.go panic.  The answer may not decode as the
\* response the caller asked for: Err, but delivered.
Deliver ==
  LET s == job.signer
  IN /\ In("deliver")
     /\ \/ /\ Objections = {}
           /\ fin' = [fin EXCEPT !.balance[s] = @ - signed.fee.amount,
                                 !.pool = @ + signed.fee.amount,
                                 !.seq[s] = @ + 1,
                                 !.messages = @ + job.tx.count]
           /\ outcome' \in Answers
           /\ Step("end")
           /\ UNCHANGED <<saved, root, last, now, peeked, blocks, job, fee, signed>>
        \/ \E why \in Objections : Abort(why)

\* Mutant: Commit without the write-through of the second FinalizeBlock.
EndBlockUnwritten ==
  /\ In("end")
  /\ now' = now
  /\ Commit(root)
  /\ Step("idle")
  /\ UNCHANGED <<blocks, job, fee, signed, outcome>>

\* EndBlock: the blockers run a second time, the store of the block is written through
\* and committed.
EndBlock ==
  /\ In("end")
  /\ now' = now
  /\ \E load \in Loads : Commit([fin EXCEPT !.load = load])
  /\ Step("idle")
  /\ UNCHANGED <<blocks, job, fee, signed, outcome>>

Next ==
  \/ \E s \in Signers :
       \/ \E c \in Coins : InitAccount(s, c)
       \/ \E setting \in Settings, tx \in Requests :
            Execute(s, setting, tx) \/ SimulateTx(s, setting, tx)
  \/ Estimate \/ Sign \/ Deliver \/ EndBlock

Spec == Init /\ [][Next]_vars

-------------------------------------------------------------------------------
Reasons == {"none", "account", "sequence", "funds", "messages", "limit", "gas"}

\* Every variable has its type.
TypeOK ==
  /\ saved \in Store /\ root \in Store /\ fin \in Store
  /\ last \in Times /\ now \in Times
  /\ peeked \in BOOLEAN
  /\ blocks \in 0 .. MaxBlocks
  /\ phase \in {"idle", "estimate", "sign", "deliver", "end"}
  /\ job.kind = "none" \/ job \in Job
  /\ fee \in Fee
  /\ signed \in [seq : Nat, fee : Fee]
  /\ outcome \in Answers \union {"none", "err"}
  /\ crash \in Reasons

Estimated == job.kind # "none" /\ job.setting.kind = "auto"

\* The margin the setting adds to the gas of the simulation, never negative.
Generous == job.setting.num >= job.setting.den

\* With an estimated fee and no discount on gas, Execute aborts the process only
\* over what the simulation does not check, the fee itself and the block's gas
\* limit, unless the transaction minds the time, or the load was read before the block.
\* What the begin blockers of its own block do has been estimated.  Failing messages are
\* answered with an Err before anything is delivered.
EstimateForesees ==
  crash \notin {"none", "account", "funds", "limit"} /\ Estimated /\ Generous
    => now # last \/ (peeked /\ fin.load # saved.load)

\* A delivered transaction has paid the price of its setting for all the gas it
\* used, although its fee was calculated for another time, and to the precision of two
\* roundings to f64; a price beyond u64 is paid with the largest u64 instead.
FeeCoversGas ==
  In("end") /\ outcome # "err" /\ Estimated =>
    \/ signed.fee.amount * Mantissa
         >= job.setting.price * GasUsed(fin.load + now, job.tx) * (Mantissa - 2)
    \/ signed.fee.amount = MaxU64

\* What a block collects (pool counts the fees collected so far) is the final fee
\* of the transaction delivered in it, once: a simulation costs nothing, and nor
\* does an Err.
ChargedOnce ==
  In("end") =>
    fin.pool - saved.pool = IF outcome = "err" THEN 0 ELSE fee.amount

\* An operation that answers Err, or only simulates, has moved the committed
\* store by nothing but what the blockers do; one whose transaction was delivered
\* has always moved it, even when its answer could not be decoded.
ErrChangesNothing ==
  [][phase # "idle" /\ phase' = "idle" =>
       LET moved == saved'.messages # saved.messages \/ saved'.seq # saved.seq
                      \/ saved'.balance # saved.balance
       IN moved <=> outcome' \in Answers]_vars

\* To the test an operation is one step on the committed store, taken when it answers:
\* it is refused as a simulation after the begin blockers would be, or pays the fee
\* calculated from the store they leave, although that is not committed yet.
Atomic == INSTANCE Ledger WITH
  store    <- saved,
  time     <- last,
  foretold <- peeked,
  asked    <- IF phase = "idle" THEN [kind |-> "none"] ELSE job,
  reply    <- IF phase = "idle" THEN outcome ELSE "none"

OperationsAreAtomic == Atomic!Spec

\* When the process aborts, what is due says so as well: the signer has no account, or
\* cannot pay it, or its gas is too much for a block or too little under the load of this
\* one.  No sequence is ever out of step, and a transaction with an estimated fee is one
\* that would have run.
AbortsHaveGrounds ==
  LET balance == saved.balance[job.signer]
      load    == fin.load + now
  IN /\ crash # "sequence"
     /\ crash = "account" => balance = NoAccount
     /\ crash \notin {"none", "account"} =>
          \E known \in Atomic!Known(fin.load) :
            LET due == Atomic!Due(job, known)
            IN /\ Estimated => Atomic!WouldRun(job, known)
               /\ crash = "funds"    => balance < due.amount
               /\ crash = "limit"    => due.gas > MaxGas
               /\ crash = "messages" => load > job.tx.bears
               /\ crash = "gas"      => GasUsed(load, job.tx) > due.gas

\* "since this tx contains exactly 1 msg" (result.rs:36): the answer to a
\* delivered transaction is the response of its only message.
ExactlyOneMsg == In("end") /\ outcome = "ok" => job.tx.count = 1
===============================================================================
