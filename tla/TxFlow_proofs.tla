---------------------------- MODULE TxFlow_proofs ----------------------------
(***************************************************************************)
(* Proofs about TxFlow, for any signers, settings and requests: what a block  *)
(* collects, what an Err leaves behind, and that every operation is one step  *)
(* of Ledger.                                                                 *)
(***************************************************************************)
EXTENDS TxFlow, TLAPS

\* Rounding a natural number to a float gives a natural number.
LEMMA FloatIsNat == \A n \in Nat : Float(n) \in Nat
<1> SUFFICES ASSUME NEW n \in Nat PROVE Float(n) \in Nat
  OBVIOUS
<1> DEFINE ulp  == CHOOSE u \in UlpsOf(n) : TRUE
           bits == n \div ulp
           rest == n % ulp
           up   == 2 * rest > ulp \/ (2 * rest = ulp /\ bits % 2 = 1)
<1>1. CASE UlpsOf(n) = {}
  BY <1>1 DEF Float
<1>2. CASE UlpsOf(n) # {}
  <2>1. ulp \in Nat \ {0}
    BY <1>2, UlpsAssumption DEF UlpsOf
  <2> HIDE DEF ulp
  <2>2. bits \in Nat
    BY <2>1
  <2> HIDE DEF bits
  <2>3. ulp * bits \in Nat /\ ulp * (bits + 1) \in Nat
    BY <2>1, <2>2
  <2>4. Float(n) = ulp * (IF up THEN bits + 1 ELSE bits)
    BY <1>2 DEF Float, ulp, bits
  <2>5. CASE up
    BY <2>3, <2>4, <2>5
  <2>6. CASE ~up
    BY <2>3, <2>4, <2>6
  <2> QED BY <2>5, <2>6
<1> QED BY <1>1, <1>2

LEMMA FeeIsFee ==
  ASSUME NEW gasUsed \in Nat, NEW setting \in AutoFee
  PROVE  FeeFor(gasUsed, setting) \in Fee
<1>1. setting.price \in Nat /\ setting.num \in Nat /\ setting.den \in Nat \ {0}
  BY DEF AutoFee
<1>2. \A n \in Nat : ToU64(n) \in Nat
  BY LimitsAssumption DEF ToU64
<1>3. \A n \in Nat, d \in Nat \ {0} : CeilDiv(n, d) \in Nat
  <2>1. ASSUME NEW n \in Nat, NEW d \in Nat \ {0} PROVE (n + d - 1) \div d \in Nat
    <3>1. n + d - 1 \in Nat
      OBVIOUS
    <3> QED BY <3>1
  <2> QED BY <2>1 DEF CeilDiv
<1>4. \A x, y \in Nat : x * y \in Nat
  OBVIOUS
<1>5. GasLimit(gasUsed, setting) \in Nat
  <2>1. Float(gasUsed) * setting.num \in Nat
    BY <1>1, <1>4, FloatIsNat
  <2>2. Float(Float(gasUsed) * setting.num) \in Nat
    BY <2>1, FloatIsNat
  <2> QED BY <1>1, <1>2, <1>3, <2>2 DEF GasLimit
<1>6. \A gas \in Nat : Amount(gas, setting) \in Nat
  <2> SUFFICES ASSUME NEW gas \in Nat PROVE Amount(gas, setting) \in Nat
    OBVIOUS
  <2>1. Float(gas) * Float(setting.price) \in Nat
    BY <1>1, <1>4, FloatIsNat
  <2>2. Float(Float(gas) * Float(setting.price)) \in Nat
    BY <2>1, FloatIsNat
  <2> QED BY <1>2, <2>2 DEF Amount
<1> QED BY <1>5, <1>6 DEF FeeFor, Fee

-------------------------------------------------------------------------------
\* But for the load, a store is the committed one.
AsSaved(store) ==
  /\ store.balance = saved.balance /\ store.seq = saved.seq
  /\ store.messages = saved.messages /\ store.pool = saved.pool

Untouched == AsSaved(fin)

\* One transaction of the signer has been delivered in the open block.
Delivered ==
  /\ outcome \in Answers
  /\ fin.pool = saved.pool + fee.amount
  /\ fin.seq[job.signer] = saved.seq[job.signer] + 1

\* The inductive invariant: where an operation is tells what its block holds.  The
\* properties speak of its end only; until then nothing has been delivered, and the fee
\* signed is the fee calculated.  What has been written through to the root is the work of
\* the blockers only, and nothing when there is no block.
Progress ==
  /\ phase # "idle" => job \in Job
  /\ phase = "estimate" => outcome = "none"
  /\ phase = "estimate" /\ job.kind = "tx" => job.setting \in AutoFee
  /\ phase \in {"sign", "deliver", "end"} => job.kind = "tx"
  /\ phase = "idle" \/ job.kind = "sim" => root = saved
  /\ AsSaved(root)
  /\ phase \in {"idle", "estimate", "sign", "deliver"} => Untouched
  /\ phase = "deliver" => signed.fee = fee
  /\ phase = "end" => (outcome = "err" /\ Untouched) \/ Delivered

IInv == TypeOK /\ Progress

LEMMA InitIInv == Init => IInv
<1> SUFFICES ASSUME Init PROVE IInv
  OBVIOUS
<1>1. saved \in Store /\ root \in Store /\ fin \in Store
  <2>1. [s \in Signers |-> NoAccount] \in [Signers -> Nat \union {NoAccount}]
    OBVIOUS
  <2>2. [s \in Signers |-> 0] \in [Signers -> Nat]
    OBVIOUS
  <2> QED BY <2>1, <2>2 DEF Init, Genesis, Store
<1>2. fee \in Fee /\ signed \in [seq : Nat, fee : Fee]
  BY DEF Init, Free, Fee
<1>3. blocks \in 0 .. MaxBlocks
  BY BoundAssumption DEF Init
<1>4. TypeOK
  BY <1>1, <1>2, <1>3, TimesAssumption DEF Init, TypeOK, Answers, Reasons
<1>5. Progress
  BY DEF Init, Progress, Untouched, AsSaved
<1> QED BY <1>4, <1>5 DEF IInv

\* An abort changes nothing else.
LEMMA AbortKeeps ==
  ASSUME IInv, NEW why \in Reasons, Abort(why)
  PROVE  IInv'
<1>1. TypeOK'
  BY DEF IInv, TypeOK, Abort, chain
<1>2. Progress'
  BY DEF IInv, Progress, Abort, chain, Untouched, AsSaved, Delivered
<1> QED BY <1>1, <1>2 DEF IInv

LEMMA InitAccountKeeps ==
  ASSUME IInv, NEW s \in Signers, NEW c \in Coins, InitAccount(s, c)
  PROVE  IInv'
<1>1. PICK load \in Loads : root' = [root EXCEPT !.balance[s] = c, !.load = load]
  BY DEF InitAccount, Commit
<1>2. c \in Nat /\ load \in Nat
  BY CoinsAssumption, LoadsAssumption
<1>3. root' \in Store
  BY <1>1, <1>2 DEF IInv, TypeOK, Store
<1>4. /\ saved' = root' /\ fin' = root' /\ phase' = "idle" /\ outcome' = "ok"
      /\ now' \in Times /\ last' = now' /\ peeked' = FALSE
      /\ UNCHANGED <<job, fee, signed, crash>>
  BY DEF InitAccount, Commit, In
<1>5. blocks' \in 0 .. MaxBlocks
  BY BoundAssumption DEF InitAccount, IInv, TypeOK
<1>6. TypeOK'
  BY <1>3, <1>4, <1>5 DEF IInv, TypeOK, Answers
<1>7. Progress'
  BY <1>4 DEF Progress, Untouched, AsSaved
<1> QED BY <1>6, <1>7 DEF IInv

\* A block begins as the committed store, with another load.
LEMMA ExecuteKeeps ==
  ASSUME IInv, NEW s \in Signers, NEW setting \in Settings, NEW tx \in Requests,
         Execute(s, setting, tx)
  PROVE  IInv'
<1>1. PICK load \in Loads : fin' = [root EXCEPT !.load = load]
  BY DEF Execute, BeginBlock
<1>2. fin' \in Store
  BY <1>1, LoadsAssumption DEF IInv, TypeOK, Store
<1>3. /\ fin'.balance = root.balance /\ fin'.seq = root.seq
      /\ fin'.messages = root.messages /\ fin'.pool = root.pool
  BY <1>1 DEF IInv, TypeOK, Store
<1>4. /\ job' = [kind |-> "tx", signer |-> s, setting |-> setting, tx |-> tx]
      /\ outcome' = "none" /\ root' = fin' /\ now' \in Times
      /\ UNCHANGED <<saved, last, peeked, signed, crash>>
  BY DEF Execute, BeginBlock, Step
<1>5. job' \in Job /\ job'.kind = "tx" /\ job'.setting = setting
  BY <1>4 DEF Job
<1>6. blocks' \in 0 .. MaxBlocks
  BY BoundAssumption DEF Execute, BeginBlock, IInv, TypeOK
<1>7. Untouched' /\ AsSaved(root)'
  BY <1>3, <1>4 DEF IInv, Progress, Untouched, AsSaved
<1>8. setting \in AutoFee => setting.kind = "auto"
  BY DEF AutoFee
<1>9. setting \in CustomFee => setting.kind # "auto"
  BY DEF CustomFee
<1>10. setting \in AutoFee \/ setting \in CustomFee
  BY SettingsAssumption
<1>11. ASSUME setting \in AutoFee PROVE IInv'
  <2>1. phase' = "estimate" /\ fee' = fee
    BY <1>8, <1>11 DEF Execute, Step
  <2>2. TypeOK'
    BY <1>2, <1>4, <1>5, <1>6, <2>1 DEF IInv, TypeOK
  <2>3. Progress'
    BY <1>4, <1>5, <1>7, <1>11, <2>1 DEF Progress
  <2> QED BY <2>2, <2>3 DEF IInv
<1>12. ASSUME setting \in CustomFee PROVE IInv'
  <2>1. phase' = "sign" /\ fee' = [amount |-> setting.amount, gas |-> setting.gas]
    BY <1>9, <1>12 DEF Execute, Step
  <2>2. fee' \in Fee
    BY <1>12, <2>1 DEF CustomFee, Fee
  <2>3. TypeOK'
    BY <1>2, <1>4, <1>5, <1>6, <2>1, <2>2 DEF IInv, TypeOK
  <2>4. Progress'
    BY <1>5, <1>7, <2>1 DEF Progress
  <2> QED BY <2>3, <2>4 DEF IInv
<1> QED BY <1>10, <1>11, <1>12

LEMMA SimulateTxKeeps ==
  ASSUME IInv, NEW s \in Signers, NEW setting \in Settings, NEW tx \in Requests,
         SimulateTx(s, setting, tx)
  PROVE  IInv'
<1>1. /\ job' = [kind |-> "sim", signer |-> s, setting |-> setting, tx |-> tx]
      /\ outcome' = "none" /\ phase = "idle" /\ phase' = "estimate"
      /\ UNCHANGED <<saved, root, fin, last, now, peeked, blocks, fee, signed, crash>>
  BY DEF SimulateTx, In, Step, chain
<1>2. job' \in Job /\ job'.kind = "sim"
  BY <1>1 DEF Job
<1>3. TypeOK'
  BY <1>1, <1>2 DEF IInv, TypeOK
<1>4. Untouched' /\ AsSaved(root)' /\ root' = saved'
  BY <1>1 DEF IInv, Progress, Untouched, AsSaved
<1>5. Progress'
  BY <1>1, <1>2, <1>4 DEF Progress
<1> QED BY <1>3, <1>5 DEF IInv

\* What a step of an operation under way can rely on.
LEMMA JobIsTyped ==
  ASSUME IInv, phase # "idle"
  PROVE  /\ job \in Job /\ job.signer \in Signers /\ job.kind \in {"tx", "sim"}
         /\ job.setting \in Settings /\ job.tx \in Requests
         /\ job.tx.count \in Nat \ {0} /\ job.tx.gas \in Nat
<1>1. job \in Job
  BY DEF IInv, Progress
<1>2. /\ job.signer \in Signers /\ job.kind \in {"tx", "sim"}
      /\ job.setting \in Settings /\ job.tx \in Requests
  BY <1>1 DEF Job
<1>3. job.tx \in Request
  BY <1>2, RequestsAssumption
<1>4. job.tx.count \in Nat \ {0} /\ job.tx.gas \in Nat
  BY <1>3 DEF Request
<1> QED BY <1>1, <1>2, <1>4

\* An estimate calculates a fee and writes to no store.
LEMMA EstimateKeeps ==
  ASSUME IInv, Estimate
  PROVE  IInv'
<1>1. phase = "estimate" /\ phase # "idle" /\ outcome = "none"
  BY DEF Estimate, In, IInv, Progress
<1>2. ASSUME fin.balance[job.signer] = NoAccount PROVE IInv'
  BY <1>2, AbortKeeps DEF Estimate, Reasons
<1>3. ASSUME fin.balance[job.signer] # NoAccount PROVE IInv'
  <2>1. PICK load \in Seen : Answer(load)
    BY <1>3 DEF Estimate
  <2> DEFINE gas  == GasUsed(load + last, job.tx)
             good == Accepts(root, load + last, job.signer, fin.seq[job.signer],
                             default_simulation_fee.amount, job.tx)
  <2>2. /\ fee' = IF good /\ job.kind = "tx" THEN FeeFor(gas, job.setting) ELSE fee
        /\ outcome' = IF good THEN outcome ELSE "err"
        /\ After(good)
    BY <2>1 DEF Answer
  <2>3. /\ peeked' = (peeked \/ job.kind = "sim")
        /\ UNCHANGED <<saved, root, fin, last, now, blocks, job, signed>>
    BY <1>3 DEF Estimate
  <2> HIDE DEF good
  <2>4. UNCHANGED crash /\ phase' \in {"idle", "sign", "end"}
    BY <2>2 DEF After, Step
  <2>5. phase' = "sign" => job.kind # "sim"
    BY <2>2 DEF After, Step
  <2>6. phase' = "end" => job.kind # "sim" /\ ~good
    BY <2>2 DEF After, Step
  <2>7. phase' = "idle" => job.kind = "sim"
    BY <2>2 DEF After, Step
  <2>8. fee' \in Fee
    <3>1. gas \in Nat
      <4>1. load \in Nat
        BY <2>1 DEF Seen, IInv, TypeOK, Store
      <4>2. last \in Nat
        BY TimesAssumption DEF IInv, TypeOK
      <4> QED BY <1>1, <4>1, <4>2, JobIsTyped DEF GasUsed
    <3> HIDE DEF gas
    <3>2. CASE good /\ job.kind = "tx"
      <4>1. job.setting \in AutoFee
        BY <1>1, <3>2 DEF IInv, Progress
      <4>2. FeeFor(gas, job.setting) \in Fee
        BY <3>1, <4>1, FeeIsFee
      <4> QED BY <2>2, <3>2, <4>2
    <3>3. CASE ~(good /\ job.kind = "tx")
      BY <2>2, <3>3 DEF IInv, TypeOK
    <3> QED BY <3>2, <3>3
  <2>9. outcome' \in Answers \union {"none", "err"}
    BY <1>1, <2>2
  <2>10. TypeOK'
    BY <2>3, <2>4, <2>8, <2>9 DEF IInv, TypeOK
  <2>11. Untouched' /\ AsSaved(root)'
    BY <1>1, <2>3 DEF IInv, Progress, Untouched, AsSaved
  <2>12. job' \in Job /\ (job'.kind = "tx" \/ job'.kind = "sim")
    BY <1>1, <2>3, JobIsTyped
  <2>13. phase' = "end" => outcome' = "err"
    BY <2>2, <2>6
  <2>14. phase' = "idle" \/ job'.kind = "sim" => root' = saved'
    BY <1>1, <2>3, <2>7 DEF IInv, Progress
  <2>15. Progress'
    BY <2>3, <2>4, <2>5, <2>6, <2>11, <2>12, <2>13, <2>14 DEF Progress
  <2> QED BY <2>10, <2>15 DEF IInv
<1> QED BY <1>2, <1>3

LEMMA SignKeeps ==
  ASSUME IInv, Sign
  PROVE  IInv'
<1>1. phase = "sign" /\ phase # "idle"
  BY DEF Sign, In
<1>2. ASSUME fin.balance[job.signer] = NoAccount PROVE IInv'
  BY <1>2, AbortKeeps DEF Sign, Reasons
<1>3. ASSUME fin.balance[job.signer] # NoAccount PROVE IInv'
  <2>1. /\ signed' = [seq |-> fin.seq[job.signer], fee |-> fee]
        /\ phase' = "deliver"
        /\ UNCHANGED <<saved, root, fin, last, now, peeked, blocks, job, fee, outcome, crash>>
    BY <1>3 DEF Sign, Step, chain
  <2>2. signed' \in [seq : Nat, fee : Fee]
    BY <1>1, <2>1, JobIsTyped DEF IInv, TypeOK, Store
  <2>3. TypeOK'
    BY <2>1, <2>2 DEF IInv, TypeOK
  <2>4. Progress'
    BY <1>1, <2>1 DEF IInv, Progress, Untouched, AsSaved
  <2> QED BY <2>3, <2>4 DEF IInv
<1> QED BY <1>2, <1>3

\* The one step that writes to the store of the open block.
LEMMA DeliverKeeps ==
  ASSUME IInv, Deliver
  PROVE  IInv'
<1> DEFINE s == job.signer
<1>1. phase = "deliver" /\ phase # "idle"
  BY DEF Deliver, In
<1>2. \/ /\ Objections = {}
         /\ fin' = [fin EXCEPT !.balance[s] = @ - signed.fee.amount,
                               !.pool = @ + signed.fee.amount,
                               !.seq[s] = @ + 1,
                               !.messages = @ + job.tx.count]
         /\ outcome' \in Answers
         /\ Step("end")
         /\ UNCHANGED <<saved, root, last, now, peeked, blocks, job, fee, signed>>
      \/ \E why \in Objections : Abort(why)
  BY DEF Deliver
<1>3. Objections \subseteq Reasons
  BY DEF Objections, Refusals, Reasons
<1>4. ASSUME NEW why \in Objections, Abort(why) PROVE IInv'
  <2>1. why \in Reasons
    BY <1>3
  <2> QED BY <1>4, <2>1, AbortKeeps
<1>5. ASSUME Objections = {},
             fin' = [fin EXCEPT !.balance[s] = @ - signed.fee.amount,
                                !.pool = @ + signed.fee.amount,
                                !.seq[s] = @ + 1,
                                !.messages = @ + job.tx.count],
             outcome' \in Answers, Step("end"),
             UNCHANGED <<saved, root, last, now, peeked, blocks, job, fee, signed>>
      PROVE  IInv'
  <2>1. /\ s \in Signers /\ job.tx.count \in Nat
        /\ signed.fee.amount \in Nat /\ fin \in Store
    BY <1>1, JobIsTyped DEF IInv, TypeOK, Fee
  <2>2. "account" \notin Objections /\ "funds" \notin Objections
    BY <1>5
  <2>3. fin.balance[s] # NoAccount /\ ~(fin.balance[s] < signed.fee.amount)
    BY <2>2 DEF Objections, Refusals
  <2>4. fin.balance[s] - signed.fee.amount \in Nat
    BY <2>1, <2>3 DEF Store
  <2>5. /\ [fin.balance EXCEPT ![s] = @ - signed.fee.amount] \in [Signers -> Nat \union {NoAccount}]
        /\ [fin.seq EXCEPT ![s] = @ + 1] \in [Signers -> Nat]
        /\ fin.pool + signed.fee.amount \in Nat /\ fin.messages + job.tx.count \in Nat
    BY <2>1, <2>4 DEF Store
  <2>6. fin' = [balance |-> [fin.balance EXCEPT ![s] = @ - signed.fee.amount],
                seq |-> [fin.seq EXCEPT ![s] = @ + 1],
                pool |-> fin.pool + signed.fee.amount,
                messages |-> fin.messages + job.tx.count,
                load |-> fin.load]
    BY <1>5, <2>1 DEF Store
  <2>7. fin' \in Store
    BY <2>1, <2>5, <2>6 DEF Store
  <2>8. TypeOK'
    BY <1>5, <2>7 DEF IInv, TypeOK, Step
  <2>9. /\ Untouched /\ signed.fee = fee /\ job \in Job /\ job.kind = "tx"
        /\ AsSaved(root)
    BY <1>1 DEF IInv, Progress
  <2>10. fin'.pool = saved.pool + fee.amount
    BY <2>6, <2>9 DEF Untouched, AsSaved
  <2>11. fin'.seq[s] = saved.seq[s] + 1
    BY <2>1, <2>6, <2>9 DEF Untouched, AsSaved, Store
  <2>12. Delivered'
    BY <1>5, <2>10, <2>11 DEF Delivered
  <2>13. Progress'
    BY <1>5, <2>9, <2>12 DEF Progress, AsSaved, Step
  <2> QED BY <2>8, <2>13 DEF IInv
<1> QED BY <1>2, <1>4, <1>5

LEMMA EndBlockKeeps ==
  ASSUME IInv, EndBlock
  PROVE  IInv'
<1>1. PICK load \in Loads : root' = [fin EXCEPT !.load = load]
  BY DEF EndBlock, Commit
<1>2. root' \in Store
  BY <1>1, LoadsAssumption DEF IInv, TypeOK, Store
<1>3. /\ saved' = root' /\ fin' = root' /\ last' = now /\ now' = now /\ peeked' = FALSE
      /\ phase' = "idle" /\ UNCHANGED <<blocks, job, fee, signed, outcome, crash>>
  BY DEF EndBlock, Commit, Step
<1>4. TypeOK'
  BY <1>2, <1>3 DEF IInv, TypeOK
<1>5. Progress'
  BY <1>3 DEF Progress, Untouched, AsSaved
<1> QED BY <1>4, <1>5 DEF IInv

LEMMA StepIInv == IInv /\ [Next]_vars => IInv'
<1> SUFFICES ASSUME IInv, [Next]_vars PROVE IInv'
  OBVIOUS
<1>1. ASSUME NEW s \in Signers, NEW c \in Coins, InitAccount(s, c) PROVE IInv'
  BY <1>1, InitAccountKeeps
<1>2. ASSUME NEW s \in Signers, NEW setting \in Settings, NEW tx \in Requests,
             Execute(s, setting, tx)
      PROVE  IInv'
  BY <1>2, ExecuteKeeps
<1>3. ASSUME NEW s \in Signers, NEW setting \in Settings, NEW tx \in Requests,
             SimulateTx(s, setting, tx)
      PROVE  IInv'
  BY <1>3, SimulateTxKeeps
<1>4. ASSUME UNCHANGED vars PROVE IInv'
  <2>1. TypeOK'
    BY <1>4 DEF IInv, TypeOK, vars, chain
  <2>2. Progress'
    BY <1>4 DEF IInv, Progress, Untouched, AsSaved, Delivered, vars, chain
  <2> QED BY <2>1, <2>2 DEF IInv
<1> QED
  BY <1>1, <1>2, <1>3, <1>4, EstimateKeeps, SignKeeps, DeliverKeeps, EndBlockKeeps DEF Next

\* The inductive invariant holds of every state, for any signers, settings and requests
\* and any precision of f64.
THEOREM IInvAlways == Spec => []IInv
<1> QED BY StepIInv, InitIInv, PTL DEF Spec

\* Every variable has its type: no balance is charged below nothing.
THEOREM TypeCorrect == Spec => []TypeOK
<1>1. IInv => TypeOK
  BY DEF IInv
<1> QED BY <1>1, IInvAlways, PTL

\* A block collects the fee of the transaction delivered in it, once, and nothing for a
\* simulation or an Err.
THEOREM FeeOnce == Spec => []ChargedOnce
<1>1. IInv => ChargedOnce
  <2> SUFFICES ASSUME IInv, phase = "end" PROVE fin.pool - saved.pool = IF outcome = "err" THEN 0 ELSE fee.amount
    BY DEF ChargedOnce, In
  <2>1. fin.pool \in Nat /\ saved.pool \in Nat /\ fee.amount \in Nat
    BY DEF IInv, TypeOK, Store, Fee
  <2>2. (outcome = "err" /\ Untouched) \/ Delivered
    BY DEF IInv, Progress
  <2>3. Untouched => fin.pool = saved.pool
    BY DEF Untouched, AsSaved
  <2>4. Delivered => outcome # "err" /\ fin.pool = saved.pool + fee.amount
    BY DEF Delivered, Answers
  <2> QED BY <2>1, <2>2, <2>3, <2>4
<1> QED BY <1>1, IInvAlways, PTL

\* An Err and a simulation leave the committed store as it was, but for what the blockers
\* do; a delivered transaction never does.
THEOREM ErrLeavesNoTrace == Spec => ErrChangesNothing
<1> DEFINE moved == saved'.messages # saved.messages \/ saved'.seq # saved.seq
                      \/ saved'.balance # saved.balance
<1>1. ASSUME IInv, Next, phase # "idle", phase' = "idle"
      PROVE  moved <=> outcome' \in Answers
  <2>1. ASSUME EndBlock PROVE moved <=> outcome' \in Answers
    <3>1. /\ saved'.balance = fin.balance /\ saved'.seq = fin.seq
          /\ saved'.messages = fin.messages
          /\ outcome' = outcome /\ phase = "end"
      BY <1>1, <2>1 DEF EndBlock, Commit, In, IInv, TypeOK, Store
    <3>2. (outcome = "err" /\ Untouched) \/ Delivered
      BY <1>1, <3>1 DEF IInv, Progress
    <3>3. ASSUME outcome = "err", Untouched PROVE moved <=> outcome' \in Answers
      BY <3>1, <3>3 DEF Untouched, AsSaved, Answers
    <3>4. ASSUME Delivered PROVE moved <=> outcome' \in Answers
      <4>1. saved.seq[job.signer] \in Nat
        BY <1>1, <3>1, JobIsTyped DEF IInv, TypeOK, Store
      <4>2. fin.seq # saved.seq
        BY <3>4, <4>1 DEF Delivered
      <4> QED BY <3>1, <3>4, <4>2 DEF Delivered
    <3> QED BY <3>2, <3>3, <3>4
  <2>2. ASSUME Estimate PROVE moved <=> outcome' \in Answers
    <3>1. saved' = saved
      BY <2>2 DEF Estimate, Abort, chain
    <3>2. outcome = "none"
      BY <1>1, <2>2 DEF Estimate, In, IInv, Progress
    <3>3. outcome' \in {"none", "err"}
      BY <2>2, <3>2 DEF Estimate, Answer, Abort
    <3> QED BY <3>1, <3>3 DEF Answers
  <2>3. Sign \/ Deliver => phase' # "idle"
    BY <1>1 DEF Sign, Deliver, Step, Abort
  <2>4. ASSUME NEW s \in Signers,
               \/ \E c \in Coins : InitAccount(s, c)
               \/ \E setting \in Settings, tx \in Requests :
                    Execute(s, setting, tx) \/ SimulateTx(s, setting, tx)
        PROVE  FALSE
    BY <1>1, <2>4 DEF InitAccount, Execute, SimulateTx, In
  <2> QED BY <1>1, <2>1, <2>2, <2>3, <2>4 DEF Next
<1>2. IInv /\ [Next]_vars => [phase # "idle" /\ phase' = "idle" => (moved <=> outcome' \in Answers)]_vars
  BY <1>1
<1>3. IInv /\ [Next]_vars =>
        [phase # "idle" /\ phase' = "idle" =>
           LET m == saved'.messages # saved.messages \/ saved'.seq # saved.seq
                      \/ saved'.balance # saved.balance
           IN m <=> outcome' \in Answers]_vars
  BY <1>2
<1> QED BY <1>3, IInvAlways, PTL DEF Spec, ErrChangesNothing

-------------------------------------------------------------------------------
(* Every operation is one step of Ledger. *)

\* Ledger knows the same terms.
LEMMA SameFees ==
  /\ \A gasUsed, setting : Atomic!FeeFor(gasUsed, setting) = FeeFor(gasUsed, setting)
  /\ \A load, tx : Atomic!GasUsed(load, tx) = GasUsed(load, tx)
  /\ Atomic!default_simulation_fee = default_simulation_fee
<1>1. \A n : Atomic!UlpsOf(n) = UlpsOf(n)
  BY DEF Atomic!UlpsOf, UlpsOf
<1>2. \A n : Atomic!Float(n) = Float(n)
  <2> SUFFICES ASSUME NEW n PROVE Atomic!Float(n) = Float(n)
    OBVIOUS
  <2> DEFINE rounded(ulps) ==
               LET ulp  == CHOOSE u \in ulps : TRUE
                   bits == n \div ulp
                   rest == n % ulp
                   up   == 2 * rest > ulp \/ (2 * rest = ulp /\ bits % 2 = 1)
               IN IF ulps = {} THEN n ELSE ulp * (IF up THEN bits + 1 ELSE bits)
  <2>1. Atomic!Float(n) = rounded(Atomic!UlpsOf(n))
    BY DEF Atomic!Float
  <2>2. Float(n) = rounded(UlpsOf(n))
    BY DEF Float
  <2>3. Atomic!UlpsOf(n) = UlpsOf(n)
    BY <1>1
  <2> HIDE DEF rounded
  <2> QED BY <2>1, <2>2, <2>3
<1>3. \A n : Atomic!ToU64(n) = ToU64(n)
  BY DEF Atomic!ToU64, ToU64
<1>4. \A a, b : Atomic!CeilDiv(a, b) = CeilDiv(a, b)
  BY DEF Atomic!CeilDiv, CeilDiv
<1>5. \A gas, setting : Atomic!Amount(gas, setting) = Amount(gas, setting)
  BY <1>2, <1>3 DEF Atomic!Amount, Amount
<1>6. \A gas, setting : Atomic!GasLimit(gas, setting) = GasLimit(gas, setting)
  BY <1>2, <1>3, <1>4 DEF Atomic!GasLimit, GasLimit
<1>7. \A gasUsed, setting : Atomic!FeeFor(gasUsed, setting) = FeeFor(gasUsed, setting)
  BY <1>5, <1>6 DEF Atomic!FeeFor, FeeFor
<1>8. \A load, tx : Atomic!GasUsed(load, tx) = GasUsed(load, tx)
  BY DEF Atomic!GasUsed, GasUsed
<1>9. Atomic!default_simulation_fee = default_simulation_fee
  BY DEF Atomic!default_simulation_fee, default_simulation_fee
<1> QED BY <1>7, <1>8, <1>9

\* The fee of the operation under way if the store has this load, and whether its messages
\* would run there: by the committed store otherwise.
DueOn(load) ==
  IF job.setting.kind = "auto" THEN FeeFor(GasUsed(load + last, job.tx), job.setting)
  ELSE [amount |-> job.setting.amount, gas |-> job.setting.gas]

RunsOn(load) ==
  /\ saved.balance[job.signer] >= default_simulation_fee.amount
  /\ load + last <= job.tx.bears

LEMMA SameTerms ==
  \A load : /\ Atomic!Due(job, load) = DueOn(load)
            /\ Atomic!WouldRun(job, load) <=> RunsOn(load)
<1> SUFFICES ASSUME NEW load
             PROVE  /\ Atomic!Due(job, load) = DueOn(load)
                    /\ Atomic!WouldRun(job, load) <=> RunsOn(load)
  OBVIOUS
<1>1. Atomic!Due(job, load) = DueOn(load)
  BY SameFees DEF Atomic!Due, DueOn
<1>2. Atomic!WouldRun(job, load) <=> RunsOn(load)
  BY SameFees DEF Atomic!WouldRun, RunsOn
<1> QED BY <1>1, <1>2

\* A store in which a transaction has been charged and run.
Charged(store, s, amount, count, load) ==
  [store EXCEPT !.balance[s] = @ - amount, !.pool = @ + amount,
                !.seq[s] = @ + 1, !.messages = @ + count, !.load = load]

LEMMA FieldByField ==
  ASSUME NEW store \in Store, NEW s \in Signers, NEW amount, NEW count, NEW load
  PROVE  Charged(store, s, amount, count, load)
           = [balance  |-> [store.balance EXCEPT ![s] = @ - amount],
              seq      |-> [store.seq EXCEPT ![s] = @ + 1],
              pool     |-> store.pool + amount,
              messages |-> store.messages + count,
              load     |-> load]
<1> DEFINE balance == [store.balance EXCEPT ![s] = @ - amount]
           seq     == [store.seq EXCEPT ![s] = @ + 1]
<1>1. PICK new : new = Charged(store, s, amount, count, load)
  OBVIOUS
<1>2. new = [balance |-> balance, seq |-> seq, pool |-> store.pool + amount,
             messages |-> store.messages + count, load |-> load]
  BY <1>1 DEF Charged, Store
<1> QED BY <1>1, <1>2

\* What Ledger's Pay makes of the committed store is in the open block, but for what the
\* blockers do when it ends; known is the load the fee was calculated for.
Paid(known) ==
  /\ job.setting.kind = "auto" => RunsOn(known)
  /\ DueOn(known).amount <= saved.balance[job.signer] /\ DueOn(known).gas <= MaxGas
  /\ fin.load + now <= job.tx.bears
  /\ GasUsed(fin.load + now, job.tx) <= DueOn(known).gas
  /\ fin = Charged(saved, job.signer, DueOn(known).amount, job.tx.count, fin.load)

\* The strengthening of IInv: the terms on which an operation goes on are those of the
\* committed store, which stays as it is until the block ends, and of a load that the
\* check state may have.
Terms ==
  /\ fin.load = root.load /\ root.load \in Loads
  /\ phase \in {"sign", "deliver"} =>
       \E known \in Seen :
         fee = DueOn(known) /\ (job.setting.kind = "auto" => RunsOn(known))
  /\ phase = "end" =>
       \/ /\ outcome = "err" /\ job.setting.kind = "auto" /\ Untouched
          /\ \E known \in Seen : ~RunsOn(known)
       \/ outcome \in Answers /\ \E known \in Seen : Paid(known)

LEMMA InitTerms == Init => Terms
  BY LoadsAssumption DEF Init, Genesis, Terms

\* A step that leaves the committed store, its time and the job alone leaves what is due.
LEMMA SameDue ==
  ASSUME UNCHANGED <<saved, last, job>>, NEW load
  PROVE  DueOn(load)' = DueOn(load) /\ (RunsOn(load)' <=> RunsOn(load))
  BY DEF DueOn, RunsOn, GasUsed

LEMMA StutterKeepsTerms ==
  ASSUME Terms, UNCHANGED <<chain, phase, job, fee, outcome>>
  PROVE  Terms'
<1>1. ASSUME NEW load
      PROVE  DueOn(load)' = DueOn(load) /\ (RunsOn(load)' <=> RunsOn(load))
  BY SameDue DEF chain
<1>2. ASSUME NEW known, Paid(known) PROVE Paid(known)'
  BY <1>1, <1>2 DEF Paid, GasUsed, chain
<1>3. Untouched => Untouched'
  BY DEF Untouched, AsSaved, chain
<1>4. Seen' = Seen
  BY DEF Seen, chain
<1> QED BY <1>1, <1>2, <1>3, <1>4 DEF Terms, chain

LEMMA StartsKeepTerms ==
  ASSUME IInv, Terms,
         \/ \E s \in Signers :
              \/ \E c \in Coins : InitAccount(s, c)
              \/ \E setting \in Settings, tx \in Requests :
                   Execute(s, setting, tx) \/ SimulateTx(s, setting, tx)
         \/ EndBlock
  PROVE  Terms'
<1>1. root \in Store /\ fin \in Store
  BY DEF IInv, TypeOK
<1>2. ASSUME NEW s \in Signers, NEW c \in Coins, InitAccount(s, c) PROVE Terms'
  <2>1. phase' = "idle" /\ fin' = root'
    BY <1>2 DEF InitAccount, Commit, In
  <2>2. root'.load \in Loads
    BY <1>1, <1>2 DEF InitAccount, Commit, Store
  <2> QED BY <2>1, <2>2 DEF Terms
<1>3. ASSUME NEW s \in Signers, NEW setting \in Settings, NEW tx \in Requests,
             Execute(s, setting, tx)
      PROVE  Terms'
  <2>1. fin'.load = root'.load /\ root'.load \in Loads
    BY <1>1, <1>3 DEF Execute, BeginBlock, Store
  <2>2. job'.setting = setting
    BY <1>3 DEF Execute
  <2>3. ASSUME setting.kind = "auto" PROVE Terms'
    BY <1>3, <2>1, <2>3 DEF Execute, Step, Terms
  <2>4. ASSUME setting.kind # "auto" PROVE Terms'
    <3>1. phase' = "sign" /\ fee' = [amount |-> setting.amount, gas |-> setting.gas]
      BY <1>3, <2>4 DEF Execute, Step
    <3>2. ASSUME NEW known PROVE DueOn(known)' = [amount |-> setting.amount, gas |-> setting.gas]
      BY <2>2, <2>4 DEF DueOn
    <3>3. root'.load \in Seen'
      BY DEF Seen
    <3>4. \E known \in Seen' :
            fee' = DueOn(known)' /\ (job'.setting.kind = "auto" => RunsOn(known)')
      BY <2>2, <2>4, <3>1, <3>2, <3>3
    <3> QED BY <2>1, <3>1, <3>4 DEF Terms
  <2> QED BY <2>3, <2>4
<1>4. ASSUME NEW s \in Signers, NEW setting \in Settings, NEW tx \in Requests,
             SimulateTx(s, setting, tx)
      PROVE  Terms'
  BY <1>4 DEF SimulateTx, Step, Terms, chain
<1>5. ASSUME EndBlock PROVE Terms'
  <2>1. phase' = "idle" /\ fin' = root'
    BY <1>5 DEF EndBlock, Commit, Step
  <2>2. root'.load \in Loads
    BY <1>1, <1>5 DEF EndBlock, Commit, Store
  <2> QED BY <2>1, <2>2 DEF Terms
<1> QED BY <1>2, <1>3, <1>4, <1>5

\* With an account a simulation fails for the funds or the messages only: between
\* operations nothing else has used up a sequence.
LEMMA EstimateChecks ==
  ASSUME IInv, phase = "estimate", fin.balance[job.signer] # NoAccount,
         NEW load \in Nat
  PROVE  Accepts(root, load + last, job.signer, fin.seq[job.signer],
                 default_simulation_fee.amount, job.tx)
           <=> RunsOn(load)
<1> DEFINE s == job.signer
           funds == default_simulation_fee.amount
<1>1. Untouched /\ AsSaved(root)
  BY DEF IInv, Progress
<1>2. /\ root.balance[s] # NoAccount /\ fin.seq[s] = root.seq[s]
      /\ root.balance[s] = saved.balance[s]
  BY <1>1 DEF Untouched, AsSaved
<1>3. /\ root.balance[s] \in Int /\ load + last \in Nat
      /\ job.tx.bears \in Nat /\ funds \in Nat
  BY JobIsTyped, RequestsAssumption, LimitsAssumption, TimesAssumption
  DEF IInv, TypeOK, Store, NoAccount, Request, default_simulation_fee
<1>4. Refusals(root, load + last, s, fin.seq[s], funds, job.tx) = {}
        <=> ~(root.balance[s] < funds) /\ ~(load + last > job.tx.bears)
  BY <1>2 DEF Refusals
<1> QED BY <1>2, <1>3, <1>4 DEF Accepts, RunsOn

LEMMA SeenIsTyped ==
  ASSUME IInv
  PROVE  Seen \subseteq Nat
  BY DEF Seen, IInv, TypeOK, Store

LEMMA EstimateKeepsTerms ==
  ASSUME IInv, Terms, Estimate
  PROVE  Terms'
<1> DEFINE s == job.signer
<1>1. phase = "estimate"
  BY DEF Estimate, In
<1>2. CASE fin.balance[s] = NoAccount
  <2>1. UNCHANGED <<chain, phase, job, fee, outcome>>
    BY <1>2 DEF Estimate, Abort
  <2> QED BY <2>1, StutterKeepsTerms
<1>3. CASE fin.balance[s] # NoAccount
  <2>1. PICK load \in Seen : Answer(load)
    BY <1>3 DEF Estimate
  <2> DEFINE good == Accepts(root, load + last, s, fin.seq[s],
                             default_simulation_fee.amount, job.tx)
  <2>2. /\ fee' = IF good /\ job.kind = "tx" THEN FeeFor(GasUsed(load + last, job.tx), job.setting)
                  ELSE fee
        /\ outcome' = IF good THEN outcome ELSE "err"
        /\ After(good)
    BY <2>1 DEF Answer
  <2>3. /\ peeked' = (peeked \/ job.kind = "sim") /\ peeked \in BOOLEAN
        /\ UNCHANGED <<saved, root, fin, last, now, blocks, job, signed>>
    BY <1>3 DEF Estimate, IInv, TypeOK
  <2>4. DueOn(load)' = DueOn(load) /\ (RunsOn(load)' <=> RunsOn(load))
    BY <2>3, SameDue
  <2>5. good <=> RunsOn(load)
    <3>1. load \in Nat
      BY <2>1, SeenIsTyped
    <3> QED BY <1>1, <1>3, <3>1, EstimateChecks
  <2> HIDE DEF good
  <2>6. Untouched'
    BY <1>1, <2>3 DEF IInv, Progress, Untouched, AsSaved
  <2>7. ASSUME job.kind = "sim" PROVE Terms'
    <3>1. phase' = "idle"
      BY <2>2, <2>7 DEF After, Step
    <3> QED BY <2>3, <3>1 DEF Terms
  <2>8. ASSUME job.kind # "sim" PROVE Terms'
    <3>1. job.kind = "tx" /\ job.setting.kind = "auto"
      BY <1>1, <2>8, JobIsTyped DEF IInv, Progress, AutoFee
    <3>2. peeked' = peeked
      BY <2>3, <2>8
    <3>3. load \in Seen'
      BY <2>1, <2>3, <3>2 DEF Seen
    <3>4. ASSUME good PROVE Terms'
      <4>1. phase' = "sign" /\ fee' = DueOn(load)
        BY <2>2, <2>8, <3>1, <3>4 DEF After, Step, DueOn
      <4>2. fee' = DueOn(load)' /\ RunsOn(load)'
        BY <2>4, <2>5, <3>4, <4>1
      <4> QED BY <2>3, <3>3, <4>1, <4>2 DEF Terms
    <3>5. ASSUME ~good PROVE Terms'
      <4>1. phase' = "end" /\ outcome' = "err"
        BY <2>2, <2>8, <3>5 DEF After, Step
      <4>2. ~RunsOn(load)'
        BY <2>4, <2>5, <3>5
      <4>3. \E known \in Seen' : ~RunsOn(known)'
        BY <3>3, <4>2
      <4> QED BY <2>3, <2>6, <3>1, <4>1, <4>3 DEF Terms
    <3> QED BY <3>4, <3>5
  <2> QED BY <2>7, <2>8
<1> QED BY <1>2, <1>3

LEMMA SignKeepsTerms ==
  ASSUME IInv, Terms, Sign
  PROVE  Terms'
<1>1. CASE fin.balance[job.signer] = NoAccount
  <2>1. UNCHANGED <<chain, phase, job, fee, outcome>>
    BY <1>1 DEF Sign, Abort
  <2> QED BY <2>1, StutterKeepsTerms
<1>2. CASE fin.balance[job.signer] # NoAccount
  <2>1. /\ phase = "sign" /\ phase' = "deliver"
        /\ UNCHANGED <<chain, job, fee, outcome>>
    BY <1>2 DEF Sign, In, Step
  <2>2. PICK known \in Seen :
          fee = DueOn(known) /\ (job.setting.kind = "auto" => RunsOn(known))
    BY <2>1 DEF Terms
  <2>3. DueOn(known)' = DueOn(known) /\ (RunsOn(known)' <=> RunsOn(known))
    BY <2>1, SameDue DEF chain
  <2>4. known \in Seen'
    BY <2>1, <2>2 DEF Seen, chain
  <2>5. \E k \in Seen' : fee' = DueOn(k)' /\ (job'.setting.kind = "auto" => RunsOn(k)')
    BY <2>1, <2>2, <2>3, <2>4
  <2> QED BY <2>1, <2>5 DEF Terms, chain
<1> QED BY <1>1, <1>2

LEMMA DeliverKeepsTerms ==
  ASSUME IInv, Terms, Deliver
  PROVE  Terms'
<1> DEFINE s == job.signer
           load == fin.load + now
<1>1. phase = "deliver" /\ phase # "idle"
  BY DEF Deliver, In
<1>2. \/ /\ Objections = {}
         /\ fin' = [fin EXCEPT !.balance[s] = @ - signed.fee.amount,
                               !.pool = @ + signed.fee.amount,
                               !.seq[s] = @ + 1,
                               !.messages = @ + job.tx.count]
         /\ outcome' \in Answers
         /\ Step("end")
         /\ UNCHANGED <<saved, root, last, now, peeked, blocks, job, fee, signed>>
      \/ \E why \in Objections : Abort(why)
  BY DEF Deliver
<1>3. CASE \E why \in Objections : Abort(why)
  <2>1. UNCHANGED <<chain, phase, job, fee, outcome>>
    BY <1>3 DEF Abort
  <2> QED BY <2>1, StutterKeepsTerms
<1>4. ASSUME Objections = {},
             fin' = [fin EXCEPT !.balance[s] = @ - signed.fee.amount,
                                !.pool = @ + signed.fee.amount,
                                !.seq[s] = @ + 1,
                                !.messages = @ + job.tx.count],
             outcome' \in Answers, Step("end"),
             UNCHANGED <<saved, root, last, now, peeked, blocks, job, fee, signed>>
      PROVE  Terms'
  <2>1. fin \in Store /\ saved \in Store /\ signed.fee \in Fee /\ now \in Nat
    BY TimesAssumption DEF IInv, TypeOK
  <2>2. /\ Untouched /\ signed.fee = fee /\ fin.load = root.load /\ root.load \in Loads
    BY <1>1 DEF IInv, Progress, Terms
  <2>3. PICK known \in Seen :
          fee = DueOn(known) /\ (job.setting.kind = "auto" => RunsOn(known))
    BY <1>1 DEF Terms
  <2> DEFINE due == DueOn(known)
  <2>4. /\ s \in Signers /\ job.tx.gas \in Nat /\ job.tx.count \in Nat
        /\ due.amount \in Nat /\ due.gas \in Nat /\ signed.fee = due
    BY <1>1, <2>1, <2>2, <2>3, JobIsTyped DEF Fee
  <2> HIDE DEF due
  <2>5. /\ "funds" \notin Objections /\ "messages" \notin Objections
        /\ "limit" \notin Objections /\ "gas" \notin Objections
    BY <1>4
  <2>6. /\ ~(fin.balance[s] < due.amount) /\ ~(load > job.tx.bears)
        /\ ~(due.gas > MaxGas) /\ ~(GasUsed(load, job.tx) > due.gas)
    BY <2>4, <2>5 DEF Objections, Refusals
  <2>7. /\ due.amount <= saved.balance[s] /\ due.gas <= MaxGas
        /\ load <= job.tx.bears /\ GasUsed(load, job.tx) <= due.gas
    <3>1. fin.balance[s] = saved.balance[s] /\ saved.balance[s] \in Int
      BY <2>1, <2>2, <2>4 DEF Untouched, AsSaved, Store, NoAccount
    <3>2. load \in Nat /\ job.tx.bears \in Nat /\ MaxGas \in Nat
      BY <1>1, <2>1, JobIsTyped, RequestsAssumption, LimitsAssumption DEF Store, Request
    <3>3. GasUsed(load, job.tx) \in Nat
      BY <2>4, <3>2 DEF GasUsed
    <3> QED BY <2>4, <2>6, <3>1, <3>2, <3>3
  <2>8. fin' = [balance |-> [fin.balance EXCEPT ![s] = @ - due.amount],
                seq |-> [fin.seq EXCEPT ![s] = @ + 1],
                pool |-> fin.pool + due.amount,
                messages |-> fin.messages + job.tx.count,
                load |-> fin.load]
    BY <1>4, <2>1, <2>4 DEF Store
  <2>9. fin' = Charged(saved, s, due.amount, job.tx.count, fin.load)
    BY <2>1, <2>2, <2>4, <2>8, FieldByField DEF Untouched, AsSaved
  <2>10. fin'.load = fin.load
    BY <2>8
  <2>11. DueOn(known)' = due /\ (RunsOn(known)' <=> RunsOn(known))
    BY <1>4, SameDue DEF due
  <2>12. Paid(known)'
    <3>1. /\ job' = job /\ saved' = saved /\ now' = now /\ fin'.load + now' = load
          /\ GasUsed(fin'.load + now', job'.tx) = GasUsed(load, job.tx)
      BY <1>4, <2>10 DEF GasUsed
    <3> QED BY <2>3, <2>7, <2>9, <2>10, <2>11, <3>1 DEF Paid
  <2>13. known \in Seen'
    BY <1>4, <2>3 DEF Seen
  <2> QED BY <1>4, <2>2, <2>10, <2>12, <2>13 DEF Terms, Step
<1> QED BY <1>2, <1>3, <1>4

LEMMA StepTerms == IInv /\ Terms /\ [Next]_vars => Terms'
<1>1. ASSUME Terms, UNCHANGED vars PROVE Terms'
  <2>1. UNCHANGED <<chain, phase, job, fee, outcome>>
    BY <1>1 DEF vars
  <2> QED BY <1>1, <2>1, StutterKeepsTerms
<1> QED
  BY <1>1, StartsKeepTerms, EstimateKeepsTerms, SignKeepsTerms, DeliverKeepsTerms DEF Next

LEMMA TermsAlways == Spec => [](IInv /\ Terms)
<1> QED BY InitIInv, InitTerms, StepIInv, StepTerms, PTL DEF Spec

\* Ledger's loads of an estimate are those the check state may have.
LEMMA SameLoads ==
  ASSUME Terms
  PROVE  Atomic!Known(fin.load) = Seen
  BY DEF Terms, Atomic!Known, Seen

\* A step of the code is a step of Ledger, or none.
LEMMA OpensAccount ==
  ASSUME IInv, NEW s \in Signers, NEW c \in Coins, InitAccount(s, c)
  PROVE  Atomic!Open(s, c)
<1>1. /\ phase = "idle" /\ phase' = "idle" /\ outcome' = "ok" /\ root = saved
      /\ saved.balance[s] = NoAccount
  BY DEF InitAccount, In, IInv, Progress
<1>2. \E load \in Loads : saved' = [saved EXCEPT !.balance[s] = c, !.load = load]
  BY <1>1 DEF InitAccount, Commit
<1>3. last' \in Times /\ peeked' = FALSE
  BY DEF InitAccount, Commit
<1> QED BY <1>1, <1>2, <1>3
        DEF Atomic!Open, Atomic!Block, Atomic!Nothing, Atomic!NoAccount, NoAccount

LEMMA AsksOnce ==
  ASSUME NEW s \in Signers, NEW setting \in Settings, NEW tx \in Requests,
         Execute(s, setting, tx) \/ SimulateTx(s, setting, tx)
  PROVE  \E op \in Atomic!Job : Atomic!Ask(op)
<1>1. phase = "idle" /\ phase' # "idle" /\ UNCHANGED <<saved, last, peeked>>
  BY DEF Execute, BeginBlock, SimulateTx, In, Step, chain
<1>2. job' \in Atomic!Job
  <2>1. \/ job' = [kind |-> "tx", signer |-> s, setting |-> setting, tx |-> tx]
        \/ job' = [kind |-> "sim", signer |-> s, setting |-> setting, tx |-> tx]
    BY DEF Execute, SimulateTx
  <2> QED BY <2>1 DEF Atomic!Job
<1>3. Atomic!Ask(job')
  BY <1>1, <1>2 DEF Atomic!Ask, Atomic!Nothing
<1> QED BY <1>2, <1>3

\* A simulation by its own reads the committed store, for there is no block.
LEMMA EstimateForetells ==
  ASSUME IInv, Terms, Estimate, phase' = "idle"
  PROVE  Atomic!Foretell
<1> DEFINE s == job.signer
<1>1. phase = "estimate" /\ phase # "idle" /\ outcome = "none"
  BY DEF Estimate, In, IInv, Progress
<1>2. fin.balance[s] # NoAccount
  BY <1>1 DEF Estimate, Abort
<1>3. PICK load \in Seen : Answer(load)
  BY <1>2 DEF Estimate
<1> DEFINE good == Accepts(root, load + last, s, fin.seq[s],
                           default_simulation_fee.amount, job.tx)
<1>4. /\ outcome' = IF good THEN outcome ELSE "err"
      /\ After(good)
  BY <1>3 DEF Answer
<1>5. UNCHANGED <<saved, last>> /\ peeked' = (peeked \/ job.kind = "sim")
  BY <1>2 DEF Estimate
<1>6. good <=> RunsOn(load)
  <2>1. load \in Nat
    BY <1>3, SeenIsTyped
  <2> QED BY <1>1, <1>2, <2>1, EstimateChecks
<1> HIDE DEF good
<1>7. job.kind = "sim"
  BY <1>4 DEF After, Step
<1>8. load = saved.load
  BY <1>3, <1>7 DEF Seen, IInv, Progress
<1>9. good <=> Atomic!WouldRun(job, saved.load)
  BY <1>6, <1>8, SameTerms
<1>10. outcome' = IF Atomic!WouldRun(job, saved.load) THEN "none" ELSE "err"
  BY <1>1, <1>4, <1>9
<1>11. peeked' = TRUE
  BY <1>5, <1>7
<1> QED BY <1>1, <1>5, <1>7, <1>10, <1>11 DEF Atomic!Foretell, Atomic!Nothing

\* The blockers of the end have the last word on the load.
LEMMA ChargedAgain ==
  ASSUME NEW store \in Store, NEW s \in Signers, NEW amount, NEW count, NEW load, NEW after
  PROVE  [Charged(store, s, amount, count, load) EXCEPT !.load = after]
           = Charged(store, s, amount, count, after)
  BY FieldByField

LEMMA EndAnswers ==
  ASSUME IInv, Terms, EndBlock
  PROVE  \/ Atomic!Refuse
         \/ \E load \in Loads : \E known \in Atomic!Known(load) : Atomic!Pay(load, known)
<1>1. /\ phase = "end" /\ phase # "idle" /\ phase' = "idle"
      /\ outcome' = outcome /\ job.kind = "tx"
      /\ last' = now /\ last' \in Times /\ peeked' = FALSE
  BY DEF EndBlock, Commit, In, Step, IInv, TypeOK, Progress
<1>2. PICK after \in Loads : saved' = [fin EXCEPT !.load = after]
  BY DEF EndBlock, Commit
<1>3. saved \in Store /\ fin \in Store /\ fin.load \in Loads /\ Atomic!Known(fin.load) = Seen
  BY SameLoads DEF IInv, TypeOK, Terms
<1>4. job \in Job
  BY <1>1, JobIsTyped
<1>5. Atomic!Block
  BY <1>1 DEF Atomic!Block
<1>6. ASSUME NEW known \in Seen, outcome = "err", job.setting.kind = "auto", ~RunsOn(known),
             Untouched
      PROVE  Atomic!Refuse
  <2>1. saved' = [saved EXCEPT !.load = after]
    BY <1>2, <1>3, <1>6 DEF Untouched, AsSaved, Store
  <2>2. ~Atomic!WouldRun(job, known)
    BY <1>6, SameTerms
  <2>3. \E l \in Loads : \E k \in Atomic!Known(l) : ~Atomic!WouldRun(job, k)
    BY <1>3, <2>2
  <2> QED BY <1>1, <1>2, <1>5, <1>6, <2>1, <2>3 DEF Atomic!Refuse, Atomic!Nothing
<1>7. ASSUME NEW known \in Seen, outcome \in Answers, Paid(known)
      PROVE  Atomic!Pay(fin.load, known)
  <2> DEFINE s == job.signer
             due == Atomic!Due(job, known)
  <2>1. due = DueOn(known) /\ (Atomic!WouldRun(job, known) <=> RunsOn(known))
    BY SameTerms
  <2> HIDE DEF due
  <2>2. s \in Signers
    BY <1>4 DEF Job
  <2>3. saved' = Charged(saved, s, due.amount, job.tx.count, after)
    <3>1. fin = Charged(saved, s, due.amount, job.tx.count, fin.load)
      BY <1>7, <2>1 DEF Paid
    <3> QED BY <1>2, <1>3, <2>2, <3>1, ChargedAgain
  <2>4. \E l \in Loads :
          saved' = [saved EXCEPT !.balance[s] = @ - due.amount,
                                 !.pool = @ + due.amount,
                                 !.seq[s] = @ + 1,
                                 !.messages = @ + job.tx.count,
                                 !.load = l]
    BY <1>2, <2>3 DEF Charged
  <2>5. /\ job.setting.kind = "auto" => Atomic!WouldRun(job, known)
        /\ due.amount <= saved.balance[s] /\ due.gas <= MaxGas
        /\ fin.load + last' <= job.tx.bears
        /\ Atomic!GasUsed(fin.load + last', job.tx) <= due.gas
    BY <1>1, <1>7, <2>1, SameFees DEF Paid
  <2>6. outcome' \in Atomic!Answers
    BY <1>1, <1>7 DEF Answers, Atomic!Answers
  <2> QED BY <1>1, <1>5, <2>4, <2>5, <2>6 DEF Atomic!Pay, Atomic!Nothing, due
<1>8. \/ /\ outcome = "err" /\ job.setting.kind = "auto" /\ Untouched
         /\ \E known \in Seen : ~RunsOn(known)
      \/ outcome \in Answers /\ \E known \in Seen : Paid(known)
  BY <1>1 DEF Terms
<1> QED BY <1>3, <1>6, <1>7, <1>8

\* To the test every operation is one step on the committed store, taken when it answers,
\* for any signers, settings and requests, whatever the blockers do to the load and when.
THEOREM TransactionsAreAtomic == Spec => OperationsAreAtomic
<1> DEFINE asked == IF phase = "idle" THEN [kind |-> "none"] ELSE job
           reply == IF phase = "idle" THEN outcome ELSE "none"
           ledger == <<saved, last, peeked, asked, reply>>
<1>1. Init => Atomic!Init
  BY DEF Init, Genesis, NoAccount,
         Atomic!Init, Atomic!Genesis, Atomic!NoAccount, Atomic!Nothing
<1>2. IInv /\ Terms /\ [Next]_vars => [Atomic!Next]_ledger
  <2> SUFFICES ASSUME IInv, Terms, [Next]_vars
               PROVE  Atomic!Next \/ UNCHANGED ledger
    OBVIOUS
  <2>1. ASSUME NEW s \in Signers, NEW c \in Coins, InitAccount(s, c) PROVE Atomic!Next
    <3>1. \E t \in Signers, d \in Coins : Atomic!Open(t, d)
      BY <2>1, OpensAccount
    <3> QED BY <3>1 DEF Atomic!Next
  <2>2. ASSUME NEW s \in Signers, NEW setting \in Settings, NEW tx \in Requests,
               Execute(s, setting, tx) \/ SimulateTx(s, setting, tx)
        PROVE  Atomic!Next
    <3>1. \E op \in Atomic!Job : Atomic!Ask(op)
      BY <2>2, AsksOnce
    <3> QED BY <3>1 DEF Atomic!Next
  <2>3. ASSUME Estimate PROVE Atomic!Next \/ UNCHANGED ledger
    <3>1. CASE phase' = "idle"
      BY <2>3, <3>1, EstimateForetells DEF Atomic!Next
    <3>2. CASE phase' # "idle"
      <4>1. phase # "idle" /\ UNCHANGED <<saved, last, job>>
        BY <2>3 DEF Estimate, In, Abort, chain
      <4>2. peeked' = peeked
        <5>1. CASE fin.balance[job.signer] = NoAccount
          BY <2>3, <5>1 DEF Estimate, Abort, chain
        <5>2. CASE fin.balance[job.signer] # NoAccount
          <6>1. PICK load \in Seen : Answer(load)
            BY <2>3, <5>2 DEF Estimate
          <6>2. job.kind # "sim"
            BY <3>2, <6>1 DEF Answer, After, Step
          <6>3. peeked' = (peeked \/ job.kind = "sim") /\ peeked \in BOOLEAN
            BY <2>3, <5>2 DEF Estimate, IInv, TypeOK
          <6> QED BY <6>2, <6>3
        <5> QED BY <5>1, <5>2
      <4> QED BY <3>2, <4>1, <4>2
    <3> QED BY <3>1, <3>2
  <2>4. ASSUME Sign \/ Deliver PROVE UNCHANGED ledger
    <3>1. phase # "idle" /\ phase' # "idle" /\ UNCHANGED <<saved, last, peeked, job>>
      BY <2>4 DEF Sign, Deliver, In, Step, Abort, chain
    <3> QED BY <3>1
  <2>5. ASSUME EndBlock PROVE Atomic!Next
    BY <2>5, EndAnswers DEF Atomic!Next
  <2>6. ASSUME UNCHANGED vars PROVE UNCHANGED ledger
    BY <2>6 DEF vars, chain
  <2> QED BY <2>1, <2>2, <2>3, <2>4, <2>5, <2>6 DEF Next
<1> QED BY <1>1, <1>2, TermsAlways, PTL DEF Spec, OperationsAreAtomic, Atomic!Spec
===============================================================================
