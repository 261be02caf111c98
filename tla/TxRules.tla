------------------------------- MODULE TxRules -------------------------------
(***************************************************************************)
(* The terms of a transaction: fee settings, what the application asks of a  *)
(* transaction, and the fee calculate_fee (test-tube/src/runner/app.rs) makes *)
(* of the gas of a simulation.                                               *)
(*                                                                         *)
(* The application that checks and runs transactions is the Cosmos SDK's,   *)
(* outside src/: Accepts, GasUsed and Refusals are external.  Its own        *)
(* minimum gas price is left out, as are denominations: the library charges *)
(* every fee in fee_denom.                                                  *)
(***************************************************************************)
EXTENDS Integers

CONSTANTS
  Signers,      \* the keys that may get an account
  Coins,        \* initial balances
  Settings,     \* the fee settings signers use
  Requests,     \* the transactions they send
  Loads,        \* what the blockers may make of the load
  Times,        \* what the time of a header may add to it
  MinGasPrice,  \* MIN_GAS_PRICE
  MaxGas,       \* consensusParams.Block.MaxGas
  Mantissa,     \* an f64 is an integer below this, 2^53, times a power of 2
  Ulps,         \* those powers
  MaxU64        \* the largest u64

\* gas_adjustment is num / den, an f64: num below Mantissa, den a power of 2.
AutoFee   == [kind : {"auto"}, price : Nat, num : Nat, den : Nat \ {0}]
CustomFee == [kind : {"custom"}, amount : Nat, gas : Nat]

\* count: its messages; gas: what they use; bears: the load they succeed under, that of
\* the store and of the time together.
Request == [count : Nat \ {0}, gas : Nat, bears : Nat]

\* A SigningAccount with its fee setting, and what it is about to send or only to
\* simulate.
Job == [kind : {"tx", "sim"}, signer : Signers, setting : Settings, tx : Requests]

\* What execute_multiple_raw makes of an answer to a transaction: the response
\* of its first message, or an Err when that is not the response asked for.
Answers == {"ok", "undecoded"}

ASSUME CoinsAssumption == Coins \subseteq Nat \ {0}
ASSUME SettingsAssumption == Settings \subseteq AutoFee \union CustomFee
ASSUME RequestsAssumption == Requests \subseteq Request
ASSUME LoadsAssumption == Loads \subseteq Nat /\ 0 \in Loads
ASSUME TimesAssumption == Times \subseteq Nat /\ 0 \in Times
ASSUME LimitsAssumption == {MinGasPrice, MaxGas, MaxU64} \subseteq Nat
\* 50000000 (testenv/setup.go:121) is far below 2^53.
ASSUME MantissaAssumption == Mantissa \in Nat /\ MaxGas < Mantissa
ASSUME UlpsAssumption == Ulps \subseteq Nat \ {0}

NoAccount == -1

\* accounts: balances in fee_denom, NoAccount for keys the chain has not seen.
Store == [balance : [Signers -> Nat \union {NoAccount}], seq : [Signers -> Nat],
          pool : Nat, messages : Nat, load : Nat]

Genesis ==
  [balance |-> [s \in Signers |-> NoAccount], seq |-> [s \in Signers |-> 0],
   pool |-> 0, messages |-> 0, load |-> 0]

Fee == [amount : Nat, gas : Nat]
Free == [amount |-> 0, gas |-> 0]

-------------------------------------------------------------------------------
(* The application. *)

GasUsed(load, tx) == tx.gas + load

\* Mutant: nobody looks at the signer's balance.
RefusalsUnfunded(store, load, s, seq, charge, tx) ==
  {why \in {"account", "sequence", "messages"} :
     CASE why = "account"  -> store.balance[s] = NoAccount
       [] why = "sequence" -> seq # store.seq[s]
       [] why = "messages" -> load > tx.bears}

\* What an application has against a transaction of signer s that runs on this store,
\* under this load.
Refusals(store, load, s, seq, charge, tx) ==
  {why \in {"account", "sequence", "funds", "messages"} :
     CASE why = "account"  -> store.balance[s] = NoAccount
       [] why = "sequence" -> seq # store.seq[s]
       [] why = "funds"    -> store.balance[s] < charge
       [] why = "messages" -> load > tx.bears}

\* Mutant: a simulation that does not run the messages.
AcceptsUnrun(store, load, s, seq, charge, tx) ==
  Refusals(store, load, s, seq, charge, tx) \subseteq {"messages"}

\* A simulation checks no limit on gas.
Accepts(store, load, s, seq, charge, tx) == Refusals(store, load, s, seq, charge, tx) = {}

-------------------------------------------------------------------------------
(* Fees. *)

CeilDiv(a, b) == (a + b - 1) \div b

\* The powers of 2 a float as large as n is a multiple of.
UlpsOf(n) == {u \in Ulps : n < u * Mantissa /\ (u = 1 \/ 2 * n >= u * Mantissa)}

\* A natural number as f64: the nearest one there is, of two the one with even bits.
\* Past the largest, which no fee here reaches, floats are infinite and a u64 of them
\* is MaxU64, as it is of n.
Float(n) ==
  LET ulp  == CHOOSE u \in UlpsOf(n) : TRUE
      bits == n \div ulp
      rest == n % ulp
      up   == 2 * rest > ulp \/ (2 * rest = ulp /\ bits % 2 = 1)
  IN IF UlpsOf(n) = {} THEN n ELSE ulp * (IF up THEN bits + 1 ELSE bits)

\* "as u64" of a float.
ToU64(n) == IF n > MaxU64 THEN MaxU64 ELSE n

\* default_simulation_fee
default_simulation_fee == [amount |-> MinGasPrice, gas |-> 0]

\* (gas_used * gas_adjustment).ceil(), a product of floats; dividing a float by a power
\* of 2 is exact.
GasLimit(gasUsed, setting) ==
  ToU64(CeilDiv(Float(Float(gasUsed) * setting.num), setting.den))

\* gas_limit * gas_price
Amount(gas, setting) == ToU64(Float(Float(gas) * Float(setting.price)))

\* Mutant: the price is put on the gas of the simulation, not on the limit.
FeeOfSimulation(gasUsed, setting) ==
  [amount |-> Amount(gasUsed, setting), gas |-> GasLimit(gasUsed, setting)]

\* calculate_fee, once the simulation has answered.
FeeFor(gasUsed, setting) ==
  LET gas == GasLimit(gasUsed, setting)
  IN [amount |-> Amount(gas, setting), gas |-> gas]
===============================================================================
