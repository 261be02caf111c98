# test-tube in TLA+

A model of Coreum's test-tube (`src/packages`): the library that lets Rust tests of
CosmWasm contracts run against a real application, without a node. The modules
here say what the library does to its environments, blocks, transactions, clock and
answers; TLC checks them on small instances and TLAPS proves the main properties for
every instance. File names below are relative to `src/packages/`.

## The system

| part | where | state it keeps | operations |
|---|---|---|---|
| Go library | `coreum-test-tube/libcoreumtesttube/main.go` | `envCounter`, `envRegister` (a `sync.Map`), `mu` | the exported functions, called through C |
| test environment | `.../testenv/setup.go` | `TestEnv`: the application, a context (height, time, finalize state), the genesis key, `NodeHome` | `SetupApp`, `BeginNewBlock`, `setupValidator` |
| parameter registry | `.../testenv/params.go` | map of parameter types | register, unpack |
| result encoding | `.../result/result.go`, `test-tube/src/runner/result.rs` | none | tag, encode, decode |
| application | Cosmos SDK and Coreum, not in `src/` | committed store, finalize state | `FinalizeBlock`, `Commit`, `SimDeliver`, `Simulate`, queries |
| `BaseApp` | `test-tube/src/runner/app.rs` | a handle, fee denomination, gas adjustment | `new`, `init_account`, `execute*`, `simulate_tx`, `query`, `set_param_set`, `increase_time`, drop |
| runner, messages, accounts | `test-tube/src/runner/mod.rs`, `utils.rs`, `account.rs` | key and fee setting of a signer | conversion of messages |
| `CoreumTestApp`, wrappers | `coreum-test-tube/src` | none | one method per message or query of each chain module |
| bindings, build | `test-tube/src/bindings.rs`, `coreum-test-tube/build.rs` | none | generated declarations, compilation |

**How they interact.** A test calls `BaseApp`, directly or through `CoreumTestApp` and a
module wrapper. An operation of `BaseApp` is a fixed sequence of calls of exported Go
functions: a transaction is BeginBlock, AccountSequence and AccountNumber, Simulate
(when the fee is to be estimated), the sequence again, Execute, EndBlock. Every Go
function loads a copy of the `TestEnv` from the register, works on the application it
points to, and most store the copy back. The only other link between calls is the
application itself. Threads of one test process share the library; usually each
test has an environment of its own.

**What is hard.**

- *Two stores.* What happens in a block is in the finalize state. `EndBlock` finalizes
  the same height a second time, and only that writes it through before `Commit`
  drops it. Queries between blocks go through a context whose finalize state is gone.
- *Two counts.* The next height comes from the register's copy, the application checks
  its own.
- *Locks.* Only four functions take the mutex, and three of them copy the environment
  before they do.
- *Failure.* A Go panic aborts the process; a Rust panic leaves the block open; an Err
  must still end the block.
- *Stale estimates.* `FinalizeBlock` writes a block's begin blockers through to the root
  store, so that an estimate in the block sees them, but it runs with the header of the last
  commit. The check state it runs in also keeps what an earlier simulation has read, until
  the next commit.
- *Numbers.* Seconds, durations and nanoseconds change width and sign on the way; gas and
  fees go through f64.
- *Memory.* Go reads Rust's strings through bare pointers, Rust frees Go's.
- *Types.* A path, a request and a response type are paired by hand, and protobuf bytes do
  not tell what they are.

## The modules

| module | models |
|---|---|
| `ChainApp` | the application, as `main.go` and `setup.go` use it (external): root store, finalize state, what a context still sees |
| `TestTube` | the library and `BaseApp`'s calls into it, by several threads, step by step |
| `TestChain` | the abstract promise: independent chains, one write to a block, success only after commit |
| `TestTubeInvariant`, `TestTube_proofs` | the inductive invariant and the proofs |
| `TxRules` | the terms of a transaction: fee settings, what the application asks (external), the fee `calculate_fee` makes of a simulation |
| `TxFlow` | a transaction from `execute_multiple_raw` to its answer: simulation, signature, gas, balances |
| `Ledger` | the abstract promise of `TxFlow`: every operation one step on the committed store |
| `BlockClock`, `BlockClock_proofs` | block time and its conversions, with proofs |
| `Validators`, `Validators_proofs` | the validators in store order, the proposer of a block, the address and the account of "the first validator", with proofs |
| `RawResult` | the tag in front of answers, both sides, and who owns which string |
| `Wrappers` | the wrappers' methods and the types they are declared with, as data |
| `Messages` | the `Runner` trait, the methods of wrappers, `execute_cosmos_msgs` and the conversions behind it |
| `TestTube_promise` | the proof that `TestTube` without sharing implements `TestChain` |
| `TxFlow_proofs`, `TxFlow_prices` | proofs of `TxFlow`: the state of its stores, and what its fees are worth |
| `Messages_proofs`, `RawResult_proofs` | proofs of the module they are named after |
| `MCTestTube`, `MCTxFlow`, `MCMessages` | instances for TLC |

### TestTube

`mu`, `envCounter`, `envRegister` are the globals of `main.go`; `chain` holds the
applications its entries point to; `tempDirs` counts the node directories; `apps` the
live `BaseApp`s and their owners. Each thread has the operation it is in (`op`), the
exported function (`call`), the next step of it (`at`), the environment (`cur`), its
loaded copy (`env`), the last answer (`answer`), whether the fee is final (`fee`) and
whether the fallible part succeeded (`ok`). `NextCall` is the control of `BaseApp`: which
function follows which, on success and on Err. `acked` and `tainted` are history.

The actions are the accesses the code makes: `LoadEnv`, `Acquire`, `StoreEnv` are shared
by the functions; `MakeEnv`, `Count`, `Publish` are `InitTestEnv`; `Finalize`,
`NewContext`, `CommitBlock` the block functions; `Fund`, `SetParam`, `ReadStore`,
`Simulate`, `Deliver`, `CleanUp` the bodies of the others; `Unwind` a Rust panic between
BeginBlock and EndBlock. A call of the application is one step. Where two threads are in
one application at once without both holding the mutex, and one writes, that is a Go
data race on maps: `DataRace` lets the process abort, and otherwise the calls take
effect in some order. A Go panic sets `crash`, and nothing follows.

An environment used by two threads at once is `tainted`, as is one whose closure
panicked. The code makes no promise about those (its comments call the mutex a "temp
fix for concurrency issue"), and the properties about single environments are silent
on them; `OperationsEnd`, `TypeOK` and the structural half of `IInv` hold regardless.

Abstractions: a store counts the writes of each kind; the number of transactions is the
sequence of the one account that signs in an environment (several signers are in
`TxFlow`); AccountNumber does what AccountSequence does; the functions that only read
are `Query`. Parameter values and coins the application refuses are a
nondeterministic abort, "input".

### TxFlow

One environment, one thread, any number of signers. `saved` is the committed store, `root`
what FinalizeBlock has written through to, `fin` the open block's: balances, sequences, the
fees collected and a load, which is all the blockers change. `last` and `now` are the times of
the last committed header and of the open block, as what they add to the load: gas and the
success of messages depend on the sum of both.

`Execute` begins the block: the blockers' load is in `fin` and in `root`. It
chooses `Estimate` or, for a custom fee, `Sign`; `Deliver` is the Execute of `main.go`, with
everything the application may have against a transaction (`Objections`); `EndBlock` runs the
blockers again and commits. `SimulateTx` is a simulation by its own, for any fee setting.
A simulation reads `root`, at the time `last`, through the check state (external), which is
a cache over the root made at every commit: `peeked` says that a simulation has read through
it since, and then an estimate may find the load from before the block (`Seen`). Gas
adjustments are fractions, prices and gas are small numbers. An answer that does not decode
is an Err of a transaction that was delivered ("undecoded").

`TxRules` has the constants and the operators that `TxFlow` and `Ledger` share. `Ledger` is
what a test may think its operations are: `Ask`, and then one step on the committed store
when the answer comes: `Foretell` a simulation, `Refuse` what would not run, or `Pay` what
is due, once, and run, between one change of the load by the blockers and another. It
knows no open block and no second store, only whether something was foretold since the last
step (`foretold`), which what is due may depend on (`Known`). `Atomic` maps
`TxFlow` onto it: the store is `saved`, its time is `last`, and the operation is the job until
the phase is idle. An abort is the end of the process and no answer: `Ledger` stands still,
and `AbortsHaveGrounds` says what is known of its store then.

`FeeFor` computes as `calculate_fee` does: gas and price become floats, their product is
rounded again, and what comes out is saturated to a u64. `Float` rounds a natural number to
the nearest multiple of its unit in the last place, ties to even: `Mantissa` is 2^53 in the
code and `Ulps` the powers of 2.

### BlockClock

The clock in int64 and uint64: `Half` is 2^63 in the code. `committed` is the time
of the last committed header, which simulations run with; the first block has
none. `ToInt` and `ToUint` are the conversions the code makes implicitly.

### Validators

`root` and `fin` are what the committed store and the open block's hold of the
staking and slashing modules: the validators, the signing infos, and who waits to be
paid out. `Init` is the state after InitTestEnv, which writes the one signing info no
blocker would (`GenesisInfos`). `BeginNewBlock` takes the first validator; without a
signing info for it the process aborts. `CreateValidator` and `Undelegate` are messages
of a transaction; `Blockers` (external) bonds newcomers with enough stake and removes
those paid out, in both finalizations of a block. An operator that has been bonded and
removed does not come back, and stake is either all there or all undelegated. The order of heights and the transactions the application refuses are
`TestTube`'s.

### RawResult

The bytes behind the pointer an exported function returns, and what `from_ptr` makes of
them. base64 and the C string are left out: together they give the bytes back. `heap` has
the strings of one operation: its arguments, which `redefine_as_go_string!` allocates in
Rust and Go reads through bare pointers, and the answer, which `C.CString` allocates and
`CString::from_raw` takes over. Both go when their owner does, on a panic too.

### Wrappers and Messages

`Wrappers` is a table: for every wrapper, each message with the response its method is
declared with, and each query path with the query its types belong to. `Messages` runs it.
One environment, one thread; a message is its type, the sender it names and its coins.

`Call` is what a test may begin: `execute_cosmos_msgs` with a list of CosmosMsgs (`Collect`
converts all or fails on the first, and `todo!()` panics), a method of `fn_execute!` or
`fn_query!`, the written-out methods of `Wasm`, `init_account`. Then `BeginBlock`, `Deliver`
or `Refuse` or `Fund`, `EndBlock`; or `Ask`. `Objections` is what a chain (external) may have
against a transaction here; `Decode` that bytes of one type may or may not decode as another.
CosmosMsgs the library treats alike are one (`Instantiate2`, `Burn`, `Other`).

## The checks

Bounds are constants named as such. `MaxEnvs` and `MaxHeight` bound `TestTube`: height
3 leaves two operations with a block after the first one, in any order or at once, so
that every operation meets the state another one left; two threads are enough for every
pairwise interleaving, and two environments for confusing them. Conversions treat messages
one by one and coins by comparing two, so that two of each show what order and failure do.

| run | question | instance |
|---|---|---|
| `TestTube_exclusive` | is an environment safe in the hands of its thread, whatever others do, and does the library implement `TestChain`? | 2 threads, 2 environments, height 3, all operations, symmetric |
| `TestTube_shared` | and when it is handed from thread to thread, or used by two? the inductive invariant; does every operation return, and why (each step counts down, and the mutex comes free)? | 2 threads, 1 environment, height 3 |
| `TestTube_block` (violated) | "... happens in a block and end block properly, no matter it suceeds or fails" | 1 thread |
| `TestTube_drop` (violated) | "Cleanup the test environment when the app is dropped." | 1 thread |
| `TxFlow_fees` | what do fees cost, what does an Err leave, what can abort, and is an operation one step to its caller? | 2 signers, 3 blocks (an account, and two operations, the second of which meets what the first one left), adjustments above, at and below 1, loads of the store and of the time, of which a margin covers one but not both, floats of 5 bits, a u64 of 6 |
| `TxFlow_onemsg` (violated) | "since this tx contains exactly 1 msg" | 2 signers |
| `BlockClock_clock` | is the clock the time asked for? | 6-bit integers, 2 nanoseconds a second, clock runs past the signed range |
| `BlockClock_overflow` (violated) | "Increase the time of the blockchain by the given number of seconds." | increases over the range of a Duration |
| `Validators_proposer` | which validators stop the environment, and is the address read the next proposer's? | 5 addresses, two before the genesis one, one of the two and one of the later ones with enough stake; 5 blocks: created, retired, removed, and one more |
| `Validators_signer` (violated) | "Get the first validator signing account" | 3 addresses |
| `RawResult_codec` | does Rust hear what Go said, and who frees what? | 4 byte values, up to 3 bytes, arguments with and without a NUL |
| `Messages_wrappers` | what is delivered of a call, what does the answer tell, as what type is it read? | every method of every wrapper, 2 symmetric signers, 2 denominations, amounts 0 and 1, up to 2 coins and 2 messages, 2 blocks |

Deadlock is not checked: tests end, processes abort, and bounds stop the models.

**The violated runs** are disagreements of the code with its own comments, with the lines in
`PROJECT.json`: a refused transaction aborts the process inside its block; a dropped
`BaseApp` stays registered and its directory stays on disk, since `NodeHome` is never
assigned; `execute_multiple` answers with its first response only; an increase of more
than some 9.2e9 seconds moves the clock by another amount; the signing account of the first
validator is the genesis validator's also when another one comes first. (One more needs no run: the
documentation of `RawResult` speaks of a tag of 4 bytes, `result.rs:141`, and `markOk` writes one.)

**Fairness.** `FairSpec` assumes weak fairness of every thread's next step, as the
operating system and the Go scheduler run every thread, and strong fairness of taking
the mutex: a Go mutex hands over to the longest waiter once it has starved for a
millisecond. Nothing is assumed of the test, which need not begin another operation.

## The proofs

`TestTube_proofs` holds for any finite set of threads and any bounds, with sharing or
without. It assumes only the named assumptions of `TestTube`.

1. `Structure` (types, domains, where each thread is, who holds the mutex, how handles
   are numbered) is inductive on its own: `StructureAlways`, from which `TypeCorrect`
   and `HandlesAreUnique`. The mutex is what makes it so: a thread between `Count` and
   `Publish` holds it, and so no other one is.
2. `IInv` adds `Serial`: an environment that is not tainted has at most one user; with
   none it is `Quiet` (no block open, register and chain agree, everything that
   succeeded committed); with one it is in the `Phase` of the user's step. `Phase` is needed
   because the properties only speak about the state between operations: it says for
   every step in between what the finalize state, the root, the committed
   store, the register and the loaded copy hold. `InvariantAlways` proves it inductive.
3. `SerialUseIsSafe`, `BlocksAreClosed`, `AckedWritesAreCommitted` and `QueriesAreFresh`
   follow from it.
4. Of the liveness of operations, all but the fairness is proved. `Ahead` counts the steps an
   operation may have before it, by the call it is in, whether its fee is final, and the
   step of the call: `OperationsDoAdvance` shows that a step of anybody leaves an operation
   where it is or makes this number, which is never above 35, smaller (`CallsRunOut` and
   `ReturnAdvances` for the calls, `GoToAdvances` for the steps of a call). `MutexIsFreed`,
   from `Structure`, shows that who waits for the mutex waits for a thread that waits for
   nobody. `OperationsEnd` is what `FairSpec` makes of the two.

`TestTube_promise` proves `LibraryKeepsPromise`: without sharing, every step is one of
`TestChain` or a stutter there. `IInv` alone does not do: it says nothing of the environment
a panic has left behind. `Unshared` adds that an environment is used by nobody but its
owner (`Owned`), that such a block is `Stuck`, its register one height ahead of what the
application will finalize, so that nothing is ever committed there again, and that handles
are `Bounded`. Then `Publish` is the abstract Create, `CommitBlock` an empty block or a
write, and the last step of an operation its report.

`BlockClock_proofs` proves, for every width, that the types hold when increases overflow too
(`ClockTyped`), that converting to int64 and back gives a uint64 again
(`TimestampIsBlockTime`) and, when no increase overflows a Duration (`NoOverflow`), that the
clock is the time asked for (`ClockKeepsTime`) and that block times never decrease
(`BlocksAreOrdered`).

`Validators_proofs` holds for every set of addresses of which each part has a least one
(`AddressAssumption`). `IInv` adds to the types that the committed store has the signing
infos of all validators with enough stake, in open blocks too, since `EndBlock` alone
changes it: from there `BlocksFindTheirProposer` and `SigningInfosAreComplete`. `Told`
relates the last answer to the store it was read from: `AddressesPropose`.

`TxFlow_proofs` holds for any signers, settings, requests, blockers and times, whatever floats
there are: rounding a natural number gives one (`FloatIsNat`), which is all it uses of
them. `IInv` adds `Progress`: by the phase of an operation, whether the open store is the
committed one but for the load (`Untouched`) or has one transaction of the job on top
(`Delivered`), and that the root is the committed store but for the load, and all of it when
there is no block. From there `FeeOnce` and `ErrLeavesNoTrace`.

`TransactionsAreAtomic`, at the end of that module, is the refinement of `Ledger`. It needs
more than `Progress`: `Terms` says that the fee of an operation under way is the one due
(`DueOn`), that what was estimated would run (`RunsOn`), both for a load that the check state
may have, and that once delivered the block holds exactly what `Pay` makes of the committed
store before the blockers of the end (`Paid`). `EstimateChecks` is the step that carries it:
with an account, a simulation with the sequence of the open block, run on the root, fails for
the funds or the messages only. `SameLoads` says that the loads of the check state are those
`Ledger` knows. Then `InitAccount` is Open, `Execute` and `SimulateTx` are Ask, the `Estimate`
of a simulation is Foretell, `EndBlock` is Refuse or Pay, and the rest stutters.

`TxFlow_prices` reasons about the floats. A number below `Mantissa` is one (`FloatExact`),
rounding loses less than one part in `Mantissa` (`FloatPrecise`), and with binary floats it
never goes below a float (`FloatAbove`). So an amount pays for its gas limit
(`AmountPays`), and a limit suffices for the gas simulated (`LimitSuffices`). The invariant
`Priced` adds to `Terms` the sequence signed with, and that what was delivered had gas
enough. `FeesCoverGas` needs no hypothesis: the block's gas limit, below
`Mantissa`, bounds the gas of what is delivered. `EstimatesForesee` needs that floats are
binary (`Binary`) and gas is below `Mantissa` and fits a u64 (`GasFits`), as 2^53 and any
gas a simulation can report in this chain do; beyond that a limit may be rounded to less
than the gas it was estimated from. When the time adds the same to both loads and no earlier
simulation has kept another one, `Terms` leaves one load that the estimate can have found,
the open block's. `AbortsAreForeseeable` joins `Terms` and `Priced` in `Grounds`: what
the application has against a transaction in the open block is there in the committed
store, the load of the block and the fee due, and the sequence is always the signer's.

`Messages_proofs` holds for any number of messages, coins and signers. Its `IInv` relates
the messages of the transaction to those the test gave (`Matches`) and the outcome to the
phase (`Phases`): `MessagesAllOrNothing`, `AnswersTell`. `Declared` adds that the type a
wrapper's job wants is what the chain answers its message or path with, which the tables of
`Wrappers` say of every method but one: `WrappersAreTyped`. `CoinsInAnyOrder` needs that sorting
by denomination exists and does what it says, for lists of any length. `SortedBy` is the stable
permutation; that there is one is shown by placing coins one after the other, each
time the first of the least left (`LeastNat`, `FirstLeft`, `NextPlace`, `AllPlaces`). So the
coins of a converted message are those given, in order (`CoinsOrdered`), and `CoinsKept`
carries this from the call to the chain's refusal.

`RawResult_proofs` holds for answers of any length. Its `IInv` says what is on the wire while
an answer is under way (`OnWire`) and what is allocated by then (`Allocated`):
`AnswersAreHeard`, `ArgumentsLive`, `StringsAreFreed`.

Only model-checked: `OperationsEnd`, since TLAPS does not do fairness; its countdown and the
part of the mutex are proved, as said above. Every other property of a passing run is a
theorem. The violated properties need no proof.

## Not modelled

The application's modules (bank, staking, wasm, ...), which are not in this repository:
what a message does is a count, what blockers do a number. `setupValidator`: it runs when
no validator is left, and the genesis validator stays, since `SetupApp` drops the only key
that could undelegate from it. Jailing and partial undelegation, which remove no validator.
The parameter registry, filled once and only read. Denominations of fees: every fee is
charged in `fee_denom`. The default label of `Wasm::instantiate`, and what errors say and how they
compare. The conversion of a `TxCommitResponse`, for a runner that is not in this repository. The
build.

What blockers do the second time they run in a block is the application's: in `TxFlow` they
may do anything to the load in either run. What messages make of the missing time of the first
block is the application's too; there, a time is what it adds to the load. Of what a simulation has
read before a block only the load may be stale: balances and sequences do not change between
the last commit and the simulation in the block.

## Plan

Done, in this order: the core (`ChainApp`, `TestTube`, `TestChain`), its invariant and proofs;
`TxFlow`, `BlockClock` and `Validators`, `RawResult`; the wrappers and conversions; floats and
memory; the proof that the library implements `TestChain`, and proofs of `TxFlow`,
`Messages` and `RawResult`; the order of coins, the countdown of operations, and `Ledger`
with the proof that `TxFlow` implements it.

Left: the composition of `Messages` with `TxFlow` (the fee of a transaction of converted
messages), which would join two models that meet in `execute_multiple_raw` only.
