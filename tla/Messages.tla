------------------------------- MODULE Messages -------------------------------
(***************************************************************************)
(* From what a test asks for to a transaction or a query, and from the       *)
(* answer to what the test gets: the Runner trait (test-tube/src/runner/     *)
(* mod.rs, utils.rs), the methods the macros generate, the Wasm wrapper, and *)
(* the coins of init_account.                                                *)
(*                                                                         *)
(* One environment, used by one thread.  What happens inside a transaction   *)
(* is TxFlow's subject; here it is accepted or refused as a whole.  A message *)
(* is its type, the sender it names and its coins.                            *)
(***************************************************************************)
EXTENDS Integers, Sequences, SequencesExt, Wrappers

CONSTANTS
  Signers,      \* the addresses of accounts
  Denoms,       \* denominations, ordered as strings are
  Amounts,      \* amounts of coins
  MaxCoins,     \* bound: the coins given at once
  MaxMsgs,      \* bound: the messages given at once
  MaxBlocks     \* bound: no operation that needs a block starts after this many

ASSUME DenomsAssumption == Denoms \subseteq Nat
ASSUME AmountsAssumption == Amounts \subseteq Nat
ASSUME BoundsAssumption == {MaxCoins, MaxMsgs, MaxBlocks} \subseteq Nat

Coin == [denom : Denoms, amount : Amounts]
Funds == SeqOf(Coin, MaxCoins)

Type(module, name) == [module |-> module, name |-> name]
NoType == Type("none", "none")

\* An Any as the chain reads it.
Message(type, from, coins) == [type |-> type, from |-> from, coins |-> coins]

\* BaseApp's answers to a test: Ok, the errors of RunnerError that arise here, or
\* a Rust panic, which ends the test but not the process.
Errors == {"EncodeError", "DecodeError", "QueryError", "ExecuteError"}
Answers == {"ok", "panic"} \union Errors

VARIABLES
  blocks,       \* blocks begun
  open,         \* is a block open?
  phase,        \* where the operation is
  job,          \* the operation
  msgs,         \* the messages of its transaction
  delivered,    \* those the chain has delivered
  answer,       \* the type of the chain's answer
  outcome,      \* what the test gets
  objection     \* why the chain refused

vars == <<blocks, open, phase, job, msgs, delivered, answer, outcome, objection>>

\* op: which way the operation takes; at: the blocks before it; given: the messages
\* as the test gave them; coins: those of a new account; fee: given or estimated;
\* want: the type its answer is decoded as.
NoJob == [op |-> "none"]
Job(op, s, fee, given, want) ==
  [op |-> op, signer |-> s, fee |-> fee, given |-> given, want |-> want, at |-> blocks]

Init ==
  /\ blocks = 0 /\ open = FALSE /\ phase = "idle" /\ job = NoJob
  /\ msgs = <<>> /\ delivered = <<>>
  /\ answer = NoType /\ outcome = "none" /\ objection = "none"

-------------------------------------------------------------------------------
(* Coins. *)

\* Mutant: the coins as they were given.
CoinsAsGiven(coins) == coins

\* sort_by: where each coin of the result was, a coin before those of its denomination
\* that were after it.
SortedBy(coins) ==
  CHOOSE place \in Bijection(DOMAIN coins, DOMAIN coins) :
    \A i, j \in DOMAIN coins : i < j =>
      \/ coins[place[i]].denom < coins[place[j]].denom
      \/ coins[place[i]].denom = coins[place[j]].denom /\ place[i] < place[j]

\* coins_to_proto, and the first lines of init_account: ordered by denomination.
coins_to_proto(coins) == [i \in DOMAIN coins |-> coins[SortedBy(coins)[i]]]

\* The chain, outside src/: coins are positive and strictly ascending.
ValidCoins(coins) ==
  /\ \A i \in DOMAIN coins : coins[i].amount > 0
  /\ \A i, j \in DOMAIN coins : i < j => coins[i].denom < coins[j].denom

-------------------------------------------------------------------------------
(* CosmosMsgs: utils.rs and execute_cosmos_msgs. *)

\* The names of the enums of cosmwasm_std.  Instantiate2 stands for every WasmMsg
\* without a case of its own, Burn for every other BankMsg, Other for every other
\* CosmosMsg.
BankMsgs == {"Send", "Burn"}
WasmMsgs == {"Execute", "Instantiate", "Migrate", "UpdateAdmin", "ClearAdmin",
             "Instantiate2"}
Funded == {"Send", "Execute", "Instantiate"}

\* from: the sender in the bytes of an Any.
CosmosMsg ==
  [kind : Funded, coins : Funds, from : {"none"}]
    \union [kind : (BankMsgs \union WasmMsgs \union {"Other"}) \ Funded,
            coins : {<<>>}, from : {"none"}]
    \union [kind : {"Any"}, coins : {<<>>}, from : Signers]

\* What converting one message comes to: an Any, an Err, or the panic of todo!().
Converted(any) == [answer |-> "ok", any |-> any]
Failed(why) == [answer |-> why, any |-> Message(NoType, "none", <<>>)]

bank_msg_to_any(msg, s) ==
  IF msg.kind = "Send"
    THEN Converted(Message(Type("bank", "Send"), s, coins_to_proto(msg.coins)))
    ELSE Failed("panic")

WasmTypes ==
  [Execute |-> "ExecuteContract", Instantiate |-> "InstantiateContract",
   Migrate |-> "MigrateContract", UpdateAdmin |-> "UpdateAdmin",
   ClearAdmin |-> "ClearAdmin"]

wasm_msg_to_any(msg, s) ==
  IF msg.kind \in DOMAIN WasmTypes
    THEN Converted(Message(Type("wasm", WasmTypes[msg.kind]), s, coins_to_proto(msg.coins)))
    ELSE Failed("ExecuteError")

\* An Any goes through as it is, whoever it names as its sender.
ToAny(msg, s) ==
  CASE msg.kind \in BankMsgs -> bank_msg_to_any(msg, s)
    [] msg.kind \in WasmMsgs -> wasm_msg_to_any(msg, s)
    [] msg.kind = "Any"      -> Converted(Message(Type("any", "any"), msg.from, msg.coins))
    [] OTHER                 -> Failed("panic")

\* Mutant: messages that cannot be converted are left out.
CollectSupported(given, s) ==
  LET supported == SelectSeq(given, LAMBDA m : ToAny(m, s).answer = "ok")
  IN [answer |-> "ok", msgs |-> [i \in DOMAIN supported |-> ToAny(supported[i], s).any]]

\* collect: all messages, or the first failure.
Collect(given, s) ==
  LET failed == {i \in DOMAIN given : ToAny(given[i], s).answer # "ok"}
      first == CHOOSE i \in failed : \A j \in failed : i <= j
  IN IF failed = {}
       THEN [answer |-> "ok", msgs |-> [i \in DOMAIN given |-> ToAny(given[i], s).any]]
       ELSE [answer |-> ToAny(given[first], s).answer, msgs |-> <<>>]

-------------------------------------------------------------------------------
(* The calls of a test.  Each ends at once, before there is a block, when what  *)
(* the test gave cannot be encoded.                                            *)

Fees == {"auto", "custom"}
Wanted == {Type("bank", "Send"), Type("wasm", "ExecuteContract")}

\* An operation starts: with a block or a query next, or at its end.
Start(newJob, next, tx, result) ==
  /\ job' = newJob
  /\ phase' = IF result = "ok" THEN next ELSE "idle"
  /\ msgs' = tx
  /\ outcome' = IF result = "ok" THEN "none" ELSE result
  /\ UNCHANGED <<delivered, answer, objection>>

\* The test has its answer and may go on; a panic has ended it.
Return ==
  /\ phase = "idle" /\ job # NoJob /\ outcome # "panic"
  /\ job' = NoJob /\ msgs' = <<>> /\ delivered' = <<>>
  /\ answer' = NoType /\ outcome' = "none" /\ objection' = "none"
  /\ UNCHANGED <<blocks, open, phase>>

\* Mutant: the messages are converted inside the block.
ExecuteCosmosInBlock(s, fee, given, want) ==
  LET c == Collect(given, s)
  IN /\ Start(Job("cosmos", s, fee, given, want), "run", c.msgs, c.answer)
     /\ blocks < MaxBlocks /\ blocks' = blocks + 1
     /\ open' = (c.answer \in {"ok", "panic"})

\* execute_cosmos_msgs, which the test tells how to decode the answer.
ExecuteCosmosMsgs(s, fee, given, want) ==
  LET c == Collect(given, s)
  IN /\ Start(Job("cosmos", s, fee, given, want), "begin", c.msgs, c.answer)
     /\ UNCHANGED <<blocks, open>>

\* A method of fn_execute!: the test's message as it is, by Runner::execute.
FnExecute(s, fee, module, name, from, coins) ==
  LET msg == Message(Type(module, name), from, coins)
      want == Type(module, Generated[module].execute[name])
  IN /\ Start(Job("method", s, fee, <<msg>>, want), "begin", <<msg>>, "ok")
     /\ UNCHANGED <<blocks, open>>

\* Wasm::store_code, instantiate and execute: the signer is the sender, the funds
\* go as they are, and the contract's own message must encode as JSON.
WasmExecute(s, fee, name, coins, json) ==
  LET msg == Message(Type("wasm", name), s, coins)
      want == Type("wasm", Wasm.execute[name])
  IN /\ name = "StoreCode" => coins = <<>> /\ json
     /\ Start(Job("method", s, fee, <<msg>>, want), "begin", <<msg>>,
              IF json THEN "ok" ELSE "EncodeError")
     /\ UNCHANGED <<blocks, open>>

\* init_account
InitAccount(coins) ==
  /\ Start([op |-> "account", coins |-> coins, at |-> blocks], "begin", <<>>, "ok")
  /\ UNCHANGED <<blocks, open>>

\* A method of fn_query!, by Runner::query.
FnQuery(module, path) ==
  LET want == Type(module, Generated[module].query[path])
  IN /\ Start([op |-> "query", path |-> Type(module, path), want |-> want, at |-> blocks],
              "ask", <<>>, "ok")
     /\ UNCHANGED <<blocks, open>>

\* Wasm::query: a JSON query in the query of the smart contract.
WasmQuery(json) ==
  LET smart == Type("wasm", "SmartContractState")
  IN /\ Start([op |-> "smart", path |-> smart, want |-> smart, at |-> blocks],
              "ask", <<>>, IF json THEN "ok" ELSE "EncodeError")
     /\ UNCHANGED <<blocks, open>>

-------------------------------------------------------------------------------
(* Transactions. *)

BeginBlock ==
  /\ phase = "begin" /\ blocks < MaxBlocks
  /\ open' = TRUE /\ blocks' = blocks + 1
  /\ phase' = "run"
  /\ UNCHANGED <<job, msgs, delivered, answer, outcome, objection>>

\* The chain, outside src/: it refuses a transaction without messages, a message not
\* from the one signer, coins that are not valid, no coins to send, and a
\* message that fails.
Objections(tx, s) ==
  {why \in {"empty", "sender", "coins", "message"} :
     CASE why = "empty"   -> tx = <<>>
       [] why = "sender"  -> \E i \in DOMAIN tx : tx[i].from # s
       [] why = "coins"   -> \E i \in DOMAIN tx :
                                \/ ~ValidCoins(tx[i].coins)
                                \/ tx[i].type = Type("bank", "Send") /\ tx[i].coins = <<>>
       [] why = "message" -> tx # <<>>}

TypeOfAnswer(type) ==
  IF type.module \in DOMAIN Generated
    THEN Type(type.module, MsgAnswer(type.module, type.name)) ELSE type

\* Protobuf has no type in its bytes: those of another type may decode.
Decode(type, want) == IF type = want THEN {"ok"} ELSE {"ok", "DecodeError"}

\* The response of the first message is the answer.
Deliver ==
  /\ phase = "run" /\ job.op # "account"
  /\ Objections(msgs, job.signer) \subseteq {"message"}
  /\ delivered' = msgs
  /\ answer' = TypeOfAnswer(msgs[1].type)
  /\ outcome' \in Decode(answer', job.want)
  /\ phase' = "end"
  /\ UNCHANGED <<blocks, open, job, msgs, objection>>

\* With a fee to estimate the simulation finds out and answers with an Err, unless a
\* message fails in the block only; Execute aborts the process.
Refuse ==
  /\ phase = "run" /\ job.op # "account"
  /\ objection' \in Objections(msgs, job.signer)
  /\ \/ /\ job.fee = "auto"
        /\ outcome' = "ExecuteError" /\ phase' = "end"
     \/ /\ job.fee = "custom" \/ objection' = "message"
        /\ outcome' = outcome /\ phase' = "aborted"
  /\ UNCHANGED <<blocks, open, job, msgs, delivered, answer>>

\* InitAccount of main.go mints the coins or aborts the process.
Fund ==
  /\ phase = "run" /\ job.op = "account"
  /\ IF ValidCoins(coins_to_proto(job.coins))
       THEN outcome' = "ok" /\ phase' = "end" /\ objection' = objection
       ELSE outcome' = outcome /\ phase' = "aborted" /\ objection' = "coins"
  /\ UNCHANGED <<blocks, open, job, msgs, delivered, answer>>

EndBlock ==
  /\ phase = "end"
  /\ open' = FALSE /\ phase' = "idle"
  /\ UNCHANGED <<blocks, job, msgs, delivered, answer, outcome, objection>>

\* query: refused, or answered.  The contract answers JSON, which may not be what the
\* test expects either.
Ask ==
  /\ phase = "ask"
  /\ \/ /\ outcome' = "QueryError" /\ answer' = answer
     \/ /\ answer' = Type(job.path.module, QueryAnswer(job.path.name))
        /\ outcome' \in Decode(answer', job.want)
                          \union (IF job.op = "smart" THEN {"DecodeError"} ELSE {})
  /\ phase' = "idle"
  /\ UNCHANGED <<blocks, open, job, msgs, delivered, objection>>

\* One operation at a time.
Call ==
  /\ job = NoJob
  /\ \/ \E s \in Signers, fee \in Fees :
          \/ \E given \in SeqOf(CosmosMsg, MaxMsgs), want \in Wanted :
               ExecuteCosmosMsgs(s, fee, given, want)
          \/ \E module \in DOMAIN Generated :
               \E name \in DOMAIN Generated[module].execute :
                 \E from \in Signers, coins \in Funds :
                   FnExecute(s, fee, module, name, from, coins)
          \/ \E name \in DOMAIN Wasm.execute, coins \in Funds, json \in BOOLEAN :
               WasmExecute(s, fee, name, coins, json)
     \/ \E coins \in Funds : InitAccount(coins)
     \/ \E module \in DOMAIN Generated :
          \E path \in DOMAIN Generated[module].query : FnQuery(module, path)
     \/ \E json \in BOOLEAN : WasmQuery(json)

Next == Call \/ Return \/ BeginBlock \/ Deliver \/ Refuse \/ Fund \/ EndBlock \/ Ask

Spec == Init /\ [][Next]_vars

-------------------------------------------------------------------------------
Sent == job.op \in {"cosmos", "method"}

\* What is delivered of an operation is nothing, or every message the test gave, in
\* its order and from the signer: messages are converted one by one, and one that
\* cannot be converted, or that the chain refuses, takes the others with it.
AllOrNothing ==
  delivered # <<>> =>
    /\ DOMAIN delivered = DOMAIN job.given
    /\ \A i \in DOMAIN delivered :
         /\ delivered[i].from = job.signer
         /\ delivered[i].type =
              IF job.op = "method" THEN job.given[i].type
                                   ELSE ToAny(job.given[i], job.signer).any.type

\* Between operations, after a panic of a conversion too, no block is open, and an
\* answer tells what became of the messages: Ok or a DecodeError that they were
\* delivered, an EncodeError or a panic that there was not even a block.
AnswersTellFate ==
  phase = "idle" =>
    /\ ~open
    /\ Sent => (outcome \in {"ok", "DecodeError"} <=> delivered # <<>>)
    /\ outcome \in {"EncodeError", "panic"} => blocks = job.at

\* No order makes these coins valid.
Refusable(coins) ==
  \/ \E i \in DOMAIN coins : coins[i].amount = 0
  \/ \E i, j \in DOMAIN coins : i # j /\ coins[i].denom = coins[j].denom

\* The coins delivered are the coins given, and coins that are valid in some order are
\* not refused in another one by execute_cosmos_msgs and init_account, which put them
\* in order.  (The methods of the wrappers send them as they are.)
CoinOrderIrrelevant ==
  /\ \A i \in DOMAIN delivered : ToSet(delivered[i].coins) = ToSet(job.given[i].coins)
  /\ objection = "coins" =>
       CASE job.op = "account" -> Refusable(job.coins)
         [] job.op = "cosmos"  ->
              \E i \in DOMAIN job.given :
                \/ Refusable(job.given[i].coins)
                \/ job.given[i].kind = "Send" /\ job.given[i].coins = <<>>
         [] OTHER -> TRUE

\* What a method of a wrapper answers Ok with is what the chain answered, not the bytes
\* of one type read as another, but for query_burnt_nfts_in_class.
AnswersAreTyped ==
  outcome = "ok" /\ job.op \in {"method", "query", "smart"} =>
    \/ answer = job.want
    \/ job.op = "query" /\ job.path = Type("assetnft", "BurntNFTsInClass")
===============================================================================
