--------------------------- MODULE Messages_proofs ---------------------------
(***************************************************************************)
(* Proofs about Messages, for any signers, coins and numbers of messages:     *)
(* an operation delivers all its messages or none, and its answer tells        *)
(* which.                                                                    *)
(***************************************************************************)
EXTENDS Messages, FiniteSetTheorems, TLAPS

\* Converting one message ends in one of three ways.
LEMMA ToAnyAnswers ==
  ASSUME NEW msg, NEW s
  PROVE  ToAny(msg, s).answer \in {"ok", "panic", "ExecuteError"}
<1>1. bank_msg_to_any(msg, s).answer \in {"ok", "panic"}
  BY DEF bank_msg_to_any, Converted, Failed
<1>2. wasm_msg_to_any(msg, s).answer \in {"ok", "ExecuteError"}
  BY DEF wasm_msg_to_any, Converted, Failed
<1>3. Converted(Message(Type("any", "any"), msg.from, msg.coins)).answer = "ok"
  BY DEF Converted
<1>4. Failed("panic").answer = "panic"
  BY DEF Failed
<1> QED BY <1>1, <1>2, <1>3, <1>4 DEF ToAny

\* A set of indices that is not empty has a first one.
LEMMA FirstIndex ==
  ASSUME NEW n \in Nat, NEW S \in SUBSET (1 .. n), S # {}
  PROVE  \E i \in S : \A j \in S : i <= j
<1>1. S \subseteq Nat
  OBVIOUS
<1>2. PICK i \in S : \A j \in S : ~ (<<j, i>> \in OpToRel(<, Nat))
  BY <1>1, NatLessThanWellFounded, WFMin
<1>3. \A j \in S : ~ (j < i)
  BY <1>1, <1>2 DEF OpToRel
<1> QED BY <1>1, <1>3

\* All messages are converted, one by one and in their order, or the first failure
\* is the answer.
LEMMA CollectAll ==
  ASSUME NEW given \in Seq(CosmosMsg), NEW s
  PROVE  /\ Collect(given, s).answer \in {"ok", "panic", "ExecuteError"}
         /\ Collect(given, s).answer = "ok" =>
              Collect(given, s).msgs = [i \in DOMAIN given |-> ToAny(given[i], s).any]
<1> DEFINE failed == {i \in DOMAIN given : ToAny(given[i], s).answer # "ok"}
           first == CHOOSE i \in failed : \A j \in failed : i <= j
<1>1. CASE failed = {}
  BY <1>1 DEF Collect
<1>2. CASE failed # {}
  <2>1. failed \in SUBSET (1 .. Len(given)) /\ Len(given) \in Nat
    OBVIOUS
  <2>2. \E i \in failed : \A j \in failed : i <= j
    BY <1>2, <2>1, FirstIndex
  <2>3. first \in failed
    BY <2>2
  <2>4. ToAny(given[first], s).answer \in {"panic", "ExecuteError"}
    BY <2>3, ToAnyAnswers
  <2>5. Collect(given, s).answer = ToAny(given[first], s).answer
    BY <1>2 DEF Collect
  <2> QED BY <2>4, <2>5
<1> QED BY <1>1, <1>2

-------------------------------------------------------------------------------
\* The messages of a transaction are those the test gave, each with its type.
Matches(tx) ==
  /\ DOMAIN tx = DOMAIN job.given
  /\ \A i \in DOMAIN tx :
       tx[i].type = IF job.op = "method" THEN job.given[i].type
                                         ELSE ToAny(job.given[i], job.signer).any.type

\* What an answer says at its operation's end, as AnswersTellFate does.
Telling == Sent => (outcome \in {"ok", "DecodeError"} <=> delivered # <<>>)

\* Where an operation is tells whether a block is open and what has been delivered.
Phases ==
  /\ phase \in {"idle", "begin", "ask", "run", "end", "aborted"}
  /\ phase = "idle" => /\ ~open /\ Telling
                       /\ outcome \in {"EncodeError", "panic"} => blocks = job.at
                       /\ job = NoJob => delivered = <<>> /\ outcome = "none"
  /\ phase = "begin" => ~open /\ outcome = "none" /\ delivered = <<>>
  /\ phase = "ask" => ~open /\ outcome = "none" /\ delivered = <<>> /\ ~Sent
  /\ phase = "run" => open /\ outcome = "none" /\ delivered = <<>>
  /\ phase = "end" => open /\ Telling /\ outcome \notin {"EncodeError", "panic"}
  /\ phase = "aborted" => delivered = <<>>

\* The inductive invariant: AllOrNothing needs that the messages of a transaction on its
\* way match those given.
IInv ==
  /\ phase # "idle" => job # NoJob
  /\ phase \in {"begin", "run"} /\ Sent => Matches(msgs)
  /\ phase \in {"begin", "run", "end"} => job.op \in {"cosmos", "method", "account"}
  /\ Phases
  /\ delivered # <<>> => Sent
  /\ AllOrNothing

LEMMA InitIInv == Init => IInv
  BY DEF Init, IInv, Phases, Telling, Sent, NoJob, AllOrNothing

\* A job is not NoJob.
LEMMA JobIsOne ==
  ASSUME NEW op \in {"cosmos", "method"}, NEW s, NEW fee, NEW given, NEW want
  PROVE  /\ Job(op, s, fee, given, want) # NoJob
         /\ Job(op, s, fee, given, want).op = op
         /\ Job(op, s, fee, given, want).given = given
         /\ Job(op, s, fee, given, want).signer = s
         /\ Job(op, s, fee, given, want).at = blocks
<1>1. Job(op, s, fee, given, want).op = op /\ NoJob.op = "none"
  BY DEF Job, NoJob
<1> QED BY <1>1 DEF Job

\* An operation that sends messages starts with all of them, or ends where it is.
LEMMA SendStarts ==
  ASSUME IInv, job = NoJob, NEW op \in {"cosmos", "method"}, NEW s, NEW fee, NEW given,
         NEW want, NEW tx, NEW result \in {"ok", "panic", "ExecuteError", "EncodeError"},
         Start(Job(op, s, fee, given, want), "begin", tx, result),
         UNCHANGED <<blocks, open>>,
         result = "ok" =>
           /\ DOMAIN tx = DOMAIN given
           /\ \A i \in DOMAIN tx :
                tx[i].type = IF op = "method" THEN given[i].type
                                              ELSE ToAny(given[i], s).any.type
  PROVE  IInv'
<1>1. /\ phase = "idle" /\ delivered = <<>> /\ ~open
      /\ delivered' = <<>> /\ ~open' /\ blocks' = blocks
  BY DEF IInv, Phases, Start
<1>2. /\ job' # NoJob /\ job'.op = op /\ job'.given = given /\ job'.signer = s
      /\ job'.at = blocks
  BY JobIsOne DEF Start
<1>3. /\ phase' = IF result = "ok" THEN "begin" ELSE "idle"
      /\ outcome' = IF result = "ok" THEN "none" ELSE result
      /\ msgs' = tx
  BY DEF Start
<1>4. CASE result = "ok"
  <2>1. phase' = "begin" /\ outcome' = "none"
    BY <1>3, <1>4
  <2>2. Phases'
    BY <1>1, <2>1 DEF Phases
  <2>3. Matches(msgs)'
    BY <1>2, <1>3, <1>4 DEF Matches
  <2>4. AllOrNothing'
    BY <1>1 DEF AllOrNothing
  <2> QED BY <1>1, <1>2, <2>1, <2>2, <2>3, <2>4 DEF IInv
<1>5. CASE result # "ok"
  <2>1. phase' = "idle" /\ outcome' \in {"panic", "ExecuteError", "EncodeError"}
    BY <1>3, <1>5
  <2>2. Telling'
    BY <1>1, <2>1 DEF Telling
  <2>3. Phases'
    BY <1>1, <1>2, <2>1, <2>2 DEF Phases
  <2>4. AllOrNothing'
    BY <1>1 DEF AllOrNothing
  <2> QED BY <1>1, <1>2, <2>1, <2>3, <2>4 DEF IInv
<1> QED BY <1>4, <1>5

\* So does one that sends none.
LEMMA OtherStarts ==
  ASSUME IInv, job = NoJob, NEW newJob, newJob.op \in {"account", "query", "smart"},
         newJob.at = blocks,
         NEW next \in {"begin", "ask"}, newJob.op = "account" <=> next = "begin",
         NEW result \in {"ok", "EncodeError"},
         Start(newJob, next, <<>>, result), UNCHANGED <<blocks, open>>
  PROVE  IInv'
<1>1. /\ phase = "idle" /\ delivered = <<>> /\ ~open
      /\ delivered' = <<>> /\ ~open' /\ blocks' = blocks /\ job' = newJob
  BY DEF IInv, Phases, Start
<1>2. job' # NoJob /\ ~Sent'
  BY <1>1 DEF NoJob, Sent
<1>3. /\ phase' = IF result = "ok" THEN next ELSE "idle"
      /\ outcome' = IF result = "ok" THEN "none" ELSE result
  BY DEF Start
<1>4. Phases'
  <2>1. CASE result = "ok" /\ next = "begin"
    BY <1>1, <1>3, <2>1 DEF Phases
  <2>2. CASE result = "ok" /\ next = "ask"
    BY <1>1, <1>2, <1>3, <2>2 DEF Phases
  <2>3. CASE result = "EncodeError"
    BY <1>1, <1>2, <1>3, <2>3 DEF Phases, Telling
  <2> QED BY <2>1, <2>2, <2>3
<1>5. AllOrNothing'
  BY <1>1 DEF AllOrNothing
<1>6. phase' = "begin" => newJob.op = "account"
  BY <1>3
<1>7. phase' \in {"begin", "ask", "idle"}
  BY <1>3
<1> QED BY <1>1, <1>2, <1>4, <1>5, <1>6, <1>7 DEF IInv

\* A test's call, whatever it asks for.
LEMMA CallKeeps == IInv /\ Call => IInv'
<1> SUFFICES ASSUME IInv, Call PROVE IInv'
  OBVIOUS
<1>1. job = NoJob
  BY DEF Call
<1>2. ASSUME NEW s, NEW fee, NEW given \in SeqOf(CosmosMsg, MaxMsgs), NEW want,
             ExecuteCosmosMsgs(s, fee, given, want)
      PROVE  IInv'
  <2>1. given \in Seq(CosmosMsg)
    BY DEF SeqOf
  <2> DEFINE c == Collect(given, s)
  <2>2. Start(Job("cosmos", s, fee, given, want), "begin", c.msgs, c.answer)
    BY <1>2 DEF ExecuteCosmosMsgs
  <2>3. UNCHANGED <<blocks, open>>
    BY <1>2 DEF ExecuteCosmosMsgs
  <2>4. /\ c.answer \in {"ok", "panic", "ExecuteError"}
        /\ c.answer = "ok" => c.msgs = [i \in DOMAIN given |-> ToAny(given[i], s).any]
    BY <2>1, CollectAll
  <2> HIDE DEF c
  <2>5. c.answer = "ok" =>
          /\ DOMAIN c.msgs = DOMAIN given
          /\ \A i \in DOMAIN c.msgs : c.msgs[i].type = ToAny(given[i], s).any.type
    BY <2>4
  <2> QED BY <1>1, <2>2, <2>3, <2>4, <2>5, SendStarts
<1>3. ASSUME NEW s, NEW fee, NEW msg, NEW want, NEW result \in {"ok", "EncodeError"},
             Start(Job("method", s, fee, <<msg>>, want), "begin", <<msg>>, result),
             UNCHANGED <<blocks, open>>
      PROVE  IInv'
  BY <1>1, <1>3, SendStarts
<1>4. ASSUME NEW s, NEW fee, NEW module, NEW name, NEW from, NEW coins,
             FnExecute(s, fee, module, name, from, coins)
      PROVE  IInv'
  BY <1>3, <1>4 DEF FnExecute
<1>5. ASSUME NEW s, NEW fee, NEW name, NEW coins, NEW json,
             WasmExecute(s, fee, name, coins, json)
      PROVE  IInv'
  <2> DEFINE msg == Message(Type("wasm", name), s, coins)
             result == IF json THEN "ok" ELSE "EncodeError"
  <2>1. /\ Start(Job("method", s, fee, <<msg>>, Type("wasm", Wasm.execute[name])),
                 "begin", <<msg>>, result)
        /\ UNCHANGED <<blocks, open>>
    BY <1>5 DEF WasmExecute
  <2>2. result \in {"ok", "EncodeError"}
    OBVIOUS
  <2> QED BY <1>3, <2>1, <2>2
<1>6. ASSUME NEW coins, InitAccount(coins) PROVE IInv'
  <2> DEFINE new == [op |-> "account", coins |-> coins, at |-> blocks]
  <2>1. new.op = "account" /\ new.at = blocks
    OBVIOUS
  <2>2. Start(new, "begin", <<>>, "ok") /\ UNCHANGED <<blocks, open>>
    BY <1>6 DEF InitAccount
  <2> HIDE DEF new
  <2> QED BY <1>1, <2>1, <2>2, OtherStarts
<1>7. ASSUME NEW module, NEW path, FnQuery(module, path) PROVE IInv'
  <2> DEFINE new == [op |-> "query", path |-> Type(module, path),
                     want |-> Type(module, Generated[module].query[path]), at |-> blocks]
  <2>1. new.op = "query" /\ new.at = blocks
    OBVIOUS
  <2>2. Start(new, "ask", <<>>, "ok") /\ UNCHANGED <<blocks, open>>
    BY <1>7 DEF FnQuery
  <2> HIDE DEF new
  <2> QED BY <1>1, <2>1, <2>2, OtherStarts
<1>8. ASSUME NEW json, WasmQuery(json) PROVE IInv'
  <2> DEFINE smart == Type("wasm", "SmartContractState")
             new == [op |-> "smart", path |-> smart, want |-> smart, at |-> blocks]
             result == IF json THEN "ok" ELSE "EncodeError"
  <2>1. new.op = "smart" /\ new.at = blocks /\ result \in {"ok", "EncodeError"}
    OBVIOUS
  <2>2. Start(new, "ask", <<>>, result) /\ UNCHANGED <<blocks, open>>
    BY <1>8 DEF WasmQuery
  <2> HIDE DEF new, result
  <2> QED BY <1>1, <2>1, <2>2, OtherStarts
<1> QED BY <1>2, <1>4, <1>5, <1>6, <1>7, <1>8 DEF Call

\* A transaction that the chain delivers is from the signer, and not empty.
LEMMA DeliverKeeps == IInv /\ Deliver => IInv'
<1> SUFFICES ASSUME IInv, Deliver PROVE IInv'
  OBVIOUS
<1>1. /\ phase = "run" /\ phase' = "end" /\ open' = open /\ job' = job
      /\ delivered' = msgs /\ job.op # "account"
      /\ outcome' \in {"ok", "DecodeError"}
  BY DEF Deliver, Decode
<1>2. Sent /\ Matches(msgs)
  BY <1>1 DEF IInv, Sent
<1>3. "empty" \notin Objections(msgs, job.signer) /\ "sender" \notin Objections(msgs, job.signer)
  BY DEF Deliver
<1>4. msgs # <<>>
  BY <1>3 DEF Objections
<1>5. \A i \in DOMAIN msgs : msgs[i].from = job.signer
  BY <1>3 DEF Objections
<1>6. AllOrNothing'
  BY <1>1, <1>2, <1>5 DEF Matches, AllOrNothing
<1>7. Phases'
  BY <1>1, <1>2, <1>4 DEF IInv, Phases, Telling, Sent
<1> QED BY <1>1, <1>2, <1>6, <1>7 DEF IInv, Sent

\* The other steps deliver nothing, and only close a block at its end.
LEMMA OtherSteps ==
  IInv /\ (Return \/ BeginBlock \/ Refuse \/ Fund \/ EndBlock \/ Ask) => IInv'
<1> SUFFICES ASSUME IInv, Return \/ BeginBlock \/ Refuse \/ Fund \/ EndBlock \/ Ask
             PROVE  IInv'
  OBVIOUS
<1>1. CASE Return
  <2>1. AllOrNothing'
    BY <1>1 DEF Return, AllOrNothing
  <2>2. Phases'
    BY <1>1 DEF Return, IInv, Phases, Telling, Sent, NoJob
  <2> QED BY <1>1, <2>1, <2>2 DEF Return, IInv
<1>2. CASE BeginBlock
  <2>1. AllOrNothing'
    BY <1>2 DEF BeginBlock, IInv, AllOrNothing
  <2>2. Phases'
    BY <1>2 DEF BeginBlock, IInv, Phases
  <2> QED BY <1>2, <2>1, <2>2 DEF BeginBlock, IInv, Sent, Matches
<1>3. CASE Refuse
  <2>1. AllOrNothing'
    BY <1>3 DEF Refuse, IInv, AllOrNothing
  <2>2. Phases'
    BY <1>3 DEF Refuse, IInv, Phases, Telling, Sent
  <2> QED BY <1>3, <2>1, <2>2 DEF Refuse, IInv, Sent, Matches
<1>4. CASE Fund
  <2>1. AllOrNothing'
    BY <1>4 DEF Fund, IInv, AllOrNothing
  <2>2. Phases'
    BY <1>4 DEF Fund, IInv, Phases, Telling, Sent
  <2> QED BY <1>4, <2>1, <2>2 DEF Fund, IInv, Sent, Matches
<1>5. CASE EndBlock
  <2>1. AllOrNothing'
    BY <1>5 DEF EndBlock, IInv, AllOrNothing
  <2>2. Phases'
    BY <1>5 DEF EndBlock, IInv, Phases, Telling, Sent
  <2> QED BY <1>5, <2>1, <2>2 DEF EndBlock, IInv, Sent
<1>6. CASE Ask
  <2>1. AllOrNothing'
    BY <1>6 DEF Ask, IInv, AllOrNothing
  <2>2. outcome' \in {"ok", "DecodeError", "QueryError"}
    BY <1>6 DEF Ask, Decode
  <2>3. Phases'
    BY <1>6, <2>2 DEF Ask, IInv, Phases, Telling, Sent
  <2> QED BY <1>6, <2>1, <2>3 DEF Ask, IInv, Sent
<1> QED BY <1>1, <1>2, <1>3, <1>4, <1>5, <1>6

\* The inductive invariant holds of every state, for any number of messages and signers.
THEOREM IInvAlways == Spec => []IInv
<1>1. IInv /\ [Next]_vars => IInv'
  <2> SUFFICES ASSUME IInv, [Next]_vars PROVE IInv'
    OBVIOUS
  <2>1. CASE Next
    BY <2>1, CallKeeps, DeliverKeeps, OtherSteps DEF Next
  <2>2. CASE UNCHANGED vars
    BY <2>2 DEF vars, IInv, Phases, Telling, Sent, Matches, AllOrNothing
  <2> QED BY <2>1, <2>2
<1> QED BY InitIInv, <1>1, PTL DEF Spec

\* What an operation delivers is all its messages, in their order and from the signer,
\* or nothing, for any number of messages, wherever the first failure among them is.
THEOREM MessagesAllOrNothing == Spec => []AllOrNothing
<1>1. IInv => AllOrNothing
  BY DEF IInv
<1> QED BY IInvAlways, <1>1, PTL

\* Every answer a test gets tells whether its messages were delivered, and no block is
\* left open behind it.
THEOREM AnswersTell == Spec => []AnswersTellFate
<1>1. IInv => AnswersTellFate
  BY DEF IInv, Phases, Telling, AnswersTellFate
<1> QED BY IInvAlways, <1>1, PTL

-------------------------------------------------------------------------------
\* The response a generated method is declared with is what the chain answers its
\* message with.
LEMMA MethodsAreTyped ==
  ASSUME NEW module \in DOMAIN Generated,
         NEW name \in DOMAIN Generated[module].execute
  PROVE  TypeOfAnswer(Type(module, name))
           = Type(module, Generated[module].execute[name])
<1>1. TypeOfAnswer(Type(module, name)) = Type(module, MsgAnswer(module, name))
  BY DEF TypeOfAnswer, Type
<1>2. module \in {"assetft", "assetnft", "authz", "bank", "dex", "distribution", "gov",
                  "nft", "staking"}
  BY DEF Generated
<1>3. MsgAnswer(module, name) = Generated[module].execute[name]
  <2>1. CASE module = "assetft"
    BY <2>1 DEF MsgAnswer, Generated, AssetFT, Empty
  <2>2. CASE module = "assetnft"
    BY <2>2 DEF MsgAnswer, Generated, AssetNFT, Empty
  <2>3. CASE module = "authz"
    BY <2>3 DEF MsgAnswer, Generated, Authz, Own
  <2>4. CASE module = "bank"
    BY <2>4 DEF MsgAnswer, Generated, Bank, Own
  <2>5. CASE module = "dex"
    BY <2>5 DEF MsgAnswer, Generated, Dex, Empty
  <2>6. CASE module = "distribution"
    BY <2>6 DEF MsgAnswer, Generated, Distribution, Own
  <2>7. CASE module = "gov"
    BY <2>7 DEF MsgAnswer, Generated, Gov, Own
  <2>8. CASE module = "nft"
    BY <2>8 DEF MsgAnswer, Generated, NFT, Own
  <2>9. CASE module = "staking"
    BY <2>9 DEF MsgAnswer, Generated, Staking, Own
  <2> QED BY <1>2, <2>1, <2>2, <2>3, <2>4, <2>5, <2>6, <2>7, <2>8, <2>9
<1> QED BY <1>1, <1>3

\* The types a generated query is declared with are those of its path, but for one.
LEMMA QueriesAreTyped ==
  ASSUME NEW module \in DOMAIN Generated, NEW path \in DOMAIN Generated[module].query
  PROVE  \/ Generated[module].query[path] = path
         \/ module = "assetnft" /\ path = "BurntNFTsInClass"
<1>1. module \in {"assetft", "assetnft", "authz", "bank", "dex", "distribution", "gov",
                  "nft", "staking"}
  BY DEF Generated
<1>2. CASE module = "assetft"
  BY <1>2 DEF Generated, AssetFT, Own
<1>3. CASE module = "assetnft"
  BY <1>3 DEF Generated, AssetNFT
<1>4. CASE module = "authz"
  BY <1>4 DEF Generated, Authz, Own
<1>5. CASE module = "bank"
  BY <1>5 DEF Generated, Bank, Own
<1>6. CASE module = "dex"
  BY <1>6 DEF Generated, Dex, Own
<1>7. CASE module = "distribution"
  BY <1>7 DEF Generated, Distribution, Own
<1>8. CASE module = "gov"
  BY <1>8 DEF Generated, Gov, Own
<1>9. CASE module = "nft"
  BY <1>9 DEF Generated, NFT, Own
<1>10. CASE module = "staking"
  BY <1>10 DEF Generated, Staking, Own
<1> QED BY <1>1, <1>2, <1>3, <1>4, <1>5, <1>6, <1>7, <1>8, <1>9, <1>10

\* What a job of a wrapper is to be answered with is what its message or its path is.
Declared ==
  /\ job.op = "method" =>
       /\ 1 \in DOMAIN job.given
       /\ TypeOfAnswer(job.given[1].type) = job.want
  /\ job.op \in {"query", "smart"} =>
       \/ Type(job.path.module, QueryAnswer(job.path.name)) = job.want
       \/ job.op = "query" /\ job.path = Type("assetnft", "BurntNFTsInClass")

\* Every call declares its job right.
LEMMA CallDeclares == Call => Declared'
<1> SUFFICES ASSUME Call PROVE Declared'
  OBVIOUS
<1>1. ASSUME NEW s, NEW fee, NEW given, NEW want, ExecuteCosmosMsgs(s, fee, given, want)
      PROVE  Declared'
  BY <1>1 DEF ExecuteCosmosMsgs, Start, Job, Declared
<1>2. ASSUME NEW s, NEW fee, NEW module \in DOMAIN Generated,
             NEW name \in DOMAIN Generated[module].execute, NEW from, NEW coins,
             FnExecute(s, fee, module, name, from, coins)
      PROVE  Declared'
  <2>1. /\ job'.op = "method" /\ 1 \in DOMAIN job'.given
        /\ job'.given[1].type = Type(module, name)
        /\ job'.want = Type(module, Generated[module].execute[name])
    BY <1>2 DEF FnExecute, Start, Job, Message
  <2> QED BY <2>1, MethodsAreTyped DEF Declared
<1>3. ASSUME NEW s, NEW fee, NEW name \in DOMAIN Wasm.execute, NEW coins, NEW json,
             WasmExecute(s, fee, name, coins, json)
      PROVE  Declared'
  <2>1. /\ job'.op = "method" /\ 1 \in DOMAIN job'.given
        /\ job'.given[1].type = Type("wasm", name)
        /\ job'.want = Type("wasm", Wasm.execute[name])
    BY <1>3 DEF WasmExecute, Start, Job, Message
  <2>2. Wasm.execute[name] = name
    BY DEF Wasm, Own
  <2>3. TypeOfAnswer(Type("wasm", name)) = Type("wasm", name)
    BY DEF TypeOfAnswer, Type, Generated
  <2> QED BY <2>1, <2>2, <2>3 DEF Declared
<1>4. ASSUME NEW coins, InitAccount(coins) PROVE Declared'
  BY <1>4 DEF InitAccount, Start, Declared
<1>5. ASSUME NEW module \in DOMAIN Generated, NEW path \in DOMAIN Generated[module].query,
             FnQuery(module, path)
      PROVE  Declared'
  <2>1. /\ job'.op = "query" /\ job'.path = Type(module, path)
        /\ job'.want = Type(module, Generated[module].query[path])
    BY <1>5 DEF FnQuery, Start
  <2>2. Type(job'.path.module, QueryAnswer(job'.path.name)) = Type(module, path)
    BY <2>1 DEF Type, QueryAnswer
  <2> QED BY <2>1, <2>2, QueriesAreTyped DEF Declared
<1>6. ASSUME NEW json, WasmQuery(json) PROVE Declared'
  <2>1. /\ job'.op = "smart" /\ job'.path = Type("wasm", "SmartContractState")
        /\ job'.want = job'.path
    BY <1>6 DEF WasmQuery, Start
  <2> QED BY <2>1 DEF Declared, Type, QueryAnswer
<1> QED BY <1>1, <1>2, <1>3, <1>4, <1>5, <1>6 DEF Call

\* No call has its answer Ok at once.
LEMMA CallAnswersNothing == Call => outcome' # "ok"
<1> SUFFICES ASSUME Call PROVE outcome' # "ok"
  OBVIOUS
<1>1. ASSUME NEW newJob, NEW next, NEW tx, NEW result, Start(newJob, next, tx, result)
      PROVE  outcome' # "ok"
  BY <1>1 DEF Start
<1>2. ASSUME NEW s, NEW fee, NEW given, NEW want, ExecuteCosmosMsgs(s, fee, given, want)
      PROVE  outcome' # "ok"
  BY <1>1, <1>2 DEF ExecuteCosmosMsgs
<1>3. ASSUME NEW s, NEW fee, NEW module, NEW name, NEW from, NEW coins,
             FnExecute(s, fee, module, name, from, coins)
      PROVE  outcome' # "ok"
  BY <1>1, <1>3 DEF FnExecute
<1>4. ASSUME NEW s, NEW fee, NEW name, NEW coins, NEW json,
             WasmExecute(s, fee, name, coins, json)
      PROVE  outcome' # "ok"
  BY <1>1, <1>4 DEF WasmExecute
<1>5. ASSUME NEW coins, InitAccount(coins) PROVE outcome' # "ok"
  BY <1>1, <1>5 DEF InitAccount
<1>6. ASSUME NEW module, NEW path, FnQuery(module, path) PROVE outcome' # "ok"
  BY <1>1, <1>6 DEF FnQuery
<1>7. ASSUME NEW json, WasmQuery(json) PROVE outcome' # "ok"
  BY <1>1, <1>7 DEF WasmQuery
<1> QED BY <1>2, <1>3, <1>4, <1>5, <1>6, <1>7 DEF Call

\* Whatever the numbers of messages and coins, what a wrapper answers Ok with has been
\* answered by the chain as the type it is read as, but for one query.
THEOREM WrappersAreTyped == Spec => []AnswersAreTyped
<1>1. Init => Declared /\ AnswersAreTyped
  BY DEF Init, NoJob, Declared, AnswersAreTyped
<1>2. IInv /\ Declared /\ AnswersAreTyped /\ [Next]_vars => Declared' /\ AnswersAreTyped'
  <2> SUFFICES ASSUME IInv, Declared, AnswersAreTyped, [Next]_vars
               PROVE  Declared' /\ AnswersAreTyped'
    OBVIOUS
  <2>1. CASE Call
    <3>1. outcome' # "ok"
      BY <2>1, CallAnswersNothing
    <3> QED BY <2>1, <3>1, CallDeclares DEF AnswersAreTyped
  <2>2. CASE Return
    BY <2>2 DEF Return, NoJob, Declared, AnswersAreTyped
  <2>3. CASE BeginBlock
    BY <2>3 DEF BeginBlock, Declared, AnswersAreTyped
  <2>4. CASE Deliver
    <3>1. job' = job /\ answer' = TypeOfAnswer(msgs[1].type) /\ Matches(msgs)
      BY <2>4 DEF Deliver, IInv, Sent
    <3>2. job.op \in {"cosmos", "method"}
      BY <2>4 DEF Deliver, IInv
    <3>3. job.op = "method" => msgs[1].type = job.given[1].type
      BY <3>1 DEF Declared, Matches
    <3> QED BY <3>1, <3>2, <3>3 DEF Declared, AnswersAreTyped
  <2>5. CASE Refuse
    BY <2>5 DEF Refuse, Declared, AnswersAreTyped, IInv
  <2>6. CASE Fund
    BY <2>6 DEF Fund, Declared, AnswersAreTyped
  <2>7. CASE EndBlock
    BY <2>7 DEF EndBlock, Declared, AnswersAreTyped
  <2>8. CASE Ask
    <3>1. job' = job /\ job.op \notin {"cosmos", "method"}
      BY <2>8 DEF Ask, IInv, Phases, Sent
    <3>2. outcome' = "ok" => answer' = Type(job.path.module, QueryAnswer(job.path.name))
      BY <2>8 DEF Ask
    <3> QED BY <3>1, <3>2 DEF Declared, AnswersAreTyped
  <2>9. CASE UNCHANGED vars
    BY <2>9 DEF vars, Declared, AnswersAreTyped
  <2> QED BY <2>1, <2>2, <2>3, <2>4, <2>5, <2>6, <2>7, <2>8, <2>9 DEF Next
<1> QED BY <1>1, <1>2, IInvAlways, PTL DEF Spec
-------------------------------------------------------------------------------
(* The coins of coins_to_proto.  That a sequence can be sorted is shown one place  *)
(* at a time: the coin for the next place is the first of those left.           *)

\* Coin i comes before coin j, by its denomination or, within one, as it did.
Before(coins, i, j) ==
  \/ coins[i].denom < coins[j].denom
  \/ coins[i].denom = coins[j].denom /\ i < j

\* f fills the first k places, with coins that are before all those left.
Fills(coins, k, f) ==
  /\ f \in [1 .. k -> 1 .. Len(coins)]
  /\ \A i, j \in 1 .. k : i < j => Before(coins, f[i], f[j])
  /\ \A i \in 1 .. k, x \in 1 .. Len(coins) :
       (\A j \in 1 .. k : f[j] # x) => Before(coins, f[i], x)

\* A set of natural numbers that is not empty has a least one.
LEMMA LeastNat ==
  ASSUME NEW S \in SUBSET Nat, S # {}
  PROVE  \E i \in S : \A j \in S : i <= j
<1>1. PICK i \in S : \A j \in S : ~ (<<j, i>> \in OpToRel(<, Nat))
  BY NatLessThanWellFounded, WFMin
<1>2. \A j \in S : ~ (j < i)
  BY <1>1 DEF OpToRel
<1> QED BY <1>2

\* What the coins of a sequence are.
LEMMA CoinsOfSeq ==
  ASSUME NEW coins \in Seq(Coin), NEW x \in 1 .. Len(coins)
  PROVE  coins[x].denom \in Nat /\ coins[x].amount \in Nat
<1>1. coins[x] \in Coin
  OBVIOUS
<1> QED BY <1>1, DenomsAssumption, AmountsAssumption DEF Coin

\* Of the coins left, one is before all others: those of the least denomination have
\* a first one.
LEMMA FirstLeft ==
  ASSUME NEW coins \in Seq(Coin), NEW left \in SUBSET (1 .. Len(coins)), left # {}
  PROVE  \E m \in left : \A x \in left : x # m => Before(coins, m, x)
<1>1. \A x \in left : coins[x].denom \in Nat /\ x \in Nat
  BY CoinsOfSeq
<1> DEFINE denoms == {coins[x].denom : x \in left}
<1>2. PICK d \in denoms : \A e \in denoms : d <= e
  <2>1. denoms \in SUBSET Nat /\ denoms # {}
    BY <1>1
  <2> HIDE DEF denoms
  <2> QED BY <2>1, LeastNat
<1> DEFINE ofDenom == {x \in left : coins[x].denom = d}
<1>3. PICK m \in ofDenom : \A x \in ofDenom : m <= x
  <2>1. ofDenom \in SUBSET Nat /\ ofDenom # {}
    BY <1>1, <1>2
  <2> HIDE DEF ofDenom
  <2> QED BY <2>1, LeastNat
<1>4. ASSUME NEW x \in left, x # m
      PROVE  Before(coins, m, x)
  <2>1. coins[m].denom = d /\ d <= coins[x].denom
    BY <1>2, <1>3
  <2>2. d \in Nat /\ coins[x].denom \in Nat /\ m \in Nat /\ x \in Nat
    BY <1>1, <1>3, <2>1
  <2>3. CASE coins[x].denom = d
    <3>1. m <= x
      BY <1>3, <2>3
    <3> QED BY <1>4, <2>1, <2>2, <2>3, <3>1 DEF Before
  <2>4. CASE coins[x].denom # d
    <3>1. d < coins[x].denom
      BY <2>1, <2>2, <2>4
    <3> QED BY <2>1, <3>1 DEF Before
  <2> QED BY <2>3, <2>4
<1> QED BY <1>3, <1>4

\* While places are left there is a coin for the next one.
LEMMA NextPlace ==
  ASSUME NEW coins \in Seq(Coin), NEW k \in Nat, k < Len(coins), NEW f,
         Fills(coins, k, f)
  PROVE  \E g : Fills(coins, k + 1, g)
<1> DEFINE n == Len(coins)
           left == {x \in 1 .. n : \A j \in 1 .. k : f[j] # x}
<1>1. left # {}
  <2> SUFFICES ASSUME left = {} PROVE FALSE
    OBVIOUS
  <2>1. f \in [1 .. k -> 1 .. n]
    BY DEF Fills
  <2>2. \A t \in 1 .. n : \E s \in 1 .. k : f[s] = t
    OBVIOUS
  <2>3. ExistsSurjection(1 .. k, 1 .. n)
    BY <2>1, <2>2 DEF ExistsSurjection, Surjection
  <2>4. Cardinality(1 .. n) <= k
    BY <2>3, FS_SurjCardinalityBound
  <2>5. Cardinality(1 .. n) = n
    <3>1. n \in Nat
      OBVIOUS
    <3> HIDE DEF n
    <3> QED BY <3>1, FS_Interval
  <2> QED BY <2>4, <2>5
<1>2. PICK m \in left : \A x \in left : x # m => Before(coins, m, x)
  BY <1>1, FirstLeft
<1> DEFINE g == [i \in 1 .. k + 1 |-> IF i <= k THEN f[i] ELSE m]
<1>3. f \in [1 .. k -> 1 .. n] /\ g \in [1 .. k + 1 -> 1 .. n]
  BY DEF Fills
<1>4. /\ \A i \in 1 .. k : i \in 1 .. k + 1 /\ g[i] = f[i]
      /\ g[k + 1] = m /\ k + 1 \in 1 .. k + 1
      /\ \A i \in 1 .. k + 1 : i = k + 1 \/ i \in 1 .. k
  OBVIOUS
<1>5. \A i \in 1 .. k, x \in left : Before(coins, f[i], x)
  BY DEF Fills
<1> HIDE DEF g
<1>6. ASSUME NEW i \in 1 .. k + 1, NEW j \in 1 .. k + 1, i < j
      PROVE  Before(coins, g[i], g[j])
  <2>1. i \in 1 .. k
    BY <1>6
  <2>2. CASE j \in 1 .. k
    BY <1>4, <1>6, <2>1, <2>2 DEF Fills
  <2>3. CASE j = k + 1
    BY <1>2, <1>4, <1>5, <2>1, <2>3
  <2> QED BY <1>4, <2>2, <2>3
<1>7. ASSUME NEW i \in 1 .. k + 1, NEW x \in 1 .. n, \A j \in 1 .. k + 1 : g[j] # x
      PROVE  Before(coins, g[i], x)
  <2>1. x \in left /\ x # m
    BY <1>4, <1>7
  <2>2. CASE i \in 1 .. k
    BY <1>4, <1>5, <2>1, <2>2
  <2>3. CASE i = k + 1
    BY <1>2, <1>4, <2>1, <2>3
  <2> QED BY <1>4, <2>2, <2>3
<1> QED BY <1>3, <1>6, <1>7 DEF Fills

\* So all places can be filled.
LEMMA AllPlaces ==
  ASSUME NEW coins \in Seq(Coin)
  PROVE  \E f : Fills(coins, Len(coins), f)
<1> DEFINE n == Len(coins)
           unfilled == {k \in 1 .. n : ~ \E f : Fills(coins, k, f)}
<1>1. \E f : Fills(coins, 0, f)
  <2> DEFINE none == [i \in 1 .. 0 |-> i]
  <2>1. none \in [1 .. 0 -> 1 .. n]
    OBVIOUS
  <2>2. Fills(coins, 0, none)
    <3> HIDE DEF none
    <3> QED BY <2>1 DEF Fills
  <2> QED BY <2>2
<1>2. unfilled = {}
  <2> SUFFICES ASSUME unfilled # {} PROVE FALSE
    OBVIOUS
  <2>1. PICK k \in unfilled : \A j \in unfilled : k <= j
    <3>1. n \in Nat /\ unfilled \in SUBSET (1 .. n)
      OBVIOUS
    <3> HIDE DEF n, unfilled
    <3> QED BY <3>1, FirstIndex
  <2>2. k - 1 \in Nat /\ k - 1 < n /\ (k - 1) + 1 = k
    OBVIOUS
  <2>3. \E f : Fills(coins, k - 1, f)
    BY <1>1, <2>1, <2>2
  <2>4. \E f : Fills(coins, k, f)
    BY <2>2, <2>3, NextPlace
  <2> QED BY <2>4
<1>3. n = 0 \/ n \in 1 .. n
  OBVIOUS
<1>4. CASE n = 0
  BY <1>1, <1>4
<1>5. CASE n \in 1 .. n
  <2>1. n \notin unfilled
    BY <1>2
  <2>2. \E f : Fills(coins, n, f)
    <3> HIDE DEF n
    <3> QED BY <1>5, <2>1
  <2> QED BY <2>2
<1> QED BY <1>3, <1>4, <1>5

\* sort_by exists: the places of the coins are filled with each of them, in order.
LEMMA SortedByIsOne ==
  ASSUME NEW coins \in Seq(Coin)
  PROVE  /\ SortedBy(coins) \in [1 .. Len(coins) -> 1 .. Len(coins)]
         /\ \A x \in 1 .. Len(coins) : \E i \in 1 .. Len(coins) : SortedBy(coins)[i] = x
         /\ \A i, j \in 1 .. Len(coins) :
              i < j => Before(coins, SortedBy(coins)[i], SortedBy(coins)[j])
<1> DEFINE n == Len(coins)
<1>1. PICK f : Fills(coins, n, f)
  BY AllPlaces
<1>2. f \in [1 .. n -> 1 .. n]
  BY <1>1 DEF Fills
<1>3. \A x \in 1 .. n : coins[x].denom \in Nat
  BY CoinsOfSeq
<1>4. IsInjective(f)
  <2> SUFFICES ASSUME NEW i \in 1 .. n, NEW j \in 1 .. n, f[i] = f[j], i < j
               PROVE  FALSE
    BY <1>2 DEF IsInjective
  <2>1. Before(coins, f[i], f[j])
    BY <1>1 DEF Fills
  <2> QED BY <1>2, <1>3, <2>1 DEF Before
<1>5. \A x \in 1 .. n : \E i \in 1 .. n : f[i] = x
  <2> SUFFICES ASSUME NEW x \in 1 .. n, \A i \in 1 .. n : f[i] # x
               PROVE  FALSE
    OBVIOUS
  <2> DEFINE others == (1 .. n) \ {x}
  <2>1. f \in [1 .. n -> others]
    BY <1>2
  <2>2. /\ IsFiniteSet(1 .. n) /\ Cardinality(1 .. n) = n
        /\ IsFiniteSet(others) /\ Cardinality(others) = n - 1
    <3>1. n \in Nat /\ x \in 1 .. n
      OBVIOUS
    <3> HIDE DEF n
    <3>2. IsFiniteSet(1 .. n) /\ Cardinality(1 .. n) = n
      BY <3>1, FS_Interval
    <3> QED BY <3>1, <3>2, FS_RemoveElement
  <2>3. PICK i \in 1 .. n, j \in 1 .. n : i # j /\ f[i] = f[j]
    <3> HIDE DEF others
    <3> QED BY <2>1, <2>2, FS_PigeonHole
  <2> QED BY <1>2, <1>4, <2>3 DEF IsInjective
<1>6. f \in Bijection(DOMAIN coins, DOMAIN coins)
  <2>1. DOMAIN coins = 1 .. n
    OBVIOUS
  <2> HIDE DEF n
  <2> QED BY <2>1, <1>2, <1>4, <1>5 DEF Bijection, Injection, Surjection
<1>7. \A i, j \in DOMAIN coins : i < j =>
        \/ coins[f[i]].denom < coins[f[j]].denom
        \/ coins[f[i]].denom = coins[f[j]].denom /\ f[i] < f[j]
  BY <1>1 DEF Fills, Before
<1>8. /\ SortedBy(coins) \in Bijection(DOMAIN coins, DOMAIN coins)
      /\ \A i, j \in DOMAIN coins : i < j =>
           \/ coins[SortedBy(coins)[i]].denom < coins[SortedBy(coins)[j]].denom
           \/ /\ coins[SortedBy(coins)[i]].denom = coins[SortedBy(coins)[j]].denom
              /\ SortedBy(coins)[i] < SortedBy(coins)[j]
  BY <1>6, <1>7 DEF SortedBy
<1> HIDE DEF n
<1>9. DOMAIN coins = 1 .. Len(coins)
  OBVIOUS
<1> QED BY <1>8, <1>9 DEF Bijection, Injection, Surjection, Before

\* coins_to_proto loses no coin, makes up none, and puts coins of which no two have a
\* denomination, and none is of nothing, as the chain wants them.
LEMMA CoinsOrdered ==
  ASSUME NEW coins \in Seq(Coin)
  PROVE  /\ ToSet(coins_to_proto(coins)) = ToSet(coins)
         /\ \/ ValidCoins(coins_to_proto(coins))
            \/ \E i \in DOMAIN coins : coins[i].amount = 0
            \/ \E i, j \in DOMAIN coins : i # j /\ coins[i].denom = coins[j].denom
<1> DEFINE n == Len(coins)
           place == SortedBy(coins)
           sorted == coins_to_proto(coins)
<1>1. /\ place \in [1 .. n -> 1 .. n]
      /\ \A x \in 1 .. n : \E i \in 1 .. n : place[i] = x
      /\ \A i, j \in 1 .. n : i < j => Before(coins, place[i], place[j])
  BY SortedByIsOne
<1>2. DOMAIN coins = 1 .. n /\ DOMAIN sorted = 1 .. n
  BY DEF coins_to_proto
<1>3. \A i \in 1 .. n : sorted[i] = coins[place[i]]
  BY <1>2 DEF coins_to_proto
<1>4. \A i \in 1 .. n : coins[i].denom \in Nat /\ coins[i].amount \in Nat
  BY CoinsOfSeq
<1> HIDE DEF n, place, sorted
<1>5. ToSet(sorted) = ToSet(coins)
  <2>1. \A i \in 1 .. n : place[i] \in 1 .. n
    BY <1>1
  <2>2. \A i \in 1 .. n : sorted[i] \in {coins[x] : x \in 1 .. n}
    BY <1>3, <2>1
  <2>3. \A x \in 1 .. n : coins[x] \in {sorted[i] : i \in 1 .. n}
    BY <1>1, <1>3
  <2> QED BY <1>2, <2>2, <2>3 DEF ToSet
<1>6. ASSUME \A i \in DOMAIN coins : coins[i].amount # 0,
             \A i, j \in DOMAIN coins : i # j => coins[i].denom # coins[j].denom
      PROVE  ValidCoins(sorted)
  <2>1. \A i \in 1 .. n : sorted[i].amount > 0
    <3> SUFFICES ASSUME NEW i \in 1 .. n PROVE sorted[i].amount > 0
      OBVIOUS
    <3>1. sorted[i] = coins[place[i]] /\ place[i] \in 1 .. n
      BY <1>1, <1>3
    <3>2. coins[place[i]].amount \in Nat /\ coins[place[i]].amount # 0
      BY <1>2, <1>4, <1>6, <3>1
    <3> QED BY <3>1, <3>2
  <2>2. ASSUME NEW i \in 1 .. n, NEW j \in 1 .. n, i < j
        PROVE  sorted[i].denom < sorted[j].denom
    <3>1. Before(coins, place[i], place[j]) /\ place[i] \in 1 .. n /\ place[j] \in 1 .. n
      BY <1>1, <2>2
    <3>2. coins[place[i]].denom < coins[place[j]].denom
      <4>1. CASE place[i] = place[j]
        BY <1>4, <3>1, <4>1 DEF Before, n
      <4>2. CASE place[i] # place[j]
        BY <1>2, <1>6, <3>1, <4>2 DEF Before
      <4> QED BY <4>1, <4>2
    <3> QED BY <1>3, <3>2
  <2> QED BY <1>2, <2>1, <2>2 DEF ValidCoins
<1> QED BY <1>5, <1>6 DEF sorted

\* The Any of a message has the coins of the message, put in order, and is refused for
\* them only if the message's would be in any order.
Carries(any, msg) ==
  /\ ToSet(any.coins) = ToSet(msg.coins)
  /\ ValidCoins(any.coins) \/ Refusable(msg.coins)
  /\ any.type = Type("bank", "Send") /\ any.coins = <<>> =>
       msg.kind = "Send" /\ msg.coins = <<>>

\* A sequence without elements is empty.
LEMMA NoElements ==
  ASSUME NEW coins \in Seq(Coin), ToSet(coins) = {}
  PROVE  coins = <<>>
<1>1. \A i \in 1 .. Len(coins) : coins[i] \in ToSet(coins)
  BY DEF ToSet
<1> QED BY <1>1

\* A message without coins carries none.
LEMMA CarriesNone ==
  ASSUME NEW any, NEW msg, any.coins = <<>>, msg.coins = <<>>,
         any.type # Type("bank", "Send")
  PROVE  Carries(any, msg)
  BY DEF Carries, ValidCoins

\* Sorted coins are the message's.
LEMMA CarriesSorted ==
  ASSUME NEW any, NEW msg, msg.coins \in Seq(Coin), any.coins = coins_to_proto(msg.coins),
         any.type = Type("bank", "Send") => msg.kind = "Send"
  PROVE  Carries(any, msg)
<1>1. /\ ToSet(any.coins) = ToSet(msg.coins)
      /\ ValidCoins(any.coins) \/ Refusable(msg.coins)
  BY CoinsOrdered DEF Refusable
<1>2. ASSUME any.coins = <<>> PROVE msg.coins = <<>>
  <2>1. ToSet(any.coins) = {}
    BY <1>2 DEF ToSet
  <2> QED BY <1>1, <2>1, NoElements
<1> QED BY <1>1, <1>2 DEF Carries

\* So every conversion carries the coins of its message.
LEMMA ToAnyCarries ==
  ASSUME NEW msg \in CosmosMsg, NEW s, ToAny(msg, s).answer = "ok"
  PROVE  Carries(ToAny(msg, s).any, msg)
<1> DEFINE any == ToAny(msg, s).any
<1>1. msg.kind \in Funded => msg.coins \in Seq(Coin)
  BY DEF CosmosMsg, Funded, BankMsgs, WasmMsgs, Funds, SeqOf
<1>2. msg.kind \notin Funded => msg.coins = <<>>
  BY DEF CosmosMsg
<1>3. CASE msg.kind \in BankMsgs
  <2>1. ToAny(msg, s) = bank_msg_to_any(msg, s)
    BY <1>3 DEF ToAny, BankMsgs, WasmMsgs
  <2>2. msg.kind = "Send" /\ any.coins = coins_to_proto(msg.coins)
    BY <2>1 DEF bank_msg_to_any, Converted, Failed, Message
  <2> HIDE DEF any
  <2> QED BY <1>1, <2>2, CarriesSorted DEF Funded, any
<1>4. CASE msg.kind \in WasmMsgs
  <2>1. ToAny(msg, s) = wasm_msg_to_any(msg, s)
    BY <1>4 DEF ToAny, BankMsgs, WasmMsgs
  <2>2. /\ any.coins = coins_to_proto(msg.coins)
        /\ any.type.module = "wasm"
    <3> DEFINE sent == Message(Type("wasm", WasmTypes[msg.kind]), s, coins_to_proto(msg.coins))
    <3>1. ToAny(msg, s) = Converted(sent)
      BY <2>1 DEF wasm_msg_to_any, Failed
    <3>2. any = sent
      BY <3>1 DEF Converted
    <3> QED BY <3>2 DEF Message, Type
  <2>3. any.type # Type("bank", "Send")
    BY <2>2 DEF Type
  <2>4. <<>> \in Seq(Coin)
    OBVIOUS
  <2>5. msg.coins \in Seq(Coin)
    BY <1>1, <1>2, <2>4
  <2> HIDE DEF any
  <2> QED BY <2>2, <2>3, <2>5, CarriesSorted DEF any
<1>5. CASE msg.kind = "Any"
  <2>1. ToAny(msg, s) = Converted(Message(Type("any", "any"), msg.from, msg.coins))
    BY <1>5 DEF ToAny, BankMsgs, WasmMsgs
  <2>2. any.coins = msg.coins /\ any.type.module = "any"
    BY <2>1 DEF Converted, Message, Type
  <2>3. any.type # Type("bank", "Send")
    BY <2>2 DEF Type
  <2>4. msg.coins = <<>>
    BY <1>2, <1>5 DEF Funded
  <2> HIDE DEF any
  <2> QED BY <2>2, <2>3, <2>4, CarriesNone DEF any
<1>6. CASE msg.kind \notin BankMsgs \union WasmMsgs \union {"Any"}
  <2>1. ToAny(msg, s) = Failed("panic")
    BY <1>6 DEF ToAny
  <2> QED BY <2>1 DEF Failed
<1> QED BY <1>3, <1>4, <1>5, <1>6

\* All messages converted, each carries its coins.
LEMMA CollectCarries ==
  ASSUME NEW given \in Seq(CosmosMsg), NEW s, Collect(given, s).answer = "ok"
  PROVE  /\ DOMAIN Collect(given, s).msgs = DOMAIN given
         /\ \A i \in DOMAIN given : Carries(Collect(given, s).msgs[i], given[i])
<1> DEFINE failed == {i \in DOMAIN given : ToAny(given[i], s).answer # "ok"}
           first == CHOOSE i \in failed : \A j \in failed : i <= j
<1>1. failed = {}
  <2> SUFFICES ASSUME failed # {} PROVE FALSE
    OBVIOUS
  <2>1. failed \in SUBSET (1 .. Len(given)) /\ Len(given) \in Nat
    OBVIOUS
  <2>2. \E i \in failed : \A j \in failed : i <= j
    BY <2>1, FirstIndex
  <2>3. first \in failed
    BY <2>2
  <2>4. Collect(given, s).answer = ToAny(given[first], s).answer
    BY DEF Collect
  <2> QED BY <2>3, <2>4
<1>2. Collect(given, s).msgs = [i \in DOMAIN given |-> ToAny(given[i], s).any]
  BY CollectAll
<1>3. \A i \in DOMAIN given : given[i] \in CosmosMsg /\ ToAny(given[i], s).answer = "ok"
  BY <1>1
<1> HIDE DEF failed, first
<1> QED BY <1>2, <1>3, ToAnyCarries

\* The inductive invariant of CoinOrderIrrelevant: the messages on their way carry the
\* coins given, and an objection is to the operation at hand.
CoinsKept ==
  /\ phase \in {"begin", "run"} =>
       CASE job.op = "cosmos"  -> /\ DOMAIN msgs = DOMAIN job.given
                                  /\ \A i \in DOMAIN msgs : Carries(msgs[i], job.given[i])
         [] job.op = "method"  -> msgs = job.given
         [] job.op = "account" -> job.coins \in Seq(Coin)
         [] OTHER -> TRUE
  /\ job = NoJob => objection # "coins"
  /\ CoinOrderIrrelevant

\* A call's messages carry their coins, and nothing has been delivered or refused.
LEMMA CallCarries == IInv /\ CoinsKept /\ Call => CoinsKept'
<1> SUFFICES ASSUME IInv, CoinsKept, Call PROVE CoinsKept'
  OBVIOUS
<1>1. job = NoJob /\ delivered = <<>> /\ objection # "coins"
  BY DEF Call, CoinsKept, IInv, Phases
<1>2. ASSUME NEW newJob, NEW next, NEW tx, NEW result, Start(newJob, next, tx, result),
             result = "ok" =>
               CASE newJob.op = "cosmos" ->
                      /\ DOMAIN tx = DOMAIN newJob.given
                      /\ \A i \in DOMAIN tx : Carries(tx[i], newJob.given[i])
                 [] newJob.op = "method"  -> tx = newJob.given
                 [] newJob.op = "account" -> newJob.coins \in Seq(Coin)
                 [] OTHER -> TRUE
      PROVE  CoinsKept'
  <2>1. /\ delivered' = <<>> /\ objection' # "coins" /\ job' = newJob /\ msgs' = tx
        /\ phase' \in {"begin", "run"} => result = "ok"
    BY <1>1, <1>2 DEF Start
  <2>2. CoinOrderIrrelevant'
    BY <2>1 DEF CoinOrderIrrelevant
  <2> QED BY <1>2, <2>1, <2>2 DEF CoinsKept
<1>3. ASSUME NEW s, NEW fee, NEW given \in SeqOf(CosmosMsg, MaxMsgs), NEW want,
             ExecuteCosmosMsgs(s, fee, given, want)
      PROVE  CoinsKept'
  <2> DEFINE c == Collect(given, s)
             new == Job("cosmos", s, fee, given, want)
  <2>1. Start(new, "begin", c.msgs, c.answer)
    BY <1>3 DEF ExecuteCosmosMsgs
  <2>2. given \in Seq(CosmosMsg)
    BY DEF SeqOf
  <2>3. c.answer = "ok" => /\ DOMAIN c.msgs = DOMAIN given
                           /\ \A i \in DOMAIN given : Carries(c.msgs[i], given[i])
    BY <2>2, CollectCarries
  <2>4. new.op = "cosmos" /\ new.given = given
    BY DEF Job
  <2> HIDE DEF c, new
  <2> QED BY <1>2, <2>1, <2>3, <2>4
<1>4. ASSUME NEW s, NEW fee, NEW msg, NEW want, NEW result,
             Start(Job("method", s, fee, <<msg>>, want), "begin", <<msg>>, result)
      PROVE  CoinsKept'
  <2> DEFINE new == Job("method", s, fee, <<msg>>, want)
  <2>1. new.op = "method" /\ new.given = <<msg>>
    BY DEF Job
  <2>2. Start(new, "begin", <<msg>>, result)
    BY <1>4
  <2> HIDE DEF new
  <2> QED BY <1>2, <2>1, <2>2
<1>5. ASSUME NEW s, NEW fee, NEW module, NEW name, NEW from, NEW coins,
             FnExecute(s, fee, module, name, from, coins)
      PROVE  CoinsKept'
  BY <1>4, <1>5 DEF FnExecute
<1>6. ASSUME NEW s, NEW fee, NEW name, NEW coins, NEW json,
             WasmExecute(s, fee, name, coins, json)
      PROVE  CoinsKept'
  BY <1>4, <1>6 DEF WasmExecute
<1>7. ASSUME NEW coins \in Funds, InitAccount(coins) PROVE CoinsKept'
  <2> DEFINE new == [op |-> "account", coins |-> coins, at |-> blocks]
  <2>1. new.op = "account" /\ new.coins \in Seq(Coin)
    BY DEF Funds, SeqOf
  <2>2. Start(new, "begin", <<>>, "ok")
    BY <1>7 DEF InitAccount
  <2> HIDE DEF new
  <2> QED BY <1>2, <2>1, <2>2
<1>8. ASSUME NEW newJob, newJob.op \in {"query", "smart"}, NEW result,
             Start(newJob, "ask", <<>>, result)
      PROVE  CoinsKept'
  BY <1>2, <1>8
<1>9. ASSUME NEW module, NEW path, FnQuery(module, path) PROVE CoinsKept'
  <2> DEFINE new == [op |-> "query", path |-> Type(module, path),
                     want |-> Type(module, Generated[module].query[path]), at |-> blocks]
  <2>1. new.op = "query"
    OBVIOUS
  <2>2. Start(new, "ask", <<>>, "ok")
    BY <1>9 DEF FnQuery
  <2> HIDE DEF new
  <2> QED BY <1>8, <2>1, <2>2
<1>10. ASSUME NEW json, WasmQuery(json) PROVE CoinsKept'
  <2> DEFINE smart == Type("wasm", "SmartContractState")
             new == [op |-> "smart", path |-> smart, want |-> smart, at |-> blocks]
  <2>1. new.op = "smart"
    OBVIOUS
  <2>2. Start(new, "ask", <<>>, IF json THEN "ok" ELSE "EncodeError")
    BY <1>10 DEF WasmQuery
  <2> HIDE DEF new
  <2> QED BY <1>8, <2>1, <2>2
<1> QED BY <1>3, <1>5, <1>6, <1>7, <1>9, <1>10 DEF Call

\* What is delivered is what was on its way.
LEMMA DeliverCarries == IInv /\ CoinsKept /\ Deliver => CoinsKept'
<1> SUFFICES ASSUME IInv, CoinsKept, Deliver PROVE CoinsKept'
  OBVIOUS
<1>1. /\ phase = "run" /\ phase' = "end" /\ delivered' = msgs
      /\ job' = job /\ objection' = objection
  BY DEF Deliver
<1>2. job.op \in {"cosmos", "method"}
  BY <1>1 DEF Deliver, IInv
<1>3. \A i \in DOMAIN msgs : ToSet(msgs[i].coins) = ToSet(job.given[i].coins)
  BY <1>1, <1>2 DEF CoinsKept, Carries
<1>4. CoinOrderIrrelevant'
  BY <1>1, <1>3 DEF CoinsKept, CoinOrderIrrelevant
<1> QED BY <1>1, <1>4 DEF CoinsKept

\* A transaction is refused for its coins only if they cannot be put in order.
LEMMA RefuseCarries == IInv /\ CoinsKept /\ Refuse => CoinsKept'
<1> SUFFICES ASSUME IInv, CoinsKept, Refuse PROVE CoinsKept'
  OBVIOUS
<1>1. /\ phase = "run" /\ phase' \in {"end", "aborted"} /\ delivered' = delivered
      /\ job' = job /\ job # NoJob
      /\ objection' \in Objections(msgs, job.signer)
  BY DEF Refuse, IInv
<1>2. job.op \in {"cosmos", "method"}
  BY <1>1 DEF Refuse, IInv
<1>3. ASSUME objection' = "coins", job.op = "cosmos"
      PROVE  \E i \in DOMAIN job.given :
               \/ Refusable(job.given[i].coins)
               \/ job.given[i].kind = "Send" /\ job.given[i].coins = <<>>
  <2>1. PICK i \in DOMAIN msgs : \/ ~ValidCoins(msgs[i].coins)
                                 \/ /\ msgs[i].type = Type("bank", "Send")
                                    /\ msgs[i].coins = <<>>
    BY <1>1, <1>3 DEF Objections
  <2>2. i \in DOMAIN job.given /\ Carries(msgs[i], job.given[i])
    BY <1>1, <1>3 DEF CoinsKept
  <2> QED BY <2>1, <2>2 DEF Carries
<1>4. CoinOrderIrrelevant'
  BY <1>1, <1>2, <1>3 DEF CoinsKept, CoinOrderIrrelevant
<1> QED BY <1>1, <1>4 DEF CoinsKept

\* An account is refused its coins only if they cannot be put in order.
LEMMA FundCarries == IInv /\ CoinsKept /\ Fund => CoinsKept'
<1> SUFFICES ASSUME IInv, CoinsKept, Fund PROVE CoinsKept'
  OBVIOUS
<1>1. /\ phase = "run" /\ phase' \in {"end", "aborted"} /\ delivered' = delivered
      /\ job' = job /\ job # NoJob /\ job.op = "account"
  BY DEF Fund, IInv
<1>2. job.coins \in Seq(Coin)
  BY <1>1 DEF CoinsKept
<1>3. objection' = "coins" /\ objection # "coins" => ~ValidCoins(coins_to_proto(job.coins))
  BY DEF Fund
<1>4. objection' = "coins" => Refusable(job.coins)
  <2>1. CASE objection = "coins"
    BY <1>1, <2>1 DEF CoinsKept, CoinOrderIrrelevant
  <2>2. CASE objection # "coins"
    BY <1>2, <1>3, <2>2, CoinsOrdered DEF Refusable
  <2> QED BY <2>1, <2>2
<1>5. CoinOrderIrrelevant'
  BY <1>1, <1>4 DEF CoinsKept, CoinOrderIrrelevant
<1> QED BY <1>1, <1>5 DEF CoinsKept

\* Whatever the number of coins and the order they are given in: the coins delivered
\* are those given, and execute_cosmos_msgs and init_account are refused for their coins
\* only if no order of them would do.
THEOREM CoinsInAnyOrder == Spec => []CoinOrderIrrelevant
<1>1. Init => CoinsKept
  BY DEF Init, NoJob, CoinsKept, CoinOrderIrrelevant
<1>2. IInv /\ CoinsKept /\ [Next]_vars => CoinsKept'
  <2> SUFFICES ASSUME IInv, CoinsKept, [Next]_vars PROVE CoinsKept'
    OBVIOUS
  <2>1. CASE Return
    BY <2>1 DEF Return, NoJob, CoinsKept, CoinOrderIrrelevant
  <2>2. CASE BeginBlock
    BY <2>2 DEF BeginBlock, CoinsKept, CoinOrderIrrelevant
  <2>3. CASE EndBlock
    BY <2>3 DEF EndBlock, CoinsKept, CoinOrderIrrelevant
  <2>4. CASE Ask
    BY <2>4 DEF Ask, CoinsKept, CoinOrderIrrelevant
  <2>5. CASE UNCHANGED vars
    BY <2>5 DEF vars, CoinsKept, CoinOrderIrrelevant
  <2> QED BY <2>1, <2>2, <2>3, <2>4, <2>5, CallCarries, DeliverCarries, RefuseCarries,
             FundCarries DEF Next
<1>3. CoinsKept => CoinOrderIrrelevant
  BY DEF CoinsKept
<1> QED BY <1>1, <1>2, <1>3, IInvAlways, PTL DEF Spec
===============================================================================
