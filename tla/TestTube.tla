------------------------------- MODULE TestTube -------------------------------
(***************************************************************************)
(* The Go library (libcoreumtesttube/main.go with testenv/setup.go) and the *)
(* calls into it that BaseApp (test-tube/src/runner/app.rs) makes for each  *)
(* of its operations, on behalf of several threads of one test process.     *)
(*                                                                         *)
(* A test environment is an entry of envRegister, a sync.Map shared by all  *)
(* threads.  An exported function loads a COPY of the entry, works on it    *)
(* and, in most functions, stores it back; InitTestEnv, Execute, Simulate   *)
(* and SetParamSet hold the mutex mu meanwhile, the others do not.  Every   *)
(* access to the register, to the mutex and to the application is a step    *)
(* of its own, so that threads interleave where the code lets them.         *)
(*                                                                         *)
(* A Go panic in the library is not recovered and aborts the process: crash *)
(* says why and in which environment, and no step follows it.               *)
(***************************************************************************)
EXTENDS ChainApp, Integers, FiniteSets

CONSTANTS
  Threads,     \* the threads of the test process
  NoThread,    \* the value of mu when nobody holds it
  Ops,         \* the operations of BaseApp the threads may call
  Sharing,     \* may a thread use a BaseApp created by another one?
  MaxEnvs,     \* bound: test environments created
  MaxHeight    \* bound: no operation starts a block above this height

\* query stands for the operations that only read: query, get_param_set, the
\* block's height and time, the first validator.
AllOps == {"new", "account", "param", "tx", "time", "sim", "query", "drop"}

ASSUME ThreadsAssumption == IsFiniteSet(Threads) /\ NoThread \notin Threads
ASSUME OpsAssumption == Ops \subseteq AllOps
ASSUME SharingAssumption == Sharing \in BOOLEAN
ASSUME BoundsAssumption == MaxEnvs \in Nat /\ MaxHeight \in Nat

VARIABLES
  mu,          \* the holder of the library's mutex
  envCounter,  \* the number of environments created
  envRegister, \* id -> TestEnv
  chain,       \* id -> the application its TestEnv points to
  tempDirs,    \* how many node home directories there are on disk
  apps,        \* id -> the thread that owns the BaseApp with that id
  op,          \* the operation each thread is in
  call,        \* the exported function it is in, or is about to call
  at,          \* the next step of that function
  cur,         \* the environment it is used on
  env,         \* the copy of the TestEnv it loaded
  answer,      \* what its last call returned: an id or a sequence number
  fee,         \* does the next transaction signed carry its final fee?
  ok,          \* did the part of the operation that may fail succeed?
  crash,       \* why the process aborted, and in which environment
  acked,       \* history: id -> the writes of the operations that succeeded
  tainted      \* history: environments two threads used at once, or whose
               \* block a Rust panic left open

library == <<mu, envCounter, envRegister, tempDirs>>
frame   == <<op, call, cur, fee, ok>>
history == <<acked, tainted>>
vars    == <<library, chain, apps, frame, at, env, answer, crash, history>>

-------------------------------------------------------------------------------
\* A TestEnv: its context's block height, the finalize state its context was
\* made from, and its NodeHome.
TestEnv == [height : Nat, gen : Nat, nodeHome : {"", "dir"}]
NoEnv   == [height |-> 0, gen |-> 0, nodeHome |-> ""]

\* AccountSequence stands for AccountNumber too, and Query for GetParamSet and
\* the other functions that only read.
Calls == {"InitTestEnv", "BeginBlock", "EndBlock", "InitAccount", "SetParamSet",
          "IncreaseTime", "AccountSequence", "Simulate", "Execute", "Query",
          "CleanUp"}

\* The functions that hold the mutex from their first lines to their return.
LockedCalls == {"InitTestEnv", "SetParamSet", "Simulate", "Execute"}

\* Mutant: EndBlock commits without finalizing the block a second time.
BodyNoSecondFinalize(c) ==
  CASE c \in {"BeginBlock", "IncreaseTime"}  -> "finalize"
    [] c = "EndBlock"                        -> "commit"
    [] c = "InitAccount"                     -> "fund"
    [] c \in {"AccountSequence", "Query"}    -> "read"
    [] c = "CleanUp"                         -> "clean"
    [] c \in LockedCalls                     -> "lock"

\* What a function does once it has loaded the environment.
Body(c) ==
  CASE c \in {"BeginBlock", "IncreaseTime", "EndBlock"} -> "finalize"
    [] c = "InitAccount"                                -> "fund"
    [] c \in {"AccountSequence", "Query"}               -> "read"
    [] c = "CleanUp"                                    -> "clean"
    [] c \in LockedCalls                                -> "lock"

\* What a function does once it holds the mutex.
Locked(c) ==
  CASE c = "InitTestEnv" -> "make"
    [] c = "SetParamSet" -> "set"
    [] c = "Simulate"    -> "simulate"
    [] c = "Execute"     -> "deliver"

\* The first call of an operation.
FirstCall(o) ==
  CASE o = "new"                      -> "InitTestEnv"
    [] o \in {"account", "param", "tx"} -> "BeginBlock"
    [] o = "time"                     -> "IncreaseTime"
    [] o = "sim"                      -> "AccountSequence"
    [] o = "query"                    -> "Query"
    [] o = "drop"                     -> "CleanUp"

\* Mutant: an Err of the closure returns at once, as `?` would.
NextCallEarlyReturn(o, c, final, good) ==
  CASE c = "BeginBlock"      -> IF o = "account" THEN "InitAccount"
                                ELSE IF o = "param" THEN "SetParamSet"
                                ELSE "AccountSequence"
    [] c = "IncreaseTime"    -> "EndBlock"
    [] c = "AccountSequence" -> IF final THEN "Execute" ELSE "Simulate"
    [] c = "Simulate"        -> IF o # "sim" /\ good THEN "AccountSequence" ELSE "return"
    [] c \in {"InitAccount", "SetParamSet", "Execute"} -> "EndBlock"
    [] OTHER                 -> "return"

\* The call after c, when c succeeded or not and the fee is final or not.
\* An Err of the closure run_block runs, or of SetParamSet, still leads to
\* EndBlock.
NextCall(o, c, final, good) ==
  CASE c = "BeginBlock"      -> IF o = "account" THEN "InitAccount"
                                ELSE IF o = "param" THEN "SetParamSet"
                                ELSE "AccountSequence"
    [] c = "IncreaseTime"    -> "EndBlock"
    [] c = "AccountSequence" -> IF final THEN "Execute" ELSE "Simulate"
    [] c = "Simulate"        -> IF o = "sim" THEN "return"
                                ELSE IF good THEN "AccountSequence"
                                ELSE "EndBlock"
    [] c \in {"InitAccount", "SetParamSet", "Execute"} -> "EndBlock"
    [] OTHER                 -> "return"

-------------------------------------------------------------------------------
Init ==
  /\ mu = NoThread
  /\ envCounter = 0
  /\ envRegister = <<>>
  /\ chain = <<>>
  /\ tempDirs = 0
  /\ apps = <<>>
  /\ op = [t \in Threads |-> "none"]
  /\ call = [t \in Threads |-> "return"]
  /\ at = [t \in Threads |-> "idle"]
  /\ cur = [t \in Threads |-> 0]
  /\ env = [t \in Threads |-> NoEnv]
  /\ answer = [t \in Threads |-> 0]
  /\ fee = [t \in Threads |-> FALSE]
  /\ ok = [t \in Threads |-> FALSE]
  /\ crash = [why |-> "none", id |-> 0]
  /\ acked = <<>>
  /\ tainted = {}

Running == crash.why = "none"

At(t, step) == Running /\ at[t] = step

\* The thread goes on to the next step of the function it is in.
GoTo(t, step) == at' = [at EXCEPT ![t] = step] /\ UNCHANGED frame

Busy(e) == {u \in Threads : at[u] # "idle" /\ cur[u] = e}

\* The BaseApps a thread can reach: its own, or, shared, anybody's.
Reach(t) == {e \in DOMAIN apps : Sharing \/ apps[e] = t}

\* Operations that append a block.
BlockOps == {"account", "param", "tx", "time"}

\* A panic in the library: the process aborts.
Abort(t, why) ==
  /\ crash' = [why |-> why, id |-> cur[t]]
  /\ UNCHANGED <<library, chain, apps, frame, at, env, answer, history>>

\* Mutant: the transaction's fee stays to be estimated.
ReturnUnpriced(t, good, value) ==
  LET next == NextCall(op[t], call[t], fee[t], good)
      done == next = "return"
  IN /\ op' = [op EXCEPT ![t] = IF done THEN "none" ELSE @]
     /\ call' = [call EXCEPT ![t] = next]
     /\ at' = [at EXCEPT ![t] = IF done THEN "idle" ELSE "load"]
     /\ cur' = [cur EXCEPT ![t] = IF done THEN 0 ELSE @]
     /\ fee' = [fee EXCEPT ![t] = ~done /\ @]
     /\ ok' = [ok EXCEPT ![t] = ~done /\ good]
     /\ env' = [env EXCEPT ![t] = NoEnv]
     /\ answer' = [answer EXCEPT ![t] = value]

\* The function the thread is in returns, good or not, with an answer: on to
\* the next call of the operation, or back to the caller of the operation.
Return(t, good, value) ==
  LET next == NextCall(op[t], call[t], fee[t], good)
      done == next = "return"
  IN /\ op' = [op EXCEPT ![t] = IF done THEN "none" ELSE @]
     /\ call' = [call EXCEPT ![t] = next]
     /\ at' = [at EXCEPT ![t] = IF done THEN "idle" ELSE "load"]
     /\ cur' = [cur EXCEPT ![t] = IF done THEN 0 ELSE @]
     /\ fee' = [fee EXCEPT ![t] = ~done /\ (@ \/ call[t] = "Simulate")]
     /\ ok' = [ok EXCEPT ![t] = ~done /\ good]
     /\ env' = [env EXCEPT ![t] = NoEnv]
     /\ answer' = [answer EXCEPT ![t] = value]

\* Mutants: a function that returns without unlocking, and one that unlocks a
\* mutex it never locked.
UnlockNever(t) == UNCHANGED mu
UnlockAnyway(t) == mu' = NoThread

\* A function that locked mu unlocks it as it returns (defer mu.Unlock()).
Unlock(t) == mu' = IF call[t] \in LockedCalls THEN NoThread ELSE mu

-------------------------------------------------------------------------------
(* What a thread calls: an operation of BaseApp. *)

\* BaseApp::new, as long as the bound allows.
StartNew(t) ==
  /\ At(t, "idle") /\ "new" \in Ops
  /\ envCounter + Cardinality({u \in Threads : op[u] = "new"}) < MaxEnvs
  /\ op' = [op EXCEPT ![t] = "new"]
  /\ call' = [call EXCEPT ![t] = "InitTestEnv"]
  /\ at' = [at EXCEPT ![t] = "lock"]
  /\ UNCHANGED <<library, chain, apps, cur, env, answer, fee, ok, crash, history>>

\* Any other operation, on an environment within reach.  A transaction's fee is
\* set by the caller, or estimated by a simulation first; simulate_tx signs
\* with a placeholder.  BaseApp is dropped by its owner, when nobody uses it.
Start(t, e, o) ==
  /\ At(t, "idle") /\ o \in Ops \ {"new"}
  /\ e \in Reach(t)
  /\ o = "drop" => apps[e] = t /\ Busy(e) = {}
  /\ o \in BlockOps => chain[e].last + Cardinality(Busy(e)) < MaxHeight
  /\ op' = [op EXCEPT ![t] = o]
  /\ call' = [call EXCEPT ![t] = FirstCall(o)]
  /\ at' = [at EXCEPT ![t] = "load"]
  /\ cur' = [cur EXCEPT ![t] = e]
  /\ \E final \in IF o = "tx" THEN BOOLEAN ELSE {FALSE} :
       fee' = [fee EXCEPT ![t] = final]
  /\ tainted' = IF Busy(e) = {} THEN tainted ELSE tainted \union {e}
  /\ UNCHANGED <<library, chain, apps, env, answer, ok, crash, acked>>

-------------------------------------------------------------------------------
(* What the exported functions do. *)

\* loadEnv.
LoadEnv(t) ==
  /\ At(t, "load")
  /\ env' = [env EXCEPT ![t] = envRegister[cur[t]]]
  /\ GoTo(t, Body(call[t]))
  /\ UNCHANGED <<library, chain, apps, answer, crash, history>>

\* Mutant: the mutex is not waited for.
AcquireTaken(t) ==
  /\ At(t, "lock")
  /\ mu' = t
  /\ GoTo(t, Locked(call[t]))
  /\ UNCHANGED <<envCounter, envRegister, tempDirs, chain, apps, env, answer,
                 crash, history>>

\* mu.Lock().
Acquire(t) ==
  /\ At(t, "lock") /\ mu = NoThread
  /\ mu' = t
  /\ GoTo(t, Locked(call[t]))
  /\ UNCHANGED <<envCounter, envRegister, tempDirs, chain, apps, env, answer,
                 crash, history>>

\* InitTestEnv makes the directory and the chain, and runs the first block on
\* it.  Nobody else can see the chain yet; its NodeHome is not assigned.
\* Mutant: the first block is left uncommitted.
FirstChainOpen == FinalizeBlock(FinalizeBlock(InitChain))

FirstChain == Commit(FinalizeBlock(FinalizeBlock(InitChain)))

MakeEnv(t) ==
  /\ At(t, "make")
  /\ tempDirs' = tempDirs + 1
  /\ env' = [env EXCEPT ![t] =
               [height |-> FirstChain.last, gen |-> FirstChain.gen, nodeHome |-> ""]]
  /\ GoTo(t, "count")
  /\ UNCHANGED <<mu, envCounter, envRegister, chain, apps, answer, crash, history>>

\* Mutant: the counter runs down, below the handles of uint64.
CountDown(t) ==
  /\ At(t, "count")
  /\ envCounter' = envCounter - 1
  /\ GoTo(t, "publish")
  /\ UNCHANGED <<mu, envRegister, tempDirs, chain, apps, env, answer, crash, history>>

\* envCounter += 1
Count(t) ==
  /\ At(t, "count")
  /\ envCounter' = envCounter + 1
  /\ GoTo(t, "publish")
  /\ UNCHANGED <<mu, envRegister, tempDirs, chain, apps, env, answer, crash, history>>

\* id := envCounter; envRegister.Store(id, *env); return id
Publish(t) ==
  /\ At(t, "publish")
  /\ envRegister' = With(envRegister, envCounter, env[t])
  /\ chain' = With(chain, envCounter, FirstChain)
  /\ apps' = With(apps, envCounter, t)
  /\ acked' = With(acked, envCounter, EmptyStore)
  /\ Unlock(t) /\ Return(t, TRUE, envCounter)
  /\ UNCHANGED <<envCounter, tempDirs, crash, tainted>>

\* Mutant: EndBlock asks for the next height, as BeginNewBlock does.
HeightAhead(t) == env[t].height + 1

\* FinalizeBlock: BeginNewBlock asks for the height after the context's,
\* EndBlock for the context's own, which runs the open block's blockers again
\* and so writes what happened since to the root.
Height(t) == IF call[t] = "EndBlock" THEN env[t].height ELSE env[t].height + 1

Finalize(t) ==
  LET app == chain[cur[t]]
  IN /\ At(t, "finalize")
     /\ IF CanFinalize(app, Height(t))
          THEN /\ chain' = [chain EXCEPT ![cur[t]] = FinalizeBlock(app)]
               /\ GoTo(t, IF call[t] = "EndBlock" THEN "commit" ELSE "context")
               /\ UNCHANGED <<library, apps, env, answer, crash, history>>
          ELSE Abort(t, "height")

\* env.Ctx = env.App.NewContextLegacy(false, header), which dereferences the
\* finalize state.
NewContext(t) ==
  LET app == chain[cur[t]]
  IN /\ At(t, "context")
     /\ IF app.live
          THEN /\ env' = [env EXCEPT ![t] =
                            [height |-> @.height + 1, gen |-> app.gen,
                             nodeHome |-> @.nodeHome]]
               /\ GoTo(t, "store")
               /\ UNCHANGED <<library, chain, apps, answer, crash, history>>
          ELSE Abort(t, "state")

CommitBlock(t) ==
  /\ At(t, "commit")
  /\ IF chain[cur[t]].live
       THEN /\ chain' = [chain EXCEPT ![cur[t]] = Commit(@)]
            /\ GoTo(t, "store")
            /\ UNCHANGED <<library, apps, env, answer, crash, history>>
       ELSE Abort(t, "state")

\* Mutant: the copy is not stored back.
StoreEnvLost(t) ==
  /\ At(t, "store")
  /\ acked' = IF call[t] = "EndBlock" /\ ok[t] /\ op[t] \in Kinds
                THEN [acked EXCEPT ![cur[t]] = Plus(@, op[t])] ELSE acked
  /\ Unlock(t) /\ Return(t, TRUE, 0)
  /\ UNCHANGED <<envCounter, envRegister, tempDirs, chain, apps, crash, tainted>>

\* envRegister.Store(envId, env), the last step of BeginBlock, IncreaseTime,
\* InitAccount, EndBlock and Execute.  EndBlock ends the operation, which is
\* acknowledged when the call before it succeeded.
StoreEnv(t) ==
  /\ At(t, "store")
  /\ envRegister' = [envRegister EXCEPT ![cur[t]] = env[t]]
  /\ acked' = IF call[t] = "EndBlock" /\ ok[t] /\ op[t] \in Kinds
                THEN [acked EXCEPT ![cur[t]] = Plus(@, op[t])] ELSE acked
  /\ Unlock(t) /\ Return(t, TRUE, 0)
  /\ UNCHANGED <<envCounter, tempDirs, chain, apps, crash, tainted>>

\* InitAccount funds the account through the copied context.  Coins the bank
\* refuses make it panic.
Fund(t) ==
  /\ At(t, "fund")
  /\ \/ /\ chain' = [chain EXCEPT ![cur[t]] = Write(@, env[t].gen, "account")]
        /\ GoTo(t, "store")
        /\ UNCHANGED <<library, apps, env, answer, crash, history>>
     \/ Abort(t, "input")

\* SetParamSet writes through the copied context, refuses what it cannot
\* unpack, or panics on values the subspace finds invalid.  It stores nothing.
SetParam(t) ==
  /\ At(t, "set")
  /\ \/ /\ \/ /\ chain' = [chain EXCEPT ![cur[t]] = Write(@, env[t].gen, "param")]
              /\ Return(t, TRUE, 0)
           \/ /\ UNCHANGED chain
              /\ Return(t, FALSE, 0)
        /\ Unlock(t)
        /\ UNCHANGED <<envCounter, envRegister, tempDirs, apps, crash, history>>
     \/ Abort(t, "input")

\* AccountSequence and Query read through the copied context, without the mutex.
ReadStore(t) ==
  /\ At(t, "read")
  /\ Return(t, TRUE, Read(chain[cur[t]], env[t].gen)["tx"])
  /\ UNCHANGED <<library, chain, apps, crash, history>>

\* Simulate runs the transaction over the root, where no transaction of the open block
\* is: it is refused when its sequence is not the one there, and may be refused anyway.
Simulate(t) ==
  /\ At(t, "simulate")
  /\ \E accepted \in BOOLEAN :
       /\ accepted => answer[t] = chain[cur[t]].root["tx"]
       /\ Return(t, accepted, 0)
  /\ Unlock(t)
  /\ UNCHANGED <<envCounter, envRegister, tempDirs, chain, apps, crash, history>>

\* Execute delivers the transaction in the open finalize state, and panics when
\* there is none, when the sequence is not the one there, and whenever the
\* transaction fails for another reason.
Deliver(t) ==
  LET app == chain[cur[t]]
  IN /\ At(t, "deliver")
     /\ \/ /\ app.live /\ answer[t] = app.fin["tx"]
           /\ chain' = [chain EXCEPT ![cur[t]] = DeliverTx(app)]
           /\ GoTo(t, "store")
           /\ UNCHANGED <<library, apps, env, answer, crash, history>>
        \/ Abort(t, IF ~app.live THEN "state"
                    ELSE IF answer[t] # app.fin["tx"] THEN "sequence" ELSE "input")

\* CleanUp removes the directory and the entry of an environment that has a
\* NodeHome; the Rust side forgets the BaseApp.
CleanUp(t) ==
  /\ At(t, "clean")
  /\ IF env[t].nodeHome = ""
       THEN UNCHANGED <<tempDirs, envRegister>>
       ELSE /\ tempDirs' = tempDirs - 1
            /\ envRegister' = [e \in DOMAIN envRegister \ {cur[t]} |-> envRegister[e]]
  /\ apps' = [e \in DOMAIN apps \ {cur[t]} |-> apps[e]]
  /\ Return(t, TRUE, 0)
  /\ UNCHANGED <<mu, envCounter, chain, crash, history>>

-------------------------------------------------------------------------------
\* A Rust panic between BeginBlock and EndBlock: the unwrap of a parsed
\* denomination, chain id or signature in the closure run_block runs, or of a
\* subspace name with a NUL.  The thread unwinds, its caller may catch it, and
\* nobody calls EndBlock.
Unwind(t) ==
  /\ At(t, "load")
  /\ \/ op[t] = "tx" /\ call[t] \in {"AccountSequence", "Simulate", "Execute"}
     \/ call[t] = "SetParamSet"
  /\ op' = [op EXCEPT ![t] = "none"]
  /\ call' = [call EXCEPT ![t] = "return"]
  /\ at' = [at EXCEPT ![t] = "idle"]
  /\ cur' = [cur EXCEPT ![t] = 0]
  /\ fee' = [fee EXCEPT ![t] = FALSE]
  /\ ok' = [ok EXCEPT ![t] = FALSE]
  /\ tainted' = tainted \union {cur[t]}
  /\ UNCHANGED <<library, chain, apps, env, answer, crash, acked>>

\* Two threads in the same application at once, one of them writing and not
\* both under the mutex: the maps they share may be caught changing, which Go
\* answers by aborting.
Writing == {"finalize", "commit", "fund", "set", "deliver"}
Reading == {"context", "read", "simulate"}

DataRace(t, u) ==
  /\ t # u /\ Running
  /\ at[t] \in Writing /\ at[u] \in Writing \union Reading
  /\ cur[t] = cur[u]
  /\ Abort(t, "race")

-------------------------------------------------------------------------------
Begin(t) == StartNew(t) \/ \E e \in DOMAIN apps, o \in Ops : Start(t, e, o)

\* What a thread does next in an operation it began.
Work(t) ==
  \/ LoadEnv(t) \/ Acquire(t)
  \/ MakeEnv(t) \/ Count(t) \/ Publish(t)
  \/ Finalize(t) \/ NewContext(t) \/ CommitBlock(t) \/ StoreEnv(t)
  \/ Fund(t) \/ SetParam(t) \/ ReadStore(t) \/ Simulate(t) \/ Deliver(t)
  \/ CleanUp(t)

Next ==
  \E t \in Threads :
    \/ Begin(t) \/ Work(t) \/ Unwind(t)
    \/ \E u \in Threads : DataRace(t, u)

Spec == Init /\ [][Next]_vars

\* The scheduler runs every thread, and a Go mutex in starvation mode is handed
\* to the goroutine that has waited longest.
Fairness == \A t \in Threads : WF_vars(Work(t)) /\ SF_vars(Acquire(t))

FairSpec == Spec /\ Fairness

-------------------------------------------------------------------------------
Steps == {"idle", "load", "lock", "make", "count", "publish", "finalize",
          "context", "commit", "store", "fund", "set", "read", "simulate",
          "deliver", "clean"}

Reasons == {"none", "height", "state", "sequence", "race", "input"}

\* Every variable has its type.
TypeOK ==
  /\ mu \in Threads \union {NoThread}
  /\ envCounter \in Nat
  /\ DOMAIN envRegister \subseteq Nat /\ DOMAIN chain \subseteq Nat
  /\ DOMAIN acked \subseteq Nat /\ DOMAIN apps \subseteq Nat
  /\ envRegister \in [DOMAIN envRegister -> TestEnv]
  /\ chain \in [DOMAIN chain -> App]
  /\ apps \in [DOMAIN apps -> Threads]
  /\ acked \in [DOMAIN acked -> Store]
  /\ tempDirs \in Int
  /\ op \in [Threads -> AllOps \union {"none"}]
  /\ call \in [Threads -> Calls \union {"return"}]
  /\ at \in [Threads -> Steps]
  /\ cur \in [Threads -> Nat]
  /\ env \in [Threads -> TestEnv]
  /\ answer \in [Threads -> Nat]
  /\ fee \in [Threads -> BOOLEAN]
  /\ ok \in [Threads -> BOOLEAN]
  /\ crash \in [why : Reasons, id : Nat]
  /\ tainted \subseteq Nat

\* The handle InitTestEnv is about to return names no environment yet: two
\* BaseApps never share an environment (the mutex of main.go:37).
HandlesUnique ==
  \A t \in Threads : at[t] = "publish" => envCounter \notin DOMAIN envRegister

\* Used by one thread at a time, with no panic of its closures, an environment
\* never aborts the process over a block height, a missing finalize state, a
\* sequence or a race: the calls BaseApp makes leave every exported function
\* the state it needs, whatever other threads do to other environments.
SerialUseNeverAborts ==
  crash.why \in {"height", "state", "sequence", "race"} => crash.id \in tainted

\* Between operations no block is open and the register agrees with the chain.
BetweenBlocks ==
  \A e \in DOMAIN apps \ tainted :
    Running /\ Busy(e) = {} =>
      ~chain[e].live /\ envRegister[e].height = chain[e].last

\* Between operations an environment has committed exactly the writes of the
\* operations whose library call succeeded: none of them is lost (the finalize
\* state Commit drops holds nothing that was not written through), and a call
\* that answers with an error leaves nothing behind.
AckedIsCommitted ==
  \A e \in DOMAIN apps \ tainted :
    Running /\ Busy(e) = {} =>
      chain[e].saved = acked[e] /\ chain[e].root = acked[e]

\* A query sees what was reported before it, though it reads through the context
\* of a block that has ended.
QueriesSeeAcked ==
  [][\A t \in Threads :
       op[t] = "query" /\ at[t] = "read" /\ at'[t] = "idle" /\ cur[t] \notin tainted
         => answer'[t] = acked[cur[t]]["tx"]]_vars

\* How many calls an operation makes at most, from this one on, and how many steps a
\* function takes at most, from this one on: the longest operation is a transaction
\* whose fee is to be estimated.
CallsAhead(c, final) ==
  CASE c = "return"          -> 0
    [] c = "BeginBlock"      -> 6
    [] c = "AccountSequence" -> IF final THEN 3 ELSE 5
    [] c = "Simulate"        -> 4
    [] c \in {"InitAccount", "SetParamSet", "Execute", "IncreaseTime"} -> 2
    [] OTHER                 -> 1

StepsAhead(step) ==
  CASE step = "idle" -> 0
    [] step = "load" -> 5
    [] step = "lock" -> 4
    [] step \in {"finalize", "make"} -> 3
    [] step \in {"context", "commit", "count", "fund", "deliver"} -> 2
    [] OTHER -> 1

Ahead(t) == 5 * CallsAhead(call[t], fee[t]) + StepsAhead(at[t])

\* Every step of a thread brings its operation nearer to its end, whatever fails and
\* whatever others do meanwhile: the fee is estimated once, and no call is repeated.
OperationsAdvance ==
  [][\A t \in Threads :
       at[t] # "idle" => \/ Ahead(t)' < Ahead(t)
                         \/ UNCHANGED <<at[t], call[t], fee[t]>>]_vars

\* Who waits for the mutex waits for a thread between its mu.Lock() and its return, and
\* that one waits for nobody.
MutexComesFree ==
  \A t \in Threads :
    at[t] = "lock" /\ mu # NoThread =>
      call[mu] \in LockedCalls /\ at[mu] \notin {"idle", "load", "lock"}

\* Every operation returns, unless the process aborts: nobody keeps the mutex.
OperationsEnd ==
  \A t \in Threads : at[t] # "idle" ~> (at[t] = "idle" \/ ~Running)

\* The committed blocks and the reported writes behave as chains of their own,
\* one write to a block and no report before its commit, as long as no BaseApp
\* is shared: the promise of TestChain.
Promise == INSTANCE TestChain WITH
  Ids <- 1 .. MaxEnvs,
  ledger <- [e \in DOMAIN chain |->
               [height |-> chain[e].last, store |-> chain[e].saved]],
  reported <- acked

KeepsPromise == Promise!Spec

\* "Cleanup the test environment when the app is dropped." (app.rs:322): no
\* environment without a BaseApp is left once nobody creates or drops one.
DropCleansUp ==
  Running /\ (\A t \in Threads : op[t] \notin {"new", "drop"}) =>
    DOMAIN envRegister \subseteq DOMAIN apps /\ tempDirs <= Cardinality(DOMAIN apps)

\* "Ensure that all execution that happens in `execution` happens in a block and
\* end block properly, no matter it suceeds or fails." (app.rs:271): a block is
\* open only while its operation is still on its way to EndBlock.
BlockEnded ==
  \A e \in DOMAIN chain : chain[e].live => Running /\ Busy(e) # {}
===============================================================================
