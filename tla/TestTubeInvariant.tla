-------------------------- MODULE TestTubeInvariant --------------------------
(***************************************************************************)
(* The inductive invariant of TestTube, in two layers: Structure says where *)
(* the threads are and who holds what, and is inductive on its own; Phase    *)
(* relates the application, the register and the copies of an environment    *)
(* that one thread at a time has used, step by step of its operation, and is *)
(* inductive together with Structure.                                       *)
(***************************************************************************)
EXTENDS TestTube

\* The steps each exported function goes through, and the functions each
\* operation calls.
StepsOf(c) ==
  CASE c = "return"                         -> {"idle"}
    [] c = "InitTestEnv"                    -> {"lock", "make", "count", "publish"}
    [] c \in {"BeginBlock", "IncreaseTime"} -> {"load", "finalize", "context", "store"}
    [] c = "EndBlock"                       -> {"load", "finalize", "commit", "store"}
    [] c = "InitAccount"                    -> {"load", "fund", "store"}
    [] c = "SetParamSet"                    -> {"load", "lock", "set"}
    [] c \in {"AccountSequence", "Query"}   -> {"load", "read"}
    [] c = "Simulate"                       -> {"load", "lock", "simulate"}
    [] c = "Execute"                        -> {"load", "lock", "deliver", "store"}
    [] c = "CleanUp"                        -> {"load", "clean"}

CallsOf(o) ==
  CASE o = "none"    -> {"return"}
    [] o = "new"     -> {"InitTestEnv"}
    [] o = "account" -> {"BeginBlock", "InitAccount", "EndBlock"}
    [] o = "param"   -> {"BeginBlock", "SetParamSet", "EndBlock"}
    [] o = "tx"      -> {"BeginBlock", "AccountSequence", "Simulate", "Execute",
                         "EndBlock"}
    [] o = "time"    -> {"IncreaseTime", "EndBlock"}
    [] o = "sim"     -> {"AccountSequence", "Simulate"}
    [] o = "query"   -> {"Query"}
    [] o = "drop"    -> {"CleanUp"}

\* Between mu.Lock() and the deferred mu.Unlock().
InCritical(t) ==
  \/ at[t] \in {"make", "count", "publish", "set", "simulate", "deliver"}
  \/ at[t] = "store" /\ call[t] = "Execute"

Domains ==
  /\ DOMAIN chain = DOMAIN envRegister
  /\ DOMAIN acked = DOMAIN envRegister
  /\ DOMAIN apps \subseteq DOMAIN envRegister
  /\ \A e \in DOMAIN envRegister : envRegister[e].nodeHome = ""

Shape ==
  \A t \in Threads :
    /\ call[t] \in CallsOf(op[t])
    /\ at[t] \in StepsOf(call[t])
    /\ env[t].nodeHome = ""
    /\ op[t] = "sim" => ~fee[t]
    /\ op[t] \notin {"none", "new"} => cur[t] \in DOMAIN envRegister

MutexHeld == \A t \in Threads : mu = t <=> InCritical(t)

Numbering ==
  /\ DOMAIN envRegister \subseteq 1 .. envCounter
  /\ \A t \in Threads :
       at[t] = "publish" => envCounter > 0 /\ envCounter \notin DOMAIN envRegister

Structure == TypeOK /\ Domains /\ Shape /\ MutexHeld /\ Numbering

-------------------------------------------------------------------------------
\* Where the thread is with the block of its operation: not begun, being
\* opened, open, finalized for the second time, committed.
Beginning(t) == call[t] \in {"BeginBlock", "IncreaseTime"}
Closed(t)    == \/ op[t] \in {"sim", "query", "drop"}
                \/ Beginning(t) /\ at[t] \in {"load", "finalize"}
Opening(t)   == Beginning(t) /\ at[t] \in {"context", "store"}
Written(t)   == call[t] = "EndBlock" /\ at[t] = "commit"
Ended(t)     == call[t] = "EndBlock" /\ at[t] = "store"

\* Has the write of the operation reached the finalize state?
Applied(t) ==
  \/ call[t] = "EndBlock" /\ ok[t] /\ op[t] \in Kinds
  \/ call[t] \in {"InitAccount", "Execute"} /\ at[t] = "store"

Result(t) == IF Applied(t) THEN Plus(acked[cur[t]], op[t]) ELSE acked[cur[t]]

\* An environment nobody is using.
Quiet(e) ==
  /\ ~chain[e].live
  /\ envRegister[e].height = chain[e].last
  /\ chain[e].saved = acked[e] /\ chain[e].root = acked[e]

\* The environment the thread alone is using.
Phase(t) ==
  LET app == chain[cur[t]]
      reg == envRegister[cur[t]]
  IN /\ app.live <=> ~(Closed(t) \/ Ended(t))
     /\ app.saved = IF Ended(t) THEN Result(t) ELSE acked[cur[t]]
     /\ app.root = IF Written(t) \/ Ended(t) THEN Result(t) ELSE acked[cur[t]]
     /\ app.live => app.fin = Result(t)
     /\ reg.height = IF Closed(t) \/ Opening(t) \/ Ended(t)
                       THEN app.last ELSE app.last + 1
     /\ app.live /\ ~Opening(t) => reg.gen = app.gen
     /\ at[t] # "load" /\ ~Opening(t) => env[t] = reg
     /\ Opening(t) => IF at[t] = "context"
                        THEN env[t].height = app.last
                        ELSE env[t].height = app.last + 1 /\ env[t].gen = app.gen
     /\ call[t] \in {"Simulate", "Execute"} /\ at[t] # "store" =>
          answer[t] = acked[cur[t]]["tx"]

Using(t, e) == op[t] \notin {"none", "new"} /\ cur[t] = e

Fresh(t) == at[t] \in {"count", "publish"} =>
  env[t] = [height |-> FirstChain.last, gen |-> FirstChain.gen, nodeHome |-> ""]

Serial ==
  /\ \A e \in DOMAIN envRegister \ tainted :
       /\ \A t, u \in Threads : Using(t, e) /\ Using(u, e) => t = u
       /\ (\A t \in Threads : ~Using(t, e)) => Quiet(e)
       /\ \A t \in Threads : Using(t, e) => Phase(t)
  /\ \A t \in Threads : Fresh(t)
  /\ SerialUseNeverAborts

IInv == Structure /\ Serial

-------------------------------------------------------------------------------
(* What holds besides when no BaseApp is shared: also of the environments that *)
(* are tainted, by a panic of a closure.                                       *)

\* A thread works on environments of its own.
Owned ==
  \A t \in Threads :
    IF op[t] \in {"none", "new"} THEN cur[t] = 0
    ELSE cur[t] \in DOMAIN apps /\ apps[cur[t]] = t

\* The block a panic left open is never ended: the register is one height ahead, so
\* nothing gets past the application's check of the next block.
Stuck(e) ==
  /\ chain[e].live /\ envRegister[e].height = chain[e].last + 1
  /\ \A t \in Threads :
       Using(t, e) => Closed(t) /\ (at[t] = "finalize" => env[t] = envRegister[e])

\* The environments there will be once those being made are counted.
Creating == {t \in Threads : op[t] = "new" /\ at[t] # "publish"}
Bounded == envCounter + Cardinality(Creating) <= MaxEnvs

Unshared ==
  /\ Owned /\ Bounded
  /\ tainted \subseteq DOMAIN envRegister
  /\ \A e \in tainted : Stuck(e)
===============================================================================
