--------------------------- MODULE TestTube_proofs ---------------------------
(* Proofs about TestTube, for any number of threads, environments and blocks. *)
EXTENDS TestTubeInvariant, TLAPS

-------------------------------------------------------------------------------
(* The application. *)

LEMMA PlusType ==
  ASSUME NEW s \in Store, NEW k \in Kinds
  PROVE  Plus(s, k) \in Store
BY DEF Store, Plus, Kinds

\* What each operation of the application makes of its fields.
LEMMA FinalizeFields ==
  ASSUME NEW app \in App
  PROVE  /\ FinalizeBlock(app) \in App
         /\ FinalizeBlock(app).last = app.last
         /\ FinalizeBlock(app).saved = app.saved
         /\ FinalizeBlock(app).live
         /\ app.live => /\ FinalizeBlock(app).root = app.fin
                        /\ FinalizeBlock(app).fin = app.fin
                        /\ FinalizeBlock(app).gen = app.gen
         /\ ~app.live => /\ FinalizeBlock(app).root = app.root
                         /\ FinalizeBlock(app).fin = app.root
<1> DEFINE n == app.gen + 1
<1>1. n \in Nat
  BY DEF App
<1> HIDE DEF n
<1>2. [app EXCEPT !.live = TRUE, !.fin = app.root, !.gen = n] \in App
  BY <1>1 DEF App
<1>3. app.live => [app EXCEPT !.root = app.fin] \in App
  BY DEF App
<1>4. FinalizeBlock(app) =
        IF app.live THEN [app EXCEPT !.root = app.fin]
        ELSE [app EXCEPT !.live = TRUE, !.fin = app.root, !.gen = n]
  BY DEF FinalizeBlock, n
<1> QED BY <1>1, <1>2, <1>3, <1>4 DEF App

LEMMA CommitFields ==
  ASSUME NEW app \in App
  PROVE  /\ Commit(app) \in App
         /\ Commit(app).last = app.last + 1
         /\ Commit(app).root = app.root
         /\ Commit(app).saved = app.root
         /\ ~Commit(app).live
         /\ Commit(app).fin = app.fin
         /\ Commit(app).gen = app.gen
<1> DEFINE n == app.last + 1
<1>1. n \in Nat
  BY DEF App
<1> HIDE DEF n
<1>2. Commit(app) = [app EXCEPT !.last = n, !.saved = app.root, !.live = FALSE]
  BY DEF Commit, n
<1>3. Commit(app).last = n
  BY <1>1, <1>2 DEF App
<1>4. Commit(app).last = app.last + 1
  BY <1>3 DEF n
<1> QED BY <1>1, <1>2, <1>4 DEF App

LEMMA WriteFields ==
  ASSUME NEW app \in App, NEW g \in Nat, NEW k \in Kinds
  PROVE  /\ Write(app, g, k) \in App
         /\ Write(app, g, k).last = app.last
         /\ Write(app, g, k).root = app.root
         /\ Write(app, g, k).saved = app.saved
         /\ Write(app, g, k).live = app.live
         /\ Write(app, g, k).gen = app.gen
         /\ Attached(app, g) => Write(app, g, k).fin = Plus(app.fin, k)
<1>1. app.fin \in Store
  BY DEF App
<1>2. Plus(app.fin, k) \in Store
  BY <1>1, PlusType
<1> QED BY <1>2 DEF Write, App

LEMMA DeliverFields ==
  ASSUME NEW app \in App
  PROVE  /\ DeliverTx(app) \in App
         /\ DeliverTx(app).last = app.last
         /\ DeliverTx(app).root = app.root
         /\ DeliverTx(app).saved = app.saved
         /\ DeliverTx(app).live = app.live
         /\ DeliverTx(app).gen = app.gen
         /\ DeliverTx(app).fin = Plus(app.fin, "tx")
<1>1. app.fin \in Store /\ "tx" \in Kinds
  BY DEF App, Kinds
<1>2. Plus(app.fin, "tx") \in Store
  BY <1>1, PlusType
<1> QED BY <1>2 DEF DeliverTx, App

LEMMA ReadType ==
  ASSUME NEW app \in App, NEW g \in Nat
  PROVE  Read(app, g) \in Store /\ Read(app, g)["tx"] \in Nat
BY DEF Read, App, Store, Kinds

LEMMA FirstChainFields ==
  /\ FirstChain \in App
  /\ FirstChain.last = 1
  /\ ~FirstChain.live
  /\ FirstChain.root = EmptyStore
  /\ FirstChain.saved = EmptyStore
<1>1. /\ InitChain \in App
      /\ InitChain.last = 0 /\ InitChain.live
      /\ InitChain.fin = EmptyStore
  BY DEF InitChain, App, Store, EmptyStore
<1> DEFINE one == FinalizeBlock(InitChain)
           two == FinalizeBlock(one)
<1>2. one \in App /\ one.last = 0 /\ one.live /\ one.fin = EmptyStore
  BY <1>1, FinalizeFields
<1>3. two \in App /\ two.last = 0 /\ two.root = EmptyStore
  BY <1>2, FinalizeFields
<1> QED BY <1>3, CommitFields DEF FirstChain
-------------------------------------------------------------------------------
(* Where the threads are. *)

\* A function returns to its caller's end or to another function of the same
\* operation, one that begins by loading the environment.
LEMMA NextCallShape ==
  ASSUME NEW o \in AllOps, NEW c \in CallsOf(o), NEW final \in BOOLEAN,
         NEW good \in BOOLEAN, o = "sim" => ~final
  PROVE  \/ NextCall(o, c, final, good) = "return"
         \/ /\ NextCall(o, c, final, good) \in CallsOf(o) \ {"InitTestEnv"}
            /\ o # "new"
BY DEF AllOps, CallsOf, NextCall

LEMMA LoadIsFirst ==
  ASSUME NEW o \in AllOps, NEW c \in CallsOf(o) \ {"InitTestEnv"}
  PROVE  "load" \in StepsOf(c) /\ c \in Calls
BY DEF AllOps, CallsOf, StepsOf, Calls

LEMMA OpsHaveCalls ==
  ASSUME NEW o \in AllOps
  PROVE  CallsOf(o) \subseteq Calls
BY DEF AllOps, CallsOf, Calls

\* What Return(t, ...) does to the threads.
LEMMA ReturnFrame ==
  ASSUME Structure, NEW t \in Threads, NEW good \in BOOLEAN, NEW value \in Nat,
         Return(t, good, value), at[t] # "idle"
  PROVE  /\ op' \in [Threads -> AllOps \union {"none"}]
         /\ call' \in [Threads -> Calls \union {"return"}]
         /\ at' \in [Threads -> Steps]
         /\ cur' \in [Threads -> Nat]
         /\ env' \in [Threads -> TestEnv]
         /\ answer' \in [Threads -> Nat]
         /\ fee' \in [Threads -> BOOLEAN]
         /\ ok' \in [Threads -> BOOLEAN]
         /\ call'[t] \in CallsOf(op'[t])
         /\ at'[t] \in StepsOf(call'[t])
         /\ at'[t] \in {"idle", "load"}
         /\ env'[t] = NoEnv
         /\ op'[t] = "sim" => ~fee'[t]
         /\ op'[t] \notin {"none", "new"} => cur'[t] \in DOMAIN envRegister
         /\ \A u \in Threads \ {t} :
              /\ op'[u] = op[u] /\ call'[u] = call[u] /\ at'[u] = at[u]
              /\ cur'[u] = cur[u] /\ fee'[u] = fee[u] /\ ok'[u] = ok[u]
              /\ env'[u] = env[u] /\ answer'[u] = answer[u]
<1> DEFINE next == NextCall(op[t], call[t], fee[t], good)
<1>1. /\ op[t] \in AllOps \union {"none"} /\ call[t] \in CallsOf(op[t])
      /\ at[t] \in StepsOf(call[t]) /\ fee[t] \in BOOLEAN /\ ok[t] \in BOOLEAN
      /\ op[t] = "sim" => ~fee[t]
      /\ op[t] \notin {"none", "new"} => cur[t] \in DOMAIN envRegister
  BY DEF Structure, TypeOK, Shape
<1>2. op[t] \in AllOps
  BY <1>1 DEF CallsOf, StepsOf
<1>3. \/ next = "return"
      \/ next \in CallsOf(op[t]) \ {"InitTestEnv"} /\ op[t] # "new"
  BY <1>1, <1>2, NextCallShape
<1>4. next \in Calls \union {"return"}
  BY <1>2, <1>3, LoadIsFirst
<1>5. NoEnv \in TestEnv /\ {"idle", "load"} \subseteq Steps
  BY DEF NoEnv, TestEnv, Steps
<1>6. next # "return" => "load" \in StepsOf(next)
  BY <1>2, <1>3, LoadIsFirst
<1>7. "idle" \in StepsOf("return") /\ "return" \in CallsOf("none")
  BY DEF StepsOf, CallsOf
<1>8. op[t] = "sim" /\ call[t] = "Simulate" => next = "return"
  BY DEF NextCall
<1> HIDE DEF next
<1>9. /\ op' = [op EXCEPT ![t] = IF next = "return" THEN "none" ELSE @]
      /\ call' = [call EXCEPT ![t] = next]
      /\ at' = [at EXCEPT ![t] = IF next = "return" THEN "idle" ELSE "load"]
      /\ cur' = [cur EXCEPT ![t] = IF next = "return" THEN 0 ELSE @]
      /\ fee' = [fee EXCEPT ![t] = next # "return" /\ (@ \/ call[t] = "Simulate")]
      /\ ok' = [ok EXCEPT ![t] = next # "return" /\ good]
      /\ env' = [env EXCEPT ![t] = NoEnv]
      /\ answer' = [answer EXCEPT ![t] = value]
  BY DEF Return, next
<1>10. /\ op \in [Threads -> AllOps \union {"none"}]
       /\ call \in [Threads -> Calls \union {"return"}]
       /\ at \in [Threads -> Steps] /\ cur \in [Threads -> Nat]
       /\ env \in [Threads -> TestEnv] /\ answer \in [Threads -> Nat]
       /\ fee \in [Threads -> BOOLEAN] /\ ok \in [Threads -> BOOLEAN]
  BY DEF Structure, TypeOK
<1>11. /\ op' \in [Threads -> AllOps \union {"none"}]
       /\ call' \in [Threads -> Calls \union {"return"}]
       /\ at' \in [Threads -> Steps]
       /\ cur' \in [Threads -> Nat]
       /\ env' \in [Threads -> TestEnv]
       /\ answer' \in [Threads -> Nat]
       /\ fee' \in [Threads -> BOOLEAN]
       /\ ok' \in [Threads -> BOOLEAN]
  BY <1>1, <1>4, <1>5, <1>9, <1>10
<1>12. /\ op'[t] = IF next = "return" THEN "none" ELSE op[t]
       /\ call'[t] = next
       /\ at'[t] = IF next = "return" THEN "idle" ELSE "load"
       /\ cur'[t] = IF next = "return" THEN 0 ELSE cur[t]
       /\ fee'[t] = (next # "return" /\ (fee[t] \/ call[t] = "Simulate"))
       /\ env'[t] = NoEnv
  BY <1>9, <1>10
<1>13. \A u \in Threads \ {t} :
         /\ op'[u] = op[u] /\ call'[u] = call[u] /\ at'[u] = at[u]
         /\ cur'[u] = cur[u] /\ fee'[u] = fee[u] /\ ok'[u] = ok[u]
         /\ env'[u] = env[u] /\ answer'[u] = answer[u]
  BY <1>9, <1>10
<1>14. CASE next = "return"
  BY <1>7, <1>11, <1>12, <1>13, <1>14
<1>15. CASE next # "return"
  BY <1>1, <1>3, <1>6, <1>8, <1>11, <1>12, <1>13, <1>15
<1> QED BY <1>14, <1>15
-------------------------------------------------------------------------------
(* Structure is inductive: one lemma per kind of step. *)

LEMMA StructureInit == Init => Structure
<1> SUFFICES ASSUME Init PROVE Structure
  OBVIOUS
<1>1. DOMAIN <<>> = {} /\ \A S : <<>> \in [{} -> S]
  OBVIOUS
<1>2. NoEnv \in TestEnv /\ "none" \in Reasons /\ "idle" \in Steps
  BY DEF NoEnv, TestEnv, Reasons, Steps
<1>3. TypeOK
  BY <1>1, <1>2 DEF Init, TypeOK
<1>4. Domains /\ Numbering
  BY <1>1 DEF Init, Domains, Numbering
<1>5. Shape
  BY DEF Init, Shape, NoEnv, CallsOf, StepsOf
<1>6. MutexHeld
  BY ThreadsAssumption DEF Init, MutexHeld, InCritical
<1> QED BY <1>3, <1>4, <1>5, <1>6 DEF Structure

\* A process that aborts changes nothing else.
LEMMA StructureAbort ==
  ASSUME Structure, NEW t \in Threads, NEW why \in Reasons, Abort(t, why)
  PROVE  Structure'
BY DEF Structure, TypeOK, Domains, Shape, MutexHeld, Numbering, InCritical, Abort,
       library, frame, history

LEMMA StructureStutter ==
  ASSUME Structure, UNCHANGED vars
  PROVE  Structure'
BY DEF Structure, TypeOK, Domains, Shape, MutexHeld, Numbering, InCritical, vars,
       library, frame, history

LEMMA StructureStartNew ==
  ASSUME Structure, NEW t \in Threads, StartNew(t)
  PROVE  Structure'
<1> USE DEF StartNew, At, library, history
<1>1. TypeOK'
  BY DEF Structure, TypeOK, AllOps, Calls, Steps
<1>2. Domains'
  BY DEF Structure, Domains
<1>0. /\ "InitTestEnv" \in CallsOf("new") /\ "lock" \in StepsOf("InitTestEnv")
      /\ "return" \in CallsOf("none") /\ "idle" \in StepsOf("return")
  BY DEF CallsOf, StepsOf
<1>3. Shape'
  BY <1>0 DEF Structure, TypeOK, Shape
<1>4. MutexHeld'
  BY DEF Structure, TypeOK, MutexHeld, InCritical
<1>5. Numbering'
  BY DEF Structure, TypeOK, Numbering
<1> QED BY <1>1, <1>2, <1>3, <1>4, <1>5 DEF Structure

LEMMA StructureStart ==
  ASSUME Structure, NEW t \in Threads, NEW e \in DOMAIN apps, NEW o \in Ops,
         Start(t, e, o)
  PROVE  Structure'
<1> USE DEF Start, At, library, history
<1>1. o \in AllOps \ {"new"} /\ e \in DOMAIN envRegister /\ e \in Nat
  BY OpsAssumption DEF Structure, TypeOK, Domains
<1>2. /\ FirstCall(o) \in CallsOf(o) \ {"InitTestEnv"}
      /\ FirstCall(o) \in Calls /\ "load" \in StepsOf(FirstCall(o))
  BY <1>1 DEF AllOps, FirstCall, CallsOf, StepsOf, Calls
<1>3. fee' \in [Threads -> BOOLEAN]
  BY DEF Structure, TypeOK
<1>4. TypeOK'
  BY <1>1, <1>2, <1>3 DEF Structure, TypeOK, Steps
<1>5. Domains'
  BY DEF Structure, Domains
<1>6. o = "sim" => ~fee'[t]
  BY DEF Structure, TypeOK
<1>7. \A u \in Threads \ {t} : fee'[u] = fee[u]
  BY DEF Structure, TypeOK
<1>8. Shape'
  BY <1>1, <1>2, <1>6, <1>7 DEF Structure, TypeOK, Shape
<1>9. MutexHeld'
  BY DEF Structure, TypeOK, MutexHeld, InCritical
<1>10. Numbering'
  BY DEF Structure, TypeOK, Numbering
<1> QED BY <1>4, <1>5, <1>8, <1>9, <1>10 DEF Structure

LEMMA StructureUnwind ==
  ASSUME Structure, NEW t \in Threads, Unwind(t)
  PROVE  Structure'
<1> USE DEF Unwind, At, library, history
<1>1. TypeOK'
  BY DEF Structure, TypeOK, Steps
<1>2. Domains'
  BY DEF Structure, Domains
<1>0. /\ "InitTestEnv" \in CallsOf("new") /\ "lock" \in StepsOf("InitTestEnv")
      /\ "return" \in CallsOf("none") /\ "idle" \in StepsOf("return")
  BY DEF CallsOf, StepsOf
<1>3. Shape'
  BY <1>0 DEF Structure, TypeOK, Shape
<1>4. MutexHeld'
  BY DEF Structure, TypeOK, MutexHeld, InCritical
<1>5. Numbering'
  BY DEF Structure, TypeOK, Numbering
<1> QED BY <1>1, <1>2, <1>3, <1>4, <1>5 DEF Structure
\* What the step a thread is at says of the function and the operation it is in.
LEMMA WhereAt ==
  ASSUME Structure, NEW t \in Threads
  PROVE  /\ at[t] = "idle" <=> call[t] = "return"
         /\ at[t] = "idle" <=> op[t] = "none"
         /\ at[t] = "load" => call[t] \in Calls \ {"InitTestEnv"}
         /\ at[t] = "lock" => call[t] \in LockedCalls
         /\ at[t] \in {"make", "count", "publish"} => call[t] = "InitTestEnv"
         /\ call[t] = "InitTestEnv" <=> op[t] = "new"
         /\ at[t] = "finalize" => call[t] \in {"BeginBlock", "IncreaseTime", "EndBlock"}
         /\ at[t] = "context" => call[t] \in {"BeginBlock", "IncreaseTime"}
         /\ at[t] = "commit" => call[t] = "EndBlock"
         /\ at[t] = "store" => call[t] \in {"BeginBlock", "IncreaseTime", "EndBlock",
                                            "InitAccount", "Execute"}
         /\ at[t] = "fund" => call[t] = "InitAccount" /\ op[t] = "account"
         /\ at[t] = "set" => call[t] = "SetParamSet" /\ op[t] = "param"
         /\ at[t] = "read" => call[t] \in {"AccountSequence", "Query"}
         /\ at[t] = "simulate" => call[t] = "Simulate"
         /\ at[t] = "deliver" => call[t] = "Execute" /\ op[t] = "tx"
         /\ at[t] = "clean" => call[t] = "CleanUp" /\ op[t] = "drop"
         /\ InCritical(t) => call[t] \in LockedCalls
         /\ at[t] # "idle" /\ op[t] # "new" => /\ cur[t] \in DOMAIN envRegister
                                               /\ op[t] \in AllOps
<1>1. /\ op[t] \in AllOps \union {"none"} /\ call[t] \in CallsOf(op[t])
      /\ at[t] \in StepsOf(call[t])
      /\ op[t] \notin {"none", "new"} => cur[t] \in DOMAIN envRegister
  BY DEF Structure, TypeOK, Shape
<1>2. /\ call[t] = "return" <=> op[t] = "none"
      /\ call[t] = "InitTestEnv" <=> op[t] = "new"
      /\ call[t] = "InitAccount" => op[t] = "account"
      /\ call[t] = "SetParamSet" => op[t] = "param"
      /\ call[t] = "Execute" => op[t] = "tx"
      /\ call[t] = "CleanUp" => op[t] = "drop"
      /\ call[t] \in Calls \union {"return"}
  BY <1>1 DEF AllOps, CallsOf, Calls
<1>3. /\ at[t] = "idle" <=> call[t] = "return"
      /\ at[t] = "load" => call[t] \notin {"InitTestEnv", "return"}
      /\ at[t] = "lock" => call[t] \in LockedCalls
      /\ at[t] \in {"make", "count", "publish"} => call[t] = "InitTestEnv"
      /\ at[t] = "finalize" => call[t] \in {"BeginBlock", "IncreaseTime", "EndBlock"}
      /\ at[t] = "context" => call[t] \in {"BeginBlock", "IncreaseTime"}
      /\ at[t] = "commit" => call[t] = "EndBlock"
      /\ at[t] = "store" => call[t] \in {"BeginBlock", "IncreaseTime", "EndBlock",
                                         "InitAccount", "Execute"}
      /\ at[t] = "fund" => call[t] = "InitAccount"
      /\ at[t] = "set" => call[t] = "SetParamSet"
      /\ at[t] = "read" => call[t] \in {"AccountSequence", "Query"}
      /\ at[t] = "simulate" => call[t] = "Simulate"
      /\ at[t] = "deliver" => call[t] = "Execute"
      /\ at[t] = "clean" => call[t] = "CleanUp"
  BY <1>1, <1>2 DEF StepsOf, Calls, LockedCalls
<1>4. InCritical(t) => call[t] \in LockedCalls
  BY <1>3 DEF InCritical, LockedCalls
<1> QED BY <1>1, <1>2, <1>3, <1>4

\* Going on inside a function, with the environment and the mutex as they say.
LEMMA StructureGoTo ==
  ASSUME Structure, NEW t \in Threads, NEW step \in StepsOf(call[t]),
         at[t] # "idle", step \notin {"idle", "publish"}, GoTo(t, step),
         env' \in [Threads -> TestEnv], env'[t].nodeHome = "",
         \A u \in Threads \ {t} : env'[u] = env[u],
         chain' \in [DOMAIN chain -> App], DOMAIN chain' = DOMAIN chain,
         mu' \in Threads \union {NoThread},
         MutexHeld',
         UNCHANGED <<envCounter, envRegister, apps, answer, crash, history>>,
         tempDirs' \in Int
  PROVE  Structure'
<1> USE DEF GoTo, frame, history
<1>1. StepsOf(call[t]) \subseteq Steps
  BY DEF Structure, TypeOK, Calls, StepsOf, Steps
<1>2. TypeOK'
  BY <1>1 DEF Structure, TypeOK
<1>3. Domains'
  BY DEF Structure, Domains
<1>4. Shape'
  BY DEF Structure, TypeOK, Shape
<1>5. Numbering'
  BY DEF Structure, TypeOK, Numbering
<1> QED BY <1>2, <1>3, <1>4, <1>5 DEF Structure

\* A step outside the critical sections that leaves the mutex alone.
LEMMA MutexUntouched ==
  ASSUME Structure, NEW t \in Threads, NEW step, GoTo(t, step), UNCHANGED mu,
         InCritical(t) <=> InCritical(t)'
  PROVE  MutexHeld'
<1>1. \A u \in Threads \ {t} : InCritical(u)' <=> InCritical(u)
  BY DEF Structure, TypeOK, GoTo, frame, InCritical
<1> QED BY <1>1 DEF Structure, MutexHeld

LEMMA StructureLoadEnv ==
  ASSUME Structure, NEW t \in Threads, LoadEnv(t)
  PROVE  Structure'
<1>1. /\ at[t] = "load" /\ call[t] \in Calls \ {"InitTestEnv"}
      /\ cur[t] \in DOMAIN envRegister
  BY WhereAt DEF LoadEnv, At
<1>2. /\ Body(call[t]) \in StepsOf(call[t])
      /\ Body(call[t]) \in {"finalize", "fund", "read", "clean", "lock"}
  BY <1>1 DEF Calls, Body, StepsOf, LockedCalls
<1>3. envRegister[cur[t]] \in TestEnv /\ envRegister[cur[t]].nodeHome = ""
  BY <1>1 DEF Structure, TypeOK, Domains
<1>4. /\ env' \in [Threads -> TestEnv] /\ env'[t].nodeHome = ""
      /\ \A u \in Threads \ {t} : env'[u] = env[u]
  BY <1>3 DEF LoadEnv, Structure, TypeOK
<1>5. GoTo(t, Body(call[t])) /\ UNCHANGED <<library, chain, apps, answer, crash, history>>
  BY DEF LoadEnv
<1>6. InCritical(t) <=> InCritical(t)'
  BY <1>1, <1>2, <1>5 DEF GoTo, frame, InCritical, Structure, TypeOK
<1>7. MutexHeld'
  BY <1>5, <1>6, MutexUntouched DEF library
<1> QED BY <1>1, <1>2, <1>4, <1>5, <1>7, StructureGoTo
        DEF library, Structure, TypeOK

LEMMA StructureAcquire ==
  ASSUME Structure, NEW t \in Threads, Acquire(t)
  PROVE  Structure'
<1>1. /\ at[t] = "lock" /\ call[t] \in LockedCalls /\ mu = NoThread
  BY WhereAt DEF Acquire, At
<1>2. /\ Locked(call[t]) \in StepsOf(call[t])
      /\ Locked(call[t]) \in {"make", "set", "simulate", "deliver"}
  BY <1>1 DEF Locked, StepsOf, LockedCalls
<1>3. GoTo(t, Locked(call[t])) /\ mu' = t
      /\ UNCHANGED <<envCounter, envRegister, tempDirs, chain, apps, env, answer,
                     crash, history>>
  BY DEF Acquire
<1>4. InCritical(t)' /\ \A u \in Threads \ {t} : InCritical(u)' <=> InCritical(u)
  BY <1>2, <1>3 DEF GoTo, frame, InCritical, Structure, TypeOK
<1>5. MutexHeld'
  BY <1>1, <1>3, <1>4, ThreadsAssumption DEF Structure, MutexHeld
<1>6. env[t].nodeHome = ""
  BY DEF Structure, Shape
<1> QED BY <1>1, <1>2, <1>3, <1>5, <1>6, StructureGoTo DEF Structure, TypeOK
LEMMA StructureMakeEnv ==
  ASSUME Structure, NEW t \in Threads, MakeEnv(t)
  PROVE  Structure'
<1>1. at[t] = "make" /\ call[t] = "InitTestEnv"
  BY WhereAt DEF MakeEnv, At
<1>2. "count" \in StepsOf(call[t])
  BY <1>1 DEF StepsOf
<1>3. FirstChain.last \in Nat /\ FirstChain.gen \in Nat
  BY FirstChainFields DEF App
<1>4. /\ env' \in [Threads -> TestEnv] /\ env'[t].nodeHome = ""
      /\ \A u \in Threads \ {t} : env'[u] = env[u]
  BY <1>3 DEF MakeEnv, Structure, TypeOK, TestEnv
<1>5. /\ GoTo(t, "count") /\ tempDirs' = tempDirs + 1
      /\ UNCHANGED <<mu, envCounter, envRegister, chain, apps, answer, crash, history>>
  BY DEF MakeEnv
<1>6. InCritical(t) <=> InCritical(t)'
  BY <1>1, <1>5 DEF GoTo, frame, InCritical, Structure, TypeOK
<1>7. MutexHeld'
  BY <1>5, <1>6, MutexUntouched
<1>8. /\ tempDirs' \in Int /\ mu' \in Threads \union {NoThread}
      /\ chain' \in [DOMAIN chain -> App] /\ DOMAIN chain' = DOMAIN chain
  BY <1>5 DEF Structure, TypeOK
<1> QED BY <1>1, <1>2, <1>4, <1>5, <1>7, <1>8, StructureGoTo

LEMMA StructureCount ==
  ASSUME Structure, NEW t \in Threads, Count(t)
  PROVE  Structure'
<1>1. at[t] = "count" /\ call[t] = "InitTestEnv"
  BY WhereAt DEF Count, At
<1>2. "publish" \in StepsOf(call[t]) /\ "publish" \in Steps
  BY <1>1 DEF StepsOf, Steps
<1>3. /\ GoTo(t, "publish") /\ envCounter' = envCounter + 1
      /\ UNCHANGED <<mu, envRegister, tempDirs, chain, apps, env, answer, crash, history>>
  BY DEF Count
<1>4. InCritical(t) <=> InCritical(t)'
  BY <1>1, <1>3 DEF GoTo, frame, InCritical, Structure, TypeOK
<1>5. MutexHeld'
  BY <1>3, <1>4, MutexUntouched
<1>6. TypeOK'
  BY <1>2, <1>3 DEF Structure, TypeOK, GoTo, frame, history
<1>7. Domains'
  BY <1>3 DEF Structure, Domains, history
<1>8. Shape'
  BY <1>2, <1>3 DEF Structure, TypeOK, Shape, GoTo, frame
<1>9. Numbering'
  BY <1>3 DEF Structure, TypeOK, Numbering
<1> QED BY <1>5, <1>6, <1>7, <1>8, <1>9 DEF Structure

\* The last number of an interval from 1 is in it.
LEMMA LastOfInterval ==
  ASSUME NEW n \in Nat, n > 0
  PROVE  n \in 1 .. n
OBVIOUS

\* Returning from a function, whatever it did to its environment.
LEMMA StructureReturn ==
  ASSUME Structure, NEW t \in Threads, NEW good \in BOOLEAN, NEW value \in Nat,
         at[t] # "idle", Return(t, good, value), Unlock(t),
         call[t] \in LockedCalls => InCritical(t),
         tempDirs' \in Int, UNCHANGED <<envCounter, crash, tainted>>,
         DOMAIN envRegister \subseteq DOMAIN envRegister',
         \A e \in DOMAIN envRegister' :
           envRegister'[e] \in TestEnv /\ envRegister'[e].nodeHome = "",
         envRegister' = [e \in DOMAIN envRegister' |-> envRegister'[e]],
         chain' \in [DOMAIN envRegister' -> App],
         acked' \in [DOMAIN envRegister' -> Store],
         apps' \in [DOMAIN apps' -> Threads],
         DOMAIN apps' \subseteq DOMAIN envRegister',
         DOMAIN envRegister' \subseteq DOMAIN envRegister
           \/ /\ DOMAIN envRegister' = DOMAIN envRegister \union {envCounter}
              /\ at[t] = "publish"
  PROVE  Structure'
<1>1. /\ op' \in [Threads -> AllOps \union {"none"}]
      /\ call' \in [Threads -> Calls \union {"return"}]
      /\ at' \in [Threads -> Steps]
      /\ cur' \in [Threads -> Nat]
      /\ env' \in [Threads -> TestEnv]
      /\ answer' \in [Threads -> Nat]
      /\ fee' \in [Threads -> BOOLEAN]
      /\ ok' \in [Threads -> BOOLEAN]
      /\ call'[t] \in CallsOf(op'[t])
      /\ at'[t] \in StepsOf(call'[t])
      /\ at'[t] \in {"idle", "load"}
      /\ env'[t] = NoEnv
      /\ op'[t] = "sim" => ~fee'[t]
      /\ op'[t] \notin {"none", "new"} => cur'[t] \in DOMAIN envRegister
  BY ReturnFrame
<1>2. \A u \in Threads \ {t} :
        /\ op'[u] = op[u] /\ call'[u] = call[u] /\ at'[u] = at[u]
        /\ cur'[u] = cur[u] /\ fee'[u] = fee[u] /\ ok'[u] = ok[u]
        /\ env'[u] = env[u] /\ answer'[u] = answer[u]
  BY ReturnFrame
<1>3. InCritical(t) <=> mu = t
  BY DEF Structure, MutexHeld
<1>4. DOMAIN envRegister' \subseteq Nat
  BY DEF Structure, TypeOK
<1>5. mu' \in Threads \union {NoThread}
  BY DEF Unlock, Structure, TypeOK
<1>6. TypeOK'
  BY <1>1, <1>4, <1>5 DEF Structure, TypeOK
<1>7. Domains'
  BY DEF Domains
<1>8. Shape'
  <2>1. NoEnv.nodeHome = ""
    BY DEF NoEnv
  <2>2. /\ call'[t] \in CallsOf(op'[t]) /\ at'[t] \in StepsOf(call'[t])
        /\ env'[t].nodeHome = "" /\ (op'[t] = "sim" => ~fee'[t])
        /\ op'[t] \notin {"none", "new"} => cur'[t] \in DOMAIN envRegister'
    BY <1>1, <2>1
  <2>3. ASSUME NEW u \in Threads \ {t}
        PROVE  /\ call'[u] \in CallsOf(op'[u]) /\ at'[u] \in StepsOf(call'[u])
               /\ env'[u].nodeHome = "" /\ (op'[u] = "sim" => ~fee'[u])
               /\ op'[u] \notin {"none", "new"} => cur'[u] \in DOMAIN envRegister'
    BY <1>2 DEF Structure, Shape
  <2> QED BY <2>2, <2>3 DEF Shape
<1>9. ~InCritical(t)' /\ \A u \in Threads \ {t} : InCritical(u)' <=> InCritical(u)
  BY <1>1, <1>2 DEF InCritical
<1>10. call[t] \in LockedCalls <=> mu = t
  BY <1>3, WhereAt
<1>11. mu' # t /\ \A u \in Threads \ {t} : mu' = u <=> mu = u
  BY <1>10, ThreadsAssumption DEF Unlock
<1>12. MutexHeld'
  BY <1>9, <1>11 DEF Structure, MutexHeld
<1>13. at'[t] # "publish"
  BY <1>1
<1>14. ASSUME at[t] = "publish", NEW u \in Threads \ {t}
       PROVE  at[u] # "publish"
  BY <1>14 DEF Structure, MutexHeld, InCritical
<1>15. Numbering'
  <2>0. envCounter \in Nat /\ (at[t] = "publish" => envCounter > 0)
    BY DEF Structure, TypeOK, Numbering
  <2>1. ASSUME at[t] = "publish" PROVE envCounter \in 1 .. envCounter
    <3>1. envCounter \in Nat /\ envCounter > 0
      BY <2>0, <2>1
    <3> QED BY <3>1, LastOfInterval
  <2>2. DOMAIN envRegister' \subseteq 1 .. envCounter'
    BY <2>1 DEF Structure, Numbering
  <2>3. ASSUME NEW u \in Threads, at'[u] = "publish"
        PROVE  /\ u # t /\ at[u] = "publish" /\ at[t] # "publish"
               /\ DOMAIN envRegister' \subseteq DOMAIN envRegister
    BY <1>2, <1>13, <1>14, <2>3
  <2>4. ASSUME NEW u \in Threads, at'[u] = "publish"
        PROVE  envCounter' > 0 /\ envCounter' \notin DOMAIN envRegister'
    BY <2>3, <2>4 DEF Structure, Numbering
  <2> QED BY <2>2, <2>4 DEF Numbering
<1> QED BY <1>6, <1>7, <1>8, <1>12, <1>15 DEF Structure
\* What returning takes when the functions keep their domains.
LEMMA StructureReturnPlain ==
  ASSUME Structure, NEW t \in Threads, NEW good \in BOOLEAN, NEW value \in Nat,
         at[t] \notin {"idle", "publish"}, Return(t, good, value), Unlock(t),
         call[t] \in LockedCalls => InCritical(t),
         UNCHANGED <<envCounter, tempDirs, envRegister, crash, tainted>>,
         chain' \in [DOMAIN chain -> App],
         acked' \in [DOMAIN acked -> Store],
         apps' \in [DOMAIN apps' -> Threads], DOMAIN apps' \subseteq DOMAIN apps
  PROVE  Structure'
<1>1. /\ envRegister' \in [DOMAIN envRegister -> TestEnv]
      /\ \A e \in DOMAIN envRegister :
           envRegister'[e] \in TestEnv /\ envRegister'[e].nodeHome = ""
      /\ tempDirs' \in Int
      /\ DOMAIN chain = DOMAIN envRegister /\ DOMAIN acked = DOMAIN envRegister
      /\ DOMAIN apps \subseteq DOMAIN envRegister
      /\ DOMAIN envRegister' = DOMAIN envRegister
  BY DEF Structure, TypeOK, Domains
<1> QED BY <1>1, StructureReturn

LEMMA StructurePublish ==
  ASSUME Structure, NEW t \in Threads, Publish(t)
  PROVE  Structure'
<1>1. /\ at[t] = "publish" /\ call[t] = "InitTestEnv" /\ InCritical(t)
  BY WhereAt DEF Publish, At, InCritical
<1>2. /\ envCounter \in Nat /\ env[t] \in TestEnv /\ env[t].nodeHome = ""
      /\ \A e \in DOMAIN envRegister :
           envRegister[e] \in TestEnv /\ envRegister[e].nodeHome = ""
      /\ chain \in [DOMAIN envRegister -> App]
      /\ acked \in [DOMAIN envRegister -> Store]
      /\ apps \in [DOMAIN apps -> Threads]
      /\ DOMAIN apps \subseteq DOMAIN envRegister
  BY DEF Structure, TypeOK, Domains, Shape
<1>3. FirstChain \in App /\ EmptyStore \in Store
  BY FirstChainFields DEF EmptyStore, Store
<1>4. /\ Return(t, TRUE, envCounter) /\ Unlock(t)
      /\ envRegister' = With(envRegister, envCounter, env[t])
      /\ chain' = With(chain, envCounter, FirstChain)
      /\ apps' = With(apps, envCounter, t)
      /\ acked' = With(acked, envCounter, EmptyStore)
      /\ UNCHANGED <<envCounter, tempDirs, crash, tainted>>
  BY DEF Publish
<1>5. /\ DOMAIN envRegister' = DOMAIN envRegister \union {envCounter}
      /\ DOMAIN apps' = DOMAIN apps \union {envCounter}
      /\ envRegister' = [e \in DOMAIN envRegister' |-> envRegister'[e]]
      /\ \A e \in DOMAIN envRegister' :
           envRegister'[e] = IF e = envCounter THEN env[t] ELSE envRegister[e]
  BY <1>4 DEF With
<1>6. \A e \in DOMAIN envRegister' :
        envRegister'[e] \in TestEnv /\ envRegister'[e].nodeHome = ""
  BY <1>2, <1>5
<1>7. chain' \in [DOMAIN envRegister' -> App]
  BY <1>2, <1>3, <1>4, <1>5 DEF With
<1>8. acked' \in [DOMAIN envRegister' -> Store]
  BY <1>2, <1>3, <1>4, <1>5 DEF With
<1>9. apps' \in [DOMAIN apps' -> Threads]
  BY <1>2, <1>4, <1>5 DEF With
<1>10. DOMAIN apps' \subseteq DOMAIN envRegister' /\ tempDirs' \in Int
  BY <1>2, <1>4, <1>5 DEF Structure, TypeOK
<1> HIDE DEF Structure
<1> QED BY <1>1, <1>2, <1>4, <1>5, <1>6, <1>7, <1>8, <1>9, <1>10, StructureReturn

LEMMA StructureFinalize ==
  ASSUME Structure, NEW t \in Threads, Finalize(t)
  PROVE  Structure'
<1> DEFINE app == chain[cur[t]]
<1>1. /\ at[t] = "finalize" /\ call[t] \in {"BeginBlock", "IncreaseTime", "EndBlock"}
      /\ cur[t] \in DOMAIN chain
  BY WhereAt DEF Finalize, At, Structure, Domains
<1>2. CASE CanFinalize(app, Height(t))
  <2> DEFINE step == IF call[t] = "EndBlock" THEN "commit" ELSE "context"
  <2>1. step \in StepsOf(call[t]) /\ step \in {"commit", "context"}
    BY <1>1 DEF StepsOf
  <2>2. /\ GoTo(t, step) /\ chain' = [chain EXCEPT ![cur[t]] = FinalizeBlock(app)]
        /\ UNCHANGED <<library, apps, env, answer, crash, history>>
    BY <1>2 DEF Finalize
  <2>3. chain' \in [DOMAIN chain -> App] /\ DOMAIN chain' = DOMAIN chain
    BY <1>1, <2>2, FinalizeFields DEF Structure, TypeOK
  <2>4. InCritical(t) <=> InCritical(t)'
    BY <1>1, <2>1, <2>2 DEF GoTo, frame, InCritical, Structure, TypeOK
  <2>5. MutexHeld'
    BY <2>2, <2>4, MutexUntouched DEF library
  <2>6. /\ env' \in [Threads -> TestEnv] /\ env'[t].nodeHome = ""
        /\ mu' \in Threads \union {NoThread} /\ tempDirs' \in Int
    BY <2>2 DEF library, Structure, TypeOK, Shape
  <2> HIDE DEF step
  <2> QED BY <1>1, <2>1, <2>2, <2>3, <2>5, <2>6, StructureGoTo DEF library
<1>3. CASE ~CanFinalize(app, Height(t))
  <2>1. Abort(t, "height") /\ "height" \in Reasons
    BY <1>3 DEF Finalize, Reasons
  <2> QED BY <2>1, StructureAbort
<1> QED BY <1>2, <1>3

LEMMA StructureNewContext ==
  ASSUME Structure, NEW t \in Threads, NewContext(t)
  PROVE  Structure'
<1> DEFINE app == chain[cur[t]]
<1>1. /\ at[t] = "context" /\ call[t] \in {"BeginBlock", "IncreaseTime"}
      /\ cur[t] \in DOMAIN chain
  BY WhereAt DEF NewContext, At, Structure, Domains
<1>2. CASE app.live
  <2>1. "store" \in StepsOf(call[t])
    BY <1>1 DEF StepsOf
  <2>2. /\ GoTo(t, "store")
        /\ env' = [env EXCEPT ![t] = [height |-> @.height + 1, gen |-> app.gen,
                                      nodeHome |-> @.nodeHome]]
        /\ UNCHANGED <<library, chain, apps, answer, crash, history>>
    BY <1>2 DEF NewContext
  <2>3. /\ env[t] \in TestEnv /\ env[t].nodeHome = "" /\ app.gen \in Nat
        /\ env \in [Threads -> TestEnv]
    BY <1>1 DEF Structure, TypeOK, Shape, App
  <2>4. [height |-> env[t].height + 1, gen |-> app.gen, nodeHome |-> env[t].nodeHome]
          \in TestEnv
    <3> DEFINE n == env[t].height + 1
    <3>0. env[t].height \in Nat
      BY <2>3 DEF TestEnv
    <3>1. n \in Nat
      BY <3>0
    <3> HIDE DEF n
    <3>2. [height |-> n, gen |-> app.gen, nodeHome |-> env[t].nodeHome] \in TestEnv
      BY <2>3, <3>1 DEF TestEnv
    <3> QED BY <3>2 DEF n
  <2>5. /\ env' \in [Threads -> TestEnv] /\ env'[t].nodeHome = ""
        /\ \A u \in Threads \ {t} : env'[u] = env[u]
    BY <2>2, <2>3, <2>4
  <2>6. InCritical(t) <=> InCritical(t)'
    BY <1>1, <2>2 DEF GoTo, frame, InCritical, Structure, TypeOK
  <2>7. MutexHeld'
    BY <2>2, <2>6, MutexUntouched DEF library
  <2>8. /\ chain' \in [DOMAIN chain -> App] /\ DOMAIN chain' = DOMAIN chain
        /\ mu' \in Threads \union {NoThread} /\ tempDirs' \in Int
    BY <2>2 DEF library, Structure, TypeOK
  <2> QED BY <1>1, <2>1, <2>2, <2>5, <2>7, <2>8, StructureGoTo DEF library
<1>3. CASE ~app.live
  <2>1. Abort(t, "state") /\ "state" \in Reasons
    BY <1>3 DEF NewContext, Reasons
  <2> QED BY <2>1, StructureAbort
<1> QED BY <1>2, <1>3
LEMMA StructureCommitBlock ==
  ASSUME Structure, NEW t \in Threads, CommitBlock(t)
  PROVE  Structure'
<1>1. at[t] = "commit" /\ call[t] = "EndBlock" /\ cur[t] \in DOMAIN chain
  BY WhereAt DEF CommitBlock, At, Structure, Domains
<1>2. CASE chain[cur[t]].live
  <2>1. "store" \in StepsOf(call[t])
    BY <1>1 DEF StepsOf
  <2>2. /\ GoTo(t, "store") /\ chain' = [chain EXCEPT ![cur[t]] = Commit(chain[cur[t]])]
        /\ UNCHANGED <<library, apps, env, answer, crash, history>>
    BY <1>2 DEF CommitBlock
  <2>3. chain' \in [DOMAIN chain -> App] /\ DOMAIN chain' = DOMAIN chain
    BY <1>1, <2>2, CommitFields DEF Structure, TypeOK
  <2>4. InCritical(t) <=> InCritical(t)'
    BY <1>1, <2>2 DEF GoTo, frame, InCritical, Structure, TypeOK
  <2>5. MutexHeld'
    BY <2>2, <2>4, MutexUntouched DEF library
  <2>6. /\ env' \in [Threads -> TestEnv] /\ env'[t].nodeHome = ""
        /\ mu' \in Threads \union {NoThread} /\ tempDirs' \in Int
    BY <2>2 DEF library, Structure, TypeOK, Shape
  <2> QED BY <1>1, <2>1, <2>2, <2>3, <2>5, <2>6, StructureGoTo DEF library
<1>3. CASE ~chain[cur[t]].live
  <2>1. Abort(t, "state") /\ "state" \in Reasons
    BY <1>3 DEF CommitBlock, Reasons
  <2> QED BY <2>1, StructureAbort
<1> QED BY <1>2, <1>3

LEMMA StructureStoreEnv ==
  ASSUME Structure, NEW t \in Threads, StoreEnv(t)
  PROVE  Structure'
<1>1. /\ at[t] = "store"
      /\ call[t] \in {"BeginBlock", "IncreaseTime", "EndBlock", "InitAccount", "Execute"}
      /\ cur[t] \in DOMAIN envRegister
  BY WhereAt DEF StoreEnv, At
<1>2. /\ Return(t, TRUE, 0) /\ Unlock(t)
      /\ envRegister' = [envRegister EXCEPT ![cur[t]] = env[t]]
      /\ UNCHANGED <<envCounter, tempDirs, chain, apps, crash, tainted>>
  BY DEF StoreEnv
<1>3. call[t] \in LockedCalls => InCritical(t)
  BY <1>1 DEF LockedCalls, InCritical
<1>4. /\ env[t] \in TestEnv /\ env[t].nodeHome = ""
      /\ \A e \in DOMAIN envRegister :
           envRegister[e] \in TestEnv /\ envRegister[e].nodeHome = ""
  BY DEF Structure, TypeOK, Domains, Shape
<1>5. /\ DOMAIN envRegister' = DOMAIN envRegister
      /\ envRegister' = [e \in DOMAIN envRegister' |-> envRegister'[e]]
      /\ \A e \in DOMAIN envRegister' :
           envRegister'[e] = IF e = cur[t] THEN env[t] ELSE envRegister[e]
  BY <1>2
<1>6. \A e \in DOMAIN envRegister' :
        envRegister'[e] \in TestEnv /\ envRegister'[e].nodeHome = ""
  BY <1>4, <1>5
<1>7. acked \in [DOMAIN envRegister -> Store]
  BY DEF Structure, TypeOK, Domains
<1>8. acked' \in [DOMAIN envRegister' -> Store]
  <2>1. CASE call[t] = "EndBlock" /\ ok[t] /\ op[t] \in Kinds
    <3>1. acked' = [acked EXCEPT ![cur[t]] = Plus(acked[cur[t]], op[t])]
      BY <2>1 DEF StoreEnv
    <3>2. Plus(acked[cur[t]], op[t]) \in Store
      BY <1>1, <1>7, <2>1, PlusType
    <3> QED BY <1>5, <1>7, <3>1, <3>2
  <2>2. CASE ~(call[t] = "EndBlock" /\ ok[t] /\ op[t] \in Kinds)
    BY <1>5, <1>7, <2>2 DEF StoreEnv
  <2> QED BY <2>1, <2>2
<1>9. /\ chain' \in [DOMAIN envRegister' -> App]
      /\ apps' \in [DOMAIN apps' -> Threads]
      /\ DOMAIN apps' \subseteq DOMAIN envRegister' /\ tempDirs' \in Int
  BY <1>2, <1>5 DEF Structure, TypeOK, Domains
<1> HIDE DEF Structure
<1> QED BY <1>1, <1>2, <1>3, <1>5, <1>6, <1>8, <1>9, StructureReturn

LEMMA StructureFund ==
  ASSUME Structure, NEW t \in Threads, Fund(t)
  PROVE  Structure'
<1>1. at[t] = "fund" /\ call[t] = "InitAccount" /\ cur[t] \in DOMAIN chain
  BY WhereAt DEF Fund, At, Structure, Domains
<1>2. CASE Abort(t, "input")
  BY <1>2, StructureAbort DEF Reasons
<1>3. CASE /\ chain' = [chain EXCEPT ![cur[t]] = Write(chain[cur[t]], env[t].gen, "account")]
           /\ GoTo(t, "store")
           /\ UNCHANGED <<library, apps, env, answer, crash, history>>
  <2>1. "store" \in StepsOf(call[t])
    BY <1>1 DEF StepsOf
  <2>2. env[t].gen \in Nat /\ chain[cur[t]] \in App /\ "account" \in Kinds
    BY <1>1 DEF Structure, TypeOK, TestEnv, Kinds
  <2>3. Write(chain[cur[t]], env[t].gen, "account") \in App
    BY <2>2, WriteFields
  <2>4. chain' \in [DOMAIN chain -> App] /\ DOMAIN chain' = DOMAIN chain
    BY <1>1, <1>3, <2>3 DEF Structure, TypeOK
  <2>5. InCritical(t) <=> InCritical(t)'
    BY <1>1, <1>3 DEF GoTo, frame, InCritical, Structure, TypeOK
  <2>6. MutexHeld'
    BY <1>3, <2>5, MutexUntouched DEF library
  <2>7. /\ env' \in [Threads -> TestEnv] /\ env'[t].nodeHome = ""
        /\ mu' \in Threads \union {NoThread} /\ tempDirs' \in Int
    BY <1>3 DEF library, Structure, TypeOK, Shape
  <2> QED BY <1>1, <1>3, <2>1, <2>4, <2>6, <2>7, StructureGoTo DEF library
<1> QED BY <1>2, <1>3 DEF Fund

LEMMA StructureSetParam ==
  ASSUME Structure, NEW t \in Threads, SetParam(t)
  PROVE  Structure'
<1>1. /\ at[t] = "set" /\ call[t] = "SetParamSet" /\ cur[t] \in DOMAIN chain
      /\ InCritical(t)
  BY WhereAt DEF SetParam, At, Structure, Domains, InCritical
<1>2. CASE Abort(t, "input")
  BY <1>2, StructureAbort DEF Reasons
<1>3. CASE ~Abort(t, "input")
  <2>1. /\ Unlock(t) /\ UNCHANGED <<envCounter, envRegister, tempDirs, apps, crash, history>>
        /\ \/ /\ chain' = [chain EXCEPT ![cur[t]] =
                             Write(chain[cur[t]], env[t].gen, "param")]
              /\ Return(t, TRUE, 0)
           \/ /\ UNCHANGED chain
              /\ Return(t, FALSE, 0)
    BY <1>3 DEF SetParam
  <2>2. env[t].gen \in Nat /\ chain[cur[t]] \in App /\ "param" \in Kinds
    BY <1>1 DEF Structure, TypeOK, TestEnv, Kinds
  <2>3. Write(chain[cur[t]], env[t].gen, "param") \in App
    BY <2>2, WriteFields
  <2>4. chain' \in [DOMAIN chain -> App]
    BY <1>1, <2>1, <2>3 DEF Structure, TypeOK
  <2>5. PICK good \in BOOLEAN : Return(t, good, 0)
    BY <2>1
  <2>6. /\ acked' \in [DOMAIN acked -> Store] /\ apps' \in [DOMAIN apps' -> Threads]
        /\ DOMAIN apps' \subseteq DOMAIN apps
    BY <2>1 DEF history, Structure, TypeOK
  <2> HIDE DEF Structure
  <2> QED BY <1>1, <2>1, <2>4, <2>5, <2>6, StructureReturnPlain DEF history
<1> QED BY <1>2, <1>3
LEMMA StructureReadStore ==
  ASSUME Structure, NEW t \in Threads, ReadStore(t)
  PROVE  Structure'
<1> DEFINE value == Read(chain[cur[t]], env[t].gen)["tx"]
<1>1. /\ at[t] = "read" /\ call[t] \in {"AccountSequence", "Query"}
      /\ cur[t] \in DOMAIN chain
  BY WhereAt DEF ReadStore, At, Structure, Domains
<1>2. /\ Return(t, TRUE, value) /\ UNCHANGED <<library, chain, apps, crash, history>>
  BY DEF ReadStore
<1>3. chain[cur[t]] \in App /\ env[t].gen \in Nat
  BY <1>1 DEF Structure, TypeOK, TestEnv
<1>4. value \in Nat
  BY <1>3, ReadType
<1>5. call[t] \notin LockedCalls /\ Unlock(t)
  BY <1>1, <1>2 DEF LockedCalls, Unlock, library
<1>6. /\ chain' \in [DOMAIN chain -> App] /\ acked' \in [DOMAIN acked -> Store]
      /\ apps' \in [DOMAIN apps' -> Threads] /\ DOMAIN apps' \subseteq DOMAIN apps
  BY <1>2 DEF history, Structure, TypeOK
<1> HIDE DEF Structure, value
<1> QED BY <1>1, <1>2, <1>4, <1>5, <1>6, StructureReturnPlain DEF library, history

LEMMA StructureSimulate ==
  ASSUME Structure, NEW t \in Threads, Simulate(t)
  PROVE  Structure'
<1>1. at[t] = "simulate" /\ call[t] = "Simulate" /\ InCritical(t)
  BY WhereAt DEF Simulate, At, InCritical
<1>2. PICK good \in BOOLEAN : Return(t, good, 0)
  BY DEF Simulate
<1>3. /\ Unlock(t)
      /\ UNCHANGED <<envCounter, envRegister, tempDirs, chain, apps, crash, history>>
  BY DEF Simulate
<1>4. /\ chain' \in [DOMAIN chain -> App] /\ acked' \in [DOMAIN acked -> Store]
      /\ apps' \in [DOMAIN apps' -> Threads] /\ DOMAIN apps' \subseteq DOMAIN apps
  BY <1>3 DEF history, Structure, TypeOK
<1> HIDE DEF Structure
<1> QED BY <1>1, <1>2, <1>3, <1>4, StructureReturnPlain DEF history

LEMMA StructureDeliver ==
  ASSUME Structure, NEW t \in Threads, Deliver(t)
  PROVE  Structure'
<1> DEFINE app == chain[cur[t]]
<1>1. at[t] = "deliver" /\ call[t] = "Execute" /\ cur[t] \in DOMAIN chain
  BY WhereAt DEF Deliver, At, Structure, Domains
<1>2. CASE \E why \in Reasons : Abort(t, why)
  BY <1>2, StructureAbort
<1>3. CASE /\ chain' = [chain EXCEPT ![cur[t]] = DeliverTx(app)]
           /\ GoTo(t, "store")
           /\ UNCHANGED <<library, apps, env, answer, crash, history>>
  <2>1. "store" \in StepsOf(call[t])
    BY <1>1 DEF StepsOf
  <2>2. chain' \in [DOMAIN chain -> App] /\ DOMAIN chain' = DOMAIN chain
    BY <1>1, <1>3, DeliverFields DEF Structure, TypeOK
  <2>3. InCritical(t) <=> InCritical(t)'
    BY <1>1, <1>3 DEF GoTo, frame, InCritical, Structure, TypeOK
  <2>4. MutexHeld'
    BY <1>3, <2>3, MutexUntouched DEF library
  <2>5. /\ env' \in [Threads -> TestEnv] /\ env'[t].nodeHome = ""
        /\ mu' \in Threads \union {NoThread} /\ tempDirs' \in Int
    BY <1>3 DEF library, Structure, TypeOK, Shape
  <2> QED BY <1>1, <1>3, <2>1, <2>2, <2>4, <2>5, StructureGoTo DEF library
<1> QED BY <1>2, <1>3 DEF Deliver, Reasons

LEMMA StructureCleanUp ==
  ASSUME Structure, NEW t \in Threads, CleanUp(t)
  PROVE  Structure'
<1>1. /\ at[t] = "clean" /\ call[t] = "CleanUp" /\ env[t].nodeHome = ""
  BY WhereAt DEF CleanUp, At, Structure, Shape
<1>2. /\ Return(t, TRUE, 0)
      /\ apps' = [e \in DOMAIN apps \ {cur[t]} |-> apps[e]]
      /\ UNCHANGED <<tempDirs, envRegister, mu, envCounter, chain, crash, history>>
  BY <1>1 DEF CleanUp
<1>3. call[t] \notin LockedCalls /\ Unlock(t)
  BY <1>1, <1>2 DEF LockedCalls, Unlock
<1>4. /\ chain' \in [DOMAIN chain -> App] /\ acked' \in [DOMAIN acked -> Store]
      /\ apps' \in [DOMAIN apps' -> Threads] /\ DOMAIN apps' \subseteq DOMAIN apps
  BY <1>2 DEF history, Structure, TypeOK
<1> HIDE DEF Structure
<1> QED BY <1>1, <1>2, <1>3, <1>4, StructureReturnPlain DEF history

LEMMA StructureNext ==
  ASSUME Structure, [Next]_vars
  PROVE  Structure'
<1>1. CASE UNCHANGED vars
  BY <1>1, StructureStutter
<1>2. ASSUME NEW t \in Threads, Begin(t)
      PROVE  Structure'
  BY <1>2, StructureStartNew, StructureStart DEF Begin
<1>3. ASSUME NEW t \in Threads, Work(t)
      PROVE  Structure'
  BY <1>3, StructureLoadEnv, StructureAcquire, StructureMakeEnv, StructureCount,
     StructurePublish, StructureFinalize, StructureNewContext, StructureCommitBlock,
     StructureStoreEnv, StructureFund, StructureSetParam, StructureReadStore,
     StructureSimulate, StructureDeliver, StructureCleanUp
     DEF Work
<1>4. ASSUME NEW t \in Threads, NEW u \in Threads, DataRace(t, u)
      PROVE  Structure'
  BY <1>4, StructureAbort DEF DataRace, Reasons
<1> QED BY <1>1, <1>2, <1>3, <1>4, StructureUnwind DEF Next

\* Everywhere in an execution the threads are where Structure says: the mutex is
\* held exactly between mu.Lock() and the return of the functions that take it,
\* and a loaded environment is registered.
THEOREM StructureAlways == Spec => []Structure
<1> QED BY StructureInit, StructureNext, PTL DEF Spec

\* Every variable keeps its type.
THEOREM TypeCorrect == Spec => []TypeOK
<1>1. Structure => TypeOK
  BY DEF Structure
<1> QED BY <1>1, StructureAlways, PTL

\* InitTestEnv never returns a handle that is in use, however many threads
\* create environments at once.
THEOREM HandlesAreUnique == Spec => []HandlesUnique
<1>1. Structure => HandlesUnique
  BY DEF Structure, Numbering, HandlesUnique
<1> QED BY <1>1, StructureAlways, PTL
-------------------------------------------------------------------------------
(* What one thread at a time can rely on. *)

LEMMA SerialInit == Init => Serial
<1> SUFFICES ASSUME Init PROVE Serial
  OBVIOUS
<1>1. DOMAIN envRegister = {}
  BY DEF Init
<1> QED BY <1>1 DEF Init, Serial, Fresh, SerialUseNeverAborts

\* The thread and the rest: a step of t that touches one environment at most
\* keeps Serial when it keeps it for that environment.
LEMMA SerialStep ==
  ASSUME Structure, Serial, NEW t \in Threads, NEW e0,
         \A u \in Threads \ {t} :
           /\ op'[u] = op[u] /\ call'[u] = call[u] /\ at'[u] = at[u]
           /\ cur'[u] = cur[u] /\ fee'[u] = fee[u] /\ ok'[u] = ok[u]
           /\ env'[u] = env[u] /\ answer'[u] = answer[u],
         DOMAIN envRegister' = DOMAIN envRegister,
         \A e \in DOMAIN envRegister \ {e0} :
           /\ chain'[e] = chain[e] /\ envRegister'[e] = envRegister[e]
           /\ acked'[e] = acked[e],
         tainted \subseteq tainted',
         \A e \in DOMAIN envRegister : Using(t, e) \/ Using(t, e)' => e = e0,
         e0 \in DOMAIN envRegister \ tainted' =>
           /\ \A u \in Threads \ {t} : ~Using(u, e0)
           /\ Using(t, e0)' => Phase(t)'
           /\ ~Using(t, e0)' => Quiet(e0)',
         Fresh(t)', SerialUseNeverAborts'
  PROVE  Serial'
<1>1. \A u \in Threads \ {t} : Fresh(u)'
  BY DEF Serial, Fresh
<1>2. \A u \in Threads \ {t} : \A e : Using(u, e)' <=> Using(u, e)
  BY DEF Using
<1>3. ASSUME NEW e \in DOMAIN envRegister' \ tainted', e # e0
      PROVE  /\ \A u, v \in Threads : Using(u, e)' /\ Using(v, e)' => u = v
             /\ (\A u \in Threads : ~Using(u, e)') => Quiet(e)'
             /\ \A u \in Threads : Using(u, e)' => Phase(u)'
  <2>1. e \in DOMAIN envRegister \ tainted /\ ~Using(t, e) /\ ~Using(t, e)'
    BY <1>3
  <2>2. \A u \in Threads : Using(u, e)' <=> Using(u, e)
    BY <1>2, <2>1
  <2>3. \A u, v \in Threads : Using(u, e)' /\ Using(v, e)' => u = v
    BY <2>1, <2>2 DEF Serial
  <2>4. chain'[e] = chain[e] /\ envRegister'[e] = envRegister[e] /\ acked'[e] = acked[e]
    BY <1>3
  <2>5. ASSUME \A u \in Threads : ~Using(u, e)'
        PROVE  Quiet(e)'
    <3>1. Quiet(e)
      BY <2>1, <2>2, <2>5 DEF Serial
    <3> QED BY <2>4, <3>1 DEF Quiet
  <2>6. ASSUME NEW u \in Threads, Using(u, e)'
        PROVE  Phase(u)'
    <3>1. u # t /\ Using(u, e) /\ cur[u] = e
      BY <2>1, <2>2, <2>6 DEF Using
    <3>2. Phase(u)
      BY <2>1, <3>1 DEF Serial
    <3>3. /\ op'[u] = op[u] /\ call'[u] = call[u] /\ at'[u] = at[u]
          /\ cur'[u] = cur[u] /\ fee'[u] = fee[u] /\ ok'[u] = ok[u]
          /\ env'[u] = env[u] /\ answer'[u] = answer[u]
      BY <3>1
    <3>4. /\ Closed(u)' <=> Closed(u)
          /\ Opening(u)' <=> Opening(u)
          /\ Written(u)' <=> Written(u)
          /\ Ended(u)' <=> Ended(u)
          /\ Applied(u)' <=> Applied(u)
      BY <3>3 DEF Closed, Opening, Written, Ended, Applied, Beginning
    <3>5. Result(u)' = Result(u)
      BY <2>4, <3>1, <3>3, <3>4 DEF Result
    <3> QED BY <2>4, <3>1, <3>2, <3>3, <3>4, <3>5 DEF Phase
  <2> QED BY <2>3, <2>5, <2>6
<1>4. ASSUME e0 \in DOMAIN envRegister' \ tainted'
      PROVE  /\ \A u, v \in Threads : Using(u, e0)' /\ Using(v, e0)' => u = v
             /\ (\A u \in Threads : ~Using(u, e0)') => Quiet(e0)'
             /\ \A u \in Threads : Using(u, e0)' => Phase(u)'
  <2>1. \A u \in Threads \ {t} : ~Using(u, e0)'
    BY <1>2, <1>4
  <2> QED BY <1>4, <2>1
<1> HIDE DEF Phase, Quiet, Using
<1> QED BY <1>1, <1>3, <1>4 DEF Serial
\* A thread in an operation uses the one environment it is called on.
LEMMA InUse ==
  ASSUME Structure, NEW t \in Threads, at[t] # "idle", op[t] # "new"
  PROVE  /\ op[t] \in AllOps /\ op[t] # "none"
         /\ cur[t] \in DOMAIN envRegister /\ cur[t] \in DOMAIN chain
         /\ cur[t] \in DOMAIN acked
         /\ Using(t, cur[t]) /\ \A e : Using(t, e) => e = cur[t]
         /\ chain[cur[t]] \in App /\ envRegister[cur[t]] \in TestEnv
         /\ acked[cur[t]] \in Store /\ env[t] \in TestEnv
BY WhereAt DEF Using, Structure, TypeOK, Domains

LEMMA Alone ==
  ASSUME Structure, Serial, NEW t \in Threads, at[t] # "idle", op[t] # "new",
         cur[t] \notin tainted
  PROVE  Phase(t) /\ \A u \in Threads \ {t} : ~Using(u, cur[t])
BY InUse DEF Serial

LEMMA SerialAbort ==
  ASSUME Structure, Serial, NEW t \in Threads, NEW why, Abort(t, why),
         why \in {"height", "state", "sequence", "race"} => cur[t] \in tainted
  PROVE  Serial'
<1>1. SerialUseNeverAborts'
  BY DEF Abort, SerialUseNeverAborts, history
<1>2. /\ UNCHANGED <<envRegister, chain, acked, tainted>>
      /\ UNCHANGED <<op, call, at, cur, fee, ok, env, answer>>
  BY DEF Abort, library, frame, history
<1> USE <1>2
<1>3. \A u \in Threads : Fresh(u)'
  BY DEF Serial, Fresh
<1>4. \A u \in Threads : \A e : Using(u, e)' <=> Using(u, e)
  BY DEF Using
<1>5. \A e : Quiet(e)' <=> Quiet(e)
  BY DEF Quiet
<1>6. \A u \in Threads : Phase(u)' <=> Phase(u)
  BY DEF Phase, Closed, Opening, Written, Ended, Beginning, Result, Applied
<1> HIDE DEF Phase, Quiet, Using
<1> QED BY <1>1, <1>3, <1>4, <1>5, <1>6 DEF Serial

LEMMA SerialStutter ==
  ASSUME Serial, UNCHANGED vars
  PROVE  Serial'
<1>1. /\ UNCHANGED <<envRegister, chain, acked, tainted, crash>>
      /\ UNCHANGED <<op, call, at, cur, fee, ok, env, answer>>
  BY DEF vars, library, frame, history
<1> USE <1>1
<1>2. SerialUseNeverAborts'
  BY DEF Serial, SerialUseNeverAborts
<1>3. \A u \in Threads : Fresh(u)'
  BY DEF Serial, Fresh
<1>4. \A u \in Threads : \A e : Using(u, e)' <=> Using(u, e)
  BY DEF Using
<1>5. \A e : Quiet(e)' <=> Quiet(e)
  BY DEF Quiet
<1>6. \A u \in Threads : Phase(u)' <=> Phase(u)
  BY DEF Phase, Closed, Opening, Written, Ended, Beginning, Result, Applied
<1> HIDE DEF Phase, Quiet, Using
<1> QED BY <1>2, <1>3, <1>4, <1>5, <1>6 DEF Serial

\* Going on inside a function keeps the environment the thread uses in phase.
LEMMA SerialGoTo ==
  ASSUME Structure, Serial, NEW t \in Threads, NEW step, GoTo(t, step),
         NEW e0, e0 = cur[t],
         at[t] # "idle", op[t] # "new", step \notin {"count", "publish"},
         \A u \in Threads \ {t} : env'[u] = env[u],
         DOMAIN chain' = DOMAIN chain,
         \A e \in DOMAIN chain \ {e0} : chain'[e] = chain[e],
         UNCHANGED <<envRegister, answer, crash, history>>,
         e0 \notin tainted /\ Phase(t) => Phase(t)'
  PROVE  Serial'
<1>1. \A u \in Threads \ {t} :
        /\ op'[u] = op[u] /\ call'[u] = call[u] /\ at'[u] = at[u]
        /\ cur'[u] = cur[u] /\ fee'[u] = fee[u] /\ ok'[u] = ok[u]
        /\ env'[u] = env[u] /\ answer'[u] = answer[u]
  BY DEF GoTo, frame, Structure, TypeOK
<1>2. op'[t] = op[t] /\ cur'[t] = cur[t] /\ at'[t] = step
  BY DEF GoTo, frame, Structure, TypeOK
<1>3. \A e \in DOMAIN envRegister : Using(t, e) \/ Using(t, e)' => e = e0
  BY <1>2 DEF Using
<1>4. Using(t, e0)'
  BY <1>2, InUse DEF Using
<1>5. Fresh(t)' /\ SerialUseNeverAborts'
  BY <1>2 DEF Fresh, Serial, SerialUseNeverAborts, history
<1>6. DOMAIN envRegister' = DOMAIN envRegister /\ tainted \subseteq tainted'
  BY DEF history
<1>7. \A e \in DOMAIN envRegister \ {e0} :
        chain'[e] = chain[e] /\ envRegister'[e] = envRegister[e] /\ acked'[e] = acked[e]
  BY DEF history, Structure, Domains
<1>8. e0 \in DOMAIN envRegister \ tainted' =>
        /\ \A u \in Threads \ {t} : ~Using(u, e0)
        /\ Using(t, e0)' => Phase(t)'
        /\ ~Using(t, e0)' => Quiet(e0)'
  BY <1>4, Alone DEF history
<1> HIDE DEF Structure, Serial, Phase, Quiet, Using, Fresh, SerialUseNeverAborts
<1> QED BY <1>1, <1>3, <1>5, <1>6, <1>7, <1>8, SerialStep

\* Returning to the next function keeps it in phase, returning from the
\* operation leaves it quiet.
LEMMA SerialReturn ==
  ASSUME Structure, Serial, NEW t \in Threads, NEW good \in BOOLEAN, NEW value \in Nat,
         Return(t, good, value), NEW e0, e0 = cur[t], at[t] # "idle", op[t] # "new",
         DOMAIN envRegister' = DOMAIN envRegister,
         \A e \in DOMAIN envRegister \ {e0} :
           chain'[e] = chain[e] /\ envRegister'[e] = envRegister[e] /\ acked'[e] = acked[e],
         UNCHANGED <<crash, tainted>>,
         e0 \notin tainted /\ Phase(t) =>
           IF NextCall(op[t], call[t], fee[t], good) = "return"
             THEN Quiet(e0)' ELSE Phase(t)'
  PROVE  Serial'
<1> DEFINE next == NextCall(op[t], call[t], fee[t], good)
<1>1. \A u \in Threads \ {t} :
        /\ op'[u] = op[u] /\ call'[u] = call[u] /\ at'[u] = at[u]
        /\ cur'[u] = cur[u] /\ fee'[u] = fee[u] /\ ok'[u] = ok[u]
        /\ env'[u] = env[u] /\ answer'[u] = answer[u]
  BY ReturnFrame
<1>2. /\ op'[t] = IF next = "return" THEN "none" ELSE op[t]
      /\ cur'[t] = IF next = "return" THEN 0 ELSE cur[t]
  BY DEF Return, Structure, TypeOK
<1>3. at'[t] \in {"idle", "load"}
  BY ReturnFrame
<1>4. \A e \in DOMAIN envRegister : Using(t, e) \/ Using(t, e)' => e = e0
  BY <1>2 DEF Using
<1>5. Using(t, e0)' <=> next # "return"
  BY <1>2, InUse DEF Using
<1>6. Fresh(t)' /\ SerialUseNeverAborts'
  BY <1>3 DEF Fresh, Serial, SerialUseNeverAborts
<1>7. e0 \in DOMAIN envRegister \ tainted' =>
        /\ \A u \in Threads \ {t} : ~Using(u, e0)
        /\ Using(t, e0)' => Phase(t)'
        /\ ~Using(t, e0)' => Quiet(e0)'
  BY <1>5, Alone
<1> HIDE DEF Structure, Serial, Phase, Quiet, Using, Fresh, SerialUseNeverAborts, next
<1> QED BY <1>1, <1>4, <1>6, <1>7, SerialStep
\* What GoTo leaves of the thread's frame.
LEMMA GoToFrame ==
  ASSUME Structure, NEW t \in Threads, NEW step, GoTo(t, step)
  PROVE  /\ op'[t] = op[t] /\ call'[t] = call[t] /\ cur'[t] = cur[t]
         /\ fee'[t] = fee[t] /\ ok'[t] = ok[t] /\ at'[t] = step
BY DEF GoTo, frame, Structure, TypeOK

LEMMA SerialLoadEnv ==
  ASSUME Structure, Serial, NEW t \in Threads, LoadEnv(t)
  PROVE  Serial'
<1>1. /\ at[t] = "load" /\ call[t] \in Calls \ {"InitTestEnv"} /\ op[t] # "new"
  BY WhereAt DEF LoadEnv, At
<1>2. /\ GoTo(t, Body(call[t])) /\ env' = [env EXCEPT ![t] = envRegister[cur[t]]]
      /\ UNCHANGED <<library, chain, apps, answer, crash, history>>
  BY DEF LoadEnv
<1>3. /\ Body(call[t]) \in {"finalize", "fund", "read", "clean", "lock"}
      /\ Body(call[t]) = "finalize" <=>
           call[t] \in {"BeginBlock", "IncreaseTime", "EndBlock"}
  BY <1>1 DEF Calls, Body, LockedCalls
<1>4. /\ op'[t] = op[t] /\ call'[t] = call[t] /\ cur'[t] = cur[t]
      /\ ok'[t] = ok[t] /\ at'[t] = Body(call[t])
      /\ env'[t] = envRegister[cur[t]]
  BY <1>2, GoToFrame DEF Structure, TypeOK
<1>5. ASSUME Phase(t) PROVE Phase(t)'
  <2>1. /\ Closed(t)' <=> Closed(t)
        /\ Applied(t)' <=> Applied(t)
        /\ ~Opening(t) /\ ~Opening(t)' /\ ~Written(t) /\ ~Written(t)'
        /\ ~Ended(t) /\ ~Ended(t)'
    BY <1>1, <1>3, <1>4 DEF Closed, Opening, Written, Ended, Applied, Beginning
  <2>2. Result(t)' = Result(t)
    BY <1>2, <1>4, <2>1 DEF Result, history
  <2> QED BY <1>1, <1>2, <1>3, <1>4, <1>5, <2>1, <2>2 DEF Phase, library, history
<1>6. \A u \in Threads \ {t} : env'[u] = env[u]
  BY <1>2 DEF Structure, TypeOK
<1> HIDE DEF Structure, Serial, Phase
<1> QED BY <1>1, <1>2, <1>3, <1>5, <1>6, SerialGoTo DEF library

LEMMA SerialAcquire ==
  ASSUME Structure, Serial, NEW t \in Threads, Acquire(t)
  PROVE  Serial'
<1>1. /\ at[t] = "lock" /\ call[t] \in LockedCalls
      /\ call[t] = "InitTestEnv" <=> op[t] = "new"
  BY WhereAt DEF Acquire, At
<1>2. /\ GoTo(t, Locked(call[t]))
      /\ UNCHANGED <<envCounter, envRegister, tempDirs, chain, apps, env, answer,
                     crash, history>>
  BY DEF Acquire
<1>3. Locked(call[t]) \in {"make", "set", "simulate", "deliver"}
  BY <1>1 DEF Locked, LockedCalls
<1>4. /\ op'[t] = op[t] /\ call'[t] = call[t] /\ cur'[t] = cur[t]
      /\ ok'[t] = ok[t] /\ at'[t] = Locked(call[t]) /\ env'[t] = env[t]
      /\ answer'[t] = answer[t]
  BY <1>2, GoToFrame
<1>5. ASSUME Phase(t) PROVE Phase(t)'
  <2>1. /\ Closed(t)' <=> Closed(t)
        /\ Applied(t)' <=> Applied(t)
        /\ ~Opening(t) /\ ~Opening(t)' /\ ~Written(t) /\ ~Written(t)'
        /\ ~Ended(t) /\ ~Ended(t)'
    BY <1>1, <1>3, <1>4 DEF Closed, Opening, Written, Ended, Applied, Beginning, LockedCalls
  <2>2. Result(t)' = Result(t)
    BY <1>2, <1>4, <2>1 DEF Result, history
  <2> QED BY <1>1, <1>2, <1>3, <1>4, <1>5, <2>1, <2>2 DEF Phase, history
<1>6. CASE op[t] # "new"
  <2> HIDE DEF Structure, Serial, Phase
  <2> QED BY <1>1, <1>2, <1>3, <1>5, <1>6, SerialGoTo
<1>7. CASE op[t] = "new"
  <2>1. \A u \in Threads \ {t} :
          /\ op'[u] = op[u] /\ call'[u] = call[u] /\ at'[u] = at[u]
          /\ cur'[u] = cur[u] /\ fee'[u] = fee[u] /\ ok'[u] = ok[u]
          /\ env'[u] = env[u] /\ answer'[u] = answer[u]
    BY <1>2 DEF GoTo, frame, Structure, TypeOK
  <2>2. \A e : ~Using(t, e) /\ ~Using(t, e)'
    BY <1>4, <1>7 DEF Using
  <2>3. Fresh(t)' /\ SerialUseNeverAborts'
    BY <1>2, <1>3, <1>4 DEF Fresh, Serial, SerialUseNeverAborts, history
  <2>4. 0 \notin DOMAIN envRegister
    BY DEF Structure, Numbering
  <2>5. /\ DOMAIN envRegister' = DOMAIN envRegister /\ tainted \subseteq tainted'
        /\ \A e \in DOMAIN envRegister \ {0} :
             chain'[e] = chain[e] /\ envRegister'[e] = envRegister[e] /\ acked'[e] = acked[e]
    BY <1>2 DEF history
  <2> HIDE DEF Structure, Serial, Phase, Using, Fresh, SerialUseNeverAborts
  <2> QED BY <2>1, <2>2, <2>3, <2>4, <2>5, SerialStep
<1> QED BY <1>6, <1>7

LEMMA SerialFinalize ==
  ASSUME Structure, Serial, NEW t \in Threads, Finalize(t)
  PROVE  Serial'
<1> DEFINE app == chain[cur[t]]
<1>1. /\ at[t] = "finalize" /\ call[t] \in {"BeginBlock", "IncreaseTime", "EndBlock"}
      /\ op[t] # "new"
  BY WhereAt DEF Finalize, At
<1>2. /\ app \in App /\ app.last \in Nat /\ env[t].height \in Nat
      /\ cur[t] \in DOMAIN chain /\ DOMAIN chain = DOMAIN envRegister
  BY <1>1, InUse DEF App, TestEnv, Structure, Domains
<1>3. cur[t] \notin tainted => Phase(t) /\ CanFinalize(app, Height(t))
  <2>1. SUFFICES ASSUME Phase(t) PROVE CanFinalize(app, Height(t))
    BY <1>1, Alone
  <2>2. ~Opening(t) /\ ~Ended(t) /\ (Closed(t) => call[t] # "EndBlock")
    BY <1>1, WhereAt DEF Opening, Ended, Closed, Beginning, Structure, Shape, CallsOf
  <2>3. CASE call[t] = "EndBlock"
    BY <1>1, <1>2, <2>1, <2>2, <2>3 DEF Phase, CanFinalize, Height
  <2>4. CASE call[t] # "EndBlock"
    <3>1. Closed(t)
      BY <1>1, <2>4 DEF Closed, Beginning
    <3> QED BY <1>1, <1>2, <2>1, <2>2, <2>4, <3>1 DEF Phase, CanFinalize, Height
  <2> QED BY <2>3, <2>4
<1>4. CASE ~CanFinalize(app, Height(t))
  BY <1>3, <1>4, SerialAbort DEF Finalize
<1>5. CASE CanFinalize(app, Height(t))
  <2> DEFINE step == IF call[t] = "EndBlock" THEN "commit" ELSE "context"
  <2>1. /\ GoTo(t, step) /\ chain' = [chain EXCEPT ![cur[t]] = FinalizeBlock(app)]
        /\ UNCHANGED <<library, apps, env, answer, crash, history>>
    BY <1>5 DEF Finalize
  <2>2. /\ op'[t] = op[t] /\ call'[t] = call[t] /\ cur'[t] = cur[t]
        /\ ok'[t] = ok[t] /\ at'[t] = step /\ env'[t] = env[t] /\ answer'[t] = answer[t]
    BY <2>1, GoToFrame
  <2>3. chain'[cur'[t]] = FinalizeBlock(app)
    BY <1>2, <2>1, <2>2 DEF Structure, TypeOK
  <2>4. /\ chain'[cur'[t]].last = app.last /\ chain'[cur'[t]].saved = app.saved
        /\ chain'[cur'[t]].live
        /\ app.live => /\ chain'[cur'[t]].root = app.fin
                       /\ chain'[cur'[t]].fin = app.fin
                       /\ chain'[cur'[t]].gen = app.gen
        /\ ~app.live => /\ chain'[cur'[t]].root = app.root
                        /\ chain'[cur'[t]].fin = app.root
    BY <1>2, <2>3, FinalizeFields
  <2>5. ASSUME Phase(t) PROVE Phase(t)'
    <3>1. CASE call[t] = "EndBlock"
      <4>1. /\ ~Opening(t) /\ ~Opening(t)' /\ ~Closed(t) /\ ~Closed(t)'
            /\ ~Ended(t) /\ ~Ended(t)' /\ ~Written(t) /\ Written(t)'
            /\ Applied(t)' <=> Applied(t)
        BY <1>1, <2>2, <3>1, WhereAt
           DEF Opening, Closed, Ended, Written, Applied, Beginning, Structure, Shape, CallsOf
      <4>2. Result(t)' = Result(t)
        BY <2>1, <2>2, <4>1 DEF Result, history
      <4> QED BY <1>1, <1>2, <2>1, <2>2, <2>4, <2>5, <3>1, <4>1, <4>2
              DEF Phase, library, history
    <3>2. CASE call[t] # "EndBlock"
      <4>1. /\ ~Opening(t) /\ Opening(t)' /\ Closed(t) /\ ~Closed(t)'
            /\ ~Ended(t) /\ ~Ended(t)' /\ ~Written(t) /\ ~Written(t)'
            /\ ~Applied(t)' /\ ~Applied(t)
        BY <1>1, <2>2, <3>2
           DEF Opening, Closed, Ended, Written, Applied, Beginning, Structure, Shape, CallsOf
      <4>2. Result(t)' = acked[cur[t]] /\ Result(t) = acked[cur[t]]
        BY <2>1, <2>2, <4>1 DEF Result, history
      <4> QED BY <1>1, <1>2, <2>1, <2>2, <2>4, <2>5, <3>2, <4>1, <4>2
              DEF Phase, library, history
    <3> QED BY <3>1, <3>2
  <2>6. /\ DOMAIN chain' = DOMAIN chain
        /\ \A e \in DOMAIN chain \ {cur[t]} : chain'[e] = chain[e]
        /\ step \notin {"count", "publish"}
    BY <2>1
  <2> HIDE DEF Structure, Serial, Phase, step
  <2> QED BY <1>1, <2>1, <2>5, <2>6, SerialGoTo DEF library
<1> QED BY <1>4, <1>5
LEMMA SerialNewContext ==
  ASSUME Structure, Serial, NEW t \in Threads, NewContext(t)
  PROVE  Serial'
<1> DEFINE app == chain[cur[t]]
<1>1. /\ at[t] = "context" /\ call[t] \in {"BeginBlock", "IncreaseTime"}
      /\ op[t] # "new"
  BY WhereAt DEF NewContext, At
<1>2. /\ Opening(t) /\ ~Closed(t) /\ ~Ended(t) /\ ~Written(t) /\ ~Applied(t)
  BY <1>1, WhereAt DEF Opening, Closed, Ended, Written, Applied, Beginning,
     Structure, Shape, CallsOf
<1>3. cur[t] \notin tainted => app.live
  BY <1>1, <1>2, Alone DEF Phase
<1>4. CASE ~app.live
  BY <1>3, <1>4, SerialAbort DEF NewContext
<1>5. CASE app.live
  <2>1. /\ GoTo(t, "store")
        /\ env' = [env EXCEPT ![t] = [height |-> @.height + 1, gen |-> app.gen,
                                      nodeHome |-> @.nodeHome]]
        /\ UNCHANGED <<library, chain, apps, answer, crash, history>>
    BY <1>5 DEF NewContext
  <2>2. /\ op'[t] = op[t] /\ call'[t] = call[t] /\ cur'[t] = cur[t]
        /\ ok'[t] = ok[t] /\ at'[t] = "store" /\ answer'[t] = answer[t]
    BY <2>1, GoToFrame
  <2>3. /\ env'[t].height = env[t].height + 1 /\ env'[t].gen = app.gen
        /\ \A u \in Threads \ {t} : env'[u] = env[u]
    BY <2>1 DEF Structure, TypeOK
  <2>4. ASSUME Phase(t) PROVE Phase(t)'
    <3>1. /\ Opening(t)' /\ ~Closed(t)' /\ ~Ended(t)' /\ ~Written(t)' /\ ~Applied(t)'
      BY <1>1, <1>2, <2>2 DEF Opening, Closed, Ended, Written, Applied, Beginning
    <3>2. Result(t)' = Result(t)
      BY <1>2, <2>1, <2>2, <3>1 DEF Result, history
    <3> QED BY <1>1, <1>2, <1>5, <2>1, <2>2, <2>3, <2>4, <3>1, <3>2
            DEF Phase, library, history
  <2> HIDE DEF Structure, Serial, Phase
  <2> QED BY <1>1, <2>1, <2>3, <2>4, SerialGoTo DEF library
<1> QED BY <1>4, <1>5

LEMMA SerialCommitBlock ==
  ASSUME Structure, Serial, NEW t \in Threads, CommitBlock(t)
  PROVE  Serial'
<1> DEFINE app == chain[cur[t]]
<1>1. at[t] = "commit" /\ call[t] = "EndBlock" /\ op[t] # "new"
  BY WhereAt DEF CommitBlock, At
<1>2. /\ Written(t) /\ ~Opening(t) /\ ~Closed(t) /\ ~Ended(t)
  BY <1>1, WhereAt DEF Opening, Closed, Ended, Written, Beginning,
     Structure, Shape, CallsOf
<1>3. cur[t] \notin tainted => app.live
  BY <1>1, <1>2, Alone DEF Phase
<1>4. CASE ~app.live
  BY <1>3, <1>4, SerialAbort DEF CommitBlock
<1>5. CASE app.live
  <2>1. /\ GoTo(t, "store") /\ chain' = [chain EXCEPT ![cur[t]] = Commit(app)]
        /\ UNCHANGED <<library, apps, env, answer, crash, history>>
    BY <1>5 DEF CommitBlock
  <2>2. /\ op'[t] = op[t] /\ call'[t] = call[t] /\ cur'[t] = cur[t]
        /\ ok'[t] = ok[t] /\ at'[t] = "store" /\ env'[t] = env[t] /\ answer'[t] = answer[t]
    BY <2>1, GoToFrame
  <2>3. app \in App /\ cur[t] \in DOMAIN chain /\ app.last \in Nat
    BY <1>1, InUse DEF App
  <2>4. chain'[cur'[t]] = Commit(app)
    BY <2>1, <2>2, <2>3
  <2>5. /\ chain'[cur'[t]].last = app.last + 1 /\ chain'[cur'[t]].root = app.root
        /\ chain'[cur'[t]].saved = app.root /\ ~chain'[cur'[t]].live
    BY <2>3, <2>4, CommitFields
  <2>6. ASSUME Phase(t) PROVE Phase(t)'
    <3>1. /\ ~Written(t)' /\ ~Opening(t)' /\ ~Closed(t)' /\ Ended(t)'
          /\ Applied(t)' <=> Applied(t)
      BY <1>1, <1>2, <2>2 DEF Opening, Closed, Ended, Written, Applied, Beginning
    <3>2. Result(t)' = Result(t)
      BY <2>1, <2>2, <3>1 DEF Result, history
    <3>3. envRegister' = envRegister /\ acked' = acked
      BY <2>1 DEF library, history
    <3>4. /\ app.saved = acked[cur[t]] /\ app.root = Result(t) /\ env[t] = envRegister[cur[t]]
          /\ envRegister[cur[t]].height = app.last + 1
      BY <1>1, <1>2, <2>6 DEF Phase
    <3> QED BY <1>1, <2>2, <2>5, <3>1, <3>2, <3>3, <3>4 DEF Phase
  <2>7. /\ DOMAIN chain' = DOMAIN chain
        /\ \A e \in DOMAIN chain \ {cur[t]} : chain'[e] = chain[e]
    BY <2>1
  <2> HIDE DEF Structure, Serial, Phase
  <2> QED BY <1>1, <2>1, <2>6, <2>7, SerialGoTo DEF library
<1> QED BY <1>4, <1>5

\* Where a thread is after returning to the next call of its operation.
LEMMA ReturnedFrame ==
  ASSUME Structure, NEW t \in Threads, NEW good \in BOOLEAN, NEW value,
         NEW next, next = NextCall(op[t], call[t], fee[t], good), Return(t, good, value)
  PROVE  /\ call'[t] = next /\ answer'[t] = value
         /\ next # "return" => /\ op'[t] = op[t] /\ cur'[t] = cur[t]
                               /\ at'[t] = "load" /\ ok'[t] = good
<1>1. /\ op' = [op EXCEPT ![t] = IF next = "return" THEN "none" ELSE @]
      /\ call' = [call EXCEPT ![t] = next]
      /\ at' = [at EXCEPT ![t] = IF next = "return" THEN "idle" ELSE "load"]
      /\ cur' = [cur EXCEPT ![t] = IF next = "return" THEN 0 ELSE @]
      /\ ok' = [ok EXCEPT ![t] = next # "return" /\ good]
      /\ answer' = [answer EXCEPT ![t] = value]
  BY DEF Return
<1>2. ok'[t] = (next # "return" /\ good)
  BY <1>1 DEF Structure, TypeOK
<1> QED BY <1>1, <1>2 DEF Structure, TypeOK

LEMMA SerialStoreEnv ==
  ASSUME Structure, Serial, NEW t \in Threads, StoreEnv(t)
  PROVE  Serial'
<1> DEFINE next == NextCall(op[t], call[t], fee[t], TRUE)
           e == cur[t]
<1>1. /\ at[t] = "store" /\ op[t] # "new"
      /\ call[t] \in {"BeginBlock", "IncreaseTime", "EndBlock", "InitAccount", "Execute"}
      /\ call[t] \in CallsOf(op[t])
  BY WhereAt DEF StoreEnv, At, Structure, Shape
<1>2. /\ Return(t, TRUE, 0)
      /\ envRegister' = [envRegister EXCEPT ![e] = env[t]]
      /\ UNCHANGED <<envCounter, tempDirs, chain, apps, crash, tainted>>
  BY DEF StoreEnv
<1>3. e \in DOMAIN envRegister /\ e \in DOMAIN acked /\ op[t] \in AllOps
  BY <1>1, InUse
<1>4. /\ call'[t] = next
      /\ next # "return" => /\ op'[t] = op[t] /\ cur'[t] = e
                            /\ at'[t] = "load" /\ ok'[t] = TRUE
  BY <1>2, ReturnedFrame
<1>5. DOMAIN acked = DOMAIN envRegister
  BY DEF Structure, Domains
<1>6. CASE call[t] = "EndBlock"
  <2>1. next = "return"
    BY <1>6 DEF NextCall
  <2>2. /\ ~Closed(t) /\ Ended(t) /\ ~Written(t) /\ ~Opening(t)
    BY <1>1, <1>3, <1>6 DEF Closed, Ended, Written, Opening, Beginning, CallsOf
  <2>3. acked' = [acked EXCEPT ![e] = Result(t)]
    <3>1. CASE ok[t] /\ op[t] \in Kinds
      BY <1>6, <3>1 DEF StoreEnv, Result, Applied
    <3>2. CASE ~(ok[t] /\ op[t] \in Kinds)
      <4>1. acked' = acked /\ Result(t) = acked[e]
        BY <1>6, <3>2 DEF StoreEnv, Result, Applied
      <4> QED BY <1>3, <4>1 DEF Structure, TypeOK
    <3> QED BY <3>1, <3>2
  <2>4. ASSUME Phase(t), NEW e0, e0 = cur[t] PROVE Quiet(e0)'
    <3>1. chain'[e0] = chain[e] /\ envRegister'[e0] = env[t] /\ acked'[e0] = Result(t)
      BY <1>2, <1>3, <2>3, <2>4
    <3> QED BY <1>1, <1>6, <2>2, <2>4, <3>1 DEF Phase, Quiet
  <2>5. \A f \in DOMAIN envRegister \ {e} :
          chain'[f] = chain[f] /\ envRegister'[f] = envRegister[f] /\ acked'[f] = acked[f]
    BY <1>2, <1>5, <2>3
  <2>6. DOMAIN envRegister' = DOMAIN envRegister
    BY <1>2
  <2> HIDE DEF Structure, Serial, Phase, Quiet, next
  <2> QED BY <1>1, <1>2, <2>1, <2>4, <2>5, <2>6, SerialReturn DEF next
<1>7. CASE call[t] # "EndBlock"
  <2>1. acked' = acked
    BY <1>7 DEF StoreEnv
  <2>2. next \in {"InitAccount", "SetParamSet", "AccountSequence", "EndBlock"}
    BY <1>1, <1>7 DEF NextCall
  <2>3. /\ call[t] \in {"BeginBlock", "IncreaseTime"} /\ next = "EndBlock" =>
             op[t] = "time"
        /\ call[t] = "InitAccount" => next = "EndBlock" /\ op[t] = "account"
        /\ call[t] = "Execute" => next = "EndBlock" /\ op[t] = "tx"
        /\ op[t] \notin {"sim", "query", "drop"}
    BY <1>1, <1>3 DEF NextCall, CallsOf, AllOps
  <2>4. ASSUME Phase(t) PROVE Phase(t)'
    <3>1. /\ ~Closed(t)' /\ ~Opening(t)' /\ ~Written(t)' /\ ~Ended(t)'
          /\ ~Closed(t) /\ ~Written(t) /\ ~Ended(t)
          /\ Opening(t) <=> call[t] \in {"BeginBlock", "IncreaseTime"}
      BY <1>1, <1>4, <1>7, <2>2, <2>3
         DEF Closed, Opening, Written, Ended, Beginning
    <3>2. Applied(t)' <=> Applied(t)
      BY <1>1, <1>4, <1>7, <2>2, <2>3 DEF Applied, Kinds
    <3>3. Result(t)' = Result(t)
      BY <1>4, <2>1, <2>2, <3>2 DEF Result
    <3>4. envRegister'[cur'[t]] = env[t] /\ chain'[cur'[t]] = chain[e] /\ cur'[t] = e
      BY <1>2, <1>3, <1>4, <2>2
    <3>5. CASE Opening(t)
      BY <1>1, <1>4, <2>1, <2>2, <2>4, <3>1, <3>3, <3>4, <3>5 DEF Phase
    <3>6. CASE ~Opening(t)
      BY <1>1, <1>4, <2>1, <2>2, <2>4, <3>1, <3>3, <3>4, <3>6 DEF Phase
    <3> QED BY <3>5, <3>6
  <2>5. \A f \in DOMAIN envRegister \ {e} :
          chain'[f] = chain[f] /\ envRegister'[f] = envRegister[f] /\ acked'[f] = acked[f]
    BY <1>2, <2>1
  <2>6. DOMAIN envRegister' = DOMAIN envRegister /\ next # "return"
    BY <1>2, <2>2
  <2> HIDE DEF Structure, Serial, Phase, Quiet, next
  <2> QED BY <1>1, <1>2, <2>4, <2>5, <2>6, SerialReturn DEF next
<1> QED BY <1>6, <1>7
LEMMA SerialFund ==
  ASSUME Structure, Serial, NEW t \in Threads, Fund(t)
  PROVE  Serial'
<1> DEFINE app == chain[cur[t]]
<1>1. /\ at[t] = "fund" /\ call[t] = "InitAccount" /\ op[t] = "account"
  BY WhereAt DEF Fund, At
<1>2. CASE Abort(t, "input")
  BY <1>2, SerialAbort
<1>3. CASE /\ chain' = [chain EXCEPT ![cur[t]] = Write(app, env[t].gen, "account")]
           /\ GoTo(t, "store")
           /\ UNCHANGED <<library, apps, env, answer, crash, history>>
  <2>1. /\ op'[t] = op[t] /\ call'[t] = call[t] /\ cur'[t] = cur[t]
        /\ ok'[t] = ok[t] /\ at'[t] = "store" /\ env'[t] = env[t] /\ answer'[t] = answer[t]
    BY <1>3, GoToFrame
  <2>2. /\ app \in App /\ cur[t] \in DOMAIN chain /\ env[t].gen \in Nat
        /\ "account" \in Kinds
    BY <1>1, InUse DEF TestEnv, Kinds
  <2>3. chain'[cur'[t]] = Write(app, env[t].gen, "account")
    BY <1>3, <2>1, <2>2
  <2>4. /\ chain'[cur'[t]].last = app.last /\ chain'[cur'[t]].root = app.root
        /\ chain'[cur'[t]].saved = app.saved /\ chain'[cur'[t]].live = app.live
        /\ chain'[cur'[t]].gen = app.gen
        /\ Attached(app, env[t].gen) => chain'[cur'[t]].fin = Plus(app.fin, "account")
    BY <2>2, <2>3, WriteFields
  <2>5. ASSUME Phase(t) PROVE Phase(t)'
    <3>1. /\ ~Closed(t) /\ ~Opening(t) /\ ~Written(t) /\ ~Ended(t) /\ ~Applied(t)
          /\ ~Closed(t)' /\ ~Opening(t)' /\ ~Written(t)' /\ ~Ended(t)' /\ Applied(t)'
      BY <1>1, <2>1 DEF Closed, Opening, Written, Ended, Applied, Beginning
    <3>2. /\ Result(t) = acked[cur[t]] /\ acked' = acked /\ envRegister' = envRegister
          /\ Result(t)' = Plus(acked[cur[t]], "account")
      BY <1>1, <1>3, <2>1, <3>1 DEF Result, library, history
    <3>3. Attached(app, env[t].gen) /\ app.fin = acked[cur[t]]
      BY <1>1, <2>5, <3>1, <3>2 DEF Phase, Attached
    <3> QED BY <1>1, <2>1, <2>4, <2>5, <3>1, <3>2, <3>3 DEF Phase
  <2>6. /\ DOMAIN chain' = DOMAIN chain
        /\ \A e \in DOMAIN chain \ {cur[t]} : chain'[e] = chain[e]
    BY <1>3
  <2> HIDE DEF Structure, Serial, Phase
  <2> QED BY <1>1, <1>3, <2>5, <2>6, SerialGoTo DEF library
<1> QED BY <1>2, <1>3 DEF Fund

LEMMA SerialSetParam ==
  ASSUME Structure, Serial, NEW t \in Threads, SetParam(t)
  PROVE  Serial'
<1> DEFINE app == chain[cur[t]]
<1>1. /\ at[t] = "set" /\ call[t] = "SetParamSet" /\ op[t] = "param"
  BY WhereAt DEF SetParam, At
<1>2. CASE Abort(t, "input")
  BY <1>2, SerialAbort
<1>3. ASSUME NEW good \in BOOLEAN, Return(t, good, 0),
             chain' = [chain EXCEPT ![cur[t]] = IF good THEN Write(app, env[t].gen, "param")
                                                ELSE app],
             UNCHANGED <<envCounter, envRegister, tempDirs, apps, crash, history>>
      PROVE  Serial'
  <2>1. NextCall(op[t], call[t], fee[t], good) = "EndBlock"
    BY <1>1 DEF NextCall
  <2>2. /\ call'[t] = "EndBlock" /\ op'[t] = op[t] /\ cur'[t] = cur[t]
        /\ at'[t] = "load" /\ ok'[t] = good
    BY <1>3, <2>1, ReturnedFrame
  <2>3. /\ app \in App /\ cur[t] \in DOMAIN chain /\ env[t].gen \in Nat
        /\ "param" \in Kinds /\ DOMAIN chain = DOMAIN envRegister
    BY <1>1, InUse DEF TestEnv, Kinds, Structure, Domains
  <2>4. chain'[cur'[t]] = IF good THEN Write(app, env[t].gen, "param") ELSE app
    BY <1>3, <2>2, <2>3
  <2>5. /\ chain'[cur'[t]].last = app.last /\ chain'[cur'[t]].root = app.root
        /\ chain'[cur'[t]].saved = app.saved /\ chain'[cur'[t]].live = app.live
        /\ chain'[cur'[t]].gen = app.gen
        /\ good /\ Attached(app, env[t].gen) =>
             chain'[cur'[t]].fin = Plus(app.fin, "param")
        /\ ~good => chain'[cur'[t]].fin = app.fin
    BY <2>3, <2>4, WriteFields
  <2>6. ASSUME Phase(t) PROVE Phase(t)'
    <3>1. /\ ~Closed(t) /\ ~Opening(t) /\ ~Written(t) /\ ~Ended(t) /\ ~Applied(t)
          /\ ~Closed(t)' /\ ~Opening(t)' /\ ~Written(t)' /\ ~Ended(t)'
          /\ Applied(t)' <=> good
      BY <1>1, <2>2 DEF Closed, Opening, Written, Ended, Applied, Beginning, Kinds
    <3>2. /\ Result(t) = acked[cur[t]] /\ acked' = acked /\ envRegister' = envRegister
          /\ Result(t)' = IF good THEN Plus(acked[cur[t]], "param") ELSE acked[cur[t]]
      BY <1>1, <1>3, <2>2, <3>1 DEF Result, history
    <3>3. Attached(app, env[t].gen) /\ app.fin = acked[cur[t]]
      BY <1>1, <2>6, <3>1, <3>2 DEF Phase, Attached
    <3> QED BY <1>1, <2>2, <2>5, <2>6, <3>1, <3>2, <3>3 DEF Phase
  <2>7. \A e \in DOMAIN envRegister \ {cur[t]} :
          chain'[e] = chain[e] /\ envRegister'[e] = envRegister[e] /\ acked'[e] = acked[e]
    BY <1>3, <2>3 DEF history
  <2> HIDE DEF Structure, Serial, Phase, Quiet
  <2> QED BY <1>1, <1>3, <2>1, <2>6, <2>7, SerialReturn DEF history
<1>4. CASE ~Abort(t, "input")
  <2>1. /\ UNCHANGED <<envCounter, envRegister, tempDirs, apps, crash, history>>
        /\ \/ /\ chain' = [chain EXCEPT ![cur[t]] = Write(app, env[t].gen, "param")]
              /\ Return(t, TRUE, 0)
           \/ /\ UNCHANGED chain
              /\ Return(t, FALSE, 0)
    BY <1>4 DEF SetParam
  <2>2. chain = [chain EXCEPT ![cur[t]] = app]
    BY DEF Structure, TypeOK
  <2> QED BY <1>3, <2>1, <2>2
<1> QED BY <1>2, <1>4

LEMMA SerialReadStore ==
  ASSUME Structure, Serial, NEW t \in Threads, ReadStore(t)
  PROVE  Serial'
<1> DEFINE next == NextCall(op[t], call[t], fee[t], TRUE)
           value == Read(chain[cur[t]], env[t].gen)["tx"]
<1>1. /\ at[t] = "read" /\ call[t] \in {"AccountSequence", "Query"} /\ op[t] # "new"
      /\ call[t] \in CallsOf(op[t]) /\ op[t] \in AllOps /\ (op[t] = "sim" => ~fee[t])
  BY WhereAt, InUse DEF ReadStore, At, Structure, Shape
<1>2. /\ Return(t, TRUE, value) /\ UNCHANGED <<library, chain, apps, crash, history>>
  BY DEF ReadStore
<1>3. chain[cur[t]] \in App /\ env[t].gen \in Nat /\ value \in Nat
  BY <1>1, InUse, ReadType DEF TestEnv
<1>4. /\ call'[t] = next /\ answer'[t] = value
      /\ next # "return" => /\ op'[t] = op[t] /\ cur'[t] = cur[t]
                            /\ at'[t] = "load" /\ ok'[t] = TRUE
  BY <1>2, ReturnedFrame
<1>5. /\ ~Opening(t) /\ ~Written(t) /\ ~Ended(t) /\ ~Applied(t)
      /\ Closed(t) <=> op[t] \in {"sim", "query", "drop"}
  BY <1>1 DEF Opening, Closed, Written, Ended, Applied, Beginning
<1>6. acked' = acked /\ envRegister' = envRegister /\ chain' = chain
  BY <1>2 DEF library, history
<1>7. ASSUME Phase(t) PROVE Read(chain[cur[t]], env[t].gen) = acked[cur[t]]
  BY <1>1, <1>5, <1>7 DEF Phase, Read, Attached, Result
<1>8. CASE call[t] = "Query"
  <2>1. next = "return" /\ op[t] = "query"
    BY <1>1, <1>8 DEF NextCall, CallsOf, AllOps
  <2>2. ASSUME Phase(t), NEW e0, e0 = cur[t] PROVE Quiet(e0)'
    BY <1>5, <1>6, <2>1, <2>2 DEF Phase, Quiet
  <2> HIDE DEF Structure, Serial, Phase, Quiet, next, value
  <2> QED BY <1>1, <1>2, <1>3, <1>6, <2>1, <2>2, SerialReturn DEF next, library, history
<1>9. CASE call[t] # "Query"
  <2>1. /\ next \in {"Simulate", "Execute"} /\ op[t] \in {"tx", "sim"}
        /\ op[t] = "sim" => next = "Simulate"
    BY <1>1, <1>9 DEF NextCall, CallsOf, AllOps
  <2>2. ASSUME Phase(t) PROVE Phase(t)'
    <3>1. /\ ~Opening(t)' /\ ~Written(t)' /\ ~Ended(t)' /\ ~Applied(t)'
          /\ Closed(t)' <=> Closed(t)
      BY <1>1, <1>4, <1>5, <2>1 DEF Opening, Closed, Written, Ended, Applied, Beginning
    <3>2. Result(t)' = Result(t)
      BY <1>4, <1>5, <1>6, <2>1, <3>1 DEF Result
    <3>3. answer'[t] = acked[cur[t]]["tx"]
      BY <1>4, <1>7, <2>2
    <3> HIDE DEF next
    <3> QED BY <1>1, <1>4, <1>5, <1>6, <2>1, <2>2, <3>1, <3>2, <3>3 DEF Phase
  <2>3. next # "return"
    BY <2>1
  <2> HIDE DEF Structure, Serial, Phase, Quiet, next, value
  <2> QED BY <1>1, <1>2, <1>3, <1>6, <2>2, <2>3, SerialReturn DEF next, library, history
<1> QED BY <1>8, <1>9
LEMMA SerialSimulate ==
  ASSUME Structure, Serial, NEW t \in Threads, Simulate(t)
  PROVE  Serial'
<1>1. /\ at[t] = "simulate" /\ call[t] = "Simulate" /\ op[t] # "new"
      /\ call[t] \in CallsOf(op[t]) /\ op[t] \in AllOps
  BY WhereAt, InUse DEF Simulate, At, Structure, Shape
<1>2. PICK good \in BOOLEAN : Return(t, good, 0)
  BY DEF Simulate
<1>3. UNCHANGED <<envCounter, envRegister, tempDirs, chain, apps, crash, history>>
  BY DEF Simulate
<1> DEFINE next == NextCall(op[t], call[t], fee[t], good)
<1>4. /\ call'[t] = next
      /\ next # "return" => /\ op'[t] = op[t] /\ cur'[t] = cur[t]
                            /\ at'[t] = "load" /\ ok'[t] = good
  BY <1>2, ReturnedFrame
<1>5. /\ ~Opening(t) /\ ~Written(t) /\ ~Ended(t) /\ ~Applied(t)
      /\ Closed(t) <=> op[t] = "sim"
  BY <1>1 DEF Opening, Closed, Written, Ended, Applied, Beginning, CallsOf, AllOps
<1>6. /\ op[t] \in {"tx", "sim"} /\ (op[t] = "sim" => next = "return")
      /\ op[t] = "tx" => /\ next \in {"AccountSequence", "EndBlock"}
                         /\ next = "EndBlock" => ~good
  BY <1>1 DEF NextCall, CallsOf, AllOps
<1>7. CASE op[t] = "sim"
  <2>1. ASSUME Phase(t), NEW e0, e0 = cur[t] PROVE Quiet(e0)'
    BY <1>3, <1>5, <1>7, <2>1 DEF Phase, Quiet, history
  <2> HIDE DEF Structure, Serial, Phase, Quiet, next
  <2> QED BY <1>1, <1>2, <1>3, <1>6, <1>7, <2>1, SerialReturn DEF next, history
<1>8. CASE op[t] = "tx"
  <2>1. ASSUME Phase(t) PROVE Phase(t)'
    <3>1. /\ ~Opening(t)' /\ ~Written(t)' /\ ~Ended(t)' /\ ~Applied(t)' /\ ~Closed(t)'
      BY <1>1, <1>4, <1>6, <1>8 DEF Opening, Closed, Written, Ended, Applied, Beginning
    <3>2. Result(t)' = Result(t)
      BY <1>3, <1>4, <1>5, <1>6, <1>8, <3>1 DEF Result, history
    <3> HIDE DEF next
    <3> QED BY <1>1, <1>3, <1>4, <1>5, <1>6, <1>8, <2>1, <3>1, <3>2 DEF Phase, history
  <2>2. next # "return"
    BY <1>6, <1>8
  <2> HIDE DEF Structure, Serial, Phase, Quiet, next
  <2> QED BY <1>1, <1>2, <1>3, <2>1, <2>2, SerialReturn DEF next, history
<1> QED BY <1>6, <1>7, <1>8

LEMMA SerialDeliver ==
  ASSUME Structure, Serial, NEW t \in Threads, Deliver(t)
  PROVE  Serial'
<1> DEFINE app == chain[cur[t]]
           why == IF ~app.live THEN "state"
                  ELSE IF answer[t] # app.fin["tx"] THEN "sequence" ELSE "input"
<1>1. at[t] = "deliver" /\ call[t] = "Execute" /\ op[t] = "tx"
  BY WhereAt DEF Deliver, At
<1>2. /\ ~Closed(t) /\ ~Opening(t) /\ ~Written(t) /\ ~Ended(t) /\ ~Applied(t)
  BY <1>1 DEF Closed, Opening, Written, Ended, Applied, Beginning
<1>3. cur[t] \notin tainted => app.live /\ answer[t] = app.fin["tx"]
  <2>1. SUFFICES ASSUME Phase(t) PROVE app.live /\ answer[t] = app.fin["tx"]
    BY <1>1, Alone
  <2> QED BY <1>1, <1>2, <2>1 DEF Phase, Result
<1>4. CASE Abort(t, why)
  <2>1. why \in {"height", "state", "sequence", "race"} => cur[t] \in tainted
    BY <1>3
  <2> HIDE DEF why
  <2> QED BY <1>4, <2>1, SerialAbort
<1>5. CASE /\ chain' = [chain EXCEPT ![cur[t]] = DeliverTx(app)]
           /\ GoTo(t, "store")
           /\ UNCHANGED <<library, apps, env, answer, crash, history>>
  <2>1. /\ op'[t] = op[t] /\ call'[t] = call[t] /\ cur'[t] = cur[t]
        /\ ok'[t] = ok[t] /\ at'[t] = "store" /\ env'[t] = env[t] /\ answer'[t] = answer[t]
    BY <1>5, GoToFrame
  <2>2. app \in App /\ cur[t] \in DOMAIN chain
    BY <1>1, InUse
  <2>3. chain'[cur'[t]] = DeliverTx(app)
    BY <1>5, <2>1, <2>2
  <2>4. /\ chain'[cur'[t]].last = app.last /\ chain'[cur'[t]].root = app.root
        /\ chain'[cur'[t]].saved = app.saved /\ chain'[cur'[t]].live = app.live
        /\ chain'[cur'[t]].gen = app.gen /\ chain'[cur'[t]].fin = Plus(app.fin, "tx")
    BY <2>2, <2>3, DeliverFields
  <2>5. ASSUME Phase(t) PROVE Phase(t)'
    <3>1. ~Closed(t)' /\ ~Opening(t)' /\ ~Written(t)' /\ ~Ended(t)' /\ Applied(t)'
      BY <1>1, <2>1 DEF Closed, Opening, Written, Ended, Applied, Beginning
    <3>2. /\ Result(t) = acked[cur[t]] /\ acked' = acked /\ envRegister' = envRegister
          /\ Result(t)' = Plus(acked[cur[t]], "tx")
      BY <1>1, <1>2, <1>5, <2>1, <3>1 DEF Result, library, history
    <3> QED BY <1>1, <1>2, <2>1, <2>4, <2>5, <3>1, <3>2 DEF Phase
  <2>6. /\ DOMAIN chain' = DOMAIN chain
        /\ \A e \in DOMAIN chain \ {cur[t]} : chain'[e] = chain[e]
    BY <1>5
  <2> HIDE DEF Structure, Serial, Phase
  <2> QED BY <1>1, <1>5, <2>5, <2>6, SerialGoTo DEF library
<1> QED BY <1>4, <1>5 DEF Deliver

LEMMA SerialCleanUp ==
  ASSUME Structure, Serial, NEW t \in Threads, CleanUp(t)
  PROVE  Serial'
<1>1. /\ at[t] = "clean" /\ call[t] = "CleanUp" /\ op[t] = "drop" /\ env[t].nodeHome = ""
  BY WhereAt DEF CleanUp, At, Structure, Shape
<1>2. /\ Return(t, TRUE, 0)
      /\ UNCHANGED <<tempDirs, envRegister, mu, envCounter, chain, crash, history>>
  BY <1>1 DEF CleanUp
<1>3. NextCall(op[t], call[t], fee[t], TRUE) = "return"
  BY <1>1 DEF NextCall
<1>4. Closed(t) /\ ~Opening(t) /\ ~Written(t) /\ ~Ended(t)
  BY <1>1 DEF Closed, Opening, Written, Ended, Beginning
<1>5. ASSUME Phase(t), NEW e0, e0 = cur[t] PROVE Quiet(e0)'
  BY <1>2, <1>4, <1>5 DEF Phase, Quiet, history
<1> HIDE DEF Structure, Serial, Phase, Quiet
<1> QED BY <1>1, <1>2, <1>3, <1>5, SerialReturn DEF history

\* A step of a thread that uses no environment before or after it.
LEMMA SerialAside ==
  ASSUME Structure, Serial, NEW t \in Threads,
         \A u \in Threads \ {t} :
           /\ op'[u] = op[u] /\ call'[u] = call[u] /\ at'[u] = at[u]
           /\ cur'[u] = cur[u] /\ fee'[u] = fee[u] /\ ok'[u] = ok[u]
           /\ env'[u] = env[u] /\ answer'[u] = answer[u],
         UNCHANGED <<envRegister, chain, acked, tainted, crash>>,
         \A e : ~Using(t, e) /\ ~Using(t, e)', Fresh(t)'
  PROVE  Serial'
<1>1. 0 \notin DOMAIN envRegister /\ SerialUseNeverAborts'
  BY DEF Structure, Numbering, Serial, SerialUseNeverAborts
<1> HIDE DEF Structure, Serial, Phase, Quiet, Using, Fresh, SerialUseNeverAborts
<1> QED BY <1>1, SerialStep

LEMMA SerialStartNew ==
  ASSUME Structure, Serial, NEW t \in Threads, StartNew(t)
  PROVE  Serial'
<1> USE DEF StartNew, At, library, history
<1>1. at[t] = "idle" /\ op[t] = "none"
  BY WhereAt
<1>2. \A u \in Threads \ {t} :
        /\ op'[u] = op[u] /\ call'[u] = call[u] /\ at'[u] = at[u]
        /\ cur'[u] = cur[u] /\ fee'[u] = fee[u] /\ ok'[u] = ok[u]
        /\ env'[u] = env[u] /\ answer'[u] = answer[u]
  BY DEF Structure, TypeOK
<1>3. op'[t] = "new" /\ at'[t] = "lock"
  BY DEF Structure, TypeOK
<1>4. \A e : ~Using(t, e) /\ ~Using(t, e)'
  BY <1>1, <1>3 DEF Using
<1>5. Fresh(t)'
  BY <1>3 DEF Fresh
<1>6. UNCHANGED <<envRegister, chain, acked, tainted, crash>>
  OBVIOUS
<1> HIDE DEF Structure, Serial, Using, Fresh, StartNew
<1> QED BY <1>2, <1>4, <1>5, <1>6, SerialAside

LEMMA SerialMakeEnv ==
  ASSUME Structure, Serial, NEW t \in Threads, MakeEnv(t) \/ Count(t)
  PROVE  Serial'
<1> DEFINE first == [height |-> FirstChain.last, gen |-> FirstChain.gen, nodeHome |-> ""]
<1>1. at[t] \in {"make", "count"} /\ op[t] = "new"
  BY WhereAt DEF MakeEnv, Count, At
<1>2. PICK step : GoTo(t, step)
  BY DEF MakeEnv, Count
<1>3. op'[t] = "new" /\ cur'[t] = cur[t]
  BY <1>1, <1>2, GoToFrame
<1>4. /\ UNCHANGED <<envRegister, chain, acked, tainted, crash, answer>>
      /\ \A u \in Threads \ {t} : env'[u] = env[u]
      /\ env'[t] = first
  BY DEF MakeEnv, Count, At, history, Serial, Fresh, Structure, TypeOK
<1>5. \A u \in Threads \ {t} :
        /\ op'[u] = op[u] /\ call'[u] = call[u] /\ at'[u] = at[u]
        /\ cur'[u] = cur[u] /\ fee'[u] = fee[u] /\ ok'[u] = ok[u]
        /\ env'[u] = env[u] /\ answer'[u] = answer[u]
  BY <1>2, <1>4 DEF GoTo, frame, Structure, TypeOK
<1>6. \A e : ~Using(t, e) /\ ~Using(t, e)'
  BY <1>1, <1>3 DEF Using
<1>7. Fresh(t)'
  BY <1>4 DEF Fresh
<1> HIDE DEF Structure, Serial, Using, Fresh
<1> QED BY <1>4, <1>5, <1>6, <1>7, SerialAside
\* A new environment is quiet, and nobody uses it yet.
LEMMA SerialPublish ==
  ASSUME Structure, Serial, NEW t \in Threads, Publish(t)
  PROVE  Serial'
<1>1. at[t] = "publish" /\ op[t] = "new" /\ call[t] = "InitTestEnv"
  BY WhereAt DEF Publish, At
<1>2. /\ Return(t, TRUE, envCounter)
      /\ envRegister' = With(envRegister, envCounter, env[t])
      /\ chain' = With(chain, envCounter, FirstChain)
      /\ acked' = With(acked, envCounter, EmptyStore)
      /\ UNCHANGED <<envCounter, tempDirs, crash, tainted>>
  BY DEF Publish
<1>3. envCounter \in Nat /\ envCounter \notin DOMAIN envRegister
  BY <1>1 DEF Structure, TypeOK, Numbering
<1>4. DOMAIN chain = DOMAIN envRegister /\ DOMAIN acked = DOMAIN envRegister
  BY DEF Structure, Domains
<1>5. /\ DOMAIN envRegister' = DOMAIN envRegister \union {envCounter}
      /\ envRegister'[envCounter] = env[t] /\ chain'[envCounter] = FirstChain
      /\ acked'[envCounter] = EmptyStore
      /\ \A e \in DOMAIN envRegister :
           /\ chain'[e] = chain[e] /\ envRegister'[e] = envRegister[e]
           /\ acked'[e] = acked[e]
  BY <1>2, <1>3, <1>4 DEF With
<1>6. \A u \in Threads \ {t} :
        /\ op'[u] = op[u] /\ call'[u] = call[u] /\ at'[u] = at[u]
        /\ cur'[u] = cur[u] /\ fee'[u] = fee[u] /\ ok'[u] = ok[u]
        /\ env'[u] = env[u] /\ answer'[u] = answer[u]
  BY <1>1, <1>2, <1>3, ReturnFrame
<1>7. at'[t] \in {"idle", "load"}
  BY <1>1, <1>2, <1>3, ReturnFrame
<1>8. op'[t] = "none"
  <2>1. NextCall(op[t], call[t], fee[t], TRUE) = "return"
    BY <1>1 DEF NextCall
  <2> QED BY <1>2, <2>1 DEF Return, Structure, TypeOK
<1>9. \A e : ~Using(t, e) /\ ~Using(t, e)'
  BY <1>1, <1>8 DEF Using
<1>10. \A u \in Threads : \A e : Using(u, e)' <=> Using(u, e)
  BY <1>6, <1>9 DEF Using
<1>11. \A u \in Threads : ~Using(u, envCounter)'
  <2>1. \A u \in Threads : ~Using(u, envCounter)
    BY <1>3 DEF Using, Structure, Shape
  <2> QED BY <2>1, <1>2, <1>10
<1>12. ASSUME NEW e0, e0 = envCounter PROVE Quiet(e0)'
  <2>1. env[t].height = FirstChain.last
    <3> DEFINE first == [height |-> FirstChain.last, gen |-> FirstChain.gen,
                         nodeHome |-> ""]
    <3>1. env[t] = first
      BY <1>1 DEF Serial, Fresh
    <3>2. first.height = FirstChain.last
      OBVIOUS
    <3> HIDE DEF first
    <3> QED BY <3>1, <3>2
  <2>2. /\ chain'[e0] = FirstChain /\ envRegister'[e0] = env[t] /\ acked'[e0] = EmptyStore
    BY <1>5, <1>12
  <2> QED BY <2>1, <2>2, FirstChainFields DEF Quiet
<1>13. \A u \in Threads : Fresh(u)'
  BY <1>6, <1>7 DEF Serial, Fresh
<1>14. SerialUseNeverAborts'
  BY <1>2 DEF Serial, SerialUseNeverAborts
<1>15. ASSUME NEW e \in DOMAIN envRegister \ tainted
       PROVE  /\ \A u, v \in Threads : Using(u, e)' /\ Using(v, e)' => u = v
              /\ (\A u \in Threads : ~Using(u, e)') => Quiet(e)'
              /\ \A u \in Threads : Using(u, e)' => Phase(u)'
  <2>1. chain'[e] = chain[e] /\ envRegister'[e] = envRegister[e] /\ acked'[e] = acked[e]
    BY <1>5
  <2>2. \A u, v \in Threads : Using(u, e)' /\ Using(v, e)' => u = v
    BY <1>10 DEF Serial
  <2>3. (\A u \in Threads : ~Using(u, e)') => Quiet(e)'
    BY <1>10, <2>1 DEF Serial, Quiet
  <2>4. ASSUME NEW u \in Threads, Using(u, e)'
        PROVE  Phase(u)'
    <3>1. u # t /\ Using(u, e) /\ cur[u] = e
      BY <1>9, <1>10, <2>4 DEF Using
    <3>2. Phase(u)
      BY <3>1 DEF Serial
    <3>3. /\ op'[u] = op[u] /\ call'[u] = call[u] /\ at'[u] = at[u]
          /\ cur'[u] = cur[u] /\ fee'[u] = fee[u] /\ ok'[u] = ok[u]
          /\ env'[u] = env[u] /\ answer'[u] = answer[u]
      BY <1>6, <3>1
    <3>4. /\ Closed(u)' <=> Closed(u)
          /\ Opening(u)' <=> Opening(u)
          /\ Written(u)' <=> Written(u)
          /\ Ended(u)' <=> Ended(u)
          /\ Applied(u)' <=> Applied(u)
      BY <3>3 DEF Closed, Opening, Written, Ended, Applied, Beginning
    <3>5. Result(u)' = Result(u)
      BY <2>1, <3>1, <3>3, <3>4 DEF Result
    <3> QED BY <2>1, <3>1, <3>2, <3>3, <3>4, <3>5 DEF Phase
  <2> QED BY <2>2, <2>3, <2>4
<1>16. ASSUME NEW e \in DOMAIN envRegister' \ tainted'
       PROVE  /\ \A u, v \in Threads : Using(u, e)' /\ Using(v, e)' => u = v
              /\ (\A u \in Threads : ~Using(u, e)') => Quiet(e)'
              /\ \A u \in Threads : Using(u, e)' => Phase(u)'
  <2>1. CASE e = envCounter
    <3>1. \A u \in Threads : ~Using(u, e)'
      BY <1>3, <1>10, <2>1 DEF Using, Structure, Shape
    <3> QED BY <1>12, <2>1, <3>1
  <2>2. CASE e # envCounter
    BY <1>2, <1>5, <1>15, <2>2
  <2> QED BY <2>1, <2>2
<1> HIDE DEF Phase, Quiet, Using, Fresh
<1> QED BY <1>13, <1>14, <1>16 DEF Serial

LEMMA SerialStart ==
  ASSUME Structure, Serial, NEW t \in Threads, NEW e \in DOMAIN apps, NEW o \in Ops,
         Start(t, e, o)
  PROVE  Serial'
<1> USE DEF Start, At, library, history
<1>1. /\ at[t] = "idle" /\ op[t] = "none" /\ o \in AllOps \ {"new"}
      /\ e \in DOMAIN envRegister
  BY WhereAt, OpsAssumption DEF Structure, Domains
<1>2. \A u \in Threads \ {t} :
        /\ op'[u] = op[u] /\ call'[u] = call[u] /\ at'[u] = at[u]
        /\ cur'[u] = cur[u] /\ fee'[u] = fee[u] /\ ok'[u] = ok[u]
        /\ env'[u] = env[u] /\ answer'[u] = answer[u]
  BY DEF Structure, TypeOK
<1>3. /\ op'[t] = o /\ call'[t] = FirstCall(o) /\ at'[t] = "load" /\ cur'[t] = e
  BY DEF Structure, TypeOK
<1>4. UNCHANGED <<envRegister, chain, acked, crash>> /\ tainted \subseteq tainted'
  OBVIOUS
<1>5. \A f : (Using(t, f) \/ Using(t, f)') => f = e
  BY <1>1, <1>3 DEF Using
<1>6. Using(t, e)'
  BY <1>1, <1>3 DEF Using, AllOps
<1>7. Fresh(t)' /\ SerialUseNeverAborts'
  BY <1>3, <1>4 DEF Fresh, Serial, SerialUseNeverAborts
<1>8. ASSUME e \notin tainted'
      PROVE  Phase(t)' /\ \A u \in Threads \ {t} : ~Using(u, e)
  <2>1. Busy(e) = {} /\ e \notin tainted
    BY <1>8
  <2>2. \A u \in Threads : ~Using(u, e)
    BY <1>1, <2>1, WhereAt DEF Using, Busy
  <2>3. Quiet(e)
    BY <1>1, <2>1, <2>2 DEF Serial
  <2>4. /\ FirstCall(o) \in {"BeginBlock", "IncreaseTime", "AccountSequence", "Query",
                             "CleanUp"}
        /\ FirstCall(o) \in {"AccountSequence", "Query", "CleanUp"} =>
             o \in {"sim", "query", "drop"}
    BY <1>1 DEF FirstCall, AllOps
  <2>5. /\ Closed(t)' /\ ~Opening(t)' /\ ~Written(t)' /\ ~Ended(t)' /\ ~Applied(t)'
    BY <1>3, <2>4 DEF Closed, Opening, Written, Ended, Applied, Beginning
  <2>6. Result(t)' = acked[e]
    BY <1>3, <1>4, <2>5 DEF Result
  <2> QED BY <1>3, <1>4, <2>2, <2>3, <2>4, <2>5, <2>6 DEF Phase, Quiet
<1>9. DOMAIN envRegister' = DOMAIN envRegister
  BY <1>4
<1> HIDE DEF Structure, Serial, Phase, Quiet, Using, Fresh, Start, SerialUseNeverAborts
<1> QED BY <1>1, <1>2, <1>4, <1>5, <1>6, <1>7, <1>8, <1>9, SerialStep

LEMMA SerialUnwind ==
  ASSUME Structure, Serial, NEW t \in Threads, Unwind(t)
  PROVE  Serial'
<1> USE DEF Unwind, At, library, history
<1>1. \A u \in Threads \ {t} :
        /\ op'[u] = op[u] /\ call'[u] = call[u] /\ at'[u] = at[u]
        /\ cur'[u] = cur[u] /\ fee'[u] = fee[u] /\ ok'[u] = ok[u]
        /\ env'[u] = env[u] /\ answer'[u] = answer[u]
  BY DEF Structure, TypeOK
<1>2. op'[t] = "none" /\ at'[t] = "idle"
  BY DEF Structure, TypeOK
<1>3. /\ UNCHANGED <<envRegister, chain, acked, crash>> /\ tainted \subseteq tainted'
      /\ cur[t] \in tainted'
  OBVIOUS
<1>4. \A e : (Using(t, e) \/ Using(t, e)') => e = cur[t]
  BY <1>2 DEF Using
<1>5. Fresh(t)' /\ SerialUseNeverAborts'
  BY <1>2, <1>3 DEF Fresh, Serial, SerialUseNeverAborts
<1>6. PICK e0 : e0 = cur[t]
  OBVIOUS
<1>7. DOMAIN envRegister' = DOMAIN envRegister
  BY <1>3
<1> HIDE DEF Structure, Serial, Phase, Quiet, Using, Fresh, Unwind, SerialUseNeverAborts
<1> QED BY <1>1, <1>3, <1>4, <1>5, <1>6, <1>7, SerialStep

LEMMA SerialDataRace ==
  ASSUME Structure, Serial, NEW t \in Threads, NEW u \in Threads, DataRace(t, u)
  PROVE  Serial'
<1>1. /\ t # u /\ cur[t] = cur[u] /\ Abort(t, "race")
      /\ at[t] \in Writing \union Reading /\ at[u] \in Writing \union Reading
  BY DEF DataRace
<1>2. op[t] # "new" /\ op[u] # "new" /\ at[t] # "idle" /\ at[u] # "idle"
  BY <1>1, WhereAt DEF Writing, Reading
<1>3. cur[t] \in tainted
  BY <1>1, <1>2, Alone, InUse
<1> QED BY <1>1, <1>3, SerialAbort

LEMMA SerialNext ==
  ASSUME Structure, Serial, [Next]_vars
  PROVE  Serial'
<1>1. CASE UNCHANGED vars
  BY <1>1, SerialStutter
<1>2. ASSUME NEW t \in Threads, Begin(t)
      PROVE  Serial'
  BY <1>2, SerialStartNew, SerialStart DEF Begin
<1>3. ASSUME NEW t \in Threads, Work(t)
      PROVE  Serial'
  BY <1>3, SerialLoadEnv, SerialAcquire, SerialMakeEnv, SerialPublish,
     SerialFinalize, SerialNewContext, SerialCommitBlock, SerialStoreEnv,
     SerialFund, SerialSetParam, SerialReadStore, SerialSimulate, SerialDeliver,
     SerialCleanUp
     DEF Work
<1> QED BY <1>1, <1>2, <1>3, SerialUnwind, SerialDataRace DEF Next

\* IInv is an invariant: the conjunction of Structure and Serial is inductive.
THEOREM InvariantAlways == Spec => []IInv
<1>1. Init => IInv
  BY StructureInit, SerialInit DEF IInv
<1>2. IInv /\ [Next]_vars => IInv'
  BY StructureNext, SerialNext DEF IInv
<1> QED BY <1>1, <1>2, PTL DEF Spec

\* With any number of threads and environments, an environment used by one
\* thread at a time never aborts the process over its own bookkeeping.
THEOREM SerialUseIsSafe == Spec => []SerialUseNeverAborts
<1>1. IInv => SerialUseNeverAborts
  BY DEF IInv, Serial
<1> QED BY <1>1, InvariantAlways, PTL

LEMMA IdleIsQuiet ==
  ASSUME IInv, NEW e \in DOMAIN apps \ tainted, Busy(e) = {}
  PROVE  Quiet(e)
<1>1. e \in DOMAIN envRegister
  BY DEF IInv, Structure, Domains
<1>2. \A t \in Threads : ~Using(t, e)
  BY WhereAt DEF IInv, Using, Busy
<1> QED BY <1>1, <1>2 DEF IInv, Serial

\* Whatever the interleaving, no block is open between the operations on an
\* environment, and its register entry agrees with its chain.
THEOREM BlocksAreClosed == Spec => []BetweenBlocks
<1>1. IInv => BetweenBlocks
  BY IdleIsQuiet DEF BetweenBlocks, Quiet
<1> QED BY <1>1, InvariantAlways, PTL

\* No reported write is lost and no unreported one is kept.
THEOREM AckedWritesAreCommitted == Spec => []AckedIsCommitted
<1>1. IInv => AckedIsCommitted
  BY IdleIsQuiet DEF AckedIsCommitted, Quiet
<1> QED BY <1>1, InvariantAlways, PTL
\* A step moves the thread that takes it and nobody else.
LEMMA OthersStay ==
  ASSUME Structure, NEW t \in Threads, NEW u \in Threads, u # t,
         Begin(u) \/ Work(u) \/ Unwind(u)
  PROVE  at'[t] = at[t] /\ call'[t] = call[t] /\ fee'[t] = fee[t]
<1>1. /\ at \in [Threads -> Steps] /\ call \in [Threads -> Calls \union {"return"}]
      /\ fee \in [Threads -> BOOLEAN]
  BY DEF Structure, TypeOK
<1>2. CASE Begin(u)
  BY <1>1, <1>2 DEF Begin, StartNew, Start
<1>3. ASSUME NEW step, GoTo(u, step) PROVE UNCHANGED <<at[t], call[t], fee[t]>>
  BY <1>1, <1>3 DEF GoTo, frame
<1>4. ASSUME NEW good, NEW value, Return(u, good, value) PROVE UNCHANGED <<at[t], call[t], fee[t]>>
  BY <1>1, <1>4 DEF Return
<1>5. ASSUME NEW why, Abort(u, why) PROVE UNCHANGED <<at[t], call[t], fee[t]>>
  BY <1>5 DEF Abort, frame
<1>6. CASE Work(u)
  BY <1>3, <1>4, <1>5, <1>6
     DEF Work, LoadEnv, Acquire, MakeEnv, Count, Publish, Finalize, NewContext,
         CommitBlock, StoreEnv, Fund, SetParam, ReadStore, Simulate, Deliver, CleanUp
<1>7. CASE Unwind(u)
  BY <1>1, <1>7 DEF Unwind
<1> QED BY <1>2, <1>6, <1>7

\* A query of an environment used by one thread at a time answers with what the
\* operations before it reported, though the block its context was made for has
\* been committed.
THEOREM QueriesAreFresh == Spec => QueriesSeeAcked
<1> DEFINE Fresh2(t) ==
      op[t] = "query" /\ at[t] = "read" /\ at'[t] = "idle" /\ cur[t] \notin tainted
        => answer'[t] = acked[cur[t]]["tx"]
<1>1. ASSUME IInv, NEW t \in Threads, ReadStore(t), op[t] = "query", cur[t] \notin tainted
      PROVE  answer'[t] = acked[cur[t]]["tx"]
  <2>1. at[t] = "read" /\ call[t] \in {"AccountSequence", "Query"}
    BY <1>1, WhereAt DEF ReadStore, At, IInv
  <2>2. Closed(t) /\ ~Written(t) /\ ~Ended(t)
    BY <1>1, <2>1 DEF Closed, Written, Ended
  <2>3. ~chain[cur[t]].live /\ chain[cur[t]].root = acked[cur[t]]
    BY <1>1, <2>1, <2>2, Alone DEF IInv, Phase
  <2>4. Read(chain[cur[t]], env[t].gen) = acked[cur[t]]
    BY <2>3 DEF Read, Attached
  <2>5. answer' = [answer EXCEPT ![t] = acked[cur[t]]["tx"]]
    BY <1>1, <2>4 DEF ReadStore, Return
  <2>6. answer \in [Threads -> Nat]
    BY <1>1 DEF IInv, Structure, TypeOK
  <2> QED BY <2>5, <2>6
<1>2. ASSUME IInv, NEW t \in Threads, at[t] = "read", at'[t] = "idle", Next
      PROVE  ReadStore(t)
  <2>1. ASSUME NEW u \in Threads, NEW v \in Threads, DataRace(u, v)
        PROVE  FALSE
    BY <1>2, <2>1 DEF DataRace, Abort
  <2>2. Begin(t) \/ Work(t) \/ Unwind(t)
    BY <1>2, <2>1, OthersStay DEF Next, IInv
  <2>3. ~Begin(t) /\ ~Unwind(t)
    BY <1>2 DEF Begin, StartNew, Start, Unwind, At
  <2> QED BY <1>2, <2>2, <2>3
          DEF Work, At, LoadEnv, Acquire, MakeEnv, Count, Publish, Finalize, NewContext,
              CommitBlock, StoreEnv, Fund, SetParam, Simulate, Deliver, CleanUp
<1>3. IInv /\ [Next]_vars => [\A t \in Threads : Fresh2(t)]_vars
  <2> SUFFICES ASSUME IInv, Next, NEW t \in Threads, op[t] = "query", at[t] = "read",
                      at'[t] = "idle", cur[t] \notin tainted
               PROVE  answer'[t] = acked[cur[t]]["tx"]
    OBVIOUS
  <2> QED BY <1>1, <1>2
<1> QED BY <1>3, InvariantAlways, PTL DEF Spec, QueriesSeeAcked
-------------------------------------------------------------------------------
(* Towards the end of every operation: what OperationsEnd needs besides fairness. *)

\* A function that returns leaves fewer calls ahead.
LEMMA CallsRunOut ==
  ASSUME NEW o \in AllOps, NEW c \in CallsOf(o), NEW final \in BOOLEAN,
         NEW good \in BOOLEAN
  PROVE  LET next == NextCall(o, c, final, good)
         IN CallsAhead(next, next # "return" /\ (final \/ c = "Simulate")) + 1
              <= CallsAhead(c, final)
<1>1. c \in Calls
  BY OpsHaveCalls
<1>2. CASE c \in {"InitTestEnv", "EndBlock", "Query", "CleanUp"}
  BY <1>2 DEF NextCall, CallsAhead
<1>3. CASE c \in {"InitAccount", "SetParamSet", "Execute", "IncreaseTime"}
  BY <1>3 DEF NextCall, CallsAhead
<1>4. CASE c = "BeginBlock"
  BY <1>4 DEF NextCall, CallsAhead
<1>5. CASE c = "AccountSequence"
  BY <1>5 DEF NextCall, CallsAhead
<1>6. CASE c = "Simulate"
  BY <1>6 DEF NextCall, CallsAhead
<1> QED BY <1>1, <1>2, <1>3, <1>4, <1>5, <1>6 DEF Calls

LEMMA AheadNat ==
  ASSUME NEW c, NEW final \in BOOLEAN, NEW step
  PROVE  CallsAhead(c, final) \in Nat /\ StepsAhead(step) \in 0 .. 5
<1>1. CallsAhead(c, final) \in Nat
  BY DEF CallsAhead
<1>2. StepsAhead(step) \in 0 .. 5
  BY DEF StepsAhead
<1> QED BY <1>1, <1>2

\* So a return brings the thread nearer to the end of its operation.
LEMMA ReturnAdvances ==
  ASSUME Structure, NEW t \in Threads, NEW good \in BOOLEAN, NEW value,
         Return(t, good, value), at[t] # "idle"
  PROVE  Ahead(t)' < Ahead(t)
<1> DEFINE next == NextCall(op[t], call[t], fee[t], good)
<1>1. /\ op[t] \in AllOps /\ call[t] \in CallsOf(op[t]) /\ fee[t] \in BOOLEAN
  BY WhereAt DEF Structure, TypeOK, Shape
<1>2. /\ call'[t] = next
      /\ fee'[t] = (next # "return" /\ (fee[t] \/ call[t] = "Simulate"))
      /\ at'[t] = IF next = "return" THEN "idle" ELSE "load"
  BY DEF Return, Structure, TypeOK
<1>3. CallsAhead(call'[t], fee'[t]) + 1 <= CallsAhead(call[t], fee[t])
  BY <1>1, <1>2, CallsRunOut
<1>4. StepsAhead(at[t]) >= 1
  BY DEF StepsAhead
<1>5. /\ CallsAhead(call'[t], fee'[t]) \in Nat /\ CallsAhead(call[t], fee[t]) \in Nat
      /\ StepsAhead(at'[t]) \in 0 .. 5 /\ StepsAhead(at[t]) \in 0 .. 5
  BY <1>1, <1>2, AheadNat
<1> HIDE DEF next
<1> QED BY <1>3, <1>4, <1>5 DEF Ahead

\* So does a step within a function.
LEMMA GoToAdvances ==
  ASSUME Structure, NEW t \in Threads, NEW step, GoTo(t, step),
         StepsAhead(step) < StepsAhead(at[t])
  PROVE  Ahead(t)' < Ahead(t)
<1>1. call'[t] = call[t] /\ fee'[t] = fee[t] /\ at'[t] = step /\ fee[t] \in BOOLEAN
  BY DEF GoTo, frame, Structure, TypeOK
<1>2. /\ CallsAhead(call[t], fee[t]) \in Nat
      /\ StepsAhead(step) \in 0 .. 5 /\ StepsAhead(at[t]) \in 0 .. 5
  BY <1>1, AheadNat
<1> QED BY <1>1, <1>2 DEF Ahead

\* Whatever a thread does in an operation, it advances, or the process aborts.
LEMMA WorkAdvances ==
  ASSUME Structure, NEW t \in Threads, Work(t)
  PROVE  Ahead(t)' < Ahead(t) \/ UNCHANGED <<at, call, fee>>
<1>1. ASSUME NEW why, Abort(t, why) PROVE UNCHANGED <<at, call, fee>>
  BY <1>1 DEF Abort, frame
<1>2. CASE LoadEnv(t)
  <2>1. at[t] = "load" /\ call[t] \in Calls \ {"InitTestEnv"} /\ GoTo(t, Body(call[t]))
    BY <1>2, WhereAt DEF LoadEnv, At
  <2>2. Body(call[t]) \in {"finalize", "fund", "read", "clean", "lock"}
    BY <2>1 DEF Calls, Body, LockedCalls
  <2>3. StepsAhead(Body(call[t])) < StepsAhead(at[t])
    BY <2>1, <2>2 DEF StepsAhead
  <2> QED BY <2>1, <2>3, GoToAdvances
<1>3. CASE Acquire(t)
  <2>1. at[t] = "lock" /\ call[t] \in LockedCalls /\ GoTo(t, Locked(call[t]))
    BY <1>3, WhereAt DEF Acquire, At
  <2>2. Locked(call[t]) \in {"make", "set", "simulate", "deliver"}
    BY <2>1 DEF LockedCalls, Locked
  <2>3. StepsAhead(Locked(call[t])) < StepsAhead(at[t])
    BY <2>1, <2>2 DEF StepsAhead
  <2> QED BY <2>1, <2>3, GoToAdvances
<1>4. CASE MakeEnv(t) \/ Count(t)
  <2>1. PICK step : /\ GoTo(t, step)
                    /\ \/ at[t] = "make" /\ step = "count"
                       \/ at[t] = "count" /\ step = "publish"
    BY <1>4 DEF MakeEnv, Count, At
  <2>2. StepsAhead(step) < StepsAhead(at[t])
    BY <2>1 DEF StepsAhead
  <2> QED BY <2>1, <2>2, GoToAdvances
<1>5. CASE Finalize(t) \/ NewContext(t) \/ CommitBlock(t) \/ Fund(t) \/ Deliver(t)
  <2>1. \/ \E step : /\ GoTo(t, step)
                     /\ \/ at[t] = "finalize" /\ step \in {"commit", "context"}
                        \/ at[t] \in {"context", "commit", "fund", "deliver"}
                           /\ step = "store"
        \/ \E why : Abort(t, why)
    BY <1>5 DEF Finalize, NewContext, CommitBlock, Fund, Deliver, At
  <2>2. ASSUME NEW step, GoTo(t, step),
               \/ at[t] = "finalize" /\ step \in {"commit", "context"}
               \/ at[t] \in {"context", "commit", "fund", "deliver"} /\ step = "store"
        PROVE  Ahead(t)' < Ahead(t)
    <3>1. StepsAhead(step) < StepsAhead(at[t])
      BY <2>2 DEF StepsAhead
    <3> QED BY <2>2, <3>1, GoToAdvances
  <2> QED BY <1>1, <2>1, <2>2
<1>6. CASE \/ Publish(t) \/ StoreEnv(t) \/ SetParam(t) \/ ReadStore(t) \/ Simulate(t)
           \/ CleanUp(t)
  <2>1. \/ at[t] # "idle" /\ \E good \in BOOLEAN : \E value : Return(t, good, value)
        \/ \E why : Abort(t, why)
    BY <1>6 DEF Publish, StoreEnv, SetParam, ReadStore, Simulate, CleanUp, At
  <2> QED BY <1>1, <2>1, ReturnAdvances
<1> QED BY <1>2, <1>3, <1>4, <1>5, <1>6 DEF Work

\* With any number of threads, a thread ends its operation within 35 steps of its own:
\* each one lowers Ahead, and nobody else's changes it.
THEOREM OperationsDoAdvance == Spec => OperationsAdvance
<1>1. ASSUME Structure, Next, NEW t \in Threads, at[t] # "idle"
      PROVE  Ahead(t)' < Ahead(t) \/ UNCHANGED <<at[t], call[t], fee[t]>>
  <2>1. CASE Work(t)
    BY <1>1, <2>1, WorkAdvances
  <2>2. CASE Begin(t)
    BY <1>1, <2>2 DEF Begin, StartNew, Start, At
  <2>3. CASE Unwind(t)
    <3>1. at[t] = "load" /\ at'[t] = "idle" /\ call'[t] = "return" /\ fee'[t] = FALSE
      BY <2>3, <1>1 DEF Unwind, At, Structure, TypeOK
    <3>2. CallsAhead(call'[t], fee'[t]) = 0 /\ StepsAhead(at'[t]) = 0 /\ StepsAhead(at[t]) = 5
      BY <3>1 DEF CallsAhead, StepsAhead
    <3>3. CallsAhead(call[t], fee[t]) \in Nat
      BY <1>1, AheadNat DEF Structure, TypeOK
    <3> QED BY <3>2, <3>3 DEF Ahead
  <2>4. ASSUME NEW u \in Threads, NEW v \in Threads, DataRace(u, v)
        PROVE  UNCHANGED <<at, call, fee>>
    BY <2>4 DEF DataRace, Abort, frame
  <2>5. ASSUME NEW u \in Threads, u # t, Begin(u) \/ Work(u) \/ Unwind(u)
        PROVE  UNCHANGED <<at[t], call[t], fee[t]>>
    BY <1>1, <2>5, OthersStay
  <2> QED BY <1>1, <2>1, <2>2, <2>3, <2>4, <2>5 DEF Next
<1>2. Structure /\ [Next]_vars =>
        [\A t \in Threads :
           at[t] # "idle" => \/ Ahead(t)' < Ahead(t)
                             \/ UNCHANGED <<at[t], call[t], fee[t]>>]_vars
  BY <1>1
<1> QED BY <1>2, StructureAlways, PTL DEF Spec, OperationsAdvance

\* With any number of threads, nobody waits for the mutex in vain: its holder is past
\* mu.Lock(), and no function waits for anything else.
THEOREM MutexIsFreed == Spec => []MutexComesFree
<1>1. Structure => MutexComesFree
  <2> SUFFICES ASSUME Structure, NEW t \in Threads, at[t] = "lock", mu # NoThread
               PROVE  call[mu] \in LockedCalls /\ at[mu] \notin {"idle", "load", "lock"}
    BY DEF MutexComesFree
  <2>1. mu \in Threads /\ InCritical(mu)
    BY DEF Structure, TypeOK, MutexHeld
  <2> QED BY <2>1, WhereAt DEF InCritical
<1> QED BY <1>1, StructureAlways, PTL
===============================================================================
