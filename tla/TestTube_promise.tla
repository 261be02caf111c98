--------------------------- MODULE TestTube_promise ---------------------------
(***************************************************************************)
(* The proof that TestTube implements TestChain when no BaseApp is shared:   *)
(* every step of the library is an operation of the abstract chains or none. *)
(***************************************************************************)
EXTENDS TestTube_proofs, FiniteSetTheorems

Ledger == [e \in DOMAIN chain |-> [height |-> chain[e].last, store |-> chain[e].saved]]

-------------------------------------------------------------------------------
(* The steps of TestTube as steps of TestChain. *)

LEMMA PromiseInit == Init => Promise!Init
<1> SUFFICES ASSUME Init PROVE Promise!Init
  OBVIOUS
<1>1. chain = <<>> /\ acked = <<>>
  BY DEF Init
<1>2. DOMAIN chain = {}
  BY <1>1
<1>3. Ledger = <<>>
  BY <1>2 DEF Ledger
<1> QED BY <1>1, <1>3 DEF Promise!Init, Ledger

LEMMA PromiseSame ==
  ASSUME Ledger' = Ledger, acked' = acked
  PROVE  [Promise!Next]_<<Ledger, acked>>
BY DEF Ledger

LEMMA PromiseCreate ==
  ASSUME Structure, NEW t \in Threads, Publish(t), Fresh(t), envCounter \in 1 .. MaxEnvs
  PROVE  Promise!Next
<1>1. envCounter \notin DOMAIN chain /\ envCounter \notin DOMAIN acked
  BY DEF Structure, Numbering, Domains, Publish, At
<1>2. /\ chain' = With(chain, envCounter, FirstChain)
      /\ acked' = With(acked, envCounter, EmptyStore)
  BY DEF Publish
<1>3. Ledger' = Promise!With(Ledger, envCounter, Promise!Genesis)
  BY <1>1, <1>2, FirstChainFields DEF Ledger, With, Promise!With, Promise!Genesis, EmptyStore, Promise!EmptyStore,
    Kinds, Promise!Kinds
<1>4. acked' = Promise!With(acked, envCounter, Promise!EmptyStore)
  BY <1>1, <1>2 DEF With, Promise!With, EmptyStore, Promise!EmptyStore, Kinds, Promise!Kinds
<1>5. envCounter \notin DOMAIN Ledger
  BY <1>1 DEF Ledger
<1> QED BY <1>3, <1>4, <1>5 DEF Promise!Next, Promise!Create, Ledger

\* A write to an open block commits nothing.
LEMMA SameLedger ==
  ASSUME NEW c \in DOMAIN chain, NEW app, chain' = [chain EXCEPT ![c] = app],
         app.last = chain[c].last, app.saved = chain[c].saved
  PROVE  Ledger' = Ledger
<1>1. DOMAIN chain' = DOMAIN chain
  OBVIOUS
<1>2. \A e \in DOMAIN chain :
        chain'[e].last = chain[e].last /\ chain'[e].saved = chain[e].saved
  OBVIOUS
<1> QED BY <1>1, <1>2 DEF Ledger

\* In a stuck environment a thread is not past the opening of a block.
LEMMA StuckSteps ==
  ASSUME Structure, Unshared, NEW t \in Threads, at[t] # "idle", op[t] # "new",
         cur[t] \in tainted
  PROVE  /\ Stuck(cur[t]) /\ Closed(t)
         /\ at[t] \in {"load", "lock", "read", "simulate", "clean", "finalize"}
         /\ at[t] = "lock" => op[t] = "sim"
         /\ at[t] = "simulate" => op[t] = "sim"
         /\ at[t] = "finalize" => Beginning(t) /\ env[t] = envRegister[cur[t]]
<1>1. Stuck(cur[t]) /\ Using(t, cur[t])
  BY InUse DEF Unshared
<1>2. Closed(t) /\ (at[t] = "finalize" => env[t] = envRegister[cur[t]])
  BY <1>1 DEF Stuck
<1>3. call[t] \in CallsOf(op[t]) /\ at[t] \in StepsOf(call[t]) /\ op[t] \in AllOps
  BY InUse DEF Structure, Shape
<1>4. ASSUME op[t] \in {"sim", "query", "drop"}
      PROVE  /\ at[t] \in {"load", "lock", "read", "simulate", "clean"}
             /\ at[t] \in {"lock", "simulate"} => op[t] = "sim"
  BY <1>3, <1>4 DEF CallsOf, StepsOf
<1> QED BY <1>1, <1>2, <1>4 DEF Closed

\* The steps of TestChain on an environment that exists.
LEMMA AppendsNothing ==
  ASSUME NEW c \in DOMAIN Ledger, acked' = acked,
         Ledger' = [Ledger EXCEPT ![c] = [height |-> Ledger[c].height + 1,
                                          store |-> Ledger[c].store]]
  PROVE  Promise!Next
BY DEF Promise!Next, Promise!EmptyBlock, Promise!Append, Ledger

LEMMA AppendsWrite ==
  ASSUME NEW c \in DOMAIN Ledger, NEW k \in Kinds, acked' = acked,
         Ledger' = [Ledger EXCEPT ![c] = [height |-> Ledger[c].height + 1,
                                          store |-> Plus(Ledger[c].store, k)]]
  PROVE  Promise!Next
<1>1. k \in Promise!Kinds
  BY DEF Kinds, Promise!Kinds
<1>2. Ledger' = [Ledger EXCEPT ![c] = [height |-> Ledger[c].height + 1,
                                       store |-> Promise!Plus(Ledger[c].store, k)]]
  BY DEF Plus, Promise!Plus
<1>3. Promise!WriteBlock(c, k)
  BY <1>2 DEF Promise!WriteBlock, Promise!Append, Ledger
<1>4. \E x \in Promise!Kinds : Promise!WriteBlock(c, x)
  BY <1>1, <1>3
<1> QED BY <1>4 DEF Promise!Next, Ledger

LEMMA PromiseAppend ==
  ASSUME IInv, Unshared, NEW t \in Threads, CommitBlock(t)
  PROVE  [Promise!Next]_<<Ledger, acked>>
<1> DEFINE c == cur[t]
           app == chain[c]
<1>1. at[t] = "commit" /\ call[t] = "EndBlock" /\ op[t] # "new"
  BY WhereAt DEF CommitBlock, At, IInv
<1>2. c \notin tainted
  BY <1>1, StuckSteps DEF IInv
<1>3. c \in DOMAIN chain /\ c \in DOMAIN acked /\ app \in App
  BY <1>1, InUse DEF IInv
<1>4. Phase(t)
  BY <1>1, <1>2, Alone DEF IInv
<1>5. /\ Written(t) /\ ~Closed(t) /\ ~Ended(t)
  BY <1>1, WhereAt DEF Closed, Ended, Written, Beginning, IInv, Structure, Shape, CallsOf
<1>6. app.live /\ app.root = Result(t) /\ app.saved = acked[c]
  BY <1>4, <1>5 DEF Phase
<1>7. chain' = [chain EXCEPT ![c] = Commit(app)] /\ acked' = acked
  BY <1>6 DEF CommitBlock, history
<1>8. Commit(app).last = app.last + 1 /\ Commit(app).saved = app.root
  BY <1>3, CommitFields
<1>9. Ledger' = [Ledger EXCEPT ![c] = [height |-> app.last + 1, store |-> Result(t)]]
  <2>1. DOMAIN chain' = DOMAIN chain /\ chain'[c] = Commit(app)
    BY <1>3, <1>7
  <2>2. \A e \in DOMAIN chain \ {c} : chain'[e] = chain[e]
    BY <1>7
  <2>3. Ledger'[c] = [height |-> app.last + 1, store |-> Result(t)]
    BY <1>3, <1>6, <1>8, <2>1 DEF Ledger
  <2>4. \A e \in DOMAIN chain \ {c} : Ledger'[e] = Ledger[e]
    BY <2>1, <2>2 DEF Ledger
  <2> QED BY <2>1, <2>3, <2>4 DEF Ledger
<1>10. c \in DOMAIN Ledger /\ Ledger[c].height = app.last /\ Ledger[c].store = acked[c]
  BY <1>3, <1>6 DEF Ledger
<1>11. ASSUME Applied(t) PROVE Promise!Next
  <2>1. op[t] \in Kinds /\ Result(t) = Plus(acked[c], op[t])
    BY <1>1, <1>11 DEF Applied, Result
  <2>2. Ledger' = [Ledger EXCEPT ![c] = [height |-> Ledger[c].height + 1,
                                         store |-> Plus(Ledger[c].store, op[t])]]
    BY <1>9, <1>10, <2>1
  <2> QED BY <1>7, <1>10, <2>1, <2>2, AppendsWrite
<1>12. ASSUME ~Applied(t) PROVE Promise!Next
  <2>1. Ledger' = [Ledger EXCEPT ![c] = [height |-> Ledger[c].height + 1,
                                         store |-> Ledger[c].store]]
    BY <1>9, <1>10, <1>12 DEF Result
  <2> QED BY <1>7, <1>10, <2>1, AppendsNothing
<1> QED BY <1>11, <1>12

LEMMA PromiseReport ==
  ASSUME IInv, Unshared, NEW t \in Threads, StoreEnv(t)
  PROVE  [Promise!Next]_<<Ledger, acked>>
<1> DEFINE c == cur[t]
           k == op[t]
<1>1. chain' = chain /\ Ledger' = Ledger
  BY DEF StoreEnv, Ledger
<1>2. ASSUME ~(call[t] = "EndBlock" /\ ok[t] /\ op[t] \in Kinds)
      PROVE  [Promise!Next]_<<Ledger, acked>>
  <2>1. acked' = acked
    BY <1>2 DEF StoreEnv
  <2> QED BY <1>1, <2>1, PromiseSame
<1>3. ASSUME call[t] = "EndBlock", ok[t], op[t] \in Kinds
      PROVE  Promise!Next
  <2>1. at[t] = "store" /\ op[t] # "new"
    BY WhereAt DEF StoreEnv, At, IInv
  <2>2. c \notin tainted
    BY <2>1, StuckSteps DEF IInv
  <2>3. c \in DOMAIN chain /\ c \in DOMAIN acked /\ acked[c] \in Store
    BY <2>1, InUse DEF IInv
  <2>4. Phase(t) /\ Ended(t) /\ Applied(t)
    BY <1>3, <2>1, <2>2, Alone DEF IInv, Ended, Applied
  <2>5. chain[c].saved = Plus(acked[c], k)
    BY <2>4 DEF Phase, Result
  <2>6. c \in DOMAIN Ledger /\ Ledger[c].store = Plus(acked[c], k)
    BY <2>3, <2>5 DEF Ledger
  <2>7. acked[c][k] < Plus(acked[c], k)[k]
    BY <1>3, <2>3 DEF Store, Plus
  <2>8. acked' = [acked EXCEPT ![c] = Promise!Plus(acked[c], k)]
    BY <1>3 DEF StoreEnv, Plus, Promise!Plus
  <2> QED BY <1>1, <1>3, <2>6, <2>7, <2>8
          DEF Promise!Next, Promise!Report, Ledger, Kinds, Promise!Kinds, Promise!Plus
<1> QED BY <1>2, <1>3

\* Handles are numbered within the bound.
LEMMA HandleInBounds ==
  ASSUME Structure, Unshared, NEW t \in Threads, Publish(t)
  PROVE  envCounter \in 1 .. MaxEnvs
<1>1. Creating \subseteq Threads
  BY DEF Creating
<1>2. Cardinality(Creating) \in Nat
  BY <1>1, ThreadsAssumption, FS_Subset, FS_CardinalityType
<1>3. envCounter \in Nat /\ envCounter > 0
  BY DEF Structure, TypeOK, Numbering, Publish, At
<1> QED BY <1>2, <1>3, BoundsAssumption DEF Unshared, Bounded

LEMMA PromiseWork ==
  ASSUME IInv, Unshared, NEW t \in Threads, Work(t)
  PROVE  [Promise!Next]_<<Ledger, acked>>
<1>1. ASSUME UNCHANGED <<chain, acked>> PROVE [Promise!Next]_<<Ledger, acked>>
  BY <1>1, PromiseSame DEF Ledger
<1>2. ASSUME NEW why, Abort(t, why) PROVE [Promise!Next]_<<Ledger, acked>>
  BY <1>1, <1>2 DEF Abort, history
<1>3. ASSUME at[t] # "idle", op[t] # "new", NEW app, app.last = chain[cur[t]].last,
             app.saved = chain[cur[t]].saved,
             chain' = [chain EXCEPT ![cur[t]] = app], acked' = acked
      PROVE  [Promise!Next]_<<Ledger, acked>>
  <2>1. cur[t] \in DOMAIN chain
    BY <1>3, InUse DEF IInv
  <2> QED BY <1>3, <2>1, SameLedger, PromiseSame
<1>4. ASSUME at[t] # "idle", op[t] # "new"
      PROVE  chain[cur[t]] \in App /\ env[t].gen \in Nat
  BY <1>4, InUse DEF IInv, TestEnv
<1>5. LoadEnv(t) \/ Acquire(t) \/ MakeEnv(t) \/ Count(t) \/ NewContext(t) \/ ReadStore(t)
        \/ Simulate(t) \/ CleanUp(t) => [Promise!Next]_<<Ledger, acked>>
  BY <1>1, <1>2 DEF LoadEnv, Acquire, MakeEnv, Count, NewContext, ReadStore, Simulate,
     CleanUp, history
<1>6. ASSUME Finalize(t) PROVE [Promise!Next]_<<Ledger, acked>>
  <2>1. at[t] # "idle" /\ op[t] # "new"
    BY <1>6, WhereAt DEF Finalize, At, IInv
  <2> QED BY <1>2, <1>3, <1>4, <1>6, <2>1, FinalizeFields DEF Finalize, history
<1>7. ASSUME Fund(t) PROVE [Promise!Next]_<<Ledger, acked>>
  <2>1. at[t] # "idle" /\ op[t] # "new" /\ "account" \in Kinds
    BY <1>7, WhereAt DEF Fund, At, IInv, Kinds
  <2> QED BY <1>2, <1>3, <1>4, <1>7, <2>1, WriteFields DEF Fund, history
<1>8. ASSUME SetParam(t) PROVE [Promise!Next]_<<Ledger, acked>>
  <2>1. at[t] # "idle" /\ op[t] # "new" /\ "param" \in Kinds
    BY <1>8, WhereAt DEF SetParam, At, IInv, Kinds
  <2> QED BY <1>1, <1>2, <1>3, <1>4, <1>8, <2>1, WriteFields DEF SetParam, history
<1>9. ASSUME Deliver(t) PROVE [Promise!Next]_<<Ledger, acked>>
  <2>1. at[t] # "idle" /\ op[t] # "new"
    BY <1>9, WhereAt DEF Deliver, At, IInv
  <2> QED BY <1>2, <1>3, <1>4, <1>9, <2>1, DeliverFields DEF Deliver, history
<1>10. ASSUME Publish(t) PROVE [Promise!Next]_<<Ledger, acked>>
  <2>1. Fresh(t) /\ envCounter \in 1 .. MaxEnvs
    BY <1>10, HandleInBounds DEF IInv, Serial
  <2> QED BY <1>10, <2>1, PromiseCreate DEF IInv
<1> QED
  BY <1>5, <1>6, <1>7, <1>8, <1>9, <1>10, PromiseAppend, PromiseReport DEF Work

LEMMA PromiseStep ==
  ASSUME IInv, Unshared, [Next]_vars
  PROVE  [Promise!Next]_<<Ledger, acked>>
<1>1. ASSUME UNCHANGED <<chain, acked>> PROVE [Promise!Next]_<<Ledger, acked>>
  BY <1>1, PromiseSame DEF Ledger
<1>2. UNCHANGED vars => UNCHANGED <<chain, acked>>
  BY DEF vars, history
<1>3. ASSUME NEW t \in Threads, Begin(t) PROVE UNCHANGED <<chain, acked>>
  BY <1>3 DEF Begin, StartNew, Start, history
<1>4. ASSUME NEW t \in Threads, Unwind(t) PROVE UNCHANGED <<chain, acked>>
  BY <1>4 DEF Unwind
<1>5. ASSUME NEW t \in Threads, NEW u \in Threads, DataRace(t, u)
      PROVE  UNCHANGED <<chain, acked>>
  BY <1>5 DEF DataRace, Abort, history
<1> QED BY <1>1, <1>2, <1>3, <1>4, <1>5, PromiseWork DEF Next

-------------------------------------------------------------------------------
(* Unshared is inductive, together with IInv, when no BaseApp is shared. *)

\* A step of t leaves the other threads where they are.
Alike(t) ==
  \A u \in Threads \ {t} :
    /\ op'[u] = op[u] /\ call'[u] = call[u] /\ at'[u] = at[u]
    /\ cur'[u] = cur[u] /\ env'[u] = env[u]

OwnerOf(t) == IF op[t] \in {"none", "new"} THEN cur[t] = 0
              ELSE cur[t] \in DOMAIN apps /\ apps[cur[t]] = t

LEMMA UnsharedInit == Init => Unshared
<1> SUFFICES ASSUME Init PROVE Unshared
  OBVIOUS
<1>1. Owned
  BY DEF Init, Owned
<1>2. Bounded
  <2>1. Creating = {}
    BY DEF Init, Creating
  <2> QED BY <2>1, FS_EmptySet, BoundsAssumption DEF Init, Bounded
<1> QED BY <1>1, <1>2 DEF Unshared, Init

\* Nobody uses an environment another thread uses, and none is number 0.
LEMMA OnlyUser ==
  ASSUME Structure, Unshared, NEW t \in Threads, NEW u \in Threads, u # t, Using(u, cur[u])
  PROVE  cur[u] # cur[t] /\ cur[u] \in DOMAIN apps /\ apps[cur[u]] = u
<1>1. cur[u] \in DOMAIN apps /\ apps[cur[u]] = u
  BY DEF Unshared, Owned, Using
<1>2. cur[u] # 0
  <2>1. DOMAIN apps \subseteq 1 .. envCounter /\ envCounter \in Nat
    BY DEF Structure, TypeOK, Domains, Numbering
  <2> QED BY <1>1, <2>1
<1>3. CASE op[t] \in {"none", "new"}
  BY <1>1, <1>2, <1>3 DEF Unshared, Owned
<1>4. CASE op[t] \notin {"none", "new"}
  BY <1>1, <1>4 DEF Unshared, Owned
<1> QED BY <1>1, <1>3, <1>4

LEMMA UnsharedStep ==
  ASSUME Structure, Unshared, NEW t \in Threads, Alike(t), OwnerOf(t)', Bounded',
         \A e \in DOMAIN apps \ {cur[t]} : e \in DOMAIN apps' /\ apps'[e] = apps[e],
         tainted' \subseteq DOMAIN envRegister',
         \A e \in tainted \ {cur[t]} :
           chain'[e] = chain[e] /\ envRegister'[e] = envRegister[e],
         \A e \in tainted' :
           e \notin tainted \/ e = cur[t] \/ e = cur'[t] => Stuck(e)'
  PROVE  Unshared'
<1>1. ASSUME NEW u \in Threads PROVE OwnerOf(u)'
  <2>1. CASE u = t
    BY <2>1
  <2>2. CASE u # t /\ op[u] \in {"none", "new"}
    BY <2>2 DEF Alike, OwnerOf, Unshared, Owned
  <2>3. CASE u # t /\ op[u] \notin {"none", "new"}
    <3>1. cur[u] # cur[t] /\ cur[u] \in DOMAIN apps /\ apps[cur[u]] = u
      BY <2>3, OnlyUser DEF Using
    <3> QED BY <2>3, <3>1 DEF Alike, OwnerOf
  <2> QED BY <2>1, <2>2, <2>3
<1>2. Owned'
  BY <1>1 DEF Owned, OwnerOf
<1>3. ASSUME NEW e \in tainted' PROVE Stuck(e)'
  <2>1. CASE e \notin tainted \/ e = cur[t] \/ e = cur'[t]
    BY <1>3, <2>1
  <2>2. CASE e \in tainted /\ e # cur[t] /\ e # cur'[t]
    <3>1. Stuck(e) /\ chain'[e] = chain[e] /\ envRegister'[e] = envRegister[e]
      BY <2>2 DEF Unshared
    <3>2. ASSUME NEW u \in Threads, Using(u, e)'
          PROVE  Closed(u)' /\ (at'[u] = "finalize" => env'[u] = envRegister'[e])
      <4>1. u # t /\ Using(u, e)
        BY <2>2, <3>2 DEF Using, Alike
      <4>2. Closed(u) /\ (at[u] = "finalize" => env[u] = envRegister[e])
        BY <3>1, <4>1 DEF Stuck
      <4> QED BY <3>1, <4>1, <4>2 DEF Alike, Closed, Beginning
    <3> QED BY <3>1, <3>2 DEF Stuck
  <2> QED BY <2>1, <2>2
<1> QED BY <1>2, <1>3 DEF Unshared

\* Nobody else uses the environment of a thread, after a step of it either.
LEMMA StillAlone ==
  ASSUME Structure, Unshared, NEW t \in Threads, Alike(t), NEW u \in Threads,
         NEW e, e = cur[t], Using(u, e)'
  PROVE  u = t
<1> SUFFICES ASSUME u # t PROVE FALSE
  OBVIOUS
<1>1. op'[u] = op[u] /\ cur'[u] = cur[u]
  BY DEF Alike
<1>2. op'[u] \notin {"none", "new"} /\ cur'[u] = cur[t]
  BY DEF Using
<1>3. Using(u, cur[u]) /\ cur[u] = cur[t]
  BY <1>1, <1>2 DEF Using
<1> QED BY <1>3, OnlyUser

LEMMA CreatingSame ==
  ASSUME NEW t \in Threads, Alike(t), Bounded, envCounter' = envCounter,
         (op'[t] = "new" /\ at'[t] # "publish") <=> (op[t] = "new" /\ at[t] # "publish")
  PROVE  Bounded'
<1>1. Creating' = Creating
  BY DEF Creating, Alike
<1> QED BY <1>1 DEF Bounded

LEMMA UnsharedSame ==
  ASSUME Unshared, UNCHANGED <<op, call, at, cur, env, apps, envCounter, envRegister,
                               chain, tainted>>
  PROVE  Unshared'
<1>1. Owned'
  BY DEF Unshared, Owned
<1>2. Bounded'
  <2>1. Creating' = Creating
    BY DEF Creating
  <2> QED BY <2>1 DEF Unshared, Bounded
<1>3. ASSUME NEW e \in tainted PROVE Stuck(e)'
  BY <1>3 DEF Unshared, Stuck, Using, Closed, Beginning
<1> QED BY <1>1, <1>2, <1>3 DEF Unshared

\* The handle of an environment in use is not 0.
LEMMA NotZero == ASSUME Structure PROVE 0 \notin DOMAIN envRegister
<1>1. DOMAIN envRegister \subseteq 1 .. envCounter /\ envCounter \in Nat
  BY DEF Structure, TypeOK, Numbering
<1> QED BY <1>1

\* A step within a function that works on an environment.
LEMMA UnsharedGoTo ==
  ASSUME Structure, Unshared, NEW t \in Threads, NEW step, GoTo(t, step),
         at[t] # "idle", op[t] # "new", NEW c, c = cur[t],
         \A u \in Threads \ {t} : env'[u] = env[u],
         \A e \in tainted \ {c} : chain'[e] = chain[e],
         UNCHANGED <<apps, envCounter, envRegister, tainted>>,
         c \in tainted => /\ chain'[c].live /\ chain'[c].last = chain[c].last
                          /\ Closed(t)'
                          /\ step = "finalize" => env'[t] = envRegister[c]
  PROVE  Unshared'
<1>1. /\ op'[t] = op[t] /\ cur'[t] = c /\ at'[t] = step /\ op[t] \notin {"none", "new"}
  BY GoToFrame, InUse
<1>2. Alike(t)
  BY DEF GoTo, frame, Alike, Structure, TypeOK
<1>3. OwnerOf(t)'
  BY <1>1 DEF OwnerOf, Unshared, Owned
<1>4. Bounded'
  BY <1>1, <1>2, CreatingSame DEF Unshared
<1>5. ASSUME c \in tainted PROVE Stuck(c)'
  <2>1. chain'[c].live /\ envRegister'[c].height = chain'[c].last + 1
    BY <1>5 DEF Unshared, Stuck
  <2>2. ASSUME NEW u \in Threads, Using(u, c)'
        PROVE  Closed(u)' /\ (at'[u] = "finalize" => env'[u] = envRegister'[c])
    <3>1. u = t
      BY <1>2, <2>2, StillAlone
    <3> QED BY <1>1, <1>5, <3>1
  <2> QED BY <2>1, <2>2 DEF Stuck
<1>6. tainted' \subseteq DOMAIN envRegister' /\ tainted' = tainted
  BY DEF Unshared
<1>7. \A e \in DOMAIN apps \ {c} : e \in DOMAIN apps' /\ apps'[e] = apps[e]
  OBVIOUS
<1> HIDE DEF Alike, OwnerOf, Bounded, Stuck, Unshared, Structure
<1> QED BY <1>1, <1>2, <1>3, <1>4, <1>5, <1>6, <1>7, UnsharedStep

\* Where a thread is once its function has returned.
LEMMA ReturnsTo ==
  ASSUME Structure, NEW t \in Threads, NEW good \in BOOLEAN, NEW value,
         Return(t, good, value), at[t] # "idle"
  PROVE  \/ op'[t] = "none" /\ cur'[t] = 0
         \/ op'[t] = op[t] /\ cur'[t] = cur[t] /\ at'[t] = "load" /\ op[t] # "new"
<1>1. /\ op[t] \in AllOps /\ call[t] \in CallsOf(op[t]) /\ fee[t] \in BOOLEAN
      /\ op[t] = "sim" => ~fee[t]
  BY WhereAt DEF Structure, TypeOK, Shape
<1> DEFINE next == NextCall(op[t], call[t], fee[t], good)
<1>2. next = "return" \/ op[t] # "new"
  BY <1>1, NextCallShape
<1> HIDE DEF next
<1>3. /\ op' = [op EXCEPT ![t] = IF next = "return" THEN "none" ELSE @]
      /\ at' = [at EXCEPT ![t] = IF next = "return" THEN "idle" ELSE "load"]
      /\ cur' = [cur EXCEPT ![t] = IF next = "return" THEN 0 ELSE @]
  BY DEF Return, next
<1> QED BY <1>2, <1>3 DEF Structure, TypeOK

\* A function that works on an environment returns.
LEMMA UnsharedReturn ==
  ASSUME Structure, Unshared, NEW t \in Threads, NEW good \in BOOLEAN, NEW value \in Nat,
         Return(t, good, value), at[t] # "idle", op[t] # "new", NEW c, c = cur[t],
         \A e \in tainted \ {c} : chain'[e] = chain[e] /\ envRegister'[e] = envRegister[e],
         \A e \in DOMAIN apps \ {c} : e \in DOMAIN apps' /\ apps'[e] = apps[e],
         op'[t] = "none" \/ (c \in DOMAIN apps' /\ apps'[c] = apps[c]),
         DOMAIN envRegister \subseteq DOMAIN envRegister',
         UNCHANGED <<envCounter, tainted>>,
         c \in tainted => /\ UNCHANGED <<chain, envRegister>>
                          /\ op[t] \in {"sim", "query", "drop"}
  PROVE  Unshared'
<1>1. op[t] \notin {"none", "new"}
  BY InUse
<1>2. Alike(t) /\ at'[t] \in {"idle", "load"}
  BY ReturnFrame DEF Alike
<1>3. \/ op'[t] = "none" /\ cur'[t] = 0
      \/ op'[t] = op[t] /\ cur'[t] = c /\ at'[t] = "load"
  BY ReturnsTo
<1>4. OwnerOf(t)'
  BY <1>1, <1>3 DEF OwnerOf, Unshared, Owned
<1>5. Bounded'
  BY <1>1, <1>2, <1>3, CreatingSame DEF Unshared
<1>6. ASSUME c \in tainted PROVE Stuck(c)'
  <2>1. chain'[c].live /\ envRegister'[c].height = chain'[c].last + 1
    BY <1>6 DEF Unshared, Stuck
  <2>2. ASSUME NEW u \in Threads, Using(u, c)'
        PROVE  Closed(u)' /\ (at'[u] = "finalize" => env'[u] = envRegister'[c])
    <3>1. u = t /\ op'[t] \notin {"none", "new"}
      BY <1>2, <2>2, StillAlone DEF Using
    <3>2. op'[t] \in {"sim", "query", "drop"} /\ at'[t] # "finalize"
      BY <1>2, <1>3, <1>6, <3>1
    <3> QED BY <3>1, <3>2 DEF Closed
  <2> QED BY <2>1, <2>2 DEF Stuck
<1>7. tainted' \subseteq DOMAIN envRegister' /\ tainted' = tainted
  BY DEF Unshared
<1>8. 0 \notin tainted
  BY NotZero DEF Unshared
<1> HIDE DEF Alike, OwnerOf, Bounded, Stuck, Unshared, Structure
<1> QED BY <1>2, <1>3, <1>4, <1>5, <1>6, <1>7, <1>8, UnsharedStep

\* A step of InitTestEnv, or one that begins it.
LEMMA UnsharedAside ==
  ASSUME Structure, Unshared, NEW t \in Threads, Alike(t), Bounded',
         op[t] \in {"none", "new"}, op'[t] \in {"none", "new"}, cur'[t] = 0,
         tainted' = tainted, DOMAIN envRegister \subseteq DOMAIN envRegister',
         \A e \in DOMAIN envRegister :
           chain'[e] = chain[e] /\ envRegister'[e] = envRegister[e],
         \A e \in DOMAIN apps : e \in DOMAIN apps' /\ apps'[e] = apps[e]
  PROVE  Unshared'
<1>1. cur[t] = 0 /\ 0 \notin tainted /\ tainted \subseteq DOMAIN envRegister
  BY NotZero DEF Unshared, Owned
<1>2. OwnerOf(t)'
  BY DEF OwnerOf
<1> HIDE DEF Alike, OwnerOf, Bounded, Unshared, Structure
<1> QED BY <1>1, <1>2, UnsharedStep

-------------------------------------------------------------------------------
(* What each step does to Unshared. *)

LEMMA UnsharedAbort ==
  ASSUME Unshared, NEW t \in Threads, NEW why, Abort(t, why)
  PROVE  Unshared'
BY UnsharedSame DEF Abort, library, frame, history

LEMMA UnsharedStartNew ==
  ASSUME Structure, Unshared, NEW t \in Threads, StartNew(t)
  PROVE  Unshared'
<1> DEFINE news == {u \in Threads : op[u] = "new"}
<1>1. op[t] = "none" /\ cur[t] = 0
  BY WhereAt DEF StartNew, At, Unshared, Owned
<1>2. Alike(t) /\ op'[t] = "new" /\ cur'[t] = 0
  BY <1>1 DEF StartNew, Alike, Structure, TypeOK
<1>3. /\ UNCHANGED <<envCounter, envRegister, chain, apps, tainted>>
      /\ envCounter + Cardinality(news) < MaxEnvs
  BY DEF StartNew, library, history
<1>4. Bounded'
  <2>1. Creating' \subseteq news \union {t}
    BY <1>2 DEF Creating, Alike
  <2>2. IsFiniteSet(news) /\ t \notin news
    <3>1. news \subseteq Threads
      OBVIOUS
    <3> QED BY <1>1, <3>1, ThreadsAssumption, FS_Subset
  <2>3. /\ IsFiniteSet(news \union {t})
        /\ Cardinality(news \union {t}) = Cardinality(news) + 1
    BY <2>2, FS_AddElement
  <2>4. Cardinality(Creating') <= Cardinality(news) + 1
    BY <2>1, <2>3, FS_Subset
  <2>5. Cardinality(Creating') \in Nat /\ Cardinality(news) \in Nat
    BY <2>1, <2>2, <2>3, FS_Subset, FS_CardinalityType
  <2>6. envCounter \in Nat
    BY DEF Structure, TypeOK
  <2>7. envCounter + Cardinality(Creating') <= MaxEnvs
    <3> HIDE DEF news
    <3> QED BY <1>3, <2>4, <2>5, <2>6, BoundsAssumption
  <2> QED BY <1>3, <2>7 DEF Bounded
<1>5. Unshared'
  <2> HIDE DEF news
  <2> QED BY <1>1, <1>2, <1>3, <1>4, UnsharedAside
<1> QED BY <1>5

LEMMA UnsharedStart ==
  ASSUME Structure, Unshared, ~Sharing, NEW t \in Threads, NEW e \in DOMAIN apps,
         NEW o \in Ops, Start(t, e, o)
  PROVE  Unshared'
<1>1. /\ op[t] = "none" /\ cur[t] = 0 /\ apps[e] = t /\ o \in AllOps \ {"new"}
  BY WhereAt, OpsAssumption DEF Start, At, Unshared, Owned, Reach
<1>2. /\ op'[t] = o /\ call'[t] = FirstCall(o) /\ at'[t] = "load" /\ cur'[t] = e
      /\ Alike(t)
  BY DEF Start, Alike, Structure, TypeOK
<1>3. e \in DOMAIN envRegister /\ e # 0
  BY NotZero DEF Structure, Domains
<1>4. \A u \in Threads : ~Using(u, e)
  BY <1>1 DEF Using, Unshared, Owned
<1>5. Busy(e) = {}
  <2>1. \A u \in Threads : at[u] # "idle" => cur[u] # e
    BY <1>3, <1>4, WhereAt DEF Using, Unshared, Owned
  <2> QED BY <2>1 DEF Busy
<1>6. UNCHANGED <<envCounter, envRegister, chain, apps, tainted>>
  BY <1>5 DEF Start, library
<1>7. OwnerOf(t)'
  BY <1>1, <1>2, <1>6 DEF OwnerOf, AllOps
<1>8. Bounded'
  BY <1>1, <1>2, <1>6, CreatingSame DEF Unshared
<1>9. ASSUME e \in tainted PROVE Stuck(e)'
  <2>1. chain'[e].live /\ envRegister'[e].height = chain'[e].last + 1
    BY <1>6, <1>9 DEF Unshared, Stuck
  <2>2. Closed(t)'
    BY <1>1, <1>2 DEF Closed, Beginning, FirstCall, AllOps
  <2>3. ASSUME NEW u \in Threads, Using(u, e)' PROVE u = t
    BY <1>2, <1>4, <2>3 DEF Using, Alike
  <2> QED BY <1>2, <2>1, <2>2, <2>3 DEF Stuck
<1>10. 0 \notin tainted /\ tainted' \subseteq DOMAIN envRegister'
  BY <1>6, NotZero DEF Unshared
<1> HIDE DEF Alike, OwnerOf, Bounded, Stuck, Unshared, Structure
<1> QED BY <1>1, <1>2, <1>6, <1>7, <1>8, <1>9, <1>10, UnsharedStep

\* A panic in an open block leaves its environment stuck: the copy BeginBlock
\* stored is one height ahead, and no operation ends a block it has not begun.
LEMMA UnsharedUnwind ==
  ASSUME IInv, Unshared, NEW t \in Threads, Unwind(t)
  PROVE  Unshared'
<1> DEFINE c == cur[t]
<1>1. /\ at[t] = "load" /\ ~Closed(t) /\ ~Opening(t) /\ ~Ended(t) /\ op[t] # "new"
  BY WhereAt DEF Unwind, At, Closed, Opening, Ended, Beginning, IInv, Structure, Shape, CallsOf
<1>2. c \notin tainted
  BY <1>1, StuckSteps DEF IInv
<1>3. /\ c \in DOMAIN envRegister /\ Using(t, c)
  BY <1>1, InUse DEF IInv
<1>4. /\ op'[t] = "none" /\ cur'[t] = 0 /\ Alike(t)
      /\ UNCHANGED <<envCounter, envRegister, chain, apps>>
      /\ tainted' = tainted \union {c}
  BY DEF Unwind, library, Alike, IInv, Structure, TypeOK
<1>5. chain[c].live /\ envRegister[c].height = chain[c].last + 1
  <2>1. Phase(t)
    BY <1>1, <1>2, Alone DEF IInv
  <2> QED BY <1>1, <2>1 DEF Phase
<1>6. OwnerOf(t)'
  BY <1>4 DEF OwnerOf
<1>7. Bounded'
  BY <1>1, <1>4, CreatingSame DEF Unshared
<1>8. ASSUME NEW e, e = c PROVE Stuck(e)'
  <2>1. ASSUME NEW u \in Threads, Using(u, e)' PROVE FALSE
    <3>1. u = t
      BY <1>4, <1>8, <2>1, StillAlone DEF IInv
    <3> QED BY <1>4, <2>1, <3>1 DEF Using
  <2> QED BY <1>4, <1>5, <1>8, <2>1 DEF Stuck
<1>9. tainted' \subseteq DOMAIN envRegister' /\ 0 \notin tainted'
  BY <1>3, <1>4, NotZero DEF Unshared, IInv
<1> HIDE DEF Alike, OwnerOf, Bounded, Stuck, Unshared, Structure
<1> QED BY <1>4, <1>6, <1>7, <1>8, <1>9, UnsharedStep DEF IInv

LEMMA UnsharedMake ==
  ASSUME Structure, Unshared, NEW t \in Threads, op[t] = "new",
         Acquire(t) \/ MakeEnv(t)
  PROVE  Unshared'
<1>1. PICK step : GoTo(t, step) /\ step \in {"make", "count"} /\ at[t] \in {"lock", "make"}
  <2>1. call[t] = "InitTestEnv"
    BY WhereAt
  <2> QED BY <2>1 DEF Acquire, MakeEnv, At, Locked
<1>2. /\ op'[t] = "new" /\ cur'[t] = cur[t] /\ at'[t] = step
  BY <1>1, GoToFrame
<1>3. UNCHANGED <<envCounter, envRegister, chain, apps, tainted>>
      /\ \A u \in Threads \ {t} : env'[u] = env[u]
  <2>1. env \in [Threads -> TestEnv]
    BY DEF Structure, TypeOK
  <2>2. CASE Acquire(t)
    BY <2>2 DEF Acquire, history
  <2>3. CASE MakeEnv(t)
    BY <2>1, <2>3 DEF MakeEnv, history
  <2> QED BY <2>2, <2>3
<1>4. Alike(t)
  BY <1>1, <1>3 DEF GoTo, frame, Alike, Structure, TypeOK
<1>5. Bounded'
  BY <1>1, <1>2, <1>3, <1>4, CreatingSame DEF Unshared
<1>6. cur[t] = 0
  BY DEF Unshared, Owned
<1> HIDE DEF Alike, Bounded, Unshared, Structure
<1> QED BY <1>2, <1>3, <1>4, <1>5, <1>6, UnsharedAside

\* The environment counted is no longer being made.
LEMMA UnsharedCount ==
  ASSUME Structure, Unshared, NEW t \in Threads, Count(t)
  PROVE  Unshared'
<1>1. at[t] = "count" /\ op[t] = "new" /\ GoTo(t, "publish")
  BY WhereAt DEF Count, At
<1>2. /\ op'[t] = "new" /\ cur'[t] = cur[t] /\ at'[t] = "publish"
  BY <1>1, GoToFrame
<1>3. UNCHANGED <<envRegister, chain, apps, tainted, env>> /\ envCounter' = envCounter + 1
  BY DEF Count, history
<1>4. Alike(t)
  BY <1>1, <1>3 DEF GoTo, frame, Alike, Structure, TypeOK
<1>5. Bounded'
  <2>1. Creating' = Creating \ {t} /\ t \in Creating
    BY <1>1, <1>2, <1>4 DEF Creating, Alike
  <2>2. Creating \subseteq Threads
    BY DEF Creating
  <2>3. IsFiniteSet(Creating)
    BY <2>2, ThreadsAssumption, FS_Subset
  <2>4. Cardinality(Creating') = Cardinality(Creating) - 1
    BY <2>1, <2>3, FS_RemoveElement
  <2>5. Cardinality(Creating) \in Nat /\ envCounter \in Nat
    BY <2>3, FS_CardinalityType DEF Structure, TypeOK
  <2> QED BY <1>3, <2>4, <2>5, BoundsAssumption DEF Unshared, Bounded
<1>6. cur[t] = 0
  BY <1>1 DEF Unshared, Owned
<1> HIDE DEF Alike, Bounded, Unshared, Structure
<1> QED BY <1>1, <1>2, <1>3, <1>4, <1>5, <1>6, UnsharedAside

LEMMA UnsharedPublish ==
  ASSUME Structure, Unshared, NEW t \in Threads, Publish(t)
  PROVE  Unshared'
<1>1. at[t] = "publish" /\ op[t] = "new" /\ call[t] = "InitTestEnv"
  BY WhereAt DEF Publish, At
<1>2. /\ Return(t, TRUE, envCounter)
      /\ envRegister' = With(envRegister, envCounter, env[t])
      /\ chain' = With(chain, envCounter, FirstChain)
      /\ apps' = With(apps, envCounter, t)
      /\ UNCHANGED <<envCounter, tainted>>
  BY DEF Publish
<1>3. /\ envCounter \in Nat /\ envCounter \notin DOMAIN envRegister
      /\ DOMAIN chain = DOMAIN envRegister /\ DOMAIN apps \subseteq DOMAIN envRegister
  BY <1>1 DEF Structure, TypeOK, Numbering, Domains
<1>4. /\ DOMAIN envRegister \subseteq DOMAIN envRegister'
      /\ \A e \in DOMAIN envRegister :
           chain'[e] = chain[e] /\ envRegister'[e] = envRegister[e]
      /\ \A e \in DOMAIN apps : e \in DOMAIN apps' /\ apps'[e] = apps[e]
  BY <1>2, <1>3 DEF With
<1>5. Alike(t)
  BY <1>1, <1>2, <1>3, ReturnFrame DEF Alike
<1>6. op'[t] = "none" /\ cur'[t] = 0
  BY <1>1, <1>2, ReturnsTo
<1>7. Bounded'
  BY <1>1, <1>2, <1>5, <1>6, CreatingSame DEF Unshared
<1> HIDE DEF Alike, Bounded, Unshared, Structure
<1> QED BY <1>1, <1>2, <1>4, <1>5, <1>6, <1>7, UnsharedAside

\* In a stuck environment the steps of these functions are not reached.
LEMMA NotStuckAt ==
  ASSUME Structure, Unshared, NEW t \in Threads,
         at[t] \in {"context", "commit", "store", "fund", "set", "deliver"}
  PROVE  op[t] # "new" /\ at[t] # "idle" /\ cur[t] \notin tainted
<1>1. op[t] # "new" /\ at[t] # "idle"
  BY WhereAt
<1> QED BY <1>1, StuckSteps

LEMMA UnsharedLoadEnv ==
  ASSUME Structure, Unshared, NEW t \in Threads, LoadEnv(t)
  PROVE  Unshared'
<1> DEFINE c == cur[t]
           step == Body(call[t])
<1>1. at[t] = "load" /\ op[t] # "new" /\ call[t] \in Calls \ {"InitTestEnv"}
  BY WhereAt DEF LoadEnv, At
<1>2. /\ GoTo(t, step) /\ env' = [env EXCEPT ![t] = envRegister[c]]
      /\ UNCHANGED <<apps, envCounter, envRegister, chain, tainted>>
  BY DEF LoadEnv, library, history
<1>3. /\ op'[t] = op[t] /\ call'[t] = call[t] /\ at'[t] = step
  BY <1>2, GoToFrame
<1>4. env'[t] = envRegister[c] /\ \A u \in Threads \ {t} : env'[u] = env[u]
  BY <1>2 DEF Structure, TypeOK
<1>5. ASSUME c \in tainted
      PROVE  chain[c].live /\ Closed(t)'
  <2>1. chain[c].live /\ Closed(t)
    BY <1>1, <1>5, StuckSteps DEF Stuck
  <2>2. Beginning(t) => step = "finalize"
    BY DEF Beginning, Body, LockedCalls
  <2> QED BY <1>3, <2>1, <2>2 DEF Closed, Beginning
<1> HIDE DEF Unshared, Structure, step
<1> QED BY <1>1, <1>2, <1>4, <1>5, UnsharedGoTo

LEMMA UnsharedAcquire ==
  ASSUME Structure, Unshared, NEW t \in Threads, Acquire(t)
  PROVE  Unshared'
<1> DEFINE c == cur[t]
           step == Locked(call[t])
<1>1. CASE op[t] = "new"
  BY <1>1, UnsharedMake
<1>2. CASE op[t] # "new"
  <2>1. at[t] = "lock" /\ call[t] \in LockedCalls
    BY WhereAt DEF Acquire, At
  <2>2. /\ GoTo(t, step)
        /\ UNCHANGED <<apps, envCounter, envRegister, chain, tainted, env>>
    BY DEF Acquire, history
  <2>3. op'[t] = op[t] /\ step # "finalize"
    BY <2>1, <2>2, GoToFrame DEF Locked, LockedCalls
  <2>4. ASSUME c \in tainted
        PROVE  chain[c].live /\ Closed(t)'
    <3>1. chain[c].live /\ op[t] = "sim"
      BY <1>2, <2>1, <2>4, StuckSteps DEF Stuck
    <3> QED BY <2>3, <3>1 DEF Closed
  <2> HIDE DEF Unshared, Structure, step
  <2> QED BY <1>2, <2>1, <2>2, <2>3, <2>4, UnsharedGoTo
<1> QED BY <1>1, <1>2

\* The application refuses the next block of a stuck environment.
LEMMA UnsharedFinalize ==
  ASSUME Structure, Unshared, NEW t \in Threads, Finalize(t)
  PROVE  Unshared'
<1> DEFINE c == cur[t]
<1>1. at[t] = "finalize" /\ op[t] # "new"
  BY WhereAt DEF Finalize, At
<1>2. CASE Abort(t, "height")
  BY <1>2, UnsharedAbort
<1>3. CASE ~Abort(t, "height")
  <2>1. /\ CanFinalize(chain[c], Height(t))
        /\ chain' = [chain EXCEPT ![c] = FinalizeBlock(chain[c])]
        /\ GoTo(t, IF call[t] = "EndBlock" THEN "commit" ELSE "context")
        /\ UNCHANGED <<apps, envCounter, envRegister, tainted, env>>
    BY <1>3 DEF Finalize, library, history
  <2>2. PICK step : GoTo(t, step)
    BY <2>1
  <2>3. chain[c] \in App
    BY <1>1, InUse
  <2>4. ASSUME c \in tainted PROVE FALSE
    <3>1. Stuck(c) /\ Beginning(t) /\ env[t] = envRegister[c]
      BY <1>1, <2>4, StuckSteps
    <3>2. Height(t) = chain[c].last + 1 + 1
      BY <3>1 DEF Height, Beginning, Stuck
    <3> QED BY <2>1, <2>3, <3>2 DEF CanFinalize, App
  <2>5. \A e \in tainted \ {c} : chain'[e] = chain[e]
    BY <2>1
  <2> HIDE DEF Unshared, Structure
  <2> QED BY <1>1, <2>1, <2>2, <2>4, <2>5, UnsharedGoTo
<1> QED BY <1>2, <1>3

LEMMA UnsharedInBlock ==
  ASSUME Structure, Unshared, NEW t \in Threads,
         NewContext(t) \/ CommitBlock(t) \/ Fund(t) \/ Deliver(t)
  PROVE  Unshared'
<1> DEFINE c == cur[t]
<1>1. op[t] # "new" /\ at[t] # "idle" /\ c \notin tainted
  BY NotStuckAt DEF NewContext, CommitBlock, Fund, Deliver, At
<1>2. ASSUME NEW why, Abort(t, why) PROVE Unshared'
  BY <1>2, UnsharedAbort
<1>3. ASSUME NEW step, GoTo(t, step), UNCHANGED <<apps, envCounter, envRegister, tainted>>,
             \A u \in Threads \ {t} : env'[u] = env[u],
             \A e \in tainted \ {c} : chain'[e] = chain[e]
      PROVE  Unshared'
  <2> HIDE DEF Unshared, Structure
  <2> QED BY <1>1, <1>3, UnsharedGoTo
<1>4. env \in [Threads -> TestEnv] /\ tainted \subseteq DOMAIN chain
  BY DEF Structure, TypeOK, Unshared, Domains
<1>5. CASE NewContext(t)
  BY <1>2, <1>3, <1>4, <1>5 DEF NewContext, library, history
<1>6. CASE CommitBlock(t)
  BY <1>2, <1>3, <1>4, <1>6 DEF CommitBlock, library, history
<1>7. CASE Fund(t)
  BY <1>2, <1>3, <1>4, <1>7 DEF Fund, library, history
<1>8. CASE Deliver(t)
  BY <1>2, <1>3, <1>4, <1>8 DEF Deliver, library, history
<1> QED BY <1>5, <1>6, <1>7, <1>8

LEMMA UnsharedReturns ==
  ASSUME Structure, Unshared, NEW t \in Threads,
         StoreEnv(t) \/ SetParam(t) \/ ReadStore(t) \/ Simulate(t)
  PROVE  Unshared'
<1> DEFINE c == cur[t]
<1>1. op[t] # "new" /\ at[t] \in {"store", "set", "read", "simulate"}
  BY WhereAt DEF StoreEnv, SetParam, ReadStore, Simulate, At
<1>2. ASSUME c \in tainted
      PROVE  op[t] \in {"sim", "query", "drop"} /\ at[t] \in {"read", "simulate"}
  BY <1>1, <1>2, StuckSteps DEF Closed
<1>3. ASSUME NEW good \in BOOLEAN, NEW value \in Nat, Return(t, good, value),
             \A e \in tainted \ {c} :
               chain'[e] = chain[e] /\ envRegister'[e] = envRegister[e],
             DOMAIN envRegister \subseteq DOMAIN envRegister',
             UNCHANGED <<apps, envCounter, tainted>>,
             at[t] \in {"read", "simulate"} => UNCHANGED <<chain, envRegister>>
      PROVE  Unshared'
  <2>1. c \in DOMAIN apps /\ apps[c] = t
    BY <1>1, InUse DEF Unshared, Owned
  <2> HIDE DEF Unshared, Structure
  <2> QED BY <1>1, <1>2, <1>3, <2>1, UnsharedReturn
<1>4. CASE StoreEnv(t)
  <2>1. /\ Return(t, TRUE, 0) /\ envRegister' = [envRegister EXCEPT ![c] = env[t]]
        /\ UNCHANGED <<chain, apps, envCounter, tainted>> /\ at[t] = "store"
    BY <1>4 DEF StoreEnv, At
  <2>2. /\ \A e \in tainted \ {c} :
             chain'[e] = chain[e] /\ envRegister'[e] = envRegister[e]
        /\ DOMAIN envRegister \subseteq DOMAIN envRegister'
        /\ at[t] \notin {"read", "simulate"}
    BY <2>1 DEF Structure, TypeOK, Unshared
  <2> HIDE DEF c, Unshared, Structure
  <2> QED BY <1>3, <2>1, <2>2
<1>5. CASE SetParam(t)
  <2>1. CASE Abort(t, "input")
    BY <2>1, UnsharedAbort
  <2>2. CASE ~Abort(t, "input")
    <3>1. /\ UNCHANGED <<envRegister, apps, envCounter, tainted>> /\ at[t] = "set"
          /\ \/ chain' = [chain EXCEPT ![c] = Write(@, env[t].gen, "param")]
             \/ UNCHANGED chain
      BY <1>5, <2>2 DEF SetParam, At, history
    <3>2. Return(t, TRUE, 0) \/ Return(t, FALSE, 0)
      BY <1>5, <2>2 DEF SetParam
    <3>3. \A e \in tainted \ {c} : chain'[e] = chain[e]
      <4>1. chain \in [DOMAIN chain -> App] /\ tainted \subseteq DOMAIN chain
        BY DEF Structure, TypeOK, Domains, Unshared
      <4> QED BY <3>1, <4>1
    <3>4. \A e \in tainted \ {c} :
            chain'[e] = chain[e] /\ envRegister'[e] = envRegister[e]
      BY <3>1, <3>3
    <3>5. ASSUME NEW good \in BOOLEAN, Return(t, good, 0) PROVE Unshared'
      <4>1. /\ UNCHANGED <<apps, envCounter, tainted>>
            /\ DOMAIN envRegister \subseteq DOMAIN envRegister'
            /\ at[t] \notin {"read", "simulate"}
        BY <3>1
      <4> HIDE DEF c, Unshared, Structure
      <4> QED BY <1>3, <3>4, <3>5, <4>1
    <3> QED BY <3>2, <3>5
  <2> QED BY <2>1, <2>2
<1>6. CASE ReadStore(t)
  <2> DEFINE value == Read(chain[c], env[t].gen)["tx"]
  <2>1. /\ Return(t, TRUE, value)
        /\ UNCHANGED <<envRegister, chain, apps, envCounter, tainted>>
    BY <1>6 DEF ReadStore, library, history
  <2>2. value \in Nat
    BY <1>1, InUse, ReadType DEF TestEnv
  <2> HIDE DEF value
  <2> QED BY <1>3, <2>1, <2>2
<1>7. CASE Simulate(t)
  <2>1. PICK accepted \in BOOLEAN : Return(t, accepted, 0)
    BY <1>7 DEF Simulate
  <2>2. UNCHANGED <<envRegister, chain, apps, envCounter, tainted>>
    BY <1>7 DEF Simulate, history
  <2> QED BY <1>3, <2>1, <2>2
<1> QED BY <1>4, <1>5, <1>6, <1>7

LEMMA UnsharedCleanUp ==
  ASSUME Structure, Unshared, NEW t \in Threads, CleanUp(t)
  PROVE  Unshared'
<1> DEFINE c == cur[t]
<1>1. at[t] = "clean" /\ op[t] = "drop" /\ call[t] = "CleanUp" /\ env[t].nodeHome = ""
  BY WhereAt DEF CleanUp, At, Structure, Shape
<1>2. /\ Return(t, TRUE, 0) /\ apps' = [e \in DOMAIN apps \ {c} |-> apps[e]]
      /\ UNCHANGED <<envRegister, chain, envCounter, tainted>>
  BY <1>1 DEF CleanUp, history
<1>3. op'[t] = "none"
  <2>1. NextCall(op[t], call[t], fee[t], TRUE) = "return"
    BY <1>1 DEF NextCall
  <2> QED BY <1>2, <2>1 DEF Return, Structure, TypeOK
<1>4. \A e \in DOMAIN apps \ {c} : e \in DOMAIN apps' /\ apps'[e] = apps[e]
  BY <1>2
<1> HIDE DEF Unshared, Structure
<1> QED BY <1>1, <1>2, <1>3, <1>4, UnsharedReturn

LEMMA UnsharedNext ==
  ASSUME IInv, Unshared, ~Sharing, [Next]_vars
  PROVE  Unshared'
<1>1. CASE UNCHANGED vars
  BY <1>1, UnsharedSame DEF vars, library, frame, history
<1>2. ASSUME NEW t \in Threads, Begin(t) PROVE Unshared'
  BY <1>2, UnsharedStartNew, UnsharedStart DEF Begin, IInv
<1>3. ASSUME NEW t \in Threads, Work(t) PROVE Unshared'
  <2>1. MakeEnv(t) => op[t] = "new"
    BY WhereAt DEF MakeEnv, At, IInv
  <2> QED BY <1>3, <2>1, UnsharedLoadEnv, UnsharedAcquire, UnsharedMake, UnsharedCount,
             UnsharedPublish, UnsharedFinalize, UnsharedInBlock, UnsharedReturns,
             UnsharedCleanUp DEF Work, IInv
<1>4. ASSUME NEW t \in Threads, NEW u \in Threads, DataRace(t, u) PROVE Unshared'
  BY <1>4, UnsharedAbort DEF DataRace
<1> QED BY <1>1, <1>2, <1>3, <1>4, UnsharedUnwind DEF Next

\* Each of the steps the exported functions take, however threads interleave and
\* closures panic, is a step of the chains TestChain promises, or changes nothing
\* there, as long as no BaseApp is shared.
THEOREM LibraryKeepsPromise ==
  ASSUME ~Sharing
  PROVE  Spec => KeepsPromise
<1>1. Init => Unshared /\ Promise!Init
  BY UnsharedInit, PromiseInit
<1>2. IInv /\ Unshared /\ [Next]_vars => Unshared'
  BY UnsharedNext
<1>3. IInv /\ Unshared /\ [Next]_vars => [Promise!Next]_<<Ledger, acked>>
  BY PromiseStep
<1>4. IInv /\ Unshared /\ [Next]_vars =>
        [Promise!Next]_<<[e \in DOMAIN chain |->
                            [height |-> chain[e].last, store |-> chain[e].saved]], acked>>
  BY <1>3 DEF Ledger
<1> QED BY <1>1, <1>2, <1>4, InvariantAlways, PTL DEF Spec, KeepsPromise, Promise!Spec
===============================================================================
