-------------------------- MODULE Validators_proofs --------------------------
(***************************************************************************)
(* Proofs about Validators, for every set of addresses and every choice of    *)
(* those that can be bonded: blocks find their proposer's signing info.       *)
(***************************************************************************)
EXTENDS Validators, TLAPS

\* First picks a member that no other one comes before.
LEMMA FirstOf ==
  ASSUME NEW S \in SUBSET Addresses, S # {}
  PROVE  First(S) \in S /\ \A w \in S : First(S) <= w
  BY AddressAssumption DEF First

\* What a store keeps through its blockers.
GoodStore(s) == s \in Staking /\ Genesis \in s.validators \ s.leaving

\* Blockers keep the types and the genesis validator, drop no signing info, and
\* give one to every validator with enough stake.
LEMMA BlockersKeep ==
  ASSUME NEW s, GoodStore(s), NEW t \in Blockers(s)
  PROVE  /\ GoodStore(t)
         /\ t.validators \intersect Bondable \subseteq t.infos
<1>1. PICK gone \in SUBSET s.leaving :
        t = [validators |-> s.validators \ gone,
             infos      |-> s.infos \union (s.validators \intersect Bondable),
             leaving    |-> s.leaving \ gone]
  BY DEF Blockers
<1>2. t \in Staking
  BY <1>1 DEF GoodStore, Staking
<1>3. Genesis \in t.validators \ t.leaving
  BY <1>1 DEF GoodStore
<1>4. t.validators \intersect Bondable \subseteq t.infos
  BY <1>1
<1> QED BY <1>2, <1>3, <1>4 DEF GoodStore

\* The signing infos of the committed store are complete in open blocks too, as
\* the root changes at EndBlock only.
IInv ==
  /\ TypeOK
  /\ root.validators \intersect Bondable \subseteq root.infos
  /\ EnvironmentSurvives

LEMMA InitGood == Init => IInv
<1> SUFFICES ASSUME Init PROVE IInv
  OBVIOUS
<1>1. Genesis \in Addresses /\ Genesis \in Bondable
  BY GenesisAssumption
<1>2. root \in Staking /\ fin \in Staking
  BY <1>1 DEF Init, GenesisInfos, Staking
<1>3. TypeOK
  <2>1. Genesis \in root.validators \ root.leaving /\ fin = root
    BY DEF Init
  <2>2. height \in 1 .. MaxHeight
    BY HeightAssumption DEF Init
  <2>3. proposer \in Addresses /\ answer \in Addresses \union {None}
    BY <1>1 DEF Init
  <2>4. open \in BOOLEAN /\ aborted \in BOOLEAN
    BY DEF Init
  <2> QED BY <1>2, <2>1, <2>2, <2>3, <2>4 DEF TypeOK
<1>4. root.validators \intersect Bondable \subseteq root.infos
  BY DEF Init, GenesisInfos
<1>5. EnvironmentSurvives
  BY DEF Init, EnvironmentSurvives
<1> QED BY <1>3, <1>4, <1>5 DEF IInv

\* The block is begun with a validator of the committed store; that it aborts
\* for one that could be bonded contradicts the complete signing infos.
LEMMA BeginKeeps == IInv /\ BeginNewBlock => IInv'
<1> SUFFICES ASSUME IInv, BeginNewBlock PROVE IInv'
  OBVIOUS
<1>1. GoodStore(root) /\ GoodStore(fin)
  BY DEF IInv, TypeOK, GoodStore
<1>2. proposer' = First(root.validators)
  BY DEF BeginNewBlock, Ctx
<1>3. proposer' \in root.validators /\ proposer' \in Addresses
  <2>1. root.validators \in SUBSET Addresses /\ root.validators # {}
    BY <1>1 DEF GoodStore, Staking
  <2> QED BY <1>2, <2>1, FirstOf
<1>4. height' \in 1 .. MaxHeight
  BY HeightAssumption DEF BeginNewBlock, IInv, TypeOK
<1>5. root' = root /\ answer' = None
  BY DEF BeginNewBlock
<1>6. CASE Votes(root, proposer')
  <2>1. open' = TRUE /\ fin' \in Blockers(root) /\ aborted' = aborted
    BY <1>6 DEF BeginNewBlock
  <2>2. GoodStore(fin')
    BY <1>1, <2>1, BlockersKeep
  <2>3. TypeOK'
    BY <1>1, <1>3, <1>4, <1>5, <2>1, <2>2 DEF TypeOK, GoodStore, IInv
  <2>4. ~aborted'
    BY <2>1 DEF BeginNewBlock
  <2> QED BY <1>5, <2>3, <2>4 DEF IInv, EnvironmentSurvives
<1>7. CASE ~Votes(root, proposer')
  <2>1. aborted' = TRUE /\ open' = open /\ fin' = fin
    BY <1>7 DEF BeginNewBlock
  <2>2. TypeOK'
    BY <1>1, <1>3, <1>4, <1>5, <2>1 DEF TypeOK, GoodStore, IInv
  <2>3. proposer' \notin Bondable
    BY <1>3, <1>7 DEF IInv, Votes
  <2> QED BY <1>5, <2>2, <2>3 DEF IInv, EnvironmentSurvives
<1> QED BY <1>6, <1>7

LEMMA CreateKeeps ==
  ASSUME IInv, NEW v \in Addresses, CreateValidator(v)
  PROVE  IInv'
<1>1. fin' = [fin EXCEPT !.validators = @ \union {v}] /\ fin \in Staking
  BY DEF CreateValidator, IInv, TypeOK
<1>2. /\ fin' \in Staking
      /\ fin'.validators = fin.validators \union {v} /\ fin'.leaving = fin.leaving
  BY <1>1 DEF Staking
<1>3. UNCHANGED <<root, open, height, proposer, aborted>> /\ answer' = None
  BY DEF CreateValidator
<1>4. TypeOK'
  BY <1>2, <1>3 DEF IInv, TypeOK
<1> QED BY <1>3, <1>4 DEF IInv, EnvironmentSurvives

LEMMA UndelegateKeeps ==
  ASSUME IInv, NEW v \in Addresses, Undelegate(v)
  PROVE  IInv'
<1>1. fin \in Staking /\ Genesis \in fin.validators \ fin.leaving /\ v # Genesis
  BY DEF Undelegate, IInv, TypeOK
<1>2. fin' \in Staking /\ Genesis \in fin'.validators \ fin'.leaving
  <2>1. CASE v \in fin.infos
    <3>1. fin' = [fin EXCEPT !.leaving = @ \union {v}]
      BY <2>1 DEF Undelegate
    <3> QED BY <1>1, <3>1 DEF Staking
  <2>2. CASE v \notin fin.infos
    <3>1. fin' = [fin EXCEPT !.validators = @ \ {v}]
      BY <2>2 DEF Undelegate
    <3> QED BY <1>1, <3>1 DEF Staking
  <2> QED BY <2>1, <2>2
<1>3. UNCHANGED <<root, open, height, proposer, aborted>> /\ answer' = None
  BY DEF Undelegate
<1>4. TypeOK'
  BY <1>2, <1>3 DEF IInv, TypeOK
<1> QED BY <1>3, <1>4 DEF IInv, EnvironmentSurvives

\* Newcomers of the block get their signing infos here.
LEMMA EndKeeps == IInv /\ EndBlock => IInv'
<1> SUFFICES ASSUME IInv, EndBlock PROVE IInv'
  OBVIOUS
<1>1. GoodStore(fin)
  BY DEF IInv, TypeOK, GoodStore
<1>2. root' \in Blockers(fin)
  BY DEF EndBlock
<1>3. GoodStore(root') /\ root'.validators \intersect Bondable \subseteq root'.infos
  BY <1>1, <1>2, BlockersKeep
<1>4. UNCHANGED <<fin, height, proposer, aborted, answer>> /\ open' = FALSE
  BY DEF EndBlock
<1>5. TypeOK'
  BY <1>3, <1>4 DEF IInv, TypeOK, GoodStore
<1> QED BY <1>3, <1>4, <1>5 DEF IInv, EnvironmentSurvives

LEMMA ReadKeeps == IInv /\ get_first_validator_address => IInv'
<1> SUFFICES ASSUME IInv, get_first_validator_address PROVE IInv'
  OBVIOUS
<1>1. UNCHANGED <<root, fin, open, height, proposer, aborted>>
  BY DEF get_first_validator_address
<1>2. Ctx.validators \in SUBSET Addresses /\ Ctx.validators # {}
  BY DEF Ctx, IInv, TypeOK, Staking
<1>3. answer' \in Addresses
  BY <1>2, FirstOf DEF get_first_validator_address
<1>4. TypeOK'
  BY <1>1, <1>3 DEF IInv, TypeOK
<1> QED BY <1>1, <1>4 DEF IInv, EnvironmentSurvives

LEMMA StepKeeps == IInv /\ [Next]_vars => IInv'
<1> SUFFICES ASSUME IInv, [Next]_vars PROVE IInv'
  OBVIOUS
<1>1. CASE BeginNewBlock
  BY <1>1, BeginKeeps
<1>2. ASSUME NEW v \in Addresses, CreateValidator(v) PROVE IInv'
  BY <1>2, CreateKeeps
<1>3. ASSUME NEW v \in Addresses, Undelegate(v) PROVE IInv'
  BY <1>3, UndelegateKeeps
<1>4. CASE EndBlock
  BY <1>4, EndKeeps
<1>5. CASE get_first_validator_address
  BY <1>5, ReadKeeps
<1>6. CASE UNCHANGED vars
  BY <1>6 DEF vars, IInv, TypeOK, EnvironmentSurvives
<1> QED BY <1>1, <1>2, <1>3, <1>4, <1>5, <1>6 DEF Next

LEMMA Inductive == Spec => []IInv
<1> QED BY InitGood, StepKeeps, PTL DEF Spec

\* Every variable keeps its type, and the genesis validator never goes: validators[0]
\* (setup.go:146, main.go:61) always exists.
THEOREM ValidatorsTyped == Spec => []TypeOK
<1>1. IInv => TypeOK
  BY DEF IInv
<1> QED BY <1>1, Inductive, PTL

\* A block aborts over its proposer (BeginNewBlock, setup.go:138) only if that
\* one could never be bonded, for any validators created and removed before.
THEOREM BlocksFindTheirProposer == Spec => []EnvironmentSurvives
<1>1. IInv => EnvironmentSurvives
  BY DEF IInv
<1> QED BY <1>1, Inductive, PTL

\* Between blocks every validator with enough stake has its signing info.
THEOREM SigningInfosAreComplete == Spec => []SigningInfosComplete
<1>1. IInv => SigningInfosComplete
  BY DEF IInv, SigningInfosComplete
<1> QED BY <1>1, Inductive, PTL
-------------------------------------------------------------------------------
(* The address a test reads. *)

\* Only one member of a set of addresses comes first.
LEMMA FirstIsUnique ==
  ASSUME NEW S \in SUBSET Addresses, NEW a \in S, \A w \in S : a <= w
  PROVE  First(S) = a
<1>1. First(S) \in S /\ First(S) <= a
  BY FirstOf
<1>2. a <= First(S)
  BY <1>1
<1>3. First(S) \in Nat /\ a \in Nat
  BY <1>1, AddressAssumption
<1> QED BY <1>1, <1>2, <1>3

\* Who waits to be paid out has been bonded; the last answer is the first
\* validator of the store it was read from, or, in the committed store, one that
\* has been paid out.
Told ==
  /\ root.leaving \subseteq root.infos /\ fin.leaving \subseteq fin.infos
  /\ answer # None =>
       \/ answer = First(Ctx.validators)
       \/ ~open /\ answer \in root.infos \ root.validators

\* What the blockers do to the first validator: it stays, or has been paid out.
LEMMA BlockersKeepFirst ==
  ASSUME NEW s, GoodStore(s), s.leaving \subseteq s.infos, NEW t \in Blockers(s)
  PROVE  /\ t.leaving \subseteq t.infos
         /\ \/ First(t.validators) = First(s.validators)
            \/ First(s.validators) \in t.infos \ t.validators
<1> DEFINE a == First(s.validators)
<1>1. PICK gone \in SUBSET s.leaving :
        t = [validators |-> s.validators \ gone,
             infos      |-> s.infos \union (s.validators \intersect Bondable),
             leaving    |-> s.leaving \ gone]
  BY DEF Blockers
<1>2. t.leaving \subseteq t.infos
  BY <1>1
<1>3. a \in s.validators /\ \A w \in s.validators : a <= w
  <2>1. s.validators \in SUBSET Addresses /\ s.validators # {}
    BY DEF GoodStore, Staking
  <2> QED BY <2>1, FirstOf
<1>4. CASE a \in gone
  BY <1>1, <1>4
<1>5. CASE a \notin gone
  <2>1. a \in t.validators /\ \A w \in t.validators : a <= w
    BY <1>1, <1>3, <1>5
  <2>2. t.validators \in SUBSET Addresses
    BY <1>1 DEF GoodStore, Staking
  <2> QED BY <1>2, <2>1, <2>2, FirstIsUnique
<1> QED BY <1>2, <1>4, <1>5

LEMMA ToldInit == Init => Told
  BY DEF Init, Told, GenesisInfos

LEMMA ToldStep == IInv /\ Told /\ [Next]_vars => Told'
<1> SUFFICES ASSUME IInv, Told, [Next]_vars PROVE Told'
  OBVIOUS
<1>g. GoodStore(root) /\ GoodStore(fin) /\ None \notin Addresses
  BY AddressAssumption DEF IInv, TypeOK, GoodStore, None
<1>1. CASE BeginNewBlock
  <2>1. root' = root /\ answer' = None
    BY <1>1 DEF BeginNewBlock
  <2>2. fin'.leaving \subseteq fin'.infos
    <3>1. fin' \in Blockers(root) \/ fin' = fin
      BY <1>1 DEF BeginNewBlock
    <3> QED BY <1>g, <3>1, BlockersKeepFirst DEF Told
  <2> QED BY <2>1, <2>2 DEF Told
<1>2. ASSUME NEW v \in Addresses, CreateValidator(v) PROVE Told'
  <2>1. fin' = [fin EXCEPT !.validators = @ \union {v}] /\ root' = root /\ answer' = None
    BY <1>2 DEF CreateValidator
  <2>2. fin'.leaving = fin.leaving /\ fin'.infos = fin.infos
    BY <1>g, <2>1 DEF GoodStore, Staking
  <2> QED BY <2>1, <2>2 DEF Told
<1>3. ASSUME NEW v \in Addresses, Undelegate(v) PROVE Told'
  <2>1. root' = root /\ answer' = None
    BY <1>3 DEF Undelegate
  <2>2. CASE v \in fin.infos
    <3>1. fin' = [fin EXCEPT !.leaving = @ \union {v}]
      BY <1>3, <2>2 DEF Undelegate
    <3> QED BY <1>g, <2>1, <2>2, <3>1 DEF Told, GoodStore, Staking
  <2>3. CASE v \notin fin.infos
    <3>1. fin' = [fin EXCEPT !.validators = @ \ {v}]
      BY <1>3, <2>3 DEF Undelegate
    <3> QED BY <1>g, <2>1, <3>1 DEF Told, GoodStore, Staking
  <2> QED BY <2>2, <2>3
<1>4. CASE EndBlock
  <2>1. root' \in Blockers(fin) /\ fin' = fin /\ answer' = answer /\ open /\ open' = FALSE
    BY <1>4 DEF EndBlock
  <2>2. root'.leaving \subseteq root'.infos
    BY <1>g, <2>1, BlockersKeepFirst DEF Told
  <2>3. ASSUME answer # None
        PROVE  answer = First(root'.validators) \/ answer \in root'.infos \ root'.validators
    <3>1. answer = First(fin.validators)
      BY <2>1, <2>3 DEF Told, Ctx
    <3>2. \/ First(root'.validators) = First(fin.validators)
          \/ First(fin.validators) \in root'.infos \ root'.validators
      BY <1>g, <2>1, BlockersKeepFirst DEF Told
    <3> QED BY <3>1, <3>2
  <2> QED BY <2>1, <2>2, <2>3 DEF Told, Ctx
<1>5. CASE get_first_validator_address
  BY <1>5 DEF get_first_validator_address, Told, Ctx
<1>6. CASE UNCHANGED vars
  BY <1>6 DEF vars, Told, Ctx
<1> QED BY <1>1, <1>2, <1>3, <1>4, <1>5, <1>6 DEF Next

\* A block is begun with the validator whose address a test was told last.
LEMMA BeginsAsTold ==
  Told /\ [Next]_vars =>
    (height' # height /\ answer # None =>
       proposer' = answer \/ answer \in root.infos \ root.validators)
<1> SUFFICES ASSUME Told, [Next]_vars, height' # height, answer # None
             PROVE  proposer' = answer \/ answer \in root.infos \ root.validators
  OBVIOUS
<1>1. BeginNewBlock
  BY DEF Next, vars, CreateValidator, Undelegate, EndBlock, get_first_validator_address
<1> QED BY <1>1 DEF BeginNewBlock, Told, Ctx

\* The address get_first_validator_address (app.rs:60) read last is that of the
\* proposer of the next block, or of a validator that has been paid out since.
THEOREM AddressesPropose == Spec => AddressProposes
<1>1. IInv /\ Told /\ [Next]_vars => Told'
  BY ToldStep
<1>2. Spec => []Told
  BY <1>1, ToldInit, Inductive, PTL DEF Spec
<1>3. Told /\ [Next]_vars =>
        [height' # height /\ answer # None =>
           \/ proposer' = answer
           \/ answer \in root.infos \ root.validators]_vars
  BY BeginsAsTold
<1> QED BY <1>2, <1>3, PTL DEF Spec, AddressProposes
===============================================================================
