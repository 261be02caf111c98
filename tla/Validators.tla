----------------------------- MODULE Validators -----------------------------
(***************************************************************************)
(* The validators of a test environment: which of them proposes the next     *)
(* block (BeginNewBlock, testenv/setup.go), and who "the first validator" is *)
(* that BaseApp gives tests an address and a signing account of.             *)
(*                                                                         *)
(* The chain starts with one validator, of keys made up by SetupApp; tests    *)
(* add and retire others by staking messages.  GetAllValidators lists them    *)
(* in the order of their operator addresses, whatever their status, so a      *)
(* newcomer may come before the genesis validator.  The staking and slashing *)
(* modules are not under src/: Blockers and Votes are what the library sees   *)
(* of them.  Heights and failed transactions are in TestTube.                *)
(***************************************************************************)
EXTENDS Integers

CONSTANTS
  Addresses,    \* operator addresses, as numbers in the order of the store
  Genesis,      \* the address of the validator SetupApp makes
  Bondable,     \* those whose stake buys them a place among the active ones
  MaxHeight     \* bound: no block is begun above this height

ASSUME AddressAssumption ==
  /\ Addresses \subseteq Nat
  /\ \A S \in SUBSET Addresses : S # {} => \E v \in S : \A w \in S : v <= w
ASSUME GenesisAssumption == Genesis \in Bondable /\ Bondable \subseteq Addresses
ASSUME HeightAssumption == MaxHeight \in Nat \ {0}

\* What the store holds: the validators, those with a signing info (it stays
\* when its validator goes), and those that wait for their stake to be paid out.
Staking == [validators : SUBSET Addresses, infos : SUBSET Addresses,
            leaving : SUBSET Addresses]

None == -1

VARIABLES
  root,         \* the committed store
  fin,          \* the store of the open block
  open,         \* is the block of an operation open?
  height,       \* height of the last block begun
  proposer,     \* the validator that block was begun with
  aborted,      \* did the process abort?
  answer        \* history: the address last read, while no message has since
                \* changed the validators and no block was begun

vars == <<root, fin, open, height, proposer, aborted, answer>>

-------------------------------------------------------------------------------
(* The application. *)

\* validators[0] of GetAllValidators.
First(S) == CHOOSE v \in S : \A w \in S : v <= w

\* The store env.Ctx reads.
Ctx == IF open THEN fin ELSE root

\* The staking module's blockers: validators with enough stake are bonded, and
\* get a signing info; some of those that wait to be paid out are removed.
Blockers(s) ==
  { [validators |-> s.validators \ gone,
     infos      |-> s.infos \union (s.validators \intersect Bondable),
     leaving    |-> s.leaving \ gone] : gone \in SUBSET s.leaving }

\* The slashing module looks up the signing info of everyone who voted, and
\* fails without; in a block begun with a proposer that is the proposer alone.
Votes(s, p) == p \in s.infos

-------------------------------------------------------------------------------
(* The library. *)

\* Mutant: the genesis validator is left without a signing info.
InfosForgotten == {}

\* SetValidatorSigningInfo in InitTestEnv: the genesis validator is bonded from
\* the start, so that no blocker gives it a signing info.
GenesisInfos == {Genesis}

\* Mutant: the environment is handed over without its first block.
InitNoFirstBlock ==
  /\ root = [validators |-> {Genesis}, infos |-> GenesisInfos, leaving |-> {}]
  /\ fin = root
  /\ height = 0 /\ proposer = None /\ answer = None
  /\ open = FALSE /\ aborted = FALSE

\* After InitTestEnv, which begins and commits the first block.
Init ==
  /\ root = [validators |-> {Genesis}, infos |-> GenesisInfos, leaving |-> {}]
  /\ fin = root
  /\ height = 1 /\ proposer = Genesis /\ answer = None
  /\ open = FALSE /\ aborted = FALSE

\* BeginNewBlock: the first validator proposes and votes.  (setupValidator, for
\* a chain without validators, is not reached: the genesis validator stays.)
BeginNewBlock ==
  /\ ~open /\ ~aborted /\ height < MaxHeight
  /\ proposer' = First(Ctx.validators)
  /\ height' = height + 1
  /\ answer' = None
  /\ IF Votes(root, proposer')
       THEN open' = TRUE /\ fin' \in Blockers(root) /\ UNCHANGED aborted
       ELSE aborted' = TRUE /\ UNCHANGED <<open, fin>>
  /\ UNCHANGED root

\* MsgCreateValidator, of an operator that was not a validator before.
CreateValidator(v) ==
  /\ open /\ ~aborted
  /\ v \notin fin.validators \union fin.infos
  /\ fin' = [fin EXCEPT !.validators = @ \union {v}]
  /\ answer' = None
  /\ UNCHANGED <<root, open, height, proposer, aborted>>

\* MsgUndelegate of all its stake: a validator that was bonded waits to be paid
\* out, another one is removed at once.  The key that could undelegate from the
\* genesis validator is dropped by SetupApp.
Undelegate(v) ==
  /\ open /\ ~aborted
  /\ v \in fin.validators \ (fin.leaving \union {Genesis})
  /\ fin' = IF v \in fin.infos THEN [fin EXCEPT !.leaving = @ \union {v}]
                               ELSE [fin EXCEPT !.validators = @ \ {v}]
  /\ answer' = None
  /\ UNCHANGED <<root, open, height, proposer, aborted>>

\* Mutant: EndBlock writes the block, but does not run its blockers again.
EndBlockNoBlockers ==
  /\ open /\ ~aborted
  /\ root' = fin
  /\ open' = FALSE
  /\ UNCHANGED <<fin, height, proposer, aborted, answer>>

\* Mutant: EndBlock commits without finalizing the block again.
EndBlockCommitOnly ==
  /\ open /\ ~aborted
  /\ open' = FALSE
  /\ UNCHANGED <<root, fin, height, proposer, aborted, answer>>

\* EndBlock: the blockers run again, without votes, and what they leave is
\* written and committed.
EndBlock ==
  /\ open /\ ~aborted
  /\ root' \in Blockers(fin)
  /\ open' = FALSE
  /\ UNCHANGED <<fin, height, proposer, aborted, answer>>

\* GetValidatorAddress(0), of any thread at any time.
get_first_validator_address ==
  /\ ~aborted
  /\ answer' = First(Ctx.validators)
  /\ UNCHANGED <<root, fin, open, height, proposer, aborted>>

Next ==
  \/ BeginNewBlock
  \/ \E v \in Addresses : CreateValidator(v)
  \/ \E v \in Addresses : Undelegate(v)
  \/ EndBlock
  \/ get_first_validator_address

Spec == Init /\ [][Next]_vars

\* get_first_validator_signing_account: the operator address of the key env
\* has kept since SetupApp (GetValidatorPrivateKey).
get_first_validator_signing_account == Genesis

-------------------------------------------------------------------------------
\* Every variable has its type; the signer of the genesis key is a validator as
\* long as the environment lives.
TypeOK ==
  /\ root \in Staking /\ fin \in Staking
  /\ Genesis \in root.validators \ root.leaving
  /\ Genesis \in fin.validators \ fin.leaving
  /\ open \in BOOLEAN /\ aborted \in BOOLEAN
  /\ height \in 1 .. MaxHeight
  /\ proposer \in Addresses
  /\ answer \in Addresses \union {None}

\* BeginNewBlock (setup.go:138) finds a signing info of whichever validator
\* comes first, although the library writes only the genesis validator's: the
\* process aborts over a proposer only if that one never had the stake to be
\* bonded.
EnvironmentSurvives == aborted => proposer \notin Bondable

\* Between blocks every validator with enough stake has its signing info: the
\* genesis one from InitTestEnv, newcomers from the blockers EndBlock runs.
SigningInfosComplete ==
  \/ open
  \/ root.validators \intersect Bondable \subseteq root.infos

\* The address get_first_validator_address (app.rs:60) read last, also if it was
\* read in a block still open, is that of the proposer of the next block,
\* unless a blocker has removed its validator in between.
AddressProposes ==
  [][height' # height /\ answer # None =>
       \/ proposer' = answer
       \/ answer \in root.infos \ root.validators]_vars

\* "Get the first validator signing account" (app.rs:72): the account a test
\* signs with as the first validator is the one whose address it is told.
FirstValidatorSigns ==
  ~open /\ ~aborted => get_first_validator_signing_account = First(Ctx.validators)
===============================================================================
