------------------------------ MODULE BlockClock ------------------------------
(***************************************************************************)
(* The clock of a test environment: the block time each operation gives its *)
(* block (testenv/setup.go), the time a simulation sees, and what BaseApp    *)
(* (test-tube/src/runner/app.rs) reads back, in the integers the code uses:  *)
(* time.Duration, UnixNano and the seconds of the bindings are int64, the     *)
(* seconds of IncreaseTime and Timestamp are uint64.  A time.Time is wide      *)
(* enough to be an integer without bounds; a nanosecond is its unit.         *)
(***************************************************************************)
EXTENDS Integers

CONSTANTS
  Half,         \* 2^63: half of what 64 bits can tell apart
  Second,       \* nanoseconds in a second
  Start,        \* what time.Now() may answer in InitTestEnv
  Increases,    \* the seconds a test asks increase_time for
  MaxHeight     \* bound: no block is begun above this height

ASSUME WidthAssumption == Half \in Nat \ {0} /\ Second \in Nat \ {0}
ASSUME StartAssumption == Start \subseteq Nat
ASSUME IncreasesAssumption == Increases \subseteq 0 .. 2 * Half - 1
ASSUME HeightAssumption == MaxHeight \in Nat \ {0}

MaxInt == Half - 1

\* Conversion to int64, and of an int64 to uint64.
ToInt(x)  == ((x + Half) % (2 * Half)) - Half
ToUint(x) == x % (2 * Half)

VARIABLES
  created,      \* the time InitTestEnv was called
  asked,        \* history: the seconds all blocks so far were meant to add
  time,         \* block time of the environment's context
  height,       \* its block height
  open,         \* is the block of an operation open?
  committed     \* block time of the last committed header, if it has one

vars == <<created, asked, time, height, open, committed>>

\* The header of the first block is finalized without a Time: the year 1.
ZeroTime == -1

\* Mutant: the seconds are taken for nanoseconds.
DurationOfNanos(s) == ToInt(s)

\* time.Duration(s) * time.Second
Duration(s) == ToInt(ToInt(s) * Second)

\* Mutant: the environment is handed over without its first block.
InitNoFirstBlock ==
  /\ created \in Start
  /\ asked = 0
  /\ time = created
  /\ height = 0
  /\ open = FALSE
  /\ committed = ZeroTime

Init ==
  /\ created \in Start
  /\ asked = 5
  /\ time = created + Duration(5)
  /\ height = 1
  /\ open = FALSE
  /\ committed = ZeroTime

\* Mutant: the time is counted from the creation of the environment.
BeginNewBlockAfresh(s) ==
  /\ ~open /\ height < MaxHeight
  /\ time' = created + Duration(s)
  /\ height' = height + 1
  /\ open' = TRUE
  /\ asked' = asked + s
  /\ UNCHANGED <<created, committed>>

\* BeginNewBlock(s).
BeginNewBlock(s) ==
  /\ ~open /\ height < MaxHeight
  /\ time' = time + Duration(s)
  /\ height' = height + 1
  /\ open' = TRUE
  /\ asked' = asked + s
  /\ UNCHANGED <<created, committed>>

\* BeginBlock, of run_block, init_account and set_param_set.
BeginBlock == BeginNewBlock(1)

\* increase_time: more than fits the i64 of the bindings does not convert, and
\* the Rust side panics before anything happens.
IncreaseTime(s) == s <= MaxInt /\ BeginNewBlock(s)

\* EndBlock finalizes the block again with the height and the time of its
\* context; Commit makes its header the one simulations run with.
EndBlock ==
  /\ open
  /\ open' = FALSE
  /\ committed' = time
  /\ UNCHANGED <<created, asked, time, height>>

Next == BeginBlock \/ (\E s \in Increases : IncreaseTime(s)) \/ EndBlock

Spec == Init /\ [][Next]_vars

-------------------------------------------------------------------------------
(* What BaseApp and CoreumTestApp read. *)

\* GetBlockTime: UnixNano.
GetBlockTime == ToInt(time)

\* Mutant: a negative time is made positive instead of being reinterpreted.
TimestampOfMagnitude == IF GetBlockTime < 0 THEN -GetBlockTime ELSE GetBlockTime

\* get_block_timestamp: result as u64.
get_block_timestamp == ToUint(GetBlockTime)

-------------------------------------------------------------------------------
\* Every variable has its type.
TypeOK ==
  /\ created \in Nat /\ asked \in Nat /\ time \in Int
  /\ height \in 1 .. MaxHeight
  /\ open \in BOOLEAN
  /\ committed \in Int

\* As long as no single increase overflows a Duration, the block time is the
\* time of creation and every second asked for since, whatever the mix of
\* blocks and increases.
ClockIsElapsed == time = created + asked * Second

\* No block is committed with a time before that of the block before it.
TimeNeverRunsBack == [][committed # ZeroTime => committed' >= committed]_vars

\* The timestamp a test reads is the block time even past the end of int64,
\* where the nanoseconds read have wrapped: the conversion to u64 undoes it.
TimestampSurvivesWrap ==
  time \in 0 .. 2 * Half - 1 => get_block_timestamp = time

\* "Increase the time of the blockchain by the given number of seconds."
\* (app.rs:52): a block lasts as long as was asked, for every number of seconds
\* increase_time accepts.
IncreasesByTheGivenSeconds ==
  [][open' /\ ~open => time' - time = (asked' - asked) * Second]_vars
===============================================================================
