-------------------------- MODULE BlockClock_proofs --------------------------
(***************************************************************************)
(* Proofs about BlockClock, for every width and every second: what the       *)
(* conversions between int64 and uint64 keep, and that the block time is the *)
(* time asked for as long as no increase overflows a Duration.               *)
(***************************************************************************)
EXTENDS BlockClock, TLAPS

\* An int64 converts to itself.
LEMMA IntKept ==
  ASSUME NEW x \in Int, -Half <= x, x < Half
  PROVE  ToInt(x) = x
<1>1. Half \in Nat \ {0}
  BY WidthAssumption
<1>2. x + Half \in 0 .. 2 * Half - 1
  BY <1>1
<1>3. (x + Half) % (2 * Half) = x + Half
  BY <1>1, <1>2
<1> QED BY <1>1, <1>3 DEF ToInt

\* Converting a uint64 to int64 and back gives it again.
LEMMA RoundTrip ==
  ASSUME NEW x \in 0 .. 2 * Half - 1
  PROVE  ToUint(ToInt(x)) = x
<1>1. Half \in Nat \ {0}
  BY WidthAssumption
<1>2. CASE x < Half
  <2>1. ToInt(x) = x
    BY <1>1, <1>2, IntKept
  <2> QED BY <1>1, <2>1 DEF ToUint
<1>3. CASE x >= Half
  <2>1. x + Half = 2 * Half + (x - Half) /\ x - Half \in 0 .. 2 * Half - 1
    BY <1>1, <1>3
  <2>2. (x + Half) % (2 * Half) = x - Half
    BY <1>1, <2>1
  <2>3. ToInt(x) = x - 2 * Half
    BY <1>1, <2>2 DEF ToInt
  <2>4. (x - 2 * Half) % (2 * Half) = x
    BY <1>1
  <2> QED BY <2>3, <2>4 DEF ToUint
<1> QED BY <1>1, <1>2, <1>3

\* The seconds of an increase, or of a block, fit a Duration.
NoOverflow == \A s \in Increases \union {1, 5} : s * Second < Half

LEMMA DurationExact ==
  ASSUME NoOverflow, NEW s \in Increases \union {1, 5}
  PROVE  s \in Nat /\ Duration(s) = s * Second /\ s * Second \in Nat
<1>1. Half \in Nat \ {0} /\ Second \in Nat \ {0} /\ s \in Nat
  BY WidthAssumption, IncreasesAssumption
<1>2. s * Second \in Nat /\ s <= s * Second /\ s * Second < Half
  BY <1>1 DEF NoOverflow
<1>3. ToInt(s) = s
  BY <1>1, <1>2, IntKept
<1>4. ToInt(s * Second) = s * Second
  BY <1>1, <1>2, IntKept
<1> QED BY <1>1, <1>2, <1>3, <1>4 DEF Duration

\* The timestamp a test reads is the block time in every state, also of a chain
\* whose clock has passed the end of int64 (get_block_timestamp, app.rs:101).
THEOREM TimestampIsBlockTime == Spec => []TimestampSurvivesWrap
<1>1. TimestampSurvivesWrap
  BY RoundTrip DEF TimestampSurvivesWrap, get_block_timestamp, GetBlockTime
<1> QED BY <1>1, PTL

LEMMA DurationIsInt ==
  ASSUME NEW s \in Nat
  PROVE  Duration(s) \in Int
<1>1. Half \in Nat \ {0} /\ Second \in Nat
  BY WidthAssumption
<1>2. \A x \in Int : ToInt(x) \in Int
  BY <1>1 DEF ToInt
<1>3. ToInt(s) * Second \in Int
  BY <1>1, <1>2
<1> QED BY <1>2, <1>3 DEF Duration

\* Every variable has its type, whatever the increases overflow.
THEOREM ClockTyped == Spec => []TypeOK
<1>1. Init => TypeOK
  <2> SUFFICES ASSUME Init PROVE TypeOK
    OBVIOUS
  <2>1. created \in Nat /\ MaxHeight \in Nat \ {0} /\ Duration(5) \in Int
    BY StartAssumption, HeightAssumption, DurationIsInt DEF Init
  <2>2. open \in BOOLEAN
    BY Zenon DEF Init
  <2> QED BY <2>1, <2>2 DEF Init, TypeOK, ZeroTime
<1>2. TypeOK /\ [Next]_vars => TypeOK'
  <2> SUFFICES ASSUME TypeOK, [Next]_vars PROVE TypeOK'
    OBVIOUS
  <2>1. ASSUME NEW s \in Increases \union {1}, BeginNewBlock(s) PROVE TypeOK'
    <3>1. s \in Nat
      BY WidthAssumption, IncreasesAssumption
    <3>2. Duration(s) \in Int
      BY <3>1, DurationIsInt
    <3>3. height' \in 1 .. MaxHeight
      BY <2>1, HeightAssumption DEF BeginNewBlock, TypeOK
    <3> QED BY <2>1, <3>1, <3>2, <3>3 DEF BeginNewBlock, TypeOK
  <2>2. CASE BeginBlock
    BY <2>1, <2>2 DEF BeginBlock
  <2>3. CASE \E s \in Increases : IncreaseTime(s)
    BY <2>1, <2>3 DEF IncreaseTime
  <2>4. CASE EndBlock
    <3>1. open' \in BOOLEAN
      BY <2>4, Zenon DEF EndBlock
    <3> QED BY <2>4, <3>1 DEF EndBlock, TypeOK
  <2>5. CASE UNCHANGED vars
    BY <2>5 DEF vars, TypeOK
  <2> QED BY <2>2, <2>3, <2>4, <2>5 DEF Next
<1> QED BY <1>1, <1>2, PTL DEF Spec

\* Types, the clock, and what the last committed header can be.
ClockInv ==
  /\ TypeOK
  /\ ClockIsElapsed
  /\ committed <= time

LEMMA ClockInvariant ==
  ASSUME NoOverflow
  PROVE  Spec => []ClockInv
<1> USE WidthAssumption
<1>1. Init => ClockInv
  <2> SUFFICES ASSUME Init PROVE ClockInv
    OBVIOUS
  <2>1. Duration(5) = 5 * Second /\ 5 * Second \in Nat
    BY DurationExact
  <2>2. created \in Nat
    BY StartAssumption DEF Init
  <2>3. MaxHeight \in Nat \ {0}
    BY HeightAssumption
  <2>4. ClockIsElapsed
    BY <2>1 DEF Init, ClockIsElapsed
  <2>5. time \in Int /\ committed <= time
    BY <2>1, <2>2 DEF Init, ZeroTime
  <2>6. open \in BOOLEAN
    BY Zenon DEF Init
  <2> QED BY <2>2, <2>3, <2>4, <2>5, <2>6 DEF Init, ClockInv, TypeOK, ZeroTime
<1>2. ClockInv /\ [Next]_vars => ClockInv'
  <2> SUFFICES ASSUME ClockInv, [Next]_vars PROVE ClockInv'
    OBVIOUS
  <2> USE DEF ClockInv, TypeOK, ClockIsElapsed
  <2>1. ASSUME NEW s \in Increases \union {1}, BeginNewBlock(s) PROVE ClockInv'
    <3>1. s \in Nat /\ Duration(s) = s * Second /\ s * Second \in Nat
      BY DurationExact
    <3>2. (asked + s) * Second = asked * Second + s * Second
      BY <3>1
    <3>3. height' \in 1 .. MaxHeight
      BY <2>1, HeightAssumption DEF BeginNewBlock
    <3>4. time' = created' + asked' * Second
      BY <2>1, <3>1, <3>2 DEF BeginNewBlock
    <3> QED BY <2>1, <3>1, <3>3, <3>4 DEF BeginNewBlock
  <2>2. CASE BeginBlock
    BY <2>1, <2>2 DEF BeginBlock
  <2>3. CASE \E s \in Increases : IncreaseTime(s)
    BY <2>1, <2>3 DEF IncreaseTime
  <2>4. CASE EndBlock
    <3>1. ClockIsElapsed'
      BY <2>4 DEF EndBlock
    <3>2. open' \in BOOLEAN
      BY <2>4, Zenon DEF EndBlock
    <3> QED BY <2>4, <3>1, <3>2 DEF EndBlock
  <2>5. CASE UNCHANGED vars
    BY <2>5 DEF vars
  <2> QED BY <2>2, <2>3, <2>4, <2>5 DEF Next
<1> QED BY <1>1, <1>2, PTL DEF Spec

\* As long as the increases a test asks for fit a Duration (some 292 years each),
\* the block time is the time of creation and all the seconds asked for.
THEOREM ClockKeepsTime ==
  ASSUME NoOverflow
  PROVE  Spec => []ClockIsElapsed
<1>1. ClockInv => ClockIsElapsed
  BY DEF ClockInv
<1> QED BY <1>1, ClockInvariant, PTL

\* Under the same condition no block is committed with a time before that of the
\* block before it, which the application itself does not check.
THEOREM BlocksAreOrdered ==
  ASSUME NoOverflow
  PROVE  Spec => TimeNeverRunsBack
<1>1. ClockInv /\ [Next]_vars => [committed # ZeroTime => committed' >= committed]_vars
  <2> SUFFICES ASSUME ClockInv, Next, committed # ZeroTime
               PROVE  committed' >= committed
    OBVIOUS
  <2>1. CASE EndBlock
    BY <2>1 DEF EndBlock, ClockInv, TypeOK
  <2>2. CASE committed' = committed
    BY <2>2 DEF ClockInv, TypeOK
  <2> QED BY <2>1, <2>2 DEF Next, BeginBlock, IncreaseTime, BeginNewBlock
<1> QED BY <1>1, ClockInvariant, PTL DEF Spec, TimeNeverRunsBack
===============================================================================
