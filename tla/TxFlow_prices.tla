---------------------------- MODULE TxFlow_prices ----------------------------
(***************************************************************************)
(* Proofs about the fees of TxFlow, for any precision of floats: a fee that   *)
(* was estimated pays for the gas used, gas that was estimated suffices, and  *)
(* what the process aborts over can be seen from the committed store.        *)
(***************************************************************************)
EXTENDS TxFlow_proofs

\* A number divided and put together again.
LEMMA Division ==
  ASSUME NEW n \in Nat, NEW d \in Nat \ {0}
  PROVE  /\ n \div d \in Nat /\ n % d \in Nat
         /\ n = d * (n \div d) + (n % d) /\ n % d < d
<1> QED OBVIOUS

LEMMA Product == \A x, y \in Nat : x * y \in Nat
<1> QED OBVIOUS

\* Multiplying keeps the order.
LEMMA ProductOrder ==
  ASSUME NEW x \in Nat, NEW y \in Nat, NEW z \in Nat, x <= y
  PROVE  x * z <= y * z
<1> QED OBVIOUS

\* A natural number is rounded to one of its two neighbours among the multiples of a unit
\* in the last place, the nearer one, or not at all.
LEMMA FloatNear ==
  ASSUME NEW n \in Nat
  PROVE  \/ Float(n) = n
         \/ \E u \in UlpsOf(n) :
              /\ 2 * n >= u * Mantissa
              /\ u * (n \div u) <= Float(n)
              /\ 2 * Float(n) + u >= 2 * n
<1> DEFINE ulp  == CHOOSE u \in UlpsOf(n) : TRUE
           bits == n \div ulp
           rest == n % ulp
           up   == 2 * rest > ulp \/ (2 * rest = ulp /\ bits % 2 = 1)
<1>1. CASE UlpsOf(n) = {}
  BY <1>1 DEF Float
<1>2. CASE UlpsOf(n) # {}
  <2>1. ulp \in UlpsOf(n)
    BY <1>2
  <2>2. ulp \in Nat \ {0} /\ (ulp = 1 \/ 2 * n >= ulp * Mantissa)
    BY <2>1, UlpsAssumption DEF UlpsOf
  <2>3. Float(n) = ulp * (IF up THEN bits + 1 ELSE bits)
    BY <1>2 DEF Float
  <2> HIDE DEF ulp
  <2>4. bits \in Nat /\ rest \in Nat /\ n = ulp * bits + rest /\ rest < ulp
    BY <2>2, Division
  <2> HIDE DEF bits, rest
  <2>5. ulp * bits \in Nat /\ ulp * (bits + 1) = ulp * bits + ulp
    BY <2>2, <2>4
  <2>6. CASE ulp = 1
    <3>1. rest = 0
      BY <2>4, <2>6
    <3>2. ~up
      BY <2>6, <3>1
    <3>3. Float(n) = ulp * bits
      BY <2>3, <3>2
    <3> QED BY <2>4, <2>5, <3>1, <3>3
  <2>7. CASE ulp # 1
    <3>1. 2 * n >= ulp * Mantissa
      BY <2>2, <2>7
    <3>2. CASE up
      <4>1. Float(n) = ulp * bits + ulp
        BY <2>3, <2>5, <3>2
      <4>2. ulp * bits <= Float(n) /\ 2 * Float(n) + ulp >= 2 * n
        BY <2>2, <2>4, <2>5, <4>1
      <4> QED BY <2>1, <3>1, <4>2 DEF bits
    <3>3. CASE ~up
      <4>1. Float(n) = ulp * bits
        BY <2>3, <3>3
      <4>2. 2 * rest <= ulp
        BY <2>2, <2>4, <3>3
      <4>3. ulp * bits <= Float(n) /\ 2 * Float(n) + ulp >= 2 * n
        BY <2>2, <2>4, <2>5, <4>1, <4>2
      <4> QED BY <2>1, <3>1, <4>3 DEF bits
    <3> QED BY <3>2, <3>3
  <2> QED BY <2>6, <2>7
<1> QED BY <1>1, <1>2

\* A unit is a positive number that is less than a number over Mantissa.
LEMMA UlpBounds ==
  ASSUME NEW n \in Nat, NEW u \in UlpsOf(n)
  PROVE  /\ u \in Nat \ {0} /\ u * Mantissa \in Nat
         /\ n < u * Mantissa /\ (u = 1 \/ 2 * n >= u * Mantissa)
<1>1. u \in Nat \ {0}
  BY UlpsAssumption DEF UlpsOf
<1>2. Mantissa \in Nat
  BY MantissaAssumption
<1>3. u * Mantissa \in Nat
  BY <1>1, <1>2, Product
<1> QED BY <1>1, <1>3 DEF UlpsOf

\* Numbers below Mantissa are floats.
LEMMA FloatExact ==
  ASSUME NEW n \in Nat, n < Mantissa
  PROVE  Float(n) = n
<1> DEFINE ulp  == CHOOSE u \in UlpsOf(n) : TRUE
           bits == n \div ulp
           rest == n % ulp
           up   == 2 * rest > ulp \/ (2 * rest = ulp /\ bits % 2 = 1)
<1>1. CASE UlpsOf(n) = {}
  BY <1>1 DEF Float
<1>2. CASE UlpsOf(n) # {}
  <2>1. ulp \in UlpsOf(n)
    BY <1>2
  <2>2. Float(n) = ulp * (IF up THEN bits + 1 ELSE bits)
    BY <1>2 DEF Float
  <2> HIDE DEF ulp
  <2>3. ulp \in Nat \ {0} /\ (ulp = 1 \/ 2 * n >= ulp * Mantissa)
    BY <2>1, UlpBounds
  <2>4. ulp = 1
    <3> SUFFICES ASSUME ulp # 1 PROVE FALSE
      OBVIOUS
    <3>1. 2 <= ulp /\ Mantissa \in Nat
      BY <2>3, MantissaAssumption
    <3>2. 2 * Mantissa <= ulp * Mantissa
      BY <2>3, <3>1, ProductOrder
    <3>3. ulp * Mantissa \in Nat
      BY <2>3, <3>1, Product
    <3> QED BY <2>3, <3>1, <3>2, <3>3
  <2>5. bits = n /\ rest = 0
    BY <2>4
  <2>6. ~up
    BY <2>4, <2>5
  <2> QED BY <2>2, <2>4, <2>5, <2>6
<1> QED BY <1>1, <1>2

\* Rounding loses less than one part in Mantissa.
LEMMA FloatPrecise ==
  ASSUME NEW n \in Nat
  PROVE  Float(n) * Mantissa >= n * (Mantissa - 1)
<1>1. Mantissa \in Nat /\ Float(n) \in Nat
  BY MantissaAssumption, FloatIsNat
<1>2. n * (Mantissa - 1) = n * Mantissa - n /\ n * Mantissa \in Nat
  BY <1>1
<1>3. CASE Float(n) = n
  BY <1>2, <1>3
<1>4. ASSUME NEW u \in UlpsOf(n), 2 * n >= u * Mantissa, 2 * Float(n) + u >= 2 * n
      PROVE  Float(n) * Mantissa >= n * (Mantissa - 1)
  <2>1. u \in Nat /\ u * Mantissa \in Nat /\ Float(n) * Mantissa \in Nat
    BY <1>1, UlpBounds, Product
  <2>2. (2 * n) * Mantissa <= (2 * Float(n) + u) * Mantissa
    BY <1>1, <1>4, <2>1, ProductOrder
  <2>3. (2 * n) * Mantissa = 2 * (n * Mantissa)
    BY <1>1
  <2>4. (2 * Float(n) + u) * Mantissa = 2 * (Float(n) * Mantissa) + u * Mantissa
    BY <1>1, <2>1
  <2> QED BY <1>2, <1>4, <2>1, <2>2, <2>3, <2>4
<1> QED BY <1>3, <1>4, FloatNear

-------------------------------------------------------------------------------
(* Prices. *)

\* The amount of a fee for as much gas as a block may use is the price of that gas, to
\* the precision of two roundings, or the largest u64.
LEMMA AmountPays ==
  ASSUME NEW gas \in Nat, gas < Mantissa, NEW setting \in AutoFee
  PROVE  \/ Amount(gas, setting) * Mantissa >= setting.price * gas * (Mantissa - 2)
         \/ Amount(gas, setting) = MaxU64
<1> DEFINE p == setting.price
           q == Float(p)
           r == Float(gas * q)
           M == Mantissa
<1>1. p \in Nat /\ q \in Nat /\ gas * q \in Nat /\ r \in Nat
  <2>1. p \in Nat
    BY DEF AutoFee
  <2>2. q \in Nat
    BY <2>1, FloatIsNat
  <2>3. gas * q \in Nat
    BY <2>2, Product
  <2> QED BY <2>1, <2>2, <2>3, FloatIsNat
<1>2. M \in Nat /\ M >= 1
  BY MantissaAssumption
<1>3. Float(gas) = gas
  BY FloatExact
<1>4. Amount(gas, setting) = ToU64(r)
  BY <1>3 DEF Amount
<1>5. q * M >= p * (M - 1) /\ r * M >= (gas * q) * (M - 1)
  BY <1>1, FloatPrecise
<1> HIDE DEF p, q, r, M
<1>6. r * M >= p * gas * (M - 2)
  <2>1. M - 1 \in Nat /\ p * (M - 1) \in Nat /\ q * M \in Nat /\ r * M \in Nat
    BY <1>1, <1>2, Product
  <2>2. gas * (M - 1) \in Nat /\ p * gas \in Nat
    BY <1>1, <2>1, Product
  <2>3. (p * (M - 1)) * (gas * (M - 1)) <= (q * M) * (gas * (M - 1))
    BY <1>5, <2>1, <2>2, ProductOrder
  <2>4. (q * M) * (gas * (M - 1)) = ((gas * q) * (M - 1)) * M
    BY <1>1, <1>2
  <2>5. ((gas * q) * (M - 1)) * M <= (r * M) * M
    <3>1. (gas * q) * (M - 1) \in Nat
      BY <1>1, <2>1, Product
    <3> QED BY <1>2, <1>5, <2>1, <3>1, ProductOrder
  <2>6. (p * (M - 1)) * (gas * (M - 1)) = ((p * gas) * (M - 2)) * M + p * gas
    BY <1>1, <1>2
  <2>7. ((p * gas) * (M - 2)) * M <= (r * M) * M
    <3>1. /\ (p * (M - 1)) * (gas * (M - 1)) \in Int /\ (q * M) * (gas * (M - 1)) \in Int
          /\ (r * M) * M \in Int /\ ((p * gas) * (M - 2)) * M \in Int
      BY <1>1, <1>2
    <3> QED BY <2>2, <2>3, <2>4, <2>5, <2>6, <3>1
  <2>8. \A x, y \in Int : x * M <= y * M => x <= y
    BY <1>2
  <2>9. (p * gas) * (M - 2) \in Int /\ r * M \in Int
    BY <1>1, <1>2
  <2>10. (p * gas) * (M - 2) <= r * M
    BY <2>7, <2>8, <2>9
  <2> QED BY <2>9, <2>10
<1>7. ToU64(r) = r \/ ToU64(r) = MaxU64
  BY DEF ToU64
<1> QED BY <1>4, <1>6, <1>7 DEF p, M

-------------------------------------------------------------------------------
(* Gas limits. *)

\* Floats are binary, as f64 is: every unit in the last place divides the denominator of
\* a gas adjustment or is a multiple of its double, and Mantissa is even.
Binary(den) ==
  /\ \E half \in Nat : Mantissa = 2 * half
  /\ \A u \in Ulps : (\E k \in Nat : den = k * u) \/ 2 * den <= u

\* A number is not rounded below a float: no number of at least gas * den is, as gas * den
\* is a float itself.
LEMMA FloatAbove ==
  ASSUME NEW den \in Nat \ {0}, Binary(den), NEW gas \in Nat, gas < Mantissa,
         NEW n \in Nat, gas * den <= n
  PROVE  gas * den <= Float(n)
<1>1. CASE Float(n) = n
  BY <1>1
<1>2. ASSUME NEW u \in UlpsOf(n), 2 * n >= u * Mantissa, u * (n \div u) <= Float(n)
      PROVE  gas * den <= Float(n)
  <2> DEFINE bits == n \div u
  <2>1. u \in Nat \ {0} /\ u \in Ulps /\ Float(n) \in Nat /\ gas * den \in Nat
    BY UlpBounds, FloatIsNat, Product DEF UlpsOf
  <2>2. bits \in Nat /\ n < u * (bits + 1)
    BY <2>1, Division
  <2>3. u * bits <= Float(n)
    BY <1>2
  <2> HIDE DEF bits
  <2>4. u * bits \in Nat /\ u * (bits + 1) \in Nat
    BY <2>1, <2>2, Product
  <2>5. ASSUME NEW x \in Nat, u * x <= n PROVE u * x <= Float(n)
    <3>1. x <= bits
      <4> SUFFICES ASSUME bits + 1 <= x PROVE FALSE
        BY <2>2
      <4>1. (bits + 1) * u <= x * u
        BY <2>1, <2>2, ProductOrder
      <4> QED BY <2>1, <2>2, <2>4, <2>5, <4>1
    <3>2. x * u <= bits * u
      BY <2>1, <2>2, <3>1, ProductOrder
    <3>3. x * u \in Nat /\ x * u = u * x /\ bits * u = u * bits
      BY <2>1, <2>2, Product
    <3> QED BY <2>1, <2>3, <2>4, <3>2, <3>3
  <2>6. ASSUME NEW k \in Nat, den = k * u PROVE gas * den <= Float(n)
    <3>1. gas * den = u * (gas * k) /\ gas * k \in Nat
      BY <2>1, <2>6, Product
    <3> QED BY <2>5, <3>1
  <2>7. ASSUME 2 * den <= u PROVE gas * den <= Float(n)
    <3>1. PICK half \in Nat : Mantissa = 2 * half
      BY DEF Binary
    <3>2. u * Mantissa = 2 * (u * half) /\ u * half \in Nat
      BY <2>1, <3>1, Product
    <3>3. u * half <= n
      BY <1>2, <3>2
    <3>4. u * half <= Float(n)
      BY <2>5, <3>3
    <3>5. (2 * den) * half <= u * half
      BY <2>1, <2>7, <3>1, ProductOrder
    <3>6. (2 * den) * half = Mantissa * den /\ Mantissa * den \in Nat
      BY <2>1, <3>1, Product
    <3>7. gas * den <= Mantissa * den
      BY <3>1, ProductOrder
    <3> QED BY <2>1, <3>2, <3>4, <3>5, <3>6, <3>7
  <2> QED BY <2>1, <2>6, <2>7 DEF Binary
<1> QED BY <1>1, <1>2, FloatNear

\* With an adjustment of at least 1, the gas limit is at least the gas of the simulation.
LEMMA LimitSuffices ==
  ASSUME NEW gas \in Nat, gas < Mantissa, gas <= MaxU64, NEW setting \in AutoFee,
         Binary(setting.den), setting.num >= setting.den
  PROVE  gas <= GasLimit(gas, setting)
<1> DEFINE f == Float(gas * setting.num)
<1>1. setting.num \in Nat /\ setting.den \in Nat \ {0}
  BY DEF AutoFee
<1>2. gas * setting.num \in Nat /\ gas * setting.den \in Nat
  BY <1>1, Product
<1>3. gas * setting.den <= gas * setting.num
  <2>1. setting.den * gas <= setting.num * gas
    BY <1>1, ProductOrder
  <2> QED BY <1>1, <2>1
<1>4. gas * setting.den <= f /\ f \in Nat
  BY <1>1, <1>2, <1>3, FloatAbove, FloatIsNat
<1>5. GasLimit(gas, setting) = ToU64(CeilDiv(f, setting.den))
  BY FloatExact DEF GasLimit
<1> HIDE DEF f
<1>6. gas <= CeilDiv(f, setting.den)
  <2> DEFINE d == setting.den
             n == f + d - 1
             c == n \div d
  <2>1. d \in Nat \ {0} /\ n \in Nat
    BY <1>1, <1>4
  <2>2. gas * d <= n
    BY <1>1, <1>2, <1>4
  <2> HIDE DEF d, n
  <2>3. c \in Nat /\ n = d * c + (n % d) /\ n % d < d /\ n % d \in Nat
    BY <2>1, Division
  <2> HIDE DEF c
  <2>4. gas <= c
    <3> SUFFICES ASSUME c + 1 <= gas PROVE FALSE
      BY <2>3
    <3>1. (c + 1) * d <= gas * d
      BY <2>1, <2>3, ProductOrder
    <3>2. (c + 1) * d = d * c + d /\ d * c \in Nat /\ gas * d \in Nat
      BY <2>1, <2>3, Product
    <3> QED BY <2>1, <2>2, <2>3, <3>1, <3>2
  <2> QED BY <2>4 DEF CeilDiv, c, n, d
<1>7. CeilDiv(f, setting.den) \in Nat
  <2>1. f + setting.den - 1 \in Nat
    BY <1>1, <1>4
  <2> QED BY <1>1, <2>1 DEF CeilDiv
<1> QED BY <1>5, <1>6, <1>7, LimitsAssumption DEF ToU64

-------------------------------------------------------------------------------
(* The fee of a transaction on its way. *)

\* The strengthening of IInv and Terms: the sequence a transaction was signed with is still
\* the signer's when it is delivered, and one that was delivered had gas enough.
Priced ==
  /\ phase = "deliver" => signed.seq = fin.seq[job.signer]
  /\ phase = "end" /\ outcome # "err" =>
       /\ GasUsed(fin.load + now, job.tx) <= signed.fee.gas /\ signed.fee.gas <= MaxGas
       /\ Estimated => signed.fee.amount = Amount(signed.fee.gas, job.setting)

LEMMA InitPriced == Init => Priced
  BY DEF Init, Priced

\* An estimate ends an operation with an Err only.
LEMMA EstimatePriced ==
  ASSUME IInv, Priced, Estimate
  PROVE  Priced'
<1>1. phase = "estimate"
  BY DEF Estimate, In
<1>2. ASSUME fin.balance[job.signer] = NoAccount PROVE Priced'
  BY <1>1, <1>2 DEF Estimate, Abort, Priced
<1>3. ASSUME fin.balance[job.signer] # NoAccount PROVE Priced'
  <2>1. PICK load \in Seen : Answer(load)
    BY <1>3 DEF Estimate
  <2> DEFINE good == Accepts(root, load + last, job.signer, fin.seq[job.signer],
                             default_simulation_fee.amount, job.tx)
  <2>2. After(good) /\ outcome' = IF good THEN outcome ELSE "err"
    BY <2>1 DEF Answer
  <2> HIDE DEF good
  <2>3. phase' # "deliver" /\ (phase' = "end" => outcome' = "err")
    BY <2>2 DEF After, Step
  <2> QED BY <2>3 DEF Priced
<1> QED BY <1>2, <1>3

LEMMA SignPriced ==
  ASSUME IInv, Priced, Sign
  PROVE  Priced'
<1>1. phase = "sign"
  BY DEF Sign, In
<1>2. ASSUME fin.balance[job.signer] = NoAccount PROVE Priced'
  BY <1>1, <1>2 DEF Sign, Abort, Priced
<1>3. ASSUME fin.balance[job.signer] # NoAccount PROVE Priced'
  <2>1. /\ signed' = [seq |-> fin.seq[job.signer], fee |-> fee]
        /\ phase' = "deliver"
        /\ UNCHANGED <<chain, job>>
    BY <1>3 DEF Sign, Step
  <2> QED BY <2>1 DEF Priced, chain
<1> QED BY <1>2, <1>3

LEMMA DeliverPriced ==
  ASSUME IInv, Terms, Priced, Deliver
  PROVE  Priced'
<1> DEFINE s    == job.signer
           used == GasUsed(fin.load + now, job.tx)
<1>1. phase = "deliver" /\ phase # "idle" /\ signed.fee = fee
  BY DEF Deliver, In, IInv, Progress
<1>2. ASSUME NEW why, Abort(why) PROVE Priced'
  BY <1>1, <1>2 DEF Abort, Priced, Estimated, chain
<1>3. ASSUME Objections = {},
             fin' = [fin EXCEPT !.balance[s] = @ - signed.fee.amount,
                                !.pool = @ + signed.fee.amount,
                                !.seq[s] = @ + 1,
                                !.messages = @ + job.tx.count],
             outcome' \in Answers, Step("end"),
             UNCHANGED <<saved, root, last, now, peeked, blocks, job, fee, signed>>
      PROVE  Priced'
  <2>1. fin'.load = fin.load
    BY <1>3 DEF IInv, TypeOK, Store
  <2>2. "limit" \notin Objections /\ "gas" \notin Objections
    BY <1>3
  <2>3. ~(signed.fee.gas > MaxGas) /\ ~(used > signed.fee.gas)
    BY <2>2 DEF Objections
  <2>4. signed.fee.gas \in Nat /\ MaxGas \in Nat /\ used \in Nat
    BY <1>1, JobIsTyped, LimitsAssumption, TimesAssumption
    DEF IInv, TypeOK, Fee, Store, GasUsed
  <2>5. signed.fee.gas <= MaxGas /\ used <= signed.fee.gas
    BY <2>3, <2>4
  <2>6. Estimated => signed.fee.amount = Amount(signed.fee.gas, job.setting)
    BY <1>1 DEF Terms, DueOn, Estimated, FeeFor
  <2>7. Estimated' = Estimated
    BY <1>3 DEF Estimated
  <2> QED BY <1>3, <2>1, <2>5, <2>6, <2>7 DEF Priced, Step, GasUsed
<1> QED BY <1>2, <1>3 DEF Deliver

LEMMA StepPriced == IInv /\ Terms /\ Priced /\ [Next]_vars => Priced'
<1> SUFFICES ASSUME IInv, Terms, Priced, [Next]_vars PROVE Priced'
  OBVIOUS
<1>1. ASSUME \/ EndBlock
             \/ \E s \in Signers :
                  \/ \E c \in Coins : InitAccount(s, c)
                  \/ \E setting \in Settings, tx \in Requests :
                       Execute(s, setting, tx) \/ SimulateTx(s, setting, tx)
      PROVE  Priced'
  <2>1. phase' \in {"idle", "estimate", "sign"}
    BY <1>1 DEF EndBlock, InitAccount, Execute, SimulateTx, In, Step
  <2> QED BY <2>1 DEF Priced
<1>2. CASE UNCHANGED vars
  BY <1>2 DEF vars, chain, Priced, Estimated
<1> QED BY <1>1, <1>2, EstimatePriced, SignPriced, DeliverPriced DEF Next

LEMMA PricedAlways == Spec => [](IInv /\ Terms /\ Priced)
<1>1. IInv /\ Terms /\ [Next]_vars => IInv' /\ Terms'
  BY StepIInv, StepTerms
<1> QED BY InitIInv, InitTerms, InitPriced, <1>1, StepPriced, PTL DEF Spec

-------------------------------------------------------------------------------
\* A transaction that is delivered has paid for the gas it used, for any precision of
\* floats, whatever the blockers did and whatever load its fee was estimated for.
THEOREM FeesCoverGas == Spec => []FeeCoversGas
<1>1. ASSUME IInv, Priced PROVE FeeCoversGas
  <2> DEFINE used == GasUsed(fin.load + now, job.tx)
  <2> SUFFICES ASSUME phase = "end", outcome # "err", Estimated
               PROVE  \/ signed.fee.amount * Mantissa
                           >= job.setting.price * used * (Mantissa - 2)
                      \/ signed.fee.amount = MaxU64
    BY DEF FeeCoversGas, In
  <2> DEFINE gas  == signed.fee.gas
             p    == job.setting.price
             a    == signed.fee.amount
  <2>1. /\ used <= gas /\ gas <= MaxGas
        /\ a = Amount(gas, job.setting)
    BY <1>1 DEF Priced
  <2>2. /\ gas \in Nat /\ a \in Nat /\ used \in Nat /\ MaxGas \in Nat
        /\ Mantissa \in Nat /\ Mantissa >= 1 /\ gas < Mantissa
    <3>1. gas \in Nat /\ a \in Nat /\ MaxGas \in Nat /\ Mantissa \in Nat /\ MaxGas < Mantissa
      BY <1>1, LimitsAssumption, MantissaAssumption DEF IInv, TypeOK, Fee
    <3>2. used \in Nat
      BY <1>1, JobIsTyped, TimesAssumption DEF IInv, TypeOK, Store, GasUsed
    <3> QED BY <2>1, <3>1, <3>2
  <2>3. job.setting \in AutoFee
    BY <1>1, JobIsTyped, SettingsAssumption DEF Estimated, CustomFee
  <2>4. p \in Nat
    BY <2>3 DEF AutoFee
  <2>5. a = MaxU64 \/ a * Mantissa >= p * gas * (Mantissa - 2)
    BY <2>1, <2>2, <2>3, AmountPays
  <2> HIDE DEF gas, used, p, a
  <2>6. ASSUME a * Mantissa >= p * gas * (Mantissa - 2)
        PROVE  a * Mantissa >= p * used * (Mantissa - 2)
    <3>1. CASE Mantissa = 1
      <4>1. p * used \in Nat /\ a * Mantissa \in Nat
        BY <2>2, <2>4, Product
      <4> QED BY <3>1, <4>1
    <3>2. CASE Mantissa # 1
      <4>1. Mantissa - 2 \in Nat
        BY <2>2, <3>2
      <4>2. p * (Mantissa - 2) \in Nat
        BY <2>4, <4>1, Product
      <4>3. used * (p * (Mantissa - 2)) <= gas * (p * (Mantissa - 2))
        BY <2>1, <2>2, <4>2, ProductOrder DEF used, gas
      <4>4. /\ used * (p * (Mantissa - 2)) = p * used * (Mantissa - 2)
            /\ gas * (p * (Mantissa - 2)) = p * gas * (Mantissa - 2)
        BY <2>2, <2>4, <4>1
      <4>5. p * used * (Mantissa - 2) \in Int /\ p * gas * (Mantissa - 2) \in Int
            /\ a * Mantissa \in Int
        BY <2>2, <2>4
      <4> QED BY <2>6, <4>3, <4>4, <4>5
    <3> QED BY <3>1, <3>2
  <2> QED BY <2>5, <2>6 DEF used, p, a
<1> QED BY <1>1, PricedAlways, PTL

\* The gas of every request is a float and a u64, under every load.
GasFits ==
  \A tx \in Requests, load \in Loads, time \in Times :
    GasUsed(load + time, tx) < Mantissa /\ GasUsed(load + time, tx) <= MaxU64

\* With binary floats and gas below 2^53, what the simulation has accepted is refused
\* over gas, messages or the sequence only when the time has changed the load, or an
\* earlier simulation has kept another from before the block.
THEOREM EstimatesForesee ==
  ASSUME GasFits, \A setting \in Settings \cap AutoFee : Binary(setting.den)
  PROVE  Spec => []EstimateForesees
<1>1. Init => EstimateForesees
  BY DEF Init, EstimateForesees
<1>2. ASSUME IInv, Terms, Priced, EstimateForesees, [Next]_vars PROVE EstimateForesees'
  <2>1. ASSUME Deliver PROVE EstimateForesees'
    <3> DEFINE load == fin.load + now
               tx   == job.tx
    <3>1. phase = "deliver" /\ phase # "idle" /\ crash = "none" /\ signed.fee = fee
      BY <1>2, <2>1 DEF Deliver, In, IInv, Progress
    <3>2. ASSUME UNCHANGED crash PROVE EstimateForesees'
      BY <3>1, <3>2 DEF EstimateForesees
    <3>3. ASSUME NEW why \in Objections, Abort(why), Estimated, Generous,
                 now = last, ~(peeked /\ fin.load # saved.load)
          PROVE  why \in {"account", "funds", "limit"}
      <4>1. PICK known \in Seen :
              fee = DueOn(known) /\ (job.setting.kind = "auto" => RunsOn(known))
        BY <1>2, <3>1 DEF Terms
      <4>2. known = fin.load /\ fin.load \in Loads
        BY <1>2, <3>3 DEF Terms, Seen
      <4>3. /\ fee = FeeFor(GasUsed(load, tx), job.setting)
            /\ load <= tx.bears
        BY <3>3, <4>1, <4>2 DEF DueOn, RunsOn, Estimated
      <4>4. why # "sequence"
        <5>1. signed.seq = fin.seq[job.signer]
          BY <1>2, <3>1 DEF Priced
        <5> QED BY <3>3, <5>1 DEF Objections, Refusals
      <4>5. job.setting \in AutoFee /\ job.setting \in Settings /\ tx \in Requests
            /\ tx \in Request
        BY <1>2, <3>1, <3>3, JobIsTyped, SettingsAssumption, RequestsAssumption
        DEF Estimated, CustomFee
      <4>6. load \in Nat /\ tx.bears \in Nat /\ GasUsed(load, tx) \in Nat
        <5>1. fin.load \in Nat /\ now \in Nat
          BY <1>2, TimesAssumption DEF IInv, TypeOK, Store
        <5>2. tx.gas \in Nat /\ tx.bears \in Nat
          BY <4>5 DEF Request
        <5> QED BY <5>1, <5>2 DEF GasUsed
      <4>7. why # "messages"
        <5>1. ~(load > tx.bears)
          BY <4>3, <4>6
        <5> QED BY <3>3, <5>1 DEF Objections, Refusals
      <4>8. why # "gas"
        <5> DEFINE gas == GasUsed(load, tx)
        <5>1. gas < Mantissa /\ gas <= MaxU64
          BY <1>2, <4>2, <4>5 DEF GasFits, IInv, TypeOK
        <5>2. Binary(job.setting.den) /\ job.setting.num >= job.setting.den
          BY <3>3, <4>5 DEF Generous
        <5>3. gas <= GasLimit(gas, job.setting)
          BY <4>5, <4>6, <5>1, <5>2, LimitSuffices
        <5>4. signed.fee.gas = GasLimit(gas, job.setting)
          BY <3>1, <4>3 DEF FeeFor
        <5>5. signed.fee.gas \in Nat
          BY <1>2 DEF IInv, TypeOK, Fee
        <5>6. ~(gas > signed.fee.gas)
          BY <4>6, <5>3, <5>4, <5>5
        <5> QED BY <3>3, <5>6 DEF Objections, Refusals
      <4> QED BY <3>3, <4>4, <4>7, <4>8 DEF Objections, Refusals
    <3>4. ASSUME NEW why \in Objections, Abort(why) PROVE EstimateForesees'
      <4>1. crash' = why /\ UNCHANGED <<chain, job>>
        BY <3>4 DEF Abort
      <4>2. Estimated' = Estimated /\ Generous' = Generous
        BY <4>1 DEF Estimated, Generous
      <4> QED BY <3>3, <3>4, <4>1, <4>2 DEF EstimateForesees, chain
    <3> QED BY <2>1, <3>2, <3>4 DEF Deliver, Step
  <2>2. ASSUME Estimate \/ Sign PROVE EstimateForesees'
    <3>1. crash' \in {"none", "account"}
      BY <2>2 DEF Estimate, Answer, Sign, In, After, Step, Abort
    <3> QED BY <3>1 DEF EstimateForesees
  <2>3. ASSUME \/ EndBlock
               \/ \E s \in Signers :
                    \/ \E c \in Coins : InitAccount(s, c)
                    \/ \E setting \in Settings, tx \in Requests :
                         Execute(s, setting, tx) \/ SimulateTx(s, setting, tx)
        PROVE  EstimateForesees'
    <3>1. crash' = "none"
      BY <2>3 DEF EndBlock, InitAccount, Execute, SimulateTx, In, Step
    <3> QED BY <3>1 DEF EstimateForesees
  <2>4. CASE UNCHANGED vars
    BY <1>2, <2>4 DEF vars, chain, EstimateForesees, Estimated, Generous
  <2> QED BY <1>2, <2>1, <2>2, <2>3, <2>4 DEF Next
<1> QED BY <1>1, <1>2, PricedAlways, PTL DEF Spec

-------------------------------------------------------------------------------
\* What says so where the process aborts: the committed store, the load of the block and
\* what is due under a load that the check state may have.
Grounds(why) ==
  LET balance == saved.balance[job.signer]
      load    == fin.load + now
  IN /\ why # "sequence"
     /\ why = "account" => balance = NoAccount
     /\ why \notin {"none", "account"} =>
          \E known \in Seen :
            /\ Estimated => RunsOn(known)
            /\ why = "funds"    => balance < DueOn(known).amount
            /\ why = "limit"    => DueOn(known).gas > MaxGas
            /\ why = "messages" => load > job.tx.bears
            /\ why = "gas"      => GasUsed(load, job.tx) > DueOn(known).gas

\* Grounds is what the property asks for, for the reason of the abort.
LEMMA GroundsAreTheProperty ==
  ASSUME Terms
  PROVE  AbortsHaveGrounds <=> Grounds(crash)
<1>1. Atomic!Known(fin.load) = Seen
  BY SameLoads
<1> QED BY <1>1, SameTerms DEF AbortsHaveGrounds, Grounds

\* They stay after the abort.
LEMMA AbortOnGrounds ==
  ASSUME NEW why, Abort(why), Grounds(why)
  PROVE  Grounds(crash)'
<1>1. crash' = why /\ UNCHANGED <<chain, job>>
  BY DEF Abort
<1>2. \A known : DueOn(known)' = DueOn(known) /\ (RunsOn(known)' <=> RunsOn(known))
  BY <1>1, SameDue DEF chain
<1>3. Seen' = Seen /\ Estimated' = Estimated
  BY <1>1 DEF Seen, Estimated, chain
<1> QED BY <1>1, <1>2, <1>3 DEF Grounds, GasUsed, chain

LEMMA NoAbortNoGrounds ==
  ASSUME crash' = "none"
  PROVE  Grounds(crash)'
  BY DEF Grounds

\* The process aborts over nothing that the committed store, the load of the block and what
\* is due do not show, for any signers, settings and requests and any precision of floats.
THEOREM AbortsAreForeseeable == Spec => []AbortsHaveGrounds
<1>1. Init => Grounds(crash)
  BY DEF Init, Grounds
<1>2. ASSUME IInv, Terms, Priced, Grounds(crash), [Next]_vars
      PROVE  Grounds(crash)'
  <2>1. ASSUME Estimate \/ Sign PROVE Grounds(crash)'
    <3>1. phase \in {"estimate", "sign"} /\ crash = "none"
      BY <2>1 DEF Estimate, Sign, In
    <3>2. CASE fin.balance[job.signer] = NoAccount
      <4>1. Untouched
        BY <1>2, <3>1 DEF IInv, Progress
      <4>2. Abort("account")
        BY <2>1, <3>2 DEF Estimate, Sign
      <4>3. Grounds("account")
        BY <3>2, <4>1 DEF Grounds, Untouched, AsSaved
      <4> QED BY <4>2, <4>3, AbortOnGrounds
    <3>3. CASE fin.balance[job.signer] # NoAccount
      <4>1. crash' = "none"
        BY <2>1, <3>1, <3>3 DEF Estimate, Answer, Sign, After, Step
      <4> QED BY <4>1, NoAbortNoGrounds
    <3> QED BY <3>2, <3>3
  <2>2. ASSUME Deliver PROVE Grounds(crash)'
    <3> DEFINE s == job.signer
    <3>1. phase = "deliver" /\ crash = "none"
      BY <2>2 DEF Deliver, In
    <3>2. /\ Untouched /\ signed.fee = fee /\ signed.seq = fin.seq[s]
      BY <1>2, <3>1 DEF IInv, Progress, Priced
    <3>3. PICK known \in Seen :
            fee = DueOn(known) /\ (job.setting.kind = "auto" => RunsOn(known))
      BY <1>2, <3>1 DEF Terms
    <3>4. ASSUME NEW why \in Objections PROVE Grounds(why)
      <4>1. why # "sequence"
        BY <3>2, <3>4 DEF Objections, Refusals
      <4>2. why = "account" => saved.balance[s] = NoAccount
        BY <3>2, <3>4 DEF Objections, Refusals, Untouched, AsSaved
      <4>3. why = "funds" => saved.balance[s] < DueOn(known).amount
        BY <3>2, <3>3, <3>4 DEF Objections, Refusals, Untouched, AsSaved
      <4>4. why = "limit" => DueOn(known).gas > MaxGas
        BY <3>2, <3>3, <3>4 DEF Objections, Refusals
      <4>5. why = "messages" => fin.load + now > job.tx.bears
        BY <3>4 DEF Objections, Refusals
      <4>6. why = "gas" => GasUsed(fin.load + now, job.tx) > DueOn(known).gas
        BY <3>2, <3>3, <3>4 DEF Objections, Refusals
      <4>7. Estimated => RunsOn(known)
        BY <3>3 DEF Estimated
      <4> QED BY <3>3, <4>1, <4>2, <4>3, <4>4, <4>5, <4>6, <4>7 DEF Grounds
    <3>5. ASSUME NEW why \in Objections, Abort(why) PROVE Grounds(crash)'
      BY <3>4, <3>5, AbortOnGrounds
    <3>6. ASSUME UNCHANGED crash PROVE Grounds(crash)'
      BY <3>1, <3>6, NoAbortNoGrounds
    <3> QED BY <2>2, <3>5, <3>6 DEF Deliver, Step
  <2>3. ASSUME \/ EndBlock
               \/ \E s \in Signers :
                    \/ \E c \in Coins : InitAccount(s, c)
                    \/ \E setting \in Settings, tx \in Requests :
                         Execute(s, setting, tx) \/ SimulateTx(s, setting, tx)
        PROVE  Grounds(crash)'
    <3>1. crash' = "none"
      BY <2>3 DEF EndBlock, InitAccount, Execute, SimulateTx, In, Step
    <3> QED BY <3>1, NoAbortNoGrounds
  <2>4. ASSUME UNCHANGED vars PROVE Grounds(crash)'
    <3>1. UNCHANGED <<chain, job, crash>>
      BY <2>4 DEF vars
    <3>2. \A known : DueOn(known)' = DueOn(known) /\ (RunsOn(known)' <=> RunsOn(known))
      BY <3>1, SameDue DEF chain
    <3>3. Seen' = Seen /\ Estimated' = Estimated
      BY <3>1 DEF Seen, Estimated, chain
    <3> QED BY <1>2, <3>1, <3>2, <3>3 DEF Grounds, GasUsed, chain
  <2> QED BY <1>2, <2>1, <2>2, <2>3, <2>4 DEF Next
<1> QED BY <1>1, <1>2, GroundsAreTheProperty, PricedAlways, PTL DEF Spec
===============================================================================
