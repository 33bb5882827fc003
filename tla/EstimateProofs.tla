--------------------------- MODULE EstimateProofs ---------------------------
(***************************************************************************)
(* Proofs about the estimate of a fee and its validation, for every price,  *)
(* table, gas and precision: the guard rails hold, a quote is accepted, and *)
(* what a transaction pays is what the table asks.                          *)
(***************************************************************************)
EXTENDS FeesProofs

\* The guard rails keep an amount between the two gas prices, whatever its sign.
LEMMA GuardRailsBound ==
    ASSUME NEW csv \in Int, NEW gas \in Nat \ {0}, NEW min \in Int, NEW max \in Int,
           0 < min, min <= max
    PROVE  LET c == ApplyGuardRails(csv, gas, min, max)
           IN  min * gas <= c /\ c < (max + 1) * gas
<1>1. \A x, y \in Int : x <= y => x * gas <= y * gas
  BY SMTT(30)
<1>2. min * gas \in Int /\ max * gas \in Int /\ (max + 1) * gas = max * gas + gas
  BY SMTT(30)
<1>3. min * gas <= max * gas
  BY <1>1
<1>4. CASE csv < 0
  <2>1. (-csv) \div gas \in Nat
    BY <1>4, SMTT(30)
  <2>2. GasPrice(csv, gas) = -((-csv) \div gas)
    BY <1>4 DEF GasPrice
  <2>3. GasPrice(csv, gas) < min /\ ~(GasPrice(csv, gas) > max)
    BY <2>1, <2>2
  <2>4. ApplyGuardRails(csv, gas, min, max) = min * gas
    BY <2>3 DEF ApplyGuardRails
  <2>5. QED
    BY <1>2, <1>3, <2>4
<1>5. CASE csv >= 0
  <2> DEFINE g == csv \div gas
  <2>1. g \in Int /\ g * gas <= csv /\ csv < g * gas + gas
    BY <1>5, SMTT(30)
  <2>2. GasPrice(csv, gas) = g
    BY <1>5 DEF GasPrice
  <2> HIDE DEF g
  <2>3. CASE g > max
    BY <1>2, <1>3, <2>2, <2>3 DEF ApplyGuardRails
  <2>4. CASE g < min
    BY <1>2, <1>3, <2>2, <2>4 DEF ApplyGuardRails
  <2>5. CASE min <= g /\ g <= max
    <3>1. ApplyGuardRails(csv, gas, min, max) = csv
      BY <2>2, <2>1, <2>5 DEF ApplyGuardRails
    <3>2. min * gas <= g * gas /\ g * gas <= max * gas /\ g * gas \in Int
      BY <1>1, <2>1, <2>5
    <3>3. QED
      BY <1>2, <2>1, <3>1, <3>2
  <2>6. QED
    BY <2>1, <2>3, <2>4, <2>5
<1>6. QED
  BY <1>4, <1>5

\* An estimate that is not free is the guarded conversion of a row of the table.
LEMMA EstimateLemma ==
    ASSUME NEW p \in ParamType, NEW price \in Int, NEW cat \in Categories, NEW gas \in Nat
    PROVE  LET est == EstimateFee(p, price, cat, gas)
           IN  /\ est.free \in BOOLEAN /\ (est.free => est.csv = 0)
               /\ ~est.free => \E csv \in Int :
                     est.csv = ApplyGuardRails(csv, gas, p.min, p.max)
<1> DEFINE row == EstimateRow(cat)
           usd == p.table[row].usd
           csv == ConvertUSDToCSV(usd, price)
<1>1. row \in Rows
  BY DEF EstimateRow, Rows, Categories
<1> HIDE DEF row
<1>2. usd \in Int
  BY <1>1 DEF ParamType, Split
<1> HIDE DEF usd
<1>3. csv \in Int
  BY <1>2, ConvertType
<1> HIDE DEF csv
<1> DEFINE est == EstimateFee(p, price, cat, gas)
<1>4. \/ est = [ok |-> TRUE, free |-> TRUE, csv |-> 0]
      \/ est = [ok |-> gas <= MaxGasForFreeCategory(p, cat), free |-> TRUE, csv |-> 0]
      \/ est = [ok |-> TRUE, free |-> FALSE, csv |-> ApplyGuardRails(csv, gas, p.min, p.max)]
  BY DEF EstimateFee, row, usd, csv
<1> HIDE DEF est
<1>5. \/ est.free = TRUE /\ est.csv = 0
      \/ est.free = FALSE /\ est.csv = ApplyGuardRails(csv, gas, p.min, p.max)
  BY <1>4
<1>6. /\ est.free \in BOOLEAN /\ (est.free => est.csv = 0)
      /\ ~est.free => \E c \in Int : est.csv = ApplyGuardRails(c, gas, p.min, p.max)
  BY <1>3, <1>5
<1>7. QED
  BY <1>6 DEF est

\* The fee built from an estimate that is not negative passes its own validation.
LEMMA BuiltFeeValid ==
    ASSUME NEW est, est.free \in BOOLEAN, est.csv \in Nat
    PROVE  ValidateFeeAgainstEstimate(BuildFeeFromEstimate(est), est)
<1> DEFINE expected == BuildFeeFromEstimate(est)
           amount == TruncateInt(est.csv * Micro)
<1>1. est.csv * Micro \in Nat
  BY MicroAssumption, SMTT(30)
<1>2. amount \in Nat
  BY <1>1, TruncateIntBounds
<1> HIDE DEF amount
<1>3. expected \in Nat /\ (est.free => expected = 0)
  BY <1>2 DEF BuildFeeFromEstimate, amount
<1> HIDE DEF expected
<1>4. Tolerance * expected \in Nat
  <2>1. Tolerance \in Nat
    BY PrecAssumption, SMTT(30) DEF Tolerance
  <2>2. QED
    BY <1>3, <2>1, SMTT(30)
<1>5. TruncateInt(Tolerance * expected) \in Nat
  BY <1>4, TruncateIntBounds
<1>6. Abs(expected - expected) = 0
  BY <1>3 DEF Abs
<1>7. \/ est.free /\ expected = 0
      \/ ~est.free /\ (\/ expected = 0
                       \/ /\ expected # 0
                          /\ Abs(expected - expected) <= TruncateInt(Tolerance * expected))
  BY <1>3, <1>5, <1>6
<1>8. ValidateFeeAgainstEstimate(expected, est)
  BY <1>7 DEF ValidateFeeAgainstEstimate, expected
<1>9. QED
  BY <1>8 DEF expected

\* The guard rails hold whatever the oracle's price: the first answer of an unguarded
\* feed may be negative, and yet no estimate leaves the range of the params.
THEOREM GuardRailsAlwaysHold == Spec => []GuardRailsHold
<1>1. TypeOK => GuardRailsHold
  <2> SUFFICES ASSUME TypeOK, params # NoParams, 0 < params.min, params.min <= params.max,
                      NEW cat \in Categories, NEW gas \in Gases \ {0},
                      ~EstimateFee(params, csvPerUSD, cat, gas).free
               PROVE  LET est == EstimateFee(params, csvPerUSD, cat, gas)
                      IN  params.min * gas <= est.csv /\ est.csv < (params.max + 1) * gas
    BY DEF GuardRailsHold
  <2>1. params \in ParamType /\ csvPerUSD \in Int /\ params.min \in Int /\ params.max \in Int
    BY DEF TypeOK, ParamType
  <2>2. gas \in Nat \ {0}
    BY FeesAssumption DEF Gases, TxType
  <2>3. PICK csv \in Int : EstimateFee(params, csvPerUSD, cat, gas).csv
                              = ApplyGuardRails(csv, gas, params.min, params.max)
    BY <2>1, <2>2, EstimateLemma
  <2>4. QED
    BY <2>1, <2>2, <2>3, GuardRailsBound
<1>2. QED
  BY <1>1, TypeCorrect, PTL

\* For every precision, table, category, gas and price the fee a wallet builds is the
\* fee the ante handler accepts.
THEOREM QuoteAlwaysAccepted == Spec => []QuoteAccepted
<1>1. TypeOK => QuoteAccepted
  <2> SUFFICES ASSUME TypeOK, params # NoParams,
                      NEW cat \in Categories, NEW gas \in Gases,
                      EstimateFee(params, csvPerUSD, cat, gas).csv >= 0
               PROVE  LET est == EstimateFee(params, csvPerUSD, cat, gas)
                      IN  ValidateFeeAgainstEstimate(BuildFeeFromEstimate(est), est)
    BY DEF QuoteAccepted
  <2> DEFINE est == EstimateFee(params, csvPerUSD, cat, gas)
  <2>1. params \in ParamType /\ csvPerUSD \in Int /\ params.min \in Int /\ params.max \in Int
    BY DEF TypeOK, ParamType
  <2>2. gas \in Nat
    BY FeesAssumption DEF Gases, TxType
  <2>3. /\ est.free \in BOOLEAN /\ (est.free => est.csv = 0)
        /\ ~est.free => \E csv \in Int :
              est.csv = ApplyGuardRails(csv, gas, params.min, params.max)
    BY <2>1, <2>2, EstimateLemma
  <2>4. est.csv >= 0
    OBVIOUS
  <2> HIDE DEF est
  <2>5. ASSUME NEW csv \in Int
        PROVE  ApplyGuardRails(csv, gas, params.min, params.max) \in Int
    BY <2>1, <2>2 DEF ApplyGuardRails
  <2>6. est.csv \in Nat
    BY <2>3, <2>4, <2>5
  <2>7. ValidateFeeAgainstEstimate(BuildFeeFromEstimate(est), est)
    BY <2>3, <2>6, BuiltFeeValid
  <2>8. QED
    BY <2>7 DEF est
<1>2. QED
  BY <1>1, TypeCorrect, PTL
-----------------------------------------------------------------------------
(* What a transaction pays.                                                 *)

\* The amount kept within the guard rails, as the table's reader would compute it.
Clamped(csv, gas, min, max) ==
    IF gas = 0 THEN csv
    ELSE IF csv > max * gas THEN max * gas ELSE IF csv < min * gas THEN min * gas ELSE csv

\* The code compares gas prices, whose fraction is dropped, instead of amounts: this
\* lets through less than one unit per gas above the maximum, and with a minimum of zero
\* a price that is negative and close to zero.
LEMMA GuardRailsClamp ==
    ASSUME NEW csv \in Int, NEW gas \in Nat, NEW min \in Int, NEW max \in Int,
           0 <= min, min <= max
    PROVE  LET c == ApplyGuardRails(csv, gas, min, max)
               d == Clamped(csv, gas, min, max)
           IN  /\ c \in Int /\ d \in Int
               /\ \/ c < 0 /\ d <= 0
                  \/ 0 <= d /\ d <= c /\ c <= d + gas
<1>1. CASE gas = 0
  BY <1>1 DEF ApplyGuardRails, Clamped
<1>2. CASE gas # 0
  <2>1. gas \in Nat \ {0}
    BY <1>2
  <2>2. \A x, y \in Int : x <= y => x * gas <= y * gas
    BY <2>1, SMTT(30)
  <2>3. /\ min * gas \in Int /\ max * gas \in Int /\ (max + 1) * gas = max * gas + gas
        /\ 0 * gas = 0
    BY <2>1, SMTT(30)
  <2>4. 0 <= min * gas /\ min * gas <= max * gas
    BY <2>2, <2>3
  <2> DEFINE lo == min * gas
             hi == max * gas
             gp == GasPrice(csv, gas)
             c  == ApplyGuardRails(csv, gas, min, max)
             d  == Clamped(csv, gas, min, max)
  <2>5. /\ c = IF gp > max THEN hi ELSE IF gp < min THEN lo ELSE csv
        /\ d = IF csv > hi THEN hi ELSE IF csv < lo THEN lo ELSE csv
    BY <1>2 DEF ApplyGuardRails, Clamped
  <2>6. CASE csv < 0
    <3>1. (-csv) \div gas \in Nat
      BY <2>1, <2>6, SMTT(30)
    <3>2. gp \in Int /\ gp <= 0
      BY <2>6, <3>1 DEF GasPrice
    <3> HIDE DEF lo, hi, gp, c, d
    <3>3. lo \in Int /\ hi \in Int /\ 0 <= lo /\ lo <= hi /\ (min = 0 => lo = 0)
      BY <2>3, <2>4 DEF lo, hi
    <3>4. d = lo /\ (c = lo \/ (c = csv /\ gp >= min))
      BY <2>5, <2>6, <3>2, <3>3
    <3>5. gp >= min => min = 0
      BY <3>2
    <3>6. c \in Int /\ d \in Int /\ ((c < 0 /\ d <= 0) \/ (0 <= d /\ d <= c /\ c <= d + gas))
      BY <2>6, <3>3, <3>4, <3>5
    <3>7. QED
      BY <3>6 DEF c, d
  <2>7. CASE csv >= 0
    <3> DEFINE gg == gp * gas
    <3>1. gp \in Int /\ gg \in Int /\ gg <= csv /\ csv < gg + gas
      <4>1. gp = csv \div gas
        BY <2>7 DEF GasPrice
      <4>2. QED
        BY <2>1, <2>7, <4>1, SMTT(30)
    <3>2. /\ gp > max => (max + 1) * gas <= gg
          /\ gp <= max => gg <= hi
          /\ gp < min => (gp + 1) * gas <= lo
          /\ gp >= min => lo <= gg
          /\ (gp + 1) * gas = gg + gas
      <4>1. gp + 1 \in Int /\ max + 1 \in Int
        BY <3>1
      <4>2. (gp + 1) * gas = gp * gas + gas
        BY <2>1, <3>1, SMTT(30)
      <4> HIDE DEF gp
      <4>3. QED
        BY <2>2, <3>1, <4>1, <4>2
    <3> HIDE DEF lo, hi, gp, gg, c, d
    <3>3. lo \in Int /\ hi \in Int /\ 0 <= lo /\ lo <= hi /\ (max + 1) * gas = hi + gas
      BY <2>3, <2>4 DEF lo, hi
    <3>4. c \in Int /\ d \in Int /\ 0 <= d /\ d <= c /\ c <= d + gas
      BY <2>1, <2>5, <2>7, <3>1, <3>2, <3>3
    <3>5. QED
      BY <3>4 DEF c, d
  <2>8. QED
    BY <2>6, <2>7
<1>3. QED
  BY <1>1, <1>2

\* The tolerance of an expected fee is at most a twentieth of it.
LEMMA ToleranceBound ==
    ASSUME NEW e \in Nat
    PROVE  TruncateInt(Tolerance * e) \in Nat /\ 20 * TruncateInt(Tolerance * e) <= e
<1> DEFINE m == Tolerance * e
           t == TruncateInt(m)
<1>1. Tolerance \in Nat /\ 20 * Tolerance <= Prec
  BY PrecAssumption, SMTT(30) DEF Tolerance
<1>2. m \in Nat /\ 20 * m <= Prec * e
  <2>1. \A x, y, z \in Nat : x <= y => x * z <= y * z
    BY SMTT(30)
  <2>2. 20 * Tolerance \in Nat /\ Prec \in Nat /\ (20 * Tolerance) * e = 20 * (Tolerance * e)
    BY <1>1, PrecAssumption, SMTT(30)
  <2>3. Tolerance * e \in Nat
    BY <1>1, SMTT(30)
  <2>4. QED
    BY <1>1, <2>1, <2>2, <2>3
<1> HIDE DEF m
<1>3. t \in Nat /\ Prec * t <= m
  BY <1>2, TruncateIntBounds
<1> HIDE DEF t
<1>4. Prec * (20 * t) <= Prec * e
  <2>1. Prec * (20 * t) = 20 * (Prec * t) /\ Prec * t \in Int /\ Prec * e \in Int
    BY <1>3, PrecAssumption, SMTT(30)
  <2>2. QED
    BY <1>2, <1>3, <2>1
<1>5. 20 * t <= e
  <2>1. \A x, y \in Nat : Prec * x <= Prec * y => x <= y
    BY PrecAssumption, SMTT(30)
  <2>2. QED
    BY <1>3, <1>4, <2>1
<1>6. QED
  BY <1>3, <1>5 DEF t, m

\* A comparison survives a factor that is not negative.
LEMMA Scaled ==
    ASSUME NEW n \in Nat, NEW x \in Int, NEW y \in Int, x <= y
    PROVE  n * x <= n * y /\ x * n <= y * n
BY SMTT(30)

\* A fee that passes validation is within a twentieth of the estimate, up to one unit of
\* rounding each way; an estimate below zero is met by a single unit only.
LEMMA ValidatedFee ==
    ASSUME NEW est, NEW c \in Int, est.csv = c, est.free = FALSE, NEW fee \in Nat,
           ValidateFeeAgainstEstimate(fee, est)
    PROVE  /\ c < 0 => fee = 1
           /\ c >= 0 => 95 * (c * Micro) <= 100 * (Prec * (fee + 1))
           /\ c > 0 => 100 * (Prec * (fee - 1)) <= 105 * (c * Micro)
<1> DEFINE m == c * Micro
           amount == TruncateInt(m)
           e == IF c = 0 THEN 0 ELSE IF amount = 0 THEN 1 ELSE amount
           t == TruncateInt(Tolerance * e)
<1>1. /\ BuildFeeFromEstimate(est) = e
      /\ e = 0 \/ (fee # 0 /\ Abs(fee - e) <= t)
  BY DEF ValidateFeeAgainstEstimate, BuildFeeFromEstimate
<1>2. m \in Int /\ (c < 0 => m < 0) /\ (c > 0 => m > 0) /\ (c = 0 => m = 0)
  BY MicroAssumption, SMTT(30)
<1>3. amount \in Int
  BY <1>2, TruncateIntType
<1>4. ASSUME e \in Nat, e # 0
      PROVE  /\ fee # 0 /\ 95 * e <= 100 * fee /\ 100 * fee <= 105 * e
             /\ e = 1 => fee = 1
  <2> HIDE DEF e
  <2>1. t \in Nat /\ 20 * t <= e
    BY <1>4, ToleranceBound
  <2> HIDE DEF t
  <2>2. fee # 0 /\ fee - e <= t /\ e - fee <= t
    BY <1>1, <1>4, <2>1 DEF Abs
  <2>3. QED
    BY <1>4, <2>1, <2>2
<1>5. CASE c < 0
  <2>1. amount <= 0
    <3>1. (-m) \div Prec \in Nat
      BY <1>2, <1>5, PrecAssumption, SMTT(30)
    <3>2. QED
      BY <1>2, <1>5, <3>1 DEF TruncateInt
  <2>2. CASE amount = 0
    <3>1. e = 1
      BY <1>5, <2>2
    <3>2. fee = 1
      BY <1>4, <3>1
    <3>3. QED
      BY <1>5, <3>2
  <2>3. CASE amount < 0
    <3>1. e = amount
      BY <1>3, <1>5, <2>3
    <3>2. TruncateInt(Tolerance * amount) <= 0
      <4>1. Tolerance * amount \in Int /\ Tolerance * amount <= 0
        <5>1. Tolerance \in Nat
          BY PrecAssumption, SMTT(30) DEF Tolerance
        <5> HIDE DEF amount
        <5>2. QED
          BY <1>3, <2>3, <5>1, SMTT(30)
      <4> DEFINE w == Tolerance * amount
      <4> HIDE DEF w
      <4>2. w \in Int /\ w <= 0
        BY <4>1 DEF w
      <4>3. (-w) \div Prec \in Nat /\ (w >= 0 => w \div Prec = 0)
        BY <4>2, PrecAssumption, SMTT(30)
      <4>4. TruncateInt(w) <= 0
        BY <4>2, <4>3 DEF TruncateInt
      <4>5. QED
        BY <4>4 DEF w
    <3>3. TruncateInt(Tolerance * amount) \in Int
      <4>1. Tolerance * amount \in Int
        <5>1. Tolerance \in Int
          BY PrecAssumption, SMTT(30) DEF Tolerance
        <5> HIDE DEF amount
        <5>2. QED
          BY <1>3, <5>1
      <4>2. QED
        BY <4>1, TruncateIntType
    <3>4. FALSE
      <4>1. Abs(fee - amount) <= TruncateInt(Tolerance * amount)
        BY <1>1, <2>3, <3>1
      <4> DEFINE u == TruncateInt(Tolerance * amount)
      <4> HIDE DEF amount, u
      <4>2. Abs(fee - amount) > 0
        BY <1>3, <2>3 DEF Abs
      <4>3. u \in Int /\ u <= 0 /\ Abs(fee - amount) <= u
        BY <3>2, <3>3, <4>1 DEF u
      <4>4. Abs(fee - amount) \in Int
        BY <1>3 DEF Abs
      <4>5. QED
        BY <4>2, <4>3, <4>4
    <3>5. QED
      BY <3>4
  <2>4. QED
    BY <1>3, <2>1, <2>2, <2>3
<1>6. CASE c = 0
  <2>1. Prec * (fee + 1) \in Nat
    BY PrecAssumption, SMTT(30)
  <2>2. c * Micro = 0
    BY <1>2, <1>6
  <2>3. QED
    BY <1>6, <2>1, <2>2
<1>7. CASE c > 0
  <2>1. m \in Nat
    BY <1>2, <1>7
  <2> HIDE DEF m
  <2>2. amount \in Nat /\ Prec * amount <= m /\ m < Prec * amount + Prec
    BY <2>1, TruncateIntBounds
  <2> HIDE DEF amount
  <2>3. e \in Nat /\ e # 0 /\ e >= amount /\ (e = amount \/ e = 1)
    BY <1>7, <2>2
  <2>4. 95 * e <= 100 * fee /\ 100 * fee <= 105 * e /\ (e = 1 => fee = 1)
    BY <1>4, <2>3
  <2> HIDE DEF e
  <2> DEFINE pa == Prec * amount
             pe == Prec * e
             pf == Prec * fee
  <2>5. /\ pa \in Int /\ pe \in Int /\ pf \in Int /\ pa <= pe
        /\ 95 * pe <= 100 * pf /\ 100 * pf <= 105 * pe
    <3>1. pa \in Int /\ pe \in Int /\ pf \in Int
      BY <2>2, <2>3, PrecAssumption
    <3>2. pa <= pe
      BY <2>2, <2>3, PrecAssumption, Scaled
    <3>3. Prec * (95 * e) <= Prec * (100 * fee) /\ Prec * (100 * fee) <= Prec * (105 * e)
      <4> DEFINE x == 95 * e
                 y == 100 * fee
                 z == 105 * e
      <4>1. x \in Int /\ y \in Int /\ z \in Int /\ x <= y /\ y <= z
        BY <2>3, <2>4
      <4> HIDE DEF x, y, z
      <4>2. Prec * x <= Prec * y /\ Prec * y <= Prec * z
        BY <4>1, PrecAssumption, Scaled
      <4>3. QED
        BY <4>2 DEF x, y, z
    <3>4. /\ Prec * (95 * e) = 95 * pe /\ Prec * (100 * fee) = 100 * pf
          /\ Prec * (105 * e) = 105 * pe
      BY <2>3, PrecAssumption, SMTT(30)
    <3> HIDE DEF pa, pe, pf
    <3>5. QED
      BY <3>1, <3>2, <3>3, <3>4
  <2>6. Prec * (fee + 1) = pf + Prec /\ Prec * (fee - 1) = pf - Prec
    BY PrecAssumption, SMTT(30)
  <2>7. e = 1 => Prec * (fee - 1) = 0
    BY <2>4, PrecAssumption, SMTT(30)
  <2>8. e = amount => pe = pa
    OBVIOUS
  <2> HIDE DEF pa, pe, pf
  <2>9. pa <= m /\ m < pa + Prec
    BY <2>2 DEF pa
  <2>10. 95 * m <= 100 * (Prec * (fee + 1))
    BY <2>1, <2>5, <2>6, <2>9, PrecAssumption
  <2>11. 100 * (Prec * (fee - 1)) <= 105 * m
    <3>1. CASE e = 1
      BY <2>1, <2>7, <3>1
    <3>2. CASE e = amount
      BY <2>1, <2>5, <2>6, <2>8, <2>9, <3>2, PrecAssumption
    <3>3. QED
      BY <2>3, <3>1, <3>2
  <2>12. QED
    BY <1>7, <2>10, <2>11 DEF m
<1>8. QED
  BY <1>5, <1>6, <1>7

\* The two kinds of estimate of a category other than "system".
LEMMA EstimateCases ==
    ASSUME NEW p \in ParamType, NEW price \in Int, NEW cat \in Categories, cat # "system",
           NEW gas \in Nat
    PROVE  LET est == EstimateFee(p, price, cat, gas)
               csv == ConvertUSDToCSV(p.table[EstimateRow(cat)].usd, price)
           IN  /\ csv \in Int
               /\ IF cat \in {"deploy", "wizard"} /\ p.table[cat].usd = 0
                  THEN est.free = TRUE /\ est.ok = (gas <= MaxGasForFreeCategory(p, cat))
                  ELSE est.free = FALSE /\ est.csv = ApplyGuardRails(csv, gas, p.min, p.max)
<1> DEFINE row == EstimateRow(cat)
           usd == p.table[row].usd
           csv == ConvertUSDToCSV(usd, price)
<1>1. row \in Rows /\ (cat \in {"deploy", "wizard"} => row = cat)
  BY DEF EstimateRow, Rows, Categories
<1> HIDE DEF row
<1>2. usd \in Int
  BY <1>1 DEF ParamType, Split
<1> HIDE DEF usd
<1>3. csv \in Int
  BY <1>2, ConvertType
<1> HIDE DEF csv
<1>4. CASE cat \in {"deploy", "wizard"} /\ p.table[cat].usd = 0
  <2>1. EstimateFee(p, price, cat, gas)
          = [ok |-> gas <= MaxGasForFreeCategory(p, cat), free |-> TRUE, csv |-> 0]
    BY <1>1, <1>4 DEF EstimateFee, row
  <2>2. QED
    BY <1>3, <1>4, <2>1 DEF csv, usd, row
<1>5. CASE ~(cat \in {"deploy", "wizard"} /\ p.table[cat].usd = 0)
  <2>1. EstimateFee(p, price, cat, gas)
          = [ok |-> TRUE, free |-> FALSE, csv |-> ApplyGuardRails(csv, gas, p.min, p.max)]
    BY <1>1, <1>5 DEF EstimateFee, row, usd, csv
  <2>2. QED
    BY <1>3, <1>5, <2>1 DEF csv, usd, row
<1>6. QED
  BY <1>4, <1>5

\* What the ante handler lets through outside gas-only mode and system transactions.
LEMMA FeeAnteAccepts ==
    ASSUME NEW p \in ParamType, NEW price, NEW tx \in TxType, p.mode # "gas_only",
           FeeAnte(p, price, tx).ok, FeeAnte(p, price, tx).cat # "system"
    PROVE  LET cat == FeeAnte(p, price, tx).cat
               est == EstimateFee(p, price, cat, tx.gas)
           IN  cat \in Categories /\ est.ok /\ ValidateFeeAgainstEstimate(tx.fee, est)
<1> DEFINE cat == ClassifyTransaction(p, tx)
           est == EstimateFee(p, price, cat, tx.gas)
           valid == ValidateFeeAgainstEstimate(tx.fee, est)
<1>1. p # NoParams
  BY FeesAssumption
<1>2. cat \in Categories
  BY ClassifyTransactionType
<1> HIDE DEF cat, est, valid
<1>3. FeeAnte(p, price, tx)
        = [ok |-> /\ est.ok
                  /\ \/ p.mode = "gas_only"
                     \/ p.mode = "hybrid" /\ cat = "system"
                     \/ valid,
           cat |-> cat,
           feeType |-> IF cat = "system" THEN "native_transfer" ELSE cat]
  BY <1>1 DEF FeeAnte, cat, est, valid
<1>4. FeeAnte(p, price, tx).cat = cat /\ est.ok /\ valid
  BY <1>3
<1>5. QED
  BY <1>2, <1>4 DEF est, valid

\* What PaysTheTable says of one transaction.
PaidAsAsked(p, price, cat, gas, fee) ==
    LET free == cat \in {"deploy", "wizard"} /\ p.table[cat].usd = 0
        due  == DueCSV(p, price, cat, gas) * Micro
    IN  IF free THEN fee = 0 /\ gas <= MaxGasForFreeCategory(p, cat)
        ELSE /\ 100 * Prec * (fee + 1) >= 95 * due
             /\ due > 0 => 100 * Prec * (fee - 1) <= 105 * (due + gas * Micro)
             /\ due < 0 => fee = 1

\* A fee that is accepted against its estimate is paid as the table asks.
LEMMA AcceptedIsAsked ==
    ASSUME NEW p \in ParamType, NEW price \in Int, NEW cat \in Categories, cat # "system",
           NEW gas \in Nat, NEW fee \in Nat, 0 <= p.min, p.min <= p.max,
           EstimateFee(p, price, cat, gas).ok,
           ValidateFeeAgainstEstimate(fee, EstimateFee(p, price, cat, gas))
    PROVE  PaidAsAsked(p, price, cat, gas, fee)
<1> DEFINE est == EstimateFee(p, price, cat, gas)
           csv == ConvertUSDToCSV(p.table[EstimateRow(cat)].usd, price)
           c   == ApplyGuardRails(csv, gas, p.min, p.max)
           d   == DueCSV(p, price, cat, gas)
           isfree == cat \in {"deploy", "wizard"} /\ p.table[cat].usd = 0
           cap == MaxGasForFreeCategory(p, cat)
<1>1. /\ csv \in Int
      /\ IF isfree THEN est.free = TRUE /\ est.ok = (gas <= cap)
         ELSE est.free = FALSE /\ est.csv = c
  BY EstimateCases
<1>2. p.min \in Int /\ p.max \in Int
  BY DEF ParamType
<1>3. est.ok /\ ValidateFeeAgainstEstimate(fee, est)
  OBVIOUS
<1>4. d = Clamped(csv, gas, p.min, p.max)
  BY DEF DueCSV, Clamped
<1> HIDE DEF csv, est
<1>5. c \in Int /\ d \in Int /\ ((c < 0 /\ d <= 0) \/ (0 <= d /\ d <= c /\ c <= d + gas))
  <2> DEFINE lo == p.min
             hi == p.max
  <2>1. lo \in Int /\ hi \in Int /\ 0 <= lo /\ lo <= hi /\ csv \in Int
    BY <1>1, <1>2
  <2>2. c = ApplyGuardRails(csv, gas, lo, hi) /\ d = Clamped(csv, gas, lo, hi)
    BY <1>4
  <2> HIDE DEF lo, hi, c, d
  <2>3. QED
    BY <2>1, <2>2, GuardRailsClamp
<1> HIDE DEF c, d, cap
<1>6. CASE isfree
  <2>1. est.free = TRUE /\ gas <= cap
    BY <1>1, <1>3, <1>6
  <2>2. fee = 0
    BY <1>3, <2>1 DEF ValidateFeeAgainstEstimate
  <2>3. QED
    BY <1>6, <2>1, <2>2 DEF PaidAsAsked, cap
<1>7. CASE ~isfree
  <2>1. /\ c < 0 => fee = 1
        /\ c >= 0 => 95 * (c * Micro) <= 100 * (Prec * (fee + 1))
        /\ c > 0 => 100 * (Prec * (fee - 1)) <= 105 * (c * Micro)
    BY <1>1, <1>3, <1>5, <1>7, ValidatedFee
  <2> DEFINE due == d * Micro
             cm == c * Micro
             gm == gas * Micro
             up == Prec * (fee + 1)
             dn == Prec * (fee - 1)
  <2>2. /\ due \in Int /\ cm \in Int /\ gm \in Nat /\ up \in Nat /\ dn \in Int
        /\ d <= 0 => due <= 0
        /\ d > 0 => due > 0
        /\ d = 0 => due = 0
        /\ (d + gas) * Micro = due + gm
    BY <1>5, MicroAssumption, PrecAssumption, SMTT(30)
  <2>3. d <= c => due <= cm
    BY <1>5, MicroAssumption, Scaled
  <2>4. c <= d + gas => cm <= due + gm
    <3>1. d + gas \in Int
      BY <1>5
    <3>2. c <= d + gas => c * Micro <= (d + gas) * Micro
      BY <1>5, <3>1, MicroAssumption, Scaled
    <3>3. QED
      BY <2>2, <3>2
  <2>5. 100 * Prec * (fee + 1) = 100 * up /\ 100 * Prec * (fee - 1) = 100 * dn
    BY PrecAssumption, SMTT(30)
  <2>6. /\ c >= 0 => 95 * cm <= 100 * up
        /\ c > 0 => 100 * dn <= 105 * cm
    BY <2>1
  <2> HIDE DEF due, cm, gm, up, dn
  <2>7. 100 * up >= 95 * due
    BY <1>5, <2>2, <2>3, <2>6
  <2>8. due > 0 => 100 * dn <= 105 * (due + gm)
    BY <1>5, <2>2, <2>4, <2>6
  <2>9. due < 0 => fee = 1
    BY <1>5, <2>1, <2>2
  <2>10. QED
    BY <1>7, <2>5, <2>7, <2>8, <2>9 DEF PaidAsAsked, due, gm, d
<1>8. QED
  BY <1>6, <1>7

\* For every price of either sign, every precision, table, gas and pair of guard rails,
\* a transaction whose fee is not waived by the mode pays what the table asks.
THEOREM FeesPayTheTable == Spec => PaysTheTable
<1> DEFINE A == /\ last'.op = "tx" /\ params # NoParams
                /\ params.mode # "gas_only" /\ last'.cat # "system"
                /\ 0 <= params.min /\ params.min <= params.max
                => LET free == last'.cat \in {"deploy", "wizard"}
                               /\ params.table[last'.cat].usd = 0
                       due  == DueCSV(params, csvPerUSD, last'.cat, last'.gas) * Micro
                   IN  IF free
                       THEN last'.fee = 0 /\ last'.gas <= MaxGasForFreeCategory(params, last'.cat)
                       ELSE /\ 100 * Prec * (last'.fee + 1) >= 95 * due
                            /\ due > 0 =>
                               100 * Prec * (last'.fee - 1) <= 105 * (due + last'.gas * Micro)
                            /\ due < 0 => last'.fee = 1
<1>1. ASSUME TypeOK, Next
      PROVE  A
  <2>1. SUFFICES ASSUME last'.op = "tx", params # NoParams, params.mode # "gas_only",
                        last'.cat # "system", 0 <= params.min, params.min <= params.max
                 PROVE  PaidAsAsked(params, csvPerUSD, last'.cat, last'.gas, last'.fee)
    BY DEF PaidAsAsked
  <2>2. PICK tx \in Txs : DeliverTx(tx)
    <3>1. last' # Idle
      BY <2>1 DEF Idle
    <3>2. QED
      BY <1>1, <3>1 DEF Next, InitGenesis, UpdateParams, OraclePrice
  <2> DEFINE fa == FeeAnte(params, csvPerUSD, tx)
             cat == fa.cat
             gas == tx.gas
             fee == tx.fee
  <2>3. tx \in TxType /\ gas \in Nat /\ fee \in Nat
    BY FeesAssumption DEF TxType
  <2>4. Ante(tx).ok /\ last'.cat = cat /\ last'.fee = fee /\ last'.gas = gas
    BY <2>2 DEF DeliverTx
  <2>5. fa.ok
    BY <2>4 DEF Ante
  <2>6. params \in ParamType /\ csvPerUSD \in Int
    BY <1>1, <2>1 DEF TypeOK
  <2>7. /\ cat \in Categories /\ cat # "system"
        /\ EstimateFee(params, csvPerUSD, cat, gas).ok
        /\ ValidateFeeAgainstEstimate(fee, EstimateFee(params, csvPerUSD, cat, gas))
    BY <2>1, <2>3, <2>4, <2>5, <2>6, FeeAnteAccepts
  <2> HIDE DEF cat, gas, fee
  <2>8. PaidAsAsked(params, csvPerUSD, cat, gas, fee)
    BY <2>1, <2>3, <2>6, <2>7, AcceptedIsAsked
  <2>9. QED
    BY <2>4, <2>8
<1>2. TypeOK /\ [Next]_vars => [A]_vars
  BY <1>1
<1>3. QED
  BY <1>2, TypeCorrect, PTL DEF Spec, PaysTheTable
=============================================================================
