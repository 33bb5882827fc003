------------------------------ MODULE FeeTable ------------------------------
(***************************************************************************)
(* The arithmetic of x/fees: decimals, the USD fee table, the estimate, the *)
(* guard rails, the tolerance check and the split of a fee into shares.     *)
(*                                                                          *)
(* A LegacyDec is an integer counting units of 1/Prec (Prec = 10^18 in the  *)
(* code); an amount of ucsv is an integer, Micro of them to the CSV (10^6   *)
(* in the code).  Fee table rows and fee categories keep the code's names.  *)
(***************************************************************************)
EXTENDS Integers

CONSTANTS
    Prec,    \* units of a decimal: LegacyDec has 18 decimal places
    Micro    \* ucsv per CSV

ASSUME PrecAssumption  == Prec \in Nat \ {0}
ASSUME MicroAssumption == Micro \in Nat \ {0}

-----------------------------------------------------------------------------
(* LegacyDec operations the module uses (cosmossdk.io/math, external).      *)

\* Mul rounds half to even at the last place.
Mul(a, b) ==
    LET q == (a * b) \div Prec
        r == (a * b) % Prec
    IN  IF 2 * r < Prec \/ (2 * r = Prec /\ q % 2 = 0) THEN q ELSE q + 1

\* TruncateInt drops the fraction, towards zero.
TruncateInt(d) == IF d >= 0 THEN d \div Prec ELSE -((-d) \div Prec)

\* 0.05, the tolerance the ante handler passes (LegacyNewDecWithPrec(5, 2)).
Tolerance == (5 * Prec) \div 100

-----------------------------------------------------------------------------
(* The fee table.                                                           *)

Rows == {"pos_payment", "token_interaction", "native_transfer", "dex_native",
         "dex_user", "deploy", "wizard"}

Categories == {"pos", "token_interaction", "native_transfer", "dex_native",
               "dex_user", "deploy", "wizard", "system", "mixed"}

\* The row whose USD amount EstimateFee charges for a category.
EstimateRow(cat) ==
    CASE cat = "pos" -> "pos_payment"
      [] cat \in {"token_interaction", "dex_native", "dex_user", "deploy", "wizard"} -> cat
      [] OTHER -> "native_transfer"

\* The row whose split DistributeFeeFromModule applies to a fee type.
ModuleSplitRow(feeType) ==
    IF feeType \in {"pos_payment", "token_interaction", "dex_native", "dex_user", "deploy"}
    THEN feeType ELSE "native_transfer"

\* The row whose split DistributeFee applies: its switch has no "deploy" case.
AccountSplitRow(feeType) ==
    IF feeType \in {"pos_payment", "token_interaction", "dex_native", "dex_user"}
    THEN feeType ELSE "native_transfer"

-----------------------------------------------------------------------------
(* Estimating, building and validating a fee.                               *)

\* The CSV/USD rate, 1.0 when the oracle has none: the age and the deviation
\* limits of OracleParams are not consulted.
GetCSVUSDPrice(csvPerUSD) == IF csvPerUSD # 0 THEN csvPerUSD ELSE Prec

ConvertUSDToCSV(usd, csvPerUSD) == Mul(usd, GetCSVUSDPrice(csvPerUSD))

\* QuoInt64: the last place is dropped, towards zero.
GasPrice(csv, gas) == IF csv >= 0 THEN csv \div gas ELSE -((-csv) \div gas)

\* Mutation: the minimum is only applied to an amount that is not negative.
ApplyGuardRailsNotNegative(csv, gas, min, max) ==
    IF gas = 0 THEN csv
    ELSE IF GasPrice(csv, gas) > max THEN max * gas
    ELSE IF 0 <= csv /\ GasPrice(csv, gas) < min THEN min * gas
    ELSE csv

ApplyGuardRails(csv, gas, min, max) ==
    IF gas = 0 THEN csv
    ELSE IF GasPrice(csv, gas) > max THEN max * gas
    ELSE IF GasPrice(csv, gas) < min THEN min * gas
    ELSE csv

MaxGasForFreeCategory(p, cat) ==
    CASE cat = "deploy" -> p.maxGasDeploy
      [] cat = "wizard" -> p.maxGasWizard
      [] OTHER -> 0

\* EstimateFee once the category is known: ok is FALSE when it returns an error.
EstimateFee(p, csvPerUSD, cat, gas) ==
    LET usd  == p.table[EstimateRow(cat)].usd
        free == cat \in {"deploy", "wizard"} /\ usd = 0
    IN  IF cat = "system" THEN [ok |-> TRUE, free |-> TRUE, csv |-> 0]
        ELSE IF free
        THEN [ok |-> gas <= MaxGasForFreeCategory(p, cat), free |-> TRUE, csv |-> 0]
        ELSE [ok |-> TRUE, free |-> FALSE,
              csv |-> ApplyGuardRails(ConvertUSDToCSV(usd, csvPerUSD), gas, p.min, p.max)]

\* The fee in ucsv a wallet builds from an estimate: at least one unit unless free.
\* A negative amount stands for the panic of sdk.NewCoin: no fee matches it below.
BuildFeeFromEstimate(est) ==
    IF est.free \/ est.csv = 0 THEN 0
    ELSE LET amount == TruncateInt(est.csv * Micro)
         IN  IF amount = 0 THEN 1 ELSE amount

Abs(x) == IF x < 0 THEN -x ELSE x

\* Mutation: only an excess is refused.
ValidateFeeOnlyExcess(fee, est) ==
    LET expected == BuildFeeFromEstimate(est)
    IN  IF est.free THEN fee = 0
        ELSE expected = 0 \/ (fee > 0 /\ fee - expected <= TruncateInt(Tolerance * expected))

\* Mutation: the difference must stay strictly below the tolerance.
ValidateFeeStrict(fee, est) ==
    LET expected == BuildFeeFromEstimate(est)
    IN  IF est.free THEN fee = 0
        ELSE \/ expected = 0
             \/ /\ fee # 0
                /\ Abs(fee - expected) < TruncateInt(Tolerance * expected)

ValidateFeeAgainstEstimate(fee, est) ==
    LET expected == BuildFeeFromEstimate(est)
    IN  IF est.free THEN fee = 0
        ELSE \/ expected = 0
             \/ /\ fee # 0
                /\ Abs(fee - expected) <= TruncateInt(Tolerance * expected)

-----------------------------------------------------------------------------
(* Splitting a fee.  A share record has the four amounts of FeeSplit.       *)

ShareSum(s) == s.treasury + s.retail + s.dev + s.creator

\* Mutation: the correction for splits that add up to more than one is dropped.
SharesUncapped(split, amount) ==
    [treasury |-> TruncateInt(split.treasury * amount),
     retail   |-> TruncateInt(split.retail * amount),
     dev      |-> TruncateInt(split.dev * amount),
     creator  |-> TruncateInt(split.creator * amount)]

\* The truncated shares; the treasury's is lowered when they exceed the amount.
Shares(split, amount) ==
    LET t == TruncateInt(split.treasury * amount)
        r == TruncateInt(split.retail * amount)
        d == TruncateInt(split.dev * amount)
        c == TruncateInt(split.creator * amount)
    IN  [treasury |-> IF t + r + d + c > amount THEN amount - r - d - c ELSE t,
         retail   |-> r,
         dev      |-> d,
         creator  |-> c]
=============================================================================
