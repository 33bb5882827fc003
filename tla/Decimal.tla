------------------------------ MODULE Decimal ------------------------------
(***************************************************************************)
(* cosmossdk.io/math LegacyDec as far as the price feeds use it.  A decimal *)
(* is an integer multiple of 1/One, as LegacyDec is of 10^-18.              *)
(***************************************************************************)
EXTENDS Integers

CONSTANT One    \* the decimal 1

ASSUME OneAssumption == One \in Nat \ {0}

Abs(x) == IF x < 0 THEN -x ELSE x

\* LegacyDec.Quo: to the nearest unit, half to even, the sign apart.
QuoAbs(a, b) ==
    LET q == (a * One) \div b
        r == (a * One) % b
    IN  IF 2 * r > b \/ (2 * r = b /\ q % 2 = 1) THEN q + 1 ELSE q
Quo(a, b) == IF (a < 0) = (b < 0) THEN QuoAbs(Abs(a), Abs(b)) ELSE -QuoAbs(Abs(a), Abs(b))
=============================================================================
