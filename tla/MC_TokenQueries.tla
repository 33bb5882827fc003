-------------------------- MODULE MC_TokenQueries --------------------------
(***************************************************************************)
(* Four tokens of two creators, one digit in base four: the fourth ID, "10", *)
(* comes to lie between the first and the second.                           *)
(***************************************************************************)
EXTENDS TokenQueries, TLC

CreatorSymmetry == Permutations(User)

MCSymbol   == {"a", "b", "c", "d"}
MCSpelling == MCSymbol \cup {"A"}
MCLower    == [s \in MCSpelling |-> IF s = "A" THEN "a" ELSE s]
MCGenesis  == [max |-> 3, reserved |-> {}]
MCSupply   == [s \in MCSymbol |-> 0]
=============================================================================
