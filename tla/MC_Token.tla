------------------------------ MODULE MC_Token ------------------------------
(***************************************************************************)
(* Two creators, a symbol in two spellings, the native symbol that genesis  *)
(* reserves, and one whose denom is too short for the bank.                 *)
(***************************************************************************)
EXTENDS Token

MCSpelling == {"abc", "ABC", "csv", "x"}
MCSymbol   == {"abc", "csv", "x"}
MCLower    == [s \in MCSpelling |-> IF s = "ABC" THEN "abc" ELSE s]
MCValid    == {"abc", "csv"}
MCGenesis  == [max |-> 1, reserved |-> {"csv"}]
\* A raised limit without reserved symbols, and params that are refused.
MCChoices  == {[max |-> 2, reserved |-> {}], [max |-> 1, reserved |-> {"csv"}],
               [max |-> 0, reserved |-> {"abc"}]}
MCSupply   == [s \in MCSymbol |-> IF s = "csv" THEN 1 ELSE 0]
=============================================================================
