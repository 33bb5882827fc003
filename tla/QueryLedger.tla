---------------------------- MODULE QueryLedger ----------------------------
(***************************************************************************)
(* What the price feed promises of its interchain queries, whatever the     *)
(* channels, the relayer and the host do: a query gets an identity that no  *)
(* other query ever had, it is open until it is settled, it is settled at   *)
(* most once, and a result is recorded only by settling an open query.      *)
(***************************************************************************)
EXTENDS Integers

VARIABLES
    asked,       \* identities ever given
    open,        \* queries that wait for their answer
    lastResult   \* when a result was last recorded

ledger == <<asked, open, lastResult>>

Init == asked = {} /\ open = {} /\ lastResult = -1

Ask ==
    LET new == asked' \ asked
    IN  /\ new # {}
        /\ asked \subseteq asked'
        /\ open' = open \cup new
        /\ UNCHANGED lastResult

Settle ==
    \E q \in open :
        /\ open' = open \ {q}
        /\ UNCHANGED asked

\* The chain starts again from an exported genesis.
Forget == open' = {} /\ lastResult' = -1 /\ UNCHANGED asked

Next == Ask \/ Settle \/ Forget

Spec == Init /\ [][Next]_ledger
=============================================================================
