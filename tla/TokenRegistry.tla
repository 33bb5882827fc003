--------------------------- MODULE TokenRegistry ---------------------------
(***************************************************************************)
(* What x/token promises, whatever keys it keeps: one register of tokens.   *)
(* A token enters it under an ID and a symbol that no other token of the    *)
(* chain has, by a creator who is below the limit; it stays as it entered;  *)
(* and the coins of a symbol change only through its token, upwards only    *)
(* on its entry or when it is mintable.                                     *)
(***************************************************************************)
EXTENDS Integers, FiniteSets

CONSTANTS User, Symbol, Amount

Entry ==
    [id : Nat, symbol : Symbol, creator : User, max : Nat, mintable : BOOLEAN]

VARIABLES
    limit,    \* tokens a creator may have
    tokens,   \* the register
    coins     \* coins in circulation per symbol

register == <<limit, tokens, coins>>

Init == limit \in Nat /\ tokens = {} /\ coins \in [Symbol -> Nat]

Enter(t, n) ==
    /\ t \in Entry
    /\ \A o \in tokens : o.id # t.id /\ o.symbol # t.symbol
    /\ Cardinality({o \in tokens : o.creator = t.creator}) < limit
    /\ n <= t.max /\ (t.mintable \/ n = t.max)
    /\ tokens' = tokens \cup {t}
    /\ coins' = [coins EXCEPT ![t.symbol] = @ + n]
    /\ UNCHANGED limit

Issue(t, n) ==
    /\ t.mintable
    /\ coins' = [coins EXCEPT ![t.symbol] = @ + n]
    /\ UNCHANGED <<limit, tokens>>

Redeem(t, n) ==
    /\ n <= coins[t.symbol]
    /\ coins' = [coins EXCEPT ![t.symbol] = @ - n]
    /\ UNCHANGED <<limit, tokens>>

Limit == limit' \in Nat \ {0} /\ UNCHANGED <<tokens, coins>>

\* A new chain begins with the coins of the old one and no tokens.
Restart == tokens' = {} /\ UNCHANGED <<limit, coins>>

Next ==
    \/ \E t \in tokens' \ tokens, n \in Amount : Enter(t, n)
    \/ \E t \in tokens, n \in Amount : Issue(t, n) \/ Redeem(t, n)
    \/ Limit
    \/ Restart

Spec == Init /\ [][Next]_register
=============================================================================
