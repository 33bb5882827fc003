---------------------------- MODULE MC_Pricefeed ----------------------------
(***************************************************************************)
(* One channel of either order, decimals in halves, two packets each way.   *)
(***************************************************************************)
EXTENDS Pricefeed

Response(error, rate, price, timeout) ==
    [kind |-> "response", error |-> error, rate |-> rate, price |-> price, timeout |-> timeout]

\* A rate; a price of 2.0 behind a rate that is no price, which lapses at the first block;
\* one that inverts to zero and lapses at the second; an error that carries a rate;
\* packets of another kind.
MCIncoming ==
    {Response(FALSE, 3, 0, 0), Response(FALSE, -1, 4, 1), Response(FALSE, 0, 8, 2),
     Response(TRUE, 5, 0, 0)}
    \cup {[Response(FALSE, 0, 0, 0) EXCEPT !.kind = kind] : kind \in {"request", "unknown"}}

MCOraclePrices == {-1, 2}
=============================================================================
