------------------------------- MODULE MC_Icq -------------------------------
(***************************************************************************)
(* One connection, decimals in halves.  The run icq has two channels and    *)
(* everything that can go wrong; the run icq_live has one channel and more  *)
(* answers, to be taken, refused and inverted.  Both have a consumer set    *)
(* and the extractor of the keeper's tests, with which everything that a    *)
(* build makes of an acknowledgement may happen, and values arrive besides. *)
(***************************************************************************)
EXTENDS OsmosisIcq, TLC

ChannelSymmetry == Permutations(Channel)

MCGenesis ==
    [conn |-> "connection-0", interval |-> 2, useTwap |-> TRUE, window |-> 1,
     pair |-> "other", minLiq |-> 1, maxDev |-> 1]

\* The pool alone, updates switched off, and two sets that are refused.
MCChoices ==
    {[MCGenesis EXCEPT !.useTwap = FALSE, !.interval = 3, !.minLiq = 0],
     [MCGenesis EXCEPT !.interval = 0, !.conn = ""],
     [MCGenesis EXCEPT !.window = 0],
     [MCGenesis EXCEPT !.maxDev = -1]}

\* The pair whose price is inverted.
MCLiveChoices == {[MCGenesis EXCEPT !.pair = "ucsv/uusdc"]}

Value(p, l) == [kind |-> "value", price |-> p, liquidity |-> l]

\* Enough liquidity for the second set of params only.
MCAnswer == {Value(1, -1)}

\* 0.5, which inverts to 2.0, and -1.0.
MCLiveAnswer == {Value(1, 1), Value(-2, 1)}
=============================================================================
