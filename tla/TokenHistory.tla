---------------------------- MODULE TokenHistory ----------------------------
(***************************************************************************)
(* Token with a history variable: the IDs handed out over all the chains    *)
(* started one from the exported genesis of the other.                      *)
(***************************************************************************)
EXTENDS MC_Token

VARIABLE issued

HInit == Init /\ issued = {}
HNext == Next /\ issued' = issued \cup Created'
HSpec == HInit /\ [][HNext]_<<vars, issued>>

\* generateTokenID "creates a unique token ID": no ID is handed out twice.
UniqueTokenID ==
    [][\A i \in TokenId : i \in Created' /\ i \notin Created => i \notin issued]_<<vars, issued>>
=============================================================================
