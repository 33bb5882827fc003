----------------------------- MODULE KeyedStore -----------------------------
(***************************************************************************)
(* A store of the chain as a function whose domain is the set of its keys   *)
(* (collections.Map, and the commitments and receipts of IBC core).         *)
(***************************************************************************)
EXTENDS Functions

EmptyMap     == [k \in {} |-> 0]
Put(f, k, v) == [x \in DOMAIN f \cup {k} |-> IF x = k THEN v ELSE f[x]]
Drop(f, k)   == Restrict(f, DOMAIN f \ {k})
=============================================================================
