---------------------------- MODULE MCQueryCache ----------------------------
(***************************************************************************)
(* Small instances of QueryCache for TLC.                                  *)
(***************************************************************************)
EXTENDS QueryCache

CONSTANTS w1, w2, w3, l1, l2, a1, k1, k2, k3

\* Stores under different keys; the lookups ask for the first one, which is
\* also the one that is invalidated.
MCKeys == [t \in Tasks |-> CASE t = w2 -> k2 [] t = w3 -> k3 [] OTHER -> k1]

\* No two different questions are similar enough.
MCIdentity == {<<k, k>> : k \in Keys}

\* The third store runs only while nothing was invalidated or went wrong: it is
\* there to overfill the index.
ThirdStoreIsCalm == pc[w3] # "client" => mishaps = 0 /\ pc[a1] = "client"
=============================================================================
