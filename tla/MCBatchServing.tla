--------------------------- MODULE MCBatchServing ---------------------------
(* A small instance of BatchServing: two requests, so that one prefills    *)
(* while the other decodes, and both compete for the primary state.        *)
EXTENDS BatchServing

CONSTANTS s1, s2, r1, r2

TwoSlots == {s1, s2}
TwoRequests == {r1, r2}

(* One request decodes long enough to be passed by a job twice.            *)
Budgets == [r \in TwoRequests |-> IF r = r1 THEN 2 ELSE 1]
=============================================================================
