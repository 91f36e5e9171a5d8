------------------------------ MODULE Conversion ------------------------------
(***************************************************************************)
(* What a conversion of stored rows promises: rows leave the set of those  *)
(* that wait and do not come back, and the conversion is called finished   *)
(* only when none is left, and for good.                                   *)
(***************************************************************************)
CONSTANT Rows

VARIABLES pending, finished

Init == pending \subseteq Rows /\ finished = FALSE

Convert ==
    /\ \E batch \in SUBSET pending : pending' = pending \ batch
    /\ UNCHANGED finished

Finish == pending = {} /\ finished' = TRUE /\ UNCHANGED pending

Next == Convert \/ Finish

Spec == Init /\ [][Next]_<<pending, finished>>

=============================================================================
