---------------------------- MODULE MCTransfers ----------------------------
(* Instances of Transfers for TLC.                                          *)
EXTENDS Transfers

CONSTANTS r1, r2, p1, l1, l2

OnePeer == [r \in Requests |-> p1]
\* Every request has two chunks on its first lane and one on the other.
TwoOneChunks == [r \in Requests |-> [l \in Lanes |-> IF l = l1 THEN 2 ELSE 1]]
\* r1 is split over both lanes; r2 fits in one chunk.
SplitPlan == [r \in Requests |-> [l \in Lanes |-> IF r = r1 \/ l = l1 THEN 1 ELSE 0]]
=============================================================================
