------------------------------- MODULE MCRdma -------------------------------
(* Instances of RdmaProvider for TLC.                                       *)
EXTENDS RdmaProvider

CONSTANTS c1, c2

\* Two queue pairs for the connection that is used, one for the other.
TwoPairs == [c \in Conns |-> IF c = c1 THEN <<1, 2>> ELSE <<3>>]
ThreeOps == <<1, 1, 1>>
=============================================================================
