---------------------------- MODULE MCGapHealer ----------------------------
(* A small instance of GapHealer: two overlapping ranges, the older one     *)
(* longer than a batch and with a quarantined hole in its middle.           *)
EXTENDS GapHealer

CONSTANTS p1, p2

MCProcs == {p1, p2}
MCGapTo == [g \in {1, 3} |-> IF g = 1 THEN 3 ELSE 4]
=============================================================================
