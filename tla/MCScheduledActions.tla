------------------------- MODULE MCScheduledActions -------------------------
(* Jobs that one rule scheduled in one correlation.                         *)
EXTENDS ScheduledActions

CONSTANTS w1, w2, a1, j1, j2, r1, c1

MCOneRule == [j \in Jobs |-> r1]
MCOneCorrelation == [j \in Jobs |-> c1]

=============================================================================
