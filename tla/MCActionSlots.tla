---------------------------- MODULE MCActionSlots ----------------------------
(* Three processes, and one correlation with more actions than slots.       *)
EXTENDS ActionSlots

CONSTANTS w1, w2, w3, k1, k2, k3, c1

MCCorrelationOf == [k \in Keys |-> c1]

=============================================================================
