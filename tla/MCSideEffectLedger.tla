------------------------- MODULE MCSideEffectLedger -------------------------
(* Two workers contending for one action, as often as the clock allows.     *)
EXTENDS SideEffectLedger

CONSTANTS w1, w2, k1

=============================================================================
