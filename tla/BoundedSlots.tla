---------------------------- MODULE BoundedSlots ----------------------------
(***************************************************************************)
(* What AutomationCorrelationCounter and AutomationActionSlotReservation   *)
(* promise together: a correlation hands out at most Limit action slots,   *)
(* a slot belongs to a reservation key for ever, and asking again with the *)
(* same key is answered from the slot already held.                        *)
(*                                                                         *)
(* ActionSlots shows that reserve_action_slot() implements this module at  *)
(* the granularity of row locks; ScheduledActions and the engine use it as *)
(* one atomic step.                                                        *)
(***************************************************************************)
EXTENDS Integers, FiniteSets

CONSTANTS
  Keys,           \* reservation keys: a job id, or "execution id:action index"
  Correlations,   \* correlation ids
  CorrelationOf,  \* the one correlation a key is ever used with
  Limit           \* MAX_ACTIONS_PER_CORRELATION

VARIABLE granted  \* the keys that hold a slot

\* The slots a correlation has handed out.
HeldBy(c) == {k \in granted : CorrelationOf[k] = c}

Full(c) == Cardinality(HeldBy(c)) >= Limit

Init == granted = {}

\* A key without a slot gets one while its correlation has one left.
Grant(k) ==
  /\ k \notin granted
  /\ ~Full(CorrelationOf[k])
  /\ granted' = granted \cup {k}

\* The caller already holds its slot: True, and nothing is consumed.
Reenter(k) ==
  /\ k \in granted
  /\ UNCHANGED granted

\* Only a correlation at its limit turns a caller away, consuming nothing.
Refuse(k) ==
  /\ k \notin granted
  /\ Full(CorrelationOf[k])
  /\ UNCHANGED granted

Next == \E k \in Keys : Grant(k) \/ Reenter(k) \/ Refuse(k)

Spec == Init /\ [][Next]_granted

=============================================================================
