------------------------- MODULE ActionSlots_proofs -------------------------
(***************************************************************************)
(* For every set of workers, keys and correlations and every limit: a      *)
(* correlation's counter counts its reservation rows and stays within the  *)
(* limit, and reserve_action_slot implements BoundedSlots.                 *)
(*                                                                         *)
(* SlotsWithinLimit is not inductive: CommitSlot writes seen[w] + 1, a     *)
(* value read two steps earlier. The strengthening says why that value is  *)
(* still right: an open transaction holds its correlation's row lock, so   *)
(* what it has seen is what is committed (LockedReadIsCurrent), and before *)
(* it inserts, its key has no row and its counter has room (InsertHasRoom).*)
(***************************************************************************)
EXTENDS ActionSlots, FiniteSetTheorems, TLAPS

\* A worker inside its transaction holds the row lock of its correlation and
\* what it has read is the committed counter.
LockedReadIsCurrent ==
  \A w \in Workers :
    pc[w] \in InTransaction => lock[Corr(w)] = w /\ seen[w] = counter[Corr(w)]

\* A worker that has inserted its row found none there and room for it.
InsertHasRoom ==
  \A w \in Workers :
    pc[w] = "inserted" => key[w] \notin reservations /\ seen[w] < Limit

\* The counter counts finitely many rows, at most Limit of them.
CountExact ==
  \A c \in Correlations :
    /\ IsFiniteSet(ReservedIn(c))
    /\ Cardinality(ReservedIn(c)) = counter[c]
    /\ counter[c] <= Limit

SlotInv ==
  /\ TypeOK
  /\ LockedReadIsCurrent
  /\ InsertHasRoom
  /\ CountExact
  /\ GrantedIsDurable

-----------------------------------------------------------------------------
\* Initially nothing is reserved and every counter is zero.
LEMMA InitSlotInv == Init => SlotInv
<1> SUFFICES ASSUME Init PROVE SlotInv
  OBVIOUS
<1>1. TypeOK
  BY DEF Init, TypeOK, Stages
<1>2. LockedReadIsCurrent /\ InsertHasRoom /\ GrantedIsDurable
  BY DEF Init, LockedReadIsCurrent, InsertHasRoom, GrantedIsDurable,
         InTransaction
<1>3. CountExact
  <2>1. \A c \in Correlations : ReservedIn(c) = {}
    BY DEF Init, ReservedIn
  <2>. QED
    BY <2>1, FS_EmptySet, ActionSlotsAssumption DEF Init, CountExact
<1>. QED
  BY <1>1, <1>2, <1>3 DEF SlotInv

\* Every step of every worker keeps the variables' types.
LEMMA TypeStep == ASSUME TypeOK, [Next]_vars PROVE TypeOK'
<1> USE ActionSlotsAssumption DEF TypeOK, Stages
<1>1. CASE UNCHANGED vars
  BY <1>1 DEF vars
<1>2. ASSUME NEW w \in Workers, NEW k \in Keys, Call(w, k) PROVE TypeOK'
  BY <1>2 DEF Call
<1>3. ASSUME NEW w \in Workers, LockCounter(w) PROVE TypeOK'
  BY <1>3 DEF LockCounter, Corr
<1>4. ASSUME NEW w \in Workers, FindReservation(w) PROVE TypeOK'
  BY <1>4 DEF FindReservation, EndTransaction, Corr
<1>5. ASSUME NEW w \in Workers, RefuseSlot(w) PROVE TypeOK'
  BY <1>5 DEF RefuseSlot, EndTransaction, Corr
<1>6. ASSUME NEW w \in Workers, InsertReservation(w) PROVE TypeOK'
  BY <1>6 DEF InsertReservation
<1>7. ASSUME NEW w \in Workers, CommitSlot(w) PROVE TypeOK'
  BY <1>7 DEF CommitSlot, EndTransaction, Corr
<1>8. ASSUME NEW w \in Workers, Return(w) PROVE TypeOK'
  BY <1>8 DEF Return
<1>9. ASSUME NEW w \in Workers, Crash(w) PROVE TypeOK'
  BY <1>9 DEF Crash, Rollback, EndTransaction, Corr
<1>. QED
  BY <1>1, <1>2, <1>3, <1>4, <1>5, <1>6, <1>7, <1>8, <1>9 DEF Next, Reserve

\* A commit adds one row to its own correlation and none to any other.
LEMMA CommitCounts ==
  ASSUME SlotInv, NEW w \in Workers, CommitSlot(w)
  PROVE  CountExact'
<1> SUFFICES ASSUME NEW c \in Correlations
             PROVE  /\ IsFiniteSet(ReservedIn(c)')
                    /\ Cardinality(ReservedIn(c)') = counter'[c]
                    /\ counter'[c] <= Limit
  BY DEF CountExact
<1>1. /\ key[w] \in Keys /\ key[w] \notin reservations
      /\ seen[w] = counter[Corr(w)] /\ seen[w] < Limit
      /\ Corr(w) \in Correlations
      /\ counter[Corr(w)] \in Nat /\ counter \in [Correlations -> Nat]
  BY ActionSlotsAssumption
     DEF SlotInv, TypeOK, LockedReadIsCurrent, InsertHasRoom, CommitSlot,
         InTransaction, Corr
<1>2. /\ IsFiniteSet(ReservedIn(c))
      /\ Cardinality(ReservedIn(c)) = counter[c]
      /\ counter[c] <= Limit
  BY DEF SlotInv, CountExact
<1>3. CASE c = Corr(w)
  <2>1. ReservedIn(c)' = ReservedIn(c) \cup {key[w]}
    BY <1>1, <1>3 DEF ReservedIn, CommitSlot, Corr
  <2>2. key[w] \notin ReservedIn(c)
    BY <1>1 DEF ReservedIn
  <2>3. /\ IsFiniteSet(ReservedIn(c) \cup {key[w]})
        /\ Cardinality(ReservedIn(c) \cup {key[w]})
             = Cardinality(ReservedIn(c)) + 1
    BY <1>2, <2>2, FS_AddElement
  <2>4. counter'[c] = counter[c] + 1
    BY <1>1, <1>3 DEF CommitSlot
  <2>. QED
    BY <1>1, <1>2, <1>3, <2>1, <2>3, <2>4, ActionSlotsAssumption
<1>4. CASE c # Corr(w)
  <2>1. ReservedIn(c)' = ReservedIn(c)
    BY <1>1, <1>4 DEF ReservedIn, CommitSlot, Corr
  <2>2. counter'[c] = counter[c]
    BY <1>1, <1>4 DEF CommitSlot
  <2>. QED
    BY <1>2, <2>1, <2>2
<1>. QED
  BY <1>3, <1>4

\* While a worker's transaction is open nobody else can write its counter.
LEMMA LockStep ==
  ASSUME SlotInv, [Next]_vars
  PROVE  LockedReadIsCurrent'
<1> USE ActionSlotsAssumption
    DEF SlotInv, TypeOK, LockedReadIsCurrent, InTransaction, Corr
<1>1. CASE UNCHANGED vars
  BY <1>1 DEF vars
<1>2. ASSUME NEW w \in Workers, NEW k \in Keys, Call(w, k)
      PROVE  LockedReadIsCurrent'
  BY <1>2 DEF Call
<1>3. ASSUME NEW w \in Workers, LockCounter(w) PROVE LockedReadIsCurrent'
  BY <1>3 DEF LockCounter, Available
<1>4. ASSUME NEW w \in Workers, FindReservation(w) PROVE LockedReadIsCurrent'
  BY <1>4 DEF FindReservation, EndTransaction
<1>5. ASSUME NEW w \in Workers, RefuseSlot(w) PROVE LockedReadIsCurrent'
  BY <1>5 DEF RefuseSlot, EndTransaction
<1>6. ASSUME NEW w \in Workers, InsertReservation(w)
      PROVE  LockedReadIsCurrent'
  BY <1>6 DEF InsertReservation
<1>7. ASSUME NEW w \in Workers, CommitSlot(w) PROVE LockedReadIsCurrent'
  BY <1>7 DEF CommitSlot, EndTransaction
<1>8. ASSUME NEW w \in Workers, Return(w) PROVE LockedReadIsCurrent'
  BY <1>8 DEF Return
<1>9. ASSUME NEW w \in Workers, Crash(w) PROVE LockedReadIsCurrent'
  BY <1>9 DEF Crash, Rollback, EndTransaction
<1>. QED
  BY <1>1, <1>2, <1>3, <1>4, <1>5, <1>6, <1>7, <1>8, <1>9 DEF Next, Reserve

\* Every step keeps the strengthened invariant.
LEMMA SlotStep == SlotInv /\ [Next]_vars => SlotInv'
<1> SUFFICES ASSUME SlotInv, [Next]_vars PROVE SlotInv'
  OBVIOUS
<1>1. TypeOK'
  BY TypeStep DEF SlotInv
<1>2. LockedReadIsCurrent'
  BY LockStep
<1>3. CASE \E w \in Workers : CommitSlot(w)
  <2>1. PICK w \in Workers : CommitSlot(w)
    BY <1>3
  <2>2. CountExact'
    BY <2>1, CommitCounts
  <2>3. GrantedIsDurable'
    BY <2>1 DEF SlotInv, TypeOK, GrantedIsDurable, CommitSlot
  <2>4. InsertHasRoom'
    <3>1. SUFFICES ASSUME NEW v \in Workers, pc'[v] = "inserted"
                   PROVE  key'[v] \notin reservations' /\ seen'[v] < Limit
      BY DEF InsertHasRoom
    <3>2. v # w /\ pc[v] = "inserted" /\ key' = key /\ seen' = seen
      BY <2>1, <3>1 DEF CommitSlot, SlotInv, TypeOK
    <3>3. key[v] # key[w]
      BY <2>1, <3>2
         DEF SlotInv, LockedReadIsCurrent, InTransaction, CommitSlot, Corr
    <3>. QED
      BY <2>1, <3>2, <3>3 DEF SlotInv, InsertHasRoom, CommitSlot
  <2>. QED
    BY <1>1, <1>2, <2>2, <2>3, <2>4 DEF SlotInv
<1>4. CASE ~ \E w \in Workers : CommitSlot(w)
  <2>1. UNCHANGED <<counter, reservations>>
    BY <1>4 DEF vars, Next, Reserve, Call, LockCounter, FindReservation,
               RefuseSlot, InsertReservation, Return, Crash
  <2>2. CountExact'
    BY <2>1 DEF SlotInv, CountExact, ReservedIn
  <2>3. GrantedIsDurable' /\ InsertHasRoom'
    <3> USE DEF SlotInv, TypeOK, GrantedIsDurable, InsertHasRoom
    <3>1. CASE UNCHANGED vars
      BY <3>1 DEF vars
    <3>2. ASSUME NEW w \in Workers, NEW k \in Keys, Call(w, k)
          PROVE  GrantedIsDurable' /\ InsertHasRoom'
      BY <3>2 DEF Call
    <3>3. ASSUME NEW w \in Workers,
                 \/ LockCounter(w) \/ FindReservation(w) \/ RefuseSlot(w)
                 \/ Return(w) \/ Crash(w)
          PROVE  GrantedIsDurable' /\ InsertHasRoom'
      BY <3>3 DEF LockCounter, FindReservation, RefuseSlot, Return, Crash
    <3>4. ASSUME NEW w \in Workers, InsertReservation(w)
          PROVE  GrantedIsDurable' /\ InsertHasRoom'
      BY <3>4, ActionSlotsAssumption DEF InsertReservation, AtLimit
    <3>. QED
      BY <1>4, <3>1, <3>2, <3>3, <3>4 DEF Next, Reserve
  <2>. QED
    BY <1>1, <1>2, <2>2, <2>3 DEF SlotInv
<1>. QED
  BY <1>3, <1>4

-----------------------------------------------------------------------------
\* The variables keep their types.
THEOREM TypeCorrect == Spec => []TypeOK
<1>1. Init => TypeOK
  BY InitSlotInv DEF SlotInv
<1>2. TypeOK /\ [Next]_vars => TypeOK'
  BY TypeStep
<1>. QED
  BY <1>1, <1>2, PTL DEF Spec

\* reserve_action_slot never hands out more than Limit slots of a
\* correlation, and its counter agrees with its reservation rows.
THEOREM SlotsBounded == Spec => []SlotsWithinLimit
<1>1. SlotInv => SlotsWithinLimit
  BY DEF SlotInv, CountExact, SlotsWithinLimit
<1>. QED
  BY InitSlotInv, SlotStep, <1>1, PTL DEF Spec

\* A caller that was told to proceed has a durable reservation.
THEOREM GrantsDurable == Spec => []GrantedIsDurable
<1>1. SlotInv => GrantedIsDurable
  BY DEF SlotInv
<1>. QED
  BY InitSlotInv, SlotStep, <1>1, PTL DEF Spec

\* A caller turned away stays rightly so: no slot of its correlation is left to
\* be granted, to its own key or any other.
LEMMA RefusedStep ==
  ASSUME SlotInv, RefusedOnlyWhenFull, [Next]_vars
  PROVE  RefusedOnlyWhenFull'
<1> SUFFICES ASSUME NEW v \in Workers, pc'[v] = "refused"
             PROVE  /\ key'[v] \notin reservations'
                    /\ Cardinality({k \in reservations' :
                            CorrelationOf[k] = CorrelationOf[key'[v]]}) = Limit
  BY DEF RefusedOnlyWhenFull, Corr, ReservedIn
<1> USE ActionSlotsAssumption DEF SlotInv, TypeOK, CountExact
<1>1. /\ key'[v] = key[v] /\ key[v] \in Keys /\ Corr(v) \in Correlations
      /\ pc[v] = "refused" \/ RefuseSlot(v)
  BY DEF Next, vars, Call, Reserve, LockCounter, FindReservation, RefuseSlot,
         InsertReservation, CommitSlot, Return, Crash, Corr
<1>2. key[v] \notin reservations /\ Cardinality(ReservedIn(Corr(v))) = Limit
  <2>1. CASE pc[v] = "refused"
    BY <2>1 DEF RefusedOnlyWhenFull
  <2>2. CASE RefuseSlot(v)
    BY <1>1, <2>2 DEF RefuseSlot, AtLimit, LockedReadIsCurrent, InTransaction
  <2>. QED
    BY <1>1, <2>1, <2>2
<1>3. CASE \E w \in Workers : CommitSlot(w)
  <2>1. PICK w \in Workers : CommitSlot(w)
    BY <1>3
  <2>2. /\ seen[w] = Cardinality(ReservedIn(Corr(w))) /\ seen[w] < Limit
        /\ key[w] \in Keys /\ reservations' = reservations \cup {key[w]}
    BY <2>1 DEF CommitSlot, LockedReadIsCurrent, InsertHasRoom,
                InTransaction, Corr
  <2>3. Corr(w) # Corr(v)
    BY <1>2, <2>2
  <2>4. {k \in reservations' : CorrelationOf[k] = Corr(v)}
          = ReservedIn(Corr(v))
    BY <2>2, <2>3 DEF ReservedIn, Corr
  <2>5. key[v] # key[w]
    BY <2>3 DEF Corr
  <2>. QED
    BY <1>1, <1>2, <2>2, <2>4, <2>5 DEF Corr
<1>4. CASE ~\E w \in Workers : CommitSlot(w)
  <2>1. reservations' = reservations
    BY <1>4 DEF Next, vars, Call, Reserve, LockCounter, FindReservation,
                RefuseSlot, InsertReservation, Return, Crash
  <2>. QED
    BY <1>1, <1>2, <2>1 DEF ReservedIn, Corr
<1>. QED
  BY <1>3, <1>4

\* The limit turns nobody away while a slot is left.
THEOREM RefusalsRight == Spec => []RefusedOnlyWhenFull
<1> DEFINE Inv == SlotInv /\ RefusedOnlyWhenFull
<1>1. Init => Inv
  BY InitSlotInv DEF Init, RefusedOnlyWhenFull
<1>2. Inv /\ [Next]_vars => Inv'
  BY SlotStep, RefusedStep
<1>. QED
  BY <1>1, <1>2, PTL DEF Spec

\* Every step of the row-locked code is a Grant of the bounded allocator or
\* leaves the reservations alone.
THEOREM RefinesBoundedSlots == Spec => ImplementsBoundedSlots
<1>1. Init => Slots!Init
  BY DEF Init, Slots!Init
<1>2. SlotInv /\ [Next]_vars => [Slots!Next]_reservations
  <2> SUFFICES ASSUME SlotInv, [Next]_vars PROVE [Slots!Next]_reservations
    OBVIOUS
  <2>1. CASE \E w \in Workers : CommitSlot(w)
    <3>1. PICK w \in Workers : CommitSlot(w)
      BY <2>1
    <3>2. /\ key[w] \in Keys /\ key[w] \notin reservations
          /\ seen[w] = counter[Corr(w)] /\ seen[w] < Limit
          /\ Corr(w) \in Correlations
      BY <3>1, ActionSlotsAssumption
         DEF SlotInv, TypeOK, LockedReadIsCurrent, InsertHasRoom,
             CommitSlot, InTransaction, Corr
    <3>3. Cardinality(ReservedIn(Corr(w))) = counter[Corr(w)]
      BY <3>2 DEF SlotInv, CountExact
    <3>4. Slots!Cardinality(Slots!HeldBy(Corr(w)))
            = Cardinality(ReservedIn(Corr(w)))
      BY DEF Slots!HeldBy, ReservedIn, Slots!Cardinality, Cardinality
    <3>5. ~Slots!Full(CorrelationOf[key[w]])
      BY <3>2, <3>3, <3>4, ActionSlotsAssumption
         DEF Slots!Full, Corr, SlotInv, TypeOK
    <3>6. Slots!Grant(key[w])
      BY <3>1, <3>2, <3>5 DEF Slots!Grant, CommitSlot
    <3>. QED
      BY <3>2, <3>6 DEF Slots!Next
  <2>2. CASE ~ \E w \in Workers : CommitSlot(w)
    BY <2>2 DEF vars, Next, Reserve, Call, LockCounter, FindReservation,
               RefuseSlot, InsertReservation, Return, Crash
  <2>. QED
    BY <2>1, <2>2
<1>. QED
  BY InitSlotInv, SlotStep, <1>1, <1>2, PTL
     DEF Spec, ImplementsBoundedSlots, Slots!Spec

=============================================================================
