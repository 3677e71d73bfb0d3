----------------------- MODULE SideEffectLedger_proofs -----------------------
(***************************************************************************)
(* The safety of run_idempotent() for every set of workers and keys.       *)
(*                                                                         *)
(* None of the properties is inductive. What they rest on is that a        *)
(* primary key identifies one reservation: RowsOwned says that a row a     *)
(* caller still has to complete or delete by its primary key is not        *)
(* somebody's completed one. With prompt calls, ReservationHeld says more: *)
(* a running caller's row is still there and too young to be reclaimed,    *)
(* because what another caller is about to reclaim (ReclaimsOld) is the    *)
(* very reservation it judged too old.                                     *)
(***************************************************************************)
EXTENDS SideEffectLedger, FiniteSetTheorems, TLAPS

-----------------------------------------------------------------------------
(* Primary keys *)

\* A union has at most as many elements as its parts together.
LEMMA UnionBound ==
  ASSUME NEW S, NEW T, IsFiniteSet(S), IsFiniteSet(T)
  PROVE  /\ IsFiniteSet(S \cup T)
         /\ Cardinality(S \cup T) <= Cardinality(S) + Cardinality(T)
<1>1. /\ IsFiniteSet(S \cup T)
      /\ Cardinality(S \cup T)
           = Cardinality(S) + Cardinality(T) - Cardinality(S \cap T)
  BY FS_Union, Zenon
<1>2. IsFiniteSet(S \cap T)
  BY FS_Intersection, Zenon
<1>3. /\ Cardinality(S) \in Nat /\ Cardinality(T) \in Nat
      /\ Cardinality(S \cap T) \in Nat
  BY <1>2, FS_CardinalityType, Zenon
<1>. QED
  BY <1>1, <1>3

\* The bound on primary keys leaves one that nobody remembers: keys hold one
\* each and workers two.
LEMMA NewIdFresh ==
  ASSUME TypeOK
  PROVE  NewId \in 1..MaxRows /\ NewId \notin Remembered
<1> DEFINE InRows == {row[k].id : k \in Keys}
           Mine == {mine[w] : w \in Workers}
           Read == {existing[w].id : w \in Workers}
<1>1. IsFiniteSet(InRows) /\ Cardinality(InRows) <= Cardinality(Keys)
  <2> DEFINE f == [k \in Keys |-> row[k].id]
  <2>1. f \in Surjection(Keys, InRows)
    BY DEF Surjection
  <2>. QED
    BY <2>1, FS_Surjection, SideEffectLedgerAssumption
       DEF SideEffectLedgerAssumption
<1>2. IsFiniteSet(Mine) /\ Cardinality(Mine) <= Cardinality(Workers)
  <2> DEFINE f == [w \in Workers |-> mine[w]]
  <2>1. f \in Surjection(Workers, Mine)
    BY DEF Surjection
  <2>. QED
    BY <2>1, FS_Surjection, SideEffectLedgerAssumption
       DEF SideEffectLedgerAssumption
<1>3. IsFiniteSet(Read) /\ Cardinality(Read) <= Cardinality(Workers)
  <2> DEFINE f == [w \in Workers |-> existing[w].id]
  <2>1. f \in Surjection(Workers, Read)
    BY DEF Surjection
  <2>. QED
    BY <2>1, FS_Surjection, SideEffectLedgerAssumption
       DEF SideEffectLedgerAssumption
<1> HIDE DEF InRows, Mine, Read
<1>4. /\ IsFiniteSet(InRows \cup Mine)
      /\ Cardinality(InRows \cup Mine)
           <= Cardinality(InRows) + Cardinality(Mine)
  BY <1>1, <1>2, UnionBound
<1>5. /\ IsFiniteSet((InRows \cup Mine) \cup Read)
      /\ Cardinality((InRows \cup Mine) \cup Read)
           <= Cardinality(InRows \cup Mine) + Cardinality(Read)
  BY <1>3, <1>4, UnionBound
<1>6. Remembered = (InRows \cup Mine) \cup Read
  BY DEF Remembered, InRows, Mine, Read
<1>7. Cardinality(Remembered) < MaxRows
  <2>1. /\ Cardinality(InRows) \in Nat /\ Cardinality(Mine) \in Nat
        /\ Cardinality(Read) \in Nat /\ Cardinality(InRows \cup Mine) \in Nat
        /\ Cardinality((InRows \cup Mine) \cup Read) \in Nat
        /\ Cardinality(Keys) \in Nat /\ Cardinality(Workers) \in Nat
    BY <1>1, <1>2, <1>3, <1>4, <1>5, FS_CardinalityType,
       SideEffectLedgerAssumption
  <2>. QED
    BY <1>1, <1>2, <1>3, <1>4, <1>5, <1>6, <2>1, SideEffectLedgerAssumption
<1>8. ~ (1..MaxRows \subseteq Remembered)
  <2>1. Cardinality(1..MaxRows) = MaxRows
    BY FS_Interval, SideEffectLedgerAssumption
  <2>2. IsFiniteSet(Remembered)
    BY <1>5, <1>6
  <2>. QED
    BY <1>7, <2>1, <2>2, FS_Subset, FS_CardinalityType,
       SideEffectLedgerAssumption
<1>. QED
  BY <1>8 DEF NewId

-----------------------------------------------------------------------------
(* Types, and whose rows are whose *)

\* No two callers remember the same reservation as their own.
MineDistinct ==
  \A v, w \in Workers : v # w /\ mine[v] # 0 => mine[v] # mine[w]

\* A caller between its reservation and its completion or deletion of it
\* remembers its primary key, and a row of that key is not completed.
RowsOwned ==
  \A w \in Workers :
    pc[w] \in Reserving =>
      /\ mine[w] # 0
      /\ row[key[w]].id = mine[w] => ~row[key[w]].done

\* An action recorded, or about to be recorded or answered, has taken effect.
DoneHasEffect ==
  /\ \A k \in Keys : row[k].done => effects[k] > 0
  /\ \A w \in Workers :
       pc[w] \in {"complete", "returned"} => effects[key[w]] > 0

LedgerInv == TypeOK /\ MineDistinct /\ RowsOwned /\ DoneHasEffect

LEMMA InitLedgerInv == Init => LedgerInv
<1> SUFFICES ASSUME Init PROVE LedgerInv
  OBVIOUS
<1>1. TypeOK
  BY SideEffectLedgerAssumption DEF Init, TypeOK, Stages, Rows, NoRow
<1>. QED
  BY <1>1 DEF LedgerInv, Init, MineDistinct, RowsOwned, DoneHasEffect,
              Reserving, NoRow

\* What Look leaves behind, without its cases.
LEMMA LookStep ==
  ASSUME TypeOK, NEW w \in Workers, Look(w)
  PROVE  /\ existing' = [existing EXCEPT ![w] = row[key[w]]]
         /\ round' \in [Workers -> 0..1]
         /\ \E stage \in {"insert", "returned", "reclaim", "raised"} :
              /\ pc' = [pc EXCEPT ![w] = stage]
              /\ stage = "returned" => row[key[w]].done
              /\ stage = "reclaim" =>
                   row[key[w]] # NoRow /\ Abandoned(w, row[key[w]])
         /\ UNCHANGED <<now, row, key, startedAt, mine, history>>
<1> USE DEF TypeOK
<1>1. CASE row[key[w]] = NoRow
  BY <1>1 DEF Look, Goto, TryAgain
<1>2. CASE row[key[w]] # NoRow /\ row[key[w]].done
  BY <1>2 DEF Look, Goto, Recorded
<1>3. CASE /\ row[key[w]] # NoRow /\ ~row[key[w]].done
           /\ Abandoned(w, row[key[w]])
  <2>1. pc' = [pc EXCEPT ![w] = "reclaim"]
    BY <1>3 DEF Look, Goto, Recorded
  <2>. QED
    BY <1>3, <2>1 DEF Look
<1>4. CASE /\ row[key[w]] # NoRow /\ ~row[key[w]].done
           /\ ~Abandoned(w, row[key[w]])
  <2>1. pc' = [pc EXCEPT ![w] = "raised"]
    BY <1>4 DEF Look, Goto, Recorded
  <2>. QED
    BY <1>4, <2>1 DEF Look
<1>. QED
  BY <1>1, <1>2, <1>3, <1>4

\* Every step keeps the variables' types.
LEMMA TypeStep == ASSUME TypeOK, [Next]_vars PROVE TypeOK'
<1> USE SideEffectLedgerAssumption DEF TypeOK, Stages, Rows, NoRow
<1>1. CASE UNCHANGED vars
  BY <1>1 DEF vars, history
<1>2. ASSUME NEW w \in Workers, NEW k \in Keys, Call(w, k) PROVE TypeOK'
  BY <1>2 DEF Call, Goto, history
<1>3. ASSUME NEW w \in Workers, Reserve(w) PROVE TypeOK'
  BY <1>3, NewIdFresh DEF Reserve, Goto, history
<1>4. ASSUME NEW w \in Workers, Collide(w) PROVE TypeOK'
  BY <1>4 DEF Collide, Goto, history
<1>5. ASSUME NEW w \in Workers, Look(w) PROVE TypeOK'
  BY <1>5, LookStep DEF history
<1>6. ASSUME NEW w \in Workers, Reclaim(w) PROVE TypeOK'
  BY <1>6 DEF Reclaim, Goto, history, TryAgain
<1>7. ASSUME NEW w \in Workers, Perform(w) PROVE TypeOK'
  BY <1>7 DEF Perform, Goto, history, TakeEffect
<1>8. ASSUME NEW w \in Workers, Raise(w) PROVE TypeOK'
  <2>1. /\ pc[w] = "run"
        /\ pc' = [pc EXCEPT ![w] = "undo"]
        /\ \/ UNCHANGED <<effects, unrecorded>>
           \/ /\ effects' = [effects EXCEPT ![key[w]] = @ + 1]
              /\ unrecorded' = [unrecorded EXCEPT ![key[w]] = @ + 1]
        /\ UNCHANGED <<now, row, key, startedAt, round, existing, mine,
                       crashes>>
    BY <1>8 DEF Raise, Goto, TakeEffect, LoseRecord
  <2>2. pc' \in [Workers -> Stages]
    BY <2>1
  <2>3. effects' \in [Keys -> Nat] /\ unrecorded' \in [Keys -> Nat]
    BY <2>1
  <2>. QED
    BY <2>1, <2>2, <2>3
<1>9. ASSUME NEW w \in Workers, Undo(w) PROVE TypeOK'
  BY <1>9 DEF Undo, Goto, history
<1>10. ASSUME NEW w \in Workers, Complete(w) PROVE TypeOK'
  BY <1>10 DEF Complete, Goto, history
<1>11. ASSUME NEW w \in Workers, Return(w) PROVE TypeOK'
  BY <1>11 DEF Return, Forget, Goto, history
<1>12. ASSUME NEW w \in Workers, Crash(w) PROVE TypeOK'
  BY <1>12 DEF Crash, Forget, Goto, history, LoseRecord
<1>13. CASE Tick
  BY <1>13 DEF Tick, history
<1>. QED
  BY <1>1, <1>2, <1>3, <1>4, <1>5, <1>6, <1>7, <1>8, <1>9, <1>10, <1>11,
     <1>12, <1>13 DEF Next, Step

\* A new reservation's primary key is nobody's.
LEMMA ReserveIsFresh ==
  ASSUME TypeOK, NEW w \in Workers, Reserve(w)
  PROVE  /\ mine'[w] # 0
         /\ \A v \in Workers : mine[v] # mine'[w] /\ existing[v].id # mine'[w]
         /\ mine' = [mine EXCEPT ![w] = mine'[w]]
         /\ row' = [row EXCEPT ![key[w]] =
                      [id |-> mine'[w], at |-> now, done |-> FALSE]]
<1>1. mine'[w] = NewId
  BY DEF Reserve, TypeOK
<1>2. NewId \in 1..MaxRows /\ NewId \notin Remembered
  BY NewIdFresh
<1>. QED
  BY <1>1, <1>2, SideEffectLedgerAssumption DEF Reserve, TypeOK, Remembered

\* Every step keeps the strengthened invariant.
LEMMA LedgerStep == ASSUME LedgerInv, [Next]_vars PROVE LedgerInv'
<1>0. TypeOK'
  BY TypeStep DEF LedgerInv
<1> USE SideEffectLedgerAssumption
    DEF LedgerInv, TypeOK, Stages, Rows, NoRow, MineDistinct, RowsOwned,
        DoneHasEffect, Reserving
<1>1. CASE UNCHANGED vars
  BY <1>1, <1>0 DEF vars, history
<1>2. ASSUME NEW w \in Workers, NEW k \in Keys, Call(w, k) PROVE LedgerInv'
  BY <1>2, <1>0 DEF Call, Goto, history
<1>3. ASSUME NEW w \in Workers, Reserve(w) PROVE LedgerInv'
  <2>1. /\ mine'[w] # 0
        /\ \A v \in Workers : mine[v] # mine'[w]
        /\ mine' = [mine EXCEPT ![w] = mine'[w]]
        /\ row' = [row EXCEPT ![key[w]] =
                     [id |-> mine'[w], at |-> now, done |-> FALSE]]
    BY <1>3, ReserveIsFresh DEF LedgerInv
  <2>2. /\ row[key[w]] = NoRow
        /\ pc' = [pc EXCEPT ![w] = "run"]
        /\ UNCHANGED <<key, effects>>
    BY <1>3 DEF Reserve, Goto, history
  <2>3. MineDistinct'
    BY <2>1
  <2>4. RowsOwned'
    BY <2>1, <2>2
  <2>5. DoneHasEffect'
    BY <2>1, <2>2
  <2>. QED
    BY <1>0, <2>3, <2>4, <2>5
<1>4. ASSUME NEW w \in Workers, Collide(w) PROVE LedgerInv'
  BY <1>4, <1>0 DEF Collide, Goto, history
<1>5. ASSUME NEW w \in Workers, Look(w) PROVE LedgerInv'
  <2>1. PICK stage \in {"insert", "returned", "reclaim", "raised"} :
          /\ pc' = [pc EXCEPT ![w] = stage]
          /\ stage = "returned" => row[key[w]].done
    BY <1>5, LookStep DEF LedgerInv
  <2>2. UNCHANGED <<row, key, mine, effects>>
    BY <1>5 DEF Look, history
  <2>. QED
    BY <1>0, <2>1, <2>2
<1>6. ASSUME NEW w \in Workers, Reclaim(w) PROVE LedgerInv'
  BY <1>6, <1>0 DEF Reclaim, Goto, history, TryAgain
<1>7. ASSUME NEW w \in Workers, Perform(w) PROVE LedgerInv'
  BY <1>7, <1>0 DEF Perform, Goto, history, TakeEffect
<1>8. ASSUME NEW w \in Workers, Raise(w) PROVE LedgerInv'
  <2>1. /\ pc[w] = "run"
        /\ pc' = [pc EXCEPT ![w] = "undo"]
        /\ \/ UNCHANGED <<effects, unrecorded>>
           \/ /\ effects' = [effects EXCEPT ![key[w]] = @ + 1]
              /\ unrecorded' = [unrecorded EXCEPT ![key[w]] = @ + 1]
        /\ UNCHANGED <<now, row, key, startedAt, round, existing, mine,
                       crashes>>
    BY <1>8 DEF Raise, Goto, TakeEffect, LoseRecord
  <2>. QED
    BY <1>0, <2>1
<1>9. ASSUME NEW w \in Workers, Undo(w) PROVE LedgerInv'
  BY <1>9, <1>0 DEF Undo, Goto, history
<1>10. ASSUME NEW w \in Workers, Complete(w) PROVE LedgerInv'
  BY <1>10, <1>0 DEF Complete, Goto, history, OwnsRow
<1>11. ASSUME NEW w \in Workers, Return(w) PROVE LedgerInv'
  BY <1>11, <1>0 DEF Return, Forget, Goto, history
<1>12. ASSUME NEW w \in Workers, Crash(w) PROVE LedgerInv'
  BY <1>12, <1>0 DEF Crash, Forget, Goto, history
<1>13. CASE Tick
  BY <1>13, <1>0 DEF Tick, history
<1>. QED
  BY <1>1, <1>2, <1>3, <1>4, <1>5, <1>6, <1>7, <1>8, <1>9, <1>10, <1>11,
     <1>12, <1>13 DEF Next, Step

\* The variables keep their types.
THEOREM TypeCorrect == Spec => []TypeOK
<1>1. Init => TypeOK
  BY InitLedgerInv DEF LedgerInv
<1>2. TypeOK /\ [Next]_vars => TypeOK'
  BY TypeStep
<1>. QED
  BY <1>1, <1>2, PTL DEF Spec

\* A call that returns normally speaks of an action that has taken effect,
\* whatever crashes, raises or is reclaimed.
THEOREM AnswersAreDone == Spec => []AnsweredIsDone
<1>1. Init => LedgerInv
  BY InitLedgerInv
<1>2. LedgerInv /\ [Next]_vars => LedgerInv'
  BY LedgerStep
<1>3. LedgerInv => AnsweredIsDone
  BY DEF LedgerInv, DoneHasEffect, AnsweredIsDone
<1>. QED
  BY <1>1, <1>2, <1>3, PTL DEF Spec

\* A completed row is never deleted or replaced.
THEOREM RecordsStay == Spec => RecordIsFinal
<1>1. Init => LedgerInv
  BY InitLedgerInv
<1>2. LedgerInv /\ [Next]_vars => LedgerInv'
  BY LedgerStep
<1>3. LedgerInv /\ [Next]_vars =>
        [\A k \in Keys : row[k].done => row'[k] = row[k]]_row
  <2> SUFFICES ASSUME LedgerInv, [Next]_vars, NEW k \in Keys, row[k].done
               PROVE  row'[k] = row[k]
    OBVIOUS
  <2> USE DEF LedgerInv, TypeOK, Rows, NoRow
  <2>1. ASSUME NEW w \in Workers, Reserve(w) PROVE row'[k] = row[k]
    BY <2>1 DEF Reserve
  <2>2. ASSUME NEW w \in Workers, Reclaim(w) PROVE row'[k] = row[k]
    BY <2>2 DEF Reclaim, StillAbandoned
  <2>3. ASSUME NEW w \in Workers, Undo(w) PROVE row'[k] = row[k]
    BY <2>3 DEF Undo, OwnsRow, RowsOwned, Reserving
  <2>4. ASSUME NEW w \in Workers, Complete(w) PROVE row'[k] = row[k]
    BY <2>4 DEF Complete, OwnsRow, RowsOwned, Reserving
  <2>5. CASE UNCHANGED row
    BY <2>5
  <2>. QED
    BY <2>1, <2>2, <2>3, <2>4, <2>5
       DEF Next, Step, Call, Collide, Look, Perform, Raise, Return, Crash,
           Tick, vars
<1>. QED
  BY <1>1, <1>2, <1>3, PTL DEF Spec, RecordIsFinal

-----------------------------------------------------------------------------
(* Prompt calls *)

\* A running caller's reservation is still there and not stale yet.
ReservationHeld ==
  \A w \in Workers :
    pc[w] \in Reserving =>
      /\ row[key[w]].id = mine[w]
      /\ now <= row[key[w]].at + StaleAfter

\* What a caller is about to reclaim is a reservation, stale when the call
\* began; if the key's row still has its primary key, it is that reservation.
ReclaimsOld ==
  \A w \in Workers :
    /\ startedAt[w] <= now
    /\ pc[w] = "reclaim" =>
         /\ existing[w].id # 0
         /\ Abandoned(w, existing[w])
         /\ row[key[w]].id = existing[w].id => row[key[w]].at = existing[w].at

\* Only the absence of a row has no primary key.
RowsHaveIds == \A k \in Keys : row[k].id = 0 => row[k] = NoRow

PromptInv == LedgerInv /\ RowsHaveIds /\ ReclaimsOld /\ ReservationHeld

LEMMA InitPromptInv == Init => PromptInv
  BY InitLedgerInv, SideEffectLedgerAssumption
     DEF Init, PromptInv, RowsHaveIds, ReclaimsOld, ReservationHeld, NoRow,
         Reserving

\* A prompt caller's row is not what another caller reclaims.
LEMMA ReclaimsNoRunner ==
  ASSUME PromptInv, NEW w \in Workers, pc[w] = "reclaim",
         StillAbandoned(existing[w], key[w]),
         NEW v \in Workers, pc[v] \in Reserving
  PROVE  key[v] # key[w]
<1> SUFFICES ASSUME key[v] = key[w] PROVE FALSE
  OBVIOUS
<1>1. row[key[w]].at < startedAt[w] - StaleAfter
  BY DEF PromptInv, ReclaimsOld, StillAbandoned, Abandoned
<1>2. now <= row[key[w]].at + StaleAfter /\ startedAt[w] <= now
  BY DEF PromptInv, ReservationHeld, ReclaimsOld
<1>. QED
  BY <1>1, <1>2, SideEffectLedgerAssumption
     DEF PromptInv, LedgerInv, TypeOK, Rows

\* As long as calls are prompt, every step keeps the reservations of running
\* callers.
LEMMA PromptStep ==
  ASSUME PromptCalls, PromptInv, [Next]_vars
  PROVE  PromptInv'
<1>0. LedgerInv'
  BY LedgerStep DEF PromptInv
<1> USE SideEffectLedgerAssumption
    DEF PromptInv, LedgerInv, TypeOK, Stages, Rows, NoRow, Reserving,
        RowsHaveIds, ReclaimsOld, ReservationHeld, Abandoned
<1>1. CASE UNCHANGED vars
  BY <1>1, <1>0 DEF vars, history
<1>2. ASSUME NEW w \in Workers, NEW k \in Keys, Call(w, k) PROVE PromptInv'
  BY <1>2, <1>0 DEF Call, Goto, history
<1>3. ASSUME NEW w \in Workers, Reserve(w) PROVE PromptInv'
  <2>1. /\ mine'[w] # 0
        /\ \A v \in Workers : existing[v].id # mine'[w]
        /\ mine' = [mine EXCEPT ![w] = mine'[w]]
        /\ row' = [row EXCEPT ![key[w]] =
                     [id |-> mine'[w], at |-> now, done |-> FALSE]]
    BY <1>3, ReserveIsFresh
  <2>2. /\ row[key[w]] = NoRow
        /\ pc' = [pc EXCEPT ![w] = "run"]
        /\ UNCHANGED <<key, now, startedAt, existing>>
    BY <1>3 DEF Reserve, Goto, history
  <2>3. RowsHaveIds'
    BY <2>1, <2>2
  <2>4. ReclaimsOld'
    BY <2>1, <2>2
  <2>5. ReservationHeld'
    BY <2>1, <2>2 DEF RowsOwned
  <2>. QED
    BY <1>0, <2>3, <2>4, <2>5
<1>4. ASSUME NEW w \in Workers, Collide(w) PROVE PromptInv'
  BY <1>4, <1>0 DEF Collide, Goto, history
<1>5. ASSUME NEW w \in Workers, Look(w) PROVE PromptInv'
  <2>1. PICK stage \in {"insert", "returned", "reclaim", "raised"} :
          /\ pc' = [pc EXCEPT ![w] = stage]
          /\ stage = "reclaim" =>
               row[key[w]] # NoRow /\ Abandoned(w, row[key[w]])
    BY <1>5, LookStep
  <2>2. /\ existing' = [existing EXCEPT ![w] = row[key[w]]]
        /\ UNCHANGED <<now, row, key, startedAt, mine>>
    BY <1>5 DEF Look, history
  <2>. QED
    BY <1>0, <2>1, <2>2
<1>6. ASSUME NEW w \in Workers, Reclaim(w) PROVE PromptInv'
  <2>1. /\ UNCHANGED <<now, key, startedAt, existing, mine>>
        /\ \E stage \in {"insert", "raised"} : pc' = [pc EXCEPT ![w] = stage]
    BY <1>6 DEF Reclaim, TryAgain, Goto, history
  <2>2. CASE StillAbandoned(existing[w], key[w])
    <3>1. row' = [row EXCEPT ![key[w]] = NoRow]
      BY <1>6, <2>2 DEF Reclaim
    <3>2. \A v \in Workers : pc[v] \in Reserving => key[v] # key[w]
      BY <1>6, <2>2, ReclaimsNoRunner DEF Reclaim
    <3>. QED
      BY <1>0, <2>1, <3>1, <3>2
  <2>3. CASE ~StillAbandoned(existing[w], key[w])
    BY <1>0, <1>6, <2>1, <2>3 DEF Reclaim
  <2>. QED
    BY <2>2, <2>3
<1>7. ASSUME NEW w \in Workers, Perform(w) PROVE PromptInv'
  BY <1>7, <1>0 DEF Perform, Goto, history, TakeEffect
<1>8. ASSUME NEW w \in Workers, Raise(w) PROVE PromptInv'
  <2>1. /\ pc[w] = "run"
        /\ pc' = [pc EXCEPT ![w] = "undo"]
        /\ UNCHANGED <<now, row, key, startedAt, existing, mine>>
    BY <1>8 DEF Raise, Goto
  <2>. QED
    BY <1>0, <2>1
<1>9. ASSUME NEW w \in Workers, Undo(w) PROVE PromptInv'
  <2>1. /\ pc[w] = "undo"
        /\ pc' = [pc EXCEPT ![w] = "raised"]
        /\ UNCHANGED <<now, key, startedAt, existing, mine>>
    BY <1>9 DEF Undo, Goto, history
  <2>2. row' = [row EXCEPT ![key[w]] = NoRow]
    BY <1>9, <2>1 DEF Undo, OwnsRow
  <2>3. \A v \in Workers : pc'[v] \in Reserving => key[v] # key[w]
    BY <2>1 DEF MineDistinct, RowsOwned
  <2>. QED
    BY <1>0, <2>1, <2>2, <2>3
<1>10. ASSUME NEW w \in Workers, Complete(w) PROVE PromptInv'
  <2>1. /\ pc[w] = "complete"
        /\ pc' = [pc EXCEPT ![w] = "returned"]
        /\ row' = [row EXCEPT ![key[w]].done = TRUE]
        /\ UNCHANGED <<now, key, startedAt, existing, mine>>
    BY <1>10 DEF Complete, Goto, history, OwnsRow
  <2>2. \A k \in Keys : row'[k].id = row[k].id /\ row'[k].at = row[k].at
    BY <2>1
  <2>3. RowsHaveIds'
    <3>1. \A k \in Keys : k # key[w] => row'[k] = row[k]
      BY <2>1
    <3>2. row[key[w]].id # 0
      BY <2>1 DEF RowsOwned
    <3>. QED
      BY <2>2, <3>1, <3>2 DEF RowsHaveIds
  <2>4. ReclaimsOld'
    BY <2>1, <2>2
  <2>5. ReservationHeld'
    BY <2>1, <2>2
  <2>. QED
    BY <1>0, <2>3, <2>4, <2>5
<1>11. ASSUME NEW w \in Workers, Return(w) PROVE PromptInv'
  BY <1>11, <1>0 DEF Return, Forget, Goto, history
<1>12. ASSUME NEW w \in Workers, Crash(w) PROVE PromptInv'
  BY <1>12, <1>0 DEF Crash, Forget, Goto, history
<1>13. CASE Tick
  BY <1>13, <1>0 DEF Tick, history
<1>. QED
  BY <1>1, <1>2, <1>3, <1>4, <1>5, <1>6, <1>7, <1>8, <1>9, <1>10, <1>11,
     <1>12, <1>13 DEF Next, Step

\* Two callers never hold the same reservation.
LEMMA RunnersDiffer == PromptInv => OneRunner
  BY DEF PromptInv, ReservationHeld, LedgerInv, MineDistinct, RowsOwned,
         OneRunner

\* With prompt calls two callers never run the action of one key at a time.
THEOREM NoTwoRunners == PromptCalls => (Spec => []OneRunner)
<1> SUFFICES ASSUME PromptCalls PROVE Spec => []OneRunner
  OBVIOUS
<1>1. PromptInv /\ [Next]_vars => PromptInv'
  BY PromptStep
<1>. QED
  BY InitPromptInv, <1>1, RunnersDiffer, PTL DEF Spec

-----------------------------------------------------------------------------
(* Repetitions *)

\* A key with neither a record nor a worker about to make one has no effect
\* but those whose record was lost.
EffectsAccounted ==
  \A k \in Keys :
    /\ effects[k] <= 1 + unrecorded[k]
    /\ \/ row[k].done
       \/ \E w \in Workers : pc[w] = "complete" /\ key[w] = k
       \/ effects[k] <= unrecorded[k]

\* An effect is only added for a key all of whose effects have lost their
\* record, and a record is only removed with its effect accounted for.
LEMMA EffectsStep ==
  ASSUME PromptInv, EffectsAccounted, [Next]_vars
  PROVE  EffectsAccounted'
<1>0. OneRunner
  BY RunnersDiffer
<1> USE SideEffectLedgerAssumption
    DEF PromptInv, LedgerInv, TypeOK, Rows, NoRow, EffectsAccounted
<1>1. CASE UNCHANGED vars
  BY <1>1 DEF vars, history
<1>2. ASSUME NEW w \in Workers, NEW k \in Keys, Call(w, k)
      PROVE  EffectsAccounted'
  BY <1>2 DEF Call, Goto, history
<1>3. ASSUME NEW w \in Workers, Reserve(w) PROVE EffectsAccounted'
  BY <1>3 DEF Reserve, Goto, history
<1>4. ASSUME NEW w \in Workers, Collide(w) PROVE EffectsAccounted'
  BY <1>4 DEF Collide, Goto, history
<1>5. ASSUME NEW w \in Workers, Look(w) PROVE EffectsAccounted'
  <2>1. PICK stage \in {"insert", "returned", "reclaim", "raised"} :
          pc' = [pc EXCEPT ![w] = stage]
    BY <1>5, LookStep
  <2>2. pc[w] = "look" /\ UNCHANGED <<row, key, effects, unrecorded>>
    BY <1>5 DEF Look, history
  <2>. QED
    BY <2>1, <2>2
<1>6. ASSUME NEW w \in Workers, Reclaim(w) PROVE EffectsAccounted'
  <2>1. /\ pc[w] = "reclaim"
        /\ UNCHANGED <<key, effects, unrecorded>>
        /\ \E stage \in {"insert", "raised"} : pc' = [pc EXCEPT ![w] = stage]
    BY <1>6 DEF Reclaim, TryAgain, Goto, history
  <2>2. \A k \in Keys : row[k].done => row'[k].done
    BY <1>6 DEF Reclaim, StillAbandoned
  <2>. QED
    BY <2>1, <2>2
<1>7. ASSUME NEW w \in Workers, Perform(w) PROVE EffectsAccounted'
  <2>1. effects[key[w]] <= unrecorded[key[w]]
    BY <1>0, <1>7
       DEF Perform, OneRunner, ReservationHeld, RowsOwned, Reserving
  <2>. QED
    BY <1>7, <2>1 DEF Perform, Goto, TakeEffect
<1>8. ASSUME NEW w \in Workers, Raise(w) PROVE EffectsAccounted'
  BY <1>0, <1>8
     DEF Raise, Goto, TakeEffect, LoseRecord, OneRunner, ReservationHeld,
         RowsOwned, Reserving
<1>9. ASSUME NEW w \in Workers, Undo(w) PROVE EffectsAccounted'
  <2>1. /\ pc[w] = "undo"
        /\ pc' = [pc EXCEPT ![w] = "raised"]
        /\ UNCHANGED <<key, effects, unrecorded>>
    BY <1>9 DEF Undo, Goto, history
  <2>2. \A k \in Keys : row[k].done => row'[k].done
    BY <1>9 DEF Undo, OwnsRow, RowsOwned, Reserving
  <2>. QED
    BY <2>1, <2>2
<1>10. ASSUME NEW w \in Workers, Complete(w) PROVE EffectsAccounted'
  BY <1>10 DEF Complete, Goto, history, OwnsRow, ReservationHeld, Reserving
<1>11. ASSUME NEW w \in Workers, Return(w) PROVE EffectsAccounted'
  BY <1>11 DEF Return, Forget, Goto, history
<1>12. ASSUME NEW w \in Workers, Crash(w) PROVE EffectsAccounted'
  BY <1>12 DEF Crash, Forget, Goto, LoseRecord
<1>13. CASE Tick
  BY <1>13 DEF Tick, history
<1>. QED
  BY <1>1, <1>2, <1>3, <1>4, <1>5, <1>6, <1>7, <1>8, <1>9, <1>10, <1>11,
     <1>12, <1>13 DEF Next, Step

\* With prompt calls an action is repeated only as often as an effect of it
\* was left without a record: by a worker that died before writing it, or by
\* an fn() that raised after its commit. Neither is excluded.
THEOREM RepeatsAccounted ==
  PromptCalls => (Spec => []RepeatsOnlyAfterLostRecord)
<1> SUFFICES ASSUME PromptCalls PROVE Spec => []RepeatsOnlyAfterLostRecord
  OBVIOUS
<1> DEFINE Inv == PromptInv /\ EffectsAccounted
<1>1. Init => Inv
  BY InitPromptInv DEF Init, EffectsAccounted
<1>2. Inv /\ [Next]_vars => Inv'
  BY PromptStep, EffectsStep
<1>3. Inv => RepeatsOnlyAfterLostRecord
  BY DEF EffectsAccounted, RepeatsOnlyAfterLostRecord
<1>. QED
  BY <1>1, <1>2, <1>3, PTL DEF Spec

=============================================================================
