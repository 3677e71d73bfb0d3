-------------------------- MODULE SideEffectLedger --------------------------
(***************************************************************************)
(* run_idempotent() (automations/idempotency.py): the reserve-then-        *)
(* complete ledger around every automation action that is not protected by *)
(* a client_message_id. A call inserts an AutomationActionSideEffect row   *)
(* under the unique idempotency_key, runs fn(), and stamps the row         *)
(* completed; a call that finds the key taken answers from a completed     *)
(* row, deletes an abandoned one, or gives up.                             *)
(*                                                                         *)
(* Each step is one autocommitted statement. Callers are attempts of       *)
(* scheduled jobs: a job that raised or whose worker died comes back with  *)
(* the same key. The row of a deleted reservation is told from a later one *)
(* of the same key by its primary key, id; a primary key that no row and   *)
(* no call remembers any more is used again here, which keeps them few.    *)
(*                                                                         *)
(* Abstracted: the recorded result is the fact that the row is complete.   *)
(* fn() is one step that takes effect, or raises having done nothing, or   *)
(* raises after its effect was committed: the services commit first and    *)
(* broadcast, notify and publish afterwards.                               *)
(***************************************************************************)
EXTENDS Integers, FiniteSets

CONSTANTS
  Workers,      \* processes executing actions
  Keys,         \* idempotency keys
  StaleAfter,   \* STALE_RESERVATION_SECONDS, in clock ticks
  MaxTime,      \* bound: the last tick of the clock
  MaxRows,      \* bound: primary keys, enough for every row and call
  MaxCrashes,   \* bound: worker crashes
  MaxLate,      \* bound: fn() raises late while fewer records of a key are lost
  PromptCalls   \* assume fn() ends within StaleAfter of its reservation

ASSUME SideEffectLedgerAssumption ==
  /\ StaleAfter \in Nat
  /\ MaxTime \in Nat
  /\ IsFiniteSet(Keys)
  /\ IsFiniteSet(Workers)
  /\ MaxRows \in Nat
  /\ MaxRows >= Cardinality(Keys) + 2 * Cardinality(Workers) + 1
  /\ MaxCrashes \in Nat
  /\ MaxLate \in Nat
  /\ PromptCalls \in BOOLEAN

VARIABLES
  now,          \* the wall clock
  row,          \* the ledger row of each key, NoRow where there is none
  pc,           \* where each worker's call is
  key,          \* its idempotency_key
  startedAt,    \* its `now`, taken once
  round,        \* its _attempt: 0, then 1
  existing,     \* the row it read after losing the insert
  mine,         \* the id of the row it inserted
  effects,      \* history: how often the action of a key has taken effect
  unrecorded,   \* history: effects whose call ended without recording them
  crashes

vars == <<now, row, pc, key, startedAt, round, existing, mine,
          effects, unrecorded, crashes>>

NoRow == [id |-> 0, at |-> 0, done |-> FALSE]
Rows == [id : 0..MaxRows, at : 0..MaxTime, done : BOOLEAN]

Stages == {"idle", "insert", "look", "reclaim", "run", "undo", "complete",
           "returned", "raised"}

\* The stages between the reservation and its completion or deletion.
Reserving == {"run", "undo", "complete"}

Init ==
  /\ now = 0
  /\ row = [k \in Keys |-> NoRow]
  /\ pc = [w \in Workers |-> "idle"]
  /\ key \in [Workers -> Keys]
  /\ startedAt = [w \in Workers |-> 0]
  /\ round = [w \in Workers |-> 0]
  /\ existing = [w \in Workers |-> NoRow]
  /\ mine = [w \in Workers |-> 0]
  /\ effects = [k \in Keys |-> 0]
  /\ unrecorded = [k \in Keys |-> 0]
  /\ crashes = 0

Goto(w, stage) == pc' = [pc EXCEPT ![w] = stage]

history == <<effects, unrecorded, crashes>>

-----------------------------------------------------------------------------
Call(w, k) ==
  /\ pc[w] = "idle"
  /\ key' = [key EXCEPT ![w] = k]
  /\ startedAt' = [startedAt EXCEPT ![w] = now]
  /\ round' = [round EXCEPT ![w] = 0]
  /\ Goto(w, "insert")
  /\ UNCHANGED <<now, row, existing, mine, history>>

Remembered ==
  {row[k].id : k \in Keys} \cup {mine[w] : w \in Workers}
    \cup {existing[w].id : w \in Workers}

NewId == CHOOSE n \in 1..MaxRows : n \notin Remembered

\* The INSERT wins the unique key.
Reserve(w) ==
  /\ pc[w] = "insert"
  /\ row[key[w]] = NoRow
  /\ row' = [row EXCEPT ![key[w]] = [id |-> NewId, at |-> now, done |-> FALSE]]
  /\ mine' = [mine EXCEPT ![w] = NewId]
  /\ Goto(w, "run")
  /\ UNCHANGED <<now, key, startedAt, round, existing, history>>

\* IntegrityError: the key is taken.
Collide(w) ==
  /\ pc[w] = "insert"
  /\ row[key[w]] # NoRow
  /\ Goto(w, "look")
  /\ UNCHANGED <<now, row, key, startedAt, round, existing, mine,
                 history>>

\* Mutant: the loop over range(2) has become an endless one.
TryForEver(w) ==
  round' = [round EXCEPT ![w] = @ + 1] /\ Goto(w, "insert")

\* `continue`: a second attempt to insert, or ReservationInProgress.
TryAgain(w) ==
  /\ round' = [round EXCEPT ![w] = 1]
  /\ Goto(w, IF round[w] = 0 THEN "insert" ELSE "raised")

\* Mutant: a reservation is taken for a result.
AnyRecord(r) == r # NoRow

Recorded(r) == r.done

\* Mutant: any unfinished reservation counts as abandoned.
AnyReservation(w, r) == TRUE

\* Mutant: no reservation is ever given up.
NoReservation(w, r) == FALSE

Abandoned(w, r) == r.at < startedAt[w] - StaleAfter

\* The row that won the key is read: gone again, completed, abandoned or live.
Look(w) ==
  /\ pc[w] = "look"
  /\ LET r == row[key[w]] IN
       /\ existing' = [existing EXCEPT ![w] = r]
       /\ IF r = NoRow THEN TryAgain(w)
          ELSE /\ UNCHANGED round
               /\ Goto(w, CASE Recorded(r)     -> "returned"
                            [] Abandoned(w, r) -> "reclaim"
                            [] OTHER           -> "raised")
  /\ UNCHANGED <<now, row, key, startedAt, mine, history>>

\* Mutant: the DELETE names the key and any state of the row.
AnyRowOfKey(r, k) == row[k] # NoRow

\* filter(pk=existing.pk, completed_at__isnull=True)
StillAbandoned(r, k) == row[k].id = r.id /\ ~row[k].done

\* The abandoned row is deleted, unless it completed or went meanwhile.
Reclaim(w) ==
  /\ pc[w] = "reclaim"
  /\ row' = IF StillAbandoned(existing[w], key[w])
            THEN [row EXCEPT ![key[w]] = NoRow] ELSE row
  /\ TryAgain(w)
  /\ UNCHANGED <<now, key, startedAt, existing, mine, history>>

TakeEffect(w) == effects' = [effects EXCEPT ![key[w]] = @ + 1]

\* fn() returns.
Perform(w) ==
  /\ pc[w] = "run"
  /\ TakeEffect(w)
  /\ Goto(w, "complete")
  /\ UNCHANGED <<now, row, key, startedAt, round, existing, mine,
                 unrecorded, crashes>>

LoseRecord(w) == unrecorded' = [unrecorded EXCEPT ![key[w]] = @ + 1]

\* fn() raises before its effect, or in the broadcasts, notifications and
\* events that follow its commit: the reservation will be deleted either way.
Raise(w) ==
  /\ pc[w] = "run"
  /\ \/ UNCHANGED <<effects, unrecorded>>
     \/ unrecorded[key[w]] < MaxLate /\ TakeEffect(w) /\ LoseRecord(w)
  /\ Goto(w, "undo")
  /\ UNCHANGED <<now, row, key, startedAt, round, existing, mine, crashes>>

\* filter(pk=effect.pk): the row this call inserted, if it is still there.
OwnsRow(w) == row[key[w]].id = mine[w]

Undo(w) ==
  /\ pc[w] = "undo"
  /\ row' = IF OwnsRow(w) THEN [row EXCEPT ![key[w]] = NoRow] ELSE row
  /\ Goto(w, "raised")
  /\ UNCHANGED <<now, key, startedAt, round, existing, mine, history>>

Complete(w) ==
  /\ pc[w] = "complete"
  /\ row' = IF OwnsRow(w) THEN [row EXCEPT ![key[w]].done = TRUE] ELSE row
  /\ Goto(w, "returned")
  /\ UNCHANGED <<now, key, startedAt, round, existing, mine, history>>

\* The variables of a call end with it.
Forget(w) ==
  /\ Goto(w, "idle")
  /\ startedAt' = [startedAt EXCEPT ![w] = 0]
  /\ round' = [round EXCEPT ![w] = 0]
  /\ existing' = [existing EXCEPT ![w] = NoRow]
  /\ mine' = [mine EXCEPT ![w] = 0]

\* The answer reaches the caller, who may come back with any key.
Return(w) ==
  /\ pc[w] \in {"returned", "raised"}
  /\ Forget(w)
  /\ UNCHANGED <<now, row, key, history>>

\* The process dies; what it committed stays. Crashes come early enough for
\* the bounded clock to show their reservations stale.
Crash(w) ==
  /\ pc[w] # "idle"
  /\ crashes < MaxCrashes
  /\ now + StaleAfter + 1 <= MaxTime
  /\ crashes' = crashes + 1
  /\ IF pc[w] = "complete" THEN LoseRecord(w) ELSE UNCHANGED unrecorded
  /\ Forget(w)
  /\ UNCHANGED <<now, row, key, effects>>

Tick ==
  /\ now < MaxTime
  /\ PromptCalls =>
       \A w \in Workers :
         pc[w] \in Reserving => now < row[key[w]].at + StaleAfter
  /\ now' = now + 1
  /\ UNCHANGED <<row, pc, key, startedAt, round, existing, mine,
                 history>>

Step(w) ==
  \/ Reserve(w)
  \/ Collide(w)
  \/ Look(w)
  \/ Reclaim(w)
  \/ Perform(w)
  \/ Raise(w)
  \/ Undo(w)
  \/ Complete(w)
  \/ Return(w)

Next ==
  \/ \E w \in Workers : Step(w) \/ Crash(w) \/ \E k \in Keys : Call(w, k)
  \/ Tick

Spec == Init /\ [][Next]_vars

\* A call that is not killed goes on, time passes, and the action of a key is
\* asked for again by some worker: a job that raised, or was recovered, is due
\* again (as long as it has attempts left).
Fairness ==
  /\ \A w \in Workers : WF_vars(Step(w))
  /\ \A k \in Keys : SF_vars(\E w \in Workers : Call(w, k))
  /\ WF_vars(Tick)

FairSpec == Spec /\ Fairness

-----------------------------------------------------------------------------
(* Properties *)

\* Every variable keeps its type.
TypeOK ==
  /\ now \in 0..MaxTime
  /\ row \in [Keys -> Rows]
  /\ pc \in [Workers -> Stages]
  /\ key \in [Workers -> Keys]
  /\ startedAt \in [Workers -> 0..MaxTime]
  /\ round \in [Workers -> 0..1]
  /\ existing \in [Workers -> Rows]
  /\ mine \in [Workers -> 0..MaxRows]
  /\ effects \in [Keys -> Nat]
  /\ unrecorded \in [Keys -> Nat]
  /\ crashes \in 0..MaxCrashes

\* "At most once ... no matter how many times this is called with the same key
\* - including across process crashes", as the docstring of run_idempotent()
\* has it.
AtMostOnce == \A k \in Keys : effects[k] <= 1

\* What the ledger does give to prompt calls: every repetition is paid for by
\* an earlier effect that left no record, because its worker died before
\* writing it or its fn() raised after the commit. Retries, reclaims and lost
\* inserts never add one.
RepeatsOnlyAfterLostRecord == \A k \in Keys : effects[k] <= 1 + unrecorded[k]

\* Two prompt callers never run the action of one key at the same time.
OneRunner ==
  \A v, w \in Workers :
    pc[v] \in Reserving /\ pc[w] \in Reserving /\ key[v] = key[w] => v = w

\* A call that returns normally speaks of an action that has taken effect,
\* its own or the recorded one.
AnsweredIsDone ==
  \A w \in Workers : pc[w] = "returned" => effects[key[w]] > 0

\* A recorded action is settled for good: its row is never deleted or replaced
\* by a late reclaim, a late failure or a late completion.
RecordIsFinal ==
  [][\A k \in Keys : row[k].done => row'[k] = row[k]]_row

\* A reservation does not block a key that is asked for again: it is completed
\* or freed, although the worker that made it may be dead.
ReservationsEnd ==
  \A k \in Keys :
    (row[k] # NoRow /\ ~row[k].done) ~> (row[k] = NoRow \/ row[k].done)

=============================================================================
