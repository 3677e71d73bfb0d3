----------------------------- MODULE ActionSlots -----------------------------
(***************************************************************************)
(* reserve_action_slot() (automations/idempotency.py), called by the       *)
(* instant engine and by process_automation_jobs from any number of        *)
(* processes: one short database transaction that locks the correlation's  *)
(* AutomationCorrelationCounter row, looks for the caller's reservation    *)
(* row, compares the counter with the limit, inserts the reservation and   *)
(* writes the incremented counter.                                         *)
(*                                                                         *)
(* The counter row is created by the first call. Postgres makes a second   *)
(* INSERT of the same primary key wait for the first transaction, and      *)
(* get_or_create() then reads the row under its lock, so "the row is       *)
(* locked" also covers "the row is being created by someone else".         *)
(* A reservation key is used with one correlation only (a job and an       *)
(* execution each carry one), so the unique constraint on reservation_key  *)
(* is never hit behind the counter's lock and the IntegrityError retry of  *)
(* the code has nothing left to do.                                        *)
(***************************************************************************)
EXTENDS Integers, FiniteSets

CONSTANTS
  Workers,        \* processes that call reserve_action_slot
  NoWorker,       \* the holder of a row nobody has locked
  Keys, Correlations, CorrelationOf, Limit

ASSUME ActionSlotsAssumption ==
  /\ NoWorker \notin Workers
  /\ CorrelationOf \in [Keys -> Correlations]
  /\ Limit \in Nat

VARIABLES
  counter,        \* committed actions_reserved, 0 where no row exists yet
  reservations,   \* committed AutomationActionSlotReservation rows, by key
  lock,           \* the transaction holding a correlation's counter row
  pc,             \* where each worker's call is
  key,            \* the reservation_key of that call
  seen            \* actions_reserved as loaded under the row lock

vars == <<counter, reservations, lock, pc, key, seen>>

Stages == {"idle", "begin", "locked", "inserted", "granted", "refused"}

\* Stages in which the worker's transaction is open.
InTransaction == {"locked", "inserted"}

Corr(w) == CorrelationOf[key[w]]

Init ==
  /\ counter = [c \in Correlations |-> 0]
  /\ reservations = {}
  /\ lock = [c \in Correlations |-> NoWorker]
  /\ pc = [w \in Workers |-> "idle"]
  /\ key \in [Workers -> Keys]
  /\ seen = [w \in Workers |-> 0]

-----------------------------------------------------------------------------
\* A caller asks for the slot of key k: a first attempt or a retry of it.
Call(w, k) ==
  /\ pc[w] = "idle"
  /\ pc' = [pc EXCEPT ![w] = "begin"]
  /\ key' = [key EXCEPT ![w] = k]
  /\ UNCHANGED <<counter, reservations, lock, seen>>

\* Mutant: a plain read, as before select_for_update() was introduced.
Unguarded(c) == TRUE

\* SELECT ... FOR UPDATE returns once no other transaction has the row.
Available(c) == lock[c] = NoWorker

LockCounter(w) ==
  /\ pc[w] = "begin"
  /\ Available(Corr(w))
  /\ lock' = [lock EXCEPT ![Corr(w)] = w]
  /\ seen' = [seen EXCEPT ![w] = counter[Corr(w)]]
  /\ pc' = [pc EXCEPT ![w] = "locked"]
  /\ UNCHANGED <<counter, reservations, key>>

\* The transaction of w ends, committed or not: its row lock goes with it.
EndTransaction(w) ==
  lock' = [lock EXCEPT ![Corr(w)] = IF @ = w THEN NoWorker ELSE @]

\* This exact attempt already holds a slot: idempotent re-entry.
FindReservation(w) ==
  /\ pc[w] = "locked"
  /\ key[w] \in reservations
  /\ pc' = [pc EXCEPT ![w] = "granted"]
  /\ EndTransaction(w)
  /\ UNCHANGED <<counter, reservations, key, seen>>

\* Mutant: the comparison lets one caller through at the limit.
AtLimitOffByOne(n) == n > Limit

\* Mutant: the last slot is never handed out.
AtLimitEarly(n) == n + 1 >= Limit

AtLimit(n) == n >= Limit

\* The hard cap: False, nothing consumed.
RefuseSlot(w) ==
  /\ pc[w] = "locked"
  /\ key[w] \notin reservations
  /\ AtLimit(seen[w])
  /\ pc' = [pc EXCEPT ![w] = "refused"]
  /\ EndTransaction(w)
  /\ UNCHANGED <<counter, reservations, key, seen>>

\* The reservation row is inserted, visible to no one before the commit.
InsertReservation(w) ==
  /\ pc[w] = "locked"
  /\ key[w] \notin reservations
  /\ ~AtLimit(seen[w])
  /\ pc' = [pc EXCEPT ![w] = "inserted"]
  /\ UNCHANGED <<counter, reservations, lock, key, seen>>

\* Mutant: the counter is committed in a transaction of its own, and a crash
\* before the reservation row is inserted leaves it without its slot.
CommitCounterFirst(w) ==
  /\ pc[w] = "inserted"
  /\ counter' = [counter EXCEPT ![Corr(w)] = seen[w] + 1]
  /\ pc' = [pc EXCEPT ![w] = "granted"]
  /\ EndTransaction(w)
  /\ UNCHANGED <<reservations, key, seen>>

\* Mutant: the counter is taken for the number of slots left.
CommitCountingDown(w) ==
  /\ pc[w] = "inserted"
  /\ counter' = [counter EXCEPT ![Corr(w)] = seen[w] - 1]
  /\ reservations' = reservations \cup {key[w]}
  /\ pc' = [pc EXCEPT ![w] = "granted"]
  /\ EndTransaction(w)
  /\ UNCHANGED <<key, seen>>

\* counter.save() writes the value computed from the locked read, and the
\* commit makes it and the reservation row visible at once.
CommitSlot(w) ==
  /\ pc[w] = "inserted"
  /\ counter' = [counter EXCEPT ![Corr(w)] = seen[w] + 1]
  /\ reservations' = reservations \cup {key[w]}
  /\ pc' = [pc EXCEPT ![w] = "granted"]
  /\ EndTransaction(w)
  /\ UNCHANGED <<key, seen>>

\* The caller acts on the answer, and may come back with any key.
Return(w) ==
  /\ pc[w] \in {"granted", "refused"}
  /\ pc' = [pc EXCEPT ![w] = "idle"]
  /\ UNCHANGED <<counter, reservations, lock, key, seen>>

\* Mutant: nothing releases the row of a dead process.
LeaveLock(w) == UNCHANGED lock

\* Postgres rolls back the transaction of a connection that went away.
Rollback(w) ==
  IF pc[w] \in InTransaction THEN EndTransaction(w) ELSE UNCHANGED lock

\* The process dies at any point; its successor starts from nothing.
Crash(w) ==
  /\ pc[w] # "idle"
  /\ pc' = [pc EXCEPT ![w] = "idle"]
  /\ Rollback(w)
  /\ UNCHANGED <<counter, reservations, key, seen>>

Reserve(w) ==
  \/ LockCounter(w)
  \/ FindReservation(w)
  \/ RefuseSlot(w)
  \/ InsertReservation(w)
  \/ CommitSlot(w)

Next ==
  \E w \in Workers :
    \/ \E k \in Keys : Call(w, k)
    \/ Reserve(w)
    \/ Return(w)
    \/ Crash(w)

\* A transaction that was begun goes on, and the row lock is granted to each
\* waiter in turn (Postgres queues them). Calls and crashes are nobody's duty.
Fairness == \A w \in Workers : WF_vars(Reserve(w)) /\ SF_vars(LockCounter(w))

Spec == Init /\ [][Next]_vars

FairSpec == Spec /\ Fairness

-----------------------------------------------------------------------------
(* Properties *)

\* Every variable keeps its type.
TypeOK ==
  /\ counter \in [Correlations -> Nat]
  /\ reservations \subseteq Keys
  /\ lock \in [Correlations -> Workers \cup {NoWorker}]
  /\ pc \in [Workers -> Stages]
  /\ key \in [Workers -> Keys]
  /\ seen \in [Workers -> Nat]

ReservedIn(c) == {k \in reservations : CorrelationOf[k] = c}

\* The counter of a correlation counts its reservation rows exactly and never
\* passes MAX_ACTIONS_PER_CORRELATION, however callers interleave or die.
SlotsWithinLimit ==
  \A c \in Correlations :
    /\ Cardinality(ReservedIn(c)) = counter[c]
    /\ counter[c] <= Limit

\* A caller told to proceed holds a durable reservation: a retry of the same
\* action after a crash will be recognised and not charged again.
GrantedIsDurable ==
  \A w \in Workers : pc[w] = "granted" => key[w] \in reservations

\* The limit turns a caller away only when every slot of its correlation is
\* durably taken by another action: a slot is never lost to a process that
\* died half way, to a refused caller or to a retry.
RefusedOnlyWhenFull ==
  \A w \in Workers :
    pc[w] = "refused" =>
      /\ key[w] \notin reservations
      /\ Cardinality(ReservedIn(Corr(w))) = Limit

\* reserve_action_slot implements the abstract bounded allocator.
Slots == INSTANCE BoundedSlots WITH granted <- reservations

ImplementsBoundedSlots == Slots!Spec

\* A call that has begun is answered unless its process dies: no caller waits
\* for ever on the counter's row lock, even when lock holders crash.
CallsAnswered ==
  \A w \in Workers :
    pc[w] = "begin" ~> pc[w] \in {"granted", "refused", "idle"}

=============================================================================
