--------------------------- MODULE SlaClock_proofs ---------------------------
(***************************************************************************)
(* The safety of the service clocks for any callers, evaluators, deadlines *)
(* and clocks.                                                             *)
(*                                                                         *)
(* The lifecycle calls write without a lock, the evaluator decides on what *)
(* it read. They do not disturb each other because a save waits for the    *)
(* row's lock: what an evaluator read is still the row when it writes      *)
(* (HolderSees). A breach or a warning on record then stands for the one   *)
(* alert that was stored for the deadline on record (Stored), and what was *)
(* pushed beyond that is of the evaluator at work or of one that died      *)
(* (Pushed).                                                               *)
(***************************************************************************)
EXTENDS SlaClock, TLAPS

\* A caller about to save has decided on one of the calls, and not finished it.
PatchReal ==
  \A w \in Callers : patch[w] # NoPatch => patch[w].call \in Calls /\ ~Free(w)

HolderSees == \A e \in Evaluators : evaluating[e] = "holds" => seen[e] = row

Stored ==
  \A c \in Clocks :
    /\ stored[c].breached <= 1 /\ stored[c].approaching <= 1
    /\ row.breached[c] = Never => stored[c].breached = 0
    /\ ~row.notified[c] => stored[c].approaching = 0

\* What an evaluator has pushed and not yet stored.
TellsLate(e, c) == IF c \in told[e] /\ Late(e, c) THEN 1 ELSE 0
TellsSoon(e, c) == IF c \in told[e] /\ Soon(e, c) THEN 1 ELSE 0

Pushed ==
  /\ locker = Never => \A c \in Clocks :
       /\ pushed[c].breached = stored[c].breached + undone[c].breached
       /\ pushed[c].approaching = stored[c].approaching + undone[c].approaching
  /\ \A e \in Evaluators : locker = e => \A c \in Clocks :
       /\ pushed[c].breached = stored[c].breached + undone[c].breached + TellsLate(e, c)
       /\ pushed[c].approaching
            = stored[c].approaching + undone[c].approaching + TellsSoon(e, c)

Counted == Stored /\ Pushed

SlaInv == TypeOK /\ PatchReal /\ HolderSees /\ BreachFitsClock /\ Counted

\* The parts of TypeOK.
CallerTypes ==
  /\ todo \in [Callers -> Seq(Calls)]
  /\ patch \in [Callers -> [call : Calls \cup {"none"}, due : Times]]
  /\ cached \in [Callers -> Slas \cup {Unread}]
WorldTypes ==
  /\ now \in 0..MaxTime /\ status \in Statuses
  /\ asked \in 0..MaxAsked /\ crashes \in 0..MaxCrashes
RowTypes ==
  /\ row \in Slas
  /\ pushed \in Counts /\ stored \in Counts /\ undone \in Counts
EvaluatorTypes ==
  /\ locker \in Evaluators \cup {Never}
  /\ evaluating \in [Evaluators -> {"idle", "listed", "holds"}]
  /\ runAt \in [Evaluators -> 0..MaxTime]
  /\ seen \in [Evaluators -> Slas \cup {Unread}]
  /\ told \in [Evaluators -> SUBSET Clocks]
  /\ \A e \in Evaluators :
       /\ (evaluating[e] = "holds") <=> (locker = e)
       /\ (evaluating[e] = "holds") <=> (seen[e] # Unread)
       /\ told[e] # {} => evaluating[e] = "holds"

LEMMA Types == TypeOK <=> CallerTypes /\ WorldTypes /\ RowTypes /\ EvaluatorTypes
BY DEF TypeOK, CallerTypes, WorldTypes, RowTypes, EvaluatorTypes

LEMMA TypesNext == CallerTypes' /\ WorldTypes' /\ RowTypes' /\ EvaluatorTypes' => TypeOK'
BY DEF TypeOK, CallerTypes, WorldTypes, RowTypes, EvaluatorTypes

LEMMA UnreadIsNoRow == Unread \notin Slas
BY DEF Unread, Slas

-----------------------------------------------------------------------------
(* What the calls write *)

LEMMA RestartedRow ==
  ASSUME NEW sla \in Slas, NEW clock \in Clocks, NEW due \in Times
  PROVE  /\ Restarted(sla, clock, due) \in Slas
         /\ Restarted(sla, clock, due).due = [sla.due EXCEPT ![clock] = due]
         /\ Restarted(sla, clock, due).breached = [sla.breached EXCEPT ![clock] = Never]
         /\ Restarted(sla, clock, due).notified = [sla.notified EXCEPT ![clock] = FALSE]
BY DEF Restarted, Slas, Times

\* A call writes deadlines and breaches of the clock it sets, and no other.
LEMMA PatchedRow ==
  ASSUME NEW sla \in Slas, NEW p \in [call : Calls, due : Times]
  PROVE  /\ Patched(sla, p) \in Slas
         /\ \A c \in Clocks \ SetsDeadline(p.call) :
              /\ Patched(sla, p).due[c] = sla.due[c]
              /\ Patched(sla, p).breached[c] = sla.breached[c]
              /\ Patched(sla, p).notified[c] = sla.notified[c]
         /\ \A c \in SetsDeadline(p.call) : Patched(sla, p).breached[c] = Never
<1>. p.call \in Calls /\ p.due \in Times
  OBVIOUS
<1>1. CASE p.call = "mark_first_response"
  <2>1. Patched(sla, p) = [sla EXCEPT !.responded = TRUE] /\ SetsDeadline(p.call) = {}
    BY <1>1 DEF Patched, SetsDeadline
  <2>. QED
    BY <2>1 DEF Slas
<1>2. CASE p.call = "recalculate_next_response"
  <2>1. /\ Patched(sla, p) = Restarted(sla, "next", p.due)
        /\ SetsDeadline(p.call) = {"next"} /\ "next" \in Clocks
    BY <1>2 DEF Patched, SetsDeadline, Clocks
  <2> DEFINE new == Restarted(sla, "next", p.due)
  <2>2. /\ new \in Slas
        /\ new.due = [sla.due EXCEPT !["next"] = p.due]
        /\ new.breached = [sla.breached EXCEPT !["next"] = Never]
        /\ new.notified = [sla.notified EXCEPT !["next"] = FALSE]
    BY <2>1, RestartedRow
  <2>3. Patched(sla, p) = new
    BY <2>1
  <2> HIDE DEF new
  <2>. QED
    BY <2>1, <2>2, <2>3 DEF Slas
<1>3. CASE p.call = "clear_next_response"
  <2>1. /\ Patched(sla, p) = [sla EXCEPT !.due["next"] = Never, !.breached["next"] = Never]
        /\ SetsDeadline(p.call) = {"next"} /\ "next" \in Clocks
    BY <1>3 DEF Patched, SetsDeadline, Clocks
  <2> DEFINE new == Patched(sla, p)
  <2>2. /\ sla.due \in [Clocks -> Times] /\ sla.breached \in [Clocks -> Times]
        /\ sla.notified \in [Clocks -> BOOLEAN]
        /\ sla.responded \in BOOLEAN /\ sla.resolved \in BOOLEAN
    BY Zenon DEF Slas
  <2>3. new = [due |-> [sla.due EXCEPT !["next"] = Never],
               breached |-> [sla.breached EXCEPT !["next"] = Never],
               notified |-> sla.notified,
               responded |-> sla.responded, resolved |-> sla.resolved]
    BY <2>1 DEF Slas
  <2>4. /\ [sla.due EXCEPT !["next"] = Never] \in [Clocks -> Times]
        /\ [sla.breached EXCEPT !["next"] = Never] \in [Clocks -> Times]
    BY <2>1, <2>2 DEF Times
  <2> HIDE DEF new
  <2>5. new \in Slas
    BY <2>2, <2>3, <2>4, Zenon DEF Slas
  <2>6. /\ new.due = [sla.due EXCEPT !["next"] = Never]
        /\ new.breached = [sla.breached EXCEPT !["next"] = Never]
        /\ new.notified = sla.notified
    BY <2>3
  <2>7. new = Patched(sla, p)
    BY DEF new
  <2>. QED
    BY <2>1, <2>2, <2>5, <2>6, <2>7
<1>4. CASE p.call = "mark_resolved"
  <2>1. Patched(sla, p) = [sla EXCEPT !.resolved = TRUE] /\ SetsDeadline(p.call) = {}
    BY <1>4 DEF Patched, SetsDeadline
  <2>. QED
    BY <2>1 DEF Slas
<1>5. CASE p.call = "mark_reopened"
  <2> DEFINE again == Restarted(sla, "resolution", p.due)
  <2>1. /\ Patched(sla, p) = [again EXCEPT !.resolved = FALSE]
        /\ SetsDeadline(p.call) = {"resolution"} /\ "resolution" \in Clocks
    BY <1>5 DEF Patched, SetsDeadline, Clocks
  <2>2. /\ again \in Slas
        /\ again.due = [sla.due EXCEPT !["resolution"] = p.due]
        /\ again.breached = [sla.breached EXCEPT !["resolution"] = Never]
        /\ again.notified = [sla.notified EXCEPT !["resolution"] = FALSE]
    BY <2>1, RestartedRow
  <2> HIDE DEF again
  <2>. QED
    BY <2>1, <2>2 DEF Slas
<1>. QED
  BY <1>1, <1>2, <1>3, <1>4, <1>5 DEF Calls

LEMMA CountsAreNumbers ==
  ASSUME NEW count \in Counts, NEW c \in Clocks
  PROVE  count[c].breached \in Nat /\ count[c].approaching \in Nat
BY DEF Counts

LEMMA PushedByHolder ==
  ASSUME SlaInv, NEW e \in Evaluators, locker = e, NEW c \in Clocks
  PROVE  /\ pushed[c].breached = stored[c].breached + undone[c].breached + TellsLate(e, c)
         /\ pushed[c].approaching
              = stored[c].approaching + undone[c].approaching + TellsSoon(e, c)
         /\ TellsLate(e, c) \in {0, 1} /\ TellsSoon(e, c) \in {0, 1}
         /\ pushed[c].breached \in Nat /\ pushed[c].approaching \in Nat
         /\ stored[c].breached \in Nat /\ stored[c].approaching \in Nat
         /\ undone[c].breached \in Nat /\ undone[c].approaching \in Nat
<1>1. TellsLate(e, c) \in {0, 1} /\ TellsSoon(e, c) \in {0, 1}
  BY DEF TellsLate, TellsSoon
<1>2. pushed \in Counts /\ stored \in Counts /\ undone \in Counts
  BY DEF SlaInv, TypeOK
<1>3. /\ pushed[c].breached = stored[c].breached + undone[c].breached + TellsLate(e, c)
      /\ pushed[c].approaching
           = stored[c].approaching + undone[c].approaching + TellsSoon(e, c)
  BY DEF SlaInv, Counted, Pushed
<1>. QED
  BY <1>1, <1>2, <1>3, CountsAreNumbers

LEMMA NewDueTime ==
  ASSUME SlaInv, NEW call
  PROVE  NewDue(call) \in Times
<1>1. now \in 0..MaxTime /\ "next" \in Clocks /\ "resolution" \in Clocks
  BY DEF SlaInv, TypeOK, Clocks
<1>2. Deadline["next"][now] \in Nat /\ Deadline["resolution"][now] \in Nat
  BY <1>1, SlaClockAssumption DEF SlaClockAssumption
<1>. QED
  BY <1>2 DEF NewDue, Times

-----------------------------------------------------------------------------
(* Each step *)

LEMMA InitSlaInv == Init => SlaInv
<1> SUFFICES ASSUME Init PROVE SlaInv
  OBVIOUS
<1>. SlaClockAssumption
  BY SlaClockAssumption
<1>1. CallerTypes /\ PatchReal
  <2>1. <<>> \in Seq(Calls)
    OBVIOUS
  <2>2. NoPatch \in [call : Calls \cup {"none"}, due : Times]
    BY DEF NoPatch, Times
  <2>. QED
    BY <2>1, <2>2 DEF Init, CallerTypes, PatchReal, Free
<1>2. WorldTypes
  BY DEF Init, WorldTypes, Statuses, SlaClockAssumption
<1>3. RowTypes
  <2>0. pushed \in Counts /\ stored \in Counts /\ undone \in Counts
    BY DEF Init, NoAlerts, Counts
  <2>1. 0 \in 0..MaxTime
    BY DEF SlaClockAssumption
  <2>2. \A c \in Clocks : Deadline[c][0] \in Nat
    BY <2>1 DEF SlaClockAssumption
  <2>3. [c \in Clocks |-> IF c = "next" THEN Never ELSE Deadline[c][0]]
          \in [Clocks -> Times]
    BY <2>2 DEF Times
  <2>4. [c \in Clocks |-> Never] \in [Clocks -> Times]
    BY DEF Times
  <2>5. row \in Slas
    BY <2>3, <2>4 DEF Init, Slas
  <2>. QED
    BY <2>0, <2>5 DEF RowTypes
<1>4. EvaluatorTypes /\ HolderSees
  BY DEF Init, EvaluatorTypes, HolderSees, SlaClockAssumption
<1>5. BreachFitsClock /\ Counted
  BY DEF Init, BreachFitsClock, Counted, Stored, Pushed, NoAlerts, SlaClockAssumption
<1>. QED
  BY <1>1, <1>2, <1>3, <1>4, <1>5, Types DEF SlaInv

\* A holder goes on as it was.
Continues(e) ==
  /\ evaluating[e] = "holds"
  /\ seen'[e] = seen[e] /\ told'[e] = told[e] /\ runAt'[e] = runAt[e]

LEMMA ContinuesTelling ==
  ASSUME NEW e, Continues(e), NEW c
  PROVE  /\ Late(e, c)' <=> Late(e, c)
         /\ Soon(e, c)' <=> Soon(e, c)
         /\ TellsLate(e, c)' = TellsLate(e, c)
         /\ TellsSoon(e, c)' = TellsSoon(e, c)
<1>1. Late(e, c)' <=> Late(e, c)
  BY DEF Continues, Late, Breaches
<1>2. Soon(e, c)' <=> Soon(e, c)
  BY DEF Continues, Soon, Approaches
<1>. QED
  BY <1>1, <1>2 DEF Continues, TellsLate, TellsSoon

\* Steps that leave the row, its lock and its alerts alone.
LEMMA AsideStep ==
  ASSUME SlaInv, CallerTypes', WorldTypes', PatchReal',
         UNCHANGED <<row, locker, pushed, stored, undone>>,
         EvaluatorTypes',
         \A e \in Evaluators : evaluating'[e] = "holds" => Continues(e)
  PROVE  SlaInv'
<1>1. RowTypes' /\ BreachFitsClock' /\ Stored'
  BY Types DEF SlaInv, RowTypes, BreachFitsClock, Counted, Stored
<1>2. HolderSees'
  BY DEF SlaInv, HolderSees, Continues
<1>3. Pushed'
  <2>1. \A e \in Evaluators : locker' = e => Continues(e)
    BY DEF EvaluatorTypes
  <2>. QED
    BY <2>1, ContinuesTelling DEF SlaInv, Counted, Pushed
<1>. QED
  BY <1>1, <1>2, <1>3, TypesNext DEF SlaInv, Counted

\* No evaluator is concerned by a step that leaves evaluatorVars alone.
LEMMA EvaluatorsAside ==
  ASSUME SlaInv, UNCHANGED evaluatorVars
  PROVE  /\ EvaluatorTypes' /\ UNCHANGED locker
         /\ \A e \in Evaluators : evaluating'[e] = "holds" => Continues(e)
BY Types DEF SlaInv, EvaluatorTypes, evaluatorVars, Continues

LEMMA AskedBound ==
  ASSUME SlaInv, Ask
  PROVE  asked' \in 0..MaxAsked
BY SlaClockAssumption DEF Ask, SlaInv, TypeOK, SlaClockAssumption

LEMMA ChatStep ==
  ASSUME SlaInv, NEW w \in Callers, Chat(w)
  PROVE  SlaInv'
<1>1. /\ UNCHANGED <<row, pushed, stored, undone, now, crashes, patch>> /\ UNCHANGED evaluatorVars
      /\ Ask /\ status' \in Statuses
      /\ \/ cached' = cached \/ cached' = [cached EXCEPT ![w] = Unread]
      /\ \/ todo' = todo
         \/ \E calls \in {<<"recalculate_next_response">>,
                          <<"mark_first_response", "clear_next_response">>,
                          <<"mark_resolved">>, <<"mark_reopened">>} :
              todo' = [todo EXCEPT ![w] = calls]
  BY DEF Chat, VisitorMessage, OperatorReply, Close, Reopen, Reconnect, Statuses, alerts,
         SlaInv, TypeOK
<1>2. \A calls \in {<<"recalculate_next_response">>,
                    <<"mark_first_response", "clear_next_response">>,
                    <<"mark_resolved">>, <<"mark_reopened">>} :
        calls \in Seq(Calls) /\ calls # <<>>
  <2>1. <<"recalculate_next_response">> \in Seq(Calls)
    BY DEF Calls
  <2>2. <<"mark_first_response", "clear_next_response">> \in Seq(Calls)
    BY DEF Calls
  <2>3. <<"mark_resolved">> \in Seq(Calls) /\ <<"mark_reopened">> \in Seq(Calls)
    BY DEF Calls
  <2>4. /\ <<"recalculate_next_response">> # <<>>
        /\ <<"mark_first_response", "clear_next_response">> # <<>>
        /\ <<"mark_resolved">> # <<>> /\ <<"mark_reopened">> # <<>>
    OBVIOUS
  <2>. QED
    BY <2>1, <2>2, <2>3, <2>4, Zenon
<1>3. CallerTypes' /\ PatchReal'
  BY <1>1, <1>2, Types DEF SlaInv, CallerTypes, PatchReal, Free
<1>4. WorldTypes'
  BY <1>1, AskedBound DEF SlaInv, TypeOK, WorldTypes
<1>. QED
  BY <1>1, <1>3, <1>4, AsideStep, EvaluatorsAside

\* What a caller sees of the row is a row.
LEMMA SlaOfRow ==
  ASSUME SlaInv, NEW w \in Callers
  PROVE  SlaOf(w) \in Slas
BY DEF SlaOf, SlaInv, TypeOK

LEMMA TodoHead ==
  ASSUME SlaInv, NEW w \in Callers, ~Free(w)
  PROVE  Head(todo[w]) \in Calls /\ Tail(todo[w]) \in Seq(Calls)
BY DEF Free, SlaInv, TypeOK

LEMMA PassOverStep ==
  ASSUME SlaInv, NEW w \in Callers, PassOver(w)
  PROVE  SlaInv'
<1>1. Kept(w, SlaOf(w)) \in Slas \cup {Unread} /\ Tail(todo[w]) \in Seq(Calls)
  BY SlaOfRow, TodoHead DEF Kept, PassOver
<1>2. CallerTypes' /\ PatchReal' /\ WorldTypes'
  BY <1>1, Types DEF PassOver, SlaInv, CallerTypes, PatchReal, Free, WorldTypes
<1>. QED
  BY <1>2, AsideStep, EvaluatorsAside DEF PassOver, alerts

LEMMA DecideStep ==
  ASSUME SlaInv, NEW w \in Callers, Decide(w)
  PROVE  SlaInv'
<1> DEFINE p == [call |-> Head(todo[w]), due |-> NewDue(Head(todo[w]))]
<1>1. p \in [call : Calls, due : Times]
  BY TodoHead, NewDueTime DEF Decide
<1>2. Kept(w, Patched(SlaOf(w), p)) \in Slas \cup {Unread}
  BY <1>1, SlaOfRow, PatchedRow DEF Kept
<1>3. /\ ~Free(w)
      /\ patch' = [patch EXCEPT ![w] = p]
      /\ cached' = [cached EXCEPT ![w] = Kept(w, Patched(SlaOf(w), p))]
      /\ UNCHANGED <<now, status, row, todo, pushed, stored, undone, asked, crashes>>
      /\ UNCHANGED evaluatorVars
  BY DEF Decide, alerts
<1> HIDE DEF p
<1>4. CallerTypes' /\ PatchReal' /\ WorldTypes'
  BY <1>1, <1>2, <1>3, Types DEF SlaInv, CallerTypes, PatchReal, Free, WorldTypes
<1>. QED
  BY <1>3, <1>4, AsideStep, EvaluatorsAside

LEMMA CrashCallerStep ==
  ASSUME SlaInv, NEW w \in Callers, CrashCaller(w)
  PROVE  SlaInv'
<1>1. <<>> \in Seq(Calls) /\ NoPatch \in [call : Calls \cup {"none"}, due : Times]
  BY DEF NoPatch, Times
<1>2. CallerTypes' /\ PatchReal'
  BY <1>1, Types DEF CrashCaller, SlaInv, CallerTypes, PatchReal, Free
<1>3. WorldTypes'
  BY SlaClockAssumption DEF CrashCaller, SlaInv, TypeOK, WorldTypes, SlaClockAssumption
<1>. QED
  BY <1>2, <1>3, AsideStep, EvaluatorsAside DEF CrashCaller, alerts

LEMMA WorldStep ==
  ASSUME SlaInv, Tick \/ \E to \in {"active", "RESOLVED"} : SetStatus(to)
  PROVE  SlaInv'
<1>1. UNCHANGED <<row, pushed, stored, undone, crashes>> /\ UNCHANGED callerVars /\ UNCHANGED evaluatorVars
  BY DEF Tick, SetStatus, alerts
<1>2. WorldTypes'
  <2>1. CASE Tick
    BY <2>1, SlaClockAssumption DEF Tick, SlaInv, TypeOK, WorldTypes, SlaClockAssumption
  <2>2. ASSUME NEW to \in {"active", "RESOLVED"}, SetStatus(to)
        PROVE  WorldTypes'
    BY <2>2, AskedBound DEF SetStatus, SlaInv, TypeOK, WorldTypes, Statuses
  <2>. QED
    BY <2>1, <2>2
<1>3. CallerTypes' /\ PatchReal'
  BY <1>1, Types DEF SlaInv, CallerTypes, PatchReal, Free, callerVars
<1>. QED
  BY <1>1, <1>2, <1>3, AsideStep, EvaluatorsAside

LEMMA ListStep ==
  ASSUME SlaInv, NEW e \in Evaluators, List(e)
  PROVE  SlaInv'
<1>1. /\ UNCHANGED <<now, status, row, locker, seen, told, pushed, stored, undone, asked, crashes>>
      /\ UNCHANGED callerVars /\ evaluating[e] = "idle"
      /\ evaluating' = [evaluating EXCEPT ![e] = "listed"]
      /\ runAt' = [runAt EXCEPT ![e] = now]
  BY DEF List, alerts
<1>2. WorldTypes' /\ CallerTypes' /\ PatchReal' /\ now \in 0..MaxTime
  BY <1>1, Types DEF SlaInv, WorldTypes, CallerTypes, PatchReal, Free, callerVars
<1>3. EvaluatorTypes'
  BY <1>1, <1>2, Types DEF SlaInv, EvaluatorTypes
<1>4. \A d \in Evaluators : evaluating'[d] = "holds" => Continues(d)
  BY <1>1 DEF SlaInv, TypeOK, Continues
<1>. QED
  BY <1>1, <1>2, <1>3, <1>4, AsideStep

\* What the dead evaluator had pushed is undone, and the row as it was.
LEMMA CrashEvaluatorStep ==
  ASSUME SlaInv, NEW e \in Evaluators, CrashEvaluator(e)
  PROVE  SlaInv'
<1>1. /\ UNCHANGED <<now, status, row, pushed, stored, asked>> /\ UNCHANGED callerVars
      /\ crashes < MaxCrashes /\ crashes' = crashes + 1
      /\ locker' = IF locker = e THEN Never ELSE locker
      /\ evaluating' = [evaluating EXCEPT ![e] = "idle"]
      /\ runAt' = [runAt EXCEPT ![e] = 0]
      /\ seen' = [seen EXCEPT ![e] = Unread]
      /\ told' = [told EXCEPT ![e] = {}]
      /\ undone' = Counting(undone, told[e], e)
  BY DEF CrashEvaluator
<1>2. WorldTypes' /\ 0 \in 0..MaxTime
  BY <1>1, SlaClockAssumption DEF SlaInv, TypeOK, WorldTypes, SlaClockAssumption
<1>3. CallerTypes' /\ PatchReal'
  BY <1>1, Types DEF SlaInv, CallerTypes, PatchReal, Free, callerVars
<1>4. /\ locker' \in Evaluators \cup {Never} /\ locker' # e
      /\ \A d \in Evaluators \ {e} : locker' = d <=> locker = d
  BY <1>1, SlaClockAssumption DEF SlaInv, TypeOK, SlaClockAssumption
<1>5. /\ evaluating'[e] = "idle" /\ seen'[e] = Unread /\ told'[e] = {}
      /\ \A d \in Evaluators \ {e} : /\ evaluating'[d] = evaluating[d]
                                      /\ seen'[d] = seen[d] /\ told'[d] = told[d]
                                      /\ runAt'[d] = runAt[d]
  BY <1>1 DEF SlaInv, TypeOK
<1>6. EvaluatorTypes'
  <2>1. /\ evaluating' \in [Evaluators -> {"idle", "listed", "holds"}]
        /\ runAt' \in [Evaluators -> 0..MaxTime]
        /\ seen' \in [Evaluators -> Slas \cup {Unread}]
        /\ told' \in [Evaluators -> SUBSET Clocks]
    BY <1>1, <1>2 DEF SlaInv, TypeOK
  <2>2. \A d \in Evaluators :
          /\ (evaluating'[d] = "holds") <=> (locker' = d)
          /\ (evaluating'[d] = "holds") <=> (seen'[d] # Unread)
          /\ told'[d] # {} => evaluating'[d] = "holds"
    BY <1>4, <1>5 DEF SlaInv, TypeOK
  <2>. QED
    BY <1>4, <2>1, <2>2 DEF EvaluatorTypes
<1>7. \A d \in Evaluators : evaluating'[d] = "holds" => Continues(d)
  BY <1>5 DEF Continues
<1>8. /\ undone' \in Counts
      /\ \A c \in Clocks :
           /\ undone'[c].breached = undone[c].breached + TellsLate(e, c)
           /\ undone'[c].approaching = undone[c].approaching + TellsSoon(e, c)
  BY <1>1 DEF Counting, TellsLate, TellsSoon, Counts, SlaInv, TypeOK
<1>9. RowTypes' /\ BreachFitsClock' /\ Stored' /\ HolderSees'
  BY <1>1, <1>7, <1>8, Types
     DEF SlaInv, RowTypes, BreachFitsClock, Counted, Stored, HolderSees, Continues
<1>10. Pushed'
  <2>1. CASE locker = e
    <3>1. locker' = Never /\ \A d \in Evaluators : locker' # d
      BY <1>1, <2>1, SlaClockAssumption DEF SlaClockAssumption
    <3>2. \A c \in Clocks :
            /\ pushed'[c].breached = stored'[c].breached + undone'[c].breached
            /\ pushed'[c].approaching = stored'[c].approaching + undone'[c].approaching
      BY <1>1, <1>8, <2>1, PushedByHolder
    <3>. QED
      BY <3>1, <3>2 DEF Pushed
  <2>2. CASE locker # e
    <3>1. told[e] = {} /\ locker' = locker
      BY <1>1, <2>2 DEF SlaInv, TypeOK
    <3>2. \A c \in Clocks : TellsLate(e, c) = 0 /\ TellsSoon(e, c) = 0
      BY <3>1 DEF TellsLate, TellsSoon
    <3>3. \A c \in Clocks : /\ undone'[c].breached = undone[c].breached
                            /\ undone'[c].approaching = undone[c].approaching
      BY <1>8, <3>2 DEF SlaInv, TypeOK, Counts
    <3>4. \A d \in Evaluators : locker' = d => Continues(d)
      BY <1>6, <1>7 DEF EvaluatorTypes
    <3>. QED
      BY <1>1, <3>1, <3>3, <3>4, ContinuesTelling DEF SlaInv, Counted, Pushed
  <2>. QED
    BY <2>1, <2>2
<1>. QED
  BY <1>2, <1>3, <1>6, <1>9, <1>10, TypesNext DEF SlaInv, Counted

LEMMA LockStep ==
  ASSUME SlaInv, NEW e \in Evaluators, LockRow(e)
  PROVE  SlaInv'
<1>1. /\ UNCHANGED <<now, status, row, runAt, told, pushed, stored, undone, asked, crashes>>
      /\ UNCHANGED callerVars
      /\ locker = Never /\ locker' = e /\ evaluating[e] = "listed"
      /\ seen' = [seen EXCEPT ![e] = row]
      /\ evaluating' = [evaluating EXCEPT ![e] = "holds"]
  BY DEF LockRow, RowFree, alerts
<1>2. WorldTypes' /\ RowTypes' /\ CallerTypes' /\ PatchReal'
  BY <1>1, Types DEF SlaInv, WorldTypes, RowTypes, CallerTypes, PatchReal, Free, callerVars
<1>3. EvaluatorTypes'
  BY <1>1, Types, UnreadIsNoRow, SlaClockAssumption
     DEF SlaInv, RowTypes, EvaluatorTypes, SlaClockAssumption
<1>4. HolderSees' /\ BreachFitsClock' /\ Stored'
  BY <1>1, Types
     DEF SlaInv, EvaluatorTypes, HolderSees, BreachFitsClock, Counted, Stored
<1>5. Pushed'
  <2>1. told'[e] = {}
    BY <1>1 DEF SlaInv, TypeOK
  <2>2. \A c \in Clocks : TellsLate(e, c)' = 0 /\ TellsSoon(e, c)' = 0
    BY <2>1 DEF TellsLate, TellsSoon
  <2>3. \A c \in Clocks :
          /\ pushed[c].breached = stored[c].breached + undone[c].breached + 0
          /\ pushed[c].approaching = stored[c].approaching + undone[c].approaching + 0
    BY <1>1 DEF SlaInv, TypeOK, Counts, Counted, Pushed
  <2>. QED
    BY <1>1, <2>2, <2>3, SlaClockAssumption DEF Pushed, SlaClockAssumption
<1>. QED
  BY <1>2, <1>3, <1>4, <1>5, TypesNext DEF SlaInv, Counted

LEMMA SaveStep ==
  ASSUME SlaInv, NEW w \in Callers, Save(w)
  PROVE  SlaInv'
<1> DEFINE p == patch[w]
           sets == SetsDeadline(p.call)
<1>1. p \in [call : Calls, due : Times] /\ row \in Slas /\ locker = Never
  BY DEF Save, SlaInv, TypeOK, PatchReal, Free
<1>2. /\ row' = Patched(row, p)
      /\ pushed' = Reset(pushed, sets) /\ stored' = Reset(stored, sets)
      /\ undone' = Reset(undone, sets)
      /\ patch' = [patch EXCEPT ![w] = NoPatch]
      /\ todo' = [todo EXCEPT ![w] = Tail(todo[w])]
      /\ cached' = [cached EXCEPT ![w] = Kept(w, cached[w])]
      /\ UNCHANGED <<now, status, asked, crashes>> /\ UNCHANGED evaluatorVars
  BY DEF Save
<1> HIDE DEF p
<1>3. /\ row' \in Slas
      /\ \A c \in Clocks \ sets : /\ row'.due[c] = row.due[c]
                                   /\ row'.breached[c] = row.breached[c]
                                   /\ row'.notified[c] = row.notified[c]
      /\ \A c \in sets : row'.breached[c] = Never
  BY <1>1, <1>2, PatchedRow
<1> HIDE DEF sets
<1>4. RowTypes'
  BY <1>2, <1>3, Types DEF SlaInv, RowTypes, NoAlerts, Reset, Counts
<1>5. BreachFitsClock'
  BY <1>3 DEF SlaInv, BreachFitsClock
<1>6. Counted'
  <2>1. Stored'
    BY <1>2, <1>3 DEF SlaInv, Counted, Stored, NoAlerts, Reset
  <2>2. locker' = Never /\ \A d \in Evaluators : locker' # d
    BY <1>1, <1>2, SlaClockAssumption DEF evaluatorVars, SlaClockAssumption
  <2>3. Pushed'
    BY <1>1, <1>2, <2>2 DEF SlaInv, Counted, Pushed, NoAlerts, Reset
  <2>. QED
    BY <2>1, <2>3 DEF Counted
<1>7. EvaluatorTypes' /\ HolderSees'
  <2>1. \A e \in Evaluators : evaluating[e] # "holds"
    BY <1>1, SlaClockAssumption DEF SlaInv, TypeOK, SlaClockAssumption
  <2>. QED
    BY <1>2, <2>1, EvaluatorsAside DEF HolderSees, evaluatorVars
<1>8. WorldTypes'
  BY <1>2, Types DEF SlaInv, WorldTypes
<1>9. CallerTypes' /\ PatchReal'
  <2>1. Kept(w, cached[w]) \in Slas \cup {Unread}
    BY DEF Kept, SlaInv, TypeOK
  <2>2. Tail(todo[w]) \in Seq(Calls)
    BY TodoHead DEF Save, SlaInv, PatchReal, Free
  <2>3. NoPatch \in [call : Calls \cup {"none"}, due : Times]
    BY DEF NoPatch, Times
  <2>. QED
    BY <1>2, <2>1, <2>2, <2>3, Types DEF SlaInv, CallerTypes, PatchReal, Free
<1>. QED
  BY <1>4, <1>5, <1>6, <1>7, <1>8, <1>9, TypesNext DEF SlaInv

LEMMA AnnounceStep ==
  ASSUME SlaInv, NEW e \in Evaluators, Announce(e)
  PROVE  SlaInv'
<1>1. PICK k \in Untold(e) : /\ pushed' = Counting(pushed, {k}, e)
                             /\ told' = [told EXCEPT ![e] = told[e] \cup {k}]
  BY DEF Announce
<1>2. /\ evaluating[e] = "holds"
      /\ UNCHANGED <<now, status, row, locker, evaluating, runAt, seen, stored,
                     undone, asked, crashes>>
      /\ UNCHANGED callerVars
  BY DEF Announce
<1>3. k \in Clocks /\ k \notin told[e]
  BY DEF Untold
<1>4. locker = e /\ \A d \in Evaluators \ {e} : locker # d
  BY <1>2 DEF SlaInv, TypeOK
<1>5. \A c \in Clocks : (Late(e, c)' <=> Late(e, c)) /\ (Soon(e, c)' <=> Soon(e, c))
  BY <1>2 DEF Late, Soon, Breaches, Approaches
<1>6. /\ pushed' \in Counts
      /\ \A c \in Clocks :
           /\ pushed'[c].breached
                = pushed[c].breached + (IF c = k /\ Late(e, c) THEN 1 ELSE 0)
           /\ pushed'[c].approaching
                = pushed[c].approaching + (IF c = k /\ Soon(e, c) THEN 1 ELSE 0)
  BY <1>1 DEF Counting, Counts, SlaInv, TypeOK
<1>7. \A c \in Clocks :
        /\ TellsLate(e, c)' = TellsLate(e, c) + (IF c = k /\ Late(e, c) THEN 1 ELSE 0)
        /\ TellsSoon(e, c)' = TellsSoon(e, c) + (IF c = k /\ Soon(e, c) THEN 1 ELSE 0)
  <2>1. \A c \in Clocks : c \in told'[e] <=> c \in told[e] \/ c = k
    BY <1>1, <1>3 DEF SlaInv, TypeOK
  <2>. QED
    BY <1>3, <1>5, <2>1 DEF TellsLate, TellsSoon
<1>8. Pushed'
  <2>1. \A c \in Clocks :
          /\ pushed'[c].breached = stored'[c].breached + undone'[c].breached + TellsLate(e, c)'
          /\ pushed'[c].approaching
               = stored'[c].approaching + undone'[c].approaching + TellsSoon(e, c)'
    BY <1>2, <1>4, <1>6, <1>7, PushedByHolder
  <2>. QED
    BY <1>2, <1>4, <2>1, SlaClockAssumption DEF Pushed, SlaClockAssumption
<1>9. Stored' /\ HolderSees' /\ BreachFitsClock' /\ RowTypes'
  BY <1>2, <1>6, Types
     DEF SlaInv, Counted, Stored, HolderSees, BreachFitsClock, RowTypes
<1>10. WorldTypes' /\ CallerTypes' /\ PatchReal'
  BY <1>2, Types DEF SlaInv, WorldTypes, CallerTypes, PatchReal, Free, callerVars
<1>11. EvaluatorTypes'
  BY <1>1, <1>2, <1>3, Types DEF SlaInv, EvaluatorTypes
<1>. QED
  BY <1>8, <1>9, <1>10, <1>11, TypesNext DEF SlaInv, Counted

\* The evaluator sees the row as it is, so a clock it announces has no
\* alert of that sort on record yet.
LEMMA CommitStep ==
  ASSUME SlaInv, NEW e \in Evaluators, Commit(e)
  PROVE  SlaInv'
<1> DEFINE at == runAt[e]
<1>1. /\ evaluating[e] = "holds" /\ seen[e] = row /\ row \in Slas
      /\ at \in 0..MaxTime /\ at \in Nat /\ at # Never
      /\ locker = e
  BY SlaClockAssumption
     DEF Commit, SlaInv, TypeOK, HolderSees, SlaClockAssumption
<1>2. /\ row' = [row EXCEPT
            !.breached = [c \in Clocks |-> IF Late(e, c) THEN at ELSE row.breached[c]],
            !.notified = [c \in Clocks |-> IF Soon(e, c) THEN TRUE ELSE row.notified[c]]]
      /\ stored' = Counting(stored, Clocks, e)
      /\ Untold(e) = {} /\ UNCHANGED <<pushed, undone>>
  <2>1. \A c \in Clocks :
          /\ (IF Late(e, c) THEN at ELSE IF Soon(e, c) THEN row.breached[c] ELSE row.breached[c])
               = (IF Late(e, c) THEN at ELSE row.breached[c])
          /\ (IF Soon(e, c) THEN TRUE ELSE IF Late(e, c) THEN row.notified[c] ELSE row.notified[c])
               = (IF Soon(e, c) THEN TRUE ELSE row.notified[c])
    OBVIOUS
  <2>. QED
    BY <1>1, <2>1 DEF Commit
<1>3. \A c \in Clocks :
        /\ Late(e, c) => /\ row.due[c] # Never /\ at >= row.due[c]
                         /\ row.breached[c] = Never
        /\ Soon(e, c) => ~row.notified[c]
        /\ Late(e, c) \/ Soon(e, c) => c \in told[e]
  BY <1>1, <1>2 DEF Late, Soon, Breaches, Approaches, PastDue, Untold
<1> HIDE DEF at
<1>4. /\ row' \in Slas /\ row'.due = row.due
      /\ \A c \in Clocks :
           /\ row'.breached[c] = (IF Late(e, c) THEN at ELSE row.breached[c])
           /\ row'.notified[c] = (IF Soon(e, c) THEN TRUE ELSE row.notified[c])
  BY <1>1, <1>2 DEF Slas, Times
<1>5. /\ stored' \in Counts
      /\ \A c \in Clocks :
           /\ stored'[c].breached = stored[c].breached + TellsLate(e, c)
           /\ stored'[c].approaching = stored[c].approaching + TellsSoon(e, c)
           /\ TellsLate(e, c) = (IF Late(e, c) THEN 1 ELSE 0)
           /\ TellsSoon(e, c) = (IF Soon(e, c) THEN 1 ELSE 0)
  BY <1>2, <1>3 DEF Counting, TellsLate, TellsSoon, Counts, SlaInv, TypeOK
<1>6. RowTypes' /\ BreachFitsClock'
  BY <1>1, <1>2, <1>3, <1>4, <1>5, Types DEF SlaInv, RowTypes, BreachFitsClock
<1>7. Stored'
  <2> SUFFICES ASSUME NEW c \in Clocks
               PROVE  /\ stored'[c].breached <= 1 /\ stored'[c].approaching <= 1
                      /\ row'.breached[c] = Never => stored'[c].breached = 0
                      /\ ~row'.notified[c] => stored'[c].approaching = 0
    BY DEF Stored
  <2>1. /\ stored[c].breached <= 1 /\ stored[c].approaching <= 1
        /\ row.breached[c] = Never => stored[c].breached = 0
        /\ ~row.notified[c] => stored[c].approaching = 0
    BY DEF SlaInv, Counted, Stored
  <2>2. stored[c].breached \in Nat /\ stored[c].approaching \in Nat
    BY <1>1, PushedByHolder
  <2>3. /\ TellsLate(e, c) = 0 \/ TellsLate(e, c) = 1
        /\ TellsSoon(e, c) = 0 \/ TellsSoon(e, c) = 1
    BY DEF TellsLate, TellsSoon
  <2>4. /\ stored'[c].breached = stored[c].breached + TellsLate(e, c)
        /\ stored'[c].approaching = stored[c].approaching + TellsSoon(e, c)
    BY <1>5
  <2>5. /\ TellsLate(e, c) = 1 => row.breached[c] = Never /\ row'.breached[c] # Never
        /\ TellsLate(e, c) = 0 => row'.breached[c] = row.breached[c]
    <3>0. 0 # 1
      OBVIOUS
    <3>1. CASE Late(e, c)
      BY <1>1, <1>3, <1>4, <3>0, <3>1, Zenon DEF TellsLate
    <3>2. CASE ~Late(e, c)
      BY <1>3, <1>4, <3>0, <3>2, Zenon DEF TellsLate
    <3>. QED
      BY <3>1, <3>2, Zenon
  <2>6. /\ TellsSoon(e, c) = 1 => ~row.notified[c] /\ row'.notified[c]
        /\ TellsSoon(e, c) = 0 => row'.notified[c] = row.notified[c]
    <3>0. 0 # 1
      OBVIOUS
    <3>1. CASE Soon(e, c)
      BY <1>3, <1>4, <3>0, <3>1, Zenon DEF TellsSoon
    <3>2. CASE ~Soon(e, c)
      BY <1>3, <1>4, <3>0, <3>2, Zenon DEF TellsSoon
    <3>. QED
      BY <3>1, <3>2, Zenon
  <2>7. /\ stored'[c].breached <= 1
        /\ row'.breached[c] = Never => stored'[c].breached = 0
    BY <2>1, <2>2, <2>3, <2>4, <2>5
  <2>8. /\ stored'[c].approaching <= 1
        /\ ~row'.notified[c] => stored'[c].approaching = 0
    BY <2>1, <2>2, <2>3, <2>4, <2>6
  <2>. QED
    BY <2>7, <2>8
<1>8. WorldTypes' /\ CallerTypes' /\ PatchReal'
  BY Types DEF Commit, SlaInv, WorldTypes, CallerTypes, PatchReal, Free, callerVars
<1>9. EvaluatorTypes' /\ HolderSees' /\ Pushed'
  <2>1. /\ evaluating'[e] = "idle" /\ seen'[e] = Unread /\ locker' = Never
        /\ told'[e] = {}
        /\ \A d \in Evaluators \ {e} :
             evaluating'[d] = evaluating[d] /\ seen'[d] = seen[d] /\ told'[d] = told[d]
    BY DEF Commit, SlaInv, TypeOK
  <2>2. /\ evaluating' \in [Evaluators -> {"idle", "listed", "holds"}]
        /\ runAt' \in [Evaluators -> 0..MaxTime]
        /\ seen' \in [Evaluators -> Slas \cup {Unread}]
        /\ told' \in [Evaluators -> SUBSET Clocks]
    BY SlaClockAssumption DEF Commit, SlaInv, TypeOK, SlaClockAssumption
  <2>3. \A d \in Evaluators :
          /\ evaluating'[d] # "holds" /\ seen'[d] = Unread /\ told'[d] = {}
          /\ locker' # d
    BY <1>1, <2>1, SlaClockAssumption DEF SlaInv, TypeOK, SlaClockAssumption
  <2>4. \A c \in Clocks :
          /\ pushed'[c].breached = stored'[c].breached + undone'[c].breached
          /\ pushed'[c].approaching = stored'[c].approaching + undone'[c].approaching
    <3> TAKE c \in Clocks
    <3>1. pushed' = pushed /\ undone' = undone
      BY <1>2
    <3>2. /\ stored'[c].breached = stored[c].breached + TellsLate(e, c)
          /\ stored'[c].approaching = stored[c].approaching + TellsSoon(e, c)
      BY <1>5
    <3>. QED
      BY <1>1, <3>1, <3>2, PushedByHolder
  <2>. QED
    BY <2>1, <2>2, <2>3, <2>4 DEF EvaluatorTypes, HolderSees, Pushed
<1>. QED
  BY <1>6, <1>7, <1>8, <1>9, TypesNext DEF SlaInv, Counted

LEMMA SlaStep == SlaInv /\ [Next]_vars => SlaInv'
<1> SUFFICES ASSUME SlaInv, [Next]_vars PROVE SlaInv'
  OBVIOUS
<1>1. CASE UNCHANGED vars
  BY <1>1 DEF vars, SlaInv, TypeOK, PatchReal, Free, HolderSees, BreachFitsClock,
         Counted, Stored, Pushed, TellsLate, TellsSoon, Late, Soon, Breaches,
         Approaches
<1>2. ASSUME NEW w \in Callers, Chat(w) \/ Serve(w) \/ CrashCaller(w) PROVE SlaInv'
  BY <1>2, ChatStep, PassOverStep, DecideStep, SaveStep, CrashCallerStep DEF Serve
<1>3. ASSUME NEW e \in Evaluators, Run(e) \/ CrashEvaluator(e) PROVE SlaInv'
  BY <1>3, ListStep, CrashEvaluatorStep, LockStep, AnnounceStep, CommitStep DEF Run
<1>. QED
  BY <1>1, <1>2, <1>3, WorldStep DEF Next

LEMMA SlaInvariant == Spec => []SlaInv
BY InitSlaInv, SlaStep, PTL DEF Spec

-----------------------------------------------------------------------------
(* The theorems *)

\* Every variable has its type, and one evaluator at a time holds the row.
THEOREM TypeCorrect == Spec => []TypeOK
BY SlaInvariant, PTL DEF SlaInv

\* A breach on record is one of the deadline on record, whoever restarted or
\* stopped the clock meanwhile.
THEOREM BreachesFit == Spec => []BreachFitsClock
BY SlaInvariant, PTL DEF SlaInv

\* Overlapping evaluators, crashes and restarted clocks never put two alerts of
\* one sort for one deadline on record; one that reaches the open pages again
\* was taken back by a death between the announcement and its commit.
THEOREM AlertsAreSingle == Spec => []AlertsOnce
<1>1. SlaInv => AlertsOnce
  <2> SUFFICES ASSUME SlaInv PROVE AlertsOnce
    OBVIOUS
  <2>1. \A c \in Clocks :
          /\ stored[c].breached \in Nat /\ stored[c].approaching \in Nat
          /\ undone[c].breached \in Nat /\ undone[c].approaching \in Nat
    BY DEF SlaInv, TypeOK, Counts
  <2>2. CASE locker = Never
    BY <2>1, <2>2 DEF SlaInv, Counted, Stored, Pushed, AlertsOnce
  <2>3. ASSUME NEW e \in Evaluators, locker = e
        PROVE  AlertsOnce
    <3>1. seen[e] = row
      BY <2>3 DEF SlaInv, TypeOK, HolderSees
    <3>2. \A c \in Clocks :
            /\ TellsLate(e, c) \in {0, 1} /\ TellsSoon(e, c) \in {0, 1}
            /\ TellsLate(e, c) = 1 => row.breached[c] = Never
            /\ TellsSoon(e, c) = 1 => ~row.notified[c]
      BY <3>1 DEF TellsLate, TellsSoon, Late, Soon, Breaches, Approaches
    <3>. QED
      BY <2>1, <2>3, <3>2 DEF SlaInv, Counted, Stored, Pushed, AlertsOnce
  <2>. QED
    BY <2>2, <2>3 DEF SlaInv, TypeOK
<1>. QED
  BY <1>1, SlaInvariant, PTL
=============================================================================
