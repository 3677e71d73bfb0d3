--------------------------- MODULE Workspace_proofs ---------------------------
(***************************************************************************)
(* What a workspace has prepared for its operators: the safety of the runs *)
(* of macros, for any macro and any number of requests, and who may see    *)
(* and change macros, quick replies, teams and queues, for any             *)
(* organisation and any request.                                           *)
(*                                                                         *)
(* A verdict is computed from the records alone, so it is right because no *)
(* request reaches the computation with an action unrecorded (Walked): it  *)
(* recorded, or found recorded, all the actions it has passed. How often   *)
(* an action takes effect is counted together with the requests that are   *)
(* still to run it, by what they read when they began (Accounted).         *)
(*                                                                         *)
(* The rules are operators, so their theorems speak of one request in any  *)
(* organisation, and those that keep an invariant of the organisation, a   *)
(* macro or a table of queues hold of any sequence of requests.            *)
(***************************************************************************)
EXTENDS MacroExecution, ApiRules, FiniteSetTheorems, TLAPS

-----------------------------------------------------------------------------
(* The runs of a macro *)

Runs == [at : Places, skip : SUBSET Actions, next : 0..Last, verdict : Verdicts]

\* Records and verdicts speak of effects that took place.
Effective ==
  /\ \A i \in Actions : rec[i] = "SUCCEEDED" => acts[i] > 0
  /\ \A c \in Callers : run[c].at = "succeeded" => acts[run[c].next] > 0
  /\ \A c \in Callers : run[c].at = "save" /\ run[c].verdict = "SUCCEEDED" =>
       \A i \in Actions : acts[i] > 0

\* The actions a request has passed have a record.
Passed(c) ==
  {i \in Actions : \/ run[c].at = "aggregate"
                   \/ /\ run[c].at \in Working
                      /\ i < run[c].next \/ i \in run[c].skip}
Walked == \A c \in Callers : \A i \in Passed(c) : rec[i] # "none"

\* A request at work is at an action that it does not skip.
Placed ==
  \A c \in Callers : run[c].at \in Working =>
    /\ run[c].next \notin run[c].skip
    /\ run[c].at = "insert" => run[c].next \in Messages

MacroInv == TypeOK /\ Effective /\ Walked /\ Placed /\ SucceededIsDone /\ MessagesOnce

LEMMA InitMacroInv == Init => MacroInv
<1> SUFFICES ASSUME Init PROVE MacroInv
  OBVIOUS
<1>1. \A c \in Callers : run[c] = Idle
  BY DEF Init
<1>2. TypeOK
  <2>1. Idle \in Runs
    BY MacroAssumption DEF MacroAssumption, Idle, Runs, Places, Verdicts, Failures
  <2>2. active \in BOOLEAN
    BY Zenon DEF Init
  <2>. QED
    BY <1>1, <2>1, <2>2 DEF Init, TypeOK, Idle, Working, Runs
<1>3. Effective /\ Walked /\ Placed /\ SucceededIsDone /\ MessagesOnce
  BY <1>1, MacroAssumption
     DEF Init, Effective, Walked, Placed, SucceededIsDone, MessagesOnce, Idle, Passed,
         Working, MacroAssumption, Actions
<1>. QED
  BY <1>2, <1>3 DEF MacroInv

\* Where Advance leaves a request: at the first action after i that it does
\* not skip, or at the aggregate when it skips all of them.
LEMMA AdvanceMoves ==
  ASSUME TypeOK, NEW c \in Callers, NEW i \in 0..Last, NEW skip \in SUBSET Actions,
         Advance(c, i, skip)
  PROVE  \E place \in {"aggregate", "act"}, j \in 0..Last :
           /\ run' = [run EXCEPT ![c].at = place, ![c].next = j, ![c].skip = skip]
           /\ place = "aggregate" => \A k \in Actions : k > i => k \in skip
           /\ place = "act" => /\ j \in Actions \ skip /\ j > i
                               /\ \A k \in Actions : k > i /\ k < j => k \in skip
<1> DEFINE left == {j \in Actions \ skip : j > i}
<1>1. CASE /\ left = {}
           /\ run' = [run EXCEPT ![c].at = "aggregate", ![c].next = i, ![c].skip = skip]
  BY <1>1
<1>2. ASSUME NEW j \in left, \A k \in left : j <= k,
             run' = [run EXCEPT ![c].at = "act", ![c].next = j, ![c].skip = skip]
      PROVE  /\ j \in 0..Last /\ j \in Actions \ skip /\ j > i
             /\ \A k \in Actions : k > i /\ k < j => k \in skip
  BY <1>2, MacroAssumption DEF Actions, MacroAssumption
<1>3. \/ left = {} /\ run' = [run EXCEPT ![c].at = "aggregate", ![c].next = i,
                                         ![c].skip = skip]
      \/ \E j \in left : /\ \A k \in left : j <= k
                         /\ run' = [run EXCEPT ![c].at = "act", ![c].next = j,
                                               ![c].skip = skip]
  BY DEF Advance
<1>. QED
  BY <1>1, <1>2, <1>3

-----------------------------------------------------------------------------
(* Each step *)

\* Requests that neither run an action nor are about to record one.
LEMMA EnterStep ==
  ASSUME MacroInv, NEW c \in Callers,
         \/ Create(c) \/ FindExisting(c) \/ Retry(c) \/ SaveStatus(c)
         \/ Tally(c) \/ Crash(c)
  PROVE  MacroInv'
<1>1. PICK place \in {"begin", "tally", "done", "dead"} : Goto(c, place)
  BY DEF Create, FindExisting, Retry, SaveStatus, Tally, Crash
<1>2. /\ rec' = rec /\ acts' = acts /\ overlaps' = overlaps
      /\ active' = active /\ count' \in Nat /\ lost' \in [Actions -> Nat]
      /\ \/ status' = status \/ status' = "PENDING"
         \/ run[c].at = "save" /\ status' = run[c].verdict
  BY DEF MacroInv, TypeOK, Create, FindExisting, Retry, SaveStatus, Tally, Crash,
         ghosts, Loses, Working
<1>3. /\ run'[c] = [run[c] EXCEPT !.at = place]
      /\ \A d \in Callers \ {c} : run'[d] = run[d]
      /\ place \notin Working \cup {"aggregate", "save"}
  BY <1>1 DEF Goto, MacroInv, TypeOK, Working
<1>4. TypeOK'
  BY <1>1, <1>2, <1>3 DEF Goto, MacroInv, TypeOK, Places
<1>5. Effective' /\ SucceededIsDone' /\ MessagesOnce'
  BY <1>2, <1>3 DEF MacroInv, TypeOK, Effective, SucceededIsDone, MessagesOnce, Working
<1>6. Walked' /\ Placed'
  <2>1. \A d \in Callers : run'[d].at \in Working \cup {"aggregate"} => run'[d] = run[d]
    BY <1>3 DEF MacroInv, TypeOK
  <2>2. \A d \in Callers : \A i \in Passed(d)' : i \in Passed(d)
    BY <2>1 DEF Passed
  <2>. QED
    BY <1>2, <2>1, <2>2 DEF MacroInv, Walked, Placed
<1>. QED
  BY <1>4, <1>5, <1>6 DEF MacroInv

LEMMA BeginStep ==
  ASSUME MacroInv, NEW c \in Callers, Begin(c)
  PROVE  MacroInv'
<1> DEFINE skip == AlreadySucceeded
<1>1. PICK place \in {"aggregate", "act"}, j \in 0..Last :
        /\ run' = [run EXCEPT ![c].at = place, ![c].next = j, ![c].skip = skip]
        /\ place = "aggregate" => \A k \in Actions : k > 0 => k \in skip
        /\ place = "act" => /\ j \in Actions \ skip /\ j > 0
                            /\ \A k \in Actions : k > 0 /\ k < j => k \in skip
  <2>1. Advance(c, 0, skip) /\ skip \in SUBSET Actions /\ 0 \in 0..Last /\ TypeOK
    BY MacroAssumption DEF Begin, MacroInv, MacroAssumption, AlreadySucceeded
  <2> HIDE DEF skip
  <2>. QED
    BY <2>1, AdvanceMoves
<1>2. /\ rec' = rec /\ acts' = acts /\ status' = status
      /\ active' = active /\ count' = count /\ lost' = lost
      /\ overlaps' \in Nat
  BY DEF Begin, MacroInv, TypeOK
<1>3. /\ run'[c] = [run[c] EXCEPT !.at = place, !.next = j, !.skip = skip]
      /\ \A d \in Callers \ {c} : run'[d] = run[d]
      /\ \A k \in Actions : k > 0
      /\ \A k \in Actions : k \in skip <=> rec[k] = "SUCCEEDED"
  BY <1>1 DEF MacroInv, TypeOK, Actions, AlreadySucceeded
<1> HIDE DEF skip
<1>4. TypeOK'
  <2>1. skip \in SUBSET Actions
    BY DEF skip, AlreadySucceeded
  <2>3. run'[c] \in Runs
    <3>1. run[c] \in Runs /\ place \in Places
      BY DEF MacroInv, TypeOK, Runs, Places, Working
    <3>. QED
      BY <1>3, <2>1, <3>1 DEF Runs
  <2>. QED
    BY <1>1, <1>2, <1>3, <2>3 DEF MacroInv, TypeOK, Runs, Working
<1>5. Effective' /\ SucceededIsDone' /\ MessagesOnce'
  BY <1>1, <1>2, <1>3 DEF MacroInv, TypeOK, Effective, SucceededIsDone, MessagesOnce
<1>6. Walked'
  BY <1>1, <1>2, <1>3 DEF MacroInv, TypeOK, Walked, Passed, Working
<1>7. Placed'
  BY <1>1, <1>3 DEF MacroInv, TypeOK, Placed, Working
<1>. QED
  BY <1>4, <1>5, <1>6, <1>7 DEF MacroInv

\* Performing an action moves the request on within its action.
LEMMA PerformStep ==
  ASSUME MacroInv, NEW c \in Callers,
         CheckMessage(c) \/ InsertMessage(c) \/ CallService(c)
  PROVE  MacroInv'
<1>1. run[c].at \in {"act", "insert"} /\ run[c].next \in Actions
  BY DEF MacroInv, TypeOK, CheckMessage, InsertMessage, CallService, Working
<1>2. PICK place \in {"insert", "succeeded", "failed"} :
        /\ Goto(c, place)
        /\ place = "succeeded" => acts'[run[c].next] > 0
        /\ place = "insert" => run[c].next \in Messages
  BY <1>1 DEF MacroInv, TypeOK, CheckMessage, InsertMessage, CallService,
              TakesEffect, Sent, ghosts
<1>3. /\ rec' = rec /\ status' = status /\ overlaps' = overlaps
      /\ active' = active /\ count' = count /\ lost' \in [Actions -> Nat]
      /\ acts' \in [Actions -> Nat]
      /\ \A i \in Actions : acts'[i] >= acts[i]
  BY <1>1 DEF MacroInv, TypeOK, CheckMessage, InsertMessage, CallService, TakesEffect,
              ghosts, Loses
<1>4. /\ run'[c] = [run[c] EXCEPT !.at = place]
      /\ \A d \in Callers \ {c} : run'[d] = run[d]
      /\ place \in Working
  BY <1>2 DEF Goto, MacroInv, TypeOK, Working
<1>5. TypeOK'
  BY <1>1, <1>2, <1>3, <1>4 DEF Goto, MacroInv, TypeOK, Places, Working
<1>6. Effective'
  <2>1. \A i \in Actions : acts[i] > 0 => acts'[i] > 0
    BY <1>3 DEF MacroInv, TypeOK
  <2>. QED
    BY <1>1, <1>2, <1>3, <1>4, <2>1 DEF MacroInv, TypeOK, Effective, Working
<1>7. SucceededIsDone'
  BY <1>3 DEF MacroInv, TypeOK, SucceededIsDone
<1>8. Walked' /\ Placed'
  <2>1. Walked'
    BY <1>1, <1>3, <1>4 DEF MacroInv, TypeOK, Walked, Passed, Working
  <2>2. Placed'
    BY <1>1, <1>2, <1>4 DEF MacroInv, TypeOK, Placed, Working
  <2>. QED
    BY <2>1, <2>2
<1>9. MessagesOnce'
  <2>1. CASE CheckMessage(c)
    BY <2>1 DEF CheckMessage, MacroInv, MessagesOnce
  <2>2. CASE InsertMessage(c)
    <3>1. Messages \subseteq Actions
      BY MacroAssumption DEF MacroAssumption, Actions
    <3>. QED
      BY <1>1, <2>2, <3>1
         DEF InsertMessage, TakesEffect, Sent, MacroInv, TypeOK, MessagesOnce
  <2>3. CASE CallService(c)
    <3>1. Messages \subseteq Actions
      BY MacroAssumption DEF MacroAssumption, Actions
    <3>2. \A i \in Messages : acts'[i] = acts[i]
      BY <1>1, <2>3, <3>1 DEF CallService, TakesEffect, MacroInv, TypeOK
    <3>. QED
      BY <3>2 DEF MacroInv, MessagesOnce
  <2>. QED
    BY <2>1, <2>2, <2>3
<1>. QED
  BY <1>5, <1>6, <1>7, <1>8, <1>9 DEF MacroInv

LEMMA RecordStep ==
  ASSUME MacroInv, NEW c \in Callers, Record(c)
  PROVE  MacroInv'
<1> DEFINE i == run[c].next
           skip == run[c].skip
<1>1. /\ i \in Actions /\ i \in 0..Last /\ skip \in SUBSET Actions
      /\ run[c].at \in Working /\ i \notin skip
  BY DEF Record, MacroInv, TypeOK, Placed, Working
<1>2. PICK place \in {"aggregate", "act"}, j \in 0..Last :
        /\ run' = [run EXCEPT ![c].at = place, ![c].next = j, ![c].skip = skip]
        /\ place = "aggregate" => \A k \in Actions : k > i => k \in skip
        /\ place = "act" => /\ j \in Actions \ skip /\ j > i
                            /\ \A k \in Actions : k > i /\ k < j => k \in skip
  <2>1. Advance(c, i, skip) /\ TypeOK
    BY DEF Record, MacroInv
  <2> HIDE DEF i, skip
  <2>. QED
    BY <1>1, <2>1, AdvanceMoves
<1>3. /\ rec' = [rec EXCEPT ![i] = Outcome(c)]
      /\ Outcome(c) \in {"SUCCEEDED", "FAILED"}
      /\ Outcome(c) = "SUCCEEDED" => acts[i] > 0
      /\ acts' = acts /\ status' = status /\ overlaps' = overlaps /\ lost' = lost
      /\ active' = active /\ count' = count
  BY DEF Record, Outcome, MacroInv, Effective, ghosts
<1>4. /\ run'[c] = [run[c] EXCEPT !.at = place, !.next = j, !.skip = skip]
      /\ \A d \in Callers \ {c} : run'[d] = run[d]
  BY <1>2 DEF MacroInv, TypeOK
<1> HIDE DEF i, skip
<1>5. TypeOK'
  <2>1. run'[c] \in Runs
    <3>1. run[c] \in Runs /\ place \in Places
      BY DEF MacroInv, TypeOK, Runs, Places, Working
    <3>. QED
      BY <1>1, <1>4, <3>1 DEF Runs
  <2>2. rec' \in [Actions -> {"none", "SUCCEEDED", "FAILED"}]
    BY <1>1, <1>3 DEF MacroInv, TypeOK
  <2>. QED
    BY <1>1, <1>2, <1>3, <1>4, <2>1, <2>2 DEF MacroInv, TypeOK, Runs, Working
<1>6. Effective' /\ SucceededIsDone' /\ MessagesOnce'
  BY <1>1, <1>2, <1>3, <1>4 DEF MacroInv, TypeOK, Effective, SucceededIsDone, MessagesOnce
<1>7. /\ rec'[i] # "none"
      /\ \A k \in Actions \ {i} : rec'[k] = rec[k]
      /\ \A k \in Actions : k < i \/ k = i \/ k > i
      /\ \A k \in Actions : k < i \/ k \in skip => rec[k] # "none"
  BY <1>1, <1>3, MacroAssumption
     DEF MacroInv, TypeOK, Walked, Passed, Actions, MacroAssumption, i, skip
<1>8. Walked'
  <2>1. \A k \in Passed(c)' : rec'[k] # "none"
    BY <1>1, <1>2, <1>4, <1>7 DEF MacroInv, TypeOK, Passed, Actions
  <2>2. \A d \in Callers \ {c} : \A k \in Passed(d)' : rec'[k] # "none"
    BY <1>4, <1>7 DEF MacroInv, Walked, Passed
  <2>. QED
    BY <2>1, <2>2 DEF Walked
<1>9. Placed'
  BY <1>1, <1>2, <1>4 DEF MacroInv, TypeOK, Placed, Working
<1>. QED
  BY <1>5, <1>6, <1>8, <1>9 DEF MacroInv

LEMMA AggregateStep ==
  ASSUME MacroInv, NEW c \in Callers, Aggregate(c)
  PROVE  MacroInv'
<1>1. /\ run'[c] = [run[c] EXCEPT !.at = "save", !.verdict = FinalStatus]
      /\ \A d \in Callers \ {c} : run'[d] = run[d]
      /\ run' = [run EXCEPT ![c].at = "save", ![c].verdict = FinalStatus]
      /\ UNCHANGED <<active, status, rec, acts, count, lost, overlaps>>
  BY DEF Aggregate, MacroInv, TypeOK, ghosts
<1>2. FinalStatus = "SUCCEEDED" => \A i \in Actions : acts[i] > 0
  <2>1. \A i \in Actions : rec[i] \in {"SUCCEEDED", "FAILED"}
    BY DEF Aggregate, MacroInv, TypeOK, Walked, Passed
  <2>. QED
    BY <2>1 DEF FinalStatus, Has, MacroInv, Effective
<1>3. TypeOK'
  <2>1. FinalStatus \in Verdicts
    BY DEF FinalStatus, Verdicts, Failures
  <2>2. run[c] \in Runs /\ "save" \in Places
    BY DEF MacroInv, TypeOK, Runs, Places, Working
  <2>3. run'[c] \in Runs
    <3>1. \A x \in Runs, v \in Verdicts : [x EXCEPT !.at = "save", !.verdict = v] \in Runs
      BY <2>2 DEF Runs
    <3>. QED
      BY <1>1, <2>1, <2>2, <3>1, Zenon
  <2>. QED
    BY <1>1, <2>3 DEF MacroInv, TypeOK, Runs, Working
<1>4. Effective' /\ SucceededIsDone' /\ MessagesOnce'
  BY <1>1, <1>2 DEF MacroInv, TypeOK, Effective, SucceededIsDone, MessagesOnce
<1>5. Walked' /\ Placed'
  BY <1>1 DEF MacroInv, TypeOK, Walked, Placed, Passed, Working
<1>. QED
  BY <1>3, <1>4, <1>5 DEF MacroInv

\* No step leads out of the invariant.
LEMMA MacroStep == MacroInv /\ [Next]_vars => MacroInv'
<1> SUFFICES ASSUME MacroInv, [Next]_vars PROVE MacroInv'
  OBVIOUS
<1>1. CASE SetActive
  <2>1. active' \in BOOLEAN /\ UNCHANGED <<status, rec, acts, count, run, lost, overlaps>>
    BY <1>1 DEF SetActive, MacroInv, TypeOK, ghosts
  <2>. QED
    BY <2>1 DEF MacroInv, TypeOK, Effective, Walked, Placed, SucceededIsDone,
                MessagesOnce, Passed
<1>2. CASE UNCHANGED vars
  BY <1>2 DEF vars, MacroInv, TypeOK, Effective, Walked, Placed, SucceededIsDone,
                MessagesOnce, Passed
<1>3. ASSUME NEW c \in Callers,
             \/ Create(c) \/ FindExisting(c) \/ Retry(c) \/ Begin(c)
             \/ CheckMessage(c) \/ InsertMessage(c) \/ CallService(c) \/ Record(c)
             \/ Aggregate(c) \/ SaveStatus(c) \/ Tally(c) \/ Crash(c)
      PROVE  MacroInv'
  BY <1>3, EnterStep, BeginStep, PerformStep, RecordStep, AggregateStep
<1>. QED
  BY <1>1, <1>2, <1>3 DEF Next

LEMMA MacroInvariant == Spec => []MacroInv
BY InitMacroInv, MacroStep, PTL DEF Spec

-----------------------------------------------------------------------------
(* The theorems *)

\* Every variable has its type, and a request at work is at an action of the
\* snapshot.
THEOREM TypeCorrect == Spec => []TypeOK
BY MacroInvariant, PTL DEF MacroInv

\* Whoever is told that an execution succeeded can rely on it: every action
\* took effect.
THEOREM SuccessIsReal == Spec => []SucceededIsDone
BY MacroInvariant, PTL DEF MacroInv

\* However many requests run, resume and retry an execution, and whatever they
\* overwrite, each of its messages is sent once.
THEOREM MessagesAreSentOnce == Spec => []MessagesOnce
BY MacroInvariant, PTL DEF MacroInv

-----------------------------------------------------------------------------
(* How often a service is called *)

Services == Actions \ Messages

\* The requests that have still to record an action, by what they read when
\* they began, and those of them that have not carried it out.
Pending(i) ==
  {c \in Callers : run[c].at \in Working /\ i \notin run[c].skip /\ run[c].next <= i}
Owing(i) == {c \in Pending(i) : run[c].next < i \/ run[c].at # "succeeded"}

\* Every request that begins while another is at work may carry the action out
\* once more; one that begins alone does so only for what was lost, or for a
\* record that a request begun in time for another's success has overwritten.
Accounted ==
  \A i \in Services :
    /\ acts[i] + Cardinality(Owing(i)) <= 1 + lost[i] + overlaps
    /\ rec[i] # "SUCCEEDED" /\ Pending(i) = {} => acts[i] <= lost[i] + overlaps

Bit(b) == IF b THEN 1 ELSE 0

\* A step of one request adds or removes that request.
LEMMA OwingMoves ==
  ASSUME MacroInv, NEW c \in Callers, NEW i \in Services,
         \A d \in Callers \ {c} : run'[d] = run[d]
  PROVE  /\ \A d \in Callers \ {c} : d \in Pending(i)' <=> d \in Pending(i)
         /\ \E n \in Nat :
              /\ Cardinality(Owing(i)) = n + Bit(c \in Owing(i))
              /\ Cardinality(Owing(i)') = n + Bit(c \in Owing(i)')
<1> DEFINE rest == Owing(i) \ {c}
<1>1. /\ IsFiniteSet(Owing(i)) /\ IsFiniteSet(Owing(i)')
      /\ IsFiniteSet(rest) /\ Cardinality(rest) \in Nat
  <2>1. IsFiniteSet(Callers)
    BY MacroAssumption DEF MacroAssumption
  <2>2. Owing(i) \subseteq Callers
    BY DEF Owing, Pending
  <2>3. Owing(i)' \subseteq Callers
    BY DEF Owing, Pending
  <2>4. rest \subseteq Callers
    BY <2>2
  <2>. QED
    BY <2>1, <2>2, <2>3, <2>4, FS_Subset, FS_CardinalityType
<1>2. /\ \A d \in Callers \ {c} : d \in Pending(i)' <=> d \in Pending(i)
      /\ Owing(i)' \ {c} = rest
  BY DEF Owing, Pending
<1>3. \A S : IsFiniteSet(S) => Cardinality(S) = Cardinality(S \ {c}) + Bit(c \in S)
  <2> SUFFICES ASSUME NEW S, IsFiniteSet(S)
               PROVE  Cardinality(S) = Cardinality(S \ {c}) + Bit(c \in S)
    OBVIOUS
  <2>1. CASE c \in S
    <3>1. Cardinality(S \ {c}) = Cardinality(S) - 1 /\ Cardinality(S) \in Nat
      BY <2>1, FS_RemoveElement, FS_CardinalityType
    <3>. QED
      BY <2>1, <3>1 DEF Bit
  <2>2. CASE c \notin S
    <3>1. S \ {c} = S
      BY <2>2
    <3>2. Cardinality(S) \in Nat /\ Bit(c \in S) = 0
      BY <2>2, FS_CardinalityType DEF Bit
    <3>. QED
      BY <3>1, <3>2
  <2>. QED
    BY <2>1, <2>2
<1>. QED
  BY <1>1, <1>2, <1>3

\* A step of a request that is at work neither before nor after it.
LEMMA AwayStep ==
  ASSUME MacroInv, Accounted, NEW c \in Callers,
         \A d \in Callers \ {c} : run'[d] = run[d],
         run[c].at \notin Working, run'[c].at \notin Working,
         UNCHANGED <<rec, acts, lost, overlaps>>
  PROVE  Accounted'
<1> SUFFICES ASSUME NEW i \in Services
             PROVE  Owing(i)' = Owing(i) /\ Pending(i)' = Pending(i)
  BY DEF Accounted
<1>. QED
  BY DEF Owing, Pending

LEMMA Numbers ==
  ASSUME MacroInv, NEW i \in Services
  PROVE  acts[i] \in Nat /\ lost[i] \in Nat /\ overlaps \in Nat /\ i \in Actions /\ i \in Nat
BY DEF Services, MacroInv, TypeOK, Actions

LEMMA BeginAccounted ==
  ASSUME MacroInv, Accounted, NEW c \in Callers, Begin(c)
  PROVE  Accounted'
<1>1. PICK place \in {"aggregate", "act"}, j \in 0..Last :
        /\ run' = [run EXCEPT ![c].at = place, ![c].next = j, ![c].skip = AlreadySucceeded]
        /\ place = "aggregate" => \A k \in Actions : k > 0 => k \in AlreadySucceeded
        /\ place = "act" => \A k \in Actions : k > 0 /\ k < j => k \in AlreadySucceeded
  <2> DEFINE skip == AlreadySucceeded
  <2>1. /\ Advance(c, 0, skip) /\ skip \in SUBSET Actions
        /\ 0 \in 0..Last /\ TypeOK
    BY MacroAssumption DEF Begin, MacroInv, MacroAssumption, AlreadySucceeded
  <2> HIDE DEF skip
  <2>2. \E place \in {"aggregate", "act"}, j \in 0..Last :
        /\ run' = [run EXCEPT ![c].at = place, ![c].next = j, ![c].skip = skip]
        /\ place = "aggregate" => \A k \in Actions : k > 0 => k \in skip
        /\ place = "act" => \A k \in Actions : k > 0 /\ k < j => k \in skip
    <3>1. PICK place \in {"aggregate", "act"}, j \in 0..Last :
        /\ run' = [run EXCEPT ![c].at = place, ![c].next = j, ![c].skip = skip]
        /\ place = "aggregate" => \A k \in Actions : k > 0 => k \in skip
        /\ place = "act" => /\ j \in Actions \ skip /\ j > 0
                            /\ \A k \in Actions : k > 0 /\ k < j => k \in skip
      BY <2>1, AdvanceMoves
    <3>. WITNESS place \in {"aggregate", "act"}, j \in 0..Last
    <3>. QED
      BY <3>1
  <2>. QED
    BY <2>2 DEF skip
<1>2. /\ UNCHANGED <<rec, acts, lost>> /\ run[c].at \notin Working
      /\ overlaps' = overlaps + Bit(\E d \in Callers : run[d].at \in Working)
  BY DEF Begin, Working, Bit
<1>3. /\ run'[c].at = place /\ run'[c].next = j /\ run'[c].skip = AlreadySucceeded
      /\ \A d \in Callers \ {c} : run'[d] = run[d]
  BY <1>1 DEF MacroInv, TypeOK
<1> SUFFICES ASSUME NEW i \in Services
             PROVE  /\ acts[i] + Cardinality(Owing(i)') <= 1 + lost[i] + overlaps'
                    /\ rec[i] # "SUCCEEDED" /\ Pending(i)' = {} =>
                         acts[i] <= lost[i] + overlaps'
  BY <1>2 DEF Accounted
<1>4. PICK n \in Nat : /\ Cardinality(Owing(i)) = n + Bit(c \in Owing(i))
                       /\ Cardinality(Owing(i)') = n + Bit(c \in Owing(i)')
  BY <1>3, OwingMoves
<1>5. c \notin Owing(i)
  BY <1>2 DEF Owing, Pending
<1>6. /\ acts[i] + n <= 1 + lost[i] + overlaps
      /\ rec[i] # "SUCCEEDED" /\ Pending(i) = {} => acts[i] <= lost[i] + overlaps
  BY <1>4, <1>5, Numbers DEF Accounted, Bit
<1>7. i > 0 /\ (i \in AlreadySucceeded <=> rec[i] = "SUCCEEDED")
  BY Numbers DEF AlreadySucceeded, Actions
<1>8. /\ c \in Owing(i)' => rec[i] # "SUCCEEDED"
      /\ rec[i] # "SUCCEEDED" => c \in Pending(i)'
  <2>1. rec[i] # "SUCCEEDED" => place = "act" /\ j <= i
    BY <1>1, <1>7, Numbers
  <2>. QED
    BY <1>3, <1>7, <2>1 DEF Owing, Pending, Working
<1>9. overlaps' >= overlaps
  BY <1>2, Numbers DEF Bit
<1>10. CASE c \notin Owing(i)'
  BY <1>2, <1>4, <1>6, <1>8, <1>9, <1>10, Numbers DEF Bit
<1>11. CASE c \in Owing(i)' /\ \E d \in Callers : run[d].at \in Working
  <2>1. overlaps' = overlaps + 1
    BY <1>2, <1>11 DEF Bit
  <2>. QED
    BY <1>4, <1>6, <1>8, <1>11, <2>1, Numbers DEF Bit
<1>12. CASE c \in Owing(i)' /\ \A d \in Callers : run[d].at \notin Working
  <2>1. overlaps' = overlaps
    BY <1>2, <1>12, Numbers DEF Bit
  <2>2. Pending(i) = {} /\ Owing(i) = {}
    BY <1>12 DEF Pending, Owing
  <2>3. n = 0
    BY <1>4, <1>5, <2>2, FS_EmptySet DEF Bit
  <2>. QED
    BY <1>4, <1>6, <1>8, <1>12, <2>1, <2>2, <2>3, Numbers DEF Bit
<1>. QED
  BY <1>10, <1>11, <1>12

\* A request carries the action out, or fails to, or prepares to.
LEMMA PerformAccounted ==
  ASSUME MacroInv, Accounted, NEW c \in Callers,
         CheckMessage(c) \/ InsertMessage(c) \/ CallService(c)
  PROVE  Accounted'
<1>1. PICK place \in {"insert", "succeeded", "failed"} :
        /\ Goto(c, place)
        /\ run[c].next \notin Messages => CallService(c) /\ Goto(c, place)
        /\ run[c].next \notin Messages =>
             \/ place = "succeeded" /\ TakesEffect(c, 1) /\ UNCHANGED lost
             \/ place = "failed" /\ TakesEffect(c, 1) /\ Loses(c)
             \/ place = "failed" /\ TakesEffect(c, 0) /\ UNCHANGED lost
  <2>1. CASE CheckMessage(c)
    BY <2>1 DEF CheckMessage
  <2>2. CASE InsertMessage(c)
    BY <2>2 DEF InsertMessage, MacroInv, Placed, Working
  <2>3. CASE CallService(c)
    BY <2>3 DEF CallService
  <2>. QED
    BY <2>1, <2>2, <2>3
<1>2. /\ run[c].at \in {"act", "insert"} /\ run[c].next \in Actions
      /\ run[c].at \in Working /\ run[c].next \notin run[c].skip
      /\ run'[c] = [run[c] EXCEPT !.at = place] /\ place \in Working
      /\ \A d \in Callers \ {c} : run'[d] = run[d]
      /\ rec' = rec /\ overlaps' = overlaps
  BY <1>1 DEF Goto, MacroInv, TypeOK, Placed, CheckMessage, InsertMessage, CallService,
              TakesEffect, Working, ghosts
<1>3. \A i \in Services : i # run[c].next => acts'[i] = acts[i] /\ lost'[i] = lost[i]
  BY <1>2 DEF CheckMessage, InsertMessage, CallService, TakesEffect, Loses, ghosts,
              MacroInv, TypeOK, Services
<1> SUFFICES ASSUME NEW i \in Services
             PROVE  /\ acts'[i] + Cardinality(Owing(i)') <= 1 + lost'[i] + overlaps
                    /\ rec[i] # "SUCCEEDED" /\ Pending(i)' = {} =>
                         acts'[i] <= lost'[i] + overlaps
  BY <1>2 DEF Accounted
<1>4. PICK n \in Nat : /\ Cardinality(Owing(i)) = n + Bit(c \in Owing(i))
                       /\ Cardinality(Owing(i)') = n + Bit(c \in Owing(i)')
  BY <1>2, OwingMoves
<1>5. /\ c \in Pending(i)' <=> c \in Pending(i)
      /\ Pending(i)' = {} => Pending(i) = {}
  <2>1. \A d \in Callers : d \in Pending(i)' <=> d \in Pending(i)
    BY <1>2 DEF Pending, MacroInv, TypeOK
  <2>. QED
    BY <2>1 DEF Pending
<1>6. CASE i # run[c].next
  <2>1. c \in Owing(i)' <=> c \in Owing(i)
    <3>1. run'[c].next = run[c].next /\ run[c].next \in Nat
      BY <1>2 DEF MacroInv, TypeOK, Actions
    <3>2. run[c].next <= i /\ i # run[c].next => run[c].next < i
      BY <3>1, Numbers
    <3>. QED
      BY <1>5, <1>6, <3>1, <3>2 DEF Owing, Pending
  <2>2. Bit(c \in Owing(i)') = Bit(c \in Owing(i))
    BY <2>1 DEF Bit
  <2>. QED
    BY <1>3, <1>4, <1>5, <1>6, <2>2, Numbers DEF Accounted
<1>7. CASE i = run[c].next
  <2>1. run[c].next \notin Messages
    BY <1>7 DEF Services
  <2>2. /\ c \in Pending(i) /\ c \in Owing(i)
        /\ c \in Owing(i)' <=> place # "succeeded"
    BY <1>2, <1>5, <1>7, Numbers DEF Owing, Pending, MacroInv, TypeOK
  <2>3. Pending(i)' # {} /\ Bit(c \in Owing(i)) = 1
    BY <1>5, <2>2 DEF Bit
  <2>4. acts[i] + n + 1 <= 1 + lost[i] + overlaps
    BY <1>4, <2>3, Numbers DEF Accounted
  <2>5. \/ /\ Bit(c \in Owing(i)') = 0 /\ acts'[i] = acts[i] + 1 /\ lost'[i] = lost[i]
        \/ /\ Bit(c \in Owing(i)') = 1 /\ acts'[i] = acts[i] + 1 /\ lost'[i] = lost[i] + 1
        \/ /\ Bit(c \in Owing(i)') = 1 /\ acts'[i] = acts[i] + 0 /\ lost'[i] = lost[i]
    BY <1>1, <1>7, <2>1, <2>2, Numbers DEF Bit, TakesEffect, Loses, MacroInv, TypeOK
  <2>. QED
    BY <1>4, <2>3, <2>4, <2>5, Numbers
<1>. QED
  BY <1>6, <1>7

LEMMA RecordAccounted ==
  ASSUME MacroInv, Accounted, NEW c \in Callers, Record(c)
  PROVE  Accounted'
<1> DEFINE r == run[c].next
           skip == run[c].skip
<1>1. /\ r \in Actions /\ r \in 0..Last /\ skip \in SUBSET Actions
      /\ run[c].at \in Working /\ r \notin skip
      /\ run[c].at \in {"succeeded", "failed"}
  BY DEF Record, MacroInv, TypeOK, Placed, Working
<1>2. PICK place \in {"aggregate", "act"}, j \in 0..Last :
        /\ run' = [run EXCEPT ![c].at = place, ![c].next = j, ![c].skip = skip]
        /\ place = "aggregate" => \A k \in Actions : k > r => k \in skip
        /\ place = "act" => /\ j \in Actions \ skip /\ j > r
                            /\ \A k \in Actions : k > r /\ k < j => k \in skip
  <2>1. Advance(c, r, skip) /\ TypeOK
    BY DEF Record, MacroInv
  <2> HIDE DEF r, skip
  <2>. QED
    BY <1>1, <2>1, AdvanceMoves
<1>3. /\ rec' = [rec EXCEPT ![r] = Outcome(c)]
      /\ UNCHANGED <<acts, lost, overlaps>>
  BY DEF Record, ghosts
<1>4. /\ run'[c].at = place /\ run'[c].next = j /\ run'[c].skip = skip
      /\ \A d \in Callers \ {c} : run'[d] = run[d]
  BY <1>2 DEF MacroInv, TypeOK
<1> SUFFICES ASSUME NEW i \in Services
             PROVE  /\ acts[i] + Cardinality(Owing(i)') <= 1 + lost[i] + overlaps
                    /\ rec'[i] # "SUCCEEDED" /\ Pending(i)' = {} =>
                         acts[i] <= lost[i] + overlaps
  BY <1>3 DEF Accounted
<1>5. PICK n \in Nat : /\ Cardinality(Owing(i)) = n + Bit(c \in Owing(i))
                       /\ Cardinality(Owing(i)') = n + Bit(c \in Owing(i)')
  BY <1>4, OwingMoves
<1>6. CASE i # r
  <2>1. c \in Pending(i)' <=> c \in Pending(i)
    <3>1. c \in Pending(i) <=> i \notin skip /\ r < i
      BY <1>1, <1>6, Numbers DEF Pending, Actions
    <3>2. c \in Pending(i)' <=> i \notin skip /\ place = "act" /\ j <= i
      BY <1>4 DEF Pending, Working
    <3>3. i \notin skip /\ r < i => place = "act" /\ j <= i
      BY <1>1, <1>2, Numbers
    <3>4. place = "act" /\ j <= i => r < i
      BY <1>1, <1>2, Numbers DEF Actions
    <3>. QED
      BY <3>1, <3>2, <3>3, <3>4
  <2>2. c \in Owing(i)' <=> c \in Owing(i)
    <3>1. c \in Pending(i) => c \in Owing(i)
      BY <1>1, <1>6, Numbers DEF Pending, Owing, Actions
    <3>2. c \in Pending(i)' => c \in Owing(i)'
      BY <1>4 DEF Pending, Owing, Working
    <3>. QED
      BY <2>1, <3>1, <3>2 DEF Owing
  <2>3. Pending(i)' = Pending(i)
    BY <1>4, <2>1, OwingMoves DEF Pending
  <2>4. rec'[i] = rec[i] /\ Bit(c \in Owing(i)') = Bit(c \in Owing(i))
    BY <1>3, <1>6, <2>2, Numbers DEF Bit, MacroInv, TypeOK
  <2>. QED
    BY <1>5, <2>3, <2>4, Numbers DEF Accounted
<1>7. CASE i = r
  <2>1. c \notin Owing(i)'
    BY <1>1, <1>2, <1>4, <1>7, Numbers DEF Pending, Owing, Working, MacroInv, TypeOK, Actions
  <2>2. rec'[i] # "SUCCEEDED" => c \in Owing(i)
    <3>1. rec'[i] = Outcome(c)
      BY <1>1, <1>3, <1>7 DEF MacroInv, TypeOK
    <3>. QED
      BY <1>1, <1>7, <3>1, Numbers DEF Outcome, Owing, Pending
  <2>3. acts[i] + n + Bit(c \in Owing(i)) <= 1 + lost[i] + overlaps
    BY <1>5, Numbers DEF Accounted, Bit
  <2>. QED
    BY <1>5, <2>1, <2>2, <2>3, Numbers DEF Bit
<1>. QED
  BY <1>6, <1>7

\* A request dies: what it had done and not recorded is lost.
LEMMA CrashAccounted ==
  ASSUME MacroInv, Accounted, NEW c \in Callers, Crash(c)
  PROVE  Accounted'
<1>1. /\ run'[c] = [run[c] EXCEPT !.at = "dead"]
      /\ \A d \in Callers \ {c} : run'[d] = run[d]
      /\ UNCHANGED <<rec, acts, overlaps>>
  BY DEF Crash, Goto, MacroInv, TypeOK
<1> SUFFICES ASSUME NEW i \in Services
             PROVE  /\ acts[i] + Cardinality(Owing(i)') <= 1 + lost'[i] + overlaps
                    /\ rec[i] # "SUCCEEDED" /\ Pending(i)' = {} =>
                         acts[i] <= lost'[i] + overlaps
  BY <1>1 DEF Accounted
<1>2. PICK n \in Nat : /\ Cardinality(Owing(i)) = n + Bit(c \in Owing(i))
                       /\ Cardinality(Owing(i)') = n + Bit(c \in Owing(i)')
  BY <1>1, OwingMoves
<1>3. c \notin Owing(i)' /\ c \notin Pending(i)'
  BY <1>1 DEF Owing, Pending, Working, MacroInv, TypeOK
<1>4. /\ lost'[i] \in Nat /\ lost'[i] >= lost[i]
      /\ c \in Pending(i) /\ c \notin Owing(i) => lost'[i] = lost[i] + 1
  <2>1. c \in Pending(i) /\ c \notin Owing(i) =>
          run[c].at = "succeeded" /\ run[c].next = i /\ i \notin Messages
    BY Numbers DEF Owing, Pending, Services, MacroInv, TypeOK
  <2>. QED
    BY <2>1, Numbers DEF Crash, Loses, MacroInv, TypeOK
<1>5. /\ acts[i] + n + Bit(c \in Owing(i)) <= 1 + lost[i] + overlaps
      /\ rec[i] # "SUCCEEDED" /\ Pending(i) = {} => acts[i] <= lost[i] + overlaps
  BY <1>2, Numbers DEF Accounted, Bit
<1>6. CASE c \in Pending(i)
  BY <1>2, <1>3, <1>4, <1>5, <1>6, Numbers DEF Bit
<1>7. CASE c \notin Pending(i)
  <2>1. Pending(i)' = Pending(i)
    BY <1>1, <1>3, <1>7, OwingMoves DEF Pending
  <2>2. c \notin Owing(i)
    BY <1>7 DEF Owing
  <2>. QED
    BY <1>2, <1>3, <1>4, <1>5, <2>1, <2>2, Numbers DEF Bit
<1>. QED
  BY <1>6, <1>7

\* No step breaks the account.
LEMMA AccountedStep == MacroInv /\ Accounted /\ [Next]_vars => Accounted'
<1> SUFFICES ASSUME MacroInv, Accounted, [Next]_vars PROVE Accounted'
  OBVIOUS
<1>1. CASE SetActive \/ UNCHANGED vars
  BY <1>1 DEF SetActive, vars, ghosts, Accounted, Owing, Pending
<1>2. ASSUME NEW c \in Callers,
             \/ Create(c) \/ FindExisting(c) \/ Retry(c) \/ Aggregate(c)
             \/ SaveStatus(c) \/ Tally(c)
      PROVE  Accounted'
  <2>1. /\ UNCHANGED <<rec, acts, lost, overlaps>> /\ run[c].at \notin Working
        /\ run'[c].at \notin Working /\ \A d \in Callers \ {c} : run'[d] = run[d]
    BY <1>2 DEF Create, FindExisting, Retry, Aggregate, SaveStatus, Tally, Goto, ghosts,
                Working, MacroInv, TypeOK
  <2>. QED
    BY <2>1, AwayStep
<1>3. ASSUME NEW c \in Callers,
             \/ Begin(c) \/ CheckMessage(c) \/ InsertMessage(c) \/ CallService(c)
             \/ Record(c) \/ Crash(c)
      PROVE  Accounted'
  BY <1>3, BeginAccounted, PerformAccounted, RecordAccounted, CrashAccounted
<1>. QED
  BY <1>1, <1>2, <1>3 DEF Next

\* An action that is no message takes effect once, and once more for every
\* effect whose record was lost and every request that began while another was
\* at work, and never more often.
THEOREM ServicesAreAccounted == Spec => []ServicesAccounted
<1>1. Init => Accounted
  <2> SUFFICES ASSUME Init, NEW i \in Services
               PROVE  /\ acts[i] + Cardinality(Owing(i)) <= 1 + lost[i] + overlaps
                      /\ acts[i] <= lost[i] + overlaps
    BY DEF Accounted
  <2>1. Owing(i) = {}
    BY DEF Init, Owing, Pending, Idle, Working
  <2>2. Cardinality(Owing(i)) = 0
    BY <2>1, FS_EmptySet
  <2>3. acts[i] = 0 /\ lost[i] = 0 /\ overlaps = 0
    BY DEF Init, Services
  <2>. QED
    BY <2>2, <2>3
<1>2. MacroInv /\ Accounted => ServicesAccounted
  <2> SUFFICES ASSUME MacroInv, Accounted, NEW i \in Services
               PROVE  acts[i] <= 1 + lost[i] + overlaps
    BY DEF ServicesAccounted, Services
  <2>1. Cardinality(Owing(i)) \in Nat
    <3>1. IsFiniteSet(Callers)
      BY MacroAssumption DEF MacroAssumption
    <3>2. Owing(i) \subseteq Callers
      BY DEF Owing, Pending
    <3>. QED
      BY <3>1, <3>2, FS_Subset, FS_CardinalityType
  <2>. QED
    BY <2>1, Numbers DEF Accounted
<1>. QED
  BY <1>1, <1>2, AccountedStep, MacroInvariant, PTL DEF Spec

-----------------------------------------------------------------------------
(* Roles and teams *)

\* Every member of a team has a role in the workspace of the team.
MembersBelong(org) ==
  \A t \in Teams, x \in Users :
    org.member[t][x] # None => org.role[x][org.home[t]] # None

MacroFields == {"workspace", "visibility", "team", "owner", "is_active"}
ReplyFields == {"workspace", "scope", "team", "owner", "is_active"}

LEMMA Belonging ==
  ASSUME NEW org \in Organisations, MembersBelong(org), NEW x \in Users, NEW w \in Workspaces
  PROVE  /\ org.role[x][w] # None <=> org.role[x][w] \in Operators
         /\ w \in Memberships(org, x) <=> HasRole(org, x, w, Operators)
         /\ IsAdmin(org, x, w) => HasRole(org, x, w, Operators)
         /\ \A t \in Teams : IsTeamMember(org, x, t) => HasRole(org, x, org.home[t], Operators)
         /\ \A t \in Teams : IsTeamSupervisor(org, x, t) => IsTeamMember(org, x, t)
<1>1. org.role[x][w] \in Operators \cup {None} /\ w # None /\ None \notin Operators
  BY NoneAssumption DEF Organisations
<1>2. ASSUME NEW t \in Teams
      PROVE  /\ org.home[t] \in Workspaces /\ t # None /\ org.home[t] # None
             /\ org.role[x][org.home[t]] \in Operators \cup {None}
             /\ org.member[t][x] = "SUPERVISOR" => org.member[t][x] # None
  BY NoneAssumption DEF Organisations
<1>. QED
  BY <1>1, <1>2 DEF MembersBelong, Memberships, HasRole, IsAdmin, Operators, IsTeamMember,
                    IsTeamSupervisor

\* Members of a team stay members of its workspace, and who supervises a
\* workspace belongs to it, whomever an admin adds to teams or removes.
THEOREM TeamsStayHome ==
  ASSUME NEW org \in Organisations, MembersBelong(org), NEW u,
         NEW t \in Teams, NEW x \in Users, NEW role,
         NEW o \in AddedMember(org, u, t, x, role) \cup RemovedMember(org, u, t, x)
  PROVE  /\ o \in Organisations /\ MembersBelong(o)
         /\ \A y \in Users, w \in Workspaces : CanSupervise(o, y, w) => w \in Memberships(o, y)
<1>1. PICK new \in {"MEMBER", "SUPERVISOR", None} :
        /\ o = [org EXCEPT !.member[t][x] = new]
        /\ new # None => org.role[x][org.home[t]] # None
  BY DEF AddedMember, RemovedMember
<1>2. /\ o \in Organisations /\ o.role = org.role /\ o.home = org.home
      /\ o.member[t][x] = new
      /\ \A s \in Teams, y \in Users : <<s, y>> # <<t, x>> => o.member[s][y] = org.member[s][y]
  BY <1>1 DEF Organisations
<1>3. MembersBelong(o)
  BY <1>1, <1>2 DEF MembersBelong
<1>4. ASSUME NEW y \in Users, NEW w \in Workspaces, CanSupervise(o, y, w)
      PROVE  w \in Memberships(o, y)
  BY <1>2, <1>3, <1>4, Belonging DEF CanSupervise
<1>. QED
  BY <1>2, <1>3, <1>4

\* A macro that was created, by the request.
LEMMA MadeMacro ==
  ASSUME NEW org, NEW u, NEW data, NEW m \in CreatedMacro(org, u, data)
  PROVE  LET visibility == Given(data, "visibility", "WORKSPACE")
             team == Given(data, "team", None)
         IN  /\ m.workspace \in Memberships(org, u)
             /\ m.visibility = visibility /\ m.team = team
             /\ m.owner = IF visibility = "PRIVATE" THEN u ELSE None
             /\ team # None => org.home[team] = m.workspace
             /\ CanCreate(org, u, m.workspace, visibility, team)
             /\ visibility = "TEAM" => team # None
<1> DEFINE visibility == Given(data, "visibility", "WORKSPACE")
           team == Given(data, "team", None)
           owner == IF visibility = "PRIVATE" THEN u ELSE None
           is_active == Given(data, "is_active", FALSE)
           Row(w) == [workspace |-> w, visibility |-> visibility, team |-> team,
                      owner |-> owner, is_active |-> is_active]
           S == Resolved(org, u, Given(data, "workspace", None))
<1>1. /\ m \in {Row(w) : w \in S}
      /\ team # None => org.home[team] = m.workspace
      /\ CanCreate(org, u, m.workspace, visibility, team) /\ Consistent(m)
  BY Zenon DEF CreatedMacro
<1>2. S \subseteq Memberships(org, u)
  BY DEF Resolved
<1> HIDE DEF visibility, team, owner, is_active, S
<1>3. /\ m.workspace \in S /\ m.visibility = visibility /\ m.team = team /\ m.owner = owner
  BY <1>1
<1>. QED
  BY <1>1, <1>2, <1>3 DEF Consistent, visibility, team, owner

\* Whoever creates a macro sees it, in whatever workspace the request ended up;
\* and a macro made for a team is seen by all of the team.
THEOREM CreatorsSeeTheirMacros ==
  ASSUME NEW org \in Organisations, MembersBelong(org), NEW u \in Users, NEW data,
         Given(data, "team", None) \in Teams \cup {None},
         NEW m \in CreatedMacro(org, u, data)
  PROVE  /\ CanView(org, u, m)
         /\ m.visibility = "TEAM" =>
              \A x \in Users : IsTeamMember(org, x, m.team) => CanView(org, x, m)
<1> DEFINE visibility == Given(data, "visibility", "WORKSPACE")
           team == Given(data, "team", None)
           w == m.workspace
<1>1. /\ w \in Memberships(org, u) /\ w \in Workspaces
      /\ team # None => org.home[team] = w
      /\ CanCreate(org, u, w, visibility, team)
      /\ visibility = "TEAM" => team # None
  BY MadeMacro DEF Memberships
<1>2. /\ m.visibility = visibility /\ m.team = team
      /\ m.owner = IF visibility = "PRIVATE" THEN u ELSE None
  BY MadeMacro
<1> HIDE DEF visibility, team
<1>3. HasRole(org, u, w, Operators)
  BY <1>1, Belonging
<1>4. team \in Teams \cup {None}
  BY DEF team
<1>5. visibility = "TEAM" =>
        \A x \in Users : IsTeamMember(org, x, team) => HasRole(org, x, w, Operators)
  BY <1>1, <1>4, Belonging
<1>6. CanView(org, u, m)
  <2>1. CASE IsAdmin(org, u, w)
    BY <1>2, <1>3, <2>1 DEF CanView
  <2>2. CASE visibility = "PRIVATE"
    BY <1>2, <1>3, <2>2 DEF CanView
  <2>3. CASE visibility = "TEAM" /\ IsTeamSupervisor(org, u, team)
    BY <1>1, <1>2, <1>3, <1>4, <2>3, Belonging DEF CanView
  <2>. QED
    BY <1>1, <2>1, <2>2, <2>3 DEF CanCreate
<1>7. visibility = "TEAM" =>
        \A x \in Users : IsTeamMember(org, x, m.team) => CanView(org, x, m)
  BY <1>2, <1>5 DEF CanView
<1>. QED
  BY <1>2, <1>6, <1>7

\* Whoever creates an active quick reply sees it, and one made for a team is
\* seen by the team and by nobody else.
THEOREM CreatorsSeeTheirReplies ==
  ASSUME NEW org \in Organisations, MembersBelong(org), NEW u \in Users, NEW data,
         Given(data, "team", None) \in Teams \cup {None},
         NEW r \in CreatedReply(org, u, data), r.is_active
  PROVE  /\ CanSeeReply(org, u, r)
         /\ r.scope = "TEAM" =>
              \A x \in Users : CanSeeReply(org, x, r) <=> IsTeamMember(org, x, r.team)
<1> DEFINE scope == Given(data, "scope", "PERSONAL")
           team == IF scope = "TEAM" THEN Given(data, "team", None) ELSE None
           owner == IF scope = "PERSONAL" THEN u ELSE None
           is_active == Given(data, "is_active", TRUE)
           S == Resolved(org, u, Given(data, "workspace", None))
<1>1. \E w \in S : r = [workspace |-> w, scope |-> scope, team |-> team, owner |-> owner,
                        is_active |-> is_active]
  BY Zenon DEF CreatedReply
<1>2. \/ scope = "PERSONAL"
      \/ scope = "TEAM" /\ IsTeamMember(org, u, team) /\ org.home[team] = r.workspace
      \/ scope = "WORKSPACE" /\ IsAdmin(org, u, r.workspace)
  BY Zenon DEF CreatedReply
<1>3. S \subseteq Memberships(org, u)
  BY DEF Resolved
<1>4. team \in Teams \cup {None}
  OBVIOUS
<1> HIDE DEF scope, team, owner, is_active, S
<1>5. r.workspace \in S /\ r.scope = scope /\ r.team = team /\ r.owner = owner
  BY <1>1
<1>6. r.workspace \in Memberships(org, u)
  BY <1>3, <1>5
<1>7. CanSeeReply(org, u, r)
  BY <1>2, <1>5, <1>6 DEF CanSeeReply, owner
<1>8. ASSUME r.scope = "TEAM", NEW x \in Users
      PROVE  CanSeeReply(org, x, r) <=> IsTeamMember(org, x, r.team)
  <2>1. team \in Teams /\ r.workspace \in Workspaces /\ org.home[team] = r.workspace
    BY <1>2, <1>4, <1>5, <1>6, <1>8 DEF IsTeamMember, Memberships
  <2>2. IsTeamMember(org, x, team) => r.workspace \in Memberships(org, x)
    BY <2>1, Belonging
  <2>. QED
    BY <1>5, <1>8, <2>2 DEF CanSeeReply
<1>. QED
  BY <1>7, <1>8

\* Nobody but an admin makes a macro of the whole workspace, or shows one to
\* more people, or to fewer, than it was made for.
THEOREM OnlyAdminsWiden ==
  ASSUME NEW org, NEW u,
         NEW m, DOMAIN m = MacroFields, ~IsAdmin(org, u, m.workspace)
  PROVE  /\ \A data : m \in CreatedMacro(org, u, data) => m.visibility # "WORKSPACE"
         /\ \A data : \A n \in UpdatedMacro(org, u, m, data) \cup DuplicatedMacro(org, u, m) :
              /\ DOMAIN n = MacroFields /\ ~IsAdmin(org, u, n.workspace)
              /\ \A x : CanView(org, x, n) <=> CanView(org, x, m)
<1>1. ASSUME NEW data, m \in CreatedMacro(org, u, data) PROVE m.visibility # "WORKSPACE"
  <2>1. /\ CanCreate(org, u, m.workspace, m.visibility, m.team)
    BY <1>1, MadeMacro
  <2>. QED
    BY <2>1 DEF CanCreate
<1>2. ASSUME NEW data, NEW n \in UpdatedMacro(org, u, m, data) \cup DuplicatedMacro(org, u, m)
      PROVE  /\ n.workspace = m.workspace /\ n.visibility = m.visibility
             /\ n.team = m.team /\ n.owner = m.owner /\ DOMAIN n = MacroFields
  <2>2. CASE n \in DuplicatedMacro(org, u, m)
    <3>1. n = [m EXCEPT !.is_active = FALSE]
      BY <2>2 DEF DuplicatedMacro
    <3>. QED
      BY <3>1 DEF MacroFields
  <2>3. CASE n \in UpdatedMacro(org, u, m, data)
    <3> DEFINE kept == Without(data, {"visibility", "owner", "team"})
    <3>1. n = [f \in DOMAIN m |-> IF f = "workspace" THEN m[f] ELSE Given(kept, f, m[f])]
      BY <2>3 DEF UpdatedMacro
    <3>2. \A f \in {"visibility", "owner", "team"} : f \notin DOMAIN kept
      BY DEF Without
    <3>. QED
      BY <3>1, <3>2 DEF Given, MacroFields
  <2>. QED
    BY <1>2, <2>2, <2>3
<1>. QED
  BY <1>1, <1>2 DEF CanView

\* An update never re-targets a quick reply: it has the readers it had, or it
\* is switched off, and then nobody updates it any more.
THEOREM RepliesKeepReaders ==
  ASSUME NEW org, NEW u, NEW r, DOMAIN r = ReplyFields, NEW data, NEW n \in UpdatedReply(org, u, r, data)
  PROVE  IF n.is_active THEN \A x : CanSeeReply(org, x, n) <=> CanSeeReply(org, x, r)
         ELSE \A x, more : UpdatedReply(org, x, n, more) = {}
<1>2. /\ n = [f \in DOMAIN r |-> IF f = "workspace" THEN r[f] ELSE Given(data, f, r[f])]
      /\ r.is_active
      /\ \A f \in {"scope", "owner", "team"} \cap DOMAIN data : data[f] = r[f]
  BY DEF UpdatedReply, CanSeeReply
<1>3. n.workspace = r.workspace /\ n.scope = r.scope /\ n.team = r.team /\ n.owner = r.owner
  BY <1>2 DEF Given, ReplyFields
<1>4. CASE n.is_active
  BY <1>2, <1>3, <1>4 DEF CanSeeReply
<1>5. CASE ~n.is_active
  BY <1>5 DEF UpdatedReply, CanSeeReply
<1>. QED
  BY <1>4, <1>5

-----------------------------------------------------------------------------
(* Tenants, runs and actions *)

\* The two organisations agree about the roles in a workspace and about one
\* team, wherever that is at home; they may differ in everything else.
AgreeAbout(w, team, org, other) ==
  /\ \A x \in Users : org.role[x][w] = other.role[x][w]
  /\ team # None => /\ org.manager[team] = other.manager[team]
                    /\ org.member[team] = other.member[team]

\* What one may see and change of a row, and what becomes of it, depends on
\* one's role in the workspace of the row and on the members of the row's own
\* team alone: on no other workspace and no other team. The team may belong to
\* another workspace (MacroSerializer.validate does not ask); its members
\* without a role in the row's workspace see nothing of it all the same.
THEOREM TenantsAreIsolated ==
  ASSUME NEW w \in Workspaces, NEW org \in Organisations, NEW other \in Organisations,
         NEW row, row.workspace = w, row.team \in Teams \cup {None},
         AgreeAbout(w, row.team, org, other), NEW u \in Users, NEW data
  PROVE  /\ CanView(org, u, row) = CanView(other, u, row)
         /\ UpdatedMacro(org, u, row, data) = UpdatedMacro(other, u, row, data)
         /\ DuplicatedMacro(org, u, row) = DuplicatedMacro(other, u, row)
         /\ CanSeeReply(org, u, row) = CanSeeReply(other, u, row)
         /\ UpdatedReply(org, u, row, data) = UpdatedReply(other, u, row, data)
         /\ UpdatedPolicy(org, u, row, data) = UpdatedPolicy(other, u, row, data)
         /\ UpdatedRule(org, u, row, data) = UpdatedRule(other, u, row, data)
         /\ UpdatedArticle(org, u, row, data) = UpdatedArticle(other, u, row, data)
         /\ org.role[u][w] = None => /\ ~CanView(org, u, row)
                                     /\ UpdatedMacro(org, u, row, data) = {}
                                     /\ ~CanSeeReply(org, u, row)
<1>1. /\ IsAdmin(org, u, w) = IsAdmin(other, u, w)
      /\ HasRole(org, u, w, Operators) = HasRole(other, u, w, Operators)
      /\ w \in Memberships(org, u) <=> w \in Memberships(other, u)
      /\ w \in Administered(org, u) <=> w \in Administered(other, u)
      /\ IsTeamMember(org, u, row.team) = IsTeamMember(other, u, row.team)
      /\ row.team # None =>
           /\ IsTeamSupervisor(org, u, row.team) = IsTeamSupervisor(other, u, row.team)
           /\ org.manager[row.team] = other.manager[row.team]
  <2>1. org.role[u][w] = other.role[u][w]
    BY DEF AgreeAbout
  <2>2. \A roles : HasRole(org, u, w, roles) = HasRole(other, u, w, roles)
    BY <2>1 DEF HasRole
  <2>3. row.team # None => /\ org.manager[row.team] = other.manager[row.team]
                           /\ org.member[row.team] = other.member[row.team]
    BY DEF AgreeAbout
  <2>. QED
    BY <2>1, <2>2, <2>3
       DEF IsAdmin, Memberships, Administered, IsTeamMember, IsTeamSupervisor
<1>2. CanView(org, u, row) = CanView(other, u, row)
  BY <1>1 DEF CanView
<1>3. CanManage(org, u, row) = CanManage(other, u, row)
  BY <1>1 DEF CanManage
<1>4. CanSeeReply(org, u, row) = CanSeeReply(other, u, row)
  BY <1>1 DEF CanSeeReply
<1>5. CanManageReply(org, u, row) = CanManageReply(other, u, row)
  BY <1>1 DEF CanManageReply
<1>6. Reached(org, u, {row}) = Reached(other, u, {row})
  BY <1>1 DEF Reached
<1>7. Configures(org, u, row) = Configures(other, u, row)
  BY <1>1, <1>6 DEF Configures
<1>8. AdminReached(org, u, {row}) = AdminReached(other, u, {row})
  BY <1>1 DEF AdminReached
<1>9. UpdatedMacro(org, u, row, data) = UpdatedMacro(other, u, row, data)
  BY <1>1, <1>2, <1>3, Zenon DEF UpdatedMacro
<1>10. DuplicatedMacro(org, u, row) = DuplicatedMacro(other, u, row)
  BY <1>2, <1>3, Zenon DEF DuplicatedMacro
<1>11. UpdatedReply(org, u, row, data) = UpdatedReply(other, u, row, data)
  BY <1>4, <1>5, Zenon DEF UpdatedReply
<1>12. UpdatedPolicy(org, u, row, data) = UpdatedPolicy(other, u, row, data)
  BY <1>7, Zenon DEF UpdatedPolicy
<1>13. UpdatedRule(org, u, row, data) = UpdatedRule(other, u, row, data)
  BY <1>8, Zenon DEF UpdatedRule
<1>14. UpdatedArticle(org, u, row, data) = UpdatedArticle(other, u, row, data)
  BY <1>6, Zenon DEF UpdatedArticle
<1>15. ASSUME org.role[u][w] = None
       PROVE  /\ ~CanView(org, u, row) /\ UpdatedMacro(org, u, row, data) = {}
              /\ ~CanSeeReply(org, u, row)
  <2>1. ~HasRole(org, u, w, Operators) /\ w \notin Memberships(org, u)
    BY <1>15, NoneAssumption DEF HasRole, Memberships, NoneAssumption
  <2>2. ~CanView(org, u, row) /\ ~CanSeeReply(org, u, row)
    BY <2>1 DEF CanView, CanSeeReply
  <2>. QED
    BY <2>2, Zenon DEF UpdatedMacro
<1>. QED
  BY <1>2, <1>4, <1>9, <1>10, <1>11, <1>12, <1>13, <1>14, <1>15

\* A draft that validates and whose window is in order is saved as one rule of
\* the workspace it validated for, and the rule is simulated on the same
\* conversations as the draft was.
THEOREM DraftsSave ==
  ASSUME NEW org \in Organisations, NEW u \in Users, NEW data,
         \A from \in Given(data, "valid_from", {}), until \in Given(data, "valid_until", {}) :
           from < until,
         NEW w \in DraftsValid(org, u, data)
  PROVE  /\ \E r : CreatedRule(org, u, data) = {r}
         /\ \A r \in CreatedRule(org, u, data) :
              /\ r.workspace = w /\ AdminReached(org, u, {r}) = {r}
              /\ \A conv : RulesSimulated(org, u, r, conv) = DraftsSimulated(org, u, data, conv)
<1> DEFINE Row(x) == [workspace |-> x, refs |-> data.refs,
                      is_active |-> Given(data, "is_active", TRUE),
                      valid_from |-> Given(data, "valid_from", {}),
                      valid_until |-> Given(data, "valid_until", {})]
           row == Row(w)
<1>1. w \in ConfiguredIn(org, u, data) /\ data.refs \subseteq {w}
  BY DEF DraftsValid
<1>2. \A x \in ConfiguredIn(org, u, data) : x = w
  BY <1>1 DEF ConfiguredIn, Requested, Resolved
<1>3. w \in Workspaces /\ IsAdmin(org, u, w) /\ org.role[u][w] # None
  BY <1>1 DEF ConfiguredIn, Requested, Resolved, Memberships
<1>4. RuleFits(row)
  BY <1>1 DEF RuleFits
<1>5. /\ row.workspace = w
      /\ CreatedRule(org, u, data) = {r \in {Row(x) : x \in ConfiguredIn(org, u, data)} : RuleFits(r)}
  BY Zenon DEF CreatedRule
<1>6. ConfiguredIn(org, u, data) = {w}
  BY <1>1, <1>2
<1>7. CreatedRule(org, u, data) = {row}
  <2> HIDE DEF Row
  <2>. QED
    BY <1>4, <1>5, <1>6
<1> HIDE DEF row
<1>8. AdminReached(org, u, {row}) = {row}
  BY <1>3, <1>5 DEF AdminReached, Administered
<1>9. ASSUME NEW conv PROVE RulesSimulated(org, u, row, conv) = DraftsSimulated(org, u, data, conv)
  <2>1. DraftsValid(org, u, data) = {w}
    BY <1>1, <1>6 DEF DraftsValid
  <2>. QED
    BY <1>5, <1>8, <2>1 DEF RulesSimulated, DraftsSimulated
<1>. QED
  BY <1>5, <1>7, <1>8, <1>9

\* A macro somebody runs is one they find in the list and may preview, and they
\* see the record of the run and may run it again.
THEOREM RunsAreSeen ==
  ASSUME NEW org \in Organisations, NEW u \in Users, NEW m, m.workspace \in Workspaces,
         NEW conv, Executed(org, u, m, conv)
  PROVE  LET done == [workspace |-> m.workspace, macro |-> m]
         IN  /\ m \in ListedMacros(org, u, {m}) /\ Previewed(org, u, m, conv)
             /\ done \in RunsListed(org, u, [workspace |-> m.workspace], {done})
             /\ RunShown(org, u, done) /\ Retried(org, u, done)
<1> DEFINE done == [workspace |-> m.workspace, macro |-> m]
           data == [workspace |-> m.workspace]
<1>1. /\ CanExecute(org, u, m) /\ CanView(org, u, m) /\ OnConversation(m, conv)
      /\ HasRole(org, u, m.workspace, Operators)
  BY DEF Executed, CanExecute, CanView
<1>2. m.workspace \in Memberships(org, u) /\ m.workspace # None
  BY <1>1, NoneAssumption DEF HasRole, Memberships
<1>3. Given(data, "workspace", None) = m.workspace
  BY DEF Given
<1>4. m.workspace \in Requested(org, u, data)
  BY <1>2, <1>3 DEF Requested, Resolved
<1>5. m \in ListedMacros(org, u, {m}) /\ Previewed(org, u, m, conv)
  BY <1>1, <1>2 DEF ListedMacros, Reached, Previewed
<1>6. done.workspace = m.workspace /\ done.macro = m
  OBVIOUS
<1> HIDE DEF done, data
<1>7. done \in RunsListed(org, u, data, {done}) /\ RunShown(org, u, done) /\ Retried(org, u, done)
  BY <1>1, <1>4, <1>6 DEF RunsListed, RunShown, Retried
<1>. QED
  BY <1>5, <1>7 DEF done, data

\* An action a definition was accepted with never fails for want of a parameter
\* its handler indexes, or for an object of another workspace.
THEOREM AcceptedActionsRun ==
  ASSUME NEW actions, NEW w, ValidActions(actions, w), NEW i \in 1..Len(actions)
  PROVE  LET type == actions[i].type
             params == actions[i].params
         IN  /\ type \in DOMAIN Indexed /\ Indexed[type] \subseteq DOMAIN params
             /\ \A p \in Indexed[type] \cap ResolvedRefs : params[p].home = w
<1> DEFINE type == actions[i].type
           params == actions[i].params
<1>1. /\ type \in DOMAIN ActionParams
      /\ ActionParams[type].required \subseteq DOMAIN params
      /\ \A p \in DOMAIN params : p \in ActionParams[type].refs => params[p].home = w
  BY DEF ValidActions, ValidAction
<1>2. ASSUME NEW t \in DOMAIN ActionParams
      PROVE  /\ t \in DOMAIN Indexed /\ Indexed[t] \subseteq ActionParams[t].required
             /\ Indexed[t] \cap ResolvedRefs \subseteq ActionParams[t].refs
  BY DEF ActionParams, Indexed, ResolvedRefs, Takes, One, Ref
<1> HIDE DEF type, params
<1>3. /\ type \in DOMAIN Indexed /\ Indexed[type] \subseteq DOMAIN params
      /\ \A p \in Indexed[type] \cap ResolvedRefs : params[p].home = w
  BY <1>1, <1>2
<1>. QED
  BY <1>3 DEF type, params

-----------------------------------------------------------------------------
(* Queues *)

\* Every queue's fallback is another queue of its workspace, and a rank that
\* falls along the fallbacks shows that no chain of them ever closes.
QueueFields == {"workspace", "team", "fallback"}
RankedBy(queues, rank) ==
  \A q \in DOMAIN queues : queues[q].fallback # None =>
    /\ queues[q].fallback \in DOMAIN queues
    /\ queues[queues[q].fallback].workspace = queues[q].workspace
    /\ rank[queues[q].fallback] < rank[q]
Loopless(queues) ==
  /\ None \notin DOMAIN queues /\ \A q \in DOMAIN queues : DOMAIN queues[q] = QueueFields
  /\ \E rank \in [DOMAIN queues -> Nat] : RankedBy(queues, rank)

\* The queues a chain goes through, as far as the code walks.
LEMMA ChainWalks ==
  ASSUME NEW queues, NEW q
  PROVE  LET chain == Chain(queues, q)
         IN  /\ chain[0] = q
             /\ \A n \in 1..MaxFallbacks :
                  chain[n] = IF chain[n - 1] = None THEN None ELSE queues[chain[n - 1]].fallback
<1> DEFINE After(x) == IF x = None THEN None ELSE queues[x].fallback
           F(f) == [n \in 0..10 |-> IF n = 0 THEN q ELSE After(f[n - 1])]
           x1 == After(q)
           x2 == After(x1)
           x3 == After(x2)
           x4 == After(x3)
           x5 == After(x4)
           x6 == After(x5)
           x7 == After(x6)
           x8 == After(x7)
           x9 == After(x8)
           x10 == After(x9)
           walk == [n \in 0..10 |->
             IF n = 0 THEN q ELSE IF n = 1 THEN x1 ELSE IF n = 2 THEN x2
             ELSE IF n = 3 THEN x3 ELSE IF n = 4 THEN x4 ELSE IF n = 5 THEN x5
             ELSE IF n = 6 THEN x6 ELSE IF n = 7 THEN x7 ELSE IF n = 8 THEN x8
             ELSE IF n = 9 THEN x9 ELSE x10]
           chain == CHOOSE f : f = F(f)
<1>1. Chain(queues, q) = chain
  BY DEF Chain, MaxFallbacks
<1>2. walk = F(walk)
  <2>1. /\ x1 = After(q) /\ x2 = After(x1) /\ x3 = After(x2) /\ x4 = After(x3)
        /\ x5 = After(x4) /\ x6 = After(x5) /\ x7 = After(x6) /\ x8 = After(x7)
        /\ x9 = After(x8) /\ x10 = After(x9)
    BY Zenon
  <2> HIDE DEF x1, x2, x3, x4, x5, x6, x7, x8, x9, x10, After
  <2>. QED
    BY <2>1
<1> HIDE DEF walk
<1>3. chain = F(chain)
  BY <1>2, Zenon
<1> HIDE DEF chain
<1>4. chain[0] = q /\ \A n \in 1..10 : chain[n] = After(chain[n - 1])
  BY <1>3
<1>. QED
  BY <1>1, <1>4 DEF MaxFallbacks

\* A queue whose new fallback fits closes no loop: what its chain goes through
\* keeps its rank, and all the others move above it.
LEMMA FitsIsLoopless ==
  ASSUME NEW queues, Loopless(queues), NEW q, q # None,
         NEW row, DOMAIN row = QueueFields, row.fallback \in DOMAIN queues \cup {None},
         q \in DOMAIN queues => FallbackFits(queues, q, row) /\ row.workspace = queues[q].workspace,
         q \notin DOMAIN queues => FallbackFits(queues, None, row),
         NEW after, DOMAIN after = DOMAIN queues \cup {q},
         \A x \in DOMAIN after : after[x] = IF x = q THEN row ELSE queues[x]
  PROVE  Loopless(after)
<1>1. PICK rank \in [DOMAIN queues -> Nat] : RankedBy(queues, rank)
  BY DEF Loopless
<1> DEFINE Old == DOMAIN queues
           New == Old \cup {q}
           Below(rank1) == \A x \in New : after[x].fallback # None =>
                             /\ after[x].fallback \in New
                             /\ after[after[x].fallback].workspace = after[x].workspace
                             /\ rank1[after[x].fallback] < rank1[x]
<1>2. /\ None \notin Old /\ \A x \in Old : rank[x] \in Nat
      /\ \A x \in Old : queues[x].fallback # None =>
           /\ queues[x].fallback \in Old
           /\ queues[queues[x].fallback].workspace = queues[x].workspace
           /\ rank[queues[x].fallback] < rank[x]
  BY <1>1 DEF Loopless, RankedBy
<1>3. /\ after[q] = row /\ \A x \in Old : x # q => after[x] = queues[x]
      /\ row.fallback \in Old \cup {None}
  OBVIOUS
<1> SUFFICES \E rank1 \in [New -> Nat] : Below(rank1)
  <2>1. None \notin DOMAIN after /\ \A x \in DOMAIN after : DOMAIN after[x] = QueueFields
    BY DEF Loopless
  <2>. QED
    BY <2>1 DEF Loopless, RankedBy
<1> HIDE DEF Old
<1>4. CASE row.fallback = None
  <2> DEFINE rank1 == [x \in New |-> IF x = q THEN 0 ELSE rank[x] + 1]
  <2>1. rank1 \in [New -> Nat]
    BY <1>2
  <2>2. rank1[q] = 0 /\ \A x \in Old : x # q => rank1[x] = rank[x] + 1
    OBVIOUS
  <2> HIDE DEF rank1
  <2>3. \A x \in Old : q \in Old => after[q].workspace = queues[q].workspace
    BY <1>3 DEF Old
  <2>4. Below(rank1)
    BY <1>2, <1>3, <1>4, <2>2, <2>3
  <2>. QED
    BY <2>1, <2>4
<1>5. CASE row.fallback # None /\ q \notin Old
  <2> DEFINE rank1 == [x \in New |-> IF x = q THEN rank[row.fallback] + 1 ELSE rank[x]]
  <2>1. rank1 \in [New -> Nat]
    BY <1>2, <1>3, <1>5
  <2>2. rank1[q] = rank[row.fallback] + 1 /\ \A x \in Old : x # q => rank1[x] = rank[x]
    OBVIOUS
  <2> HIDE DEF rank1
  <2>3. queues[row.fallback].workspace = row.workspace
    BY <1>5 DEF FallbackFits, Old
  <2>4. Below(rank1)
    BY <1>2, <1>3, <1>5, <2>2, <2>3
  <2>. QED
    BY <2>1, <2>4
<1>6. CASE row.fallback # None /\ q \in Old
  <2> DEFINE chain == Chain(queues, row.fallback)
             passed == {chain[n] : n \in 0..MaxFallbacks}
  <2>1. /\ queues[row.fallback].workspace = row.workspace /\ row.workspace = queues[q].workspace
        /\ chain[MaxFallbacks] = None /\ \A n \in 0..MaxFallbacks : chain[n] # q
    BY <1>6 DEF FallbackFits, Old
  <2>2. /\ chain[0] = row.fallback
        /\ \A n \in 1..MaxFallbacks :
             chain[n] = IF chain[n - 1] = None THEN None ELSE queues[chain[n - 1]].fallback
    BY ChainWalks
  <2> HIDE DEF chain
  <2>3. row.fallback \in passed /\ q \notin passed
    BY <2>1, <2>2 DEF MaxFallbacks
  <2>4. \A x \in passed : x # None => queues[x].fallback \in passed
    <3>1. ASSUME NEW n \in 0..MaxFallbacks, chain[n] # None
          PROVE  queues[chain[n]].fallback \in passed
      <4>1. n + 1 \in 1..MaxFallbacks /\ n + 1 \in 0..MaxFallbacks /\ (n + 1) - 1 = n
        BY <2>1, <3>1 DEF MaxFallbacks
      <4>2. chain[n + 1] = queues[chain[n]].fallback
        BY <2>2, <3>1, <4>1
      <4>. QED
        BY <4>1, <4>2
    <3>. QED
      BY <3>1
  <2> DEFINE rank1 == [x \in New |-> IF x \in passed THEN rank[x]
                                     ELSE rank[x] + rank[row.fallback] + 1]
  <2> HIDE DEF passed
  <2>5. rank[row.fallback] \in Nat /\ New = Old
    BY <1>2, <1>3, <1>6
  <2>6. rank1 \in [New -> Nat]
    BY <1>2, <2>5
  <2>7. \A x \in Old : rank1[x] = IF x \in passed THEN rank[x]
                                  ELSE rank[x] + rank[row.fallback] + 1
    BY <2>5
  <2> HIDE DEF rank1
  <2>8. ASSUME NEW x \in Old, after[x].fallback # None
        PROVE  /\ after[x].fallback \in Old
               /\ after[after[x].fallback].workspace = after[x].workspace
               /\ rank1[after[x].fallback] < rank1[x]
    <3>1. CASE x = q
      BY <1>2, <1>3, <2>1, <2>3, <2>5, <2>7, <2>8, <3>1
    <3>2. CASE x # q
      <4>1. /\ after[x] = queues[x] /\ queues[x].fallback \in Old
            /\ queues[queues[x].fallback].workspace = queues[x].workspace
            /\ rank[queues[x].fallback] < rank[x] /\ x # None
        BY <1>2, <1>3, <2>8, <3>2
      <4>2. x \in passed => queues[x].fallback \in passed
        BY <2>4, <4>1
      <4>3. rank1[queues[x].fallback] < rank1[x]
        BY <1>2, <2>5, <2>7, <4>1, <4>2
      <4>. QED
        BY <1>3, <2>1, <4>1, <4>3
    <3>. QED
      BY <3>1, <3>2
  <2>. QED
    BY <2>5, <2>6, <2>8
<1>. QED
  BY <1>3, <1>4, <1>5, <1>6

\* However queues are created, redirected and deleted, one request after
\* another, their fallbacks stay in the workspace and never form a loop: the
\* walk of an automatic assignment ends.
THEOREM FallbacksNeverLoop ==
  ASSUME NEW org, NEW u, NEW queues, Loopless(queues), NEW q, q # None, NEW data,
         Given(data, "fallback", None) \in DOMAIN queues \cup {None},
         NEW after,
         \/ q \notin DOMAIN queues /\ after \in CreatedQueue(org, u, queues, q, data)
         \/ q \in DOMAIN queues /\ after \in UpdatedQueue(org, u, queues, q, data)
         \/ q \in DOMAIN queues /\ after \in DeletedQueue(org, u, queues, q)
  PROVE  Loopless(after)
<1>1. CASE q \notin DOMAIN queues /\ after \in CreatedQueue(org, u, queues, q, data)
  <2> DEFINE Row(w) == [workspace |-> w, team |-> Given(data, "team", None),
                        fallback |-> Given(data, "fallback", None)]
             Rows == {r \in {Row(w) : w \in ConfiguredIn(org, u, data)} :
                        r.team = r.workspace /\ QueueFits(queues, None, r)}
             With(r) == [x \in DOMAIN queues \cup {q} |-> IF x = q THEN r ELSE queues[x]]
  <2>1. after \in {With(r) : r \in Rows}
    BY <1>1, Zenon DEF CreatedQueue
  <2>2. PICK r \in Rows : after = With(r)
    BY <2>1
  <2>3. PICK w : r = Row(w)
    OBVIOUS
  <2>4. FallbackFits(queues, None, r)
    BY DEF QueueFits
  <2>5. DOMAIN r = QueueFields /\ r.fallback \in DOMAIN queues \cup {None}
    BY <2>3 DEF QueueFields
  <2>6. /\ DOMAIN after = DOMAIN queues \cup {q}
        /\ \A x \in DOMAIN after : after[x] = IF x = q THEN r ELSE queues[x]
    BY <2>2
  <2> HIDE DEF Rows
  <2>. QED
    BY <1>1, <2>4, <2>5, <2>6, FitsIsLoopless
<1>2. CASE q \in DOMAIN queues /\ after \in UpdatedQueue(org, u, queues, q, data)
  <2> DEFINE Fields == {"team", "fallback"}
             Rows == {r \in {Changed(queues[q], data, Fields)} :
                        Configures(org, u, queues[q]) /\ QueueFits(queues, q, r)}
  <2>1. after \in {[queues EXCEPT ![q] = r] : r \in Rows}
    BY <1>2, Zenon DEF UpdatedQueue
  <2>2. PICK r \in Rows : after = [queues EXCEPT ![q] = r]
    BY <2>1
  <2>3. r = Changed(queues[q], data, Fields) /\ FallbackFits(queues, q, r)
    BY DEF QueueFits
  <2> HIDE DEF Rows
  <2>4. DOMAIN queues[q] = QueueFields /\ queues[q].fallback \in DOMAIN queues \cup {None}
    BY <1>2 DEF Loopless, RankedBy
  <2>5. /\ DOMAIN r = QueueFields /\ r.workspace = queues[q].workspace
        /\ r.fallback = Given(data, "fallback", queues[q].fallback)
    BY <2>3, <2>4 DEF Changed, QueueFields
  <2>6. r.fallback \in DOMAIN queues \cup {None}
    BY <2>4, <2>5 DEF Given
  <2>7. /\ DOMAIN after = DOMAIN queues \cup {q}
        /\ \A x \in DOMAIN after : after[x] = IF x = q THEN r ELSE queues[x]
    BY <1>2, <2>2
  <2>. QED
    BY <1>2, <2>3, <2>5, <2>6, <2>7, FitsIsLoopless
<1>3. CASE q \in DOMAIN queues /\ after \in DeletedQueue(org, u, queues, q)
  <2>1. after = [x \in DOMAIN queues \ {q} |->
                   IF queues[x].fallback = q THEN [queues[x] EXCEPT !.fallback = None]
                   ELSE queues[x]]
    BY <1>3, Zenon DEF DeletedQueue
  <2>2. PICK rank \in [DOMAIN queues -> Nat] : RankedBy(queues, rank)
    BY DEF Loopless
  <2>3. \A x \in DOMAIN queues : DOMAIN queues[x] = QueueFields
    BY DEF Loopless
  <2>4. ASSUME NEW x \in DOMAIN after
        PROVE  /\ DOMAIN after[x] = QueueFields /\ after[x].workspace = queues[x].workspace
               /\ after[x].fallback # None => after[x].fallback = queues[x].fallback /\ queues[x].fallback # q
               /\ x \in DOMAIN queues
    BY <2>1, <2>3 DEF QueueFields
  <2> DEFINE rank1 == [x \in DOMAIN after |-> rank[x]]
  <2>5. rank1 \in [DOMAIN after -> Nat]
    BY <2>4
  <2>6. DOMAIN after = DOMAIN queues \ {q}
    BY <2>1
  <2>7. RankedBy(after, rank1)
    BY <2>2, <2>4, <2>6 DEF RankedBy
  <2> HIDE DEF rank1
  <2>8. None \notin DOMAIN after
    BY <2>6 DEF Loopless
  <2>. QED
    BY <2>4, <2>5, <2>7, <2>8 DEF Loopless
<1>. QED
  BY <1>1, <1>2, <1>3
=============================================================================
