----------------------- MODULE AutomationEngine_proofs -----------------------
(***************************************************************************)
(* The bounds of the automation engine for any processes, rules, actions   *)
(* and limits.                                                             *)
(*                                                                         *)
(* Depth is carried by every envelope and every job one step on from what  *)
(* caused it (Chained), and an event's rules are reached only past the     *)
(* depth check (FrameOK), so no chain is followed further than its limit.  *)
(*                                                                         *)
(* The guard of the same-rule policy is an unlocked read. Within a process *)
(* it is enough, because what it saw stays true until the rule is recorded *)
(* as matched: until then the frame is the top of its process's stack, and *)
(* only the top moves. From there on the row itself, which stays MATCHED   *)
(* while frames above it run, keeps the guard shut.                        *)
(***************************************************************************)
EXTENDS AutomationEngine, SequenceTheorems, WellFoundedInduction, TLAPS

-----------------------------------------------------------------------------
(* Stacks as sequences *)

IsStack(s) == s \in Seq(Range(s))

LEMMA StackLength ==
  ASSUME NEW s, IsStack(s)
  PROVE  /\ Len(s) \in Nat /\ DOMAIN s = 1..Len(s) /\ \A i \in 1..Len(s) : s[i] \in Range(s)
         /\ s # <<>> => Len(s) \in Nat \ {0}
<1>1. Len(s) \in Nat /\ DOMAIN s = 1..Len(s) /\ \A i \in 1..Len(s) : s[i] \in Range(s)
  BY LenProperties, ElementOfSeq DEF IsStack
<1>2. s # <<>> => Len(s) # 0
  BY EmptySeq DEF IsStack
<1>. QED
  BY <1>1, <1>2

LEMMA StackPopped ==
  ASSUME NEW s, IsStack(s), s # <<>>
  PROVE  /\ IsStack(Front(s)) /\ Front(s) \in Seq(Range(s)) /\ Len(Front(s)) = Len(s) - 1
         /\ DOMAIN Front(s) = 1..Len(s)-1
         /\ \A i \in 1..Len(s)-1 : Front(s)[i] = s[i]
<1>1. Len(s) \in Nat \ {0} /\ \A i \in 1..Len(s) : s[i] \in Range(s)
  BY StackLength
<1>2. /\ 1 \in Int /\ Len(s)-1 \in Int /\ \A i \in 1..Len(s)-1 : s[i] \in Range(s)
      /\ Len(s)-1 - 1 + 1 = Len(s)-1 /\ \A i \in 1..Len(s)-1 : 1+i-1 = i
  BY <1>1
<1>3. /\ SubSeq(s, 1, Len(s)-1) \in Seq(Range(s))
      /\ Len(SubSeq(s, 1, Len(s)-1)) = IF 1 <= Len(s)-1 THEN Len(s)-1 - 1 + 1 ELSE 0
      /\ \A i \in 1 .. Len(s)-1 - 1 + 1 : SubSeq(s, 1, Len(s)-1)[i] = s[1+i-1]
  BY <1>2, SubSeqProperties
<1>4. /\ Front(s) \in Seq(Range(s)) /\ Len(Front(s)) = Len(s) - 1
      /\ \A i \in 1..Len(s)-1 : Front(s)[i] = s[i]
  BY <1>1, <1>2, <1>3 DEF Front
<1>5. IsStack(Front(s))
  BY <1>4, SeqOfRange DEF IsStack
<1>. QED
  BY <1>4, <1>5, LenProperties

LEMMA StackPushed ==
  ASSUME NEW s, IsStack(s), NEW f
  PROVE  /\ IsStack(Append(s, f)) /\ Len(Append(s, f)) = Len(s) + 1
         /\ DOMAIN Append(s, f) = 1..Len(s)+1
         /\ Append(s, f)[Len(s)+1] = f
         /\ \A i \in 1..Len(s) : Append(s, f)[i] = s[i]
<1> DEFINE S == Range(s) \cup {f}
<1>1. s \in Seq(S) /\ f \in S
  BY SeqMonotonic DEF IsStack
<1> HIDE DEF S
<1>2. /\ Append(s, f) \in Seq(S) /\ Len(Append(s, f)) = Len(s) + 1
      /\ Append(s, f)[Len(s)+1] = f
      /\ \A i \in 1..Len(s) : Append(s, f)[i] = s[i]
  BY <1>1, AppendProperties
<1>3. IsStack(Append(s, f))
  BY <1>2, SeqOfRange DEF IsStack
<1>. QED
  BY <1>2, <1>3, LenProperties

LEMMA StackReplaced ==
  ASSUME NEW s, IsStack(s), s # <<>>, NEW f
  PROVE  LET t == Append(Front(s), f)
         IN  /\ IsStack(t) /\ Len(t) = Len(s)
             /\ DOMAIN t = 1..Len(s)
             /\ t[Len(s)] = f
             /\ \A i \in 1..Len(s) : i # Len(s) => t[i] = s[i]
<1>1. /\ IsStack(Front(s)) /\ Len(Front(s)) = Len(s) - 1 /\ Len(s) \in Nat \ {0}
      /\ \A i \in 1..Len(s)-1 : Front(s)[i] = s[i]
  BY StackLength, StackPopped
<1> DEFINE t == Append(Front(s), f)
<1>2. /\ IsStack(t) /\ Len(t) = Len(Front(s)) + 1
      /\ DOMAIN t = 1..Len(Front(s))+1
      /\ t[Len(Front(s))+1] = f
      /\ \A i \in 1..Len(Front(s)) : t[i] = Front(s)[i]
  BY <1>1, StackPushed
<1> HIDE DEF t
<1>3. Len(s) - 1 + 1 = Len(s) /\ \A i \in 1..Len(s) : i # Len(s) => i \in 1..Len(s)-1
  BY <1>1
<1>4. /\ IsStack(t) /\ Len(t) = Len(s) /\ DOMAIN t = 1..Len(s) /\ t[Len(s)] = f
      /\ \A i \in 1..Len(s) : i # Len(s) => t[i] = s[i]
  BY <1>1, <1>2, <1>3
<1>. QED
  BY <1>4 DEF t

LEMMA StackEmpty == IsStack(<<>>) /\ Len(<<>>) = 0 /\ DOMAIN <<>> = {}
<1>1. <<>> \in Seq({}) /\ Len(<<>>) = 0
  BY EmptySeq
<1>2. DOMAIN <<>> = {}
  BY <1>1, LenProperties
<1>. QED
  BY <1>1, <1>2, SeqOfRange DEF IsStack

LEMMA StackStarted ==
  ASSUME NEW f
  PROVE  IsStack(<<f>>) /\ Len(<<f>>) = 1 /\ DOMAIN <<f>> = {1} /\ <<f>>[1] = f
<1>1. <<f>> \in Seq({f}) /\ Len(<<f>>) = 1 /\ DOMAIN <<f>> = {1} /\ <<f>>[1] = f
  OBVIOUS
<1>. QED
  BY <1>1, SeqOfRange DEF IsStack

-----------------------------------------------------------------------------
(* The invariant *)

IsFrame(f) ==
  f = [event |-> f.event, at |-> f.at, left |-> f.left, index |-> f.index,
       told |-> f.told, ok |-> f.ok, bad |-> f.bad, limited |-> f.limited]

Working == {"action", "granted", "inside"}

\* The envelopes and jobs count their links truly.
Chained ==
  /\ IsStack(events) /\ Len(events) <= MaxEvents
  /\ \A e \in DOMAIN events : /\ events[e].depth \in Nat
                              /\ events[e].hops = events[e].depth
  /\ \A j \in jobs : j.depth \in Nat /\ j.hops = j.depth

\* Only published events within the depth have rows.
RowsInBounds ==
  /\ rows \in [Ids -> [Rules -> RowStatus]] /\ author \in [Ids -> Processes \cup {Nothing}]
  /\ \A e \in Ids, r \in Rules : rows[e][r] # "none" =>
       e \in DOMAIN events /\ events[e].depth <= MaxDepth

\* A frame at its rules is within the depth; one past its guard has seen that
\* its rule has not run in this process; one past its match has the row.
FrameOK(p, f) ==
  /\ IsFrame(f) /\ f.event \in DOMAIN events /\ author[f.event] = p
  /\ f.at # "arrived" => events[f.event].depth <= MaxDepth
  /\ f.at \in Working /\ Rule(f) \in Rules => rows[f.event][Rule(f)] = "MATCHED"
  /\ f.at = "condition" /\ Rule(f) \in Rules =>
       \A e \in DOMAIN events : author[e] = p => rows[e][Rule(f)] \notin Ran

StackOK(p) ==
  /\ IsStack(stack[p])
  /\ \A i \in DOMAIN stack[p] :
       /\ FrameOK(p, stack[p][i])
       /\ i # Len(stack[p]) => stack[p][i].at = "inside"
       /\ \A j \in DOMAIN stack[p] : i # j => stack[p][i].event # stack[p][j].event

EngineInv ==
  /\ Chained /\ RowsInBounds /\ SameRuleOnce
  /\ stack \in [Processes -> Range(stack)]
  /\ \A p \in Processes : StackOK(p)

LEMMA Known ==
  ASSUME EngineInv
  PROVE  /\ Len(events) \in Nat /\ DOMAIN events = 1..Len(events)
         /\ DOMAIN events \subseteq Ids
<1>2. Len(events) \in Nat /\ DOMAIN events = 1..Len(events)
  BY StackLength DEF EngineInv, Chained
<1>. QED
  BY <1>2, EngineAssumption DEF EngineInv, Chained, Ids, EngineAssumption

LEMMA InitEngineInv == Init => EngineInv
<1> SUFFICES ASSUME Init PROVE EngineInv
  OBVIOUS
<1>1. events = <<>> /\ jobs = {} /\ stack = [p \in Processes |-> <<>>]
  BY DEF Init
<1>2. Len(events) = 0 /\ DOMAIN events = {} /\ IsStack(<<>>)
  BY <1>1, StackEmpty
<1>3. Chained
  BY <1>1, <1>2, EngineAssumption DEF Chained, EngineAssumption
<1>4. RowsInBounds /\ SameRuleOnce
  BY <1>2 DEF Init, RowsInBounds, SameRuleOnce, RowStatus, Ids
<1>5. \A p \in Processes : StackOK(p)
  BY <1>1, StackEmpty DEF StackOK
<1>6. stack \in [Processes -> Range(stack)]
  BY <1>1 DEF Range
<1>. QED
  BY <1>3, <1>4, <1>5, <1>6 DEF EngineInv

\* A stack that does not move stays in order while the correlation grows and
\* rows of other processes' events change.
LEMMA OthersStay ==
  ASSUME EngineInv, NEW q \in Processes, stack'[q] = stack[q],
         DOMAIN events \subseteq DOMAIN events',
         \A e \in DOMAIN events : /\ events'[e] = events[e] /\ author'[e] = author[e]
                                  /\ author[e] = q => rows'[e] = rows[e],
         \A e \in DOMAIN events' \ DOMAIN events : author'[e] # q
  PROVE  StackOK(q)'
<1>1. \A i \in DOMAIN stack[q] : FrameOK(q, stack[q][i])' 
  <2> SUFFICES ASSUME NEW i \in DOMAIN stack[q] PROVE FrameOK(q, stack[q][i])'
    OBVIOUS
  <2> DEFINE f == stack[q][i]
  <2>1. FrameOK(q, f) /\ stack'[q][i] = f
    BY DEF EngineInv, StackOK
  <2>2. \A e \in DOMAIN events' : author'[e] = q =>
          e \in DOMAIN events /\ author[e] = q /\ rows'[e] = rows[e]
    OBVIOUS
  <2> HIDE DEF f
  <2>. QED
    BY <2>1, <2>2 DEF FrameOK, f, Rule
<1>. QED
  BY <1>1 DEF EngineInv, StackOK

\* The stacks after a step that changes p's alone.
StacksOK == stack \in [Processes -> Range(stack)] /\ \A p \in Processes : StackOK(p)

LEMMA OnlyOne ==
  ASSUME EngineInv, NEW p \in Processes, NEW s, stack' = [stack EXCEPT ![p] = s]
  PROVE  /\ stack'[p] = s /\ \A q \in Processes \ {p} : stack'[q] = stack[q]
         /\ stack' \in [Processes -> Range(stack')]
<1>1. stack \in [Processes -> Range(stack)]
  BY DEF EngineInv
<1>2. DOMAIN stack' = Processes /\ stack' = [q \in Processes |-> stack'[q]]
  BY <1>1
<1>. QED
  BY <1>1, <1>2 DEF Range

LEMMA TopFacts ==
  ASSUME EngineInv, NEW p \in Processes, Busy(p)
  PROVE  /\ IsStack(stack[p]) /\ Len(stack[p]) \in Nat \ {0}
         /\ DOMAIN stack[p] = 1..Len(stack[p]) /\ Len(stack[p]) \in DOMAIN stack[p]
         /\ Top(p) = stack[p][Len(stack[p])]
         /\ FrameOK(p, Top(p)) /\ Top(p).event \in Ids
<1>1. IsStack(stack[p]) /\ stack[p] # <<>>
  BY DEF EngineInv, StackOK, Busy
<1>2. Len(stack[p]) \in Nat \ {0} /\ DOMAIN stack[p] = 1..Len(stack[p])
  BY <1>1, StackLength
<1>3. Len(stack[p]) \in DOMAIN stack[p] /\ Top(p) = stack[p][Len(stack[p])]
  BY <1>2 DEF Top, Last
<1>4. FrameOK(p, Top(p))
  BY <1>3 DEF EngineInv, StackOK
<1>. QED
  BY <1>1, <1>2, <1>3, <1>4, Known DEF FrameOK

\* A frame below the top keeps what holds of it.
LEMMA BelowStays ==
  ASSUME EngineInv, NEW p \in Processes, Busy(p),
         NEW i \in 1..Len(stack[p]), i # Len(stack[p]), stack'[p][i] = stack[p][i],
         DOMAIN events \subseteq DOMAIN events',
         \A e \in DOMAIN events : /\ events'[e] = events[e] /\ author'[e] = author[e]
                                  /\ e # Top(p).event => rows'[e] = rows[e]
  PROVE  FrameOK(p, stack[p][i])'
<1> DEFINE f == stack[p][i]
<1>1. stack'[p][i] = f
  OBVIOUS
<1>2. FrameOK(p, f) /\ f.at = "inside" /\ f.event # Top(p).event
  BY TopFacts DEF EngineInv, StackOK
<1> HIDE DEF f
<1>3. rows'[f.event] = rows[f.event] /\ f.event \in DOMAIN events
  BY <1>2 DEF FrameOK
<1>. QED
  BY <1>1, <1>2, <1>3 DEF FrameOK, Rule

LEMMA TopReplaced ==
  ASSUME EngineInv, NEW p \in Processes, Busy(p), NEW f,
         stack' = ReplaceTop(p, f), UNCHANGED <<events, author>>,
         IsFrame(f), f.event = Top(p).event,
         f.at # "arrived" => events[f.event].depth <= MaxDepth,
         f.at \in Working /\ Rule(f) \in Rules => rows'[f.event][Rule(f)] = "MATCHED",
         f.at = "condition" /\ Rule(f) \in Rules =>
           \A e \in DOMAIN events : author[e] = p => rows'[e][Rule(f)] \notin Ran,
         \A e \in DOMAIN events : e # f.event => rows'[e] = rows[e]
  PROVE  StacksOK'
<1> DEFINE s == stack[p]
           t == Append(Front(s), f)
<1>1. /\ IsStack(s) /\ s # <<>> /\ Len(s) \in Nat \ {0} /\ DOMAIN s = 1..Len(s)
      /\ FrameOK(p, Top(p)) /\ Top(p) = s[Len(s)]
  BY TopFacts DEF Busy
<1>2. /\ stack'[p] = t /\ \A q \in Processes \ {p} : stack'[q] = stack[q]
      /\ stack' \in [Processes -> Range(stack')]
  BY OnlyOne DEF ReplaceTop
<1>3. /\ IsStack(t) /\ Len(t) = Len(s) /\ DOMAIN t = 1..Len(s) /\ t[Len(s)] = f
      /\ \A i \in 1..Len(s) : i # Len(s) => t[i] = s[i]
  BY <1>1, StackReplaced
<1>4. \A q \in Processes \ {p} : StackOK(q)'
  BY <1>1, <1>2, OthersStay DEF FrameOK
<1> HIDE DEF t
<1>5. \A i \in 1..Len(s) : FrameOK(p, stack[p][i])'
  <2>1. stack'[p][Len(s)] = f
    BY <1>2, <1>3
  <2>2. ASSUME NEW i \in 1..Len(s), i = Len(s) PROVE FrameOK(p, stack[p][i])'
    <3>1. stack'[p][i] = f
      BY <2>1, <2>2
    <3>2. f.event \in DOMAIN events /\ author[f.event] = p
      BY <1>1 DEF FrameOK
    <3>. QED
      BY <3>1, <3>2 DEF FrameOK, Rule
  <2>3. ASSUME NEW i \in 1..Len(s), i # Len(s) PROVE FrameOK(p, stack[p][i])'
    <3>1. stack'[p][i] = stack[p][i]
      BY <1>2, <1>3, <2>3
    <3>. QED
      BY <2>3, <3>1, BelowStays
  <2>. QED
    BY <2>2, <2>3
<1>6. \A i \in 1..Len(s) : i # Len(s) => s[i].at = "inside"
  BY <1>1 DEF EngineInv, StackOK
<1>7. \A i, j \in 1..Len(s) : i # j => s[i].event # s[j].event
  BY <1>1 DEF EngineInv, StackOK
<1>8. \A i \in 1..Len(s) : stack'[p][i].event = s[i].event
  BY <1>1, <1>2, <1>3
<1>9. StackOK(p)'
  BY <1>2, <1>3, <1>5, <1>6, <1>7, <1>8 DEF StackOK
<1>. QED
  BY <1>2, <1>4, <1>9 DEF StacksOK

LEMMA TopPopped ==
  ASSUME EngineInv, NEW p \in Processes, Busy(p), stack' = Pop(p),
         UNCHANGED <<events, author, rows>>
  PROVE  StacksOK'
<1> DEFINE s == stack[p]
           t == Front(s)
<1>1. /\ IsStack(s) /\ s # <<>> /\ Len(s) \in Nat \ {0} /\ DOMAIN s = 1..Len(s)
  BY TopFacts DEF Busy
<1>2. /\ stack'[p] = t /\ \A q \in Processes \ {p} : stack'[q] = stack[q]
      /\ stack' \in [Processes -> Range(stack')]
  BY OnlyOne DEF Pop
<1>3. /\ IsStack(t) /\ Len(t) = Len(s) - 1 /\ DOMAIN t = 1..Len(s)-1
      /\ \A i \in 1..Len(s)-1 : t[i] = s[i] /\ i \in 1..Len(s) /\ i # Len(s)
  BY <1>1, StackPopped
<1>4. \A q \in Processes \ {p} : StackOK(q)'
  BY <1>2, OthersStay
<1> HIDE DEF t
<1>5. \A i \in 1..Len(s)-1 : FrameOK(p, stack[p][i])'
  BY <1>2, <1>3, BelowStays
<1>6. \A i \in 1..Len(s)-1 : s[i].at = "inside"
  BY <1>1, <1>3 DEF EngineInv, StackOK
<1>7. \A i, j \in 1..Len(s)-1 : i # j => s[i].event # s[j].event
  BY <1>1, <1>3 DEF EngineInv, StackOK
<1>8. DOMAIN stack'[p] = 1..Len(s)-1 /\ \A i \in 1..Len(s)-1 : stack'[p][i] = s[i]
  BY <1>2, <1>3
<1>9. \A i \in DOMAIN stack'[p] : FrameOK(p, stack[p][i])'
  BY <1>5, <1>8
<1>10. \A i \in DOMAIN stack'[p] : stack'[p][i].at = "inside"
  BY <1>6, <1>8
<1>11. \A i, j \in DOMAIN stack'[p] : i # j => stack'[p][i].event # stack'[p][j].event
  BY <1>7, <1>8
<1>12. StackOK(p)'
  BY <1>2, <1>3, <1>9, <1>10, <1>11 DEF StackOK
<1>. QED
  BY <1>2, <1>4, <1>12 DEF StacksOK

\* Rows of one event change at most where its top frame stands.
LEMMA RowsPut ==
  ASSUME EngineInv, NEW p \in Processes, Busy(p), NEW status \in RowStatus,
         PutRow(p, status)
  PROVE  /\ rows' \in [Ids -> [Rules -> RowStatus]]
         /\ Rule(Top(p)) \in Rules => rows'[Top(p).event][Rule(Top(p))] = status
         /\ \A e \in Ids : e # Top(p).event => rows'[e] = rows[e]
         /\ \A e \in Ids, r \in Rules :
              e # Top(p).event \/ r # Rule(Top(p)) => rows'[e][r] = rows[e][r]
<1> DEFINE e0 == Top(p).event
           r0 == Rule(Top(p))
<1>1. rows' = [rows EXCEPT ![e0] = [rows[e0] EXCEPT ![r0] = status]]
  BY Zenon DEF PutRow
<1>2. e0 \in Ids /\ rows \in [Ids -> [Rules -> RowStatus]]
  BY TopFacts DEF EngineInv, RowsInBounds
<1> HIDE DEF e0, r0
<1>3. [rows[e0] EXCEPT ![r0] = status] \in [Rules -> RowStatus]
  BY <1>2
<1>4. /\ rows' \in [Ids -> [Rules -> RowStatus]]
      /\ rows'[e0] = [rows[e0] EXCEPT ![r0] = status]
      /\ \A e \in Ids : e # e0 => rows'[e] = rows[e]
  BY <1>1, <1>2, <1>3
<1>5. /\ r0 \in Rules => rows'[e0][r0] = status
      /\ \A r \in Rules : r # r0 => rows'[e0][r] = rows[e0][r]
  BY <1>2, <1>4
<1>. QED
  BY <1>4, <1>5 DEF e0, r0

\* The invariant follows from its parts when the events stay as they are.
LEMMA Together ==
  ASSUME EngineInv, UNCHANGED <<events, author>>, StacksOK', RowsInBounds', SameRuleOnce',
         \A j \in jobs' : j.depth \in Nat /\ j.hops = j.depth
  PROVE  EngineInv'
BY DEF EngineInv, Chained, StacksOK

\* A row put where the depth allows it, that ran only where no other row of the
\* process did, leaves the rows in order.
LEMMA RowsStay ==
  ASSUME EngineInv, NEW p \in Processes, Busy(p), NEW status \in RowStatus,
         PutRow(p, status), UNCHANGED <<events, author>>,
         Top(p).at # "arrived",
         status \in Ran /\ Rule(Top(p)) \in Rules =>
           \A e \in DOMAIN events : e # Top(p).event /\ author[e] = p =>
             rows[e][Rule(Top(p))] \notin Ran
  PROVE  RowsInBounds' /\ SameRuleOnce'
<1> DEFINE e0 == Top(p).event
           r0 == Rule(Top(p))
<1>1. /\ e0 \in DOMAIN events /\ author[e0] = p /\ events[e0].depth <= MaxDepth
  BY TopFacts DEF FrameOK
<1>2. /\ rows' \in [Ids -> [Rules -> RowStatus]]
      /\ r0 \in Rules => rows'[e0][r0] = status
      /\ \A e \in Ids, r \in Rules : e # e0 \/ r # r0 => rows'[e][r] = rows[e][r]
  BY RowsPut
<1>3. RowsInBounds'
  <2>1. ASSUME NEW e \in Ids, NEW r \in Rules, rows'[e][r] # "none"
        PROVE  e \in DOMAIN events' /\ events'[e].depth <= MaxDepth
    BY <1>1, <1>2, <2>1 DEF EngineInv, RowsInBounds
  <2>. QED
    BY <1>2, <2>1 DEF EngineInv, RowsInBounds
<1>4. SameRuleOnce'
  <2>1. SUFFICES ASSUME NEW r \in Rules, NEW e \in DOMAIN events, NEW f \in DOMAIN events,
                        e # f, author[e] = author[f],
                        rows'[e][r] \in Ran, rows'[f][r] \in Ran
                 PROVE  FALSE
    BY DEF SameRuleOnce
  <2>2. e \in Ids /\ f \in Ids
    BY Known
  <2>3. CASE r = r0 /\ e = e0
    BY <1>1, <1>2, <2>1, <2>2, <2>3
  <2>4. CASE r = r0 /\ f = e0
    BY <1>1, <1>2, <2>1, <2>2, <2>4
  <2>5. CASE ~(r = r0 /\ e = e0) /\ ~(r = r0 /\ f = e0)
    <3>1. rows'[e][r] = rows[e][r] /\ rows'[f][r] = rows[f][r]
      BY <1>2, <2>2, <2>5
    <3>. QED
      BY <2>1, <3>1 DEF EngineInv, SameRuleOnce
  <2>. QED
    BY <2>3, <2>4, <2>5
<1>. QED
  BY <1>3, <1>4

-----------------------------------------------------------------------------
(* Frames the code makes of frames *)

LEMMA FrameShape ==
  ASSUME NEW e
  PROVE  IsFrame(Frame(e)) /\ Frame(e).event = e /\ Frame(e).at = "arrived"
BY DEF Frame, IsFrame

LEMMA MovedFrame ==
  ASSUME NEW f, IsFrame(f), NEW place
  PROVE  LET g == [f EXCEPT !.at = place]
         IN  IsFrame(g) /\ g.event = f.event /\ g.at = place /\ g.left = f.left
BY DEF IsFrame

LEMMA ToldFrame ==
  ASSUME NEW f, IsFrame(f), NEW k,
         NEW g, g = [f EXCEPT !.at = "inside", !.told = k]
  PROVE  IsFrame(g) /\ g.event = f.event /\ g.at = "inside" /\ g.left = f.left
<1>1. g = [event |-> f.event, at |-> "inside", left |-> f.left, index |-> f.index,
           told |-> k, ok |-> f.ok, bad |-> f.bad, limited |-> f.limited]
  BY DEF IsFrame
<1>. QED
  BY <1>1 DEF IsFrame

LEMMA TurnedFrame ==
  ASSUME NEW f, IsFrame(f), NEW place, NEW left
  PROVE  LET g == [f EXCEPT !.at = place, !.left = left]
         IN  IsFrame(g) /\ g.event = f.event /\ g.at = place
<1> DEFINE g == [f EXCEPT !.at = place, !.left = left]
<1>1. g = [f EXCEPT !.at = place, !.left = left]
  OBVIOUS
<1> HIDE DEF g
<1>2. g = [event |-> f.event, at |-> place, left |-> left, index |-> f.index,
           told |-> f.told, ok |-> f.ok, bad |-> f.bad, limited |-> f.limited]
  BY <1>1 DEF IsFrame
<1>3. IsFrame(g) /\ g.event = f.event /\ g.at = place
  BY <1>2 DEF IsFrame
<1>. QED
  BY <1>3 DEF g

LEMMA LimitedFrame ==
  ASSUME NEW f, IsFrame(f), NEW limited
  PROVE  LET g == [f EXCEPT !.limited = limited]
         IN  IsFrame(g) /\ g.event = f.event /\ g.at = f.at /\ g.left = f.left
BY DEF IsFrame

LEMMA NextFrame ==
  ASSUME NEW e, NEW left
  PROVE  LET f == [Frame(e) EXCEPT !.at = "rules", !.left = left]
         IN  IsFrame(f) /\ f.event = e /\ f.at = "rules"
<1> DEFINE f == Frame(e)
<1>1. IsFrame(f) /\ f.event = e
  BY FrameShape
<1> HIDE DEF f
<1>2. LET g == [f EXCEPT !.at = "rules", !.left = left]
      IN  IsFrame(g) /\ g.event = f.event /\ g.at = "rules"
  BY <1>1, TurnedFrame
<1>. QED
  BY <1>1, <1>2 DEF f

LEMMA StopFrame ==
  ASSUME NEW e
  PROVE  LET f == [Frame(e) EXCEPT !.at = "rules"]
         IN  IsFrame(f) /\ f.event = e /\ f.at = "rules"
BY FrameShape, MovedFrame

LEMMA DoneFrame ==
  ASSUME NEW f, IsFrame(f), NEW good
  PROVE  LET g == Done(f, good)
         IN  IsFrame(g) /\ g.event = f.event /\ g.at = "action" /\ g.left = f.left
<1> DEFINE ok == f.ok \/ good
           bad == f.bad \/ ~good
           index == f.index + 1
           g == Done(f, good)
<1>1. g = [f EXCEPT !.at = "action", !.index = index, !.told = 0, !.ok = ok, !.bad = bad]
  BY Zenon DEF Done
<1> HIDE DEF ok, bad, index, g
<1>2. g = [event |-> f.event, at |-> "action", left |-> f.left, index |-> index,
           told |-> 0, ok |-> ok, bad |-> bad, limited |-> f.limited]
  BY <1>1 DEF IsFrame
<1>3. IsFrame(g) /\ g.event = f.event /\ g.at = "action" /\ g.left = f.left
  BY <1>2 DEF IsFrame
<1>. QED
  BY <1>3 DEF g

-----------------------------------------------------------------------------
(* Each step *)

\* Nothing but the stacks and what the invariant does not speak of changes.
LEMMA RowsKept ==
  ASSUME EngineInv, UNCHANGED <<events, author, rows>>
  PROVE  RowsInBounds' /\ SameRuleOnce'
BY DEF EngineInv, RowsInBounds, SameRuleOnce

\* The top frame goes on, within its rule or to the next.
LEMMA FrameMoves ==
  ASSUME EngineInv, NEW p \in Processes, Busy(p), NEW f,
         stack' = ReplaceTop(p, f), UNCHANGED <<events, author, rows>>,
         IsFrame(f), f.event = Top(p).event,
         f.at \notin {"arrived", "condition"},
         Top(p).at = "arrived" => events[f.event].depth <= MaxDepth,
         f.at \in Working => Top(p).at \in Working /\ f.left = Top(p).left,
         \A j \in jobs' : j.depth \in Nat /\ j.hops = j.depth
  PROVE  EngineInv'
<1>1. FrameOK(p, Top(p))
  BY TopFacts
<1>2. /\ events[f.event].depth <= MaxDepth
      /\ f.at \in Working /\ Rule(f) \in Rules => rows'[f.event][Rule(f)] = "MATCHED"
  BY <1>1 DEF FrameOK, Rule
<1>3. StacksOK'
  BY <1>2, TopReplaced
<1>. QED
  BY <1>3, RowsKept, Together

LEMMA JobsStay ==
  ASSUME EngineInv, jobs' \subseteq jobs
  PROVE  \A j \in jobs' : j.depth \in Nat /\ j.hops = j.depth
BY DEF EngineInv, Chained

LEMMA ReceiveStep ==
  ASSUME EngineInv, NEW p \in Processes, Receive(p) \/ Leave(p)
  PROVE  EngineInv'
<1>1. Busy(p) /\ UNCHANGED <<events, rows, author, jobs>>
  BY DEF Receive, Leave, At
<1>2. CASE stack' = Pop(p)
  BY <1>1, <1>2, TopPopped, RowsKept, JobsStay, Together
<1>3. CASE stack' # Pop(p)
  <2> DEFINE e == Top(p).event
             f == [Top(p) EXCEPT !.at = "rules", !.left = Listed(e)]
  <2>1. ~OutOfBounds(e) /\ stack' = ReplaceTop(p, f)
    BY <1>3 DEF Receive, Leave
  <2>2. IsFrame(Top(p)) /\ e \in DOMAIN events
    BY <1>1, TopFacts DEF FrameOK
  <2>3. IsFrame(f) /\ f.event = e /\ f.at = "rules"
    BY <2>2, TurnedFrame
  <2>4. events[e].depth <= MaxDepth
    BY <2>1, <2>2, EngineAssumption DEF OutOfBounds, EngineInv, Chained, EngineAssumption
  <2> HIDE DEF f, e
  <2>5. f.at \notin {"arrived", "condition"} \cup Working /\ f.event = Top(p).event
    BY <2>3 DEF Working, e
  <2>6. events[f.event].depth <= MaxDepth
    BY <2>3, <2>4
  <2>. QED
    BY <1>1, <2>1, <2>3, <2>5, <2>6, JobsStay, FrameMoves
<1>. QED
  BY <1>2, <1>3

LEMMA GuardStep ==
  ASSUME EngineInv, NEW p \in Processes, Guard(p)
  PROVE  EngineInv'
<1>1. /\ Busy(p) /\ Top(p).at = "rules" /\ UNCHANGED <<events, author, jobs>>
  BY DEF Guard, At
<1>2. /\ IsFrame(Top(p)) /\ events[Top(p).event].depth <= MaxDepth
      /\ Top(p).event \in DOMAIN events /\ author[Top(p).event] = p
  BY <1>1, TopFacts DEF FrameOK
<1>3. CASE PutRow(p, "SKIPPED_LOOP") /\ stack' = NextRule(p)
  <2> DEFINE f == [Frame(Top(p).event) EXCEPT !.at = "rules", !.left = Tail(Top(p).left)]
  <2>1. IsFrame(f) /\ f.event = Top(p).event /\ f.at = "rules" /\ stack' = ReplaceTop(p, f)
    BY <1>3, NextFrame DEF NextRule
  <2>2. "SKIPPED_LOOP" \in RowStatus /\ "SKIPPED_LOOP" \notin Ran
    BY DEF RowStatus, Final, Ran
  <2>3. RowsInBounds' /\ SameRuleOnce'
    BY <1>1, <1>3, <2>2, RowsStay
  <2>4. \A e \in DOMAIN events : e # Top(p).event => rows'[e] = rows[e]
    BY <1>1, <1>3, <2>2, RowsPut, Known
  <2> HIDE DEF f
  <2>5. StacksOK'
    BY <1>1, <1>2, <2>1, <2>4, TopReplaced DEF Working
  <2>. QED
    BY <1>1, <2>3, <2>5, JobsStay, Together
<1>4. CASE /\ ~AlreadyRan(Rule(Top(p))) /\ UNCHANGED rows
           /\ stack' = ReplaceTop(p, [Top(p) EXCEPT !.at = "condition"])
  <2> DEFINE f == [Top(p) EXCEPT !.at = "condition"]
  <2>1. IsFrame(f) /\ f.event = Top(p).event /\ f.at = "condition" /\ f.left = Top(p).left
    BY <1>2, MovedFrame
  <2> HIDE DEF f
  <2>2. \A e \in DOMAIN events : rows'[e][Rule(f)] \notin Ran
    BY <1>4, <2>1, Known DEF AlreadyRan, Rule
  <2>3. stack' = ReplaceTop(p, f)
    BY <1>4 DEF f
  <2>4. StacksOK'
    BY <1>1, <1>2, <1>4, <2>1, <2>2, <2>3, TopReplaced DEF Working
  <2>. QED
    BY <1>1, <1>4, <2>4, RowsKept, JobsStay, Together
<1>. QED
  BY <1>3, <1>4 DEF Guard

\* A rule that does not run, or that matched and has nothing to do.
LEMMA EvaluateStep ==
  ASSUME EngineInv, NEW p \in Processes, Evaluate(p)
  PROVE  EngineInv'
<1>1. Busy(p) /\ Top(p).at = "condition" /\ UNCHANGED <<events, author, jobs>>
  BY DEF Evaluate, At
<1>2. /\ IsFrame(Top(p)) /\ events[Top(p).event].depth <= MaxDepth
      /\ Rule(Top(p)) \in Rules =>
           \A e \in DOMAIN events : author[e] = p => rows[e][Rule(Top(p))] \notin Ran
  BY <1>1, TopFacts DEF FrameOK
<1>3. PICK status \in {"FAILED", "NOT_MATCHED", "MATCHED"} : PutRow(p, status)
  BY DEF Evaluate
<1>4. status \in RowStatus
  BY DEF RowStatus, Final, Ran
<1>5. RowsInBounds' /\ SameRuleOnce'
  BY <1>1, <1>2, <1>3, <1>4, RowsStay
<1>6. \A e \in DOMAIN events : e # Top(p).event => rows'[e] = rows[e]
  BY <1>1, <1>3, <1>4, RowsPut, Known
<1> DEFINE f == [Frame(Top(p).event) EXCEPT !.at = "rules", !.left = Tail(Top(p).left)]
<1>7. IsFrame(f) /\ f.event = Top(p).event /\ f.at = "rules" /\ stack' = ReplaceTop(p, f)
  BY NextFrame DEF Evaluate, NextRule
<1> HIDE DEF f
<1>8. StacksOK'
  BY <1>1, <1>2, <1>6, <1>7, TopReplaced DEF Working
<1>. QED
  BY <1>1, <1>5, <1>8, JobsStay, Together

LEMMA MatchStep ==
  ASSUME EngineInv, NEW p \in Processes, Match(p)
  PROVE  EngineInv'
<1>1. /\ Busy(p) /\ Top(p).at = "condition" /\ UNCHANGED <<events, author, jobs>>
      /\ PutRow(p, "MATCHED")
  BY DEF Match, At
<1>2. /\ IsFrame(Top(p)) /\ events[Top(p).event].depth <= MaxDepth
      /\ Rule(Top(p)) \in Rules =>
           \A e \in DOMAIN events : author[e] = p => rows[e][Rule(Top(p))] \notin Ran
  BY <1>1, TopFacts DEF FrameOK
<1>3. "MATCHED" \in RowStatus
  BY DEF RowStatus, Ran
<1>4. RowsInBounds' /\ SameRuleOnce'
  BY <1>1, <1>2, <1>3, RowsStay
<1>5. /\ \A e \in DOMAIN events : e # Top(p).event => rows'[e] = rows[e]
      /\ Rule(Top(p)) \in Rules => rows'[Top(p).event][Rule(Top(p))] = "MATCHED"
  BY <1>1, <1>3, RowsPut, Known
<1> DEFINE f == [Top(p) EXCEPT !.at = "action"]
<1>6. /\ IsFrame(f) /\ f.event = Top(p).event /\ f.at = "action" /\ f.left = Top(p).left
      /\ stack' = ReplaceTop(p, f)
  BY <1>2, MovedFrame DEF Match
<1> HIDE DEF f
<1>7. StacksOK'
  BY <1>1, <1>2, <1>5, <1>6, TopReplaced DEF Rule
<1>. QED
  BY <1>1, <1>4, <1>7, JobsStay, Together

LEMMA FinishStep ==
  ASSUME EngineInv, NEW p \in Processes, FinishRule(p)
  PROVE  EngineInv'
<1>1. /\ Busy(p) /\ Top(p).at = "action" /\ UNCHANGED <<events, author, jobs>>
      /\ PutRow(p, Outcome(Top(p)))
  BY DEF FinishRule, At
<1>2. /\ IsFrame(Top(p)) /\ events[Top(p).event].depth <= MaxDepth
      /\ Top(p).event \in DOMAIN events /\ author[Top(p).event] = p
      /\ Rule(Top(p)) \in Rules => rows[Top(p).event][Rule(Top(p))] = "MATCHED"
  BY <1>1, TopFacts DEF FrameOK, Working
<1>3. Outcome(Top(p)) \in RowStatus
  BY DEF Outcome, RowStatus, Final, Ran
<1>4. ASSUME Rule(Top(p)) \in Rules, NEW e \in DOMAIN events,
             e # Top(p).event, author[e] = p
      PROVE  rows[e][Rule(Top(p))] \notin Ran
  BY <1>2, <1>4 DEF EngineInv, SameRuleOnce, Ran
<1>5. RowsInBounds' /\ SameRuleOnce'
  <2> DEFINE status == Outcome(Top(p))
  <2>1. status \in RowStatus /\ PutRow(p, status)
    BY <1>1, <1>3
  <2> HIDE DEF status
  <2>. QED
    BY <1>1, <1>4, <2>1, RowsStay
<1>6. \A e \in DOMAIN events : e # Top(p).event => rows'[e] = rows[e]
  BY <1>1, <1>3, RowsPut, Known
<1>7. PICK f : IsFrame(f) /\ f.event = Top(p).event /\ f.at = "rules"
               /\ stack' = ReplaceTop(p, f)
  <2>1. CASE stack' = NextRule(p)
    BY <2>1, NextFrame DEF NextRule
  <2>2. CASE stack' = StopRules(p)
    BY <2>2, StopFrame DEF StopRules
  <2>. QED
    BY <2>1, <2>2 DEF FinishRule
<1>8. StacksOK'
  BY <1>1, <1>2, <1>6, <1>7, TopReplaced DEF Working
<1>. QED
  BY <1>1, <1>5, <1>8, JobsStay, Together

\* A slot is taken, or the rule's limit noted.
LEMMA SlotStep ==
  ASSUME EngineInv, NEW p \in Processes, ReserveSlot(p)
  PROVE  EngineInv'
<1>1. /\ Busy(p) /\ Top(p).at = "action" /\ UNCHANGED <<events, author, rows, jobs>>
      /\ IsFrame(Top(p))
  <2>1. Busy(p)
    BY DEF ReserveSlot, At
  <2>. QED
    BY <2>1, TopFacts DEF ReserveSlot, At, FrameOK
<1>2. PICK f : /\ stack' = ReplaceTop(p, f)
               /\ IsFrame(f) /\ f.event = Top(p).event /\ f.left = Top(p).left
               /\ f.at \in {"action", "granted"}
  <2> DEFINE g == [Top(p) EXCEPT !.at = "granted"]
             h == [Top(p) EXCEPT !.limited = TRUE]
  <2>1. IsFrame(g) /\ g.event = Top(p).event /\ g.left = Top(p).left /\ g.at = "granted"
    BY <1>1, MovedFrame
  <2>2. IsFrame(h) /\ h.event = Top(p).event /\ h.left = Top(p).left /\ h.at = "action"
    BY <1>1, LimitedFrame
  <2>3. stack' = ReplaceTop(p, g) \/ stack' = ReplaceTop(p, h)
    BY DEF ReserveSlot
  <2> HIDE DEF g, h
  <2>. QED
    BY <2>1, <2>2, <2>3
<1>3. f.at \notin {"arrived", "condition"} /\ Top(p).at \in Working /\ Top(p).at # "arrived"
  BY <1>1, <1>2 DEF Working
<1>. QED
  BY <1>1, <1>2, <1>3, JobsStay, FrameMoves

\* An action came to its end, and may have left a job one link further on.
LEMMA ActStep ==
  ASSUME EngineInv, NEW p \in Processes,
         \/ \E good \in BOOLEAN : ActQuietly(p, good) \/ ActionReturns(p, good)
         \/ ActSchedule(p)
  PROVE  EngineInv'
<1>1. /\ Busy(p) /\ Top(p).at \in Working /\ UNCHANGED <<events, author, rows>>
      /\ IsFrame(Top(p)) /\ Top(p).event \in DOMAIN events
  <2>1. Busy(p)
    BY DEF ActQuietly, ActionReturns, ActSchedule, At
  <2>. QED
    BY <2>1, TopFacts DEF ActQuietly, ActionReturns, ActSchedule, At, FrameOK, Working
<1>2. PICK good \in BOOLEAN : stack' = ReplaceTop(p, Done(Top(p), good))
  BY DEF ActQuietly, ActionReturns, ActSchedule
<1> DEFINE f == Done(Top(p), good)
<1>3. IsFrame(f) /\ f.event = Top(p).event /\ f.at = "action" /\ f.left = Top(p).left
  BY <1>1, DoneFrame
<1>4. \A j \in jobs' : j.depth \in Nat /\ j.hops = j.depth
  <2>1. \/ jobs' = jobs
        \/ \E wraps, cause :
             jobs' = jobs \cup {[wraps |-> wraps, depth |-> events[Top(p).event].depth + 1,
                                 hops |-> events[Top(p).event].hops + 1, cause |-> cause,
                                 by |-> Nothing, told |-> 0]}
    BY DEF ActQuietly, ActionReturns, ActSchedule, JobDepth
  <2>2. \A j \in jobs : j.depth \in Nat /\ j.hops = j.depth
    BY DEF EngineInv, Chained
  <2>3. /\ events[Top(p).event].depth + 1 \in Nat
        /\ events[Top(p).event].hops + 1 = events[Top(p).event].depth + 1
    BY <1>1 DEF EngineInv, Chained
  <2>. QED
    BY <2>1, <2>2, <2>3
<1>5. f.at \notin {"arrived", "condition"} /\ Top(p).at # "arrived"
  BY <1>1, <1>3 DEF Working
<1> HIDE DEF f
<1>6. stack' = ReplaceTop(p, f)
  BY <1>2 DEF f
<1>. QED
  BY <1>1, <1>3, <1>4, <1>5, <1>6, FrameMoves

\* The table of events grows by one that has no rows yet.
LEMMA EventAdded ==
  ASSUME EngineInv, NEW x, NEW p \in Processes, Len(events) + 1 <= MaxEvents,
         x.depth \in Nat, x.hops = x.depth,
         events' = Append(events, x),
         author' = [author EXCEPT ![Len(events) + 1] = p],
         UNCHANGED rows,
         \A j \in jobs' : j.depth \in Nat /\ j.hops = j.depth
  PROVE  /\ Chained' /\ RowsInBounds' /\ SameRuleOnce'
         /\ DOMAIN events \subseteq DOMAIN events'
         /\ DOMAIN events' = DOMAIN events \cup {Len(events) + 1}
         /\ Len(events) + 1 \notin DOMAIN events
         /\ author'[Len(events) + 1] = p /\ events'[Len(events) + 1] = x
         /\ \A e \in DOMAIN events : events'[e] = events[e] /\ author'[e] = author[e]
<1> DEFINE n == Len(events) + 1
<1>1. /\ IsStack(events) /\ Len(events) \in Nat /\ DOMAIN events = 1..Len(events)
      /\ DOMAIN events \subseteq Ids
  BY Known DEF EngineInv, Chained
<1>2. /\ IsStack(events') /\ Len(events') = n /\ DOMAIN events' = 1..n
      /\ events'[n] = x /\ \A e \in DOMAIN events : events'[e] = events[e]
  BY <1>1, StackPushed
<1>3. /\ n \in Ids /\ n \notin DOMAIN events /\ 1..n = (1..Len(events)) \cup {n}
  BY <1>1, EngineAssumption DEF Ids, EngineAssumption
<1>4. /\ author' \in [Ids -> Processes \cup {Nothing}] /\ author'[n] = p
      /\ \A e \in DOMAIN events : author'[e] = author[e]
  BY <1>1, <1>3 DEF EngineInv, RowsInBounds
<1> HIDE DEF n
<1>5. Chained'
  BY <1>1, <1>2, <1>3 DEF EngineInv, Chained, n
<1>6. RowsInBounds'
  BY <1>1, <1>2, <1>3, <1>4 DEF EngineInv, RowsInBounds
<1>7. \A r \in Rules : rows'[n][r] = "none"
  BY <1>3 DEF EngineInv, RowsInBounds
<1>8. SameRuleOnce'
  <2>1. "none" \notin Ran
    BY DEF Ran
  <2>. QED
    BY <1>1, <1>2, <1>3, <1>4, <1>7, <2>1 DEF EngineInv, SameRuleOnce
<1>. QED
  BY <1>1, <1>2, <1>3, <1>4, <1>5, <1>6, <1>8 DEF n

\* The frame of a new event is a good one of whoever published it.
LEMMA NewFrame ==
  ASSUME EngineInv, NEW p \in Processes, NEW i,
         Len(events) + 1 \in DOMAIN events', author'[Len(events) + 1] = p,
         stack'[p][i] = Frame(Len(events) + 1)
  PROVE  FrameOK(p, stack[p][i])'
BY FrameShape DEF FrameOK, Working

LEMMA StartStep ==
  ASSUME EngineInv, NEW p \in Processes, ~Busy(p), NEW x, Len(events) + 1 <= MaxEvents,
         x.depth \in Nat, x.hops = x.depth,
         events' = Append(events, x),
         author' = [author EXCEPT ![Len(events) + 1] = p],
         stack' = [stack EXCEPT ![p] = <<Frame(Len(events) + 1)>>],
         UNCHANGED rows,
         \A j \in jobs' : j.depth \in Nat /\ j.hops = j.depth
  PROVE  EngineInv'
<1> DEFINE n == Len(events) + 1
<1>1. /\ Chained' /\ RowsInBounds' /\ SameRuleOnce'
      /\ DOMAIN events' = DOMAIN events \cup {n} /\ DOMAIN events \subseteq DOMAIN events'
      /\ n \notin DOMAIN events /\ author'[n] = p
      /\ \A e \in DOMAIN events : events'[e] = events[e] /\ author'[e] = author[e]
  BY EventAdded
<1>2. /\ stack'[p] = <<Frame(n)>> /\ \A q \in Processes \ {p} : stack'[q] = stack[q]
      /\ stack' \in [Processes -> Range(stack')]
  BY OnlyOne
<1>3. \A q \in Processes \ {p} : StackOK(q)'
  BY <1>1, <1>2, OthersStay
<1>4. /\ IsStack(stack'[p]) /\ DOMAIN stack'[p] = {1} /\ Len(stack'[p]) = 1
      /\ stack'[p][1] = Frame(n)
  BY <1>2, StackStarted
<1>5. FrameOK(p, stack[p][1])'
  BY <1>1, <1>4, NewFrame
<1>6. StackOK(p)'
  BY <1>4, <1>5 DEF StackOK
<1>. QED
  BY <1>1, <1>2, <1>3, <1>6 DEF EngineInv

LEMMA PublishStep ==
  ASSUME EngineInv, NEW p \in Processes, ActAndPublish(p)
  PROVE  EngineInv'
<1>0. PICK k \in DOMAIN Publishes[Action(Top(p))] :
        /\ events' = Append(events,
             Envelope(Publishes[Action(Top(p))][k], events[Top(p).event].depth + 1,
                      events[Top(p).event].hops + 1))
        /\ stack' = [stack EXCEPT ![p] =
             Append(Append(Front(@), [Top(p) EXCEPT !.at = "inside", !.told = k]),
                    Frame(Len(events) + 1))]
  BY DEF ActAndPublish
<1> DEFINE n == Len(events) + 1
           e0 == Top(p).event
           x == Envelope(Publishes[Action(Top(p))][k], events[e0].depth + 1,
                         events[e0].hops + 1)
           g == [Top(p) EXCEPT !.at = "inside", !.told = k]
           s == stack[p]
           t == Append(Front(s), g)
<1>1. /\ Busy(p) /\ Top(p).at \in {"granted", "inside"} /\ n <= MaxEvents
      /\ events' = Append(events, x) /\ author' = [author EXCEPT ![n] = p]
      /\ stack' = [stack EXCEPT ![p] = Append(t, Frame(n))]
      /\ UNCHANGED <<rows, jobs>>
  BY <1>0 DEF ActAndPublish, At
<1>2. /\ IsStack(s) /\ s # <<>> /\ Len(s) \in Nat \ {0} /\ DOMAIN s = 1..Len(s)
      /\ FrameOK(p, Top(p)) /\ Top(p) = s[Len(s)]
  BY <1>1, TopFacts DEF Busy
<1>3. x.depth \in Nat /\ x.hops = x.depth
  BY <1>2 DEF FrameOK, EngineInv, Chained, Envelope
<1> HIDE DEF x
<1>4. /\ Chained' /\ RowsInBounds' /\ SameRuleOnce'
      /\ DOMAIN events' = DOMAIN events \cup {n} /\ DOMAIN events \subseteq DOMAIN events'
      /\ n \notin DOMAIN events /\ author'[n] = p
      /\ \A e \in DOMAIN events : events'[e] = events[e] /\ author'[e] = author[e]
  BY <1>1, <1>3, EventAdded, JobsStay
<1>5. /\ stack'[p] = Append(t, Frame(n))
      /\ \A q \in Processes \ {p} : stack'[q] = stack[q]
      /\ stack' \in [Processes -> Range(stack')]
  BY <1>1, OnlyOne
<1>6. \A q \in Processes \ {p} : StackOK(q)'
  BY <1>1, <1>4, <1>5, OthersStay
<1>7. /\ IsStack(t) /\ Len(t) = Len(s) /\ DOMAIN t = 1..Len(s) /\ t[Len(s)] = g
      /\ \A i \in 1..Len(s) : i # Len(s) => t[i] = s[i]
  BY <1>2, StackReplaced
<1>8. /\ IsFrame(g) /\ g.event = Top(p).event /\ g.at = "inside" /\ g.left = Top(p).left
  <2> DEFINE f == Top(p)
  <2>1. IsFrame(f)
    BY <1>2 DEF FrameOK
  <2>2. g = [f EXCEPT !.at = "inside", !.told = k]
    OBVIOUS
  <2> HIDE DEF g, f
  <2>3. IsFrame(g) /\ g.event = f.event /\ g.at = "inside" /\ g.left = f.left
    BY <2>1, <2>2, ToldFrame
  <2>. QED
    BY <2>3 DEF f
<1> HIDE DEF t, g
<1>9. /\ IsStack(stack'[p]) /\ Len(stack'[p]) = Len(s) + 1
      /\ DOMAIN stack'[p] = 1..Len(s)+1 /\ stack'[p][Len(s)+1] = Frame(n)
      /\ \A i \in 1..Len(s) : stack'[p][i] = t[i]
  BY <1>5, <1>7, StackPushed
<1>10. ASSUME NEW i, i = Len(s) + 1 PROVE FrameOK(p, stack[p][i])'
  BY <1>4, <1>9, <1>10, NewFrame
<1>11. ASSUME NEW i, i = Len(s) PROVE FrameOK(p, stack[p][i])'
  <2>1. stack'[p][i] = g
    BY <1>2, <1>7, <1>9, <1>11
  <2>2. Top(p).event \in DOMAIN events /\ Top(p).at # "arrived" /\ Top(p).at \in Working
    BY <1>1, <1>2 DEF FrameOK, Working
  <2>3. /\ g.event \in DOMAIN events' /\ author'[g.event] = p
        /\ events'[g.event].depth <= MaxDepth /\ rows'[g.event] = rows[g.event]
    BY <1>1, <1>2, <1>4, <1>8, <2>2 DEF FrameOK
  <2>4. Rule(g) \in Rules => rows'[g.event][Rule(g)] = "MATCHED"
    BY <1>2, <1>8, <2>2, <2>3 DEF FrameOK, Rule
  <2>. QED
    BY <1>8, <2>1, <2>3, <2>4 DEF FrameOK
<1>12. ASSUME NEW i \in 1..Len(s), i # Len(s) PROVE FrameOK(p, stack[p][i])'
  <2>1. stack'[p][i] = stack[p][i]
    BY <1>7, <1>9, <1>12
  <2>. QED
    BY <1>1, <1>4, <1>12, <2>1, BelowStays
<1>13. \A i \in 1..Len(s) : /\ stack'[p][i].event = s[i].event
                            /\ stack'[p][i].at = "inside"
                            /\ s[i].event \in DOMAIN events
  BY <1>2, <1>7, <1>8, <1>9 DEF EngineInv, StackOK, FrameOK
<1>14. \A i, j \in 1..Len(s) : i # j => s[i].event # s[j].event
  BY <1>2 DEF EngineInv, StackOK
<1>15. Frame(n).event = n
  BY FrameShape
<1>16. \A i \in 1..Len(s)+1 : i \in 1..Len(s) \/ i = Len(s) + 1
  BY <1>2
<1>17. ASSUME NEW i \in 1..Len(s)+1 PROVE FrameOK(p, stack[p][i])'
  <2>1. i = Len(s) + 1 \/ i = Len(s) \/ (i \in 1..Len(s) /\ i # Len(s))
    BY <1>16
  <2>. QED
    BY <2>1, <1>10, <1>11, <1>12
<1>18. \A i \in 1..Len(s)+1 : i # Len(s)+1 => stack'[p][i].at = "inside"
  BY <1>13, <1>16
<1>19. \A i, j \in 1..Len(s)+1 : i # j => stack'[p][i].event # stack'[p][j].event
  BY <1>4, <1>9, <1>13, <1>14, <1>15, <1>16
<1>20. StackOK(p)'
  BY <1>9, <1>17, <1>18, <1>19 DEF StackOK
<1>. QED
  BY <1>4, <1>5, <1>6, <1>20 DEF EngineInv

\* A step that leaves the correlation and the stacks as they are.
LEMMA AsideStep ==
  ASSUME EngineInv, UNCHANGED <<events, author, rows, stack>>,
         \A j \in jobs' : j.depth \in Nat /\ j.hops = j.depth
  PROVE  EngineInv'
BY DEF EngineInv, Chained, RowsInBounds, SameRuleOnce, StackOK, FrameOK

LEMMA CrashStep ==
  ASSUME EngineInv, NEW p \in Processes, Crash(p)
  PROVE  EngineInv'
<1>1. stack' = [stack EXCEPT ![p] = <<>>] /\ UNCHANGED <<events, author, rows>>
      /\ jobs' \subseteq jobs
  BY DEF Crash
<1>2. /\ stack'[p] = <<>> /\ \A q \in Processes \ {p} : stack'[q] = stack[q]
      /\ stack' \in [Processes -> Range(stack')]
  BY <1>1, OnlyOne
<1>3. \A q \in Processes \ {p} : StackOK(q)'
  BY <1>1, <1>2, OthersStay
<1>4. StackOK(p)'
  BY <1>2, StackEmpty DEF StackOK
<1>5. StacksOK'
  BY <1>2, <1>3, <1>4 DEF StacksOK
<1>. QED
  BY <1>1, <1>5, RowsKept, JobsStay, Together

LEMMA RootStep ==
  ASSUME EngineInv, NEW p \in Threads, PublishRoot(p)
  PROVE  EngineInv'
<1>1. /\ events = <<>> /\ MaxEvents > 0 /\ UNCHANGED <<rows, jobs>> /\ p \in Processes
      /\ events' = <<Envelope(RootType, 0, 0)>> /\ author' = [author EXCEPT ![1] = p]
      /\ stack' = [stack EXCEPT ![p] = <<Frame(1)>>]
  BY DEF PublishRoot, Processes
<1> DEFINE x == Envelope(RootType, 0, 0)
<1>2. Len(events) = 0 /\ DOMAIN events = {}
  BY <1>1, StackEmpty
<1>3. Len(events) + 1 = 1 /\ Len(events) + 1 <= MaxEvents
  BY <1>1, <1>2, EngineAssumption DEF EngineAssumption
<1>4. x.depth \in Nat /\ x.hops = x.depth
  BY DEF Envelope
<1>5. ~Busy(p)
  <2>1. SUFFICES ASSUME Busy(p) PROVE FALSE
    OBVIOUS
  <2>. QED
    BY <1>1, <1>2, <2>1, TopFacts DEF FrameOK
<1> HIDE DEF x
<1>6. events' = Append(events, x)
  BY <1>1 DEF x
<1>. QED
  BY <1>1, <1>3, <1>4, <1>5, <1>6, JobsStay, StartStep

\* A job keeps its place in the chain whoever runs it, and however far.
LEMMA JobsRun ==
  ASSUME EngineInv, NEW j \in jobs, NEW w, NEW k,
         jobs' = (jobs \ {j}) \cup {RunBy(j, w, k)}
  PROVE  \A i \in jobs' : i.depth \in Nat /\ i.hops = i.depth
BY DEF EngineInv, Chained, RunBy

LEMMA JobStep ==
  ASSUME EngineInv, NEW w \in Workers, NEW j \in jobs, RunJob(w, j)
  PROVE  EngineInv'
<1>1. CASE TakeJob(w, j)
  <2>1. jobs' \subseteq jobs \/ jobs' = (jobs \ {j}) \cup {RunBy(j, w, 0)}
    BY <1>1 DEF TakeJob
  <2>2. \A i \in jobs' : i.depth \in Nat /\ i.hops = i.depth
    BY <2>1, JobsStay, JobsRun
  <2>. QED
    BY <1>1, <2>2, AsideStep DEF TakeJob
<1>2. CASE JobPublishes(w, j)
  <2>1. PICK k \in DOMAIN Publishes[j.wraps] :
          /\ jobs' = (jobs \ {j}) \cup {RunBy(j, w, k)}
          /\ events' = Append(events,
               Envelope(Publishes[j.wraps][k], j.depth + 1, j.hops + 1))
    BY <1>2 DEF JobPublishes
  <2> DEFINE n == Len(events) + 1
             x == Envelope(Publishes[j.wraps][k], j.depth + 1, j.hops + 1)
  <2>2. /\ n <= MaxEvents /\ events' = Append(events, x)
        /\ author' = [author EXCEPT ![n] = w]
        /\ stack' = [stack EXCEPT ![w] = <<Frame(n)>>]
        /\ ~Busy(w) /\ w \in Processes /\ UNCHANGED rows
    BY <1>2, <2>1 DEF JobPublishes, Processes
  <2>3. x.depth \in Nat /\ x.hops = x.depth
    BY DEF Envelope, EngineInv, Chained
  <2> HIDE DEF x
  <2>4. \A i \in jobs' : i.depth \in Nat /\ i.hops = i.depth
    BY <2>1, JobsRun
  <2>. QED
    BY <2>2, <2>3, <2>4, StartStep
<1>3. CASE JobEnds(w, j)
  <2>1. jobs' \subseteq jobs
    BY <1>3 DEF JobEnds
  <2>. QED
    BY <1>3, <2>1, JobsStay, AsideStep DEF JobEnds
<1>. QED
  BY <1>1, <1>2, <1>3 DEF RunJob

\* No step leads out of the invariant.
LEMMA EngineStep == EngineInv /\ [Next]_vars => EngineInv'
<1> SUFFICES ASSUME EngineInv, [Next]_vars PROVE EngineInv'
  OBVIOUS
<1>1. CASE UNCHANGED vars
  BY <1>1, JobsStay, AsideStep DEF vars
<1>2. ASSUME NEW p \in Processes, Step(p) PROVE EngineInv'
  BY <1>2, ReceiveStep, GuardStep, EvaluateStep, MatchStep, SlotStep, ActStep,
     PublishStep, FinishStep DEF Step, Act
<1>3. ASSUME NEW p \in Processes, InternalError(p) PROVE EngineInv'
  BY <1>3, TopPopped, RowsKept, JobsStay, Together DEF InternalError
<1>4. ASSUME NEW r \in Rules, SetActive(r) PROVE EngineInv'
  BY <1>4, JobsStay, AsideStep DEF SetActive
<1>. QED
  BY <1>1, <1>2, <1>3, <1>4, CrashStep, RootStep, JobStep DEF Next

LEMMA EngineInvariant == Spec => []EngineInv
BY InitEngineInv, EngineStep, PTL DEF Spec

-----------------------------------------------------------------------------
(* Filters: induction over a sequence, by the least place that fails *)

\* Every set of numbers has a least one.
LEMMA LeastNumber ==
  ASSUME NEW T \in SUBSET Nat, T # {}
  PROVE  \E n \in T : \A m \in T : n <= m
<1> DEFINE R == {ss \in Nat \X Nat : ss[1] < ss[2]}
<1>1. OpToRel(<, Nat) = R
  BY Zenon DEF OpToRel
<1>2. IsWellFoundedOn(R, Nat)
  BY <1>1, NatLessThanWellFounded
<1>3. \E n \in T : \A m \in T : ~(<<m, n>> \in R)
  <2> HIDE DEF R
  <2>. QED
    BY <1>2, WFMin
<1>4. PICK n \in T : \A m \in T : <<m, n>> \notin R
  BY <1>3
<1>5. ASSUME NEW m \in T PROVE n <= m
  <2>1. <<m, n>> \in R <=> m < n
    OBVIOUS
  <2>. QED
    BY <1>4, <2>1
<1>. QED
  BY <1>5

LEMMA Induction ==
  ASSUME NEW N \in Nat, NEW T, 0 \in T, \A n \in 1..N : n - 1 \in T => n \in T
  PROVE  0..N \subseteq T
<1> SUFFICES ASSUME (0..N) \ T # {} PROVE FALSE
  OBVIOUS
<1>1. PICK n \in (0..N) \ T : \A m \in (0..N) \ T : n <= m
  <2> DEFINE U == (0..N) \ T
  <2>1. U \in SUBSET Nat /\ U # {}
    OBVIOUS
  <2> HIDE DEF U
  <2>2. \E n \in U : \A m \in U : n <= m
    BY <2>1, LeastNumber
  <2>. QED
    BY <2>2 DEF U
<1>2. n \in 1..N /\ n - 1 \in 0..N /\ n - 1 \notin (0..N) \ T
  BY <1>1
<1>. QED
  BY <1>2

\* f comes from b by the steps.
Runs(f, b, step, N, S) ==
  f \in [0..N -> S] /\ f[0] = b /\ \A n \in 1..N : f[n] = step[n][f[n - 1]]
AreSteps(step, N, S) == step \in [1..N -> [S -> S]]

LEMMA Recursion ==
  ASSUME NEW N \in Nat, NEW S, NEW b \in S, NEW step, AreSteps(step, N, S)
  PROVE  \E f : Runs(f, b, step, N, S)
<1>. USE DEF Runs, AreSteps
<1> DEFINE Upto(k) == \E f \in [0..k -> S] :
                        f[0] = b /\ \A n \in 1..k : f[n] = step[n][f[n - 1]]
           T == {k \in 0..N : Upto(k)}
<1>1. 0 \in T
  <2> DEFINE f == [n \in 0..0 |-> b]
  <2>1. f \in [0..0 -> S] /\ f[0] = b
    OBVIOUS
  <2>2. \A n \in 1..0 : f[n] = step[n][f[n - 1]]
    OBVIOUS
  <2> HIDE DEF f
  <2>3. Upto(0)
    BY <2>1, <2>2
  <2>. QED
    BY <2>3
<1>2. ASSUME NEW k \in 1..N, k - 1 \in T PROVE k \in T
  <2>1. PICK f \in [0..(k - 1) -> S] :
          f[0] = b /\ \A n \in 1..(k - 1) : f[n] = step[n][f[n - 1]]
    BY <1>2
  <2> DEFINE g == [n \in 0..k |-> IF n = k THEN step[k][f[k - 1]] ELSE f[n]]
  <2>2. f[k - 1] \in S /\ step[k][f[k - 1]] \in S
    BY <2>1
  <2>3. g \in [0..k -> S] /\ g[0] = b
    BY <2>1, <2>2
  <2>4. ASSUME NEW n \in 1..k PROVE g[n] = step[n][g[n - 1]]
    BY <2>1
  <2> HIDE DEF g
  <2>5. Upto(k)
    BY <2>3, <2>4
  <2>. QED
    BY <2>5
<1> HIDE DEF T
<1>3. 0..N \subseteq T
  BY <1>1, <1>2, Induction
<1>. QED
  BY <1>3 DEF T

\* What a filter keeps of a sequence is a sequence of the same things.
LEMMA Filtered ==
  ASSUME NEW T, NEW s \in Seq(T), NEW kept
  PROVE  Filter(s, kept) \in Seq(T)
<1> DEFINE N == Len(s)
           S == Seq(T)
           empty == <<>>
           Upto == CHOOSE f : f = [n \in 0..N |->
                     IF n = 0 THEN empty
                     ELSE IF s[n] \in kept THEN Append(f[n - 1], s[n]) ELSE f[n - 1]]
           step == [n \in 1..N |-> [x \in S |->
                     IF s[n] \in kept THEN Append(x, s[n]) ELSE x]]
<1>1. Filter(s, kept) = Upto[N]
  BY DEF Filter
<1>2. N \in Nat /\ DOMAIN s = 1..N /\ \A n \in 1..N : s[n] \in T
  OBVIOUS
<1>3. AreSteps(step, N, S) /\ empty \in S
  BY <1>2 DEF AreSteps
<1> HIDE DEF N, S, empty, Upto
<1>4. PICK g \in [0..N -> S] :
        g[0] = empty /\ \A n \in 1..N : g[n] = step[n][g[n - 1]]
  <2> HIDE DEF step
  <2>1. \E g : Runs(g, empty, step, N, S)
    BY <1>2, <1>3, Recursion
  <2>. QED
    BY <2>1 DEF Runs
<1>5. g = [n \in 0..N |->
            IF n = 0 THEN empty
            ELSE IF s[n] \in kept THEN Append(g[n - 1], s[n]) ELSE g[n - 1]]
  <2>1. ASSUME NEW n \in 1..N
        PROVE  g[n] = IF s[n] \in kept THEN Append(g[n - 1], s[n]) ELSE g[n - 1]
    <3>1. n - 1 \in 0..N
      BY <1>2
    <3>2. g[n - 1] \in S
      BY <3>1
    <3>. QED
      BY <1>4, <3>2
  <2> DEFINE h == [n \in 0..N |->
                    IF n = 0 THEN empty
                    ELSE IF s[n] \in kept THEN Append(g[n - 1], s[n]) ELSE g[n - 1]]
  <2>2. \A n \in 0..N : n = 0 \/ n \in 1..N
    BY <1>2
  <2>3. \A n \in 0..N : g[n] = h[n]
    BY <1>2, <1>4, <2>1, <2>2
  <2>4. DOMAIN h = 0..N /\ DOMAIN g = 0..N /\ h = [n \in 0..N |-> h[n]]
    OBVIOUS
  <2> HIDE DEF h
  <2>5. g = h
    BY <2>3, <2>4
  <2>. QED
    BY <2>5 DEF h
<1>6. Upto = [n \in 0..N |->
               IF n = 0 THEN empty
               ELSE IF s[n] \in kept THEN Append(Upto[n - 1], s[n]) ELSE Upto[n - 1]]
  BY <1>5, Zenon DEF Upto
<1> HIDE DEF step
<1> DEFINE Good == {n \in 0..N : Upto[n] \in S}
<1>7. 0 \in Good
  BY <1>2, <1>3, <1>6
<1>8. ASSUME NEW n \in 1..N, n - 1 \in Good PROVE n \in Good
  <2>1. n \in 0..N /\ n # 0
    BY <1>2
  <2>2. Upto[n] = IF s[n] \in kept THEN Append(Upto[n - 1], s[n]) ELSE Upto[n - 1]
    BY <1>6, <2>1
  <2>3. Upto[n] \in S
    BY <1>2, <1>8, <2>2 DEF S
  <2>. QED
    BY <2>1, <2>3
<1> HIDE DEF Good
<1>9. N \in Good
  BY <1>2, <1>7, <1>8, Induction
<1>. QED
  BY <1>1, <1>9 DEF Good, S

-----------------------------------------------------------------------------
(* Types *)

InRule == {"condition", "action", "granted", "inside"}

\* A frame is somewhere in process_event(), and in a rule only if one is left.
FrameTyped(f) == f.at \in Places /\ (f.at \in InRule => f.left # <<>>)

FramesTyped == \A p \in Processes : \A i \in DOMAIN stack[p] : FrameTyped(stack[p][i])

\* What the types ask for besides EngineInv.
RestTyped ==
  /\ bounded \subseteq DOMAIN events /\ lost \subseteq DOMAIN events
  /\ listed \in [Ids -> Seq(Rules)]
  /\ active \in [Rules -> BOOLEAN]
  /\ edits \in 0..MaxEdits /\ faults \in 0..MaxFaults
  /\ FramesTyped

LEMMA ListedTyped == ASSUME NEW e PROVE Listed(e) \in Seq(Rules)
BY EngineAssumption, Filtered DEF Listed, EngineAssumption

LEMMA InitTyped == Init => RestTyped
<1> SUFFICES ASSUME Init PROVE RestTyped
  OBVIOUS
<1>1. /\ bounded = {} /\ lost = {} /\ active \in [Rules -> BOOLEAN]
      /\ edits = 0 /\ faults = 0 /\ stack = [p \in Processes |-> <<>>]
      /\ listed = [e \in Ids |-> <<>>]
  BY DEF Init
<1>2. listed \in [Ids -> Seq(Rules)]
  BY <1>1, EmptySeq
<1>3. FramesTyped
  BY <1>1, StackEmpty DEF FramesTyped
<1>. QED
  BY <1>1, <1>2, <1>3, EngineAssumption DEF RestTyped, EngineAssumption

\* One stack is replaced by one of typed frames.
LEMMA OneTyped ==
  ASSUME EngineInv, RestTyped, NEW p \in Processes, NEW s,
         stack' = [stack EXCEPT ![p] = s], \A i \in DOMAIN s : FrameTyped(s[i])
  PROVE  FramesTyped'
<1>1. stack'[p] = s /\ \A q \in Processes \ {p} : stack'[q] = stack[q]
  BY OnlyOne
<1>. QED
  BY <1>1 DEF RestTyped, FramesTyped

\* Its top frame goes on, or leaves.
LEMMA TopTyped ==
  ASSUME EngineInv, RestTyped, NEW p \in Processes, Busy(p), NEW f, FrameTyped(f)
  PROVE  /\ \A i \in DOMAIN Front(stack[p]) : FrameTyped(Front(stack[p])[i])
         /\ \A i \in DOMAIN Append(Front(stack[p]), f) :
              FrameTyped(Append(Front(stack[p]), f)[i])
         /\ IsStack(Append(Front(stack[p]), f))
<1> DEFINE s == stack[p]
           u == Front(s)
           t == Append(u, f)
<1>1. IsStack(s) /\ s # <<>> /\ Len(s) \in Nat \ {0} /\ DOMAIN s = 1..Len(s)
  BY TopFacts DEF Busy
<1>2. /\ DOMAIN u = 1..Len(s)-1 /\ \A i \in 1..Len(s)-1 : u[i] = s[i]
  BY <1>1, StackPopped
<1>3. /\ IsStack(t) /\ DOMAIN t = 1..Len(s) /\ t[Len(s)] = f
      /\ \A i \in 1..Len(s) : i # Len(s) => t[i] = s[i]
  BY <1>1, StackReplaced
<1>4. \A i \in 1..Len(s) : FrameTyped(s[i])
  BY <1>1 DEF RestTyped, FramesTyped
<1> HIDE DEF s, u, t
<1>5. \A i \in DOMAIN u : FrameTyped(u[i])
  BY <1>1, <1>2, <1>4
<1>6. \A i \in DOMAIN t : FrameTyped(t[i])
  BY <1>3, <1>4
<1>. QED
  BY <1>3, <1>5, <1>6 DEF s, u, t

LEMMA MoveTyped ==
  ASSUME EngineInv, RestTyped, NEW p \in Processes, Busy(p), NEW f, FrameTyped(f),
         stack' = ReplaceTop(p, f)
  PROVE  FramesTyped'
BY TopTyped, OneTyped DEF ReplaceTop

LEMMA PopTyped ==
  ASSUME EngineInv, RestTyped, NEW p \in Processes, Busy(p), stack' = Pop(p)
  PROVE  FramesTyped'
<1>1. FrameTyped(Frame(0))
  BY FrameShape DEF FrameTyped, Places, InRule
<1>. QED
  BY <1>1, TopTyped, OneTyped DEF Pop

\* The next rule, or none.
LEMMA RulesTyped ==
  ASSUME EngineInv, RestTyped, NEW p \in Processes, Busy(p),
         stack' = NextRule(p) \/ stack' = StopRules(p)
  PROVE  FramesTyped'
<1>1. PICK f : f.at = "rules" /\ stack' = ReplaceTop(p, f)
  BY NextFrame, StopFrame DEF NextRule, StopRules
<1>2. FrameTyped(f)
  BY <1>1 DEF FrameTyped, Places, InRule
<1>. QED
  BY <1>1, <1>2, MoveTyped

\* A frame that goes on in its rule.
LEMMA RuleTyped ==
  ASSUME EngineInv, RestTyped, NEW p \in Processes, Busy(p), Top(p).at \in InRule, NEW f,
         f.at \in InRule, f.left = Top(p).left
  PROVE  FrameTyped(f)
<1>1. FrameTyped(Top(p))
  BY TopFacts DEF RestTyped, FramesTyped
<1>. QED
  BY <1>1 DEF FrameTyped, Places, InRule

\* A process starts on an event.
LEMMA StartTyped ==
  ASSUME EngineInv, RestTyped, NEW p \in Processes, NEW e,
         stack' = [stack EXCEPT ![p] = <<Frame(e)>>]
  PROVE  FramesTyped'
<1>1. FrameTyped(Frame(e))
  BY FrameShape DEF FrameTyped, Places, InRule
<1>2. \A i \in DOMAIN <<Frame(e)>> : FrameTyped(<<Frame(e)>>[i])
  BY <1>1, StackStarted
<1>. QED
  BY <1>2, OneTyped

LEMMA StepTyped ==
  ASSUME EngineInv, RestTyped, NEW p \in Processes, Step(p)
  PROVE  FramesTyped'
<1>0. Busy(p) /\ IsFrame(Top(p))
  <2>1. Busy(p)
    BY DEF Step, Act, At, Receive, Leave, Guard, Evaluate, Match, ReserveSlot,
           ActQuietly, ActionReturns, ActAndPublish, ActSchedule, FinishRule
  <2>. QED
    BY <2>1, TopFacts DEF FrameOK
<1>1. CASE stack' = Pop(p)
  BY <1>0, <1>1, PopTyped
<1>2. CASE stack' = NextRule(p) \/ stack' = StopRules(p)
  BY <1>0, <1>2, RulesTyped
<1>3. CASE Receive(p) /\ stack' # Pop(p)
  <2> DEFINE left == Listed(Top(p).event)
             f == [Top(p) EXCEPT !.at = "rules", !.left = left]
  <2>1. f.at = "rules"
    <3> HIDE DEF left
    <3>. QED
      BY <1>0, TurnedFrame
  <2>2. stack' = ReplaceTop(p, f)
    BY <1>3 DEF Receive
  <2> HIDE DEF f
  <2>3. FrameTyped(f)
    BY <2>1 DEF FrameTyped, Places, InRule
  <2>. QED
    BY <1>0, <2>2, <2>3, MoveTyped
<1>4. CASE Guard(p) /\ stack' # NextRule(p)
  <2> DEFINE f == [Top(p) EXCEPT !.at = "condition"]
  <2>1. f.at = "condition" /\ f.left = Top(p).left
    BY <1>0, MovedFrame
  <2>2. stack' = ReplaceTop(p, f) /\ Top(p).left # <<>>
    BY <1>4 DEF Guard
  <2> HIDE DEF f
  <2>3. FrameTyped(f)
    BY <2>1, <2>2 DEF FrameTyped, Places, InRule
  <2>. QED
    BY <1>0, <2>2, <2>3, MoveTyped
<1>5. CASE Match(p)
  <2> DEFINE f == [Top(p) EXCEPT !.at = "action"]
  <2>1. f.at \in InRule /\ f.left = Top(p).left
    BY <1>0, MovedFrame DEF InRule
  <2>2. stack' = ReplaceTop(p, f) /\ Top(p).at \in InRule
    BY <1>5 DEF Match, At, InRule
  <2> HIDE DEF f
  <2>. QED
    BY <1>0, <2>1, <2>2, RuleTyped, MoveTyped
<1>6. CASE ReserveSlot(p)
  <2> DEFINE g == [Top(p) EXCEPT !.at = "granted"]
             h == [Top(p) EXCEPT !.limited = TRUE]
  <2>1. Top(p).at = "action" /\ (stack' = ReplaceTop(p, g) \/ stack' = ReplaceTop(p, h))
    BY <1>6 DEF ReserveSlot, At
  <2>2. /\ g.at \in InRule /\ g.left = Top(p).left
        /\ h.at \in InRule /\ h.left = Top(p).left
    BY <1>0, <2>1, MovedFrame, LimitedFrame DEF InRule
  <2>3. Top(p).at \in InRule
    BY <2>1 DEF InRule
  <2> HIDE DEF g, h
  <2>4. FrameTyped(g) /\ FrameTyped(h)
    BY <1>0, <2>2, <2>3, RuleTyped
  <2>. QED
    BY <1>0, <2>1, <2>4, MoveTyped
<1>7. ASSUME NEW good \in BOOLEAN, stack' = ReplaceTop(p, Done(Top(p), good)),
             Top(p).at \in InRule
      PROVE  FramesTyped'
  <2> DEFINE f == Done(Top(p), good)
  <2>1. f.at \in InRule /\ f.left = Top(p).left
    BY <1>0, DoneFrame DEF InRule
  <2>2. stack' = ReplaceTop(p, f)
    BY <1>7
  <2> HIDE DEF f
  <2>. QED
    BY <1>0, <1>7, <2>1, <2>2, RuleTyped, MoveTyped
<1>8. CASE ActAndPublish(p)
  <2>0. PICK k : stack' = [stack EXCEPT ![p] =
               Append(Append(Front(@), [Top(p) EXCEPT !.at = "inside", !.told = k]),
                      Frame(Len(events) + 1))]
    BY <1>8 DEF ActAndPublish
  <2> DEFINE g == [Top(p) EXCEPT !.at = "inside", !.told = k]
             n == Len(events) + 1
             t == Append(Front(stack[p]), g)
             u == Append(t, Frame(n))
  <2>1. g.at \in InRule /\ g.left = Top(p).left
    <3> DEFINE f == Top(p)
    <3>1. IsFrame(f) /\ g = [f EXCEPT !.at = "inside", !.told = k]
      BY <1>0
    <3> HIDE DEF g, f
    <3>2. g.at = "inside" /\ g.left = f.left
      BY <3>1, ToldFrame
    <3>. QED
      BY <3>2 DEF f, InRule
  <2>2. stack' = [stack EXCEPT ![p] = u] /\ Top(p).at \in InRule
    BY <1>8, <2>0 DEF ActAndPublish, At, InRule
  <2> HIDE DEF g
  <2>3. FrameTyped(g)
    BY <1>0, <2>1, <2>2, RuleTyped
  <2>4. IsStack(t) /\ \A i \in DOMAIN t : FrameTyped(t[i])
    BY <1>0, <2>3, TopTyped
  <2> HIDE DEF t
  <2>5. FrameTyped(Frame(n))
    BY FrameShape DEF FrameTyped, Places, InRule
  <2>6. /\ DOMAIN u = 1..Len(t)+1 /\ u[Len(t)+1] = Frame(n)
        /\ \A i \in 1..Len(t) : u[i] = t[i]
        /\ Len(t) \in Nat /\ DOMAIN t = 1..Len(t)
    BY <2>4, StackPushed, StackLength
  <2> HIDE DEF u
  <2>7. \A i \in DOMAIN u : i = Len(t) + 1 \/ i \in 1..Len(t)
    BY <2>6
  <2>8. \A i \in DOMAIN u : FrameTyped(u[i])
    BY <2>4, <2>5, <2>6, <2>7
  <2>. QED
    BY <2>2, <2>8, OneTyped
<1>9. CASE Act(p) /\ ~ActAndPublish(p)
  BY <1>7, <1>9 DEF Act, ActQuietly, ActionReturns, ActSchedule, At, InRule
<1>. QED
  BY <1>1, <1>2, <1>3, <1>4, <1>5, <1>6, <1>8, <1>9
     DEF Step, Leave, Guard, Evaluate, FinishRule

\* The events only ever grow.
LEMMA EventsGrow ==
  ASSUME EngineInv, Next
  PROVE  DOMAIN events \subseteq DOMAIN events'
<1>1. \/ events' = events
      \/ \E x : events' = Append(events, x)
      \/ events = <<>>
  BY DEF Next, PublishRoot, Step, Act, Receive, Leave, Guard, Evaluate, Match, ReserveSlot,
         ActQuietly, ActionReturns, ActAndPublish, ActSchedule, FinishRule,
         InternalError, Crash, RunJob, TakeJob, JobPublishes, JobEnds, SetActive
<1>2. /\ IsStack(events) /\ Len(events) \in Nat /\ DOMAIN events = 1..Len(events)
  BY Known DEF EngineInv, Chained
<1>3. ASSUME NEW x, events' = Append(events, x) PROVE DOMAIN events \subseteq DOMAIN events'
  BY <1>2, <1>3, StackPushed
<1>4. CASE events = <<>>
  BY <1>4, StackEmpty
<1>. QED
  BY <1>1, <1>3, <1>4

LEMMA RestStep == EngineInv /\ RestTyped /\ [Next]_vars => RestTyped'
<1> SUFFICES ASSUME EngineInv, RestTyped, [Next]_vars PROVE RestTyped'
  OBVIOUS
<1>1. CASE UNCHANGED vars
  BY <1>1 DEF vars, RestTyped, FramesTyped
<1>2. CASE Next
  <2>1. DOMAIN events \subseteq DOMAIN events'
    BY <1>2, EventsGrow
  <2>2. ASSUME NEW p \in Processes, Step(p) PROVE RestTyped'
    <3>1. Top(p).event \in DOMAIN events /\ Top(p).event \in Ids
      <4>1. Busy(p)
        BY <2>2 DEF Step, Act, At, Receive, Leave, Guard, Evaluate, Match, ReserveSlot,
                    ActQuietly, ActionReturns, ActAndPublish, ActSchedule, FinishRule
      <4>. QED
        BY <4>1, TopFacts DEF FrameOK
    <3>2. UNCHANGED <<lost, active, edits, faults>>
      BY <2>2 DEF Step, Act, Receive, Leave, Guard, Evaluate, Match, ReserveSlot,
                  ActQuietly, ActionReturns, ActAndPublish, ActSchedule, FinishRule
    <3>3. /\ bounded' \subseteq bounded \cup {Top(p).event}
          /\ \/ listed' = listed
             \/ listed' = [listed EXCEPT ![Top(p).event] = Listed(Top(p).event)]
      BY <2>2 DEF Step, Act, Receive, Leave, Guard, Evaluate, Match, ReserveSlot,
                  ActQuietly, ActionReturns, ActAndPublish, ActSchedule, FinishRule
    <3>4. listed' \in [Ids -> Seq(Rules)]
      <4> DEFINE S == Seq(Rules)
                 new == Listed(Top(p).event)
      <4>1. listed \in [Ids -> S] /\ new \in S
        BY ListedTyped DEF RestTyped
      <4>2. listed' = listed \/ listed' = [listed EXCEPT ![Top(p).event] = new]
        BY <3>3
      <4> HIDE DEF S, new
      <4>3. listed' \in [Ids -> S]
        BY <4>1, <4>2
      <4>. QED
        BY <4>3 DEF S
    <3>5. FramesTyped'
      BY <2>2, StepTyped
    <3>. QED
      BY <2>1, <3>1, <3>2, <3>3, <3>4, <3>5 DEF RestTyped
  <2>3. ASSUME NEW t \in Threads, PublishRoot(t) PROVE RestTyped'
    <3>1. FramesTyped'
      BY <2>3, StartTyped DEF PublishRoot, Processes
    <3>. QED
      BY <2>1, <2>3, <3>1 DEF PublishRoot, RestTyped
  <2>4. ASSUME NEW p \in Processes, InternalError(p) PROVE RestTyped'
    <3>1. Busy(p) /\ FramesTyped'
      BY <2>4, PopTyped DEF InternalError
    <3>2. Top(p).event \in DOMAIN events
      BY <3>1, TopFacts DEF FrameOK
    <3>3. faults' \in 0..MaxFaults
      BY <2>4, EngineAssumption DEF InternalError, RestTyped, EngineAssumption
    <3>. QED
      BY <2>1, <2>4, <3>1, <3>2, <3>3 DEF InternalError, RestTyped
  <2>5. ASSUME NEW p \in Processes, Crash(p) PROVE RestTyped'
    <3>1. \A i \in DOMAIN stack[p] : stack[p][i].event \in DOMAIN events
      BY DEF EngineInv, StackOK, FrameOK
    <3>2. FramesTyped'
      <4>1. stack' = [stack EXCEPT ![p] = <<>>]
        BY <2>5 DEF Crash
      <4>2. \A i \in DOMAIN <<>> : FrameTyped(<<>>[i])
        BY StackEmpty
      <4>. QED
        BY <4>1, <4>2, OneTyped
    <3>3. faults' \in 0..MaxFaults
      BY <2>5, EngineAssumption DEF Crash, RestTyped, EngineAssumption
    <3>. QED
      BY <2>1, <2>5, <3>1, <3>2, <3>3 DEF Crash, RestTyped
  <2>6. ASSUME NEW w \in Workers, NEW j \in jobs, RunJob(w, j) PROVE RestTyped'
    <3>1. stack' = stack \/ \E e : stack' = [stack EXCEPT ![w] = <<Frame(e)>>]
      BY <2>6 DEF RunJob, TakeJob, JobPublishes, JobEnds
    <3>2. FramesTyped'
      <4>1. CASE stack' = stack
        BY <4>1 DEF RestTyped, FramesTyped
      <4>. QED
        BY <3>1, <4>1, StartTyped DEF Processes
    <3>. QED
      BY <2>1, <2>6, <3>2 DEF RunJob, TakeJob, JobPublishes, JobEnds, RestTyped
  <2>7. ASSUME NEW r \in Rules, SetActive(r) PROVE RestTyped'
    <3>1. edits' \in 0..MaxEdits
      BY <2>7, EngineAssumption DEF SetActive, RestTyped, EngineAssumption
    <3>2. active' \in [Rules -> BOOLEAN]
      BY <2>7 DEF SetActive, RestTyped
    <3>. QED
      BY <2>1, <2>7, <3>1, <3>2 DEF SetActive, RestTyped, FramesTyped
  <2>. QED
    BY <1>2, <2>2, <2>3, <2>4, <2>5, <2>6, <2>7 DEF Next
<1>. QED
  BY <1>1, <1>2

LEMMA RestInvariant == Spec => []RestTyped
BY InitTyped, EngineInvariant, RestStep, PTL DEF Spec

-----------------------------------------------------------------------------
(* The theorems *)

\* However events and scheduled jobs alternate, rules are evaluated only within
\* MAX_AUTOMATION_DEPTH links of the root.
THEOREM ChainsAreBounded == Spec => []ChainsBounded
<1>1. EngineInv => ChainsBounded
  <2> SUFFICES ASSUME EngineInv, NEW e \in DOMAIN events, events[e].hops > MaxDepth,
                      NEW r \in Rules
               PROVE  rows[e][r] = "none"
    BY DEF ChainsBounded
  <2>1. e \in Ids /\ ~(events[e].depth <= MaxDepth)
    BY Known, EngineAssumption DEF EngineInv, Chained, EngineAssumption
  <2>. QED
    BY <2>1 DEF EngineInv, RowsInBounds
<1>. QED
  BY <1>1, EngineInvariant, PTL

\* Within a process no rule runs twice in a correlation.
THEOREM RulesRunOnce == Spec => []SameRuleOnce
BY EngineInvariant, PTL DEF EngineInv

\* No more actions are granted than MAX_ACTIONS_PER_CORRELATION.
THEOREM SlotsAreBounded == Spec => [](slots \in 0..MaxActions)
<1>1. Init => slots \in 0..MaxActions
  BY EngineAssumption DEF Init, EngineAssumption
<1>2. slots \in 0..MaxActions /\ [Next]_vars => (slots \in 0..MaxActions)'
  <2> SUFFICES ASSUME slots \in 0..MaxActions, [Next]_vars
               PROVE  slots' \in 0..MaxActions
    OBVIOUS
  <2>1. slots' = slots \/ (SlotFree /\ slots' = slots + 1)
    <3>1. ASSUME NEW t \in Threads, PublishRoot(t) PROVE slots' = slots
      BY <3>1 DEF PublishRoot
    <3>2. ASSUME NEW p \in Processes, InternalError(p) \/ Crash(p) PROVE slots' = slots
      BY <3>2 DEF InternalError, Crash
    <3>3. ASSUME NEW p \in Processes, Act(p) PROVE slots' = slots
      BY <3>3 DEF Act, ActQuietly, ActionReturns, ActAndPublish, ActSchedule
    <3>4. ASSUME NEW p \in Processes,
                 Receive(p) \/ Leave(p) \/ Guard(p) \/ Evaluate(p) \/ Match(p)
                   \/ FinishRule(p)
          PROVE  slots' = slots
      BY <3>4 DEF Receive, Leave, Guard, Evaluate, Match, FinishRule
    <3>5. ASSUME NEW p \in Processes, ReserveSlot(p)
          PROVE  slots' = slots \/ (SlotFree /\ slots' = slots + 1)
      BY <3>5 DEF ReserveSlot
    <3>6. ASSUME NEW w \in Workers, NEW j \in jobs, RunJob(w, j)
          PROVE  slots' = slots \/ (SlotFree /\ slots' = slots + 1)
      BY <3>6 DEF RunJob, TakeJob, JobPublishes, JobEnds
    <3>7. ASSUME NEW r \in Rules, SetActive(r) PROVE slots' = slots
      BY <3>7 DEF SetActive
    <3>8. CASE UNCHANGED vars
      BY <3>8 DEF vars
    <3>. QED
      BY <3>1, <3>2, <3>3, <3>4, <3>5, <3>6, <3>7, <3>8 DEF Next, Step
  <2>. QED
    BY <2>1, EngineAssumption DEF EngineAssumption, SlotFree
<1>. QED
  BY <1>1, <1>2, PTL DEF Spec

\* Every variable has its type; a process is only in events it published, and
\* inside an action only below another event.
THEOREM TypeCorrect == Spec => []TypeOK
<1>1. EngineInv /\ RestTyped /\ slots \in 0..MaxActions => TypeOK
  <2> SUFFICES ASSUME EngineInv, RestTyped, slots \in 0..MaxActions PROVE TypeOK
    OBVIOUS
  <2>1. /\ Len(events) <= MaxEvents
        /\ \A e \in DOMAIN events : events[e].depth \in Nat /\ events[e].hops \in Nat
    BY DEF EngineInv, Chained
  <2>2. ASSUME NEW p \in Processes, NEW i \in DOMAIN stack[p]
        PROVE  /\ stack[p][i].event \in DOMAIN events
               /\ author[stack[p][i].event] = p
               /\ stack[p][i].at \in Places
               /\ i < Len(stack[p]) => stack[p][i].at = "inside"
               /\ stack[p][i].at \in {"condition", "action", "granted", "inside"}
                    => stack[p][i].left # <<>>
    <3>1. i # Len(stack[p]) => stack[p][i].at = "inside"
      BY DEF EngineInv, StackOK
    <3>2. i < Len(stack[p]) => i # Len(stack[p])
      <4>1. i \in Nat /\ Len(stack[p]) \in Nat
        BY StackLength DEF EngineInv, StackOK
      <4>. QED
        BY <4>1
    <3>. QED
      BY <3>1, <3>2 DEF EngineInv, StackOK, FrameOK, RestTyped, FramesTyped, FrameTyped, InRule
  <2>. QED
    BY <2>1, <2>2 DEF EngineInv, RowsInBounds, RestTyped, TypeOK
<1>. QED
  BY <1>1, EngineInvariant, RestInvariant, SlotsAreBounded, PTL
=============================================================================
