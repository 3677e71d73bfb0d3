------------------------- MODULE MCAutomationEngine -------------------------
(***************************************************************************)
(* Three rules that feed on each other. A conversation returned to its     *)
(* queue publishes that it is queued and, as it is assigned at once, that  *)
(* it is assigned: the first rule schedules another return, unless it has  *)
(* stop_processing hide the second one, which returns the conversation     *)
(* right away, and the third answers the assignment with one more job.     *)
(* The assumptions at the end check the rules of conditions against what   *)
(* they promise, over every tree of two levels of a few leaves.            *)
(***************************************************************************)
EXTENDS AutomationEngine, ConditionRules

CONSTANTS t1, w1, w2, r1, r2, r3

MCThreads == {t1}
MCWorkers == {w1, w2}
MCRules == {r1, r2, r3}
MCPriority == <<r1, r2, r3>>
MCTrigger == r1 :> "queued" @@ r2 :> "queued" @@ r3 :> "assigned"
MCActions == r1 :> <<"schedule">> @@ r2 :> <<"return">> @@ r3 :> <<"schedule">>
MCStop == r1 :> TRUE @@ r2 :> FALSE @@ r3 :> FALSE
MCPublishes == "return" :> <<"queued", "assigned">> @@ "schedule" :> <<>>
MCSchedules == "return" :> Nothing @@ "schedule" :> "return"

-----------------------------------------------------------------------------
MCFolded == [x \in {"a", "A", " ", "none", "breached"} |-> IF x = "A" THEN "a" ELSE x]
Texts == UNION {[1..n -> {"a", "A", " "}] : n \in 0..4}

Chat(assignee, messages, sla, tags) ==
  [type |-> Text(<<>>), status |-> Text(<<"a">>), priority |-> Text(<<"A">>),
   created_at |-> Moment(1), rating |-> Null, queue |-> Null, team |-> Null,
   assignee |-> assignee, sla |-> sla, messages |-> messages, tags |-> tags,
   orders |-> <<2, 3>>, profile |-> Null, eligible |-> {},
   agent |-> [online |-> TRUE, full |-> FALSE, member |-> TRUE]]
Asked == <<[sender |-> "USER", at |-> 1, note |-> TRUE],
           [sender |-> "VISITOR", at |-> 2, note |-> FALSE]>>
Late == [breached |-> {"next"}, notified |-> {"first"}]
Chats == {NoConversation, Chat(Null, <<>>, Null, {}),
          Chat(Text(<<"a">>), Asked, Late, {Text(<<"a">>)})}
Contexts == {[conv |-> c, payload |-> p, open |-> TRUE, now |-> 5] :
               c \in Chats,
               p \in {[x \in {} |-> Null], "message.content" :> Text(<<" ", "A">>)}}

Leaf(field, op, value) == [field |-> field, operator |-> op, value |-> value]
Leaves == {Leaf("conversation.assigned", "is_true", Null),
           Leaf("conversation.assignee_id", "not_equals", Text(<<"A">>)),
           Leaf("conversation.waiting_minutes", "greater_than", Number(2)),
           Leaf("conversation.sla_state", "in", Many({Text(<<"breached">>)})),
           Leaf("customer.tags", "contains", Text(<<"a">>)),
           Leaf("message.content", "equals", Text(<<"a">>)), NoCondition}
Grouped(trees) ==
  LET lists == UNION {[1..n -> trees] : n \in 0..2}
  IN trees \cup [all : lists] \cup [any : lists] \cup [not : trees]

\* A dry run says of a condition what the engine will say.
ASSUME SimulationMirrorsEngine ==
  \A ctx \in Contexts : \A tree \in Grouped(Leaves) :
    \A outer \in Grouped({tree}) : Trace(outer, ctx).result = Holds(outer, ctx)

\* A negative operator is not the denial of its positive one: of a value that
\* is not there both are false, of one that is there exactly one is true.
Opposites == {<<"equals", "not_equals">>, <<"contains", "not_contains">>}
ASSUME NegativesNeedAValue ==
  \A ctx \in Contexts : \A pair \in Opposites :
    \A field \in FieldsOfType("string") :
      LET Says(op) == Holds(Leaf(field, op, Text(<<"A">>)), ctx)
      IN IF Absent(Resolved(ctx, field)) THEN ~Says(pair[1]) /\ ~Says(pair[2])
         ELSE Says(pair[1]) # Says(pair[2])

\* Keywords are compared by their words: white space around and between
\* them, case and letter variants do not matter, and once is enough.
ASSUME NormalizedIsStable ==
  \A text \in Texts :
    LET n == Normalized(text)
    IN /\ Normalized(n) = n
       /\ Normalized(<<" ">> \o text \o <<" ">>) = n
       /\ \A i \in DOMAIN n : n[i] = " " => 1 < i /\ i < Len(n) /\ n[i + 1] # " "
       /\ SelectSeq(n, LAMBDA x : x # " ")
            = [i \in 1..Len(n) - Cardinality({j \in DOMAIN n : n[j] = " "}) |-> "a"]

\* The validator bounds what evaluation recurses into.
RECURSIVE Depth(_)
Depth(tree) == IF Children(tree) = <<>> THEN 0
  ELSE 1 + (CHOOSE d \in {Depth(Children(tree)[i]) : i \in DOMAIN Children(tree)} :
              \A i \in DOMAIN Children(tree) : Depth(Children(tree)[i]) <= d)
ASSUME ValidationBoundsDepth ==
  \A tree \in Grouped(Leaves) : \A outer \in Grouped({tree}) :
    \A d \in 0..2 : ValidConditions(outer, d, 3)
      <=> Depth(outer) <= d /\ Nodes(outer) <= 3
=============================================================================
