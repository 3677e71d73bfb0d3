--------------------------- MODULE ConditionRules ---------------------------
(***************************************************************************)
(* The conditions and actions of an automation rule: what a rule may say   *)
(* (schema.py), whether its condition holds of an event and a conversation *)
(* (conditions.py), what a dry run reports (simulation.py) and what a      *)
(* message template becomes (templating.py).                               *)
(*                                                                         *)
(* A value is a record of its kind and content. A text is a sequence of    *)
(* letters; Folded maps a letter to the one it is compared as. A condition *)
(* tree is [all |-> <<...>>], [any |-> <<...>>], [not |-> tree], NoCondition *)
(* or a leaf [field, operator, value].                                     *)
(***************************************************************************)
EXTENDS Integers, Sequences, FiniteSets, SequencesExt

CONSTANTS
  Space,       \* white space, of any sort
  Folded       \* Folded[letter]: lower case, and Persian yeh and kaf

Missing == [kind |-> "missing"]
Null == [kind |-> "null"]
Text(s) == [kind |-> "text", v |-> s]
Number(n) == [kind |-> "number", v |-> n]
Flag(b) == [kind |-> "flag", v |-> b]
Many(values) == [kind |-> "list", v |-> values]
Moment(t) == [kind |-> "moment", v |-> t]
NoCondition == [empty |-> TRUE]
NoConversation == [gone |-> TRUE]

-----------------------------------------------------------------------------
(* schema.py: fields, operators, limits                                    *)

EqualityOps == {"equals", "not_equals", "in", "not_in", "exists", "not_exists"}
StringOps == EqualityOps \cup {"contains", "not_contains", "starts_with", "ends_with"}
NumberOps == EqualityOps \cup {"greater_than", "greater_than_or_equal",
                               "less_than", "less_than_or_equal"}
DatetimeOps == {"before", "after", "exists", "not_exists"}
BooleanOps == {"is_true", "is_false", "exists", "not_exists"}
ListOps == {"contains", "not_contains", "in", "not_in", "exists", "not_exists"}
ValuelessOps == {"exists", "not_exists", "is_true", "is_false"}

FieldsOfType(type) ==
  CASE type = "string" ->
         {"conversation.type", "conversation.status", "conversation.priority",
          "conversation.queue_id", "conversation.team_id",
          "conversation.assignee_id", "conversation.sla_state",
          "customer.location", "message.type", "message.content",
          "message.sender_type", "message.attachment_type"}
    [] type = "number" ->
         {"conversation.waiting_minutes", "conversation.message_count",
          "conversation.customer_message_count",
          "conversation.operator_message_count", "conversation.rating",
          "customer.score", "customer.order_count", "customer.total_spending"}
    [] type = "datetime" -> {"conversation.created_at"}
    [] type = "boolean" ->
         {"conversation.assigned", "operational.business_hours",
          "operational.agent_online", "operational.agent_at_capacity",
          "operational.queue_has_capacity", "operational.assignee_is_team_member"}
    [] type = "list" -> {"customer.tags"}
    [] type = "metadata" -> {"customer.metadata"}

OpsOfType(type) ==
  CASE type = "string" -> StringOps [] type = "number" -> NumberOps
    [] type = "datetime" -> DatetimeOps [] type = "boolean" -> BooleanOps
    [] type = "list" -> ListOps
    [] type = "metadata" -> StringOps \cup NumberOps \cup BooleanOps

Types == {"string", "number", "datetime", "boolean", "list", "metadata"}
ConditionFields == UNION {FieldsOfType(type) : type \in Types}

IsGroup(tree, key) == DOMAIN tree = {key}
Children(tree) ==
  IF IsGroup(tree, "all") THEN tree.all
  ELSE IF IsGroup(tree, "any") THEN tree.any
  ELSE IF IsGroup(tree, "not") THEN <<tree.not>> ELSE <<>>
IsLeaf(tree) == {"field", "operator"} \subseteq DOMAIN tree

ValidLeaf(leaf) ==
  /\ IsLeaf(leaf)
  /\ \E type \in Types : leaf.field \in FieldsOfType(type)
                         /\ leaf.operator \in OpsOfType(type)
  /\ leaf.operator \in ValuelessOps \/ "value" \in DOMAIN leaf
  /\ leaf.field = "customer.metadata" => "path" \in DOMAIN leaf
  /\ leaf.operator \in {"in", "not_in"} => leaf.value.kind = "list"

RECURSIVE Nodes(_), ValidAt(_, _, _)
\* validate_conditions() counts the members of groups, not the root.
Nodes(tree) == FoldSeq(LAMBDA child, n : n + 1 + Nodes(child), 0, Children(tree))

ValidAt(tree, depth, maxDepth) ==
  /\ depth <= maxDepth
  /\ \/ tree = NoCondition
     \/ ValidLeaf(tree)
     \/ /\ \E key \in {"all", "any", "not"} : IsGroup(tree, key)
        /\ \A i \in DOMAIN Children(tree) :
             ValidAt(Children(tree)[i], depth + 1, maxDepth)
ValidConditions(tree, maxDepth, maxTotal) ==
  ValidAt(tree, 0, maxDepth) /\ Nodes(tree) <= maxTotal

-----------------------------------------------------------------------------
(* conditions.py: what a field is worth                                    *)

\* normalize_keyword_text(): letters folded, white space joined and trimmed.
Normalized(text) ==
  LET folded == [i \in DOMAIN text |-> Folded[text[i]]]
      Kept(i) == folded[i] # Space
        \/ /\ \E j \in 1..(i - 1) : folded[j] # Space
           /\ i < Len(folded) /\ folded[i + 1] # Space
  IN LET keep == SetToSortSeq({i \in DOMAIN text : Kept(i)}, <)
     IN [n \in DOMAIN keep |-> folded[keep[n]]]

OptionalText(value) == IF value = Null THEN Missing ELSE value

\* A breach outranks a warning, of whichever of the three clocks.
SlaState(sla) ==
  Text(<<IF sla = Null THEN "none"
       ELSE IF sla.breached # {} THEN "breached"
       ELSE IF sla.notified # {} THEN "approaching" ELSE "on_track">>)

\* Only while the visitor had the last word.
WaitingMinutes(messages, now) ==
  IF messages = <<>> \/ Last(messages).sender # "VISITOR" THEN Missing
  ELSE Number(now - Last(messages).at)

MessagesBy(messages, sender) ==
  {i \in DOMAIN messages : messages[i].sender = sender}
InternalNotes(messages) == {i \in DOMAIN messages : messages[i].note}

ConversationField(c, field, now) ==
  CASE field = "conversation.type" -> c.type
    [] field = "conversation.status" -> c.status
    [] field = "conversation.priority" -> c.priority
    [] field = "conversation.created_at" -> c.created_at
    [] field = "conversation.rating" -> c.rating
    [] field = "conversation.queue_id" -> OptionalText(c.queue)
    [] field = "conversation.team_id" -> OptionalText(c.team)
    [] field = "conversation.assignee_id" -> OptionalText(c.assignee)
    [] field = "conversation.sla_state" -> SlaState(c.sla)
    [] field = "conversation.waiting_minutes" -> WaitingMinutes(c.messages, now)
    [] field = "conversation.message_count" -> Number(Len(c.messages))
    [] field = "conversation.customer_message_count" ->
         Number(Cardinality(MessagesBy(c.messages, "VISITOR")))
    [] field = "conversation.operator_message_count" ->
         Number(Cardinality(MessagesBy(c.messages, "USER") \ InternalNotes(c.messages)))
    [] field = "customer.tags" -> Many(c.tags)
    [] field = "customer.order_count" -> Number(Len(c.orders))
    [] field = "customer.total_spending" -> Number(FoldSeq(+, 0, c.orders))

\* What an agent's presence and a queue's agents say of an assignment.
OperationalField(c, field) ==
  CASE field = "operational.agent_at_capacity" ->
         IF c.assignee = Null THEN Missing ELSE Flag(c.agent.full)
    [] field = "operational.queue_has_capacity" ->
         IF c.queue = Null THEN Missing ELSE Flag(c.eligible # {})
    [] field = "operational.assignee_is_team_member" ->
         IF c.team = Null \/ c.assignee = Null THEN Missing
         ELSE Flag(c.agent.member)

ProfileField(profile, field) ==
  IF profile = Null THEN Missing
  ELSE OptionalText(IF field = "customer.score" THEN profile.score
                    ELSE profile.location)

\* resolve_field(): the conversation as fetched once for the event, the
\* payload of the event, and the calendar.
Resolved(ctx, field) ==
  CASE field = "conversation.assigned" ->
         Flag(ctx.conv # NoConversation /\ ctx.conv.assignee # Null)
    [] field = "operational.agent_online" ->
         Flag(ctx.conv # NoConversation /\ ctx.conv.assignee # Null
                /\ ctx.conv.agent.online)
    [] field = "operational.business_hours" -> Flag(ctx.open)
    [] field \in {"message.type", "message.content", "message.sender_type",
                  "message.attachment_type"} ->
         IF field \in DOMAIN ctx.payload THEN ctx.payload[field] ELSE Missing
    [] ctx.conv = NoConversation -> Missing
    [] field \in {"customer.score", "customer.location"} ->
         ProfileField(ctx.conv.profile, field)
    [] field = "customer.metadata" ->
         IF ctx.conv.profile = Null THEN Missing ELSE ctx.conv.profile.metadata
    [] field \in {"operational.agent_at_capacity", "operational.queue_has_capacity",
                  "operational.assignee_is_team_member"} ->
         OperationalField(ctx.conv, field)
    [] OTHER -> ConversationField(ctx.conv, field, ctx.now)

-----------------------------------------------------------------------------
(* conditions.py: what an operator says                                    *)

Absent(actual) == actual \in {Missing, Null}
EmptyList(actual) == actual.kind = "list" /\ actual.v = {}
Truthy(actual) ==
  CASE actual.kind = "flag" -> actual.v
    [] actual.kind = "number" -> actual.v # 0
    [] actual.kind = "list" -> actual.v # {}
    [] actual.kind = "text" -> actual.v # <<>>
    [] OTHER -> FALSE

NormalizedFields == {"message.content", "customer.location"}
Comparable(field, value) ==
  IF field \in NormalizedFields /\ value.kind = "text"
  THEN Text(Normalized(value.v)) ELSE value
Equal(field, actual, expected) ==
  Comparable(field, actual) = Comparable(field, expected)

OccursIn(part, text) ==
  \E i \in 0..(Len(text) - Len(part)) : SubSeq(text, i + 1, i + Len(part)) = part
Includes(actual, expected) ==
  IF actual.kind = "list" THEN expected \in actual.v
  ELSE OccursIn(Normalized(expected.v), Normalized(actual.v))

Compared(op, a, e) ==
  /\ a.kind = e.kind
  /\ CASE op \in {"greater_than", "after"} -> a.v > e.v
       [] op = "greater_than_or_equal" -> a.v >= e.v
       [] op \in {"less_than", "before"} -> a.v < e.v
       [] op = "less_than_or_equal" -> a.v <= e.v

\* Operators that say something of a value that is there.
HoldsOf(op, field, a, e) ==
  CASE op = "equals" -> Equal(field, a, e)
    [] op = "not_equals" -> ~Equal(field, a, e)
    [] op = "in" -> a \in e.v
    [] op = "not_in" -> a \notin e.v
    [] op = "contains" -> Includes(a, e)
    [] op = "not_contains" -> ~Includes(a, e)
    [] op = "starts_with" -> IsPrefix(Normalized(e.v), Normalized(a.v))
    [] op = "ends_with" -> IsSuffix(Normalized(e.v), Normalized(a.v))
    [] OTHER -> Compared(op, a, e)

\* _apply_operator(): a value that is missing satisfies not_exists, and no
\* other operator, negative ones included.
Applied(op, field, a, e) ==
  CASE op = "exists" -> ~Absent(a) /\ ~EmptyList(a)
    [] op = "not_exists" -> Absent(a) \/ EmptyList(a)
    [] op = "is_true" -> a # Missing /\ Truthy(a)
    [] op = "is_false" -> a # Missing /\ ~Truthy(a)
    [] OTHER -> ~Absent(a) /\ HoldsOf(op, field, a, e)

Expected(leaf) == IF "value" \in DOMAIN leaf THEN leaf.value ELSE Null
LeafHolds(leaf, ctx) ==
  /\ leaf.field \in ConditionFields
  /\ Applied(leaf.operator, leaf.field, Resolved(ctx, leaf.field), Expected(leaf))

RECURSIVE Holds(_, _), Trace(_, _)
\* evaluate_condition()
Holds(tree, ctx) ==
  IF tree = NoCondition THEN TRUE
  ELSE IF IsGroup(tree, "all") THEN \A i \in DOMAIN tree.all : Holds(tree.all[i], ctx)
  ELSE IF IsGroup(tree, "any") THEN \E i \in DOMAIN tree.any : Holds(tree.any[i], ctx)
  ELSE IF IsGroup(tree, "not") THEN ~Holds(tree.not, ctx)
  ELSE LeafHolds(tree, ctx)

-----------------------------------------------------------------------------
(* simulation.py, templating.py and the actions of schema.py               *)

\* _trace_condition(): the result of a node, and the traces below it.
Trace(tree, ctx) ==
  LET below == [i \in DOMAIN Children(tree) |-> Trace(Children(tree)[i], ctx)]
      Results == {below[i].result : i \in DOMAIN below}
  IN [result |->
        IF tree = NoCondition THEN TRUE
        ELSE IF IsGroup(tree, "all") THEN FALSE \notin Results
        ELSE IF IsGroup(tree, "any") THEN TRUE \in Results
        ELSE IF IsGroup(tree, "not") THEN FALSE \in Results
        ELSE LeafHolds(tree, ctx),
      children |-> below]

\* simulate(): the actions that would run, none of which does.
Simulated(tree, actions, ctx) ==
  [matched |-> Trace(tree, ctx).result,
   would_run |-> IF Trace(tree, ctx).result THEN actions ELSE <<>>]

NeverScheduled == {"SCHEDULE_ACTION", "CANCEL_SCHEDULED_ACTION"}
ActionTypes ==
  {"ASSIGN_TO_AGENT", "ASSIGN_TO_TEAM", "ASSIGN_USING_QUEUE_STRATEGY", "UNASSIGN",
   "RETURN_TO_QUEUE", "TRANSFER_TO_TEAM", "ESCALATE", "SET_PRIORITY", "SET_STATUS",
   "ADD_TAG", "REMOVE_TAG", "SEND_CUSTOMER_MESSAGE", "CREATE_INTERNAL_NOTE",
   "SEND_NOTIFICATION", "NOTIFY_SUPERVISOR", "REQUEST_RATING",
   "CLOSE_CONVERSATION", "REOPEN_CONVERSATION"} \cup NeverScheduled

\* _validate_one_action(): a known type, its required parameters and no
\* others, references of this workspace, and no schedule within a schedule.
ValidAction(action, spec, known) ==
  LET Proper(a, types) ==
        /\ a.type \in types
        /\ spec[a.type].required \subseteq DOMAIN a.params
        /\ DOMAIN a.params \subseteq spec[a.type].required \cup spec[a.type].optional
        /\ \A name \in DOMAIN a.params \cap spec[a.type].refs : a.params[name] \in known
  IN /\ Proper(action, ActionTypes)
     /\ action.type = "SCHEDULE_ACTION" =>
          Proper(action.params.action, ActionTypes \ NeverScheduled)
ValidActions(actions, spec, known, maxActions) ==
  /\ Len(actions) <= maxActions
  /\ \A i \in DOMAIN actions : ValidAction(actions[i], spec, known)

\* resolve_template(): known variables are replaced once, others are kept.
ResolvedTemplate(parts, context) ==
  [i \in DOMAIN parts |->
     IF parts[i] \in DOMAIN context THEN context[parts[i]] ELSE parts[i]]
=============================================================================
