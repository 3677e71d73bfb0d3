------------------------------ MODULE ChatRules ------------------------------
(***************************************************************************)
(* The requests about conversations, as operators on what they read and    *)
(* write: visitors and the conversations they start, read receipts,        *)
(* priorities, mentions, branding, the sockets that carry notifications    *)
(* and presence, and the conversations between a workspace and the         *)
(* platform's support.                                                     *)
(*                                                                         *)
(* As in WorkspaceRules, an operation that may refuse returns the set of   *)
(* its results.                                                            *)
(***************************************************************************)
EXTENDS WorkspaceRules

LOCAL INSTANCE FiniteSetsExt
LOCAL INSTANCE TLC

CONSTANTS Visitor,        \* the reader and sender that is not a user
          RepliesCounted  \* 20, the replies a response time is averaged over

-----------------------------------------------------------------------------
(* Visitors and conversations. db.visitors and db.convs are sequences of   *)
(* rows; a row is known by its place in them.                              *)

\* InitVisitorView: who is known to the site's own login keeps their visitor,
\* everybody else is a new one.
InitVisitor(db, project, external) ==
  LET known == {v \in 1..Len(db.visitors) :
                  external # None /\ db.visitors[v] = [project |-> project, external_id |-> external]}
  IN  IF known # {} THEN [db |-> db, visitor |-> CHOOSE v \in known : TRUE]
      ELSE [db |-> [db EXCEPT !.visitors = Append(@, [project |-> project, external_id |-> external])],
            visitor |-> Len(db.visitors) + 1]

OpenConversations(db, v) ==
  {c \in 1..Len(db.convs) : db.convs[c].visitor = v /\ db.convs[c].status = "OPEN"}

\* StartCustomerChatView: get_or_create, which raises when there are several.
StartChat(db, v) ==
  LET open == OpenConversations(db, v)
      new == [visitor |-> v, status |-> "OPEN"]
  IN  IF open = {} THEN {[db |-> [db EXCEPT !.convs = Append(@, new)], conv |-> Len(db.convs) + 1]}
      ELSE IF Cardinality(open) > 1 THEN {}
      ELSE {[db |-> db, conv |-> CHOOSE c \in open : TRUE]}

CloseConversation(db, c) == [db EXCEPT !.convs[c].status = "CLOSED"]

\* _get_visitor_conversation: what the widget's requests may name.
WidgetConversations(db, v) == {c \in 1..Len(db.convs) : db.convs[c].visitor = v}

-----------------------------------------------------------------------------
(* Messages, as a sequence by created_at, and who has a receipt for each   *)

Posted(msgs, from, kind) == Append(msgs, [from |-> from, kind |-> kind, read |-> {}])
ReceiptsFor(msgs, reader, Includes(_)) ==
  [i \in 1..Len(msgs) |->
     IF Includes(msgs[i]) THEN [msgs[i] EXCEPT !.read = @ \cup {reader}] ELSE msgs[i]]

IsNote(m) == m.kind = "INTERNAL_NOTE"
MarkRead(msgs, u) == ReceiptsFor(msgs, u, LAMBDA m : ~IsNote(m))
WidgetMarkRead(msgs) == ReceiptsFor(msgs, Visitor, LAMBDA m : m.from # Visitor)
SupportMarkRead(msgs, u) == ReceiptsFor(msgs, u, LAMBDA m : TRUE)

\* MessageSerializer.get_seen: somebody of the other side has read it.
Seen(m) == IF m.from = Visitor THEN m.read \cap Users # {} ELSE Visitor \in m.read

UnreadCount(msgs, u) == Cardinality({i \in 1..Len(msgs) : u \notin msgs[i].read /\ ~IsNote(msgs[i])})
WidgetView(msgs) == SelectSeq(msgs, LAMBDA m : ~IsNote(m))
LastMessage(msgs) == SubSeq(WidgetView(msgs), Len(WidgetView(msgs)), Len(WidgetView(msgs)))

\* _response_time_label: minutes from the last message of the visitor before
\* each of the operator's last replies to it; times are places in the sequence.
ResponseGaps(msgs, u) ==
  LET replies == {i \in 1..Len(msgs) : msgs[i].from = u}
      latest == {i \in replies : Cardinality({j \in replies : j >= i}) <= RepliesCounted}
      Before(i) == {j \in 1..(i - 1) : msgs[j].from = Visitor}
  IN  {<<i, i - Max(Before(i))>> : i \in {r \in latest : Before(r) # {}}}
ResponseTime(msgs, u) ==
  {[total |-> MapThenSumSet(LAMBDA g : g[2], gaps), of |-> Cardinality(gaps)] :
     gaps \in {ResponseGaps(msgs, u)} \ {{}}}

\* build_widget_branding: nobody is named until somebody is assigned.
WidgetBranding(org, conv, presence) ==
  [consultant |-> IF conv.agent = None THEN {}
                  ELSE {[is |-> conv.agent, status |-> EffectiveStatus(presence[conv.agent])]},
   online |-> \E u \in Users : /\ conv.workspace \in Memberships(org, u)
                               /\ EffectiveStatus(presence[u]) = "ONLINE"]

-----------------------------------------------------------------------------
(* The operators' requests                                                 *)

\* The teammates of a conversation, and whom assign_to_agent accepts, capacity
\* apart; without an operator_id a request assigns its sender.
Teammates(org, conv) == {u \in Users : conv.workspace \in Memberships(org, u)}
AssignTarget(org, u, conv, operator) ==
  {x \in {IF operator = None THEN u ELSE operator} : operator = None \/ conv.workspace \in Memberships(org, x)}

\* internal_notes: mentions of members of the workspace only, each notified but
\* the author.
Mentioned(org, conv, ids) == {u \in ids : conv.workspace \in Memberships(org, u)}
NotifiedOfNote(org, u, conv, ids) == Mentioned(org, conv, ids) \ {u}

Priorities == {"LOW", "NORMAL", "HIGH", "URGENT"}
Prioritized(conv, priority, why) ==
  IF conv.priority = priority THEN conv
  ELSE [conv EXCEPT !.priority = priority,
                    !.changes = Append(@, [from |-> conv.priority, to |-> priority, why |-> why])]

SetPriority(conv, priority) == {Prioritized(conv, p, "MANUAL") : p \in {priority} \cap Priorities}
EscalatedPriority(conv) == Prioritized(conv, "URGENT", "ESCALATION")
\* route_to_queue: an explicit priority is never lowered to the queue's.
QueuedPriority(conv, default) ==
  IF conv.priority = "NORMAL" THEN Prioritized(conv, default, "QUEUE_DEFAULT") ELSE conv

-----------------------------------------------------------------------------
(* Message templates: of quick replies (collaboration/), of automation and  *)
(* of macros. A template is a sequence of texts and variables; the value    *)
(* of a variable is what it stands for, and hours are the summary of the   *)
(* business hours.                                                         *)

Name(x, otherwise) == IF x = None THEN otherwise ELSE x

About(conv) ==
  [customer_name |-> Name(conv.customer, "customer"),
   store_name |-> Name(conv.project, conv.workspace), conversation_id |-> conv.id]
Around(conv) ==
  [queue_name |-> Name(conv.queue, ""), team_name |-> Name(conv.team, ""),
   agent_name |-> Name(conv.assigned_to, "")]

QuickReplyContext(conv, agent) == About(conv) @@ [agent_name |-> agent]
AutomationContext(conv, hours) == About(conv) @@ Around(conv) @@ [business_hours_summary |-> hours]
\* The latest order, as a set of at most one; no caller supplies an article.
MacroContext(conv, order) ==
  About(conv) @@ Around(conv)
    @@ [x \in {"order_number" : o \in order} |-> CHOOSE n \in {o.number : o \in order} : TRUE]
    @@ [x \in {"product_name" : o \in order} |-> CHOOSE n \in {o.product : o \in order} : TRUE]

\* Variables that are not known stay as they were written.
Filled(template, context) ==
  [i \in DOMAIN template |->
     IF template[i].variable /\ template[i].is \in DOMAIN context
     THEN [variable |-> FALSE, is |-> context[template[i].is]] ELSE template[i]]

-----------------------------------------------------------------------------
(* Notifications and presence on sockets (notifications/)                  *)

\* The groups a notification socket joins when it connects.
SocketGroups(org, u) == {<<"notifications", u>>} \cup {<<"presence", w>> : w \in Memberships(org, u)}
NotifyGroup(recipient) == {<<"notifications", recipient>>}
PresenceGroups(org, u) == {<<"presence", w>> : w \in Memberships(org, u)}

\* PresenceView: the status is told to every workspace of the user.
PresenceSet(org, u, presence, status) ==
  LET set == [presence EXCEPT ![u] = Touched(@, status)]
  IN  [presence |-> set, told |-> [groups |-> PresenceGroups(org, u), status |-> EffectiveStatus(set[u])]]

-----------------------------------------------------------------------------
(* A workspace's conversations with platform support                       *)

SupportCreated(org, u) ==
  {[workspace |-> w, status |-> "WAITING_FOR_PLATFORM", ids |-> {}, assigned |-> {}] :
     w \in {x \in Workspaces : IsAdmin(org, u, x)}}

\* send_message looks for the id first; reply leaves it to the constraint.
SupportSent(conv, id) ==
  {[conv EXCEPT !.ids = @ \cup {id}, !.status = "WAITING_FOR_PLATFORM"] : x \in {id} \ conv.ids}
SupportReply(conv, id) ==
  {[conv EXCEPT !.ids = @ \cup {id}, !.status = "WAITING_FOR_WORKSPACE"] : x \in {id} \ conv.ids}

\* The socket stores a message and leaves the status alone.
SupportSocket(conv, id) == {[conv EXCEPT !.ids = @ \cup {id}] : x \in {id} \ conv.ids}

\* A row of the assignment history; the conversation's own column is not saved.
SupportAssign(conv, agent, ofPlatform) ==
  {[conv EXCEPT !.assigned = @ \cup {agent}] : x \in {TRUE} \cap {ofPlatform}}

\* Who may open the socket: an admin of this workspace, or support staff of its
\* platform.
SupportSocketOpens(org, u, conv, ofPlatform) == IsAdmin(org, u, conv.workspace) \/ ofPlatform

=============================================================================
