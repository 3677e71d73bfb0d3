---------------------------- MODULE ChatDelivery ----------------------------
(* Messages of one customer conversation: the calls that create them (widget  *)
(* socket, widget upload and rating, operator requests, internal notes,       *)
(* automation), the duplicate check by client_message_id in front of the      *)
(* unique constraint, the broadcasts on chat_<id> and chat_ops_<id>, the      *)
(* widget page with its optimistic bubbles, history request and reconnecting  *)
(* socket, and the dashboard's socket, which never reconnects.                *)
(*   src/backend/conversations/{views,consumers,models,services}.py           *)
(*   src/backend/automations/actions.py, src/packages/widget/src/main.ts      *)
(* Events without an effect on what is shown (typing, seen, branding) and the *)
(* bytes of a message are left out.                                           *)
EXTENDS Naturals, FiniteSets, Sequences, SequencesExt, Filtering

CONSTANTS
    Calls,          \* requests and socket frames, each made at most once
    Ids,            \* client_message_id values
    Workloads,      \* what the calls may be: their kinds and ids
    None,
    Blank,          \* the bubble the widget draws for an event without a message
    MaxLoads,       \* bound: page loads of the widget
    MaxFaults,      \* bound: lost sockets, failed history requests, dead processes
    MaxSelects      \* bound: times the operator opens the conversation

VARIABLES
    kind,       \* kind[c]: which handler serves call c
    id,         \* id[c]: its client_message_id
    pc,         \* pc[c]: how far the handler has come
    todo,       \* todo[c]: what the handler still does after the insert
    rows,       \* the Message table, as the calls that inserted, by created_at
    rating,     \* Conversation.rating, as the call that saved it
    widget,     \* the visitor's page
    desk,       \* the operator's socket
    missed,     \* history: messages this page cannot have learnt of
    loads, faults, selects

server == <<kind, id, pc, todo, rows, rating>>
chatVars == <<kind, id, pc, todo, rows, rating, widget, desk, missed, loads, faults, selects>>

Kinds == {"socket", "upload", "rating", "reply", "note", "automation", "operate"}
FromWidget == {"socket", "upload", "rating"}

\* What each handler does once its row is there (an "operate" call, a claim or
\* an assignment, has no row): events on the operator group, on the group both
\* sides join, and the column a rating saves last. A "reply" is any request of
\* an operator: a text, an upload, a product, a request for a rating.
NoteEffects == <<"ops">>
AutomationEffects == <<"ops", "chat">>
UploadEffects == <<"chat">>
ReplyEffects == <<"chat">>
RatingEffects == <<"chat", "rate">>
OperateEffects == <<"ops">>

Effects(k) ==
    CASE k = "note"       -> NoteEffects
      [] k = "operate"    -> OperateEffects
      [] k = "automation" -> AutomationEffects
      [] k = "rating"     -> RatingEffects
      [] k = "upload"     -> UploadEffects
      [] OTHER            -> ReplyEffects

Public(c) == "chat" \in ToSet(Effects(kind[c]))

\* Two requests carry one id when it is derived rather than drawn: the default
\* of request_rating, an automation's retry, two ratings in one millisecond.
ShareIds(k) == k \in {"reply", "automation", "rating"}

ASSUME ChatAssumption ==
    /\ None \notin Calls /\ Blank \notin Calls
    /\ MaxLoads \in Nat /\ MaxFaults \in Nat /\ MaxSelects \in Nat
    /\ \A w \in Workloads :
        /\ w \in [Calls -> [kind : Kinds, id : Ids]]
        /\ \A c, d \in Calls : c # d /\ w[c].id = w[d].id
                => w[c].kind = w[d].kind /\ ShareIds(w[c].kind)

Sockets == {"down", "connecting", "open", "joined"}
NoPage == [socket |-> "down", inbox |-> <<>>, history |-> "none", read |-> <<>>,
           shown |-> <<>>, ids |-> {}, waiting |-> {}]

ChatInit ==
    /\ \E w \in Workloads :
        kind = [c \in Calls |-> w[c].kind] /\ id = [c \in Calls |-> w[c].id]
    /\ pc = [c \in Calls |-> "idle"]
    /\ todo = [c \in Calls |-> <<>>]
    /\ rows = <<>> /\ rating = None
    /\ widget = NoPage
    /\ desk = [socket |-> "down", inbox |-> <<>>]
    /\ missed = {} /\ loads = 0 /\ faults = 0 /\ selects = 0

Stored == ToSet(rows)
IsOpen(s) == s \in {"open", "joined"}

-----------------------------------------------------------------------------
(* The widget page. *)

\* A plausible defect: renderIncoming without the look at renderedIds.
RenderedAgain(w, c) == [w EXCEPT !.ids = @ \cup {id[c]}, !.shown = Append(@, c)]

\* renderIncoming: the first arrival of a client_message_id is drawn, later
\* ones are dropped.
Rendered(w, c) ==
    IF id[c] \in w.ids THEN w
    ELSE [w EXCEPT !.ids = @ \cup {id[c]}, !.shown = Append(@, c)]

\* loadHistory draws the answer message by message.
AllRendered(w, messages) ==
    LET After[n \in 0..Len(messages)] ==
            IF n = 0 THEN w ELSE Rendered(After[n - 1], messages[n])
    IN  After[Len(messages)]

\* startChat on a fresh page: the socket and the history request go out together.
StartChat ==
    /\ loads < MaxLoads
    /\ loads' = loads + 1
    /\ widget' = [NoPage EXCEPT !.socket = "connecting", !.history = "asked"]
    /\ UNCHANGED <<kind, id, pc, todo, rows, rating, desk, missed, faults, selects>>

\* The consumer accepts before it joins the group.
Accept ==
    /\ widget.socket = "connecting"
    /\ widget' = [widget EXCEPT !.socket = "open"]
    /\ UNCHANGED <<server, desk, missed, loads, faults, selects>>

JoinGroup ==
    /\ widget.socket = "open"
    /\ widget' = [widget EXCEPT !.socket = "joined"]
    /\ UNCHANGED <<server, desk, missed, loads, faults, selects>>

\* onclose: what was under way is gone; the timer opens a new socket and asks
\* for no history.
LoseSocket ==
    /\ IsOpen(widget.socket) /\ faults < MaxFaults
    /\ faults' = faults + 1
    /\ missed' = missed \cup (ToSet(widget.inbox) \cap Calls)
    /\ widget' = [widget EXCEPT !.socket = "down", !.inbox = <<>>]
    /\ UNCHANGED <<server, desk, loads, selects>>

Reconnect ==
    /\ widget.socket = "down" /\ loads > 0
    /\ widget' = [widget EXCEPT !.socket = "connecting"]
    /\ UNCHANGED <<server, desk, missed, loads, faults, selects>>

\* A plausible defect: the list is paginated, and the widget reads one page.
FirstPage ==
    Filter(IF rows = <<>> THEN rows ELSE <<Head(rows)>>, {c \in Calls : kind[c] # "note"})

\* WidgetMessageListView: everything but the internal notes.
HistoryRows == Filter(rows, {c \in Calls : kind[c] # "note"})

ReadHistory ==
    /\ widget.history = "asked"
    /\ widget' = [widget EXCEPT !.history = "read", !.read = HistoryRows]
    /\ missed' = missed \ Stored
    /\ UNCHANGED <<server, desk, loads, faults, selects>>

ShowHistory ==
    /\ widget.history = "read"
    /\ widget' = [AllRendered(widget, widget.read)
                    EXCEPT !.history = "shown", !.read = <<>>]
    /\ UNCHANGED <<server, desk, missed, loads, faults, selects>>

\* loadHistory swallows a failed request.
LoseHistory ==
    /\ widget.history \in {"asked", "read"} /\ faults < MaxFaults
    /\ faults' = faults + 1
    /\ missed' = missed \cup Stored
    /\ widget' = [widget EXCEPT !.history = "none", !.read = <<>>]
    /\ UNCHANGED <<server, desk, loads, selects>>

\* onmessage: an event that is not recognised is drawn like a message; the
\* rate_limited answer has no id and becomes an empty bubble.
Hear ==
    /\ widget.socket = "joined" /\ widget.inbox # <<>>
    /\ LET e == Head(widget.inbox)
           w == [widget EXCEPT !.inbox = Tail(@)]
       IN  widget' = IF e = Blank THEN [w EXCEPT !.shown = Append(@, Blank)]
                                  ELSE Rendered(w, e)
    /\ UNCHANGED <<server, desk, missed, loads, faults, selects>>

\* uploadFile: the answer of the request is drawn by the page that asked.
ShowAnswer(c) ==
    /\ c \in widget.waiting /\ pc[c] = "done"
    /\ widget' = Rendered([widget EXCEPT !.waiting = @ \ {c}], c)
    /\ UNCHANGED <<server, desk, missed, loads, faults, selects>>
-----------------------------------------------------------------------------
(* The calls. *)

\* sendMessage draws at once and sends over the open socket; submitRating
\* suppresses its own echo; uploadFile waits for the answer.
Submit(c) ==
    /\ pc[c] = "idle"
    /\ kind[c] \in FromWidget => loads > 0
    /\ kind[c] = "socket" => IsOpen(widget.socket)
    /\ pc' = [pc EXCEPT ![c] = "sent"]
    /\ widget' = CASE kind[c] = "socket" -> Rendered(widget, c)
                   [] kind[c] = "rating" -> [widget EXCEPT !.ids = @ \cup {id[c]}]
                   [] kind[c] = "upload" -> [widget EXCEPT !.waiting = @ \cup {c}]
                   [] OTHER              -> widget
    /\ UNCHANGED <<kind, id, todo, rows, rating, desk, missed, loads, faults, selects>>

\* The rows are looked up before the insert, without a lock; a rating is also
\* refused when the conversation has one.
Taken(c) ==
    \/ \E d \in Stored : id[d] = id[c]
    \/ kind[c] = "rating" /\ rating # None

\* A frame waits for the connect handler of its socket, which joins the group.
Served(c) == kind[c] = "socket" => widget.socket # "open"

Check(c) ==
    /\ pc[c] = "sent" /\ Served(c)
    /\ IF kind[c] = "operate"
         THEN /\ pc' = [pc EXCEPT ![c] = "working"]
              /\ todo' = [todo EXCEPT ![c] = Effects("operate")]
         ELSE /\ pc' = [pc EXCEPT ![c] = IF Taken(c) THEN "refused" ELSE "clear"]
              /\ UNCHANGED todo
    /\ UNCHANGED <<kind, id, rows, rating, widget, desk, missed, loads, faults, selects>>

\* is_rate_limited, and the rate limit of automated messages: the count is
\* shared with calls outside this conversation's model, so either may answer.
Limit(c) ==
    /\ kind[c] \in {"socket", "automation"} /\ Served(c)
    /\ pc[c] = (IF kind[c] = "socket" THEN "sent" ELSE "clear")
    /\ pc' = [pc EXCEPT ![c] = "refused"]
    /\ widget' = IF kind[c] = "socket" /\ widget.socket = "joined"
                   THEN [widget EXCEPT !.inbox = Append(@, Blank)] ELSE widget
    /\ UNCHANGED <<kind, id, todo, rows, rating, desk, missed, loads, faults, selects>>

\* Message.objects.create against unique_together(conversation, client_message_id).
Unique(c) == \A d \in Stored : id[d] # id[c]

Insert(c) ==
    /\ pc[c] = "clear"
    /\ IF Unique(c)
         THEN /\ rows' = Append(rows, c)
              /\ pc' = [pc EXCEPT ![c] = "working"]
              /\ todo' = [todo EXCEPT ![c] = Effects(kind[c])]
         ELSE pc' = [pc EXCEPT ![c] = "refused"] /\ UNCHANGED <<rows, todo>>
    /\ UNCHANGED <<kind, id, rating, widget, desk, missed, loads, faults, selects>>

\* The event the operator group gets for a call, by the handler name Channels
\* looks up (dots become underscores).
OpsEvent(k) ==
    CASE k = "note"       -> "conversation_internal_note_created"
      [] k = "automation" -> "conversation_automation_message"
      [] OTHER            -> "conversation_assigned"

\* A plausible defect: a busy socket is passed over by the broadcast.
DeliveredToIdle(s, e) ==
    IF s.socket = "joined" /\ s.inbox = <<>> THEN [s EXCEPT !.inbox = <<e>>] ELSE s

\* group_send reaches the sockets that have joined.
Delivered(s, e) == IF s.socket = "joined" THEN [s EXCEPT !.inbox = Append(@, e)] ELSE s

\* One more effect of a stored call: an event on a group, or the rating column.
Effect(c) ==
    /\ pc[c] = "working"
    /\ LET e == Head(todo[c]) IN
         /\ widget' = IF e = "chat" THEN Delivered(widget, c) ELSE widget
         /\ desk' = CASE e = "chat" -> Delivered(desk, "chat_message")
                      [] e = "ops"  -> Delivered(desk, OpsEvent(kind[c]))
                      [] OTHER      -> desk
         /\ missed' = IF e = "chat" /\ widget.socket # "joined" THEN missed \cup {c} ELSE missed
         /\ rating' = IF e = "rate" THEN c ELSE rating
    /\ todo' = [todo EXCEPT ![c] = Tail(@)]
    /\ pc' = [pc EXCEPT ![c] = IF Len(todo[c]) = 1 THEN "done" ELSE "working"]
    /\ UNCHANGED <<kind, id, rows, loads, faults, selects>>

\* The process serving a call dies, or the call never reached it.
Die(c) ==
    /\ pc[c] \in {"sent", "clear", "working"} /\ faults < MaxFaults
    /\ faults' = faults + 1
    /\ pc' = [pc EXCEPT ![c] = "died"]
    /\ UNCHANGED <<kind, id, todo, rows, rating, widget, desk, missed, loads, selects>>
-----------------------------------------------------------------------------
(* The dashboard's socket. *)

\* handleSelectConv closes the former socket and opens one; DashboardChatConsumer
\* accepts it and joins both groups.
Select ==
    /\ selects < MaxSelects
    /\ selects' = selects + 1
    /\ desk' = [socket |-> "connecting", inbox |-> <<>>]
    /\ UNCHANGED <<server, widget, missed, loads, faults>>

JoinGroups ==
    /\ desk.socket = "connecting"
    /\ desk' = [desk EXCEPT !.socket = "joined"]
    /\ UNCHANGED <<server, widget, missed, loads, faults, selects>>

\* The methods of BaseChatConsumer and OpsEventsMixin.
Handlers ==
    {"chat_message", "typing_indicator", "message_seen", "branding_updated",
     "conversation_queued", "conversation_assigned", "conversation_unassigned",
     "conversation_transferred", "conversation_escalated",
     "conversation_priority_updated", "conversation_sla_updated",
     "conversation_sla_approaching", "conversation_sla_breached",
     "internal_note_created"}

\* An event without a handler raises in the consumer, and the socket is closed.
\* api.ts only logs that: the next selection opens another.
DeskHear ==
    /\ desk.socket = "joined" /\ desk.inbox # <<>>
    /\ desk' = IF Head(desk.inbox) \in Handlers
                 THEN [desk EXCEPT !.inbox = Tail(@)]
                 ELSE [socket |-> "down", inbox |-> <<>>]
    /\ UNCHANGED <<server, widget, missed, loads, faults, selects>>

Page == Accept \/ JoinGroup \/ Reconnect \/ ReadHistory \/ ShowHistory \/ Hear
Handle(c) == Check(c) \/ Limit(c) \/ Insert(c) \/ Effect(c) \/ ShowAnswer(c)
Faults == LoseSocket \/ LoseHistory \/ \E c \in Calls : Die(c)

ChatNext ==
    \/ StartChat \/ Page \/ Faults
    \/ Select \/ JoinGroups \/ DeskHear
    \/ \E c \in Calls : Submit(c) \/ Handle(c)

\* A handler that runs goes on, and so does the page's event loop. Nobody has to
\* open a page, send, or lose anything.
Fairness ==
    /\ \A c \in Calls : WF_chatVars(Handle(c))
    /\ WF_chatVars(ReadHistory) /\ WF_chatVars(ShowHistory) /\ WF_chatVars(Hear)
    /\ WF_chatVars(Accept \/ JoinGroup \/ Reconnect)

ChatSpec == ChatInit /\ [][ChatNext]_chatVars /\ Fairness
-----------------------------------------------------------------------------
Pages == [socket : Sockets, history : {"none", "asked", "read", "shown"},
          inbox : Seq(Calls \cup {Blank}), read : Seq(Calls),
          shown : Seq(Calls \cup {Blank}), ids : SUBSET Ids, waiting : SUBSET Calls]
Desks == [socket : Sockets, inbox : Seq({"chat_message"} \cup {OpsEvent(k) : k \in Kinds})]

ChatTypes ==
    /\ kind \in [Calls -> Kinds] /\ id \in [Calls -> Ids]
    /\ pc \in [Calls -> {"idle", "sent", "clear", "working", "done", "refused", "died"}]
    /\ todo \in [Calls -> Seq({"ops", "chat", "rate"})]
    /\ rows \in Seq(Calls) /\ rating \in Calls \cup {None}
    /\ widget \in Pages /\ desk \in Desks /\ missed \subseteq Calls
    /\ loads \in 0..MaxLoads /\ faults \in 0..MaxFaults /\ selects \in 0..MaxSelects

\* No client_message_id is drawn twice by a page, whatever mix of optimistic
\* bubble, upload answer, broadcast and history brings it (renderedIds).
ShownOnce ==
    \A i, j \in DOMAIN widget.shown :
        /\ i # j /\ widget.shown[i] # Blank /\ widget.shown[j] # Blank
        => id[widget.shown[i]] # id[widget.shown[j]]

\* Internal notes and operator events never reach the visitor's browser.
OperatorOnly ==
    \A c \in ToSet(widget.shown) \cup ToSet(widget.inbox) \cup ToSet(widget.read) :
        c # Blank => kind[c] \notin {"note", "operate"}

\* One row per client_message_id, although every handler checks without a lock.
OneRowPerId == \A i, j \in DOMAIN rows : i # j => id[rows[i]] # id[rows[j]]

\* A conversation's rating is told by a stored rating message.
RatingTold == rating # None => rating \in Stored /\ kind[rating] = "rating"

\* What the two sides and the table may disagree on, put together: no page draws
\* a message twice or one meant for operators, the table has one row per id, and
\* a saved rating has its message. (ChatTypes is checked with them.)
ChatConsistent == ChatTypes /\ ShownOnce /\ OperatorOnly /\ OneRowPerId /\ RatingTold

Announced(c) == Public(c) /\ c \in Stored /\ "chat" \notin ToSet(todo[c])

\* A page that has shown its history lacks an announced message only if the
\* broadcast found its socket out of the group, or was lost with the socket, and
\* the message came after the history was read. (WidgetMessageListView, connect
\* and onclose: the gaps of the widget's delivery, and no others.)
LacksOnlyMissed ==
    widget.history = "shown" =>
        \A c \in Calls :
            /\ Announced(c)
            /\ c \notin ToSet(widget.inbox) /\ id[c] \notin widget.ids
            => c \in missed

\* Every public message that was broadcast is drawn by an open page in the end,
\* or belongs to what that page missed.
ShownOrMissed ==
    \A c \in Calls :
        pc[c] = "done" /\ Public(c) /\ loads > 0
            ~> id[c] \in widget.ids \/ c \in missed

\* docs/runbooks/TEAM_OPERATIONS_LOCAL_RUN.md:43 lists the events of the
\* operators' group, and consumers.py asks for a handler for each of them.
EveryEventHandled == ToSet(desk.inbox) \subseteq Handlers
=============================================================================
