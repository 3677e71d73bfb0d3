--------------------------- MODULE MCChatDelivery ---------------------------
(* A small instance of ChatDelivery: two calls against one conversation, of   *)
(* any two kinds, with one id each or, where that can be, one for both.       *)
EXTENDS ChatDelivery
CONSTANTS c1, c2, m1, m2

Ordered == <<"socket", "upload", "rating", "reply", "note", "automation", "operate">>

TwoCalls ==
    LET W(i, j, m) == (c1 :> [kind |-> Ordered[i], id |-> m1])
                      @@ (c2 :> [kind |-> Ordered[j], id |-> m])
    IN  {W(i, j, m2) : <<i, j>> \in {p \in (1..7) \X (1..7) : p[1] <= p[2]}}
        \cup {W(i, i, m1) : i \in {n \in 1..7 : ShareIds(Ordered[n])}}

-----------------------------------------------------------------------------
(* The requests of ChatRules, checked over every short sequence of them.   *)

Rules == INSTANCE ChatRules
           WITH Users <- {"u", "v"}, Workspaces <- {"w1", "w2"}, Teams <- {}, None <- "none",
                Visitor <- "visitor", RepliesCounted <- 2

Sequences(steps, n) == UNION {[1..k -> steps] : k \in 0..n}

\* What a sequence of requests does to a conversation's messages.
Chat(ops) ==
  LET After[n \in 0..Len(ops)] ==
        IF n = 0 THEN <<>>
        ELSE LET op == ops[n]
             IN  IF op[1] = "post" THEN Rules!Posted(After[n - 1], op[2], op[3])
                 ELSE IF op[2] = "visitor" THEN Rules!WidgetMarkRead(After[n - 1])
                 ELSE Rules!MarkRead(After[n - 1], op[2])
  IN  After[Len(ops)]
ChatOps ==
  {<<"post", "visitor", "TEXT">>, <<"post", "u", "TEXT">>, <<"post", "u", "INTERNAL_NOTE">>,
   <<"read", "u">>, <<"read", "v">>, <<"read", "visitor">>}
Posts(ops) == {n \in DOMAIN ops : ops[n][1] = "post"}
Place(ops, n) == Cardinality({k \in Posts(ops) : k <= n})
ReadAfter(ops, n, readers) == \E k \in n..Len(ops) : ops[k][1] = "read" /\ ops[k][2] \in readers

\* Whatever the two sides post and read: an operator's unread count is what was
\* posted, notes apart, since they last marked the conversation read; a message
\* is seen when the other side did so after it; and the inbox previews the last
\* message the visitor can see.
ASSUME ReceiptsTellWhoRead ==
  \A ops \in Sequences(ChatOps, 5) :
    LET msgs == Chat(ops)
        visible == {n \in Posts(ops) : ops[n][3] # "INTERNAL_NOTE"}
    IN  /\ \A u \in {"u", "v"} :
             Rules!UnreadCount(msgs, u) = Cardinality({n \in visible : ~ReadAfter(ops, n, {u})})
        /\ \A n \in visible :
             Rules!Seen(msgs[Place(ops, n)])
               <=> ReadAfter(ops, n, IF ops[n][2] = "visitor" THEN {"u", "v"} ELSE {"visitor"})
        /\ visible # {} =>
             LET last == CHOOSE n \in visible : \A k \in visible : k <= n
             IN  Rules!LastMessage(msgs) = <<msgs[Place(ops, last)]>>

\* The response time shown to visitors averages real waits: none without a
\* reply to a visitor, and never longer than the conversation.
ASSUME ResponseTimesAreReal ==
  \A ops \in Sequences({<<"post", "visitor", "TEXT">>, <<"post", "u", "TEXT">>, <<"post", "v", "TEXT">>}, 5) :
    \A u \in {"u", "v"} :
      LET times == Rules!ResponseTime(Chat(ops), u)
      IN  /\ times # {} <=> \E i, j \in DOMAIN ops : i < j /\ ops[i][2] = "visitor" /\ ops[j][2] = u
          /\ \A t \in times : t.of \in 1..2 /\ t.total \in t.of..(t.of * Len(ops))

\* What a sequence of requests of visitors does: customer 7 of the site logs in
\* anew each time, others have only the visitor of their page.
VisitorOps == {<<"known">>, <<"anonymous">>, <<"start", 1>>, <<"start", 2>>, <<"close", 1>>, <<"close", 2>>}
World(ops) ==
  LET After[n \in 0..Len(ops)] ==
        IF n = 0 THEN [visitors |-> <<>>, convs |-> <<>>]
        ELSE LET db == After[n - 1]
                 op == ops[n]
             IN  IF op[1] = "known" THEN Rules!InitVisitor(db, "site", "seven").db
                 ELSE IF op[1] = "anonymous" THEN Rules!InitVisitor(db, "site", "none").db
                 ELSE IF op[1] = "start" /\ op[2] \in DOMAIN db.visitors
                   THEN (CHOOSE r \in Rules!StartChat(db, op[2]) : TRUE).db
                 ELSE IF op[1] = "close" /\ op[2] \in DOMAIN db.convs
                   THEN Rules!CloseConversation(db, op[2])
                 ELSE db
  IN  After[Len(ops)]

\* As long as nobody reopens a closed conversation, a visitor has at most one
\* open, every start is answered with it, and the widget's other requests find
\* it; a known customer comes back as the same visitor, and an anonymous one is
\* never taken for somebody who was there before.
ASSUME VisitorsComeBack ==
  \A ops \in Sequences(VisitorOps, 5) :
    LET db == World(ops)
        known == Rules!InitVisitor(db, "site", "seven")
        anonymous == Rules!InitVisitor(db, "site", "none")
    IN  /\ \A v \in DOMAIN db.visitors :
             /\ Cardinality(Rules!OpenConversations(db, v)) <= 1
             /\ \E r \in Rules!StartChat(db, v) :
                  /\ r.db.convs[r.conv].status = "OPEN"
                  /\ r.conv \in Rules!WidgetConversations(r.db, v)
                  /\ \A s \in Rules!StartChat(r.db, v) : s.conv = r.conv
        /\ Rules!InitVisitor(known.db, "site", "seven").visitor = known.visitor
        /\ Rules!InitVisitor(anonymous.db, "site", "seven").visitor # anonymous.visitor
        /\ anonymous.visitor \notin DOMAIN db.visitors

PriorityOps == {<<"set", "LOW">>, <<"set", "NORMAL">>, <<"set", "HIGH">>, <<"escalate">>, <<"queue", "HIGH">>, <<"queue", "LOW">>}
Prioritized(ops) ==
  LET After[n \in 0..Len(ops)] ==
        IF n = 0 THEN [priority |-> "NORMAL", changes |-> <<>>]
        ELSE LET conv == After[n - 1]
                 op == ops[n]
             IN  IF op[1] = "set" THEN CHOOSE c \in Rules!SetPriority(conv, op[2]) : TRUE
                 ELSE IF op[1] = "escalate" THEN Rules!EscalatedPriority(conv)
                 ELSE Rules!QueuedPriority(conv, op[2])
  IN  After[Len(ops)]

\* The priority history is a chain of real changes that ends at the present
\* priority, and only an operator lowers what an operator or an escalation set.
ASSUME PriorityHistoryChains ==
  \A ops \in Sequences(PriorityOps, 4) :
    LET conv == Prioritized(ops)
        h == conv.changes
        n == Len(h)
    IN  /\ \A i \in 1..n : /\ h[i].from # h[i].to
                           /\ h[i].from = IF i = 1 THEN "NORMAL" ELSE h[i - 1].to
                           /\ h[i].why = "QUEUE_DEFAULT" => h[i].from = "NORMAL"
        /\ conv.priority = IF n = 0 THEN "NORMAL" ELSE h[n].to

Organisations ==
  [role : [{"u", "v"} -> [{"w1", "w2"} -> {"WORKSPACE_ADMIN", "WORKSPACE_OPERATOR", "none"}]],
   home : {<<>>}, manager : {<<>>}, member : {<<>>}]

\* Everybody a list of teammates offers can be assigned, nobody else can, and
\* who is notified of a mention can open the conversation. A notification is
\* heard by its recipient alone, and a change of presence by the members of
\* the user's workspaces, the user included, and by nobody else.
ASSUME ColleaguesOnly ==
  \A org \in Organisations : \A conv \in [workspace : {"w1", "w2"}] :
    /\ \A x \in {"u", "v"} : x \in Rules!Teammates(org, conv) <=> Rules!AssignTarget(org, "u", conv, x) = {x}
    /\ \A ids \in SUBSET {"u", "v"} :
         /\ Rules!NotifiedOfNote(org, "u", conv, ids) \subseteq Rules!Teammates(org, conv) \ {"u"}
         /\ "v" \in ids \cap Rules!Teammates(org, conv) => "v" \in Rules!NotifiedOfNote(org, "u", conv, ids)
    /\ \A x, y \in {"u", "v"} :
         /\ Rules!SocketGroups(org, x) \cap Rules!NotifyGroup(y) # {} <=> x = y
         /\ Rules!SocketGroups(org, x) \cap Rules!PresenceGroups(org, y) # {}
              <=> Rules!Memberships(org, x) \cap Rules!Memberships(org, y) # {}

\* Who goes offline, or is busy, is seen so at once and by all; and the widget
\* of a workspace shows somebody online exactly when a member is.
Presences == [status : {"ONLINE", "OFFLINE", "BUSY"}, age : {0, 3, 11}]
ASSUME PresenceIsTold ==
  \A org \in Organisations : \A p \in [{"u", "v"} -> Presences] : \A status \in {"ONLINE", "OFFLINE", "BUSY"} :
    LET set == Rules!PresenceSet(org, "u", p, status)
        conv == [workspace |-> "w1", agent |-> "u"]
        branding == Rules!WidgetBranding(org, conv, set.presence)
    IN  /\ set.told.status = status
        /\ branding.consultant = {[is |-> "u", status |-> status]}
        /\ "w1" \in Rules!Memberships(org, "u") /\ status = "ONLINE" => branding.online
        /\ Rules!Memberships(org, "v") \cap {"w1"} = {} /\ status # "ONLINE" => ~branding.online

Chats == [id : {"chat"}, workspace : {"w1"}, customer : {"none", "ann"}, project : {"none", "shop"},
          queue : {"none", "q"}, team : {"none", "t"}, assigned_to : {"none", "u"}]
Variables == {"customer_name", "agent_name", "queue_name", "order_number", "business_hours_summary", "password"}
TemplateParts == [variable : {TRUE}, is : Variables] \cup [variable : {FALSE}, is : {"agent_name"}]

\* The three kinds of template say the same of a conversation wherever they
\* know the same variables, an operator's quick reply when the conversation is
\* theirs; a message keeps its texts and what no kind knows, and the order's
\* number is left unnamed only where there is no order.
ASSUME TemplatesAgree ==
  \A conv \in Chats, order \in {{}, {[number |-> "7", product |-> "cup"]}} :
    \A parts \in Sequences(TemplateParts, 2) :
      LET quick == Rules!Filled(parts, Rules!QuickReplyContext(conv, "u"))
          automatic == Rules!Filled(parts, Rules!AutomationContext(conv, "9 to 5"))
          macro == Rules!Filled(parts, Rules!MacroContext(conv, order))
      IN  \A i \in DOMAIN parts :
            /\ ~parts[i].variable \/ parts[i].is = "password" =>
                 quick[i] = parts[i] /\ automatic[i] = parts[i] /\ macro[i] = parts[i]
            /\ ~automatic[i].variable /\ ~macro[i].variable => automatic[i] = macro[i]
            /\ ~quick[i].variable /\ conv.assigned_to = "u" => quick[i] = automatic[i]
            /\ macro[i].variable => parts[i].is \in {"business_hours_summary", "password"} \/ order = {}

SupportOps == {<<"send", 1>>, <<"send", 2>>, <<"reply", 2>>, <<"reply", 3>>}
Support(ops) ==
  LET After[n \in 0..Len(ops)] ==
        IF n = 0 THEN [status |-> "WAITING_FOR_PLATFORM", ids |-> {}]
        ELSE LET conv == After[n - 1]
                 new == IF ops[n][1] = "send" THEN Rules!SupportSent(conv, ops[n][2])
                        ELSE Rules!SupportReply(conv, ops[n][2])
             IN  IF new = {} THEN conv ELSE CHOOSE c \in new : TRUE
  IN  After[Len(ops)]

\* Through its requests, a support conversation waits for the side that did
\* not write last; a repeated id changes nothing, not even that.
ASSUME SupportWaitsForTheOther ==
  \A ops \in Sequences(SupportOps, 4) :
    LET fresh == {n \in DOMAIN ops : \A k \in 1..(n - 1) : ops[k][2] # ops[n][2]}
        IsLast(n) == \A k \in fresh : k <= n
    IN  Support(ops).status = "WAITING_FOR_WORKSPACE" <=> \E n \in fresh : IsLast(n) /\ ops[n][1] = "reply"
=============================================================================
