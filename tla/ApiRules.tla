------------------------------ MODULE ApiRules ------------------------------
(***************************************************************************)
(* What the REST resources of a workspace let whom read, create and change:*)
(* teams, queues, calendars, SLA policies, automation rules, knowledge     *)
(* base categories and articles, tags, products, projects, notifications,  *)
(* and the customer panel of a conversation.                               *)
(*                                                                         *)
(* As in WorkspaceRules, an operation returns the set of its results. A    *)
(* reference to another row is abstracted to the workspace of that row,    *)
(* except the fallback of a queue, which the code walks. A number or a row *)
(* that may be missing is a set of at most one.                            *)
(***************************************************************************)
EXTENDS WorkspaceRules

Sets == INSTANCE FiniteSetsExt

-----------------------------------------------------------------------------
(* The gates (common/permissions.py, common/mixins.py)                     *)

IsWorkspaceOperator(org, u) == \E w \in Workspaces : HasRole(org, u, w, Operators)
IsWorkspaceAdmin(org, u) == \E w \in Workspaces : IsAdmin(org, u, w)
Administered(org, u) == {w \in Workspaces : IsAdmin(org, u, w)}

\* The list of a resource, and what one may name by its id.
Reached(org, u, rows) == {r \in rows : r.workspace \in Memberships(org, u)}

\* IsWorkspaceAdminOfObject, on an object of the list.
Configures(org, u, row) == Reached(org, u, {row}) # {} /\ IsAdmin(org, u, row.workspace)

\* resolve_operator_workspace, then require_workspace_admin.
Requested(org, u, data) == Resolved(org, u, Given(data, "workspace", None))
ConfiguredIn(org, u, data) == {w \in Requested(org, u, data) : IsAdmin(org, u, w)}

\* The serializer sets the fields of the request it may write.
Changed(row, data, fields) ==
  [f \in DOMAIN row |-> IF f \in fields THEN Given(data, f, row[f]) ELSE row[f]]
SameWorkspace(row, fields) == \A f \in fields : row[f] \in {None, row.workspace}

-----------------------------------------------------------------------------
(* Teams, calendars, SLA policies                                          *)

ManagerFits(org, team) == team.manager # None => team.workspace \in Memberships(org, team.manager)

CreatedTeam(org, u, data) ==
  {t \in {[workspace |-> w, manager |-> Given(data, "manager", None)] : w \in ConfiguredIn(org, u, data)} :
     ManagerFits(org, t)}

UpdatedTeam(org, u, team, data) ==
  {t \in {Changed(team, data, {"manager"})} : Configures(org, u, team) /\ ManagerFits(org, t)}

CreatedCalendar(org, u, data) ==
  {[workspace |-> w, intervals |-> {}, holidays |-> {}] : w \in ConfiguredIn(org, u, data)}

AddedInterval(org, u, calendar, interval) ==
  {c \in {[calendar EXCEPT !.intervals = @ \cup {interval}]} : Configures(org, u, calendar)}
AddedHoliday(org, u, calendar, day) ==
  {c \in {[calendar EXCEPT !.holidays = @ \cup {day}]} : Configures(org, u, calendar)}

PolicyRefs == {"queue", "team", "calendar"}
PolicyFits(policy) == SameWorkspace(policy, PolicyRefs)

CreatedPolicy(org, u, data) ==
  {p \in {[workspace |-> w, queue |-> Given(data, "queue", None), team |-> Given(data, "team", None),
           calendar |-> Given(data, "calendar", None)] : w \in ConfiguredIn(org, u, data)} :
     PolicyFits(p)}

UpdatedPolicy(org, u, policy, data) ==
  {p \in {Changed(policy, data, PolicyRefs)} : Configures(org, u, policy) /\ PolicyFits(p)}

\* ConversationSLAView: the clocks of a conversation of one's workspaces.
SlaShown(org, u, conv) == UNION {c.sla : c \in Reached(org, u, {conv})}

-----------------------------------------------------------------------------
(* Queues. queues is a function from the ids of queues to their rows.      *)

MaxFallbacks == 10

\* The queues the chain from q goes through: the n-th, None after its end.
Chain(queues, q) ==
  LET Nth[n \in 0..MaxFallbacks] ==
        IF n = 0 THEN q
        ELSE IF Nth[n - 1] = None THEN None ELSE queues[Nth[n - 1]].fallback
  IN  Nth

\* QueueSerializer.validate; q is None when the queue is new.
FallbackFits(queues, q, row) ==
  row.fallback # None =>
    /\ queues[row.fallback].workspace = row.workspace
    /\ q # None => LET chain == Chain(queues, row.fallback)
                   IN  chain[MaxFallbacks] = None /\ \A n \in 0..MaxFallbacks : chain[n] # q
QueueFits(queues, q, row) == SameWorkspace(row, {"team"}) /\ FallbackFits(queues, q, row)

CreatedQueue(org, u, queues, q, data) ==
  {[x \in DOMAIN queues \cup {q} |-> IF x = q THEN row ELSE queues[x]] : row \in
     {r \in {[workspace |-> w, team |-> Given(data, "team", None),
              fallback |-> Given(data, "fallback", None)] : w \in ConfiguredIn(org, u, data)} :
        r.team = r.workspace /\ QueueFits(queues, None, r)}}

UpdatedQueue(org, u, queues, q, data) ==
  {[queues EXCEPT ![q] = row] : row \in
     {r \in {Changed(queues[q], data, {"team", "fallback"})} :
        Configures(org, u, queues[q]) /\ QueueFits(queues, q, r)}}

\* on_delete=SET_NULL on the fallbacks that name it.
DeletedQueue(org, u, queues, q) ==
  {[x \in DOMAIN queues \ {q} |->
      IF queues[x].fallback = q THEN [queues[x] EXCEPT !.fallback = None] ELSE queues[x]] :
     row \in {r \in {queues[q]} : Configures(org, u, r)}}

-----------------------------------------------------------------------------
(* Automation rules: for admins only, in the list and by id. refs are the  *)
(* workspaces of the objects their actions name.                           *)

AdminReached(org, u, rows) == {r \in rows : r.workspace \in Administered(org, u)}

RuleFits(rule) ==
  /\ rule.refs \subseteq {rule.workspace}
  /\ \A from \in rule.valid_from, until \in rule.valid_until : from < until

CreatedRule(org, u, data) ==
  {r \in {[workspace |-> w, refs |-> data.refs, is_active |-> Given(data, "is_active", TRUE),
           valid_from |-> Given(data, "valid_from", {}),
           valid_until |-> Given(data, "valid_until", {})] : w \in ConfiguredIn(org, u, data)} :
     RuleFits(r)}

UpdatedRule(org, u, rule, data) ==
  {r \in {Changed(rule, data, {"refs", "is_active", "valid_from", "valid_until"})} :
     AdminReached(org, u, {rule}) # {} /\ RuleFits(r)}

SwitchedRule(org, u, rule, active) ==
  {[r EXCEPT !.is_active = active] : r \in AdminReached(org, u, {rule})}

DuplicatedRule(org, u, rule) == SwitchedRule(org, u, rule, FALSE)

\* RuleValidationView, RuleSimulationView (with a conversation or without)
\* and the simulate action, by the workspaces they work in.
DraftsValid(org, u, data) == {w \in ConfiguredIn(org, u, data) : data.refs \subseteq {w}}
DraftsSimulated(org, u, data, conv) ==
  {w \in DraftsValid(org, u, data) : \A c \in conv : c.workspace = w}
RulesSimulated(org, u, rule, conv) ==
  {r.workspace : r \in {x \in AdminReached(org, u, {rule}) : \A c \in conv : c.workspace = x.workspace}}

\* AutomationExecutionListView and ScheduledActionListView.
AdminHistory(org, u, data, rows) == {r \in rows : r.workspace \in ConfiguredIn(org, u, data)}

-----------------------------------------------------------------------------
(* Macros run on conversations; the records of their runs                  *)

ListedMacros(org, u, macros) == {m \in Reached(org, u, macros) : CanView(org, u, m)}
OnConversation(macro, conv) == \E c \in conv : c.workspace = macro.workspace
Previewed(org, u, macro, conv) == CanView(org, u, macro) /\ OnConversation(macro, conv)
Executed(org, u, macro, conv) == CanExecute(org, u, macro) /\ OnConversation(macro, conv)
Retried(org, u, execution) == CanExecute(org, u, execution.macro)
RunsListed(org, u, data, runs) == {r \in runs : r.workspace \in Requested(org, u, data)}
RunShown(org, u, run) == HasRole(org, u, run.workspace, Operators)

-----------------------------------------------------------------------------
(* Knowledge base                                                          *)

CreatedCategory(org, u, data) ==
  {c \in {[workspace |-> w, parent |-> Given(data, "parent", None)] : w \in ConfiguredIn(org, u, data)} :
     SameWorkspace(c, {"parent"})}

CreatedArticle(org, u, data) ==
  {a \in {[workspace |-> w, category |-> Given(data, "category", None),
           status |-> Given(data, "status", "DRAFT")] : w \in Requested(org, u, data)} :
     SameWorkspace(a, {"category"})}

UpdatedArticle(org, u, article, data) ==
  {a \in {Changed(r, data, {"category"}) : r \in Reached(org, u, {article})} :
     SameWorkspace(a, {"category"})}

DuplicatedArticle(org, u, article) ==
  {[r EXCEPT !.status = "DRAFT"] : r \in Reached(org, u, {article})}

AttachedTo(org, u, article) == {[workspace |-> r.workspace] : r \in Reached(org, u, {article})}
SharedInto(org, u, article, conv) ==
  {[conversation |-> conv, article |-> r] :
     r \in {a \in Reached(org, u, {article}) : conv.workspace = a.workspace}}

-----------------------------------------------------------------------------
(* Tags, products, projects, quick replies in use, notifications           *)

CreatedTag(org, u, data) == {[workspace |-> w] : w \in Requested(org, u, data)}
CreatedProduct(org, u, data) == {[workspace |-> w, is_active |-> TRUE] : w \in Requested(org, u, data)}
ListedProducts(org, u, products) == {p \in Reached(org, u, products) : p.is_active}

\* The first of somebody's memberships is whichever the database returns.
CreatedProject(org, u) ==
  {[workspace |-> w] : w \in {x \in Memberships(org, u) : IsWorkspaceAdmin(org, u)}}

\* The text is filled in only for a conversation the user can reach.
UsedReply(org, u, reply, conv) ==
  {[usage |-> r.usage + 1, filled |-> Reached(org, u, conv) # {}] :
     r \in {x \in {reply} : CanSeeReply(org, u, x)}}

OwnNotifications(org, u, rows) == {n \in rows : IsWorkspaceOperator(org, u) /\ n.recipient = u}
MarkedAllRead(org, u, rows) ==
  {IF n \in OwnNotifications(org, u, rows) THEN [n EXCEPT !.read = TRUE] ELSE n : n \in rows}

-----------------------------------------------------------------------------
(* The customer panel of a conversation (customer_context/views.py)        *)

OperatorConversation(org, u, conv) == {c \in Reached(org, u, {conv}) : c.type = "CUSTOMER"}

\* get_or_create: a tag is on a conversation once.
Tagged(org, u, conv, tag) ==
  {[c EXCEPT !.tags = @ \cup {tag}] :
     c \in {x \in OperatorConversation(org, u, conv) : tag.workspace = x.workspace}}
Untagged(org, u, conv, tag) ==
  {[c EXCEPT !.tags = @ \ {tag}] : c \in OperatorConversation(org, u, conv)}

\* length is that of the stripped text; the limit is Note.MAX_LENGTH.
Noted(org, u, conv, length, limit) ==
  {[conversation |-> c, by |-> u] : c \in {x \in OperatorConversation(org, u, conv) : length \in 1..limit}}

\* CustomerContextView: sums and averages over the rows of this visitor in this
\* workspace; an average is a pair of total and count.
Of(rows, conv) == {r \in rows : r.visitor = conv.visitor /\ r.workspace = conv.workspace}
Score(conv, profiles, convs) ==
  LET chosen == UNION {p.score : p \in Of(profiles, conv)}
      rated == {c \in Of(convs, conv) : c.rating # {}}
  IN  IF chosen # {} THEN [by |-> "operator", is |-> chosen]
      ELSE [by |-> "visitor", is |-> {<<r, Cardinality(rated)>> : r \in
              {Sets!MapThenSumSet(LAMBDA c : CHOOSE x \in c.rating : TRUE, rated)} \ {0}}]

CustomerContext(org, u, conv, profiles, orders, convs) ==
  {[order_count |-> Cardinality(Of(orders, c)), total_spent |-> Sets!MapThenSumSet(LAMBDA o : o.price, Of(orders, c)),
    score |-> Score(c, profiles, convs), tags |-> c.tags] :
     c \in {x \in OperatorConversation(org, u, conv) : x.visitor # None}}

=============================================================================
