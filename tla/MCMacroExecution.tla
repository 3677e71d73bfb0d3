-------------------------- MODULE MCMacroExecution --------------------------
(***************************************************************************)
(* Three requests for one execution of a macro of two actions, the first   *)
(* of which sends a message; and the rules of WorkspaceRules and ApiRules, *)
(* over every organisation of two users, two workspaces and a team of the  *)
(* first.                                                                  *)
(***************************************************************************)
EXTENDS MacroExecution, ApiRules, TLC

Symmetry == Permutations(Callers)
SentMessages == {1}

Roles == {"WORKSPACE_ADMIN", "WORKSPACE_OPERATOR", "none"}
SmallOrganisations ==
  {org \in [role : [{"u", "v"} -> [{"w1", "w2"} -> Roles]],
            home : {[t |-> "w1"]},
            manager : [{"t"} -> {"none", "u"}],
            member : [{"t"} -> [{"u", "v"} -> {"MEMBER", "SUPERVISOR", "none"}]]] :
     \A x \in {"u", "v"} : org.member["t"][x] # "none" => org.role[x]["w1"] # "none"}

Wanted == [workspace : {"none", "w1", "w2"}, team : {"none", "t"}, is_active : BOOLEAN]
With(field, values) == {data @@ (field :> value) : data \in Wanted, value \in values}
MacroRequests == With("visibility", {"PRIVATE", "TEAM", "WORKSPACE"}) \cup Wanted
ReplyRequests == With("scope", {"PERSONAL", "TEAM", "WORKSPACE"})
Changes == [is_active : BOOLEAN] \cup [visibility : {"TEAM", "WORKSPACE"}, team : {"none", "t"}]
             \cup [owner : {"v"}, scope : {"WORKSPACE"}]

Viewers(org, macro) == {x \in {"u", "v"} : CanView(org, x, macro)}
Readers(org, reply) == {x \in {"u", "v"} : CanSeeReply(org, x, reply)}

TeamOf(org, t) == {x \in {"u", "v"} : IsTeamMember(org, x, t)}

\* Whoever creates a macro or an active quick reply, and in whatever workspace
\* the request ended up, finds it again in their own list; and what is made
\* for a team reaches all of the team, and a quick reply nobody else.
ASSUME CreatorsSeeTheirs ==
  \A org \in SmallOrganisations :
    /\ \A data \in MacroRequests : \A m \in CreatedMacro(org, "u", data) :
         /\ "u" \in Viewers(org, m)
         /\ m.visibility = "TEAM" => TeamOf(org, m.team) \subseteq Viewers(org, m)
    /\ \A data \in ReplyRequests : \A r \in CreatedReply(org, "u", data) :
         r.is_active => /\ "u" \in Readers(org, r)
                        /\ r.scope = "TEAM" => Readers(org, r) = TeamOf(org, r.team)

\* No sequence of create, update and duplicate by somebody who does not
\* administer the workspace makes a macro of the whole workspace or shows it
\* to more people than at its creation.
ASSUME OnlyAdminsWiden ==
  \A org \in {o \in SmallOrganisations : o.manager["t"] = "none"} :
    \A data \in MacroRequests : \A m \in CreatedMacro(org, "u", data) :
      ~IsAdmin(org, "u", m.workspace) =>
        /\ m.visibility # "WORKSPACE"
        /\ \A change \in Changes :
             \A n \in UpdatedMacro(org, "u", m, change) \cup DuplicatedMacro(org, "u", m) :
               Viewers(org, n) = Viewers(org, m)

\* An update never re-targets a quick reply: its readers stay the same, or it
\* is deactivated, and then nobody can update it any more.
ASSUME RepliesKeepReaders ==
  \A org \in SmallOrganisations : \A data \in ReplyRequests :
    \A r \in CreatedReply(org, "u", data) : \A x \in {"u", "v"}, change \in Changes :
      \A n \in UpdatedReply(org, x, r, change) :
        IF n.is_active THEN Readers(org, n) = Readers(org, r)
        ELSE UpdatedReply(org, x, n, [is_active |-> TRUE]) = {}

\* Members of a team stay members of its workspace, and who supervises a
\* workspace always belongs to it, whatever an admin adds or removes.
ASSUME TeamsStayHome ==
  \A org \in SmallOrganisations : \A x \in {"u", "v"}, role \in {"MEMBER", "SUPERVISOR", "none"} :
    \A o \in AddedMember(org, "u", "t", x, role) \cup RemovedMember(org, "u", "t", x) :
      /\ o \in SmallOrganisations
      /\ \A y \in {"u", "v"}, w \in {"w1", "w2"} :
           CanSupervise(o, y, w) => w \in Memberships(o, y)

ParamValues == {[fits |-> f, home |-> w] : f \in BOOLEAN, w \in {"w1", "w2"}}
ParamNames == {"template", "team_id", "reason", "tag_id"}
AnyParams == UNION {[names -> ParamValues] : names \in SUBSET ParamNames}

\* An accepted definition never makes its handlers fail for a parameter they
\* index, or for an object that is in another workspace.
ASSUME AcceptedActionsRun ==
  /\ DOMAIN Indexed = DOMAIN ActionParams
  /\ \A type \in DOMAIN Indexed : \A params \in AnyParams :
       ValidActions(<<[type |-> type, params |-> params]>>, "w1") =>
         /\ Indexed[type] \subseteq DOMAIN params
         /\ \A p \in Indexed[type] \cap ResolvedRefs : params[p].home = "w1"

Availability(st) == IF st = "ONLINE" THEN 2 ELSE IF st = "AWAY" THEN 1 ELSE 0
Seen(st, age) == EffectiveStatus([status |-> st, age |-> age])

\* Without activity nobody becomes more available, and activity alone never
\* undoes a status somebody chose.
ASSUME PresenceDecays ==
  \A st \in PresenceStatuses :
    /\ \A a, b \in 0..12 : a <= b => Availability(Seen(st, b)) <= Availability(Seen(st, a))
    /\ \A a \in 0..12 :
         EffectiveStatus(Touched([status |-> st, age |-> a], "none")) = st

-----------------------------------------------------------------------------
(* The REST resources of ApiRules                                          *)

Homes == {"w1", "w2", "none"}
Asking == [workspace : Homes]
Ask(field, values) == {data @@ (field :> value) : data \in Asking, value \in values}
PolicyData == {data @@ more : data \in Asking, more \in [queue : Homes, team : Homes, calendar : {"none", "w2"}]}
RuleData == {data @@ more : data \in Asking,
               more \in [refs : SUBSET {"w1", "w2"}, valid_from : {{}, {1}, {2}}, valid_until : {{}, {1}}]}
MaybeConversation == {{}} \cup {{c} : c \in [workspace : {"w1", "w2"}]}

\* Whatever is created and then changed by anybody, what it refers to is of
\* its own workspace: the manager of a team, the queue, team and calendar of
\* an SLA policy, the category of an article, and what a rule acts on.
ASSUME ReferencesStayHome ==
  \A org \in SmallOrganisations : \A x \in {"u", "v"} :
    /\ \A data \in Ask("manager", {"u", "v", "none"}), change \in [manager : {"u", "v", "none"}] :
         \A t \in CreatedTeam(org, "u", data) : \A n \in {t} \cup UpdatedTeam(org, x, t, change) :
           n.manager # "none" => org.role[n.manager][n.workspace] # "none"
    /\ \A data \in Ask("category", Homes), change \in [category : Homes] :
         \A a \in CreatedArticle(org, "u", data) :
           \A n \in {a} \cup UpdatedArticle(org, x, a, change) \cup DuplicatedArticle(org, x, a) :
             n.category \in {"none", n.workspace}
ASSUME PoliciesAndRulesStayHome ==
  \A org \in {o \in SmallOrganisations : o.manager["t"] = "none"} :
    /\ \A data \in PolicyData : \A p \in CreatedPolicy(org, "u", data) :
         \A change \in [queue : Homes] \cup [team : Homes] :
           \A n \in {p} \cup UpdatedPolicy(org, "v", p, change) :
             {n.queue, n.team, n.calendar} \subseteq {"none", n.workspace}
    /\ \A data \in RuleData : \A r \in CreatedRule(org, "u", data) :
         \A change \in [refs : SUBSET {"w1", "w2"}] \cup [valid_until : {{1}, {2}}] :
           \A n \in UpdatedRule(org, "v", r, change) \cup DuplicatedRule(org, "v", r) :
             n.refs \subseteq {n.workspace}

RowsOf(w) ==
  {[kind |-> "team", row |-> [workspace |-> w, manager |-> "none"]],
   [kind |-> "policy", row |-> [workspace |-> w, queue |-> "none", team |-> "none", calendar |-> w]],
   [kind |-> "rule", row |-> [workspace |-> w, refs |-> {w}, is_active |-> TRUE,
                              valid_from |-> {}, valid_until |-> {}]]}
ChangesTo(item) ==
  IF item.kind = "team" THEN [manager : {"u", "v", "none"}]
  ELSE IF item.kind = "policy" THEN [queue : Homes] \cup [calendar : Homes]
  ELSE [is_active : BOOLEAN] \cup [refs : SUBSET {"w1", "w2"}]
Update(org, x, item, change) ==
  IF item.kind = "team" THEN UpdatedTeam(org, x, item.row, change)
  ELSE IF item.kind = "policy" THEN UpdatedPolicy(org, x, item.row, change)
  ELSE UpdatedRule(org, x, item.row, change)

\* What one may change in a workspace does not depend on the roles anybody
\* has in another one.
ASSUME RolesElsewhereChangeNothing ==
  \A org \in SmallOrganisations : \A x, y \in {"u", "v"} : \A role \in Roles :
    LET other == [org EXCEPT !.role[y]["w2"] = role]
    IN  \A item \in RowsOf("w1") : \A change \in ChangesTo(item) :
          Update(org, x, item, change) = Update(other, x, item, change)

\* Whoever creates something finds it in the list they have, in the workspace
\* they asked for.
ASSUME CreatorsFindTheirs ==
  \A org \in SmallOrganisations : \A data \in Ask("refs", {{}}) :
    /\ \A row \in CreatedTeam(org, "u", data) \cup CreatedCalendar(org, "u", data)
                   \cup CreatedPolicy(org, "u", data) \cup CreatedCategory(org, "u", data)
                   \cup CreatedArticle(org, "u", data) \cup CreatedTag(org, "u", data)
                   \cup CreatedRule(org, "u", data) \cup CreatedProduct(org, "u", data) :
         /\ Reached(org, "u", {row}) = {row}
         /\ data.workspace # "none" => row.workspace = data.workspace
    /\ \A row \in CreatedRule(org, "u", data) : AdminReached(org, "u", {row}) = {row}
    /\ \A row \in CreatedProject(org, "u") : Reached(org, "u", {row}) = {row}

\* A draft that validates and simulates saves, and simulates the same after.
ASSUME DraftsSave ==
  \A org \in {o \in SmallOrganisations : o.manager["t"] = "none"} :
    \A data \in {d \in RuleData : d.valid_from = {}}, conv \in MaybeConversation :
      \A w \in DraftsValid(org, "u", data) :
        \E r \in CreatedRule(org, "u", data) :
          /\ r.workspace = w
          /\ RulesSimulated(org, "u", r, conv) = DraftsSimulated(org, "u", data, conv)

\* A macro somebody runs is one they see in the list and may preview, and they
\* see the record of the run; while both last, they may run it again.
ASSUME RunsAreSeen ==
  \A org \in SmallOrganisations : \A data \in MacroRequests, conv \in MaybeConversation :
    \A m \in CreatedMacro(org, "u", data) : \A x \in {"u", "v"} :
      Executed(org, x, m, conv) =>
        LET done == [workspace |-> m.workspace, macro |-> m]
        IN  /\ m \in ListedMacros(org, x, {m}) /\ Previewed(org, x, m, conv)
            /\ done \in RunsListed(org, x, [workspace |-> m.workspace], {done})
            /\ RunShown(org, x, done) /\ Retried(org, x, done)

QueueNames == {"q1", "q2", "q3"}
QueueRows(names) == [workspace : {"w1"}, team : {"w1"}, fallback : names \cup {"none"}]
Ends(queues, q) ==
  LET After[n \in 0..Cardinality(QueueNames)] ==
        IF n = 0 THEN q ELSE IF After[n - 1] = "none" THEN "none" ELSE queues[After[n - 1]].fallback
  IN  After[Cardinality(QueueNames)] = "none"
Tables ==
  UNION {{t \in [names -> QueueRows(names)] : \A q \in names : Ends(t, q)} : names \in SUBSET QueueNames}
Owners ==
  {o \in SmallOrganisations : /\ o.role["v"] = [w \in {"w1", "w2"} |-> "none"]
                         /\ o.manager["t"] = "none" /\ o.member["t"]["u"] = "none"}

\* However queues are created, redirected and deleted one after another, the
\* chain of fallbacks that assignment walks ends, at an existing queue of the
\* same workspace.
ASSUME FallbackChainsEnd ==
  \A org \in Owners : \A t \in Tables : \A q \in QueueNames :
    \A fallback \in DOMAIN t \cup {"none"} :
      \A n \in IF q \notin DOMAIN t
               THEN CreatedQueue(org, "u", t, q, [workspace |-> "w1", team |-> "w1", fallback |-> fallback])
               ELSE UpdatedQueue(org, "u", t, q, [fallback |-> fallback])
                      \cup DeletedQueue(org, "u", t, q) :
        n \in Tables

\* A queue is given a fallback whose own chain has up to ten queues.
LongChain(length) ==
  [q \in 1..13 |-> [workspace |-> 1, team |-> 1,
                    fallback |-> IF q > 1 /\ q <= length THEN q - 1 ELSE 0]]
LongRules == INSTANCE ApiRules
               WITH Users <- {"u"}, Workspaces <- {1}, Teams <- {}, None <- 0
ASSUME TenFallbacksAtMost ==
  \A length \in 1..12 :
    LongRules!FallbackFits(LongChain(length), 13, [workspace |-> 1, team |-> 1, fallback |-> length])
      <=> length <= 10

Notices == [recipient : {"u", "v"}, read : BOOLEAN, about : {1, 2}]
Unread(rows) == {n \in rows : ~n.read}

\* After mark_all_read one has nothing unread, and others have what they had.
ASSUME ReadingIsPersonal ==
  \A org \in Owners : \A rows \in SUBSET Notices :
    LET after == MarkedAllRead(org, "u", rows)
    IN  /\ Unread(OwnNotifications(org, "u", after)) = {}
        /\ {n \in after : n.recipient = "v"} = {n \in rows : n.recipient = "v"}

Talks == [workspace : {"w1", "w2"}, visitor : {"a", "b"}, type : {"CUSTOMER"}, rating : {{}, {2}, {5}}, tags : {{}}]
Orders == [visitor : {"a", "b"}, workspace : {"w1", "w2"}, price : {10}]
Profiles == [visitor : {"a"}, workspace : {"w1", "w2"}, score : {{}, {4}}]
Panels(conv, profiles, orders, convs) ==
  UNION {CustomerContext(org, "u", conv, profiles, orders, convs) : org \in Owners}

\* One's conversations in a workspace show one and the same customer, with a
\* score only they gave it there: an operator's, or theirs on average. Tags
\* put on a conversation are those of its workspace.
ASSUME PanelsAgree ==
  /\ \A a, b \in Talks : \A p \in {{}} \cup {{x} : x \in Profiles} : \A orders \in SUBSET Orders :
       \A convs \in {{a, b}, {b}} :
         a.visitor = b.visitor /\ a.workspace = b.workspace =>
           /\ Panels(a, p, orders, convs) = Panels(b, p, orders, convs)
           /\ \A c \in Panels(a, p, orders, convs) : c.score.by = "visitor" =>
                \A s \in c.score.is : s[2] \in 1..2 /\ s[1] \in 2 * s[2]..5 * s[2]
  /\ \A org \in Owners : \A conv \in Talks, tag \in [workspace : {"w1", "w2"}] :
       \A c \in Tagged(org, "u", conv, tag) : \A t \in c.tags : t.workspace = c.workspace
=============================================================================
