--------------------------- MODULE WorkspaceRules ---------------------------
(***************************************************************************)
(* Who may do what in a workspace: tenancy and roles (common/), macros and *)
(* their definitions (macros/), quick replies (collaboration/), team       *)
(* membership (teams/) and the presence other people see (accounts/).      *)
(*                                                                         *)
(* An organisation is a record of the rows these rules read. A rule that   *)
(* may refuse returns the set of its results: none, or one.                *)
(***************************************************************************)
EXTENDS Integers, FiniteSets, Sequences

CONSTANTS Users, Workspaces, Teams, None

Admins == {"WORKSPACE_OWNER", "WORKSPACE_ADMIN"}
Operators == Admins \cup {"WORKSPACE_OPERATOR"}

ASSUME NoneAssumption ==
  None \notin Users \cup Workspaces \cup Teams \cup Operators \cup {"MEMBER", "SUPERVISOR"}

\* Membership roles, the workspace and the manager of each team, and the team
\* role of each active member.
Organisations ==
  [role : [Users -> [Workspaces -> Operators \cup {None}]],
   home : [Teams -> Workspaces],
   manager : [Teams -> Users \cup {None}],
   member : [Teams -> [Users -> {"MEMBER", "SUPERVISOR", None}]]]

HasRole(org, u, w, roles) == w # None /\ org.role[u][w] \in roles
IsAdmin(org, u, w) == HasRole(org, u, w, Admins)
IsTeamMember(org, u, t) == t # None /\ org.member[t][u] # None
IsTeamSupervisor(org, u, t) == t # None /\ org.member[t][u] = "SUPERVISOR"

CanSupervise(org, u, w) ==
  \/ IsAdmin(org, u, w)
  \/ \E t \in Teams : org.home[t] = w /\ IsTeamSupervisor(org, u, t)

Memberships(org, u) == {w \in Workspaces : org.role[u][w] # None}

\* A workspace is implied only by a single membership.
Resolved(org, u, requested) ==
  {w \in Memberships(org, u) :
     IF requested # None THEN w = requested ELSE Memberships(org, u) = {w}}

Given(data, field, default) == IF field \in DOMAIN data THEN data[field] ELSE default
Without(data, fields) == [f \in DOMAIN data \ fields |-> data[f]]

-----------------------------------------------------------------------------
(* Macros                                                                  *)

CanView(org, u, macro) ==
  /\ HasRole(org, u, macro.workspace, Operators)
  /\ \/ IsAdmin(org, u, macro.workspace)
     \/ macro.visibility = "WORKSPACE"
     \/ macro.visibility = "TEAM" /\ IsTeamMember(org, u, macro.team)
     \/ macro.visibility = "PRIVATE" /\ macro.owner = u

CanExecute(org, u, macro) == macro.is_active /\ CanView(org, u, macro)

CanCreate(org, u, w, visibility, team) ==
  \/ IsAdmin(org, u, w)
  \/ /\ HasRole(org, u, w, {"WORKSPACE_OPERATOR"})
     /\ \/ visibility = "PRIVATE"
        \/ visibility = "TEAM" /\ IsTeamSupervisor(org, u, team)

CanManage(org, u, macro) ==
  \/ IsAdmin(org, u, macro.workspace)
  \/ macro.visibility = "PRIVATE" /\ macro.owner = u

\* MacroSerializer.validate.
Consistent(macro) == macro.visibility = "TEAM" => macro.team # None

CreatedMacro(org, u, data) ==
  LET visibility == Given(data, "visibility", "WORKSPACE")
      team == Given(data, "team", None)
      NewMacro(w) ==
        [workspace |-> w, visibility |-> visibility, team |-> team,
         owner |-> IF visibility = "PRIVATE" THEN u ELSE None,
         is_active |-> Given(data, "is_active", FALSE)]
  IN  {m \in {NewMacro(w) : w \in Resolved(org, u, Given(data, "workspace", None))} :
         /\ team # None => org.home[team] = m.workspace
         /\ CanCreate(org, u, m.workspace, visibility, team)
         /\ Consistent(m)}

\* Who does not administer the workspace has visibility, owner and team taken
\* out of the request.
UpdatedMacro(org, u, macro, data) ==
  LET kept == IF IsAdmin(org, u, macro.workspace) THEN data
              ELSE Without(data, {"visibility", "owner", "team"})
      new == [f \in DOMAIN macro |-> IF f = "workspace" THEN macro[f]
                                     ELSE Given(kept, f, macro[f])]
  IN  {m \in {new} : CanView(org, u, macro) /\ CanManage(org, u, macro) /\ Consistent(m)}

DuplicatedMacro(org, u, macro) ==
  {m \in {[macro EXCEPT !.is_active = FALSE]} :
     CanView(org, u, macro) /\ CanManage(org, u, macro)}

\* ACTION_PARAM_SPECS: the parameters each type of action takes, those it
\* requires, and those that name an object of the workspace.
Takes(allowed, required, refs) == [allowed |-> allowed, required |-> required, refs |-> refs]
One(param) == Takes({param}, {param}, {})
Ref(param) == Takes({param}, {param}, {param})
ActionParams ==
  [SEND_REPLY |-> One("template"), SEND_ARTICLE |-> Ref("article_id"),
   ADD_TAG |-> Ref("tag_id"), REMOVE_TAG |-> Ref("tag_id"),
   SET_PRIORITY |-> One("priority"), SET_STATUS |-> One("status"),
   ASSIGN_TO_AGENT |-> Ref("agent_id"), ASSIGN_TO_TEAM |-> Ref("team_id"),
   TRANSFER_TO_TEAM |-> Takes({"team_id", "reason"}, {"team_id"}, {"team_id"}),
   CREATE_INTERNAL_NOTE |-> One("content"),
   RETURN_TO_QUEUE |-> Takes({}, {}, {}), REQUEST_RATING |-> Takes({}, {}, {}),
   CLOSE_CONVERSATION |-> Takes({}, {}, {}), REOPEN_CONVERSATION |-> Takes({}, {}, {})]

\* A parameter's value is abstracted to whether it fits its rule (choices,
\* type, length) and, for a reference, the workspace of the object it names.
ValidAction(action, w) ==
  /\ action.type \in DOMAIN ActionParams
  /\ LET spec == ActionParams[action.type]
     IN  /\ spec.required \subseteq DOMAIN action.params
         /\ DOMAIN action.params \subseteq spec.allowed
         /\ \A p \in DOMAIN action.params :
              IF p \in spec.refs THEN action.params[p].home = w ELSE action.params[p].fits

MaxActions == 20
ValidActions(actions, w) ==
  /\ Len(actions) \in 1..MaxActions
  /\ \A i \in 1..Len(actions) : ValidAction(actions[i], w)

\* What the handlers of macros/actions.py index, and resolve in the workspace
\* of the conversation, without a default.
Indexed ==
  [SEND_REPLY |-> {"template"}, SEND_ARTICLE |-> {"article_id"}, ADD_TAG |-> {"tag_id"},
   REMOVE_TAG |-> {"tag_id"}, SET_PRIORITY |-> {"priority"}, SET_STATUS |-> {"status"},
   ASSIGN_TO_AGENT |-> {"agent_id"}, ASSIGN_TO_TEAM |-> {"team_id"},
   TRANSFER_TO_TEAM |-> {"team_id"}, CREATE_INTERNAL_NOTE |-> {"content"},
   RETURN_TO_QUEUE |-> {}, REQUEST_RATING |-> {}, CLOSE_CONVERSATION |-> {},
   REOPEN_CONVERSATION |-> {}]
ResolvedRefs == {"article_id", "tag_id", "agent_id", "team_id"}

-----------------------------------------------------------------------------
(* Quick replies                                                           *)

CanSeeReply(org, u, reply) ==
  /\ reply.is_active
  /\ reply.workspace \in Memberships(org, u)
  /\ \/ reply.scope = "WORKSPACE"
     \/ reply.scope = "PERSONAL" /\ reply.owner = u
     \/ reply.scope = "TEAM" /\ IsTeamMember(org, u, reply.team)

CanManageReply(org, u, reply) ==
  \/ reply.scope = "PERSONAL" /\ reply.owner = u
  \/ reply.scope \in {"WORKSPACE", "TEAM"} /\ IsAdmin(org, u, reply.workspace)
  \/ /\ reply.scope = "TEAM" /\ reply.team # None
     /\ org.manager[reply.team] = u \/ IsTeamSupervisor(org, u, reply.team)

CreatedReply(org, u, data) ==
  LET scope == Given(data, "scope", "PERSONAL")
      team == IF scope = "TEAM" THEN Given(data, "team", None) ELSE None
      NewReply(w) ==
        [workspace |-> w, scope |-> scope, team |-> team,
         owner |-> IF scope = "PERSONAL" THEN u ELSE None,
         is_active |-> Given(data, "is_active", TRUE)]
  IN  {r \in {NewReply(w) : w \in Resolved(org, u, Given(data, "workspace", None))} :
         \/ scope = "PERSONAL"
         \/ /\ scope = "TEAM" /\ IsTeamMember(org, u, team)
            /\ org.home[team] = r.workspace
         \/ scope = "WORKSPACE" /\ IsAdmin(org, u, r.workspace)}

\* The queryset, then the object's permission, then QuickReplySerializer.
UpdatedReply(org, u, reply, data) ==
  {r \in {[f \in DOMAIN reply |-> IF f = "workspace" THEN reply[f] ELSE Given(data, f, reply[f])]} :
     /\ CanSeeReply(org, u, reply) /\ CanManageReply(org, u, reply)
     /\ \A f \in {"scope", "owner", "team"} \cap DOMAIN data : data[f] = reply[f]}

-----------------------------------------------------------------------------
(* Teams and presence                                                      *)

\* update_or_create: a former member is active again, with the new role.
AddedMember(org, u, team, user, role) ==
  {o \in {[org EXCEPT !.member[team][user] = role]} :
     /\ IsAdmin(org, u, org.home[team])
     /\ org.role[user][org.home[team]] # None
     /\ role \in {"MEMBER", "SUPERVISOR"}}

RemovedMember(org, u, team, user) ==
  {o \in {[org EXCEPT !.member[team][user] = None]} : IsAdmin(org, u, org.home[team])}

PresenceStatuses == {"ONLINE", "AWAY", "BUSY", "DO_NOT_DISTURB", "OFFLINE"}
OnlineStaleAfter == 2
AwayStaleAfter == 10

\* age is in minutes since last_active_at.
EffectiveStatus(presence) ==
  IF presence.status \in {"OFFLINE", "BUSY", "DO_NOT_DISTURB"} THEN presence.status
  ELSE IF presence.age > AwayStaleAfter THEN "OFFLINE"
  ELSE IF presence.age > OnlineStaleAfter THEN "AWAY"
  ELSE presence.status

\* touch_presence; an operator without a row has the status None.
Touched(presence, explicit) ==
  [status |-> IF explicit # None THEN explicit
              ELSE IF presence.status = None THEN "ONLINE" ELSE presence.status,
   age |-> 0]

=============================================================================
