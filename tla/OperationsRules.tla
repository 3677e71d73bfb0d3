--------------------------- MODULE OperationsRules ---------------------------
(***************************************************************************)
(* What keeps the service operable: the settings a process accepts before  *)
(* it starts (config/settings.py), the health, readiness and monitoring    *)
(* answers (common/views.py), the rate limit of the sockets                *)
(* (common/ws_throttling.py), and the supervisor's summary beside the      *)
(* inbox it summarises (conversations/views.py), and the seeding commands. *)
(*                                                                         *)
(* An environment is a record of what the variables amount to: a set for a *)
(* comma separated list, a truth value for whether a value was supplied,   *)
(* and "unset", "on" or "off" for a switch.                                *)
(***************************************************************************)
EXTENDS Integers, FiniteSets, Sequences, SequencesExt

LOCAL INSTANCE TLC

CONSTANT None

-----------------------------------------------------------------------------
(* Settings                                                                *)

Environments == {"development", "staging", "production"}
IsProductionLike(env) == env.environment \in {"staging", "production"}

Switch(value, default) == IF value = "unset" THEN default ELSE value = "on"

Loopback == {"127.0.0.1", "localhost"}

\* A list that was not set has a default; one that is set and empty has not.
AllowedHosts(env) ==
  IF env.hosts = None THEN (IF IsProductionLike(env) THEN {} ELSE {"*"})
  ELSE env.hosts

\* A strict environment starts only with every one of these supplied.
Required(env) ==
  /\ env.secret /\ env.monitoring_token
  /\ AllowedHosts(env) # {} /\ "*" \notin AllowedHosts(env)
  /\ env.csrf_origins # {} /\ env.cors_origins # {}
  /\ env.database_url \/ env.db_host
  /\ env.redis_url \/ env.redis_host

Debug(env) == Switch(env.debug, ~IsProductionLike(env))

\* The settings of a process that starts; none where it refuses to.
Settings(env) ==
  {s \in {[strict |-> IsProductionLike(env),
           debug |-> Debug(env),
           own_secret |-> env.secret,
           hosts |-> AllowedHosts(env) \cup Loopback,
           cors_all |-> ~IsProductionLike(env) /\ env.cors_origins = {},
           monitoring_token |-> env.monitoring_token,
           ssl_redirect |-> IsProductionLike(env) /\ Switch(env.ssl_redirect, TRUE),
           secure_cookies |-> IsProductionLike(env)]} :
     /\ env.environment \in Environments
     /\ IsProductionLike(env) => ~Debug(env) /\ Required(env)}

-----------------------------------------------------------------------------
(* Health                                                                  *)

\* A request carries the right token, another one, or None.
IsAuthorizedMonitor(settings, token) == settings.monitoring_token => token = "right"

Live(components) == TRUE
Healthy(components) == components.database /\ components.redis
Ready(components) == Healthy(components) /\ components.migrated

\* The answer of ReadinessView: what is down, and why for those who may know.
Readiness(settings, components, token) ==
  [ready |-> Ready(components),
   why |-> IF IsAuthorizedMonitor(settings, token)
           THEN {c \in DOMAIN components : ~components[c]} ELSE {}]

\* A scheduler without a heartbeat, or with one five intervals old.
StaleAfter == 5
SchedulerIsStale(heartbeat, interval, now) ==
  heartbeat = None \/ now - heartbeat > StaleAfter * interval

\* docker-scheduler-loop.sh: run the command, however it ends, write the
\* heartbeat, wait an interval. The heartbeats of a sequence of run times.
Heartbeats(runs, interval) ==
  FoldLeft(LAMBDA beats, run :
             Append(beats, run + (IF beats = <<>> THEN 0 ELSE Last(beats) + interval)),
           <<>>, runs)

HeartbeatAt(beats, now) ==
  LET past == {i \in DOMAIN beats : beats[i] <= now}
  IN IF past = {} THEN None ELSE beats[Max(past)]

\* The newest backup counts, and none at all is stale.
BackupIsStale(ages, maxAge) == \A age \in ages : age > maxAge

MonitoringAnswer(settings, token, now, beats, interval, ages, maxAge) ==
  {answer \in {[scheduler |-> SchedulerIsStale(HeartbeatAt(beats, now), interval, now),
                backup |-> BackupIsStale(ages, maxAge)]} :
     IsAuthorizedMonitor(settings, token)}

-----------------------------------------------------------------------------
(* The sockets' rate limit                                                 *)

\* _is_rate_limited: a counter per window of the wall clock, which counts
\* refused calls too. Which of a sequence of calls, given by their times,
\* are let through; a call at a time in outage finds no Redis.
LetThrough(times, limit, window, outage) ==
  {i \in DOMAIN times :
     \/ times[i] \in outage
     \/ Cardinality({j \in 1..i : /\ times[j] \notin outage
                                  /\ times[j] \div window = times[i] \div window}) <= limit}

-----------------------------------------------------------------------------
(* Inbox and summary                                                       *)

ActiveStatuses == {"OPEN", "PENDING", "WAITING_FOR_WORKSPACE", "WAITING_FOR_PLATFORM"}
TerminalStatuses == {"CLOSED", "RESOLVED"}

\* What a clock of the conversation has on record.
IsBreached(c) == \E k \in DOMAIN c.sla : c.sla[k].breached

\* CustomerConversationViewSet.get_queryset: the filters of the inbox. A
\* clock that was answered is no longer approaching; the next response, which
\* has no such record, is until its warning is cleared.
Inbox(conversations, filter) ==
  {c \in conversations :
     /\ c.customer
     /\ filter.priority \in {None, c.priority}
     /\ filter.assignee \in {None, c.assignee}
     /\ filter.unassigned => c.assignee = None
     /\ filter.sla = "breached" => IsBreached(c)
     /\ filter.sla = "approaching" =>
          \E k \in DOMAIN c.sla : c.sla[k].notified /\ ~c.sla[k].answered}

\* OperationalSummaryView: what is counted, of the queues in use (by_team is
\* the same of the teams). Load counts every conversation of an agent,
\* customers' or not.
Summary(conversations, queues, agents) ==
  LET active == {c \in conversations : c.customer /\ c.status \in ActiveStatuses}
      Load(a) == {c \in conversations : c.assignee = a /\ c.status \notin TerminalStatuses}
  IN [unassigned |-> {c \in active : c.assignee = None},
      urgent |-> {c \in active : c.priority = "URGENT"},
      approaching |-> {c \in active :
                         \E k \in DOMAIN c.sla : c.sla[k].notified /\ ~c.sla[k].breached},
      breached |-> {c \in active : IsBreached(c)},
      by_queue |-> [q \in queues |-> {c \in active : c.queue = q}],
      at_capacity |-> {a \in DOMAIN agents : Cardinality(Load(a)) >= agents[a]}]

\* OperatorPresence.active_conversation_count and is_at_capacity, which
\* routing and claims go by.
IsAtCapacity(conversations, agent, capacity) ==
  Cardinality({c \in conversations :
                 c.assignee = agent /\ c.status \notin TerminalStatuses}) >= capacity

-----------------------------------------------------------------------------
(* Seeding (seed_staging_data.py, seed_data.py): a plan of rows known by   *)
(* their natural keys, of which accounts also get a password. db.rows are  *)
(* the rows by key, db.passwords those of the accounts that have one,      *)
(* db.file is what the credentials file says.                              *)

\* get_or_create: a row that is there is left as it is.
SeedRow(run, key) ==
  IF key \in DOMAIN run.db.rows THEN run
  ELSE [run EXCEPT !.db.rows = (key :> "seeded") @@ @, !.created = @ \cup {key}]

\* make_user sets a password for an account this run created, and notes it.
SeedPassword(run, key) ==
  IF key \notin run.created THEN run
  ELSE [run EXCEPT !.db.passwords = (key :> "generated") @@ @, !.noted = @ \cup {key}]

\* The file is written anew at the end of every run.
SeedFile(run) == [run EXCEPT !.db.file = run.noted]

SeedSteps(accounts, others) ==
  FlattenSeq([i \in 1..Len(accounts) |-> <<<<"row", accounts[i]>>, <<"password", accounts[i]>>>>])
    \o [i \in 1..Len(others) |-> <<"row", others[i]>>] \o <<<<"file", None>>>>

\* The database after a run that got through the first n of its steps; none
\* of them is in a transaction with another.
Seeded(db, steps, n, environment, yes) ==
  LET Step(run, step) ==
        CASE step[1] = "row" -> SeedRow(run, step[2])
          [] step[1] = "password" -> SeedPassword(run, step[2])
          [] step[1] = "file" -> SeedFile(run)
  IN  IF environment = "production" \/ ~yes THEN db
      ELSE FoldLeft(Step, [db |-> db, created |-> {}, noted |-> {}], SubSeq(steps, 1, n)).db
=============================================================================
