----------------------------- MODULE MCSlaClock -----------------------------
(* One visitor socket, one dashboard socket, one REST request and two      *)
(* overlapping evaluators; the calendar is open two ticks of every three,  *)
(* with a holiday and an exceptional working day.                          *)
EXTENDS SlaClock, TLC

CONSTANT Unset

Rules == INSTANCE SlaRules

Shop == [weekly |-> << <<<<0, 2>>>>, <<<<0, 1>>, <<2, 3>>>>, <<>> >>,
         holidays |-> [d \in {3, 5} |->
           IF d = 3 THEN [working |-> FALSE, hours |-> <<>>]
           ELSE [working |-> TRUE, hours |-> <<1, 3>>]]]

Targets == [c \in Clocks |-> IF c = "resolution" THEN 2 ELSE 1]

\* The deadlines the shop's calendar gives, as a table that TLC need not
\* compute again in every state, and what it is a table of.
ShopDeadline ==
  [c \in Clocks |-> IF c = "resolution" THEN (0 :> 2 @@ 1 :> 4 @@ 2 :> 6)
                   ELSE (0 :> 1 @@ 1 :> 2 @@ 2 :> 4)]

ASSUME ShopDeadlineIsComputed ==
  \A c \in Clocks, t \in 0..MaxTime :
    ShopDeadline[c][t] = Rules!AddBusinessMinutes(t, Targets[c], Shop, 3, 6)

\* add_business_minutes() against what it is for: at its answer exactly the
\* given number of open ticks has gone by since start, the last of them just
\* now; a calendar that is never open gives plain minutes.
Open(calendar, t) ==
  \E day \in 0..9 : LET windows == Rules!WorkingWindows(calendar, day, 3)
                    IN \E i \in DOMAIN windows :
                         windows[i][1] <= t /\ t < windows[i][2]
Closed == [Shop EXCEPT !.weekly = << <<>> >>, !.holidays = <<>>]

ASSUME BusinessMinutesAreOpenTime ==
  \A start \in 0..8, minutes \in 1..4 :
    LET due == Rules!AddBusinessMinutes(start, minutes, Shop, 3, 6)
    IN /\ Open(Shop, due - 1)
       /\ Cardinality({t \in start..due - 1 : Open(Shop, t)}) = minutes
       /\ Rules!AddBusinessMinutes(start, minutes, Closed, 3, 6) = start + minutes

\* select_policy() picks a policy that applies, none that applies is more
\* specific, and of equally specific ones the first of the query.
Policies == [active : BOOLEAN, queue : {Unset, 1}, team : {Unset, 1},
             priority : {Unset, 1}]
ASSUME MostSpecificPolicyWins ==
  \A p \in Policies, q \in Policies :
    LET list == <<p, [p EXCEPT !.queue = 2], q>>
        here == [queue |-> 1, team |-> 1, priority |-> 2]
        chosen == Rules!SelectPolicy(list, here)
        fitting == {i \in 1..3 : Rules!Applies(list[i], here)}
    IN IF fitting = {} THEN chosen = 0
       ELSE /\ chosen \in fitting
            /\ \A i \in fitting :
                 \/ Rules!Specificity(list[i]) < Rules!Specificity(list[chosen])
                 \/ /\ Rules!Specificity(list[i]) = Rules!Specificity(list[chosen])
                    /\ chosen <= i

-----------------------------------------------------------------------------
(* The rules the service is operated by                                    *)

Ops == INSTANCE OperationsRules WITH None <- Unset

DeployEnvironments ==
  [environment : {"development", "staging", "prod"}, debug : {"unset", "on", "off"},
   secret : BOOLEAN, hosts : {Unset, {}, {"*"}, {"chat"}}, csrf_origins : {{}, {"o"}},
   cors_origins : {{}, {"o"}}, database_url : BOOLEAN, db_host : {FALSE},
   redis_url : {FALSE}, redis_host : BOOLEAN, monitoring_token : BOOLEAN,
   ssl_redirect : {"unset", "off"}]

Components == [database : BOOLEAN, redis : BOOLEAN, migrated : BOOLEAN]

\* Whatever the environment variables are, a deployment that starts shows no
\* internals: no debug pages, no open host or origin list, and neither its
\* monitoring nor why it is not ready to who has not the token. "Must never
\* report ready when the database or Redis is unreachable" (common/views.py:88).
\* A checkout with nothing set starts.
ASSUME DeploymentsTellNothing ==
  /\ \A env \in DeployEnvironments : \A s \in Ops!Settings(env) : s.strict =>
       /\ ~s.debug /\ ~s.cors_all /\ "*" \notin s.hosts /\ s.own_secret /\ s.secure_cookies
       /\ \A token \in {Unset, "wrong"} :
            /\ Ops!MonitoringAnswer(s, token, 9, <<>>, 1, {}, 1) = {}
            /\ \A c, d \in Components :
                 LET answer == Ops!Readiness(s, c, token)
                 IN /\ answer.ready => Ops!Healthy(c)
                    /\ answer.ready = Ops!Readiness(s, d, token).ready
                         => answer = Ops!Readiness(s, d, token)
  /\ \A env \in DeployEnvironments :
       env.environment = "development" => Ops!Settings(env) # {}

\* A scheduler whose command takes up to four intervals is never called stale
\* between two of its heartbeats, and one that hangs is, five intervals after
\* the last of them.
ASSUME PunctualSchedulersAreFresh ==
  \A interval \in 1..2 : \A runs \in [1..3 -> 0..4 * interval] :
    LET beats == Ops!Heartbeats(runs, interval)
        Stale(at) == Ops!SchedulerIsStale(Ops!HeartbeatAt(beats, at), interval, at)
    IN /\ \A at \in beats[1]..beats[3] : ~Stale(at)
       /\ Stale(beats[3] + 5 * interval + 1)

\* Over any stretch of one window's length a socket gets at most twice the
\* limit through, and who keeps to the limit over every such stretch is never
\* refused; without Redis nobody is.
CallTimes == {t \in [1..5 -> 0..6] : \A i \in 1..4 : t[i] <= t[i + 1]}
ASSUME RateIsBounded ==
  \A times \in CallTimes, limit \in 1..2 :
    LET window == 3
        passed == Ops!LetThrough(times, limit, window, {})
        During(calls, t) == {i \in calls : times[i] \in t..t + window - 1}
    IN /\ \A t \in 0..6 : Cardinality(During(passed, t)) <= 2 * limit
       /\ (\A t \in 0..6 : Cardinality(During(1..5, t)) <= limit) => passed = 1..5
       /\ Ops!LetThrough(times, limit, window, 0..6) = 1..5

\* The summary agrees with what its links lead to and with what routing goes
\* by: the unassigned and the breached of the summary are those of the inbox
\* that are still active, a clock that is running out and was not answered
\* shows in both, every active conversation of a queue is counted in
\* it, and an agent it shows at capacity gets no conversation.
SlaMarks == [notified : {TRUE}, breached : BOOLEAN, answered : {FALSE}]
Rows == [id : {1, 2}, customer : BOOLEAN, status : {"OPEN", "WAITING_FOR_PLATFORM", "RESOLVED"},
         priority : {"URGENT"}, assignee : {Unset, "a"}, queue : {Unset, "q"},
         sla : [{"first"} -> SlaMarks]]
AnyFilter == [priority |-> Unset, assignee |-> Unset, unassigned |-> FALSE, sla |-> Unset]

ASSUME SummaryMirrorsInbox ==
  \A x \in {r \in Rows : r.id = 1}, y \in {r \in Rows : r.id = 2}, capacity \in 1..2 :
    LET all == {x, y}
        sum == Ops!Summary(all, {"q"}, [a \in {"a"} |-> capacity])
        Active(cs) == {c \in cs : c.status \notin Ops!TerminalStatuses}
    IN /\ sum.unassigned = Active(Ops!Inbox(all, [AnyFilter EXCEPT !.unassigned = TRUE]))
       /\ sum.breached = Active(Ops!Inbox(all, [AnyFilter EXCEPT !.sla = "breached"]))
       /\ sum.approaching \subseteq Ops!Inbox(all, [AnyFilter EXCEPT !.sla = "approaching"])
       /\ \A c \in Active(all) : c.customer /\ c.queue # Unset => c \in sum.by_queue[c.queue]
       /\ ("a" \in sum.at_capacity) <=> Ops!IsAtCapacity(all, "a", capacity)

Plan == Ops!SeedSteps(<<"owner">>, <<"team">>)
SeedOps == {<<"run", n>> : n \in 0..Len(Plan)} \cup {<<"change", "owner">>, <<"change", "team">>}
SeedAfter(ops) ==
  LET empty == [rows |-> <<>>, passwords |-> <<>>, file |-> {}]
      After[n \in 0..Len(ops)] ==
        IF n = 0 THEN empty
        ELSE LET db == After[n - 1]
             IN  IF ops[n][1] = "run" THEN Ops!Seeded(db, Plan, ops[n][2], "staging", TRUE)
                 ELSE [db EXCEPT !.rows = [x \in DOMAIN @ |-> IF x = ops[n][2] THEN "changed" ELSE @[x]],
                                 !.passwords = [x \in DOMAIN @ |-> IF x = ops[n][2] THEN "changed" ELSE @[x]]]
  IN  After[Len(ops)]

\* However often the staging data is seeded, and wherever a run dies: another
\* run completes it, and takes back nothing that was changed by hand since; who
\* can log in does so with the password given to them or their own, and nobody
\* is left without one unless a run died right before it. The file holds the
\* passwords its own run made, and no others. Production, and who did not say
\* yes, is never seeded.
ASSUME SeedingIsRepeatable ==
  \A ops \in UNION {[1..k -> SeedOps] : k \in 0..4} :
    LET before == SeedAfter(ops)
        after == Ops!Seeded(before, Plan, Len(Plan), "staging", TRUE)
        DiedBefore(step) == \E n \in DOMAIN ops : /\ ops[n][1] = "run" /\ ops[n][2] + 1 \in DOMAIN Plan
                                                  /\ Plan[ops[n][2] + 1] = step
    IN  /\ DOMAIN after.rows = {"owner", "team"}
        /\ \A x \in DOMAIN before.rows : after.rows[x] = before.rows[x]
        /\ \A x \in DOMAIN before.passwords : after.passwords[x] = before.passwords[x]
        /\ after.file = DOMAIN after.passwords \ DOMAIN before.passwords
        /\ "owner" \in DOMAIN after.passwords \/ DiedBefore(<<"password", "owner">>)
        /\ Ops!Seeded(before, Plan, Len(Plan), "production", TRUE) = before
        /\ Ops!Seeded(before, Plan, Len(Plan), "staging", FALSE) = before
=============================================================================
