# TLA+ verification of RastiChat

RastiChat is a multi-tenant customer-chat platform: a Django/Channels backend
(`src/backend`), two React dashboards, and an embeddable chat widget. This
directory holds its formal model: TLA+ modules translated from the source, TLC
configurations that check them on small instances, and TLAPS proofs.

Contents: [the system](#1-the-system) · [hard behaviours](#2-what-is-hard) ·
[modules](#3-modules) · [runs](#4-runs) · [bounds](#5-bounds) ·
[fairness](#6-fairness) · [proofs](#7-proofs) · [known limits](#8-known-limits) ·
[not modelled](#9-not-modelled) · [plan](#10-plan) · [running](#11-running)

## 1. The system

All state is in Postgres. Three kinds of processes work on it: request handlers
and WebSocket consumers (any number), and management commands started by a
scheduler: `process_automation_jobs` (scheduled actions) and `evaluate_sla`.
Nothing serialises them but row locks (`select_for_update`), unique constraints
and single SQL statements, so that is what the models are made of. Broadcasts go
through Channels groups, which forget what nobody was there to hear.

| Component | State | Operations | Talks to | What makes it correct |
|---|---|---|---|---|
| **Action slots** `automations/idempotency.py:87-127` | `AutomationCorrelationCounter`, `AutomationActionSlotReservation` | `reserve_action_slot` | called by the engine and by scheduled jobs | never more than 40 actions in a chain (`engine.py:38`); a slot granted is never charged twice or forgotten; refused only when full |
| **Side-effect ledger** `idempotency.py:24-84` | `AutomationActionSideEffect` | `run_idempotent` | wraps every action's call of a service | an effect happens once per key, or once more for each record that was lost; an answer "done" means done; a dead worker's reservation does not block for ever |
| **Scheduled actions** `process_automation_jobs.py`, `scheduling.py`, `views.py:260-278` | `ScheduledAction`, `AutomationExecution` | schedule, cancel, admin cancel, recover, scan, claim, guard, run, finish, fail | slots, ledger | every attempt is claimed for one worker; attempts and a rule's successes are bounded; no outcome is made up; every job settles |
| **Automation engine** `engine.py`, `events.py` | `AutomationEvent`, `AutomationExecution`, the call stack of the publishing process | publish, record, match, run rules, recurse | slots, ledger, scheduled actions, assignment | depth, same-rule guard and slots bound a chain; every event settles |
| **Conditions, schema, templating, simulation** `automations/` | none | validate, evaluate, simulate, render | engine | a dry run says what the engine will; validation bounds evaluation |
| **Assignment** `conversations/services.py`, `queues/services.py`, `accounts/models.py` | `Conversation` (assignee, team, queue, status), `Assignment` history, `OperatorPresence` row locks | claim, assign, auto-assign, route, return, escalate, unassign, transfer, close, reopen, set status, `PATCH` | events, SLA clocks, notifications | capacity of claims and escalations; nobody's conversation is taken; the history tells the assignee; requests end |
| **SLA** `sla/services.py`, `evaluate_sla.py` | `ConversationSLA`: first-response, next-response and resolution clocks | start, answer, restart, resolve, reopen; announce approaching and breached | called by services and consumers; the evaluator alerts and escalates | one alert on record per deadline, one more on open pages for each run that died after it; a breach is of the deadline on record; an overdue clock is announced |
| **Macros** `macros/` | `Macro`, `MacroExecution`, one record per action | create, change, preview, run, resume by key, retry | assignment services, messages, articles | a success is one of every action; a message is sent once; what else is repeated, and why |
| **Knowledge base** `knowledge_base/` | `KnowledgeBaseArticle`, revisions, views, feedback, categories | edit, publish, archive, restore, delete, view, vote, share; public pages, search, render | conversations (cards) | what is shown was some revision; views not overcounted; the public sees what is published |
| **Conversations and messages** `conversations/views.py`, `consumers.py` | `Conversation`, `Message`, receipts, rating | start chat, send, note, upload, rate, mark read, support | visitors, SLA, events | one message per `client_message_id`; every message shown once, to the right side |
| **Chat widget** `packages/widget` | the page: bubbles, ids drawn, socket | load, history, send, reconnect | conversations | draws each message once, lacks only what it missed |
| **Notifications, presence, collaboration** | notifications, presence, quick replies, mentions | create, mark read, touch, decay | best-effort broadcast | heard by whom they are for |
| **Teams, queues, workspaces, catalog, customer context** | reference data | create, change, delete | read by all of the above | tenancy: references stay in their workspace |
| **Common, configuration, commands** | settings, health, heartbeats, rate limit, seeding | start, answer, seed | - | a deployment tells nothing; a seeding can be repeated |

`PROJECT.json` lists each with its files and status.

## 2. What is hard

The hazards, each at its line, are in `PROJECT.json`. In short:

* **Unlocked check, later write.** Capacity before `assign`'s transaction, the
  same-rule guard before an action, the admin's cancel, the candidates of an
  escalation, `client_message_id` before the insert, the copy of an article, or
  of a conversation that is PATCHed, before its `save()`.
* **Processes that die between two commits.** Between an effect and its ledger
  row or macro record; between the execution's success and the job's; between a
  domain commit and the events it publishes; between an SLA alert and its commit.
* **Processes that live too long.** A worker whose lock was broken as stale and
  who then writes its outcome by primary key; a lock stamped with the start of
  the invocation; a consumer whose `conversation.sla` is hours old.
* **Two runners of one thing.** Overlapping evaluators, overlapping job
  processors, a macro execution resumed while it runs.
* **Row locks held while waiting for others.** Escalation locks presence rows
  one by one and keeps those it passed over.
* **Two transactions that ought to be one.** `return_to_queue` then
  `auto_assign`; close then `mark_resolved`.
* **Recursion.** An action publishes an event that runs rules inside the action.
* **Lost messages.** A socket that is down when a message is broadcast; an event
  type the consumer does not know, which closes the socket.
* **Long sequences.** Operations that write the assignee and its history row
  separately; changes of references that must stay in one workspace.

## 3. Modules

Each component that runs concurrently has a module of actions; what is computed
within one request is a module of operators (`*Rules`), checked against a
reference definition by ASSUMEs of an MC module.

| Module | Code | State, or operators |
|---|---|---|
| `BoundedSlots` | abstract: an allocator of at most `Limit` slots per correlation, one atomic step per request | `granted` |
| `ActionSlots` | `reserve_action_slot`, statement by statement | counter and reservation rows, row locks, what each transaction has read |
| `SideEffectLedger` | `run_idempotent`, statement by statement | ledger rows, each call's stage, key, time and round |
| `ScheduledActions` | `ScheduledAction`'s life; instantiates `BoundedSlots` for its slots | rows, each invocation's scans, claimed job and in-memory attempts |
| `AutomationEngine` | `events.py`, `engine.py` on one correlation | events, execution rows, each process's stack of events, jobs, slots |
| `ConditionRules` | `conditions.py`, `schema.py`, `simulation.py`, `templating.py` | operators |
| `ConversationAssignment` | the assignment and queue services | conversations, last history row, conversation and presence row locks, each request's stage |
| `SlaClock` | `sla/services.py`, the `evaluate_sla` command | the row, the copies processes hold of it, the lock, alerts |
| `SlaRules` | policy selection, business minutes | operators |
| `MacroExecution` | `macros/services.py`, `macros/actions.py` | execution, action records, effects, each request |
| `KnowledgeArticle` | `knowledge_base/services.py` and views | article, revisions, votes, views, each request's copy |
| `KnowledgeRules` | categories, search, Markdown blocks, uploads, public pages, feedback, cards | operators |
| `ChatDelivery` | message handlers, consumers, `main.ts` | rows, each call's stage, the widget page, the dashboard's socket |
| `ChatRules` | visitors, starting a chat, receipts, priorities, mentions, branding, presence groups, message templates, platform support | operators |
| `WorkspaceRules` | roles and tenancy, macros and quick replies, team membership, presence | operators |
| `ApiRules` | REST resources: who may read, create, change them, and what they may refer to | operators, on top of `WorkspaceRules` |
| `OperationsRules` | settings, health and monitoring, rate limit, inbox and summary, seeding | operators |
| `Filtering` | `.filter(...)` on an ordered query set | operator |
| `ActionSlots_proofs`, `SideEffectLedger_proofs`, `ScheduledActions_proofs`, `AutomationEngine_proofs`, `ConversationAssignment_proofs`, `SlaClock_proofs` | theorems about the module of the name | - |
| `CustomerView_proofs` | theorems about `KnowledgeArticle`, `KnowledgeRules` and `ChatDelivery` | - |
| `Workspace_proofs` | theorems about `MacroExecution`, `WorkspaceRules` and `ApiRules` | - |
| `MC*` | values of the constants for TLC, and the ASSUMEs | - |

**ActionSlots.** `LockCounter` is `select_for_update` on the counter row (waits
while another transaction holds it); `FindReservation` is the re-entry by key;
`RefuseSlot` the limit; `InsertReservation` and `CommitSlot` the two writes.
Writes are invisible until commit, so the reservation row appears only in
`CommitSlot`, together with the counter. `Crash` rolls back. A call may be
repeated with the same key for ever. The refinement to `BoundedSlots` maps
`granted` to the committed reservations: granting is the commit.

**SideEffectLedger.** Each action is one autocommitted statement: `Reserve` (the
INSERT wins), `Collide` (IntegrityError), `Look` (reads the winner's row and
decides: answer, reclaim, or give up), `Reclaim` (DELETE by id, only if still
not completed), `Perform`/`Raise` (`fn()`, which may raise before its effect or after
it), `Undo`, `Complete`. `round` is the loop over `range(2)`. `effects` and
`unrecorded` are history variables no action reads: how often an effect
happened, and how many of them left no record, because the worker died before
it or `fn()` raised after its commit (`LoseRecord`).

**ScheduledActions.** `StartRun` takes the invocation's `now` once, as
`handle()` does; `ScanStale`/`RecoverOne` are the sweep (an unlocked scan, then
a locked look at the status only); `ScanDue` takes a batch in `execute_at`
order; `Claim`/`PassOver` the locked check; `Guard`, `ReserveSlot`, `Execute`,
`RecordSuccess`, `Finish`, `Skip`, `Fail` are `_run_job`. `Finish`, `Skip` and
`Fail` write by primary key whatever the row says by then, `Fail` on the
attempts in memory. `AdminRead`/`AdminSave` are the cancel endpoint's two
statements. SKIP LOCKED needs no lock variable (the module's header says why).
`succeeded` is the set of recorded successes, each a job and the number of the
attempt.

**ConversationAssignment.** A request is a sequence of steps cut where it waits
for a lock or runs outside a transaction: claim = `ClaimConversation` (row
lock), `CheckClaimant` (the presence row's UPDATE, then the count), `CommitClaim`;
assign = `RequireCapacity` (before the transaction), `Reassign`; automatic
assignment = `AutoConversation`, `ScanQueue` for each queue of the fallback
chain, `CommitAuto`; escalate = `BeginEscalate` (the supervisors of the team as
loaded, by their position in that team's order), `EscalateConversation`,
`TryCandidate` in order of position, `CommitEscalation` or `OutOfCandidates`.
The operations with one lock and no second wait are one step. `BeginUpdate` and
`CommitUpdate` are the viewset's `PATCH`: the conversation as it was read,
without a lock, and the `UPDATE` of every column with what was read, the fields
of the request aside; no history row.
`route_to_queue` and `return_to_queue` commit and then *begin* an automatic
assignment, with the queue they saw. Postgres is modelled by `convLock`,
`presenceLock`, rollback in `Crash`, and the abort of one transaction of a lock
cycle in `AbortVictim`. The pick among eligible agents (random, least active,
round robin) is any eligible agent: the properties hold, or fail, for each.

**AutomationEngine.** `publish_event` runs on commit in the publishing process,
so a process is a stack of frames, one per event, and a frame is at the event
(`Receive`: row, depth, slots used up), a rule's same-rule `Guard`, its
condition (`Evaluate`), its row (`Match`), its slot, its action, or inside an
action that published events. An action publishes none, one or a sequence of
them (`CLOSE_CONVERSATION` and `RETURN_TO_QUEUE` two): `ActAndPublish` pushes a
frame for the next of them as often as the action publishes, `ActionReturns`
continues below, `FinishRule` writes the outcome and ends the event if the rule
says so. `ActSchedule` leaves a job that a worker takes (`TakeJob`) and whose
events are one link deeper (`JobPublishes`, `JobEnds`). `InternalError` is an exception that ends the event,
`Crash` loses the stack, `SetActive` an editor. `hops` counts links
independently of `depth`; it, `listed`, `bounded` and `lost` are there for the
properties.

**SlaClock.** A service call is queued by what happened (`VisitorMessage`,
`OperatorReply`, `Close`, `Reopen`, `SetStatus`), decides on the copy of the row
its process holds (`Decide`; `PassOver` is its early return) and saves the
columns of its `update_fields` only (`Save`, `Patched`). A consumer keeps its
copy until it reconnects, a request re-reads. The evaluator lists without a lock
at the `now` of its start (`List`), takes the row lock and reads again
(`LockRow`), pushes its alerts to the open pages, one clock after the other
(`Announce`), and saves and commits (`Commit`): a run that dies in between has
alerted without leaving the mark. `pushed`, `stored` and `undone` count the
alerts of a deadline that reached the pages, that were committed, and that were
pushed by a run that died.

**MacroExecution.** `Create`/`FindExisting`/`Retry` are the three ways in,
`Begin` reads which actions succeeded, then each remaining action checks
(`CheckMessage`; a card looks for its article first and fails without it, sent
before or not), inserts (`InsertMessage`) or calls a service (`CallService`)
and its result is recorded (`Record`); `Aggregate` computes the status,
`SaveStatus` and `Tally` write it. Nothing is locked, and every statement is
cut, so requests interleave anywhere. The ghosts `lost` and `overlaps` count an
action's effects that left no record of success, and the requests that began
while another was at work.

**KnowledgeArticle.** `Load` is the view's unlocked read; the service then saves
the whole copy (`ChangeContent`, `ChangeDetails`, `Restore`) or one column
(`SetStatus`); `InsertView`/`CountView` are the two statements of `record_view`.
A `save()` of a deleted row inserts it again, as Django does.

**ChatDelivery.** A call is one of seven kinds; `Check` is the unlocked look for
its `client_message_id`, `Limit` the automation's rate limit, `Insert` the row
(or the IntegrityError), `Effect` the broadcasts and the rating column, in the
handler's order (`Effects`). The page has a history request in two halves
(`ReadHistory`, `ShowHistory`), a socket that is accepted before it joins its
group (`Accept`, `JoinGroup`) and a reconnect without history; `Rendered` is the
widget's test by id. The dashboard's socket is opened by `Select` only.

## 4. Runs

Passing runs:

| Run | Question | Properties |
|---|---|---|
| `slots` | Can the cap be passed, lost to a crash, or refuse early? Is it an atomic allocator? | `TypeOK` `SlotsWithinLimit` `GrantedIsDurable` `RefusedOnlyWhenFull` `ImplementsBoundedSlots` `CallsAnswered` |
| `ledger` | When can an effect happen twice? Does a reservation end? | `TypeOK` `RepeatsOnlyAfterLostRecord` `OneRunner` `AnsweredIsDone` `RecordIsFinal` `ReservationsEnd` |
| `scheduled` | Two invocations that overlap, both sweep and outlive their locks, an admin who cancels, a crash: what does the code keep? Does every job settle? | `TypeOK` `EveryAttemptIsOwn` `AttemptsBounded` `SuccessesWithinWorkers` `OutcomesEarned` `JobsSettled` |
| `engine` | Rules that trigger each other through requests, workers and jobs: what bounds them, and what may be lost? | `TypeOK` `SameRuleOnce` `ChainsBounded` `EventsSettled` |
| `assignment_desk` | Do claims and escalations keep capacity and a true history, and does every request end although lock orders cross? | `CapacityHolds` `HistoryTellsAssignee` `RequestsEnd` |
| `assignment_all` | All twelve operations together, `PATCH` included: does anyone lose a conversation to a claim or to automatic assignment? | `TypeOK` `NothingSnatched` |
| `sla` | Cached rows and unlocked saves against two evaluators that die between alert and commit: double alerts, wrong breaches, lost deadlines? | `TypeOK` `BreachFitsClock` `AlertsOnce` `OverdueAnnounced` |
| `macro` | Executed, resumed and retried by three requests that fail and die: is a success real, what is done twice, and why? | `SucceededIsDone` `MessagesOnce` `ServicesAccounted` |
| `articles` | Four endpoint calls on one article: can what is shown be reproduced from its revisions? | `Reproducible` `ViewsNotOvercounted` |
| `chat` | Any two message calls, lost sockets and history requests: does each page show each message once, and only what it may? | `ChatConsistent` `LacksOnlyMissed` `ShownOrMissed` |

Two runs find a promise of the repository broken by the code (`PROJECT.json`
"findings" quotes it):

| Run | Violates | Promise | How |
|---|---|---|---|
| `ledger_crash` | `AtMostOnce` | "at most once ... including across process crashes" (`idempotency.py:25-27`) | a worker dies after the effect and before the record; the reservation goes stale, is reclaimed, and the effect happens again |
| `macro_double_click` | `RecordedNeverRerun` | a second call with the key "returns the ALREADY-COMPLETED execution without running anything again" (`macros/services.py:146-148`) | the first call is still running, so the execution is PENDING and the second call runs its actions too |

The same two components have a passing run, whose properties say what is left of
the promise: every repetition is paid for by a lost record
(`RepeatsOnlyAfterLostRecord`), or by one or an overlapping request
(`ServicesAccounted`). More promises that the code does not keep, with the
change to a configuration that shows each, are in section 8.

Every property of a passing run has a mutant in `PROJECT.json`: an operator of
the same module, marked `Mutant:`, that replaces a mapped definition the way a
plausible bug would, and makes TLC find the property violated.

### Rules checked by ASSUMEs

Operators have no behaviour to explore: the ASSUMEs of the MC modules compare
them with a definition of what they are for, or with each other, on all inputs
from small sets, often on all short sequences of requests. A starred one is also
a theorem of `Workspace_proofs` or `CustomerView_proofs`, for organisations and
trees of any size and requests without number (section 7).

| Module (run) | ASSUME | What it says |
|---|---|---|
| `MCSlaClock` (`sla`) | `ShopDeadlineIsComputed`, `BusinessMinutesAreOpenTime` | a deadline is the minute at which that much open time has passed |
| | `MostSpecificPolicyWins` | no applicable policy is more specific than the one chosen |
| | `DeploymentsTellNothing` | whatever the environment, a strict process that starts shows no internals and no false readiness |
| | `PunctualSchedulersAreFresh` | a working scheduler is never stale, a hanging one soon is |
| | `RateIsBounded` | twice the limit at most in any window; who keeps to it is never refused |
| | `SummaryMirrorsInbox` | the supervisor's figures are those of the inbox |
| | `SeedingIsRepeatable` | another seeding completes a broken one and takes nothing back |
| `MCAutomationEngine` (`engine`) | `SimulationMirrorsEngine`, `NegativesNeedAValue`, `NormalizedIsStable` | a dry run says what the engine will; operators on missing values; keyword comparison |
| | `ValidationBoundsDepth` | what is accepted bounds the recursion of evaluation |
| `MCMacroExecution` (`macro`) | `CreatorsSeeTheirs`\*, `OnlyAdminsWiden`\*, `RepliesKeepReaders`\*, `AcceptedActionsRun`\*, `RunsAreSeen`\* | macros and quick replies: who finds, widens, runs them; accepted definitions do not fail for their form |
| | `TeamsStayHome`\*, `ReferencesStayHome`, `PoliciesAndRulesStayHome`, `RolesElsewhereChangeNothing`\*, `CreatorsFindTheirs` | tenancy: references stay in their workspace, roles count where they are held |
| | `FallbackChainsEnd`\*, `TenFallbacksAtMost` | queue fallbacks, under any sequence of changes |
| | `PresenceDecays`, `ReadingIsPersonal`, `PanelsAgree`, `DraftsSave`\* | presence, notifications, the customer panel, validated drafts |
| `MCKnowledgeArticle` (`articles`) | `CategoriesStayATree`\*, `ArticlesAreFound`, `RenderingKeepsLines`, `UploadsAgree` | the category tree, search, rendering, uploads |
| | `PublicPagesAgree`, `FeedbackCountsVisitors`, `CardsAreFrozen` | list, search and page show the same articles; votes; shared cards |
| `MCChatDelivery` (`chat`) | `ReceiptsTellWhoRead`, `ResponseTimesAreReal`, `PresenceIsTold` | what each side is told about the other |
| | `VisitorsComeBack`, `PriorityHistoryChains`, `ColleaguesOnly` | visitors and their conversation; priorities; mentions, assignment targets and presence groups |
| | `TemplatesAgree`, `SupportWaitsForTheOther` | the three template languages; support conversations |

## 5. Bounds

* `slots`: three workers (two that race and one that holds the lock or dies),
  one correlation, three keys for two slots, so that full, nearly full and
  re-entry all happen. Correlations share nothing but workers, and the theorems
  hold for any number of all of these.
* `ledger`: two workers and one key (keys share nothing), two crashes and two
  effects followed by an exception (`MaxLate`), a clock of 0..3 with a stale
  window of 1, so a reservation can go stale twice. Ids are reused once nobody
  remembers them; `MaxRows` leaves room for all that are remembered.
  `PromptCalls` is an *assumption of the run*: a call ends within the stale
  window. `ledger_crash` is the same without late exceptions.
* `scheduled`: two workers, both with the sweep, two siblings of one rule and
  chain, an admin, `MaxAttempts` 2, one crash, batches of one. Nothing is
  assumed about how long an invocation takes: `StaleAfter` is 0, so a lock goes
  stale with one tick of the clock and is stale at birth when that tick falls
  between an invocation's start and its claim. That suffices for a worker to
  outlive its lock, for two sweeps to break one, and for more attempts than the
  maximum. `Limit` 2 gives both siblings a slot, without which two
  could not succeed; that slots run out is the subject of `slots`, and the
  theorems hold for every limit. `Unrunnable` is empty: such a
  job takes the same path, `skip`, as one the same-rule guard stops.
* `engine`: a request and two workers, three rules: one on the message,
  two on the change of priority that it and the last of them cause, two of the
  three leaving jobs; depth 2, four slots, four events, one edit and one fault:
  depth, slots and the same-rule guard each stop a chain.
* `assignment_desk`: two conversations of two teams, two agents of capacity one
  who supervise both teams in opposite order: the smallest crossed order. Claims,
  escalations and returns are the operations that keep capacity and hold more
  than one lock or transaction; the theorem about the history covers all services.
* `assignment_all`: all operations and `PATCH` on one conversation, two callers,
  two teams, two automatic
  queues falling back on each other, as two simultaneous changes can leave them
  (section 8), so that the limit of five fallbacks is reached.
* `sla`: one visitor's socket, one request, two overlapping evaluators, a crash,
  three messages, replies or changes of status, a clock of 0..2 on a calendar
  with closing time, so that a deadline is set again after it was missed.
* `macro`: three requests, two actions, one of them a message; each request runs
  once and may die anywhere; the message is a card whose article may be gone.
  Three are needed for a failed run that is retried while another resumes it;
  `macro_double_click` needs two.
* `articles`: four calls, two contents and one deletion: a copy can be older
  than an edit, a restore and a deletion.
* `chat`: two calls of any two kinds, with the same id where the code lets them
  share one, a page load, a fault, one selection. A third call adds rows and no
  new meeting: calls only meet through an id or through the page.

No property depends on an action being cut off by a bound: the clock, crashes
and ids only stop adding behaviours. `CHECK_DEADLOCK FALSE` stands where every
call is made at most once, so that a run may really be over.

## 6. Fairness

* `slots`: weak fairness of each call's step (a process that is not killed goes
  on) and strong fairness of `LockCounter`: Postgres queues the waiters of a row
  lock, so one that keeps becoming available is granted. Nobody has to call.
* `ledger`: weak fairness of each call's step; strong fairness of *some* worker
  asking for a key again (an attempt is retried by the job machinery), and time
  passes. Without a later call nobody would look at the reservation, and the
  property speaks of exactly that.
* `scheduled`: cron starts the command again, a running invocation goes
  on (weak fairness of its step), time passes. Scheduling and cancelling are
  never forced, nor is a successful execution: `Execute` may fail every time.
* `engine`: weak fairness of each process's step. Nobody has to publish, edit or
  fail; a job left behind is taken by a worker's step.
* `assignment_desk`: strong fairness of each request's step, for the lock queue
  and for deadlock detection (`AbortVictim` is one of the steps).
* `sla`: strong fairness of each evaluator's step (the `sla-worker` of
  `docker-compose.staging.yml` starts it again and again; the row lock has a
  queue), and time passes. Messages, replies and saves are not forced.
* `chat`: weak fairness of a handler that runs and of the page's event loop
  (history, events, connecting). Nobody has to load a page, post, or lose
  anything.

## 7. Proofs

Every safety property that a passing run checks is also a theorem, for all
values of the constants or for those its named assumption allows. The
constants' own assumptions are the ASSUME of each module: their types, `NoX`
values outside their sets, and finiteness where something is counted or bounded
(conversations; keys and workers of the ledger, for its recycled primary keys).

**`ActionSlots_proofs`**: `TypeCorrect`, `SlotsBounded`, `GrantsDurable`,
`RefusalsRight`, `RefinesBoundedSlots`. `SlotsWithinLimit` is not inductive:
`CommitSlot` writes a counter value read two statements earlier. `SlotInv` adds
why that value is still right: an open transaction holds its correlation's lock and has seen the
committed counter (`LockedReadIsCurrent`); one that has inserted found no row of
its key and room (`InsertHasRoom`); and a counter counts exactly the committed
reservations (`CountExact`). `TypeStep` and `LockStep` go through the actions,
`CommitCounts` is the one step that adds a reservation, with the library's
cardinality facts, and `SlotStep` puts them together. In the refinement a commit
is a `Grant` (`CountExact` turns the code's comparison of the counter into the
abstract "full"); every other step leaves the reservations alone.

**`SideEffectLedger_proofs`**: `TypeCorrect`, `AnswersAreDone` and `RecordsStay`
hold for all constants. `LedgerInv` says that a primary key identifies one
reservation (`MineDistinct`, `RowsOwned`): the row a caller is about to complete
or delete by its key is its own, or gone. `NewIdFresh` is the counting argument
that `MaxRows` never cuts a behaviour off. `NoTwoRunners` assumes `PromptCalls`
(a call ends within the stale window): `PromptInv` adds that a running caller's
row is still there and too young to reclaim, and that what somebody is about to
reclaim is the very reservation judged too old. `RepeatsAccounted` assumes
`PromptCalls` too, and nothing else: crashes and exceptions after the effect are
counted, not excluded. It rests on `EffectsAccounted`: a key without a record or
a caller about to make one has only effects whose record was lost.

**`ScheduledActions_proofs`**: `TypeCorrect`, `AttemptsAreOwn`,
`AttemptsStayBounded`, `RuleSuccessesBounded` and `OutcomesAreEarned`, for all
constants: any number of workers, sweeps, admins, crashes, and invocations of any
length. Nothing is locked between claim and outcome, and a lock may be broken
while its holder works, so what orders the writers of a row is the number of its
attempt. `AttemptsInv` says that no two holders of a job have the same and none
has more than the row (`AttemptsCounted`; `RowsGrow`: the count never falls).
`AttemptsBounded` needs a budget (`PutBackBudget`): once a job has used its
attempts, each worker with an earlier one can put it back to PENDING once, so
attempts, the row's waiting to be claimed and the attempts of those workers
together stay below twice the maximum. `SuccessesWithinWorkers` needs another
(`RowBudget`): from the first success of a rule and chain on nobody passes the
guard, so the successes and the workers that are past it are no more than the
workers, of which there are finitely many. `AboutToWrite` says that whoever is
about to write an outcome has its reason, and `ReasonsLast` that a reason, once
there, stays.

**`ConversationAssignment_proofs`**: `TypeCorrect` and `NothingIsSnatched` with
all operations allowed, updates included, and `HistoryTells` for all services
(`ServicesOnly`: no `PATCH`, which writes an assignee back without a row).
`LockInv` says that a transaction under way holds its conversation's row
(`HoldsConversation`), and that therefore what it read, no assignee and the
claimant's team, is still so (`TakesFromNobody`); `AllGoOn` is the lemma that no
step of anybody else touches a locked conversation. `DeskInv` adds that the
history is true, and `AllRecorded` that no assignee changes without its row.
`CapacityKept` assumes `GuardedOnly`: only claims and escalations hand out
conversations, and no update does (section 8 shows why). `CapacityInv` adds
that a caller about to commit holds the agent's presence row and the agent still
has room (`RoomKept`); every other step can only shrink what counts
(`CapacityOfStep`), by the cardinality lemma `CountOf`.

**`AutomationEngine_proofs`**: `TypeCorrect`, `ChainsAreBounded`, `RulesRunOnce`,
`SlotsAreBounded`. Stacks are sequences of frames over a growing set of events;
the first lemmas say what appending, popping and replacing the last frame do.
`EngineInv` says that an event's depth is the true number of links
(`Chained`), that only events within the depth have rows (`RowsInBounds`), and
what a frame is entitled to (`FrameOK`): one past its guard has seen that its
rule ran for no other event of this process, which stays true because only the
top frame moves and frames below are inside an action (`StackOK`). `TypeOK`
needs that invariant, `RestTyped` for the rest of the state (the actions that
remain, jobs, the rules a frame still has to try), and that the rules of an
event are a sequence of rules: `Filtered` says what a filter returns.

**`SlaClock_proofs`**: `TypeCorrect`, `BreachesFit`, `AlertsAreSingle`. The
evaluator saves from a copy; `HolderSees` says it is the row itself while it
holds the lock, which needs that no service call saves meanwhile. `Counted`
relates the alerts stored to the markers on the row, and those pushed to the ones
stored, under way and undone, and `PatchReal` says that a pending
save is of a call still to finish. The module assumes `Never` to be neither a
time nor an evaluator.

**`Workspace_proofs`**, macros: `TypeCorrect`, `SuccessIsReal`,
`MessagesAreSentOnce`, `ServicesAreAccounted`, with any requests overlapping,
failing and dying. `Effective` says that every record of a success follows an
effect, and `Walked` that a request leaves a record of each action it passed. A
message is sent once because its id is unique, whatever the records say. For the
other actions `Accounted` is a budget: how often one was carried out, and how
many requests at work are still entitled to do so by what they read when they
began (`Owing`), are together no more than one, the effects that left no record
and the requests that began while another was at work.

**`Workspace_proofs`**, rules: `TeamsStayHome`, `CreatorsSeeTheirMacros`,
`CreatorsSeeTheirReplies`, `OnlyAdminsWiden`, `RepliesKeepReaders`,
`TenantsAreIsolated`, `DraftsSave`, `RunsAreSeen`, `AcceptedActionsRun`,
`FallbacksNeverLoop`. `TenantsAreIsolated` compares two organisations that agree
about one workspace and the members of the row's own team, wherever that is at
home, for a macro accepts any team. These have no behaviour: each is
about one request to any organisation, and an invariant that one request keeps
holds after any number. Where membership of a team must imply a role in its
workspace the theorem has the hypothesis `MembersBelong`, and `TeamsStayHome`
shows that an organisation without members has it and that `add_member` and
`remove_member` keep it. The only assumption on constants is that `None` is no
user, team, workspace or role. For queues, `Loopless` says that a rank falls
along the fallbacks. `QueueSerializer.validate` only looks at the chain from the
new fallback to its end (`ChainWalks`); if the queue to be changed is not on it,
the chain's queues keep their ranks and all others move above them
(`FitsIsLoopless`). No sequence of creations, changes and deletions, one after
another, then closes a loop for the walk of an automatic assignment; two
requests at once are not part of this.

**`CustomerView_proofs`**, articles: `TypeCorrect`, `ArticlesAreReproducible`,
`ViewsAreReal`. `CopiesAreKept` says what a copy loaded without a lock still is:
a content with a revision of its own, unless the article was deleted since;
`Numbered` that numbers are taken from the revisions, not from the copy;
`CopiesLag` that a copy's counter is behind the views.

**`CustomerView_proofs`**, chat: `ChatsAreConsistent`, `NothingElseIsLacking`,
whatever calls race, sockets drop and pages reload. `CallsInOrder` says what
each stage of a call has behind it: whoever has a row is past its insert, and
whoever still has events to send has a row and sends its own kind's only.
`PageInOrder` says that everything on a page, under way to it or in the history
it is reading is a message the customer may see, and that no two bubbles have
one id. `Accounted` is the delivery promise: once a call has sent its event, its
id is on the page, or its row in the socket's queue or in a history asked for or
read, or it was missed for a reason the model records. `AllRenderedInOrder`
carries these over a whole history, by induction over its messages, with the
widget's test by id at each.

**`CustomerView_proofs`**, categories: `CategoriesStayATree`, in both
directions. `validate_parent` climbs from the new parent; `ClimbsToAll` shows,
by induction on the number of categories not met yet, that it meets the least
set with the parent and all parents in it (`LeastAbove`). If the category is not
in that set the set keeps its ranks and the rest moves above it; if the change
leaves a tree, what ranks no higher than the new parent is such a set without
the category. `Climb` has a solution in any case (`ClimbExists`), so that the
recursion may be unfolded; that it ends needs finitely many categories.

Induction over data is available in the form of `Induction`: of the numbers at
which a property fails, the library's well-foundedness of `<` on the naturals
gives a least one. The library's induction theorems themselves take an operator
as a parameter, which no installed prover instantiates; the lemma takes a set.
`Recursion` says that a function defined from its predecessor exists, so that a
recursive definition may be unfolded. Both, with `Filtered`, are stated in the
two modules that use them, `AutomationEngine_proofs` and `CustomerView_proofs`.

Model-checked only: every liveness property (`CallsAnswered`, `ReservationsEnd`,
`JobsSettled`, `EventsSettled`, `RequestsEnd`, `OverdueAnnounced`,
`ShownOrMissed`), since fairness and ENABLED are out of the proof system's
reach; and the ASSUMEs without a star, which compute. `ConditionRules` recurses
over condition trees with a RECURSIVE operator and only the `engine` run's MC
module uses it, so nothing about it can be proved.

## 8. Known limits

Besides the two promises of section 4 the models show the following. First,
what a docstring, comment or test says and the code does not keep. The
statements are definitions of the modules; adding one to the configuration named,
with the change in brackets, makes TLC show it violated within seconds. (For the
assignment module leave out the configuration's own properties and use `Spec`.)

| Statement | Configuration | What is said | What happens |
|---|---|---|---|
| `OneWorkerPerJob` | `MCScheduledActions` | "two overlapping worker processes can never claim - and therefore never execute - the same job twice" (`process_automation_jobs.py:11-12`) | `locked_at` is the start of the invocation (`:187`): a job claimed late in a long batch has a lock that is already stale; another sweep requeues it, and both run it |
| `AttemptsWithinMax` | `MCScheduledActions` | retried "until `max_attempts` is reached" (`:15-16`) | a worker that outlived its lock decides on the attempts it remembers (`:330`) and puts a settled job back to PENDING |
| `OnlyStaleLocksBroken` | `MCScheduledActions` | "two recovery sweeps racing each other can't both reclaim the same stale row" (`:25-26`) | the second sweep looks at the status only (`:132`), and finds the claim that followed the first |
| `CancelledStays` | `MCScheduledActions` | "confirm it stays cancelled and never executes" (`AUTOMATION_ENGINE_MANUAL_CHECKLIST.md:34`) | the endpoint checks, then saves, without a lock (`automations/views.py:268-277`); a worker claims in between, and its outcome replaces CANCELLED |
| `OneSuccessPerRule` | `MCScheduledActions` | the guard is against a rule's "follow-through firing more than once in one correlation chain" (`process_automation_jobs.py:293-295`) | two siblings pass the unlocked guard (`:296`) together and both succeed |
| `NeverDoubleFires` | `MCSlaClock` | "running the command twice in a row, or two overlapping runs, never double-fires" (`evaluate_sla.py:9-12`) | the alert is pushed inside the transaction (`:163`, `:177`, `notifications/services.py:14-22`); a run that dies before the commit leaves no mark, and the next alerts again |
| `HistoryTellsAssignee` | `MCAssignmentDesk` ("update" added to `Operations`) | "the full history of a conversation's handling is always reconstructable" (`conversations/models.py:116-118`) | a `PATCH` saves the whole row as it was before a claim, and adds no history row |
| `CapacityHolds` | `MCAssignmentDesk` ("assign" added) | "capacity is never bypassed" (`KNOWLEDGE_BASE_AND_MACROS_MANUAL_CHECKLIST.md:59`) | two assignments pass the check before the transaction together (`conversations/services.py:88`) |
| `CapacityHolds` | `MCAssignmentDesk` (`Operations = {"auto"}`, `Automatic = {q1}`, `InitialQueue <- MCQueued`) | `test_auto_assign_across_two_operators_never_exceeds_either_capacity` (`tests_capacity_stress.py:170`) | automatic assignment counts without locking the agent (`queues/services.py:74`) |
| `TransfersStick` | `MCAssignmentDesk` (as before, `Operations = {"return", "transfer"}`) | the "receiving team must claim/assign explicitly" (`conversations/services.py:178`) | a transfer between the two transactions of `return_to_queue` (`:158`) is undone by the second |
| `EveryEventHandled` | `MCChatDelivery` | `conversation.internal_note_created` is among the events operators are sent (`TEAM_OPERATIONS_LOCAL_RUN.md:43`); every event of a group needs a handler "or Channels errors on dispatch" (`consumers.py:37-39`) | the dashboard's consumer has none for it (`views.py:243`), nor for `automation_message`, `macro_message`, `status_updated` and `article_shared`: an internal note closes the socket of every operator who has the conversation open, and the dashboard does not open it again |

The checked properties of the same components say what the code keeps in spite
of these: they hold with stale locks, two sweeps, admins, crashes, late outcomes
and updates among the steps. What follows contradicts no statement of the
repository that we know of.

**Jobs.** A crash between the execution's success and the job's (`:262`, `:263`)
makes the retry meet its own success in the guard and report SKIPPED.
(`tests_scheduling.py:178-206` is about a job without a rule, which the guard
does not concern.)

**Assignment.** Escalations of two teams with common supervisors hold each
other's next candidate: the database aborts one (`AbortVictim`), whose request
fails although a candidate was free. Candidates come from the team the view
loaded, and may be a former team's after a transfer. Reopening, or a status that
is not final, brings a conversation back to an agent who has filled up. Support
views save the whole conversation (`views.py:587`, `:639`).

**SLA.** `mark_resolved` and `mark_reopened` run after the transaction, so close
and reopen may be applied in the opposite order; `set_status` away from CLOSED
leaves the clock resolved. A widget socket opened before the first response
never starts the next-response clock, and a dashboard socket opened before a
clock started never clears it. The evaluator does not look at the status again
under the lock, so a conversation closed meanwhile is still announced. The
summary's "approaching" goes by `notified_at`, which `clear_next_response` does
not reset and the inbox filter leaves out.

**Engine.** The same-rule guard is unlocked: a job and the chain it came from,
in two processes, may both run a rule (`SameRuleOnce` speaks of one process).
Events of a process that died between its commit and the rules are never
processed again (`lost` in `EventsSettled`).

**Macros.** The second of two overlapping runners can overwrite a SUCCEEDED
record with FAILED, so that a retry repeats the action. Resuming a card that was
sent already fails once its article is gone. An admin's change of a macro accepts
a team of another workspace (`macros/serializers.py:25-30`).
`cancel_macro_execution` is called from nowhere. A supervisor who creates a team
macro cannot change it later; a deactivated quick reply cannot be reached again
through the API; an admin outside the team cannot reach its quick replies.
`{article_title}` is allowed in templates and no caller supplies it.

**Knowledge base.** A content or detail edit from an older copy reverts status
and content of another request's; a full `save()` re-inserts an article deleted
meanwhile; views crossing each other are counted once. Renaming a category
leaves the articles' `search_text` as it was. A title typed with the other yeh
or kaf is found and not ranked first. A paragraph directly after a list is
rendered before it. Inline Markdown is applied to the tags of earlier passes.
`validate_parent` checks the workspace at creation only. A draft can be shared
as a card whose link then answers 404; articles of an inactive category are
still listed under its slug.

**Conversations.** `get_or_create` has no unique constraint behind it
(`views.py:368`): two starts at once, or a reopened conversation beside a new
one, leave two open conversations and every later start fails; the same holds of
identified visitors. `VisitorsComeBack` assumes starts in turn and no reopening.
Two ratings with different ids both insert a message (`views.py:530`). The
widget's `mark_read` also marks internal notes, so operators see a note as
"seen"; `unread_count` counts an operator's own messages until they mark the
conversation read. The consultant shown to the visitor is updated by assign and
claim, and when the assigned operator connects, not by transfer, unassign or
automatic assignment. Support messages over a socket leave the status alone
(`SupportWaitsForTheOther` is about the requests).

**Operations.** A scheduler whose every cycle fails still refreshes its
heartbeat. The walk that keeps queue fallbacks from forming a loop looks at one
request's view: two at once can close a loop. The project gate accepts an admin
of any workspace, and creation takes the first membership. A second seeding run
overwrites the only copy of the generated passwords; one that dies between an
account and its password leaves an account nobody can log in to. Platform
support's `assign` never saves `assigned_to`.

## 9. Not modelled

* Login, logout and the profile (Django's and the token library's), middleware
  (request ids, headers), the registry endpoint (constants).
* User interfaces: the platform dashboard, and of the operator dashboard and the
  widget everything but starting, sending, receiving and reconnecting. Typing and
  seen events, which change no state.
* Text: inline Markdown formatting, limits in bytes, keyword limits, wording of
  notifications and branding.
* Append-only rows nobody reads back (audit log).
* Deployment descriptors, launchers, browser tests.
* Two starts of one visitor's chat at once, and whole-row saves of support
  conversations: the repository states nothing about them (section 8).
* In `ConversationAssignment`: notifications and events after commit, the
  round-robin cursor, SLA calls. Priority is in `ChatRules`, clocks in
  `SlaClock`; no model composes the three, because they share only the
  conversation row's columns, which each writes by `update_fields`: all but the
  viewset's `PATCH` (modelled as far as assignment goes, `BeginUpdate`) and the
  support views, which save the whole row.
* Which agent a tie goes to, and what conditions and actions say and do in
  `AutomationEngine`: choices.

## 10. Plan

All steps of the plan are done; what was learnt under way is in section 8.

| Step | Modules | Runs | Theorems |
|---|---|---|---|
| 1 | `BoundedSlots`, `ActionSlots` | `slots` | `SlotInv`, refinement |
| 2 | `ScheduledActions`, `SideEffectLedger` | `scheduled`, `ledger`, `ledger_crash` | `LedgerInv`, `AttemptsInv`, `PutBackBudget`, `RowBudget` |
| 3 | `ConversationAssignment` | `assignment_*` | `LockInv`, `DeskInv`, `CapacityInv` |
| 4 | `AutomationEngine`, `ConditionRules` | `engine` | `EngineInv` |
| 5 | `SlaClock`, `SlaRules`, `OperationsRules` | `sla` | `SlaInv` |
| 6 | `MacroExecution`, `WorkspaceRules`, `ApiRules` | `macro`, `macro_double_click` | `MacroInv`, `Accounted`, `TenantsAreIsolated`, `FallbacksNeverLoop` |
| 7 | `KnowledgeArticle`, `KnowledgeRules` | `articles` | `ArticleInv` |
| 8 | `ChatDelivery`, `ChatRules` | `chat` | `ChatInv` |

What remains worthwhile: the composition of `AutomationEngine` with
`ScheduledActions`, whose jobs it abstracts to one step; that both hand out
slots as `BoundedSlots` does, as a refinement; theorems for more of the ASSUMEs
(`ReadingIsPersonal`, `ReceiptsTellWhoRead`, `PriorityHistoryChains`); and two simultaneous starts of a chat, once the code says
what they should come to.

## 11. Running

    tlasany ConversationAssignment.tla
    tlc -workers 2 -config MCActionSlots.cfg MCActionSlots
    tlapm ActionSlots_proofs.tla

Each run takes from a few seconds to four minutes with two workers. `PROJECT.json` maps
every definition that models code to the lines it stands for.
